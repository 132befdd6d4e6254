----------------------------- MODULE BoundedFifo -----------------------------
(***************************************************************************)
(* What the producer-consumer programs promise: items pass, in order, each *)
(* once and whole, through a buffer of bounded size.                       *)
(***************************************************************************)
EXTENDS Naturals, Sequences

CONSTANTS BUFFER_SIZE, RUNS

VARIABLES
    queue,      \* the items in the buffer; the k-th one produced is k
    got         \* the items consumed

FifoInit == queue = <<>> /\ got = <<>>

Put ==
    /\ Len(queue) < BUFFER_SIZE /\ Len(got) + Len(queue) < RUNS
    /\ queue' = Append(queue, Len(got) + Len(queue) + 1)
    /\ UNCHANGED got

Get ==
    /\ queue # <<>>
    /\ got' = Append(got, Head(queue))
    /\ queue' = Tail(queue)

FifoSpec == FifoInit /\ [][Put \/ Get]_<<queue, got>>
=============================================================================
