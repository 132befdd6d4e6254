--------------------------- MODULE ProducerConsumer ---------------------------
(***************************************************************************)
(* procon1.c to procon4.c of sync-examples.  Init chooses the program.     *)
(* produce and consume have the same shape: wait until there is room, or an*)
(* item; copy it, which takes two steps here; count it.  Loads and stores  *)
(* happen in program order.                                                *)
(***************************************************************************)
EXTENDS Naturals, Sequences

CONSTANTS BUFFER_SIZE, RUNS

ProducerConsumerAssumption == BUFFER_SIZE \in Nat \ {0} /\ RUNS \in Nat

VARIABLES
    program,
    buffer,         \* the halves of each struct data; item k is written <<k, k>>
    consumed,
    until,          \* produced_until and consumed_until
    lock,
    pc, r           \* of both threads: the next step, the round

Programs == {"procon1", "procon2", "procon3", "procon4"}

vars == <<program, buffer, consumed, until, lock, pc, r>>

Roles == {"produce", "consume"}
Other(t) == IF t = "produce" THEN "consume" ELSE "produce"
Joined == \A t \in Roles : r[t] = RUNS

Items == 0 .. RUNS

TypeOK ==
    /\ program \in Programs
    /\ buffer \in [0 .. BUFFER_SIZE - 1 -> Items \X Items]
    /\ consumed \in [1 .. RUNS -> Items \X Items]
    /\ until \in [Roles -> 0 .. RUNS] /\ r \in [Roles -> 0 .. RUNS]
    /\ pc \in [Roles -> {"start", "test", "first", "second", "count", "wait", "wake"}]
    /\ lock = (program \in {"procon2", "procon4"}
                  /\ \E t \in Roles : pc[t] \in {"test", "first", "second", "count"})

Init ==
    /\ program \in Programs
    /\ buffer = [i \in 0 .. BUFFER_SIZE - 1 |-> <<0, 0>>]
    /\ consumed = [k \in 1 .. RUNS |-> <<0, 0>>]
    /\ until = [t \in Roles |-> 0]
    /\ lock = FALSE
    /\ pc = [t \in Roles |-> "start"] /\ r = [t \in Roles |-> 0]

Goto(t, from, to) == r[t] < RUNS /\ pc[t] = from /\ pc' = [pc EXCEPT ![t] = to]

NextRun(t) == r' = [r EXCEPT ![t] = @ + 1]

Ready(t) ==
    IF t = "produce" THEN until["consume"] + BUFFER_SIZE > r[t] ELSE until["produce"] > r[t]

\* Half h of item r[t] + 1 is copied into the buffer, or out of it.
CopyHalf(t, h) ==
    LET slot == r[t] % BUFFER_SIZE
    IN  IF t = "produce"
        THEN buffer' = [buffer EXCEPT ![slot][h] = r[t] + 1] /\ UNCHANGED consumed
        ELSE consumed' = [consumed EXCEPT ![r[t] + 1][h] = buffer[slot][h]] /\ UNCHANGED buffer

Copy(t, to) ==
    \/ Goto(t, "first", "second") /\ CopyHalf(t, 1) /\ UNCHANGED r
    \/ /\ Goto(t, "second", to) /\ CopyHalf(t, 2)
       /\ IF to = "start" THEN NextRun(t) ELSE UNCHANGED r

NoCopy == UNCHANGED <<buffer, consumed>>
CountOne(t) == until' = [until EXCEPT ![t] = @ + 1]

Acquire(t) ==
    /\ Goto(t, "start", "test") /\ ~lock /\ lock' = TRUE
    /\ NoCopy /\ UNCHANGED <<until, r>>

Found(t) ==
    /\ Goto(t, "test", "first") /\ Ready(t)
    /\ NoCopy /\ UNCHANGED <<until, lock, r>>

\* No waiting at all.
Procon1(t) ==
    /\ \/ Goto(t, "start", "first") /\ NoCopy /\ UNCHANGED r
       \/ Copy(t, "start")
    /\ UNCHANGED <<until, lock>>

\* Slip: the lock is kept when the test fails.
Procon2Kept(t) ==
    \/ Acquire(t) \/ Found(t)
    \/ Goto(t, "test", "start") /\ ~Ready(t) /\ NoCopy /\ UNCHANGED <<until, lock, r>>
    \/ Copy(t, "count") /\ UNCHANGED <<until, lock>>
    \/ Goto(t, "count", "start") /\ CountOne(t) /\ lock' = FALSE /\ NextRun(t) /\ NoCopy

\* The lock is taken and released until the test succeeds.
Procon2(t) ==
    \/ Acquire(t) \/ Found(t)
    \/ /\ Goto(t, "test", "start") /\ ~Ready(t)
       /\ lock' = FALSE
       /\ NoCopy /\ UNCHANGED <<until, r>>
    \/ Copy(t, "count") /\ UNCHANGED <<until, lock>>
    \/ Goto(t, "count", "start") /\ CountOne(t) /\ lock' = FALSE /\ NextRun(t) /\ NoCopy

\* Slip: the item is counted before it has been copied.
Procon3Early(t) ==
    /\ \/ Goto(t, "start", "first") /\ Ready(t) /\ CountOne(t) /\ NoCopy /\ UNCHANGED r
       \/ Copy(t, "start") /\ UNCHANGED until
    /\ UNCHANGED lock

\* No lock: until is atomic, and spun on.
Procon3(t) ==
    /\ \/ Goto(t, "start", "first") /\ Ready(t) /\ NoCopy /\ UNCHANGED <<until, r>>
       \/ Copy(t, "count") /\ UNCHANGED until
       \/ Goto(t, "count", "start") /\ CountOne(t) /\ NextRun(t) /\ NoCopy
    /\ UNCHANGED lock

\* Slip: nobody is woken.
Procon4Quiet(t) ==
    \/ Acquire(t) \/ Found(t)
    \/ Goto(t, "test", "wait") /\ ~Ready(t) /\ lock' = FALSE /\ NoCopy /\ UNCHANGED <<until, r>>
    \/ Copy(t, "count") /\ UNCHANGED <<until, lock>>
    \/ Goto(t, "count", "start") /\ CountOne(t) /\ lock' = FALSE /\ NextRun(t) /\ NoCopy

\* lock_wait instead of spinning; lock_wake_up after the lock has been released.  Who
\* is woken takes the lock again and repeats the test.
Procon4(t) ==
    \/ Acquire(t) \/ Found(t)
    \/ Goto(t, "test", "wait") /\ ~Ready(t) /\ lock' = FALSE /\ NoCopy /\ UNCHANGED <<until, r>>
    \/ Copy(t, "count") /\ UNCHANGED <<until, lock>>
    \/ Goto(t, "count", "wake") /\ CountOne(t) /\ lock' = FALSE /\ NoCopy /\ UNCHANGED r
    \/ /\ r[t] < RUNS /\ pc[t] = "wake"
       /\ pc' = [s \in Roles |-> IF s = t \/ pc[s] = "wait" THEN "start" ELSE pc[s]]
       /\ NextRun(t)
       /\ NoCopy /\ UNCHANGED <<until, lock>>

Step(t) ==
    /\ \/ program = "procon1" /\ Procon1(t)
       \/ program = "procon2" /\ Procon2(t)
       \/ program = "procon3" /\ Procon3(t)
       \/ program = "procon4" /\ Procon4(t)
    /\ UNCHANGED program

\* pthread_cond_wait may return without a broadcast.
SpuriousWakeup(t) ==
    /\ Goto(t, "wait", "start")
    /\ UNCHANGED <<program, buffer, consumed, until, lock, r>>

\* t waits for the mutex, or spins on the other one's count.
Blocked(t) ==
    /\ r[t] < RUNS /\ pc[t] = "start"
    /\ lock \/ (program = "procon3" /\ ~Ready(t))
    /\ UNCHANGED vars

Next ==
    \/ \E t \in Roles : Step(t) \/ SpuriousWakeup(t) \/ Blocked(t)
    \/ Joined /\ UNCHANGED vars

Spec == Init /\ [][Next]_vars /\ \A t \in Roles : WF_vars(Step(t))

-----------------------------------------------------------------------------
(* Properties *)

\* What has been copied out is what the queue held; a torn copy is no item.
Whole(d) == IF d[1] = d[2] THEN d[1] ELSE 0

Queue == [i \in 1 .. until["produce"] - until["consume"] |-> until["consume"] + i]
Got == [k \in 1 .. until["consume"] |-> Whole(consumed[k])]

Fifo == INSTANCE BoundedFifo WITH queue <- Queue, got <- Got

FifoSteps == Fifo!Put \/ Fifo!Get \/ UNCHANGED <<Queue, Got>>

\* The programs that count are bounded queues: the items arrive whole, once, in order,
\* and none is overwritten before it has been consumed.
ImplementsFifo == Fifo!FifoSpec

\* Unless wakeups without a cause go on for ever, both threads can be joined.  procon2
\* is left out: nothing makes its mutex pass from the thread that spins on it.
AllJoin ==
    (program # "procon2" /\ <>[][\A t \in Roles : ~SpuriousWakeup(t)]_vars) => <>Joined
=============================================================================
