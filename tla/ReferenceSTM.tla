----------------------------- MODULE ReferenceSTM -----------------------------
(***************************************************************************)
(* The reference library (reference/tm.c over shared-lock.c): one          *)
(* reader-writer lock around each transaction, which works on the memory   *)
(* itself, and a doubly linked list of the segments it allocates.          *)
(***************************************************************************)
EXTENDS Integers, FiniteSets

CONSTANTS
    Tx,
    Nodes,          \* what posix_memalign may return
    NULL, Start,    \* the null pointer; the first segment
    Values,         \* contents of a word; one word for each segment is enough here
    MaxOps          \* bound: calls of a transaction between tm_begin and tm_end

ASSUME ReferenceAssumption ==
    /\ Cardinality({NULL, Start}) = 2 /\ {NULL, Start} \cap Nodes = {}
    /\ IsFiniteSet(Nodes) /\ IsFiniteSet(Tx) /\ NULL \notin Tx
    /\ 0 \in Values
    /\ MaxOps \in Nat

VARIABLES
    readers, writer,        \* the lock
    memory,                 \* the contents of the segments that exist
    allocs, prev, next,     \* the list
    destroyed,
    pc, ops,
    got,                    \* what the last tm_read of each transaction returned
    snap                    \* history: the memory when it began

lockVars == <<readers, writer>>
listVars == <<allocs, prev, next>>
vars == <<lockVars, memory, listVars, destroyed, pc, ops, got, snap>>

Live == DOMAIN memory \ {Start}     \* the nodes that are allocated
NodeOrNull == Nodes \union {NULL}

TypeOK ==
    /\ readers \subseteq Tx /\ writer \in Tx \union {NULL}
    /\ Start \in DOMAIN memory /\ Live \subseteq Nodes
    /\ \A c \in DOMAIN memory : memory[c] \in Values
    /\ allocs \in NodeOrNull
    /\ prev \in [Nodes -> NodeOrNull] /\ next \in [Nodes -> NodeOrNull]
    /\ destroyed \in BOOLEAN
    /\ pc \in [Tx -> {"askRead", "askWrite", "read", "write", "end"}]
    /\ ops \in [Tx -> 0 .. MaxOps] /\ got \in [Tx -> Values]

Init ==
    /\ readers = {} /\ writer = NULL
    /\ memory = [c \in {Start} |-> 0]
    /\ allocs = NULL
    /\ prev = [n \in Nodes |-> NULL] /\ next = [n \in Nodes |-> NULL]
    /\ destroyed = FALSE
    /\ pc \in [Tx -> {"askRead", "askWrite"}]
    /\ ops = [t \in Tx |-> 0]
    /\ got = [t \in Tx |-> 0] /\ snap = [t \in Tx |-> <<>>]

Open == readers \union ({writer} \ {NULL})

Starts(t, from, to) ==
    /\ pc[t] = from
    /\ pc' = [pc EXCEPT ![t] = to]
    /\ snap' = [snap EXCEPT ![t] = memory]
    /\ UNCHANGED <<memory, listVars, destroyed, ops, got>>

BeginReadOnly(t) ==
    /\ writer = NULL
    /\ readers' = readers \union {t}
    /\ Starts(t, "askRead", "read") /\ UNCHANGED writer

\* Slip: the lock is tried against other writers alone.
BeginBesideReaders(t) ==
    /\ writer = NULL
    /\ writer' = t
    /\ Starts(t, "askWrite", "write") /\ UNCHANGED readers

BeginReadWrite(t) ==
    /\ writer = NULL /\ readers = {}
    /\ writer' = t
    /\ Starts(t, "askWrite", "write") /\ UNCHANGED readers

\* The lock cannot be taken: there is no transaction.
BeginFails(t) ==
    /\ pc[t] \in {"askRead", "askWrite"}
    /\ pc' = [pc EXCEPT ![t] = "end"]
    /\ UNCHANGED <<lockVars, memory, listVars, destroyed, ops, got, snap>>

Operates(t) ==
    /\ t \in Open /\ ops[t] < MaxOps
    /\ ops' = [ops EXCEPT ![t] = @ + 1]
    /\ UNCHANGED <<lockVars, destroyed, pc, snap>>

Read(t) ==
    /\ Operates(t)
    /\ \E c \in DOMAIN memory : got' = [got EXCEPT ![t] = memory[c]]
    /\ UNCHANGED <<memory, listVars>>

Write(t) ==
    /\ pc[t] = "write" /\ Operates(t)
    /\ \E c \in DOMAIN memory, v \in Values : memory' = [memory EXCEPT ![c] = v]
    /\ UNCHANGED <<listVars, got>>

\* Slip: the words are left as posix_memalign returns them.
AllocDirty(t) ==
    /\ pc[t] = "write" /\ Operates(t)
    /\ \E n \in Nodes \ Live :
        /\ prev' = [m \in Nodes |-> IF m = n THEN NULL ELSE IF m = allocs THEN n ELSE prev[m]]
        /\ next' = [next EXCEPT ![n] = allocs]
        /\ allocs' = n
        /\ memory' = [c \in DOMAIN memory \union {n} |-> IF c = n THEN NULL ELSE memory[c]]
    /\ UNCHANGED got

\* A new node goes in front; no memory leaves things as they are.
Alloc(t) ==
    /\ pc[t] = "write" /\ Operates(t)
    /\ \E n \in Nodes \ Live :
        /\ prev' = [m \in Nodes |-> IF m = n THEN NULL ELSE IF m = allocs THEN n ELSE prev[m]]
        /\ next' = [next EXCEPT ![n] = allocs]
        /\ allocs' = n
        /\ memory' = [c \in DOMAIN memory \union {n} |-> IF c = n THEN 0 ELSE memory[c]]
    /\ UNCHANGED got

AllocFails(t) ==
    /\ pc[t] = "write" /\ Operates(t)
    /\ UNCHANGED <<memory, listVars, got>>

\* Slip: the node behind still points at the one that is gone.
UnlinkForward(n) ==
    /\ allocs' = IF prev[n] = NULL THEN next[n] ELSE allocs
    /\ next' = [m \in Nodes |-> IF m = prev[n] THEN next[n] ELSE next[m]]
    /\ UNCHANGED prev

Unlink(n) ==
    /\ allocs' = IF prev[n] = NULL THEN next[n] ELSE allocs
    /\ next' = [m \in Nodes |-> IF m = prev[n] THEN next[n] ELSE next[m]]
    /\ prev' = [m \in Nodes |-> IF m = next[n] THEN prev[n] ELSE prev[m]]

Free(t) ==
    /\ pc[t] = "write" /\ Operates(t)
    /\ \E n \in Live :
        /\ Unlink(n)
        /\ memory' = [c \in DOMAIN memory \ {n} |-> memory[c]]
    /\ UNCHANGED got

\* Slip: a writer gives back a shared access.
EndShared(t) ==
    /\ t \in Open
    /\ readers' = readers \ {t} /\ UNCHANGED writer
    /\ pc' = [pc EXCEPT ![t] = "end"]
    /\ snap' = [snap EXCEPT ![t] = <<>>]
    /\ UNCHANGED <<memory, listVars, destroyed, ops, got>>

End(t) ==
    /\ t \in Open
    /\ readers' = readers \ {t}
    /\ writer' = IF writer = t THEN NULL ELSE writer
    /\ pc' = [pc EXCEPT ![t] = "end"]
    /\ snap' = [snap EXCEPT ![t] = <<>>]
    /\ UNCHANGED <<memory, listVars, destroyed, ops, got>>

\* The nodes that are met on the way from allocs.
Chain[k \in 0 .. Cardinality(Nodes)] ==
    IF k = 0 THEN allocs ELSE IF Chain[k - 1] = NULL THEN NULL ELSE next[Chain[k - 1]]

Listed == {Chain[k] : k \in 0 .. Cardinality(Nodes)} \ {NULL}

\* Slip: the walk stops before the last node.
DestroyButLast ==
    /\ \A t \in Tx : pc[t] = "end"
    /\ ~destroyed /\ destroyed' = TRUE
    /\ memory' = [c \in DOMAIN memory \ {n \in Listed : next[n] # NULL} |-> memory[c]]
    /\ allocs' = NULL
    /\ UNCHANGED <<lockVars, prev, next, pc, ops, got, snap>>

Destroy ==
    /\ \A t \in Tx : pc[t] = "end"
    /\ ~destroyed /\ destroyed' = TRUE
    /\ memory' = [c \in DOMAIN memory \ Listed |-> memory[c]]
    /\ allocs' = NULL
    /\ UNCHANGED <<lockVars, prev, next, pc, ops, got, snap>>

Begins(t) == BeginReadOnly(t) \/ BeginReadWrite(t)

Operation(t) == Read(t) \/ Write(t) \/ Alloc(t) \/ AllocFails(t) \/ Free(t)

Next ==
    \/ \E t \in Tx : Begins(t) \/ BeginFails(t) \/ Operation(t) \/ End(t)
    \/ Destroy
    \/ destroyed /\ UNCHANGED vars

Spec == Init /\ [][Next]_vars

\* A transaction goes on until tm_end, and waits for the lock for ever only if others
\* keep it for ever.
FairSpec ==
    /\ Spec
    /\ \A t \in Tx : WF_vars(Begins(t) \/ End(t))
    /\ WF_vars(Destroy)

-----------------------------------------------------------------------------
(* Properties *)

Memory == INSTANCE SerialMemory WITH
    store <- IF writer = NULL THEN memory ELSE snap[writer],
    open <- Open,
    base <- snap,
    local <- [t \in Tx |-> IF t \in Open THEN memory ELSE <<>>]

SerialSteps == destroyed' \/ Memory!SerialNext \/ UNCHANGED <<Memory!serialVars>>

\* Transactions are atomic and see a fixed memory although they share one: what a
\* reader has begun with never changes under it, and what a writer does to words
\* and segments, one call at a time, counts as committed at tm_end only.
ImplementsSerialMemory == Memory!SerialInit /\ [][SerialSteps]_vars

\* The list holds the allocated nodes and no others, and can be walked both ways,
\* in whatever order they were inserted, freed and their addresses given out again.
\* tm_destroy leaves none of them behind.
ListSound ==
    IF destroyed THEN Live = {} ELSE
    /\ Listed = Live
    /\ \A n \in Live :
        /\ (prev[n] = NULL) <=> (n = allocs)
        /\ prev[n] # NULL => prev[n] \in Live /\ next[prev[n]] = n
        /\ next[n] # NULL => next[n] \in Live /\ prev[next[n]] = n

\* Every transaction gets the lock and ends, and the region can be destroyed.
EveryTransactionEnds == <>destroyed
=============================================================================
