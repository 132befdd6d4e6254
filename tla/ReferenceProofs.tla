---------------------------- MODULE ReferenceProofs ----------------------------
(***************************************************************************)
(* Proofs about ReferenceSTM, for any set of transactions and any finite   *)
(* set of nodes: the lock makes the library a serial memory, step by step; *)
(* and the doubly linked list, whose links are all the library knows of    *)
(* its segments, holds each allocated node once, whatever is inserted and  *)
(* freed.                                                                  *)
(***************************************************************************)
EXTENDS ReferenceSTM, FiniteSetTheorems, WellFoundedInduction, TLAPS

\* Who has the lock, and what it has begun with: nothing changes under a reader.
LockInv ==
    /\ writer # NULL => readers = {}
    /\ \A t \in Tx : (pc[t] = "read") <=> (t \in readers)
    /\ \A t \in Tx : (pc[t] = "write") <=> (t = writer)
    /\ snap = [t \in Tx |-> snap[t]]
    /\ \A t \in readers : snap[t] = memory
    /\ \A t \in Tx \ Open : snap[t] = <<>>

\* The allocated nodes in the order of the list.
At(k, l, i) == IF i \in 1 .. k THEN l[i] ELSE NULL

Ordered(k, l) ==
    /\ l \in [1 .. k -> Live]
    /\ \A i, j \in 1 .. k : l[i] = l[j] => i = j
    /\ \A n \in Live : \E i \in 1 .. k : l[i] = n
    /\ allocs = At(k, l, 1)
    /\ \A i \in 1 .. k : next[l[i]] = At(k, l, i + 1) /\ prev[l[i]] = At(k, l, i - 1)

ListInv ==
    IF destroyed THEN Live = {} /\ \A t \in Tx : pc[t] = "end"
    ELSE \E k \in Nat : \E l \in [1 .. k -> Live] : Ordered(k, l)

ReferenceInv ==
    /\ TypeOK
    /\ LockInv
    /\ ListInv

Step(t) == Begins(t) \/ BeginFails(t) \/ Operation(t) \/ End(t)

-----------------------------------------------------------------------------
(* Types and the lock *)

LEMMA Constants ==
    /\ NULL # Start /\ NULL \notin Nodes /\ Start \notin Nodes /\ NULL \notin Tx
    /\ IsFiniteSet(Nodes) /\ 0 \in Values /\ MaxOps \in Nat
<1>1. NULL # Start
  <2> SUFFICES ASSUME NULL = Start PROVE FALSE
    OBVIOUS
  <2>1. {NULL, Start} = {NULL}
    OBVIOUS
  <2>2. Cardinality({NULL}) = 1
    BY FS_Singleton
  <2> QED
    BY <2>1, <2>2, ReferenceAssumption
<1> QED
  BY <1>1, ReferenceAssumption

\* What the segments hold after an operation, and which of them there are.
LEMMA MemoryStep ==
    ASSUME TypeOK, LockInv, NEW t \in Tx, Step(t)
    PROVE  /\ Start \in DOMAIN memory' /\ Live' \subseteq Nodes
           /\ \A c \in DOMAIN memory' : memory'[c] \in Values
           /\ \/ memory' = memory
              \/ t = writer /\ UNCHANGED <<readers, writer, pc, got, snap>>
<1> USE Constants DEF TypeOK, Live
<1>1. CASE Write(t)
  BY <1>1 DEF Write, Operates, LockInv, lockVars
<1>2. CASE Alloc(t)
  BY <1>2 DEF Alloc, Operates, LockInv, lockVars
<1>3. CASE Free(t)
  BY <1>3 DEF Free, Operates, LockInv, lockVars
<1>4. CASE ~(Write(t) \/ Alloc(t) \/ Free(t))
  <2>1. memory' = memory
    BY <1>4 DEF Step, Begins, BeginReadOnly, BeginReadWrite, Starts, BeginFails, Operation, Read,
      AllocFails, End
  <2> QED
    BY <2>1
<1> QED
  BY <1>1, <1>2, <1>3, <1>4

LEMMA TypeStep ==
    ASSUME TypeOK, LockInv, NEW t \in Tx, Step(t)
    PROVE  TypeOK'
<1> USE Constants DEF TypeOK
<1>1. readers' \subseteq Tx /\ writer' \in Tx \union {NULL}
  BY DEF Step, Begins, BeginReadOnly, BeginReadWrite, BeginFails, Operation, Operates, Read, Write,
    Alloc, AllocFails, Free, End, lockVars
<1>2. allocs' \in NodeOrNull /\ prev' \in [Nodes -> NodeOrNull] /\ next' \in [Nodes -> NodeOrNull]
  <2>1. CASE Alloc(t)
    BY <2>1 DEF Alloc, NodeOrNull
  <2>2. CASE Free(t)
    BY <2>2 DEF Free, Unlink, Live
  <2>3. CASE ~(Alloc(t) \/ Free(t))
    BY <2>3 DEF Step, Begins, BeginReadOnly, BeginReadWrite, Starts, BeginFails, Operation, Read,
      Write, AllocFails, End, listVars
  <2> QED
    BY <2>1, <2>2, <2>3
<1>3. destroyed' \in BOOLEAN
  BY DEF Step, Begins, BeginReadOnly, BeginReadWrite, Starts, BeginFails, Operation, Operates,
    Read, Write, Alloc, AllocFails, Free, End
<1>4. pc' \in [Tx -> {"askRead", "askWrite", "read", "write", "end"}]
  BY DEF Step, Begins, BeginReadOnly, BeginReadWrite, Starts, BeginFails, Operation, Operates,
    Read, Write, Alloc, AllocFails, Free, End
<1>5. ops' \in [Tx -> 0 .. MaxOps]
  <2>1. CASE Operates(t)
    BY <2>1 DEF Operates
  <2>2. CASE ~Operates(t)
    BY <2>2 DEF Step, Begins, BeginReadOnly, BeginReadWrite, Starts, BeginFails, Operation,
      Read, Write, Alloc, AllocFails, Free, End
  <2> QED
    BY <2>1, <2>2
<1>6. got' \in [Tx -> Values]
  <2>1. CASE Read(t)
    BY <2>1 DEF Read
  <2>2. CASE ~Read(t)
    BY <2>2 DEF Step, Begins, BeginReadOnly, BeginReadWrite, Starts, BeginFails, Operation,
      Write, Alloc, AllocFails, Free, End
  <2> QED
    BY <2>1, <2>2
<1> QED
  BY <1>1, <1>2, <1>3, <1>4, <1>5, <1>6, MemoryStep DEF Live

\* The lock is a lock: writers are alone, and what changes is not under a reader.
LEMMA LockStep ==
    ASSUME TypeOK, LockInv, NEW t \in Tx, Step(t)
    PROVE  LockInv'
<1> USE Constants DEF TypeOK, LockInv, Open
<1>1. CASE BeginReadOnly(t)
  BY <1>1 DEF BeginReadOnly, Starts
<1>2. CASE BeginReadWrite(t)
  BY <1>2 DEF BeginReadWrite, Starts
<1>3. CASE BeginFails(t)
  BY <1>3 DEF BeginFails, lockVars
<1>4. CASE Operation(t)
  <2>1. UNCHANGED <<readers, writer, pc, snap>>
    BY <1>4 DEF Operation, Operates, Read, Write, Alloc, AllocFails, Free, lockVars
  <2>2. memory' = memory \/ readers = {}
    BY MemoryStep
  <2> QED
    BY <2>1, <2>2
<1>5. CASE End(t)
  BY <1>5 DEF End
<1> QED
  BY <1>1, <1>2, <1>3, <1>4, <1>5 DEF Step, Begins

-----------------------------------------------------------------------------
(* The abstract memory *)

\* A step of t is a step of a serial memory.
LEMMA SerialStep ==
    ASSUME TypeOK, LockInv, NEW t \in Tx, Step(t)
    PROVE  Memory!SerialNext \/ UNCHANGED Memory!serialVars
<1> DEFINE store == IF writer = NULL THEN memory ELSE snap[writer]
           local == [u \in Tx |-> IF u \in Open THEN memory ELSE <<>>]
<1> USE Constants DEF TypeOK
<1>1. CASE BeginReadOnly(t) \/ BeginReadWrite(t)
  <2>1. /\ t \notin Open /\ Open' = Open \union {t} /\ writer = NULL /\ memory' = memory
        /\ snap' = [snap EXCEPT ![t] = memory] /\ got' = got
        /\ writer' \in {NULL, t}
    BY <1>1 DEF BeginReadOnly, BeginReadWrite, Starts, Open, LockInv
  <2>2. store' = store /\ store = memory
    BY <2>1 DEF LockInv
  <2>3. local' = [local EXCEPT ![t] = store]
    BY <2>1, <2>2
  <2>4. Memory!Begin(t)
    BY <2>1, <2>2, <2>3 DEF Memory!Begin
  <2> QED
    BY <2>4 DEF Memory!SerialNext
<1>2. CASE BeginFails(t) \/ AllocFails(t)
  <2>1. UNCHANGED <<readers, writer, memory, snap, got>>
    BY <1>2 DEF BeginFails, AllocFails, Operates, lockVars
  <2> QED
    BY <2>1 DEF Memory!serialVars, Open
<1>3. CASE Read(t)
  <2>1. /\ UNCHANGED <<readers, writer, memory, snap>> /\ t \in Open
        /\ \E c \in DOMAIN memory : got' = [got EXCEPT ![t] = memory[c]]
    BY <1>3 DEF Read, Operates, lockVars
  <2>2. local[t] = memory
    BY <2>1
  <2>3. UNCHANGED <<Open, store, local>>
    BY <2>1 DEF Open
  <2>4. Memory!Read(t)
    BY <2>1, <2>2, <2>3 DEF Memory!Read
  <2> QED
    BY <2>4 DEF Memory!SerialNext
<1>4. CASE Write(t) \/ Alloc(t) \/ Free(t)
  <2>1. /\ UNCHANGED <<readers, writer, snap, got>> /\ t \in Open /\ pc[t] = "write"
    BY <1>4 DEF Write, Alloc, Free, Operates, lockVars
  <2>2. t = writer /\ Open = {t}
    BY <2>1 DEF LockInv, Open
  <2>3. UNCHANGED <<Open, store>>
    BY <2>1, <2>2 DEF Open
  <2>4. local' = [local EXCEPT ![t] = local'[t]]
    BY <2>2, <2>3
  <2>5. Memory!Update(t)
    BY <2>1, <2>2, <2>3, <2>4 DEF Memory!Update
  <2> QED
    BY <2>5 DEF Memory!SerialNext
<1>5. CASE End(t)
  <2>1. /\ t \in Open /\ readers' = readers \ {t}
        /\ writer' = IF writer = t THEN NULL ELSE writer
        /\ snap' = [snap EXCEPT ![t] = <<>>] /\ UNCHANGED <<memory, got>>
    BY <1>5 DEF End
  <2>2. Open' = Open \ {t}
    BY <2>1 DEF Open
  <2>3. local' = [local EXCEPT ![t] = <<>>] /\ local[t] = memory
    BY <2>1, <2>2
  <2>4. Memory!Over(t)
    BY <2>1, <2>2, <2>3 DEF Memory!Over, Memory!Nothing
  <2>5. CASE writer = t
    <3>1. snap[t] = store /\ store' = memory
      BY <2>1, <2>5
    <3> QED
      BY <2>3, <2>4, <3>1 DEF Memory!SerialNext, Memory!Commit
  <2>6. CASE writer # t
    <3>1. writer = NULL
      BY <2>1, <2>6 DEF Open, LockInv
    <3>2. store' = store
      BY <2>1, <2>6, <3>1
    <3> QED
      BY <2>4, <3>2 DEF Memory!SerialNext, Memory!Abort
  <2> QED
    BY <2>5, <2>6
<1> QED
  BY <1>1, <1>2, <1>3, <1>4, <1>5 DEF Step, Begins, Operation

-----------------------------------------------------------------------------
(* The list *)

\* A set of numbers that is not empty has a least one.
LEMMA Least ==
    ASSUME NEW S \in SUBSET Nat, S # {}
    PROVE  \E m \in S : \A n \in S : m <= n
<1> DEFINE R == OpToRel(<, Nat)
<1>1. \E m \in S : \A n \in S : <<n, m>> \notin R
  BY NatLessThanWellFounded, WFMin
<1>2. \A m, n \in Nat : <<n, m>> \in R <=> n < m
  BY DEF OpToRel
<1> HIDE DEF R
<1>3. PICK m \in S : \A n \in S : <<n, m>> \notin R
  BY <1>1
<1>4. ASSUME NEW n \in S PROVE m <= n
  <2>1. n \in Nat /\ m \in Nat
    OBVIOUS
  <2>2. ~(n < m)
    BY <1>2, <1>3, <2>1, Zenon
  <2> QED
    BY <2>1, <2>2
<1> QED
  BY <1>4

\* The walk from allocs meets the nodes of the list one after the other, and then
\* NULL.
LEMMA Walk ==
    ASSUME TypeOK, NEW k \in Nat, NEW l \in [1 .. k -> Live], Ordered(k, l)
    PROVE  \A i \in 0 .. Cardinality(Nodes) : Chain[i] = At(k, l, i + 1)
<1> DEFINE N == Cardinality(Nodes)
           F(f) == [i \in 0 .. N |->
                       IF i = 0 THEN allocs ELSE IF f[i - 1] = NULL THEN NULL ELSE next[f[i - 1]]]
           g == [i \in 0 .. N |-> At(k, l, i + 1)]
<1>0. N \in Nat
  BY Constants, FS_CardinalityType
<1>1. \A i \in 1 .. k : l[i] # NULL
  BY Constants DEF TypeOK
<1>2. g = F(g)
  <2>1. ASSUME NEW i \in 0 .. N
        PROVE g[i] = IF i = 0 THEN allocs ELSE IF g[i - 1] = NULL THEN NULL ELSE next[g[i - 1]]
    <3>1. CASE i = 0
      BY <3>1, <1>0 DEF Ordered
    <3>2. CASE i # 0
      <4>1. i - 1 \in 0 .. N /\ g[i - 1] = At(k, l, i)
        BY <3>2, <1>0
      <4>2. CASE i \in 1 .. k
        BY <3>2, <4>1, <4>2, <1>1 DEF Ordered, At
      <4>3. CASE i \notin 1 .. k
        BY <3>2, <4>1, <4>3, <1>0 DEF At
      <4> QED
        BY <4>2, <4>3
    <3> QED
      BY <3>1, <3>2
  <2> QED
    BY <2>1
<1>3. Chain = F(Chain)
  <2>1. Chain = CHOOSE f : f = F(f)
    BY DEF Chain
  <2> HIDE DEF F, g
  <2> QED
    BY <1>2, <2>1
<1>4. ASSUME NEW i \in 0 .. N, Chain[i] # At(k, l, i + 1) PROVE FALSE
  <2> DEFINE S == {j \in 0 .. N : Chain[j] # g[j]}
  <2>1. S \in SUBSET Nat /\ S # {}
    BY <1>4, <1>0
  <2>2. PICK m \in S : \A n \in S : m <= n
    BY <2>1, Least
  <2>3. m \in 0 .. N /\ Chain[m] # g[m]
    BY <2>2
  <2>4. m # 0
    BY <2>3, <1>2, <1>3
  <2>5. m - 1 \in 0 .. N /\ m - 1 \notin S
    BY <2>2, <2>3, <2>4, <1>0
  <2>6. Chain[m - 1] = g[m - 1]
    BY <2>5
  <2>7. Chain[m] = IF Chain[m - 1] = NULL THEN NULL ELSE next[Chain[m - 1]]
    <3> HIDE DEF g
    <3> QED
      BY <2>3, <2>4, <1>3
  <2>8. g[m] = IF g[m - 1] = NULL THEN NULL ELSE next[g[m - 1]]
    <3> HIDE DEF g
    <3> QED
      BY <2>3, <2>4, <1>2
  <2> QED
    BY <2>3, <2>6, <2>7, <2>8
<1> QED
  BY <1>4

\* The list is not longer than there are nodes: the walk meets all that are allocated.
LEMMA ListedAll ==
    ASSUME TypeOK, NEW k \in Nat, NEW l \in [1 .. k -> Live], Ordered(k, l)
    PROVE  Listed = Live
<1> DEFINE N == Cardinality(Nodes)
<1>1. N \in Nat
  BY Constants, FS_CardinalityType
<1>2. k <= N
  <2>1. l \in Injection(1 .. k, Nodes)
    BY DEF Ordered, TypeOK, Injection, IsInjective
  <2>2. Cardinality(1 .. k) <= N
    BY <2>1, FS_Injection, Constants
  <2>3. Cardinality(1 .. k) = k
    <3>1. Cardinality(1 .. k) = IF 1 > k THEN 0 ELSE k - 1 + 1
      BY FS_Interval
    <3> QED
      BY <3>1
  <2> QED
    BY <2>2, <2>3
<1>3. NULL \notin Live
  BY Constants DEF TypeOK
<1>4. ASSUME NEW i \in 0 .. N, Chain[i] # NULL PROVE Chain[i] \in Live
  BY <1>4, Walk DEF At
<1>5. ASSUME NEW n \in Live PROVE n \in Listed
  <2>1. PICK i \in 1 .. k : l[i] = n
    BY DEF Ordered
  <2>2. i - 1 \in 0 .. N /\ (i - 1) + 1 = i
    BY <1>1, <1>2
  <2>3. Chain[i - 1] = At(k, l, i)
    BY <2>2, Walk
  <2>4. Chain[i - 1] = n
    BY <2>1, <2>3 DEF At
  <2> QED
    BY <1>3, <2>2, <2>4 DEF Listed
<1> QED
  BY <1>4, <1>5 DEF Listed

\* A new node goes in front.
LEMMA Inserted ==
    ASSUME TypeOK, NEW k \in Nat, NEW l \in [1 .. k -> Live], Ordered(k, l),
           NEW n \in Nodes \ Live,
           Live' = Live \union {n}, allocs' = n,
           prev' = [m \in Nodes |-> IF m = n THEN NULL ELSE IF m = allocs THEN n ELSE prev[m]],
           next' = [next EXCEPT ![n] = allocs]
    PROVE  \E j \in Nat : \E f \in [1 .. j -> Live'] : Ordered(j, f)'
<1> DEFINE f == [i \in 1 .. k + 1 |-> IF i = 1 THEN n ELSE l[i - 1]]
<1>1. /\ k + 1 \in Nat /\ 1 \in 1 .. k + 1
      /\ \A i \in 1 .. k : l[i] \in Live /\ l[i] \in Nodes /\ l[i] # n /\ l[i] # NULL
      /\ \A i \in 2 .. k + 1 : i - 1 \in 1 .. k /\ i \in 1 .. k + 1 /\ i # 1
      /\ \A i \in 1 .. k + 1 : i = 1 \/ i \in 2 .. k + 1
  BY Constants DEF TypeOK
<1>2. f[1] = n /\ \A i \in 2 .. k + 1 : f[i] = l[i - 1]
  BY <1>1
<1>3. f \in [1 .. k + 1 -> Live']
  BY <1>1
<1> HIDE DEF f
<1>4. ASSUME NEW i \in 1 .. k + 1, NEW j \in 1 .. k + 1, f[i] = f[j] PROVE i = j
  <2>1. CASE i = 1 \/ j = 1
    BY <1>1, <1>2, <1>4, <2>1
  <2>2. CASE i # 1 /\ j # 1
    <3>1. i - 1 \in 1 .. k /\ j - 1 \in 1 .. k /\ l[i - 1] = l[j - 1]
      BY <1>1, <1>2, <1>4, <2>2
    <3>2. i - 1 = j - 1
      BY <3>1 DEF Ordered
    <3> QED
      BY <3>2
  <2> QED
    BY <2>1, <2>2
<1>5. ASSUME NEW m \in Live' PROVE \E i \in 1 .. k + 1 : f[i] = m
  <2>1. CASE m = n
    BY <1>1, <1>2, <2>1
  <2>2. CASE m # n
    <3>1. PICK i \in 1 .. k : l[i] = m
      BY <2>2 DEF Ordered
    <3>2. i + 1 \in 2 .. k + 1 /\ (i + 1) - 1 = i
      OBVIOUS
    <3> QED
      BY <1>1, <1>2, <3>1, <3>2
  <2> QED
    BY <2>1, <2>2
<1>6. allocs' = At(k + 1, f, 1)
  BY <1>1, <1>2 DEF At
<1>7. ASSUME NEW i \in 1 .. k + 1
      PROVE  next'[f[i]] = At(k + 1, f, i + 1) /\ prev'[f[i]] = At(k + 1, f, i - 1)
  <2>1. CASE i = 1
    <3>1. next'[n] = allocs /\ prev'[n] = NULL
      BY DEF TypeOK
    <3>2. At(k + 1, f, 2) = At(k, l, 1)
      <4>1. 2 \in 2 .. k + 1 => f[2] = l[1]
        BY <1>2
      <4> QED
        BY <4>1 DEF At
    <3>3. At(k + 1, f, 0) = NULL
      BY DEF At
    <3> QED
      BY <1>2, <2>1, <3>1, <3>2, <3>3 DEF Ordered
  <2>2. CASE i # 1
    <3> DEFINE p == i - 1
    <3>1. p \in 1 .. k /\ f[i] = l[p] /\ i = p + 1
      BY <1>1, <1>2, <2>2
    <3>2. next[l[p]] = At(k, l, p + 1) /\ prev[l[p]] = At(k, l, p - 1)
      BY <3>1 DEF Ordered
    <3>3. At(k + 1, f, i + 1) = At(k, l, p + 1)
      <4>1. i + 1 \in 1 .. k + 1 <=> p + 1 \in 1 .. k
        BY <3>1
      <4>2. i + 1 \in 1 .. k + 1 => f[i + 1] = l[p + 1]
        <5>1. i + 1 \in 1 .. k + 1 => i + 1 \in 2 .. k + 1 /\ (i + 1) - 1 = p + 1
          BY <3>1
        <5> QED
          BY <1>2, <5>1
      <4> QED
        BY <4>1, <4>2 DEF At
    <3>4. next'[f[i]] = next[l[p]]
      BY <1>1, <3>1 DEF TypeOK
    <3>5. l[p] = allocs <=> p = 1
      <4>1. 1 \in 1 .. k /\ allocs = l[1]
        BY <3>1 DEF Ordered, At
      <4> QED
        BY <3>1, <4>1 DEF Ordered
    <3>6. prev'[f[i]] = IF p = 1 THEN n ELSE prev[l[p]]
      BY <1>1, <3>1, <3>5
    <3>7. At(k + 1, f, p) = IF p = 1 THEN n ELSE At(k, l, p - 1)
      <4>1. CASE p = 1
        BY <1>1, <1>2, <4>1 DEF At
      <4>2. CASE p # 1
        <5>1. p \in 2 .. k + 1 /\ p - 1 \in 1 .. k /\ p \in 1 .. k + 1
          BY <3>1, <4>2
        <5> QED
          BY <1>2, <4>2, <5>1 DEF At
      <4> QED
        BY <4>1, <4>2
    <3> QED
      BY <3>2, <3>3, <3>4, <3>6, <3>7
  <2> QED
    BY <2>1, <2>2
<1>8. Ordered(k + 1, f)'
  BY <1>3, <1>4, <1>5, <1>6, <1>7 DEF Ordered, At
<1> QED
  BY <1>1, <1>3, <1>8

\* A node is taken out from between its neighbours.
LEMMA Removed ==
    ASSUME TypeOK, NEW k \in Nat, NEW l \in [1 .. k -> Live], Ordered(k, l),
           NEW n \in Live, Live' = Live \ {n}, Unlink(n)
    PROVE  \E j \in Nat : \E f \in [1 .. j -> Live'] : Ordered(j, f)'
<1>0. PICK p \in 1 .. k : l[p] = n
  BY DEF Ordered
<1> DEFINE S(i) == IF i < p THEN i ELSE i + 1
           f == [i \in 1 .. k - 1 |-> l[S(i)]]
<1>1. /\ k - 1 \in Nat
      /\ \A i \in 1 .. k : l[i] \in Live /\ l[i] \in Nodes /\ l[i] # NULL
      /\ \A i, j \in 1 .. k : l[i] = l[j] => i = j
  BY <1>0, Constants DEF TypeOK, Ordered
<1>2. /\ \A i \in 1 .. k - 1 : S(i) \in 1 .. k /\ S(i) # p
      /\ \A i, j \in 1 .. k - 1 : S(i) = S(j) => i = j
      /\ \A i \in 1 .. k : i # p => \E j \in 1 .. k - 1 : S(j) = i
  <2>1. ASSUME NEW i \in 1 .. k, i # p PROVE \E j \in 1 .. k - 1 : S(j) = i
    <3>1. CASE i < p
      <4>1. i \in 1 .. k - 1 /\ S(i) = i
        BY <3>1
      <4> QED
        BY <4>1
    <3>2. CASE ~(i < p)
      <4>1. i - 1 \in 1 .. k - 1 /\ S(i - 1) = i
        BY <2>1, <3>2
      <4> QED
        BY <4>1
    <3> QED
      BY <3>1, <3>2
  <2> QED
    BY <2>1
<1>3. f \in [1 .. k - 1 -> Live'] /\ \A i \in 1 .. k - 1 : f[i] = l[S(i)]
  <2>1. ASSUME NEW i \in 1 .. k - 1 PROVE l[S(i)] \in Live'
    <3>1. S(i) \in 1 .. k /\ S(i) # p
      BY <1>2
    <3> HIDE DEF S
    <3> QED
      BY <1>0, <1>1, <3>1
  <2> QED
    BY <2>1
<1> HIDE DEF f
<1>4. ASSUME NEW i \in 1 .. k - 1, NEW j \in 1 .. k - 1, f[i] = f[j] PROVE i = j
  <2> HIDE DEF S
  <2> QED
    BY <1>1, <1>2, <1>3, <1>4
<1>5. ASSUME NEW m \in Live' PROVE \E i \in 1 .. k - 1 : f[i] = m
  <2>1. PICK i \in 1 .. k : l[i] = m
    BY DEF Ordered
  <2>2. i # p
    BY <1>0, <2>1
  <2> HIDE DEF S
  <2> QED
    BY <1>2, <1>3, <2>1, <2>2
\* The neighbours in the list that is left.
<1>6. ASSUME NEW j \in 0 .. k PROVE At(k - 1, f, j) = At(k, l, S(j))
  <2>1. j \in 1 .. k - 1 <=> S(j) \in 1 .. k
    OBVIOUS
  <2> HIDE DEF S
  <2> QED
    BY <1>3, <2>1 DEF At
<1>7. ASSUME NEW j \in 1 .. k - 1
      PROVE  /\ S(j + 1) = IF S(j) + 1 = p THEN p + 1 ELSE S(j) + 1
             /\ S(j - 1) = IF S(j) = p + 1 THEN p - 1 ELSE S(j) - 1
  OBVIOUS
<1>8. ASSUME NEW i \in 1 .. k
      PROVE  /\ next'[l[i]] = IF i + 1 = p THEN At(k, l, p + 1) ELSE At(k, l, i + 1)
             /\ prev'[l[i]] = IF i = p + 1 THEN At(k, l, p - 1) ELSE At(k, l, i - 1)
  <2>1. /\ next[l[i]] = At(k, l, i + 1) /\ prev[l[i]] = At(k, l, i - 1)
        /\ next[n] = At(k, l, p + 1) /\ prev[n] = At(k, l, p - 1)
    BY <1>0 DEF Ordered
  <2>2. l[i] = At(k, l, p - 1) <=> i + 1 = p
    <3>1. p - 1 \in 1 .. k => (l[i] = l[p - 1] <=> i = p - 1)
      BY <1>1
    <3> QED
      BY <1>1, <3>1 DEF At
  <2>3. l[i] = At(k, l, p + 1) <=> i = p + 1
    <3>1. p + 1 \in 1 .. k => (l[i] = l[p + 1] <=> i = p + 1)
      BY <1>1
    <3> QED
      BY <1>1, <3>1 DEF At
  <2>4. l[i] \in Nodes
    BY <1>1
  <2> QED
    BY <2>1, <2>2, <2>3, <2>4 DEF Unlink
<1>9. ASSUME NEW j \in 1 .. k - 1
      PROVE  next'[f[j]] = At(k - 1, f, j + 1) /\ prev'[f[j]] = At(k - 1, f, j - 1)
  <2>1. S(j) \in 1 .. k /\ f[j] = l[S(j)] /\ j + 1 \in 0 .. k /\ j - 1 \in 0 .. k
    BY <1>2, <1>3
  <2>2. At(k - 1, f, j + 1) = At(k, l, S(j + 1)) /\ At(k - 1, f, j - 1) = At(k, l, S(j - 1))
    BY <1>6, <2>1
  <2> HIDE DEF S
  <2> QED
    BY <1>7, <1>8, <2>1, <2>2
<1>10. allocs' = At(k - 1, f, 1)
  <2>1. allocs = At(k, l, 1) /\ prev[n] = At(k, l, p - 1) /\ next[n] = At(k, l, p + 1)
    BY <1>0 DEF Ordered
  <2>2. prev[n] = NULL <=> p = 1
    BY <1>1, <2>1 DEF At
  <2>3. At(k - 1, f, 1) = At(k, l, S(1)) /\ S(1) = IF p = 1 THEN 2 ELSE 1
    <3>1. 1 \in 0 .. k
      OBVIOUS
    <3> QED
      BY <1>6, <3>1
  <2> HIDE DEF S
  <2>4. allocs' = IF prev[n] = NULL THEN next[n] ELSE allocs
    BY DEF Unlink
  <2> QED
    BY <2>1, <2>2, <2>3, <2>4
<1>11. Ordered(k - 1, f)'
  BY <1>3, <1>4, <1>5, <1>9, <1>10 DEF Ordered, At
<1> QED
  BY <1>1, <1>3, <1>11

LEMMA ListStep ==
    ASSUME TypeOK, LockInv, ListInv, NEW t \in Tx, Step(t)
    PROVE  ListInv'
<1> USE Constants
<1>1. destroyed' = destroyed
  BY DEF Step, Begins, BeginReadOnly, BeginReadWrite, Starts, BeginFails, Operation, Operates,
    Read, Write, Alloc, AllocFails, Free, End
<1>2. ~destroyed
  <2> SUFFICES ASSUME destroyed PROVE FALSE
    OBVIOUS
  <2>1. pc[t] = "end" /\ t \notin Open
    BY DEF ListInv, LockInv, Open
  <2> QED
    BY <2>1 DEF Step, Begins, BeginReadOnly, BeginReadWrite, Starts, BeginFails, Operation,
      Operates, Read, Write, Alloc, AllocFails, Free, End
<1>3. PICK k \in Nat : \E l \in [1 .. k -> Live] : Ordered(k, l)
  BY <1>2 DEF ListInv
<1>3b. PICK l \in [1 .. k -> Live] : Ordered(k, l)
  BY <1>3
<1>4. SUFFICES \E j \in Nat : \E f \in [1 .. j -> Live'] : Ordered(j, f)'
  BY <1>1, <1>2 DEF ListInv, Ordered, At, Live
<1>5. CASE Alloc(t)
  <2>1. PICK n \in Nodes \ Live :
          /\ prev' = [m \in Nodes |-> IF m = n THEN NULL ELSE IF m = allocs THEN n ELSE prev[m]]
          /\ next' = [next EXCEPT ![n] = allocs]
          /\ allocs' = n
          /\ memory' = [c \in DOMAIN memory \union {n} |-> IF c = n THEN 0 ELSE memory[c]]
    BY <1>5 DEF Alloc
  <2>2. Live' = Live \union {n}
    BY <2>1 DEF Live
  <2> QED
    BY <1>3b, <2>1, <2>2, Inserted
<1>6. CASE Free(t)
  <2>1. PICK n \in Live :
          Unlink(n) /\ memory' = [c \in DOMAIN memory \ {n} |-> memory[c]]
    BY <1>6 DEF Free
  <2>2. Live' = Live \ {n}
    BY <2>1 DEF Live
  <2> QED
    BY <1>3b, <2>1, <2>2, Removed
<1>7. CASE ~(Alloc(t) \/ Free(t))
  <2>1. UNCHANGED <<allocs, prev, next>> /\ Live' = Live
    <3>1. CASE Write(t)
      BY <3>1 DEF Write, listVars, Live
    <3>2. CASE ~Write(t)
      BY <1>7, <3>2 DEF Step, Begins, BeginReadOnly, BeginReadWrite, Starts, BeginFails,
        Operation, Read, AllocFails, End, listVars, Live
    <3> QED
      BY <3>1, <3>2
  <2>2. Ordered(k, l)'
    BY <1>3b, <2>1 DEF Ordered, At
  <2> QED
    BY <1>3b, <2>1, <2>2
<1> QED
  BY <1>5, <1>6, <1>7

-----------------------------------------------------------------------------
(* Theorems *)

\* tm_destroy walks the list, and finds all there is.
LEMMA DestroyStep ==
    ASSUME ReferenceInv, Destroy
    PROVE  ReferenceInv'
<1> USE Constants DEF ReferenceInv
<1>1. /\ \A t \in Tx : pc[t] = "end"
      /\ ~destroyed /\ destroyed' = TRUE /\ allocs' = NULL
      /\ memory' = [c \in DOMAIN memory \ Listed |-> memory[c]]
      /\ UNCHANGED <<readers, writer, prev, next, pc, ops, got, snap>>
  BY DEF Destroy, lockVars
<1>2. PICK k \in Nat : \E l \in [1 .. k -> Live] : Ordered(k, l)
  BY <1>1 DEF ListInv
<1>2b. PICK l \in [1 .. k -> Live] : Ordered(k, l)
  BY <1>2
<1>3. Listed = Live
  BY <1>2b, ListedAll
<1>4. Live' = {} /\ Start \in DOMAIN memory' /\ \A c \in DOMAIN memory' : memory'[c] \in Values
  BY <1>1, <1>3 DEF Live, TypeOK
<1>5. readers = {} /\ writer = NULL
  BY <1>1 DEF LockInv, TypeOK
<1>6. TypeOK'
  BY <1>1, <1>4 DEF TypeOK, NodeOrNull
<1>7. LockInv'
  BY <1>1, <1>5 DEF LockInv, Open
<1>8. ListInv'
  BY <1>1, <1>4 DEF ListInv
<1> QED
  BY <1>6, <1>7, <1>8

LEMMA InitReferenceInv == Init => ReferenceInv
<1> SUFFICES ASSUME Init PROVE ReferenceInv
  OBVIOUS
<1> USE Constants DEF Init
<1>1. Live = {}
  BY DEF Live
<1>2. TypeOK
  <2>1. /\ Start \in DOMAIN memory /\ \A c \in DOMAIN memory : memory[c] \in Values
        /\ Live \subseteq Nodes
    BY <1>1
  <2>2. prev \in [Nodes -> NodeOrNull] /\ next \in [Nodes -> NodeOrNull] /\ allocs \in NodeOrNull
    BY DEF NodeOrNull
  <2>3. ops \in [Tx -> 0 .. MaxOps] /\ got \in [Tx -> Values]
    OBVIOUS
  <2>4. pc \in [Tx -> {"askRead", "askWrite", "read", "write", "end"}]
    OBVIOUS
  <2> QED
    BY <2>1, <2>2, <2>3, <2>4 DEF TypeOK
<1>3. LockInv
  BY DEF LockInv, Open
<1>4. ListInv
  <2> DEFINE l == [i \in 1 .. 0 |-> NULL]
  <2>1. l \in [1 .. 0 -> Live]
    OBVIOUS
  <2>2. Ordered(0, l)
    BY <1>1, <2>1 DEF Ordered, At
  <2> QED
    BY <2>1, <2>2 DEF ListInv
<1> QED
  BY <1>2, <1>3, <1>4 DEF ReferenceInv

LEMMA NextReferenceInv == ReferenceInv /\ [Next]_vars => ReferenceInv'
<1> SUFFICES ASSUME ReferenceInv, [Next]_vars PROVE ReferenceInv'
  OBVIOUS
<1>1. ASSUME NEW t \in Tx, Step(t) PROVE ReferenceInv'
  BY <1>1, TypeStep, LockStep, ListStep DEF ReferenceInv
<1>2. CASE UNCHANGED vars
  <2>1. UNCHANGED <<readers, writer, memory, allocs, prev, next, destroyed, pc, ops, got, snap>>
    BY <1>2 DEF vars, lockVars, listVars
  <2>2. Live' = Live /\ Open' = Open
    BY <2>1 DEF Live, Open
  <2>3. \A k, l : Ordered(k, l)' <=> Ordered(k, l)
    BY <2>1, <2>2 DEF Ordered, At
  <2>4. ListInv'
    BY <2>1, <2>2, <2>3 DEF ReferenceInv, ListInv
  <2> QED
    BY <2>1, <2>2, <2>4 DEF ReferenceInv, TypeOK, LockInv
<1> QED
  BY <1>1, <1>2, DestroyStep DEF Next, Step

\* At every time the types, the lock and the list are as ReferenceInv says.
THEOREM ReferenceInvariance == Spec => []ReferenceInv
BY InitReferenceInv, NextReferenceInv, PTL DEF Spec

\* The links lead to nodes or to nowhere, and every word that exists has a value.
THEOREM ReferenceTypes == Spec => []TypeOK
<1>1. ReferenceInv => TypeOK
  BY DEF ReferenceInv
<1> QED
  BY <1>1, ReferenceInvariance, PTL

\* The list holds the allocated nodes and no others, both ways, and tm_destroy frees
\* them all.
THEOREM ReferenceList == Spec => []ListSound
<1>1. ReferenceInv => ListSound
  <2> SUFFICES ASSUME ReferenceInv PROVE ListSound
    OBVIOUS
  <2> USE Constants DEF ReferenceInv
  <2>1. CASE destroyed
    BY <2>1 DEF ListInv, ListSound
  <2>2. CASE ~destroyed
    <3>1. PICK k \in Nat : \E l \in [1 .. k -> Live] : Ordered(k, l)
      BY <2>2 DEF ListInv
    <3>1b. PICK l \in [1 .. k -> Live] : Ordered(k, l)
      BY <3>1
    <3>2. Listed = Live
      BY <3>1b, ListedAll
    <3>3. ASSUME NEW n \in Live
          PROVE  /\ (prev[n] = NULL) <=> (n = allocs)
                 /\ prev[n] # NULL => prev[n] \in Live /\ next[prev[n]] = n
                 /\ next[n] # NULL => next[n] \in Live /\ prev[next[n]] = n
      <4>1. PICK i \in 1 .. k : l[i] = n
        BY <3>1b DEF Ordered
      <4>2. next[n] = At(k, l, i + 1) /\ prev[n] = At(k, l, i - 1) /\ allocs = At(k, l, 1)
        BY <3>1b, <4>1 DEF Ordered
      <4>3. \A j \in 1 .. k : l[j] \in Live /\ l[j] # NULL
        BY DEF TypeOK
      <4>4. (prev[n] = NULL) <=> (n = allocs)
        <5>1. prev[n] = NULL <=> i = 1
          BY <4>2, <4>3 DEF At
        <5>2. n = allocs <=> i = 1
          BY <3>1b, <4>1, <4>2 DEF Ordered, At
        <5> QED
          BY <5>1, <5>2
      <4>5. ASSUME prev[n] # NULL PROVE prev[n] \in Live /\ next[prev[n]] = n
        <5>1. i - 1 \in 1 .. k /\ prev[n] = l[i - 1] /\ (i - 1) + 1 = i
          BY <4>2, <4>5 DEF At
        <5>2. next[l[i - 1]] = At(k, l, i)
          BY <3>1b, <5>1 DEF Ordered
        <5> QED
          BY <4>1, <4>3, <5>1, <5>2 DEF At
      <4>6. ASSUME next[n] # NULL PROVE next[n] \in Live /\ prev[next[n]] = n
        <5>1. i + 1 \in 1 .. k /\ next[n] = l[i + 1] /\ (i + 1) - 1 = i
          BY <4>2, <4>6 DEF At
        <5>2. prev[l[i + 1]] = At(k, l, i)
          BY <3>1b, <5>1 DEF Ordered
        <5> QED
          BY <4>1, <4>3, <5>1, <5>2 DEF At
      <4> QED
        BY <4>4, <4>5, <4>6
    <3> QED
      BY <2>2, <3>2, <3>3 DEF ListSound
  <2> QED
    BY <2>1, <2>2
<1> QED
  BY <1>1, ReferenceInvariance, PTL

\* The library is a serial memory: each of its steps is one of the abstract memory's,
\* or none, until the region is destroyed.
THEOREM ReferenceRefines == Spec => ImplementsSerialMemory
<1>1. Init => Memory!SerialInit
  <2> SUFFICES ASSUME Init PROVE Memory!SerialInit
    OBVIOUS
  <2>1. Open = {}
    BY DEF Init, Open
  <2> QED
    BY <2>1 DEF Init, Memory!SerialInit, Memory!Nothing
<1>2. ReferenceInv /\ [Next]_vars => [SerialSteps]_vars
  <2> SUFFICES ASSUME ReferenceInv, Next PROVE SerialSteps \/ UNCHANGED vars
    OBVIOUS
  <2>1. ASSUME NEW t \in Tx, Step(t) PROVE SerialSteps
    BY <2>1, SerialStep DEF ReferenceInv, SerialSteps
  <2>2. Destroy => SerialSteps
    BY DEF Destroy, SerialSteps
  <2> QED
    BY <2>1, <2>2 DEF Next, Step
<1> QED
  BY <1>1, <1>2, ReferenceInvariance, PTL DEF Spec, ImplementsSerialMemory
===============================================================================
