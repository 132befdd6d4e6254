---------------------------- MODULE ExamplesProofs ----------------------------
(***************************************************************************)
(* Proofs about the examples of sync-examples and the playground, for any  *)
(* finite set of threads, any number of runs and any size of the buffer:   *)
(* how much the counters count, that an election has a leader, and only    *)
(* one where it is synchronised, and that the buffers that count are       *)
(* bounded queues.                                                         *)
(***************************************************************************)
EXTENDS MCExamples, Integers, FiniteSetTheorems, SequenceTheorems, TLAPS

-----------------------------------------------------------------------------
(* The counters: module Counters *)

\* Every run of every thread; those whose increment has been stored; those that are over.
Runs == Threads \X (1 .. CounterRuns)
HasStored(t) == pc[t] \in {"release", "count"}
Stored == {s \in Runs : s[2] <= r[s[1]] \/ (s[2] = r[s[1]] + 1 /\ HasStored(s[1]))}
Ended == {s \in Runs : s[2] <= r[s[1]]}

CountTypes ==
    /\ program \in Count!Programs
    /\ counter \in Nat /\ checkCounter \in Nat
    /\ lock \in BOOLEAN
    /\ pc \in [Threads -> {"start", "load", "store", "release", "count"}]
    /\ r \in [Threads -> 0 .. CounterRuns] /\ local \in [Threads -> Nat]

\* Each program has its own steps, and a thread that is in one has runs left.
CountLabels ==
    \A t \in Threads :
        /\ pc[t] # "start" => r[t] < CounterRuns
        /\ pc[t] \in {"load", "release"} => program = "counter2"
        /\ pc[t] = "count" => program = "playground"
        /\ pc[t] # "start" => program # "counter4"

\* The counter is never ahead of what has been stored, nor is what was loaded.
NeverAhead ==
    /\ counter <= Cardinality(Stored)
    /\ checkCounter <= Cardinality(Ended)
    /\ \A t \in Threads : local[t] <= Cardinality(Stored)

\* counter2: the lock is held by the one thread between acquire and release.
CountLocked ==
    /\ lock = (program = "counter2" /\ \E t \in Threads : pc[t] # "start")
    /\ program = "counter2" =>
          \A t, u \in Threads : pc[t] # "start" /\ pc[u] # "start" => t = u

CountExact ==
    /\ program \in {"counter2", "counter4"} => counter = Cardinality(Stored)
    /\ program = "counter2" => \A t \in Threads : pc[t] = "store" => local[t] = counter

\* Whatever is stored is 1 at least; so a thread in its second run has loaded 1 at least,
\* and the last of all stores leaves 2.
LastStored(t) == r[t] = CounterRuns \/ (r[t] + 1 = CounterRuns /\ HasStored(t))
AtLeastTwo ==
    /\ \A t \in Threads : r[t] >= 1 \/ HasStored(t) => counter >= 1
    /\ \A t \in Threads : r[t] >= 1 /\ pc[t] = "store" => local[t] >= 1
    /\ CounterRuns > 1 /\ (\A t \in Threads : LastStored(t)) => counter >= 2

CountInv ==
    /\ CountTypes
    /\ CountLabels
    /\ NeverAhead
    /\ CountLocked
    /\ CountExact
    /\ AtLeastTwo

LEMMA CountNumbers ==
    /\ CounterRuns \in Nat \ {0} /\ IsFiniteSet(Threads) /\ Threads # {}
    /\ IsFiniteSet(Runs) /\ Cardinality(Runs) = Count!Expected
    /\ Count!Expected \in Nat
<1>1. \A S : /\ Count!IsFiniteSet(S) = IsFiniteSet(S)
             /\ Elect!IsFiniteSet(S) = IsFiniteSet(S)
  BY DEF Count!IsFiniteSet, Elect!IsFiniteSet, IsFiniteSet
<1>2. Count!Cardinality(Threads) = Cardinality(Threads)
  BY DEF Count!Cardinality, Cardinality
<1>3. CounterRuns \in Nat \ {0} /\ IsFiniteSet(Threads) /\ Threads # {}
  BY <1>1, ExamplesAssumption DEF Count!CountersAssumption, Elect!ElectionsAssumption
<1>4. Cardinality(Threads) \in Nat
  BY <1>3, FS_CardinalityType
<1>5. IsFiniteSet(1 .. CounterRuns) /\ Cardinality(1 .. CounterRuns) = CounterRuns
  BY <1>3, FS_Interval
<1>6. IsFiniteSet(Runs) /\ Cardinality(Runs) = Cardinality(Threads) * CounterRuns
  BY <1>3, <1>5, FS_Product DEF Runs
<1>7. Cardinality(Threads) * CounterRuns = CounterRuns * Cardinality(Threads)
      /\ CounterRuns * Cardinality(Threads) \in Nat
  BY <1>3, <1>4
<1> QED
  BY <1>2, <1>3, <1>6, <1>7 DEF Count!Expected

\* The two counts are of parts of the runs.
LEMMA CountsBounded ==
    /\ Stored \in SUBSET Runs /\ Ended \in SUBSET Runs
    /\ IsFiniteSet(Stored) /\ IsFiniteSet(Ended)
    /\ Cardinality(Stored) \in 0 .. Count!Expected /\ Cardinality(Ended) \in 0 .. Count!Expected
<1>1. Stored \in SUBSET Runs /\ Ended \in SUBSET Runs
  BY DEF Stored, Ended
<1> QED
  BY <1>1, CountNumbers, FS_Subset, FS_CardinalityType

LEMMA AllStored ==
    ASSUME CountTypes, Count!Joined
    PROVE  Cardinality(Stored) = Count!Expected
<1>1. \A t \in Threads : r[t] = CounterRuns
  BY DEF Count!Joined
<1>2. Stored = Runs
  BY <1>1 DEF Stored, Runs
<1> QED
  BY <1>2, CountNumbers

LEMMA CountBegin ==
    ASSUME Count!Init
    PROVE  CountInv
<1> USE CountNumbers, CountsBounded DEF Count!Init
<1>1. CountTypes /\ CountLabels
  <2>1. lock \in BOOLEAN
    OBVIOUS
  <2>2. /\ pc \in [Threads -> {"start", "load", "store", "release", "count"}]
        /\ r \in [Threads -> 0 .. CounterRuns] /\ local \in [Threads -> Nat]
    OBVIOUS
  <2> QED
    BY <2>1, <2>2 DEF CountTypes, CountLabels
<1>2. Cardinality(Stored) = 0
  <2> Stored = {}
    BY DEF Stored, Runs, HasStored
  <2> QED
    BY FS_EmptySet
<1>3. NeverAhead /\ CountExact
  BY <1>2 DEF NeverAhead, CountExact
<1>4. CountLocked
  BY DEF CountLocked
<1>5. AtLeastTwo
  BY DEF AtLeastTwo, LastStored, HasStored
<1> QED
  BY <1>1, <1>3, <1>4, <1>5 DEF CountInv

LEMMA CountSafe ==
    ASSUME CountInv
    PROVE  Count!TypeOK /\ Count!CountsAll /\ Count!LosesNotAll
<1> USE CountNumbers, CountsBounded DEF CountInv
<1>1. Count!TypeOK
  <2>1. lock = (\E t \in Threads : pc[t] \in {"load", "store", "release"} /\ program = "counter2")
    BY DEF CountLocked, CountTypes, CountLabels
  <2>2. counter \in 0 .. Count!Expected /\ checkCounter \in 0 .. Count!Expected
    BY DEF CountTypes, NeverAhead
  <2>3. local \in [Threads -> 0 .. Count!Expected]
    BY DEF CountTypes, NeverAhead
  <2> QED
    BY <2>1, <2>2, <2>3 DEF Count!TypeOK, CountTypes
<1>2. Count!CountsAll
  BY AllStored DEF Count!CountsAll, CountExact
<1>3. Count!LosesNotAll
  BY DEF Count!LosesNotAll, Count!Joined, AtLeastTwo, LastStored, NeverAhead, CountTypes
<1> QED
  BY <1>1, <1>2, <1>3

\* The five kinds of steps that the programs are made of.
Moves(t, from, to) == pc[t] = from /\ pc' = [pc EXCEPT ![t] = to] /\ r[t] < CounterRuns
RunOver(t) == r' = [r EXCEPT ![t] = @ + 1]

Acquires(t) ==
    /\ program = "counter2" /\ Moves(t, "start", "load")
    /\ ~lock /\ lock' = TRUE
    /\ UNCHANGED <<counter, checkCounter, local, r>>

Loads(t) ==
    /\ \/ program = "counter2" /\ Moves(t, "load", "store")
       \/ program \notin {"counter2", "counter4"} /\ Moves(t, "start", "store")
    /\ local' = [local EXCEPT ![t] = counter]
    /\ UNCHANGED <<counter, checkCounter, lock, r>>

Stores(t) ==
    /\ \/ program \in {"counter1", "counter3"} /\ Moves(t, "store", "start") /\ RunOver(t)
       \/ program = "counter2" /\ Moves(t, "store", "release") /\ UNCHANGED r
       \/ program = "playground" /\ Moves(t, "store", "count") /\ UNCHANGED r
    /\ counter' = local[t] + 1
    /\ UNCHANGED <<checkCounter, local, lock>>

Adds(t) ==
    /\ program = "counter4" /\ Moves(t, "start", "start") /\ RunOver(t)
    /\ counter' = counter + 1
    /\ UNCHANGED <<checkCounter, local, lock>>

Ends(t) ==
    /\ RunOver(t) /\ UNCHANGED <<counter, local>>
    /\ \/ program = "counter2" /\ Moves(t, "release", "start")
             /\ lock' = FALSE /\ UNCHANGED checkCounter
       \/ program = "playground" /\ Moves(t, "count", "start")
             /\ checkCounter' = checkCounter + 1 /\ UNCHANGED lock

LEMMA CountKinds ==
    ASSUME NEW t \in Threads, Count!Step(t)
    PROVE  program' = program /\ (Acquires(t) \/ Loads(t) \/ Stores(t) \/ Adds(t) \/ Ends(t))
<1> USE DEF Count!Step, Moves, RunOver, Count!Goto, Count!NextRun, Count!Load, Count!Store
<1>1. CASE program = "counter1" /\ Count!Counter1(t)
  BY <1>1 DEF Count!Counter1, Loads, Stores
<1>2. CASE program = "counter2" /\ Count!Counter2(t)
  BY <1>2 DEF Count!Counter2, Acquires, Loads, Stores, Ends
<1>3. CASE program = "counter3" /\ Count!Counter3(t)
  BY <1>3 DEF Count!Counter3, Loads, Stores
<1>4. CASE program = "counter4" /\ Count!Counter4(t)
  BY <1>4 DEF Count!Counter4, Adds
<1>5. CASE program = "playground" /\ Count!Playground(t)
  BY <1>5 DEF Count!Playground, Loads, Stores, Ends
<1> QED
  BY <1>1, <1>2, <1>3, <1>4, <1>5

\* One more increment of t is stored, or one more run is over.
LEMMA OneMore ==
    ASSUME CountTypes, NEW t \in Threads, r[t] < CounterRuns
    PROVE  /\ Cardinality(Ended \union {<<t, r[t] + 1>>}) = Cardinality(Ended) + 1
           /\ ~HasStored(t) =>
                 Cardinality(Stored \union {<<t, r[t] + 1>>}) = Cardinality(Stored) + 1
<1> USE CountNumbers, CountsBounded DEF CountTypes
<1> DEFINE s == <<t, r[t] + 1>>
<1>1. s \in Runs /\ s \notin Ended
  BY DEF Runs, Ended
<1>2. ~HasStored(t) => s \notin Stored
  BY DEF Stored
<1> HIDE DEF s
<1>3. Cardinality(Ended \union {s}) = Cardinality(Ended) + 1
  BY <1>1, FS_AddElement
<1>4. s \notin Stored => Cardinality(Stored \union {s}) = Cardinality(Stored) + 1
  BY FS_AddElement
<1> QED
  BY <1>2, <1>3, <1>4 DEF s

LEMMA RunsSplit == \A x \in Runs : \E v \in Threads : \E i \in 1 .. CounterRuns : x = <<v, i>>
BY DEF Runs

\* Where a thread moves without a run of it being over, and where one is over.
LEMMA SlotsMove ==
    ASSUME CountTypes, NEW t \in Threads, r[t] < CounterRuns, NEW l, pc' = [pc EXCEPT ![t] = l],
           l \in {"start", "load", "store", "release", "count"}
    PROVE  /\ r' = r =>
                 /\ Ended' = Ended
                 /\ (l \in {"release", "count"} <=> HasStored(t)) => Stored' = Stored
                 /\ l \in {"release", "count"} => Stored' = Stored \union {<<t, r[t] + 1>>}
           /\ RunOver(t) /\ l = "start" =>
                 /\ Ended' = Ended \union {<<t, r[t] + 1>>}
                 /\ HasStored(t) => Stored' = Stored
                 /\ Stored' = Stored \union {<<t, r[t] + 1>>}
<1> USE CountNumbers DEF CountTypes, HasStored
<1>1. ASSUME r' = r
      PROVE  /\ Ended' = Ended
             /\ (l \in {"release", "count"} <=> HasStored(t)) => Stored' = Stored
             /\ l \in {"release", "count"} => Stored' = Stored \union {<<t, r[t] + 1>>}
  <2>1. Ended' = Ended
    BY <1>1 DEF Ended
  <2>2. ASSUME l \in {"release", "count"} <=> HasStored(t) PROVE Stored' = Stored
    BY <1>1, <2>2, RunsSplit DEF Stored
  <2>3. ASSUME l \in {"release", "count"} PROVE Stored' = Stored \union {<<t, r[t] + 1>>}
    <3>1. <<t, r[t] + 1>> \in Runs
      BY DEF Runs
    <3>2. ASSUME NEW x \in Runs
          PROVE  x \in Stored' <=> (x \in Stored \/ x = <<t, r[t] + 1>>)
      <4>1. PICK v \in Threads : \E i \in 1 .. CounterRuns : x = <<v, i>>
        BY RunsSplit
      <4>2. PICK i \in 1 .. CounterRuns : x = <<v, i>>
        BY <4>1
      <4> QED
        BY <1>1, <2>3, <4>2 DEF Stored
    <3> QED
      BY <3>1, <3>2 DEF Stored
  <2> QED
    BY <2>1, <2>2, <2>3
<1>2. ASSUME RunOver(t), l = "start"
      PROVE  /\ Ended' = Ended \union {<<t, r[t] + 1>>}
             /\ HasStored(t) => Stored' = Stored
             /\ Stored' = Stored \union {<<t, r[t] + 1>>}
  <2>1. <<t, r[t] + 1>> \in Runs
    BY DEF Runs
  <2>2. ASSUME NEW x \in Runs
        PROVE  /\ x \in Ended' <=> (x \in Ended \/ x = <<t, r[t] + 1>>)
               /\ x \in Stored' <=> (x \in Stored \/ x = <<t, r[t] + 1>>)
    <3>1. PICK v \in Threads : \E i \in 1 .. CounterRuns : x = <<v, i>>
      BY RunsSplit
    <3>2. PICK i \in 1 .. CounterRuns : x = <<v, i>>
      BY <3>1
    <3>3. x \in Ended' <=> (x \in Ended \/ x = <<t, r[t] + 1>>)
      BY <1>2, <3>2 DEF Ended, RunOver
    <3>4. x \in Stored' <=> (x \in Stored \/ x = <<t, r[t] + 1>>)
      BY <1>2, <3>2 DEF Stored, RunOver
    <3> QED
      BY <3>3, <3>4
  <2>3. Ended' = Ended \union {<<t, r[t] + 1>>} /\ Stored' = Stored \union {<<t, r[t] + 1>>}
    BY <2>1, <2>2 DEF Ended, Stored
  <2>4. HasStored(t) => <<t, r[t] + 1>> \in Stored
    BY <2>1 DEF Stored
  <2> QED
    BY <2>3, <2>4
<1> QED
  BY <1>1, <1>2

LEMMA CountStep ==
    ASSUME CountInv, NEW t \in Threads, Count!Step(t)
    PROVE  CountInv'
<1> USE CountKinds, CountNumbers, CountsBounded DEF CountInv
<1>1. /\ program' = program /\ program \in Count!Programs
      /\ counter \in Nat /\ checkCounter \in Nat /\ lock \in BOOLEAN
      /\ pc \in [Threads -> {"start", "load", "store", "release", "count"}]
      /\ r \in [Threads -> 0 .. CounterRuns] /\ local \in [Threads -> Nat]
      /\ Cardinality(Stored) \in Nat /\ Cardinality(Ended) \in Nat
  BY DEF CountTypes
<1>2. CASE Acquires(t)
  <2> USE <1>1, <1>2 DEF Acquires, Moves
  <2>1. Stored' = Stored /\ Ended' = Ended
    <3>1. CountTypes /\ r[t] < CounterRuns /\ ~HasStored(t) /\ r' = r
          /\ pc' = [pc EXCEPT ![t] = "load"]
      BY DEF HasStored
    <3>2. "load" \in {"start", "load", "store", "release", "count"}
          /\ "load" \notin {"release", "count"}
      OBVIOUS
    <3> QED
      BY ONLY <3>1, <3>2, SlotsMove, t \in Threads
  <2>2. CountTypes' /\ CountLabels'
    BY DEF CountTypes, CountLabels
  <2>3. NeverAhead' /\ CountExact'
    BY <2>1 DEF NeverAhead, CountExact
  <2>4. CountLocked'
    <3>1. \A u \in Threads : pc[u] = "start"
      BY DEF CountLocked
    <3>2. pc'[t] = "load" /\ \A u \in Threads \ {t} : pc'[u] = "start"
      BY <3>1
    <3>3. lock' = TRUE /\ (program' = "counter2" /\ \E u \in Threads : pc'[u] # "start")
      BY <3>2
    <3> QED
      BY <3>2, <3>3 DEF CountLocked
  <2>5. AtLeastTwo'
    BY DEF AtLeastTwo, LastStored, HasStored
  <2> QED
    BY <2>2, <2>3, <2>4, <2>5
<1>3. CASE Loads(t)
  <2> USE <1>1, <1>3 DEF Loads
  <2>1. r[t] < CounterRuns /\ ~HasStored(t) /\ pc' = [pc EXCEPT ![t] = "store"]
        /\ program # "counter4"
    BY DEF Moves, HasStored
  <2>2. Stored' = Stored /\ Ended' = Ended
    <3>1. CountTypes /\ r' = r
      OBVIOUS
    <3>2. "store" \in {"start", "load", "store", "release", "count"}
          /\ "store" \notin {"release", "count"}
      OBVIOUS
    <3> QED
      BY ONLY <2>1, <3>1, <3>2, SlotsMove, t \in Threads
  <2>3. CountTypes' /\ CountLabels'
    BY <2>1 DEF CountTypes, CountLabels
  <2>4. NeverAhead' /\ CountExact'
    BY <2>1, <2>2 DEF NeverAhead, CountExact
  <2>5. CountLocked'
    <3>1. CASE program = "counter2"
      <4>1. pc[t] = "load" /\ pc'[t] = "store" /\ \A u \in Threads \ {t} : pc'[u] = pc[u]
        BY <2>1, <3>1 DEF Moves
      <4>2. lock' = TRUE /\ (program' = "counter2" /\ \E u \in Threads : pc'[u] # "start")
        BY <3>1, <4>1 DEF CountLocked
      <4> QED
        BY <3>1, <4>1, <4>2 DEF CountLocked
    <3>2. CASE program # "counter2"
      BY <3>2 DEF CountLocked
    <3> QED
      BY <3>1, <3>2
  <2>6. AtLeastTwo'
    BY <2>1 DEF AtLeastTwo, LastStored, HasStored
  <2> QED
    BY <2>3, <2>4, <2>5, <2>6
<1>4. CASE Stores(t)
  <2> USE <1>1, <1>4 DEF Stores
  <2>1. r[t] < CounterRuns /\ ~HasStored(t) /\ pc[t] = "store" /\ program # "counter4"
    BY DEF Moves, HasStored
  <2>2. \/ program \in {"counter1", "counter3"} /\ RunOver(t) /\ pc' = [pc EXCEPT ![t] = "start"]
        \/ program = "counter2" /\ r' = r /\ pc' = [pc EXCEPT ![t] = "release"]
        \/ program = "playground" /\ r' = r /\ pc' = [pc EXCEPT ![t] = "count"]
    BY DEF Moves
  <2>3. Stored' = Stored \union {<<t, r[t] + 1>>}
    BY <2>1, <2>2, SlotsMove DEF CountTypes
  <2>4. Cardinality(Stored') = Cardinality(Stored) + 1
    BY <2>1, <2>3, OneMore DEF CountTypes
  <2>5. Cardinality(Ended') >= Cardinality(Ended)
    <3>1. Ended' = Ended \/ Ended' = Ended \union {<<t, r[t] + 1>>}
      BY <2>1, <2>2, SlotsMove DEF CountTypes
    <3>2. Cardinality(Ended \union {<<t, r[t] + 1>>}) = Cardinality(Ended) + 1
      BY <2>1, OneMore
    <3>3. Cardinality(Ended') = Cardinality(Ended)
          \/ Cardinality(Ended') = Cardinality(Ended) + 1
      BY ONLY <3>1, <3>2
    <3> QED
      BY ONLY <1>1, <3>3
  <2>6. r' \in [Threads -> 0 .. CounterRuns]
    BY <2>1, <2>2 DEF RunOver
  <2>7. CountTypes' /\ CountLabels'
    <3>1. pc' \in [Threads -> {"start", "load", "store", "release", "count"}]
      BY ONLY <1>1, <2>2
    <3>2. counter' \in Nat /\ local' \in [Threads -> Nat] /\ checkCounter' \in Nat
      OBVIOUS
    <3>3. lock' \in BOOLEAN
      OBVIOUS
    <3>4. CountLabels'
      BY <2>1, <2>2 DEF CountLabels, RunOver
    <3> QED
      BY <1>1, <2>6, <3>1, <3>2, <3>3, <3>4 DEF CountTypes
  <2>8. NeverAhead'
    <3>1. counter' = local[t] + 1 /\ checkCounter' = checkCounter /\ local' = local
          /\ local[t] \in Nat /\ local \in [Threads -> Nat]
      OBVIOUS
    <3>2. Cardinality(Ended') \in Nat
      BY FS_Subset, FS_CardinalityType, RunsSplit DEF Ended, Runs
    <3> QED
      BY ONLY <1>1, <2>4, <2>5, <3>1, <3>2, NeverAhead DEF NeverAhead
  <2>9. CountLocked' /\ CountExact'
    <3>1. CASE program = "counter2"
      <4>1. pc'[t] = "release" /\ \A u \in Threads \ {t} : pc'[u] = pc[u]
        BY <2>2, <3>1
      <4>2. lock' = TRUE /\ (program' = "counter2" /\ \E u \in Threads : pc'[u] # "start")
        BY <2>1, <3>1, <4>1 DEF CountLocked
      <4>3. \A u \in Threads \ {t} : pc'[u] = "start"
        BY <2>1, <3>1, <4>1 DEF CountLocked
      <4> QED
        BY <2>1, <2>4, <3>1, <4>1, <4>2, <4>3 DEF CountLocked, CountExact
    <3>2. CASE program # "counter2"
      BY <2>1, <3>2 DEF CountLocked, CountExact
    <3> QED
      BY <3>1, <3>2
  <2>10. AtLeastTwo'
    <3>1. counter' >= 1 /\ (r[t] >= 1 => counter' >= 2)
      BY <2>1 DEF AtLeastTwo
    <3>2. \A u \in Threads : r'[u] >= 1 /\ pc'[u] = "store" => local'[u] >= 1
      <4>1. \A u \in Threads : pc'[u] = "store" => u # t /\ pc[u] = "store"
        BY ONLY <1>1, <2>2
      <4>2. \A u \in Threads : u # t => r'[u] = r[u]
        BY ONLY <1>1, <2>2 DEF RunOver
      <4> QED
        BY <4>1, <4>2 DEF AtLeastTwo
    <3>3. CounterRuns > 1 /\ LastStored(t)' => r[t] >= 1
      BY <2>1, <2>2 DEF LastStored, HasStored, RunOver
    <3> QED
      BY <3>1, <3>2, <3>3 DEF AtLeastTwo
  <2> QED
    BY <2>7, <2>8, <2>9, <2>10
<1>5. CASE Adds(t)
  <2> USE <1>1, <1>5 DEF Adds, Moves
  <2>1. pc' = pc /\ \A u \in Threads : pc[u] = "start"
    BY DEF CountLabels
  <2>2. Stored' = Stored \union {<<t, r[t] + 1>>} /\ Ended' = Ended \union {<<t, r[t] + 1>>}
    BY SlotsMove DEF CountTypes
  <2>3. Cardinality(Stored') = Cardinality(Stored) + 1
        /\ Cardinality(Ended') = Cardinality(Ended) + 1
    BY <2>2, OneMore DEF CountTypes, HasStored
  <2>4. r' \in [Threads -> 0 .. CounterRuns] /\ r'[t] = r[t] + 1
    BY DEF RunOver
  <2>5. CountTypes' /\ CountLabels' /\ CountLocked'
    <3>1. lock' \in BOOLEAN /\ counter' \in Nat /\ checkCounter' \in Nat
      OBVIOUS
    <3>2. local' \in [Threads -> Nat]
          /\ pc' \in [Threads -> {"start", "load", "store", "release", "count"}]
      BY <2>1
    <3>3. CountTypes'
      BY ONLY <1>1, <2>4, <3>1, <3>2 DEF CountTypes
    <3> QED
      BY <2>1, <3>3 DEF CountLabels, CountLocked
  <2>6. NeverAhead' /\ CountExact'
    BY <2>1, <2>3 DEF NeverAhead, CountExact
  <2>7. AtLeastTwo'
    <3>1. counter' >= 1 /\ (r[t] >= 1 => counter' >= 2)
      BY DEF AtLeastTwo
    <3>2. \A u \in Threads : pc'[u] # "store"
      BY <2>1
    <3>3. CounterRuns > 1 /\ LastStored(t)' => r[t] >= 1
      BY <2>1, <2>4 DEF LastStored, HasStored
    <3> QED
      BY <3>1, <3>2, <3>3 DEF AtLeastTwo
  <2> QED
    BY <2>5, <2>6, <2>7
<1>6. CASE Ends(t)
  <2> USE <1>1, <1>6 DEF Ends
  <2>1. /\ r[t] < CounterRuns /\ HasStored(t) /\ RunOver(t)
        /\ pc' = [pc EXCEPT ![t] = "start"] /\ program \in {"counter2", "playground"}
    BY DEF Moves, HasStored
  <2>2. Stored' = Stored /\ Ended' = Ended \union {<<t, r[t] + 1>>}
    BY <2>1, SlotsMove DEF CountTypes
  <2>3. Cardinality(Ended') = Cardinality(Ended) + 1
    BY <2>1, <2>2, OneMore DEF CountTypes
  <2>4. r' \in [Threads -> 0 .. CounterRuns] /\ r'[t] = r[t] + 1
        /\ \A u \in Threads \ {t} : r'[u] = r[u]
    BY <2>1 DEF RunOver
  <2>5. lock' \in BOOLEAN /\ checkCounter' \in Nat /\ checkCounter' <= checkCounter + 1
    <3>1. \/ lock' = FALSE /\ checkCounter' = checkCounter
          \/ lock' = lock /\ checkCounter' = checkCounter + 1
      OBVIOUS
    <3>2. lock' \in BOOLEAN
      BY ONLY <1>1, <3>1
    <3>3. checkCounter' = checkCounter \/ checkCounter' = checkCounter + 1
      BY ONLY <3>1
    <3> QED
      BY ONLY <1>1, <3>2, <3>3
  <2>6. CountTypes' /\ CountLabels'
    BY <2>1, <2>4, <2>5 DEF CountTypes, CountLabels
  <2>7. NeverAhead' /\ CountExact'
    BY <2>1, <2>2, <2>3, <2>5 DEF NeverAhead, CountExact
  <2>8. CountLocked'
    <3>1. CASE program = "counter2"
      <4>1. \A u \in Threads : pc'[u] = "start"
        BY <2>1, <3>1 DEF CountLocked, HasStored
      <4>2. lock' = FALSE
        BY <3>1
      <4> QED
        BY <4>1, <4>2 DEF CountLocked
    <3>2. CASE program # "counter2"
      BY <2>1, <3>2 DEF CountLocked
    <3> QED
      BY <3>1, <3>2
  <2>9. AtLeastTwo'
    <3>1. \A u \in Threads : LastStored(u)' => LastStored(u)
      BY <2>1, <2>4 DEF LastStored, HasStored
    <3> QED
      BY <2>1, <2>4, <3>1 DEF AtLeastTwo, HasStored
  <2> QED
    BY <2>6, <2>7, <2>8, <2>9
<1> QED
  BY <1>2, <1>3, <1>4, <1>5, <1>6

LEMMA CountStutter ==
    ASSUME CountInv, UNCHANGED Count!vars
    PROVE  CountInv'
BY DEF CountInv, Count!vars, CountTypes, CountLabels, NeverAhead, Stored, Ended, HasStored,
       CountLocked, CountExact, AtLeastTwo, LastStored

-----------------------------------------------------------------------------
(* The elections: module Elections *)

ElectTypes ==
    /\ program \in Elect!Programs
    /\ leader \in [Elect!Rounds -> Threads \union {NoLeader}]
    /\ nbLeaders \in [Elect!Rounds -> Nat]
    /\ lock \in BOOLEAN
    /\ pc \in [Threads -> {"start", "test", "set", "count", "release"}]
    /\ r \in [Threads -> 0 .. ElectionRuns]

ElectLabels ==
    \A t \in Threads :
        /\ pc[t] # "start" => r[t] < ElectionRuns
        /\ pc[t] \in {"test", "release"} => program = "election2"
        /\ pc[t] = "set" => program # "election4"

\* The threads that are through with round k, and those that are about to count themselves.
Through(k) == {t \in Threads : r[t] > k \/ (r[t] = k /\ pc[t] = "release")}
Counting(k) == {t \in Threads : r[t] = k /\ pc[t] = "count"}

\* Nobody leaves a round without a leader, and a leader has been counted or will be.
LeaderKnown ==
    \A k \in Elect!Rounds :
        /\ nbLeaders[k] <= Cardinality(Through(k))
        /\ Through(k) # {} \/ Counting(k) # {} => leader[k] # NoLeader
        /\ leader[k] # NoLeader => nbLeaders[k] > 0 \/ Counting(k) # {}

\* election2: the lock is held by the one thread between acquire and release, and what it
\* has found does not change.
ElectLocked ==
    /\ lock = (program = "election2" /\ \E t \in Threads : pc[t] # "start")
    /\ program = "election2" =>
          /\ \A t, u \in Threads : pc[t] # "start" /\ pc[u] # "start" => t = u
          /\ \A t \in Threads : pc[t] = "set" => leader[r[t]] = NoLeader

\* Where the test and the assignment are one step for the others, whoever counts itself
\* is the leader, and nobody else has been.
ElectExact ==
    program \in {"election2", "election4"} =>
        \A k \in Elect!Rounds :
            /\ \A t \in Counting(k) : leader[k] = t /\ nbLeaders[k] = 0
            /\ leader[k] = NoLeader => nbLeaders[k] = 0
            /\ leader[k] # NoLeader /\ Counting(k) = {} => nbLeaders[k] = 1

ElectInv ==
    /\ ElectTypes
    /\ ElectLabels
    /\ LeaderKnown
    /\ ElectLocked
    /\ ElectExact

LEMMA ElectNumbers ==
    /\ ElectionRuns \in Nat \ {0} /\ IsFiniteSet(Threads) /\ Threads # {}
    /\ NoLeader \notin Threads
    /\ Elect!Cardinality(Threads) = Cardinality(Threads) /\ Cardinality(Threads) \in Nat
    /\ Elect!Rounds = 0 .. ElectionRuns - 1
<1>1. Elect!Cardinality(Threads) = Cardinality(Threads)
  BY DEF Elect!Cardinality, Cardinality
<1>2. IsFiniteSet(Threads) /\ Cardinality(Threads) \in Nat
  BY CountNumbers, FS_CardinalityType
<1> QED
  BY <1>1, <1>2, ExamplesAssumption DEF Elect!ElectionsAssumption, Elect!Rounds

LEMMA ThroughBounded ==
    ASSUME NEW k
    PROVE  /\ IsFiniteSet(Through(k)) /\ Through(k) \in SUBSET Threads
           /\ Cardinality(Through(k)) \in 0 .. Cardinality(Threads)
<1>1. Through(k) \in SUBSET Threads
  BY DEF Through
<1> QED
  BY <1>1, ElectNumbers, FS_Subset, FS_CardinalityType

LEMMA ElectBegin ==
    ASSUME Elect!Init
    PROVE  ElectInv
<1> USE ElectNumbers DEF Elect!Init
<1>1. ElectTypes /\ ElectLabels
  <2>1. lock \in BOOLEAN
    OBVIOUS
  <2>2. leader \in [Elect!Rounds -> Threads \union {NoLeader}]
        /\ nbLeaders \in [Elect!Rounds -> Nat]
    OBVIOUS
  <2>3. pc \in [Threads -> {"start", "test", "set", "count", "release"}]
        /\ r \in [Threads -> 0 .. ElectionRuns]
    OBVIOUS
  <2> QED
    BY <2>1, <2>2, <2>3 DEF ElectTypes, ElectLabels
<1>2. \A k \in Elect!Rounds : Through(k) = {} /\ Counting(k) = {}
  BY DEF Through, Counting
<1>3. LeaderKnown
  <2>1. \A k \in Elect!Rounds : Cardinality(Through(k)) \in Nat
    BY ThroughBounded
  <2> QED
    BY <1>2, <2>1 DEF LeaderKnown
<1>4. ElectLocked
  BY DEF ElectLocked
<1>5. ElectExact
  BY <1>2 DEF ElectExact
<1> QED
  BY <1>1, <1>3, <1>4, <1>5 DEF ElectInv

LEMMA ElectSafe ==
    ASSUME ElectInv
    PROVE  Elect!TypeOK /\ Elect!OneLeader /\ Elect!SomeLeader
<1> USE ElectNumbers DEF ElectInv
<1>1. Elect!TypeOK
  <2>1. ASSUME NEW k \in Elect!Rounds PROVE nbLeaders[k] \in 0 .. Cardinality(Threads)
    <3>1. nbLeaders[k] \in Nat /\ nbLeaders[k] <= Cardinality(Through(k))
      BY DEF ElectTypes, LeaderKnown
    <3> QED
      BY ONLY <3>1, ThroughBounded, ElectNumbers
  <2>2. nbLeaders \in [Elect!Rounds -> 0 .. Elect!Cardinality(Threads)]
    BY <2>1 DEF ElectTypes
  <2> QED
    BY <2>2 DEF Elect!TypeOK, ElectTypes, ElectLocked
<1>2. ASSUME Elect!Joined, NEW k \in Elect!Rounds
      PROVE  Through(k) # {} /\ Counting(k) = {}
  BY <1>2 DEF Elect!Joined, Through, Counting
<1>3. Elect!OneLeader
  BY <1>2 DEF Elect!OneLeader, ElectExact, LeaderKnown
<1>4. Elect!SomeLeader
  BY <1>2 DEF Elect!SomeLeader, LeaderKnown
<1> QED
  BY <1>1, <1>3, <1>4

\* The six kinds of steps that the programs are made of.
Turns(t, from, to) == pc[t] = from /\ pc' = [pc EXCEPT ![t] = to] /\ r[t] < ElectionRuns

Enters(t) ==
    /\ program = "election2" /\ Turns(t, "start", "test")
    /\ ~lock /\ lock' = TRUE
    /\ UNCHANGED <<leader, nbLeaders, r>>

Passes(t) ==
    /\ leader[r[t]] # NoLeader
    /\ \/ program # "election2" /\ Turns(t, "start", "start") /\ RunOver(t)
       \/ program = "election2" /\ Turns(t, "test", "release") /\ UNCHANGED r
    /\ UNCHANGED <<leader, nbLeaders, lock>>

Finds(t) ==
    /\ leader[r[t]] = NoLeader
    /\ \/ program \in {"election1", "election3"} /\ Turns(t, "start", "set")
       \/ program = "election2" /\ Turns(t, "test", "set")
    /\ UNCHANGED <<leader, nbLeaders, lock, r>>

Sets(t) ==
    /\ \/ program # "election4" /\ Turns(t, "set", "count")
       \/ program = "election4" /\ Turns(t, "start", "count") /\ leader[r[t]] = NoLeader
    /\ leader' = [leader EXCEPT ![r[t]] = t]
    /\ UNCHANGED <<nbLeaders, lock, r>>

CountsItself(t) ==
    /\ \/ program # "election2" /\ Turns(t, "count", "start") /\ RunOver(t)
       \/ program = "election2" /\ Turns(t, "count", "release") /\ UNCHANGED r
    /\ nbLeaders' = [nbLeaders EXCEPT ![r[t]] = @ + 1]
    /\ UNCHANGED <<leader, lock>>

Leaves(t) ==
    /\ program = "election2" /\ Turns(t, "release", "start") /\ RunOver(t)
    /\ lock' = FALSE
    /\ UNCHANGED <<leader, nbLeaders>>

LEMMA ElectKinds ==
    ASSUME NEW t \in Threads, Elect!Step(t)
    PROVE  /\ program' = program
           /\ \/ Enters(t) \/ Passes(t) \/ Finds(t)
              \/ Sets(t) \/ CountsItself(t) \/ Leaves(t)
<1> USE DEF Elect!Step, Turns, RunOver, Elect!Goto, Elect!NextRound, Elect!Test, Elect!Set,
            Elect!Count
<1>1. CASE program = "election1" /\ Elect!Election1(t)
  BY <1>1 DEF Elect!Election1, Passes, Finds, Sets, CountsItself
<1>2. CASE program = "election2" /\ Elect!Election2(t)
  BY <1>2 DEF Elect!Election2, Enters, Passes, Finds, Sets, CountsItself, Leaves
<1>3. CASE program = "election3" /\ Elect!Election3(t)
  BY <1>3 DEF Elect!Election3, Passes, Finds, Sets, CountsItself
<1>4. CASE program = "election4" /\ Elect!Election4(t)
  BY <1>4 DEF Elect!Election4, Passes, Sets, CountsItself
<1> QED
  BY <1>1, <1>2, <1>3, <1>4

\* Who is through with a round, and who is counting, after a step of t.
LEMMA PlacesMove ==
    ASSUME ElectTypes, NEW t \in Threads, r[t] < ElectionRuns,
           pc' = [pc EXCEPT ![t] = pc'[t]], r' = r \/ (RunOver(t) /\ pc'[t] = "start"),
           NEW k \in Elect!Rounds
    PROVE  /\ k # r[t] => Through(k)' = Through(k) /\ Counting(k)' = Counting(k)
           /\ k = r[t] =>
                 /\ pc'[t] = "count" => Counting(k)' = Counting(k) \union {t}
                 /\ pc'[t] # "count" => Counting(k)' = Counting(k) \ {t}
                 /\ RunOver(t) \/ pc'[t] = "release" => Through(k)' = Through(k) \union {t}
                 /\ r' = r /\ pc'[t] # "release" /\ pc[t] # "release" => Through(k)' = Through(k)
<1> USE ElectNumbers DEF ElectTypes
<1>1. \A u \in Threads \ {t} : pc'[u] = pc[u] /\ r'[u] = r[u]
  BY DEF RunOver
<1>2. (r' = r => r'[t] = r[t]) /\ (RunOver(t) => r'[t] = r[t] + 1)
  BY DEF RunOver
<1>3. ASSUME k # r[t] PROVE Through(k)' = Through(k) /\ Counting(k)' = Counting(k)
  <2>1. \A u \in Threads : (u \in Through(k)' <=> u \in Through(k))
                           /\ (u \in Counting(k)' <=> u \in Counting(k))
    BY <1>1, <1>2, <1>3 DEF Through, Counting
  <2> QED
    BY ONLY <2>1 DEF Through, Counting
<1>4. ASSUME k = r[t]
      PROVE  /\ pc'[t] = "count" => Counting(k)' = Counting(k) \union {t}
             /\ pc'[t] # "count" => Counting(k)' = Counting(k) \ {t}
  <2>1. \A u \in Threads \ {t} : u \in Counting(k)' <=> u \in Counting(k)
    BY <1>1 DEF Counting
  <2>2. t \in Counting(k)' <=> pc'[t] = "count"
    BY <1>2, <1>4 DEF Counting
  <2>3. Counting(k) \subseteq Threads /\ Counting(k)' \subseteq Threads
    BY DEF Counting
  <2> QED
    BY ONLY <2>1, <2>2, <2>3, t \in Threads
<1>5. ASSUME k = r[t]
      PROVE  /\ RunOver(t) \/ pc'[t] = "release" => Through(k)' = Through(k) \union {t}
             /\ r' = r /\ pc'[t] # "release" /\ pc[t] # "release" => Through(k)' = Through(k)
  <2>1. \A u \in Threads \ {t} : u \in Through(k)' <=> u \in Through(k)
    BY <1>1 DEF Through
  <2>2. RunOver(t) \/ pc'[t] = "release" => t \in Through(k)'
    BY <1>2, <1>5 DEF Through
  <2>3. r' = r /\ pc'[t] # "release" /\ pc[t] # "release" => t \notin Through(k) /\ t \notin Through(k)'
    BY <1>2, <1>5 DEF Through
  <2>4. Through(k) \subseteq Threads /\ Through(k)' \subseteq Threads
    BY DEF Through
  <2> QED
    BY ONLY <2>1, <2>2, <2>3, <2>4, t \in Threads
<1> QED
  BY <1>3, <1>4, <1>5

LEMMA ElectStep ==
    ASSUME ElectInv, NEW t \in Threads, Elect!Step(t)
    PROVE  ElectInv'
<1> USE ElectNumbers DEF ElectInv
<1>1. /\ program' = program /\ program \in Elect!Programs
      /\ leader \in [Elect!Rounds -> Threads \union {NoLeader}]
      /\ nbLeaders \in [Elect!Rounds -> Nat] /\ lock \in BOOLEAN
      /\ pc \in [Threads -> {"start", "test", "set", "count", "release"}]
      /\ r \in [Threads -> 0 .. ElectionRuns]
  BY ElectKinds DEF ElectTypes
<1>2. \A k \in Elect!Rounds : IsFiniteSet(Through(k)) /\ Cardinality(Through(k)) \in Nat
  BY ThroughBounded
<1>3. CASE Enters(t)
  <2> USE <1>1, <1>3 DEF Enters, Turns
  <2>1. \A k \in Elect!Rounds : Through(k)' = Through(k) /\ Counting(k)' = Counting(k)
    <3> SUFFICES ASSUME NEW k \in Elect!Rounds
                 PROVE  Through(k)' = Through(k) /\ Counting(k)' = Counting(k)
      OBVIOUS
    <3>1. ElectTypes /\ r[t] < ElectionRuns /\ r' = r /\ pc' = [pc EXCEPT ![t] = "test"]
          /\ pc[t] # "release" /\ t \notin Counting(k)
      BY DEF Counting
    <3>2. pc' = [pc EXCEPT ![t] = pc'[t]] /\ pc'[t] = "test"
      BY ONLY <1>1, <3>1, t \in Threads
    <3>3. Through(k)' = Through(k) /\ (Counting(k)' = Counting(k) \/ Counting(k)' = Counting(k) \ {t})
      BY ONLY <3>1, <3>2, PlacesMove, t \in Threads, k \in Elect!Rounds
    <3> QED
      BY ONLY <3>1, <3>3
  <2>2. ElectTypes' /\ ElectLabels'
    BY DEF ElectTypes, ElectLabels
  <2>3. LeaderKnown' /\ ElectExact'
    BY <2>1 DEF LeaderKnown, ElectExact
  <2>4. ElectLocked'
    <3>1. \A u \in Threads : pc[u] = "start"
      BY DEF ElectLocked
    <3>2. pc'[t] = "test" /\ \A u \in Threads \ {t} : pc'[u] = "start"
      BY <3>1
    <3>3. lock' = TRUE /\ (program' = "election2" /\ \E u \in Threads : pc'[u] # "start")
      BY <3>2
    <3> QED
      BY <3>2, <3>3 DEF ElectLocked
  <2> QED
    BY <2>2, <2>3, <2>4
<1>4. CASE Passes(t)
  <2> USE <1>1, <1>4 DEF Passes
  <2>1. \/ /\ program # "election2" /\ pc[t] = "start" /\ RunOver(t)
           /\ pc' = [pc EXCEPT ![t] = "start"]
        \/ /\ program = "election2" /\ pc[t] = "test" /\ r' = r
           /\ pc' = [pc EXCEPT ![t] = "release"]
    BY DEF Turns
  <2>2. r[t] < ElectionRuns /\ r[t] \in Elect!Rounds
    BY DEF Turns
  <2>3. \A k \in Elect!Rounds : /\ Counting(k)' = Counting(k)
                                /\ k # r[t] => Through(k)' = Through(k)
                                /\ k = r[t] => Through(k)' = Through(k) \union {t}
    <3> SUFFICES ASSUME NEW k \in Elect!Rounds
                 PROVE  /\ Counting(k)' = Counting(k)
                        /\ k # r[t] => Through(k)' = Through(k)
                        /\ k = r[t] => Through(k)' = Through(k) \union {t}
      OBVIOUS
    <3>1. ElectTypes /\ t \notin Counting(k)
      BY <2>1 DEF Counting
    <3>2. /\ pc' = [pc EXCEPT ![t] = pc'[t]] /\ pc'[t] \in {"start", "release"}
          /\ pc'[t] = "start" => RunOver(t)
          /\ pc'[t] = "release" => r' = r
      BY ONLY <1>1, <2>1, t \in Threads
    <3>3. /\ k # r[t] => Through(k)' = Through(k) /\ Counting(k)' = Counting(k)
          /\ k = r[t] => /\ Through(k)' = Through(k) \union {t}
                         /\ Counting(k)' = Counting(k) \ {t}
      BY ONLY <2>2, <3>1, <3>2, PlacesMove, t \in Threads, k \in Elect!Rounds
    <3> QED
      BY ONLY <3>1, <3>3
  <2>4. r' \in [Threads -> 0 .. ElectionRuns]
    BY <2>1, <2>2 DEF RunOver
  <2>5. ElectTypes' /\ ElectLabels'
    BY <2>1, <2>2, <2>4 DEF ElectTypes, ElectLabels, RunOver
  <2>6. LeaderKnown'
    <3>1. \A k \in Elect!Rounds : Cardinality(Through(k)') \in Nat
                                  /\ Cardinality(Through(k)') >= Cardinality(Through(k))
      <4> SUFFICES ASSUME NEW k \in Elect!Rounds
                   PROVE  Cardinality(Through(k)') \in Nat
                          /\ Cardinality(Through(k)') >= Cardinality(Through(k))
        OBVIOUS
      <4>1. IsFiniteSet(Through(k)) /\ Cardinality(Through(k)) \in Nat
        BY ONLY <1>2, k \in Elect!Rounds
      <4>2. CASE k # r[t] \/ t \in Through(k)
        <5>1. Through(k)' = Through(k)
          BY ONLY <2>3, <4>2, k \in Elect!Rounds
        <5> QED
          BY ONLY <4>1, <5>1
      <4>3. CASE k = r[t] /\ t \notin Through(k)
        <5>1. Through(k)' = Through(k) \union {t}
          BY ONLY <2>3, <4>3, k \in Elect!Rounds
        <5>2. Cardinality(Through(k)') = Cardinality(Through(k)) + 1
          BY ONLY <4>1, <4>3, <5>1, FS_AddElement
        <5> QED
          BY ONLY <4>1, <5>2
      <4> QED
        BY <4>2, <4>3
    <3>2. ASSUME NEW k \in Elect!Rounds
          PROVE  nbLeaders'[k] <= Cardinality(Through(k)')
      <4>1. nbLeaders'[k] = nbLeaders[k] /\ nbLeaders[k] \in Nat
            /\ nbLeaders[k] <= Cardinality(Through(k)) /\ Cardinality(Through(k)) \in Nat
        BY <1>2 DEF LeaderKnown
      <4> QED
        BY ONLY <3>1, <4>1, k \in Elect!Rounds
    <3> QED
      BY <2>3, <3>2 DEF LeaderKnown
  <2>7. ElectExact'
    BY <2>3 DEF ElectExact
  <2>8. ElectLocked'
    <3>1. CASE program = "election2"
      <4>1. pc'[t] = "release" /\ \A u \in Threads \ {t} : pc'[u] = "start"
        BY <2>1, <3>1 DEF ElectLocked
      <4>2. lock' = TRUE /\ (program' = "election2" /\ \E u \in Threads : pc'[u] # "start")
        BY <2>1, <3>1, <4>1 DEF ElectLocked
      <4> QED
        BY <4>1, <4>2 DEF ElectLocked
    <3>2. CASE program # "election2"
      BY <3>2 DEF ElectLocked
    <3> QED
      BY <3>1, <3>2
  <2> QED
    BY <2>5, <2>6, <2>7, <2>8
<1>5. CASE Finds(t)
  <2> USE <1>1, <1>5 DEF Finds
  <2>1. /\ pc[t] \in {"start", "test"} /\ r[t] < ElectionRuns /\ r' = r
        /\ pc' = [pc EXCEPT ![t] = "set"] /\ program # "election4"
        /\ program = "election2" => pc[t] = "test"
    BY DEF Turns
  <2>2. \A k \in Elect!Rounds : Through(k)' = Through(k) /\ Counting(k)' = Counting(k)
    <3> SUFFICES ASSUME NEW k \in Elect!Rounds
                 PROVE  Through(k)' = Through(k) /\ Counting(k)' = Counting(k)
      OBVIOUS
    <3>1. ElectTypes /\ pc[t] # "release" /\ t \notin Counting(k)
      BY <2>1 DEF Counting
    <3>2. pc' = [pc EXCEPT ![t] = pc'[t]] /\ pc'[t] = "set"
      BY ONLY <1>1, <2>1, t \in Threads
    <3>3. Through(k)' = Through(k) /\ (Counting(k)' = Counting(k) \/ Counting(k)' = Counting(k) \ {t})
      BY ONLY <2>1, <3>1, <3>2, PlacesMove, t \in Threads, k \in Elect!Rounds
    <3> QED
      BY ONLY <3>1, <3>3
  <2>3. ElectTypes' /\ ElectLabels'
    BY <2>1 DEF ElectTypes, ElectLabels
  <2>4. LeaderKnown' /\ ElectExact'
    BY <2>2 DEF LeaderKnown, ElectExact
  <2>5. ElectLocked'
    <3>1. CASE program = "election2"
      <4>1. pc'[t] = "set" /\ \A u \in Threads \ {t} : pc'[u] = "start"
        BY <2>1, <3>1 DEF ElectLocked
      <4>2. lock' = TRUE /\ (program' = "election2" /\ \E u \in Threads : pc'[u] # "start")
        BY <2>1, <3>1, <4>1 DEF ElectLocked
      <4> QED
        BY <2>1, <4>1, <4>2 DEF ElectLocked
    <3>2. CASE program # "election2"
      BY <3>2 DEF ElectLocked
    <3> QED
      BY <3>1, <3>2
  <2> QED
    BY <2>3, <2>4, <2>5
<1>6. CASE Sets(t)
  <2> USE <1>1, <1>6 DEF Sets
  <2>1. /\ pc[t] \in {"start", "set"} /\ r[t] < ElectionRuns /\ r[t] \in Elect!Rounds /\ r' = r
        /\ pc' = [pc EXCEPT ![t] = "count"] /\ (program = "election2" => pc[t] = "set")
    BY DEF Turns
  <2>2. \A k \in Elect!Rounds : /\ Through(k)' = Through(k)
                                /\ k # r[t] => Counting(k)' = Counting(k)
                                /\ k = r[t] => Counting(k)' = Counting(k) \union {t}
    <3> SUFFICES ASSUME NEW k \in Elect!Rounds
                 PROVE  /\ Through(k)' = Through(k)
                        /\ k # r[t] => Counting(k)' = Counting(k)
                        /\ k = r[t] => Counting(k)' = Counting(k) \union {t}
      OBVIOUS
    <3>1. ElectTypes /\ pc[t] # "release"
      BY <2>1
    <3>2. pc' = [pc EXCEPT ![t] = pc'[t]] /\ pc'[t] = "count"
      BY ONLY <1>1, <2>1, t \in Threads
    <3> QED
      BY ONLY <2>1, <3>1, <3>2, PlacesMove, t \in Threads, k \in Elect!Rounds
  <2>3. leader' \in [Elect!Rounds -> Threads \union {NoLeader}]
        /\ leader'[r[t]] = t /\ \A k \in Elect!Rounds : k # r[t] => leader'[k] = leader[k]
    BY <2>1
  <2>4. ElectTypes' /\ ElectLabels'
    BY <2>1, <2>3 DEF ElectTypes, ElectLabels
  <2>5. LeaderKnown'
    BY <2>2, <2>3 DEF LeaderKnown
  <2>6. ElectLocked'
    <3>1. CASE program = "election2"
      <4>1. pc'[t] = "count" /\ \A u \in Threads \ {t} : pc'[u] = "start"
        BY <2>1, <3>1 DEF ElectLocked
      <4>2. lock' = TRUE /\ (program' = "election2" /\ \E u \in Threads : pc'[u] # "start")
        BY <2>1, <3>1, <4>1 DEF ElectLocked
      <4> QED
        BY <4>1, <4>2 DEF ElectLocked
    <3>2. CASE program # "election2"
      BY <3>2 DEF ElectLocked
    <3> QED
      BY <3>1, <3>2
  <2>7. ElectExact'
    <3> SUFFICES ASSUME program \in {"election2", "election4"}, NEW k \in Elect!Rounds
                 PROVE  /\ \A u \in Counting(k)' : leader'[k] = u /\ nbLeaders'[k] = 0
                        /\ leader'[k] = NoLeader => nbLeaders'[k] = 0
                        /\ leader'[k] # NoLeader /\ Counting(k)' = {} => nbLeaders'[k] = 1
      BY DEF ElectExact
    <3>1. CASE k # r[t]
      BY <2>2, <2>3, <3>1 DEF ElectExact
    <3>2. CASE k = r[t]
      <4>1. leader[k] = NoLeader
        BY <3>2 DEF ElectLocked, Turns
      <4>2. nbLeaders[k] = 0 /\ Counting(k) = {}
        BY <4>1 DEF ElectExact, LeaderKnown
      <4>3. Counting(k)' = {t} /\ leader'[k] = t
        BY <2>2, <2>3, <3>2, <4>2
      <4> QED
        BY <4>2, <4>3
    <3> QED
      BY <3>1, <3>2
  <2> QED
    BY <2>4, <2>5, <2>6, <2>7
<1>7. CASE CountsItself(t)
  <2> USE <1>1, <1>7 DEF CountsItself
  <2>1. \/ /\ program # "election2" /\ RunOver(t) /\ pc' = [pc EXCEPT ![t] = "start"]
        \/ /\ program = "election2" /\ r' = r /\ pc' = [pc EXCEPT ![t] = "release"]
    BY DEF Turns
  <2>2. pc[t] = "count" /\ r[t] < ElectionRuns /\ r[t] \in Elect!Rounds
    BY DEF Turns
  <2>3. \A k \in Elect!Rounds :
           /\ k # r[t] => Through(k)' = Through(k) /\ Counting(k)' = Counting(k)
           /\ k = r[t] => Through(k)' = Through(k) \union {t} /\ Counting(k)' = Counting(k) \ {t}
    <3> SUFFICES ASSUME NEW k \in Elect!Rounds
                 PROVE  /\ k # r[t] => Through(k)' = Through(k) /\ Counting(k)' = Counting(k)
                        /\ k = r[t] => /\ Through(k)' = Through(k) \union {t}
                                       /\ Counting(k)' = Counting(k) \ {t}
      OBVIOUS
    <3>1. ElectTypes
      OBVIOUS
    <3>2. /\ pc' = [pc EXCEPT ![t] = pc'[t]] /\ pc'[t] \in {"start", "release"}
          /\ pc'[t] = "start" => RunOver(t)
          /\ pc'[t] = "release" => r' = r
      BY ONLY <1>1, <2>1, t \in Threads
    <3>3. /\ k # r[t] => Through(k)' = Through(k) /\ Counting(k)' = Counting(k)
          /\ k = r[t] => /\ Through(k)' = Through(k) \union {t}
                         /\ Counting(k)' = Counting(k) \ {t}
      BY ONLY <2>2, <3>1, <3>2, PlacesMove, t \in Threads, k \in Elect!Rounds
    <3> QED
      BY ONLY <3>1, <3>3
  <2>4. t \notin Through(r[t]) /\ t \in Counting(r[t])
    BY <2>2 DEF Through, Counting
  <2>5. nbLeaders' \in [Elect!Rounds -> Nat] /\ nbLeaders'[r[t]] = nbLeaders[r[t]] + 1
        /\ \A k \in Elect!Rounds : k # r[t] => nbLeaders'[k] = nbLeaders[k]
    BY <2>2
  <2>6. r' \in [Threads -> 0 .. ElectionRuns]
        /\ pc' \in [Threads -> {"start", "test", "set", "count", "release"}]
    <3>1. CASE RunOver(t) /\ pc' = [pc EXCEPT ![t] = "start"]
      BY ONLY <1>1, <2>2, <3>1, ElectNumbers DEF RunOver
    <3>2. CASE r' = r /\ pc' = [pc EXCEPT ![t] = "release"]
      BY ONLY <1>1, <3>2
    <3> QED
      BY ONLY <2>1, <3>1, <3>2
  <2>7. ElectTypes' /\ ElectLabels'
    <3>1. ElectTypes'
      BY <2>5, <2>6 DEF ElectTypes
    <3>2. ElectLabels'
      BY <2>1, <2>2 DEF ElectLabels, RunOver
    <3> QED
      BY <3>1, <3>2
  <2>8. LeaderKnown'
    <3> SUFFICES ASSUME NEW k \in Elect!Rounds
                 PROVE  /\ nbLeaders'[k] <= Cardinality(Through(k)')
                        /\ Through(k)' # {} \/ Counting(k)' # {} => leader'[k] # NoLeader
                        /\ leader'[k] # NoLeader => nbLeaders'[k] > 0 \/ Counting(k)' # {}
      BY DEF LeaderKnown
    <3>1. CASE k # r[t]
      BY <2>3, <2>5, <3>1 DEF LeaderKnown
    <3>2. CASE k = r[t]
      <4>1. Cardinality(Through(k)') = Cardinality(Through(k)) + 1
        <5>1. Through(k)' = Through(k) \union {t} /\ t \notin Through(k)
              /\ IsFiniteSet(Through(k))
          BY ONLY <1>2, <2>3, <2>4, <3>2, k \in Elect!Rounds
        <5> QED
          BY ONLY <5>1, FS_AddElement
      <4>2. nbLeaders'[k] <= Cardinality(Through(k)') /\ nbLeaders'[k] > 0
        BY <1>2, <2>5, <3>2, <4>1 DEF LeaderKnown
      <4>3. leader'[k] # NoLeader
        BY <2>4, <3>2 DEF LeaderKnown
      <4> QED
        BY <4>2, <4>3
    <3> QED
      BY <3>1, <3>2
  <2>9. ElectLocked'
    <3>1. CASE program = "election2"
      <4>1. pc'[t] = "release" /\ \A u \in Threads \ {t} : pc'[u] = "start"
        BY <2>1, <2>2, <3>1 DEF ElectLocked
      <4>2. lock' = TRUE /\ (program' = "election2" /\ \E u \in Threads : pc'[u] # "start")
        BY <2>2, <3>1, <4>1 DEF ElectLocked
      <4> QED
        BY <4>1, <4>2 DEF ElectLocked
    <3>2. CASE program # "election2"
      BY <3>2 DEF ElectLocked
    <3> QED
      BY <3>1, <3>2
  <2>10. ElectExact'
    <3> SUFFICES ASSUME program \in {"election2", "election4"}, NEW k \in Elect!Rounds
                 PROVE  /\ \A u \in Counting(k)' : leader'[k] = u /\ nbLeaders'[k] = 0
                        /\ leader'[k] = NoLeader => nbLeaders'[k] = 0
                        /\ leader'[k] # NoLeader /\ Counting(k)' = {} => nbLeaders'[k] = 1
      BY DEF ElectExact
    <3>1. CASE k # r[t]
      BY <2>3, <2>5, <3>1 DEF ElectExact
    <3>2. CASE k = r[t]
      <4>1. leader[k] = t /\ nbLeaders[k] = 0 /\ Counting(k) = {t}
        BY <2>4, <3>2 DEF ElectExact
      <4>2. Counting(k)' = {} /\ leader'[k] = t /\ nbLeaders'[k] = 1
        BY <2>3, <2>5, <3>2, <4>1
      <4> QED
        BY <4>2
    <3> QED
      BY <3>1, <3>2
  <2> QED
    BY <2>7, <2>8, <2>9, <2>10
<1>8. CASE Leaves(t)
  <2> USE <1>1, <1>8 DEF Leaves
  <2>1. /\ program = "election2" /\ RunOver(t) /\ pc' = [pc EXCEPT ![t] = "start"]
        /\ pc[t] = "release" /\ r[t] < ElectionRuns
    BY DEF Turns
  <2>2. \A k \in Elect!Rounds : Through(k)' = Through(k) /\ Counting(k)' = Counting(k)
    <3> SUFFICES ASSUME NEW k \in Elect!Rounds
                 PROVE  Through(k)' = Through(k) /\ Counting(k)' = Counting(k)
      OBVIOUS
    <3>1. ElectTypes /\ t \notin Counting(k) /\ (k = r[t] => t \in Through(k))
      BY <2>1 DEF Counting, Through
    <3>2. pc' = [pc EXCEPT ![t] = pc'[t]] /\ pc'[t] = "start"
      BY ONLY <1>1, <2>1, t \in Threads
    <3>3. /\ k # r[t] => Through(k)' = Through(k) /\ Counting(k)' = Counting(k)
          /\ k = r[t] => /\ Through(k)' = Through(k) \union {t}
                         /\ Counting(k)' = Counting(k) \ {t}
      BY ONLY <2>1, <3>1, <3>2, PlacesMove, t \in Threads, k \in Elect!Rounds
    <3> QED
      BY ONLY <3>1, <3>3
  <2>3. r' \in [Threads -> 0 .. ElectionRuns]
    BY <2>1 DEF RunOver
  <2>4. \A u \in Threads : pc'[u] = "start"
    BY <2>1 DEF ElectLocked
  <2>5. ElectTypes' /\ ElectLabels'
    <3>1. pc' \in [Threads -> {"start", "test", "set", "count", "release"}]
      BY <2>1
    <3>2. lock' \in BOOLEAN /\ UNCHANGED <<leader, nbLeaders>>
      OBVIOUS
    <3>3. ElectTypes'
      BY ONLY <1>1, <2>3, <3>1, <3>2 DEF ElectTypes
    <3> QED
      BY <2>4, <3>3 DEF ElectLabels
  <2>6. LeaderKnown' /\ ElectExact'
    BY <2>2 DEF LeaderKnown, ElectExact
  <2>7. ElectLocked'
    <3>1. lock' = FALSE
      OBVIOUS
    <3> QED
      BY <2>4, <3>1 DEF ElectLocked
  <2> QED
    BY <2>5, <2>6, <2>7
<1> QED
  BY <1>3, <1>4, <1>5, <1>6, <1>7, <1>8, ElectKinds

LEMMA ElectStutter ==
    ASSUME ElectInv, UNCHANGED Elect!vars
    PROVE  ElectInv'
BY DEF ElectInv, Elect!vars, ElectTypes, ElectLabels, LeaderKnown, Through, Counting,
       ElectLocked, ElectExact

-----------------------------------------------------------------------------
(* The producers and consumers: module ProducerConsumer *)

Slots == 0 .. BUFFER_SIZE - 1
Copied == Procon!Items \X Procon!Items

\* The consumer has counted C items, the producer P.
C == until["consume"]
P == until["produce"]

ProconTypes ==
    /\ program \in Procon!Programs
    /\ buffer \in [Slots -> Copied] /\ consumed \in [1 .. ProconRuns -> Copied]
    /\ until \in [Procon!Roles -> Nat] /\ r \in [Procon!Roles -> 0 .. ProconRuns]
    /\ lock \in BOOLEAN
    /\ pc \in [Procon!Roles -> {"start", "test", "first", "second", "count", "wait", "wake"}]

ProconLabels ==
    \A t \in Procon!Roles :
        /\ pc[t] # "start" => r[t] < ProconRuns
        /\ pc[t] = "test" => program \in {"procon2", "procon4"}
        /\ pc[t] = "count" => program # "procon1"
        /\ pc[t] \in {"wait", "wake"} => program = "procon4"

\* procon2 and procon4: the lock is held by the one thread between acquire and release.
InLock(t) == pc[t] \in {"test", "first", "second", "count"}
ProconLocked ==
    /\ lock = (program \in {"procon2", "procon4"} /\ \E t \in Procon!Roles : InLock(t))
    /\ program \in {"procon2", "procon4"} =>
          \A t, u \in Procon!Roles : InLock(t) /\ InLock(u) => t = u

\* Each thread counts one item in each of its runs, and copies one when there is room,
\* or an item, which the other one cannot undo.
InCopy(t) == pc[t] \in {"first", "second", "count"}
Counted ==
    /\ program = "procon1" => P = 0 /\ C = 0
    /\ program # "procon1" =>
          /\ \A t \in Procon!Roles : /\ pc[t] # "wake" => until[t] = r[t]
                                     /\ pc[t] = "wake" => until[t] = r[t] + 1
          /\ C <= P /\ P <= C + BUFFER_SIZE
          /\ InCopy("produce") => P < C + BUFFER_SIZE
          /\ InCopy("consume") => C < P

\* What is in the buffer and what has been consumed is whole, and so is the half of an
\* item that has been copied.
Contents ==
    program # "procon1" =>
        /\ \A i \in C + 1 .. P : buffer[(i - 1) % BUFFER_SIZE] = <<i, i>>
        /\ \A k \in 1 .. C : consumed[k] = <<k, k>>
        /\ pc["produce"] \in {"second", "count"} => buffer[P % BUFFER_SIZE][1] = P + 1
        /\ pc["produce"] = "count" => buffer[P % BUFFER_SIZE][2] = P + 1
        /\ pc["consume"] \in {"second", "count"} => consumed[C + 1][1] = C + 1
        /\ pc["consume"] = "count" => consumed[C + 1][2] = C + 1

ProconInv ==
    /\ ProconTypes
    /\ ProconLabels
    /\ ProconLocked
    /\ Counted
    /\ Contents

LEMMA ProconNumbers ==
    /\ BUFFER_SIZE \in Nat \ {0} /\ ProconRuns \in Nat
    /\ Procon!Roles = {"produce", "consume"} /\ Procon!Items = 0 .. ProconRuns
BY ExamplesAssumption DEF Procon!ProducerConsumerAssumption, Procon!Roles, Procon!Items

LEMMA SlotsDiffer ==
    ASSUME NEW i \in Nat, NEW j \in Nat, i < j, j < i + BUFFER_SIZE
    PROVE  i % BUFFER_SIZE # j % BUFFER_SIZE
<1> DEFINE q == (j \div BUFFER_SIZE) - (i \div BUFFER_SIZE)
<1> USE ProconNumbers
<1>1. /\ i = BUFFER_SIZE * (i \div BUFFER_SIZE) + (i % BUFFER_SIZE)
      /\ j = BUFFER_SIZE * (j \div BUFFER_SIZE) + (j % BUFFER_SIZE)
      /\ q \in Int
  OBVIOUS
<1> SUFFICES ASSUME i % BUFFER_SIZE = j % BUFFER_SIZE PROVE FALSE
  OBVIOUS
<1>2. j - i = BUFFER_SIZE * q
  BY <1>1
<1> HIDE DEF q
<1>3. q >= 1
  BY <1>1, <1>2
<1>4. BUFFER_SIZE * q >= BUFFER_SIZE
  BY <1>1, <1>3
<1> QED
  BY <1>1, <1>2, <1>4

LEMMA SlotExists ==
    ASSUME NEW i \in Nat
    PROVE  i % BUFFER_SIZE \in Slots
BY ProconNumbers DEF Slots

\* An item in its two halves.
LEMMA HalvesOf ==
    ASSUME NEW d \in Copied
    PROVE  /\ d = <<d[1], d[2]>> /\ d[1] \in Procon!Items /\ d[2] \in Procon!Items
           /\ \A x \in Procon!Items : [d EXCEPT ![1] = x] = <<x, d[2]>>
           /\ \A x \in Procon!Items : [d EXCEPT ![2] = x] = <<d[1], x>>
           /\ \A x, y \in Procon!Items : <<x, y>> \in Copied
BY DEF Copied

LEMMA ProconBegin ==
    ASSUME Procon!Init
    PROVE  ProconInv
<1> USE ProconNumbers DEF Procon!Init
<1>1. ProconTypes
  <2>1. lock \in BOOLEAN
    OBVIOUS
  <2>2. <<0, 0>> \in Copied
    BY DEF Copied
  <2>3. buffer \in [Slots -> Copied] /\ consumed \in [1 .. ProconRuns -> Copied]
    BY <2>2 DEF Slots
  <2>4. /\ until \in [Procon!Roles -> Nat] /\ r \in [Procon!Roles -> 0 .. ProconRuns]
        /\ pc \in [Procon!Roles ->
                      {"start", "test", "first", "second", "count", "wait", "wake"}]
    OBVIOUS
  <2> QED
    BY <2>1, <2>3, <2>4 DEF ProconTypes
<1>2. \A t \in Procon!Roles : pc[t] = "start" /\ r[t] = 0 /\ until[t] = 0
  OBVIOUS
<1>3. ProconLabels
  BY <1>2 DEF ProconLabels
<1>4. ProconLocked
  BY <1>2 DEF ProconLocked, InLock
<1>5. Counted
  BY <1>2 DEF Counted, C, P, InCopy
<1>6. Contents
  BY <1>2 DEF Contents, C, P
<1> QED
  BY <1>1, <1>3, <1>4, <1>5, <1>6 DEF ProconInv

LEMMA ProconSafe ==
    ASSUME ProconInv
    PROVE  Procon!TypeOK
<1> USE ProconNumbers DEF ProconInv
<1>1. \A t \in Procon!Roles : until[t] \in 0 .. ProconRuns
  BY DEF ProconTypes, ProconLabels, Counted, C, P
<1>2. until \in [Procon!Roles -> 0 .. ProconRuns]
  BY <1>1 DEF ProconTypes
<1> QED
  BY <1>2 DEF Procon!TypeOK, ProconTypes, ProconLocked, InLock, Slots, Copied

\* The kinds of steps that the programs are made of.
Goes(t, from, to) == pc[t] = from /\ pc' = [pc EXCEPT ![t] = to] /\ r[t] < ProconRuns

Takes(t) ==
    /\ program \in {"procon2", "procon4"} /\ Goes(t, "start", "test")
    /\ ~lock /\ lock' = TRUE
    /\ UNCHANGED <<buffer, consumed, until, r>>

Begins(t) ==
    /\ program # "procon1" => Procon!Ready(t)
    /\ \/ program \in {"procon2", "procon4"} /\ Goes(t, "test", "first")
       \/ program \in {"procon1", "procon3"} /\ Goes(t, "start", "first")
    /\ UNCHANGED <<buffer, consumed, until, lock, r>>

GivesUp(t) ==
    /\ \/ program = "procon2" /\ Goes(t, "test", "start")
       \/ program = "procon4" /\ Goes(t, "test", "wait")
    /\ lock' = FALSE
    /\ UNCHANGED <<buffer, consumed, until, r>>

FirstHalf(t) ==
    /\ Goes(t, "first", "second") /\ Procon!CopyHalf(t, 1)
    /\ UNCHANGED <<until, lock, r>>

SecondHalf(t) ==
    /\ program # "procon1" /\ Goes(t, "second", "count") /\ Procon!CopyHalf(t, 2)
    /\ UNCHANGED <<until, lock, r>>

Uncounted(t) ==
    /\ program = "procon1" /\ Goes(t, "second", "start") /\ Procon!CopyHalf(t, 2)
    /\ RunOver(t)
    /\ UNCHANGED <<until, lock>>

CountsItem(t) ==
    /\ until' = [until EXCEPT ![t] = @ + 1]
    /\ \/ program = "procon2" /\ Goes(t, "count", "start") /\ lock' = FALSE /\ RunOver(t)
       \/ program = "procon3" /\ Goes(t, "count", "start") /\ UNCHANGED lock /\ RunOver(t)
       \/ program = "procon4" /\ Goes(t, "count", "wake") /\ lock' = FALSE /\ UNCHANGED r
    /\ UNCHANGED <<buffer, consumed>>

WakesAll(t) ==
    /\ program = "procon4" /\ r[t] < ProconRuns /\ pc[t] = "wake"
    /\ pc' = [s \in Procon!Roles |-> IF s = t \/ pc[s] = "wait" THEN "start" ELSE pc[s]]
    /\ RunOver(t)
    /\ UNCHANGED <<buffer, consumed, until, lock>>

Rises(t) ==
    /\ Goes(t, "wait", "start")
    /\ UNCHANGED <<buffer, consumed, until, lock, r>>

LEMMA ProconKinds ==
    ASSUME NEW t \in Procon!Roles, Procon!Step(t) \/ Procon!SpuriousWakeup(t)
    PROVE  /\ program' = program
           /\ \/ Takes(t) \/ Begins(t) \/ GivesUp(t) \/ FirstHalf(t) \/ SecondHalf(t)
              \/ Uncounted(t) \/ CountsItem(t) \/ WakesAll(t) \/ Rises(t)
<1> USE DEF Procon!Step, Goes, RunOver, Procon!Goto, Procon!NextRun, Procon!Acquire,
            Procon!Found, Procon!Copy, Procon!NoCopy, Procon!CountOne
<1>1. CASE program = "procon1" /\ Procon!Procon1(t) /\ UNCHANGED program
  BY <1>1 DEF Procon!Procon1, Begins, FirstHalf, Uncounted
<1>2. CASE program = "procon2" /\ Procon!Procon2(t) /\ UNCHANGED program
  BY <1>2 DEF Procon!Procon2, Takes, Begins, GivesUp, FirstHalf, SecondHalf, CountsItem
<1>3. CASE program = "procon3" /\ Procon!Procon3(t) /\ UNCHANGED program
  BY <1>3 DEF Procon!Procon3, Begins, FirstHalf, SecondHalf, CountsItem
<1>4. CASE program = "procon4" /\ Procon!Procon4(t) /\ UNCHANGED program
  BY <1>4 DEF Procon!Procon4, Takes, Begins, GivesUp, FirstHalf, SecondHalf, CountsItem,
              WakesAll
<1>5. CASE Procon!SpuriousWakeup(t)
  BY <1>5 DEF Procon!SpuriousWakeup, Rises
<1> QED
  BY <1>1, <1>2, <1>3, <1>4, <1>5

\* One half is copied, and nothing else changes.
LEMMA HalfCopied ==
    ASSUME ProconTypes, NEW t \in Procon!Roles, r[t] < ProconRuns, NEW h \in {1, 2},
           Procon!CopyHalf(t, h)
    PROVE  /\ buffer' \in [Slots -> Copied] /\ consumed' \in [1 .. ProconRuns -> Copied]
           /\ t = "produce" =>
                 /\ consumed' = consumed
                 /\ \A i \in Slots : i # r[t] % BUFFER_SIZE => buffer'[i] = buffer[i]
                 /\ buffer'[r[t] % BUFFER_SIZE][h] = r[t] + 1
                 /\ h = 2 => buffer'[r[t] % BUFFER_SIZE][1] = buffer[r[t] % BUFFER_SIZE][1]
           /\ t = "consume" =>
                 /\ buffer' = buffer
                 /\ \A k \in 1 .. ProconRuns : k # r[t] + 1 => consumed'[k] = consumed[k]
                 /\ consumed'[r[t] + 1][h] = buffer[r[t] % BUFFER_SIZE][h]
                 /\ h = 2 => consumed'[r[t] + 1][1] = consumed[r[t] + 1][1]
<1> USE ProconNumbers DEF ProconTypes
<1> DEFINE s == r[t] % BUFFER_SIZE
<1>1. r[t] \in Nat /\ s \in Slots /\ r[t] + 1 \in Procon!Items /\ r[t] + 1 \in 1 .. ProconRuns
  <2>1. r[t] \in 0 .. ProconRuns
    OBVIOUS
  <2>2. r[t] \in Nat /\ r[t] + 1 \in Procon!Items /\ r[t] + 1 \in 1 .. ProconRuns
    BY <2>1
  <2>3. s \in Slots
    BY <2>2, SlotExists
  <2> QED
    BY <2>2, <2>3
<1>2. CASE t = "produce"
  <2>1. buffer' = [buffer EXCEPT ![s] = [@ EXCEPT ![h] = r[t] + 1]] /\ consumed' = consumed
    BY <1>2 DEF Procon!CopyHalf
  <2> HIDE DEF s
  <2>2. [buffer[s] EXCEPT ![h] = r[t] + 1] \in Copied
        /\ [buffer[s] EXCEPT ![h] = r[t] + 1][h] = r[t] + 1
        /\ (h = 2 => [buffer[s] EXCEPT ![h] = r[t] + 1][1] = buffer[s][1])
    <3>1. buffer[s] \in Copied
      BY <1>1
    <3> QED
      BY ONLY <1>1, <3>1, HalvesOf, h \in {1, 2}
  <2>3. buffer' \in [Slots -> Copied] /\ buffer'[s] = [buffer[s] EXCEPT ![h] = r[t] + 1]
        /\ \A i \in Slots : i # s => buffer'[i] = buffer[i]
    BY <1>1, <2>1, <2>2
  <2> QED
    BY <1>2, <2>1, <2>2, <2>3 DEF s
<1>3. CASE t = "consume"
  <2>1. consumed' = [consumed EXCEPT ![r[t] + 1] = [@ EXCEPT ![h] = buffer[s][h]]]
        /\ buffer' = buffer
    BY <1>3 DEF Procon!CopyHalf
  <2> HIDE DEF s
  <2> DEFINE k == r[t] + 1
  <2> HIDE DEF k
  <2>2. k \in 1 .. ProconRuns /\ s \in Slots
    BY <1>1 DEF k
  <2>3. [consumed[k] EXCEPT ![h] = buffer[s][h]] \in Copied
        /\ [consumed[k] EXCEPT ![h] = buffer[s][h]][h] = buffer[s][h]
        /\ (h = 2 => [consumed[k] EXCEPT ![h] = buffer[s][h]][1] = consumed[k][1])
    <3>1. consumed[k] \in Copied /\ buffer[s] \in Copied
      BY <2>2
    <3>2. buffer[s][h] \in Procon!Items
      BY ONLY <3>1, HalvesOf, h \in {1, 2}
    <3> QED
      BY ONLY <3>1, <3>2, HalvesOf, h \in {1, 2}
  <2>4. consumed' = [consumed EXCEPT ![k] = [@ EXCEPT ![h] = buffer[s][h]]]
    BY <2>1 DEF k
  <2>5. consumed' \in [1 .. ProconRuns -> Copied]
        /\ consumed'[k] = [consumed[k] EXCEPT ![h] = buffer[s][h]]
        /\ \A i \in 1 .. ProconRuns : i # k => consumed'[i] = consumed[i]
    BY <2>2, <2>3, <2>4
  <2> QED
    BY <1>3, <2>1, <2>3, <2>5 DEF s, k
<1> QED
  BY <1>2, <1>3

\* Where nothing is copied or counted, and no copy begins or ends.
LEMMA ContentsKept ==
    ASSUME ProconTypes, Contents, program' = program, UNCHANGED <<buffer, consumed, until>>,
           \A t \in Procon!Roles : pc'[t] \in {"second", "count"} => pc'[t] = pc[t]
    PROVE  Contents'
BY DEF Contents, C, P, Procon!Roles

\* A step of a thread that has the lock before it, after it, or both.
LEMMA LockMoves ==
    ASSUME ProconLocked, NEW t \in Procon!Roles, program' = program,
           \A u \in Procon!Roles : u # t => InLock(u)' = InLock(u),
           program \in {"procon2", "procon4"} =>
               \/ lock' = lock /\ InLock(t)' = InLock(t)
               \/ lock = FALSE /\ lock' = TRUE /\ InLock(t)'
               \/ lock' = FALSE /\ InLock(t) /\ ~InLock(t)',
           program \notin {"procon2", "procon4"} => lock' = lock \/ lock' = FALSE
    PROVE  ProconLocked'
<1> USE DEF ProconLocked
<1>1. CASE program \notin {"procon2", "procon4"}
  BY <1>1
<1>2. CASE program \in {"procon2", "procon4"} /\ lock' = lock /\ InLock(t)' = InLock(t)
  <2>1. \A u \in Procon!Roles : InLock(u)' = InLock(u)
    BY <1>2
  <2> QED
    BY <1>2, <2>1
<1>3. CASE program \in {"procon2", "procon4"} /\ lock = FALSE /\ lock' = TRUE /\ InLock(t)'
  <2>1. \A u \in Procon!Roles : ~InLock(u)
    BY <1>3
  <2>2. \A u \in Procon!Roles : u # t => ~InLock(u)'
    BY <2>1
  <2> QED
    BY <1>3, <2>2
<1>4. CASE program \in {"procon2", "procon4"} /\ lock' = FALSE /\ InLock(t) /\ ~InLock(t)'
  <2>1. \A u \in Procon!Roles : ~InLock(u)'
    BY <1>4
  <2> QED
    BY <1>4, <2>1
<1> QED
  BY <1>1, <1>2, <1>3, <1>4

LEMMA CountedKept ==
    ASSUME Counted, program' = program, UNCHANGED <<until, r>>,
           \A t \in Procon!Roles : /\ pc'[t] = "wake" <=> pc[t] = "wake"
                                   /\ InCopy(t)' => InCopy(t)
    PROVE  Counted'
<1>1. C' = C /\ P' = P
  BY DEF C, P
<1> QED
  BY <1>1, ProconNumbers DEF Counted

\* The steps in which nothing is copied or counted.
LEMMA ProconQuiet ==
    ASSUME ProconInv, program' = program, NEW t \in Procon!Roles,
           Takes(t) \/ Begins(t) \/ GivesUp(t) \/ WakesAll(t) \/ Rises(t)
    PROVE  ProconInv'
<1> USE ProconNumbers DEF ProconInv
<1>1. /\ program \in Procon!Programs /\ lock \in BOOLEAN
      /\ buffer \in [Slots -> Copied] /\ consumed \in [1 .. ProconRuns -> Copied]
      /\ until \in [Procon!Roles -> Nat] /\ r \in [Procon!Roles -> 0 .. ProconRuns]
      /\ pc \in [Procon!Roles -> {"start", "test", "first", "second", "count", "wait", "wake"}]
  BY DEF ProconTypes
<1>2. UNCHANGED <<buffer, consumed, until>>
  BY DEF Takes, Begins, GivesUp, WakesAll, Rises
<1>3. CASE Takes(t)
  <2> USE <1>1, <1>3 DEF Takes, Goes
  <2>1. pc'[t] = "test" /\ \A u \in Procon!Roles : u # t => pc'[u] = pc[u]
    OBVIOUS
  <2>2. ProconTypes' /\ ProconLabels'
    <3>1. lock' \in BOOLEAN
      OBVIOUS
    <3>2. pc' \in [Procon!Roles ->
                      {"start", "test", "first", "second", "count", "wait", "wake"}]
      OBVIOUS
    <3> QED
      BY <3>1, <3>2 DEF ProconTypes, ProconLabels
  <2>3. ProconLocked'
    BY <2>1, LockMoves DEF InLock
  <2>4. Counted'
    BY <1>2, <2>1, CountedKept DEF InCopy
  <2>5. Contents'
    BY <1>2, <2>1, ContentsKept
  <2> QED
    BY <2>2, <2>3, <2>4, <2>5
<1>4. CASE Begins(t)
  <2> USE <1>1, <1>4 DEF Begins, Goes
  <2>1. pc'[t] = "first" /\ \A u \in Procon!Roles : u # t => pc'[u] = pc[u]
    OBVIOUS
  <2>2. ProconTypes' /\ ProconLabels'
    <3>1. pc' \in [Procon!Roles ->
                      {"start", "test", "first", "second", "count", "wait", "wake"}]
      OBVIOUS
    <3> QED
      BY <3>1 DEF ProconTypes, ProconLabels
  <2>3. ProconLocked'
    <3>1. \A u \in Procon!Roles : u # t => InLock(u)' = InLock(u)
      BY <2>1 DEF InLock
    <3>2. /\ program \in {"procon2", "procon4"} => lock' = lock /\ InLock(t)' = InLock(t)
          /\ lock' = lock
      BY <2>1 DEF InLock
    <3> QED
      BY <3>1, <3>2, LockMoves
  <2>4. Counted'
    <3>1. C' = C /\ P' = P
      BY <1>2 DEF C, P
    <3>2. CASE program = "procon1"
      BY <3>1, <3>2 DEF Counted
    <3>3. CASE program # "procon1"
      <4>1. until[t] = r[t] /\ pc'[t] # "wake"
        BY <2>1, <3>3 DEF Counted
      <4>2. t = "produce" => P < C + BUFFER_SIZE
        BY <3>3, <4>1 DEF Procon!Ready, C, P
      <4>3. t = "consume" => C < P
        BY <3>3, <4>1 DEF Procon!Ready, C, P
      <4> QED
        BY <2>1, <3>1, <3>3, <4>1, <4>2, <4>3 DEF Counted, InCopy
    <3> QED
      BY <3>2, <3>3
  <2>5. Contents'
    BY <1>2, <2>1, ContentsKept
  <2> QED
    BY <2>2, <2>3, <2>4, <2>5
<1>5. CASE GivesUp(t)
  <2> USE <1>1, <1>5 DEF GivesUp, Goes
  <2>1. /\ pc[t] = "test" /\ pc'[t] \in {"start", "wait"}
        /\ \A u \in Procon!Roles : u # t => pc'[u] = pc[u]
    OBVIOUS
  <2>2. ProconTypes' /\ ProconLabels'
    <3>1. lock' \in BOOLEAN
      OBVIOUS
    <3>2. pc' \in [Procon!Roles ->
                      {"start", "test", "first", "second", "count", "wait", "wake"}]
      OBVIOUS
    <3> QED
      BY <3>1, <3>2 DEF ProconTypes, ProconLabels
  <2>3. ProconLocked'
    BY <2>1, LockMoves DEF InLock
  <2>4. Counted'
    BY <1>2, <2>1, CountedKept DEF InCopy
  <2>5. Contents'
    BY <1>2, <2>1, ContentsKept
  <2> QED
    BY <2>2, <2>3, <2>4, <2>5
<1>6. CASE WakesAll(t)
  <2> USE <1>1, <1>6 DEF WakesAll
  <2>1. /\ pc[t] = "wake" /\ pc'[t] = "start" /\ r'[t] = r[t] + 1
        /\ \A u \in Procon!Roles : u # t => r'[u] = r[u]
        /\ \A u \in Procon!Roles : u # t => pc'[u] = pc[u] \/ (pc[u] = "wait" /\ pc'[u] = "start")
    BY DEF RunOver
  <2>2. ProconTypes' /\ ProconLabels'
    <3>1. r' \in [Procon!Roles -> 0 .. ProconRuns]
      BY DEF RunOver
    <3>2. pc' \in [Procon!Roles ->
                      {"start", "test", "first", "second", "count", "wait", "wake"}]
      OBVIOUS
    <3>3. ProconTypes'
      BY <3>1, <3>2 DEF ProconTypes
    <3> QED
      BY <2>1, <3>3 DEF ProconLabels
  <2>3. ProconLocked'
    <3>1. \A u \in Procon!Roles : InLock(u)' = InLock(u)
      BY <2>1 DEF InLock
    <3> QED
      BY <3>1, LockMoves
  <2>4. Counted'
    <3>1. C' = C /\ P' = P
      BY <1>2 DEF C, P
    <3>2. \A u \in Procon!Roles : InCopy(u)' => InCopy(u)
      BY <2>1 DEF InCopy
    <3>3. \A u \in Procon!Roles : /\ pc'[u] # "wake" => until[u] = r'[u]
                                  /\ pc'[u] = "wake" => until[u] = r'[u] + 1
      BY <2>1 DEF Counted
    <3> QED
      BY <1>2, <3>1, <3>2, <3>3 DEF Counted
  <2>5. Contents'
    BY <1>2, <2>1, ContentsKept
  <2> QED
    BY <2>2, <2>3, <2>4, <2>5
<1>7. CASE Rises(t)
  <2> USE <1>1, <1>7 DEF Rises, Goes
  <2>1. /\ pc[t] = "wait" /\ pc'[t] = "start"
        /\ \A u \in Procon!Roles : u # t => pc'[u] = pc[u]
    OBVIOUS
  <2>2. ProconTypes' /\ ProconLabels'
    <3>1. pc' \in [Procon!Roles ->
                      {"start", "test", "first", "second", "count", "wait", "wake"}]
      OBVIOUS
    <3> QED
      BY <3>1 DEF ProconTypes, ProconLabels
  <2>3. ProconLocked'
    <3>1. \A u \in Procon!Roles : u # t => InLock(u)' = InLock(u)
      BY <2>1 DEF InLock
    <3>2. lock' = lock /\ InLock(t)' = InLock(t)
      BY <2>1 DEF InLock
    <3> QED
      BY <3>1, <3>2, LockMoves
  <2>4. Counted'
    BY <1>2, <2>1, CountedKept DEF InCopy
  <2>5. Contents'
    BY <1>2, <2>1, ContentsKept
  <2> QED
    BY <2>2, <2>3, <2>4, <2>5
<1> QED
  BY <1>3, <1>4, <1>5, <1>6, <1>7

\* What is copied does not overwrite what is in the buffer, and is what the buffer held.
LEMMA ContentsCopied ==
    ASSUME ProconInv, program' = program, program # "procon1", UNCHANGED until,
           NEW t \in Procon!Roles, r[t] < ProconRuns, NEW h \in {1, 2}, Procon!CopyHalf(t, h),
           h = 1 => pc[t] = "first" /\ pc'[t] = "second",
           h = 2 => pc[t] = "second" /\ pc'[t] = "count",
           \A u \in Procon!Roles : u # t => pc'[u] = pc[u]
    PROVE  Contents'
<1> USE ProconNumbers DEF ProconInv
<1>1. /\ until[t] = r[t] /\ C <= P /\ P <= C + BUFFER_SIZE /\ C \in Nat /\ P \in Nat
      /\ t = "produce" => P < C + BUFFER_SIZE
      /\ t = "consume" => C < P
  BY DEF Counted, InCopy, C, P, ProconTypes
<1>2. C' = C /\ P' = P
  BY DEF C, P
<1>3. r[t] \in 0 .. ProconRuns
  BY DEF ProconTypes
<1>4. C <= ProconRuns
  <2>1. C <= r["consume"] \/ (C <= r["consume"] + 1 /\ r["consume"] < ProconRuns)
    BY DEF Counted, C, ProconTypes, ProconLabels
  <2> QED
    BY <1>1, <2>1 DEF ProconTypes
<1>5. CASE t = "produce"
  <2>1. P = r[t]
    BY <1>1, <1>5 DEF P
  <2>2. /\ consumed' = consumed
        /\ \A i \in Slots : i # P % BUFFER_SIZE => buffer'[i] = buffer[i]
        /\ buffer'[P % BUFFER_SIZE][h] = P + 1
        /\ h = 2 => buffer'[P % BUFFER_SIZE][1] = buffer[P % BUFFER_SIZE][1]
    BY <1>5, <2>1, HalfCopied
  <2>3. ASSUME NEW i \in C + 1 .. P
        PROVE  buffer'[(i - 1) % BUFFER_SIZE] = <<i, i>>
    <3>1. i - 1 \in Nat /\ i - 1 < P /\ P < (i - 1) + BUFFER_SIZE
      BY <1>1, <1>5
    <3>2. (i - 1) % BUFFER_SIZE # P % BUFFER_SIZE /\ (i - 1) % BUFFER_SIZE \in Slots
      BY <1>1, <3>1, SlotsDiffer, SlotExists
    <3> QED
      BY <2>2, <3>2 DEF Contents
  <2>4. pc'["consume"] = pc["consume"]
    BY <1>5
  <2>5. pc'["produce"] \in {"second", "count"} => buffer'[P % BUFFER_SIZE][1] = P + 1
    BY <1>5, <2>2 DEF Contents
  <2>6. pc'["produce"] = "count" => buffer'[P % BUFFER_SIZE][2] = P + 1
    BY <1>5, <2>2
  <2> QED
    BY <1>2, <2>2, <2>3, <2>4, <2>5, <2>6 DEF Contents
<1>6. CASE t = "consume"
  <2>1. C = r[t]
    BY <1>1, <1>6 DEF C
  <2>2. /\ buffer' = buffer
        /\ \A k \in 1 .. ProconRuns : k # C + 1 => consumed'[k] = consumed[k]
        /\ consumed'[C + 1][h] = buffer[C % BUFFER_SIZE][h]
        /\ h = 2 => consumed'[C + 1][1] = consumed[C + 1][1]
    BY <1>6, <2>1, HalfCopied
  <2>3. \A k \in 1 .. C : consumed'[k] = <<k, k>>
    BY <1>1, <1>4, <2>2 DEF Contents
  <2>4. buffer[C % BUFFER_SIZE][1] = C + 1 /\ buffer[C % BUFFER_SIZE][2] = C + 1
    <3>1. C + 1 \in C + 1 .. P /\ (C + 1) - 1 = C
      BY <1>1, <1>6
    <3>2. buffer[((C + 1) - 1) % BUFFER_SIZE] = <<C + 1, C + 1>>
      BY <3>1 DEF Contents
    <3> QED
      BY <3>1, <3>2
  <2>5. pc'["produce"] = pc["produce"]
    BY <1>6
  <2>6. pc'["consume"] \in {"second", "count"} => consumed'[C + 1][1] = C + 1
    BY <1>6, <2>2, <2>4 DEF Contents
  <2>7. pc'["consume"] = "count" => consumed'[C + 1][2] = C + 1
    BY <1>6, <2>2, <2>4
  <2> QED
    BY <1>2, <2>2, <2>3, <2>5, <2>6, <2>7 DEF Contents
<1> QED
  BY <1>5, <1>6

LEMMA ProconCopies ==
    ASSUME ProconInv, program' = program, NEW t \in Procon!Roles,
           FirstHalf(t) \/ SecondHalf(t) \/ Uncounted(t)
    PROVE  ProconInv'
<1> USE ProconNumbers DEF ProconInv
<1>1. /\ program \in Procon!Programs /\ lock \in BOOLEAN
      /\ until \in [Procon!Roles -> Nat] /\ r \in [Procon!Roles -> 0 .. ProconRuns]
      /\ pc \in [Procon!Roles -> {"start", "test", "first", "second", "count", "wait", "wake"}]
  BY DEF ProconTypes
<1>2. /\ r[t] < ProconRuns /\ UNCHANGED <<until, lock>>
      /\ pc[t] \in {"first", "second"}
      /\ \A u \in Procon!Roles : u # t => pc'[u] = pc[u]
  <2>1. /\ r[t] < ProconRuns /\ UNCHANGED <<until, lock>> /\ pc[t] \in {"first", "second"}
        /\ \E l : pc' = [pc EXCEPT ![t] = l]
    BY DEF FirstHalf, SecondHalf, Uncounted, Goes
  <2> QED
    BY ONLY <1>1, <2>1
<1>3. C' = C /\ P' = P
  BY <1>2 DEF C, P
<1>4. buffer' \in [Slots -> Copied] /\ consumed' \in [1 .. ProconRuns -> Copied]
  BY <1>2, HalfCopied DEF FirstHalf, SecondHalf, Uncounted
<1>5. CASE FirstHalf(t)
  <2>1. pc[t] = "first" /\ pc'[t] = "second" /\ r' = r /\ Procon!CopyHalf(t, 1)
        /\ pc' = [pc EXCEPT ![t] = "second"]
    BY <1>1, <1>5 DEF FirstHalf, Goes
  <2>2. ProconTypes' /\ ProconLabels'
    BY <1>1, <1>2, <1>4, <2>1 DEF ProconTypes, ProconLabels
  <2>3. ProconLocked'
    <3>1. \A u \in Procon!Roles : InLock(u)' = InLock(u)
      BY <1>2, <2>1 DEF InLock
    <3> QED
      BY <1>2, <3>1, LockMoves
  <2>4. Counted'
    BY <1>2, <2>1, CountedKept DEF InCopy
  <2>5. Contents'
    <3>1. CASE program = "procon1"
      BY <3>1 DEF Contents
    <3>2. CASE program # "procon1"
      BY <1>2, <2>1, <3>2, ContentsCopied
    <3> QED
      BY <3>1, <3>2
  <2> QED
    BY <2>2, <2>3, <2>4, <2>5
<1>6. CASE SecondHalf(t)
  <2>1. pc[t] = "second" /\ pc'[t] = "count" /\ r' = r /\ Procon!CopyHalf(t, 2)
        /\ pc' = [pc EXCEPT ![t] = "count"] /\ program # "procon1"
    BY <1>1, <1>6 DEF SecondHalf, Goes
  <2>2. ProconTypes' /\ ProconLabels'
    BY <1>1, <1>2, <1>4, <2>1 DEF ProconTypes, ProconLabels
  <2>3. ProconLocked'
    <3>1. \A u \in Procon!Roles : InLock(u)' = InLock(u)
      BY <1>2, <2>1 DEF InLock
    <3> QED
      BY <1>2, <3>1, LockMoves
  <2>4. Counted'
    BY <1>2, <2>1, CountedKept DEF InCopy
  <2>5. Contents'
    BY <1>2, <2>1, ContentsCopied
  <2> QED
    BY <2>2, <2>3, <2>4, <2>5
<1>7. CASE Uncounted(t)
  <2>1. /\ program = "procon1" /\ pc' = [pc EXCEPT ![t] = "start"]
        /\ r' = [r EXCEPT ![t] = @ + 1]
    BY <1>7 DEF Uncounted, Goes, RunOver
  <2>2. r' \in [Procon!Roles -> 0 .. ProconRuns]
    BY <1>1, <1>2, <2>1
  <2>3. ProconTypes'
    BY <1>1, <1>2, <1>4, <2>1, <2>2 DEF ProconTypes
  <2>4. ProconLabels'
    BY <1>1, <1>2, <2>1 DEF ProconLabels
  <2>5. ProconLocked'
    <3>1. lock = FALSE
      BY <2>1 DEF ProconLocked
    <3> QED
      BY <1>2, <2>1, <3>1 DEF ProconLocked
  <2>6. Counted' /\ Contents'
    BY <1>3, <2>1 DEF Counted, Contents
  <2> QED
    BY <2>3, <2>4, <2>5, <2>6
<1> QED
  BY <1>5, <1>6, <1>7

LEMMA ProconCounts ==
    ASSUME ProconInv, program' = program, NEW t \in Procon!Roles, CountsItem(t)
    PROVE  ProconInv'
<1> USE ProconNumbers DEF ProconInv
<1>1. /\ program \in Procon!Programs /\ lock \in BOOLEAN
      /\ buffer \in [Slots -> Copied] /\ consumed \in [1 .. ProconRuns -> Copied]
      /\ until \in [Procon!Roles -> Nat] /\ r \in [Procon!Roles -> 0 .. ProconRuns]
      /\ pc \in [Procon!Roles -> {"start", "test", "first", "second", "count", "wait", "wake"}]
  BY DEF ProconTypes
<1>2. /\ pc[t] = "count" /\ r[t] < ProconRuns /\ program # "procon1"
      /\ until' = [until EXCEPT ![t] = @ + 1] /\ UNCHANGED <<buffer, consumed>>
  BY DEF CountsItem, Goes
<1>3. \/ pc' = [pc EXCEPT ![t] = "start"] /\ RunOver(t)
      \/ program = "procon4" /\ pc' = [pc EXCEPT ![t] = "wake"] /\ r' = r
  BY DEF CountsItem, Goes
<1>4. \/ lock' = FALSE
      \/ lock' = lock /\ program = "procon3"
  BY DEF CountsItem
<1>5. /\ pc'[t] \in {"start", "wake"}
      /\ \A u \in Procon!Roles : u # t => pc'[u] = pc[u] /\ r'[u] = r[u]
      /\ pc'[t] = "start" => r'[t] = r[t] + 1
      /\ pc'[t] = "wake" => r'[t] = r[t] /\ program = "procon4"
  <2>1. CASE pc' = [pc EXCEPT ![t] = "start"] /\ RunOver(t)
    BY ONLY <1>1, <2>1 DEF RunOver
  <2>2. CASE program = "procon4" /\ pc' = [pc EXCEPT ![t] = "wake"] /\ r' = r
    BY ONLY <1>1, <2>2
  <2> QED
    BY ONLY <1>3, <2>1, <2>2
<1>6. ProconTypes'
  <2>1. r' \in [Procon!Roles -> 0 .. ProconRuns]
    BY <1>1, <1>2, <1>3 DEF RunOver
  <2>2. pc' \in [Procon!Roles ->
                    {"start", "test", "first", "second", "count", "wait", "wake"}]
    BY <1>1, <1>3
  <2>3. until' \in [Procon!Roles -> Nat]
    BY <1>1, <1>2
  <2>4. lock' \in BOOLEAN
    BY <1>1, <1>4
  <2> QED
    BY <1>1, <1>2, <2>1, <2>2, <2>3, <2>4 DEF ProconTypes
<1>7. ProconLabels'
  BY <1>2, <1>5 DEF ProconLabels
<1>8. ProconLocked'
  <2>1. \A u \in Procon!Roles : u # t => InLock(u)' = InLock(u)
    BY <1>5 DEF InLock
  <2>2. InLock(t) /\ ~InLock(t)'
    BY <1>2, <1>5 DEF InLock
  <2>3. program \in {"procon2", "procon4"} => lock' = FALSE
    BY <1>4
  <2> QED
    BY <1>4, <2>1, <2>2, <2>3, LockMoves
<1>9. /\ until[t] = r[t] /\ C <= P /\ P <= C + BUFFER_SIZE /\ C \in Nat /\ P \in Nat
      /\ t = "produce" => P < C + BUFFER_SIZE /\ C' = C /\ P' = P + 1
      /\ t = "consume" => C < P /\ C' = C + 1 /\ P' = P
  BY <1>1, <1>2 DEF Counted, InCopy, C, P
<1>10. Counted'
  <2>1. \A u \in Procon!Roles : /\ pc'[u] # "wake" => until'[u] = r'[u]
                                /\ pc'[u] = "wake" => until'[u] = r'[u] + 1
    BY <1>1, <1>2, <1>5, <1>9 DEF Counted
  <2>2. \A u \in Procon!Roles : InCopy(u)' => u # t /\ InCopy(u)
    BY <1>5 DEF InCopy
  <2>3. C' <= P' /\ P' <= C' + BUFFER_SIZE
    BY <1>9
  <2>4. (InCopy("produce")' => P' < C' + BUFFER_SIZE) /\ (InCopy("consume")' => C' < P')
    BY <1>2, <1>9, <2>2 DEF Counted
  <2> QED
    BY <1>2, <2>1, <2>3, <2>4 DEF Counted
<1>11. Contents'
  <2>1. CASE t = "produce"
    <3>1. buffer[P % BUFFER_SIZE] = <<P + 1, P + 1>>
      <4>1. buffer[P % BUFFER_SIZE][1] = P + 1 /\ buffer[P % BUFFER_SIZE][2] = P + 1
        BY <1>2, <2>1 DEF Contents
      <4>2. buffer[P % BUFFER_SIZE] \in Copied
        BY <1>1, <1>9, SlotExists
      <4> QED
        BY <4>1, <4>2, HalvesOf
    <3>2. ASSUME NEW i \in C' + 1 .. P'
          PROVE  buffer'[(i - 1) % BUFFER_SIZE] = <<i, i>>
      <4>1. i \in C + 1 .. P \/ i = P + 1
        BY <1>9, <2>1
      <4>2. CASE i \in C + 1 .. P
        BY <1>2, <4>2 DEF Contents
      <4>3. CASE i = P + 1
        <5>1. i - 1 = P
          BY <1>9, <4>3
        <5> QED
          BY <1>2, <3>1, <4>3, <5>1
      <4> QED
        BY <4>1, <4>2, <4>3
    <3>3. pc'["produce"] \notin {"second", "count"} /\ pc'["consume"] = pc["consume"]
      BY <1>5, <2>1
    <3> QED
      BY <1>2, <1>9, <2>1, <3>2, <3>3 DEF Contents
  <2>2. CASE t = "consume"
    <3>1. consumed[C + 1] = <<C + 1, C + 1>>
      <4>1. consumed[C + 1][1] = C + 1 /\ consumed[C + 1][2] = C + 1
        BY <1>2, <2>2 DEF Contents
      <4>2. C + 1 \in 1 .. ProconRuns
        <5>1. C = r[t]
          BY <1>9, <2>2 DEF C
        <5> QED
          BY <1>1, <1>2, <1>9, <5>1
      <4>3. consumed[C + 1] \in Copied
        BY <1>1, <4>2
      <4> QED
        BY <4>1, <4>3, HalvesOf
    <3>2. \A i \in C' + 1 .. P' : i \in C + 1 .. P
      BY <1>9, <2>2
    <3>3. ASSUME NEW k \in 1 .. C'
          PROVE  consumed'[k] = <<k, k>>
      <4>1. k \in 1 .. C \/ k = C + 1
        BY <1>9, <2>2
      <4> QED
        BY <1>2, <3>1, <4>1 DEF Contents
    <3>4. pc'["consume"] \notin {"second", "count"} /\ pc'["produce"] = pc["produce"]
      BY <1>5, <2>2
    <3> QED
      BY <1>2, <1>9, <2>2, <3>2, <3>3, <3>4 DEF Contents
  <2> QED
    BY <2>1, <2>2
<1> QED
  BY <1>6, <1>7, <1>8, <1>10, <1>11

LEMMA ProconStep ==
    ASSUME ProconInv, NEW t \in Procon!Roles, Procon!Step(t) \/ Procon!SpuriousWakeup(t)
    PROVE  ProconInv'
BY ProconKinds, ProconQuiet, ProconCopies, ProconCounts

LEMMA ProconStutter ==
    ASSUME ProconInv, UNCHANGED Procon!vars
    PROVE  ProconInv'
BY DEF ProconInv, Procon!vars, ProconTypes, ProconLabels, ProconLocked, InLock, Counted, InCopy,
       C, P, Contents

-----------------------------------------------------------------------------
(* The buffers that count are bounded queues: module BoundedFifo *)

\* The queue holds what has been counted by the producer and not by the consumer, who has
\* got what it has counted.
LEMMA QueueIs ==
    ASSUME ProconInv
    PROVE  /\ Procon!Queue = [i \in 1 .. P - C |-> C + i]
           /\ C \in Nat /\ P \in Nat /\ C <= P
           /\ Procon!Queue \in Seq(Nat) /\ Len(Procon!Queue) = P - C
           /\ Procon!Got = [k \in 1 .. C |-> k]
           /\ Procon!Got \in Seq(Nat) /\ Len(Procon!Got) = C
<1> USE ProconNumbers
<1>1. C \in Nat /\ P \in Nat /\ C <= P
  BY DEF ProconInv, ProconTypes, Counted, C, P
<1>2. Procon!Queue = [i \in 1 .. P - C |-> C + i]
  BY DEF Procon!Queue, C, P
<1>3. Procon!Got = [k \in 1 .. C |-> k]
  <2>1. ASSUME NEW k \in 1 .. C PROVE Procon!Whole(consumed[k]) = k
    <3>1. consumed[k] = <<k, k>>
      BY <1>1 DEF ProconInv, Contents, Counted
    <3> QED
      BY <3>1 DEF Procon!Whole
  <2> QED
    BY <2>1 DEF Procon!Got, C
<1>4. P - C \in Nat /\ \A i \in 1 .. P - C : C + i \in Nat
  BY <1>1
<1>5. Procon!Queue \in Seq(Nat) /\ Len(Procon!Queue) = P - C
  BY <1>2, <1>4
<1>6. Procon!Got \in Seq(Nat) /\ Len(Procon!Got) = C
  BY <1>1, <1>3
<1> QED
  BY <1>1, <1>2, <1>3, <1>5, <1>6

\* Counting an item puts it into the queue, or gets it.
LEMMA CountingPasses ==
    ASSUME ProconInv, ProconInv', program' = program, NEW t \in Procon!Roles, CountsItem(t)
    PROVE  Procon!Fifo!Put \/ Procon!Fifo!Get
<1> USE ProconNumbers
<1> DEFINE q == Procon!Queue
           g == Procon!Got
<1>1. /\ q = [i \in 1 .. P - C |-> C + i] /\ C \in Nat /\ P \in Nat /\ C <= P
      /\ q \in Seq(Nat) /\ Len(q) = P - C
      /\ g = [k \in 1 .. C |-> k] /\ g \in Seq(Nat) /\ Len(g) = C
  BY QueueIs
<1>2. /\ q' = [i \in 1 .. P' - C' |-> C' + i] /\ g' = [k \in 1 .. C' |-> k]
  <2>1. C' \in Nat /\ P' \in Nat /\ program' # "procon1"
    BY DEF ProconInv, ProconTypes, C, P, CountsItem
  <2>2. ASSUME NEW k \in 1 .. C' PROVE Procon!Whole(consumed'[k]) = k
    <3>1. consumed'[k] = <<k, k>>
      BY <2>1 DEF ProconInv, Contents
    <3> QED
      BY <3>1 DEF Procon!Whole
  <2> QED
    BY <2>2 DEF Procon!Queue, Procon!Got, C, P
<1>3. /\ t = "produce" => P < C + BUFFER_SIZE /\ P < ProconRuns /\ C' = C /\ P' = P + 1
      /\ t = "consume" => C < P /\ C' = C + 1 /\ P' = P
  BY DEF CountsItem, Goes, ProconInv, ProconTypes, Counted, InCopy, C, P
<1>4. CASE t = "produce"
  <2>1. q' = Append(q, P + 1) /\ g' = g
    <3>1. q' = [i \in 1 .. (P - C) + 1 |-> C + i] /\ g' = g
      BY <1>1, <1>2, <1>3, <1>4
    <3> HIDE DEF q, g
    <3>2. Append(q, P + 1) = [i \in 1 .. (P - C) + 1 |-> C + i]
      BY <1>1
    <3> QED
      BY <3>1, <3>2
  <2>2. Len(q) < BUFFER_SIZE /\ Len(g) + Len(q) < ProconRuns /\ Len(g) + Len(q) + 1 = P + 1
    <3> HIDE DEF q, g
    <3> QED
      BY <1>1, <1>3, <1>4
  <2>3. Procon!Fifo!Put
    BY <2>1, <2>2 DEF Procon!Fifo!Put
  <2> QED
    BY <2>3
<1>5. CASE t = "consume"
  <2>1. q # <<>> /\ Head(q) = C + 1
    <3> HIDE DEF q
    <3> QED
      BY <1>1, <1>3, <1>5
  <2>2. q' = Tail(q)
    <3>1. q' = [i \in 1 .. (P - C) - 1 |-> (C + 1) + i]
      BY <1>1, <1>2, <1>3, <1>5
    <3>2. (P - C) - 1 \in Nat /\ \A i \in 1 .. (P - C) - 1 : (C + 1) + i \in Nat
      BY <1>1, <1>3, <1>5
    <3>3. q' \in Seq(Nat) /\ Len(q') = (P - C) - 1
      BY <3>1, <3>2
    <3> HIDE DEF q
    <3>4. /\ Tail(q) \in Seq(Nat) /\ Len(Tail(q)) = (P - C) - 1
          /\ \A i \in 1 .. (P - C) - 1 : Tail(q)[i] = q[i + 1]
      BY ONLY <1>1, <2>1, HeadTailProperties
    <3>5. \A i \in 1 .. (P - C) - 1 : q[i + 1] = (C + 1) + i
      BY ONLY <1>1
    <3>6. \A i \in 1 .. Len(q') : q'[i] = Tail(q)[i]
      BY ONLY <3>1, <3>3, <3>4, <3>5
    <3> QED
      BY ONLY <3>3, <3>4, <3>6, SeqEqual
  <2>3. g' = Append(g, C + 1)
    <3>1. g' = [k \in 1 .. C + 1 |-> k]
      BY <1>2, <1>3, <1>5
    <3> HIDE DEF g
    <3>2. Append(g, C + 1) = [k \in 1 .. C + 1 |-> k]
      BY <1>1
    <3> QED
      BY <3>1, <3>2
  <2>4. Procon!Fifo!Get
    BY <2>1, <2>2, <2>3 DEF Procon!Fifo!Get
  <2> QED
    BY <2>4
<1> QED
  BY <1>4, <1>5

\* No other step is seen by the queue: what is copied has not been counted.
LEMMA CopyingHidden ==
    ASSUME ProconInv, ProconInv', program' = program, UNCHANGED until
    PROVE  UNCHANGED <<Procon!Queue, Procon!Got>>
<1>1. C' = C /\ P' = P /\ (program = "procon1" => C = 0)
  BY DEF C, P, ProconInv, Counted
<1>2. \A k \in 1 .. C : consumed[k] = <<k, k>> /\ consumed'[k] = <<k, k>>
  BY <1>1 DEF ProconInv, Contents
<1> QED
  BY <1>1, <1>2 DEF Procon!Queue, Procon!Got, Procon!Whole, C, P

LEMMA ProconFifo ==
    ASSUME ProconInv, ProconInv', NEW t \in Procon!Roles,
           Procon!Step(t) \/ Procon!SpuriousWakeup(t)
    PROVE  Procon!FifoSteps
<1>1. program' = program /\ (CountsItem(t) \/ UNCHANGED until)
  BY ProconKinds DEF Takes, Begins, GivesUp, FirstHalf, SecondHalf, Uncounted, WakesAll, Rises
<1> QED
  BY <1>1, CountingPasses, CopyingHidden DEF Procon!FifoSteps

-----------------------------------------------------------------------------
(* The examples together: module MCExamples *)

ExamplesInv ==
    /\ program \in Count!Programs => CountInv
    /\ program \in Elect!Programs => ElectInv
    /\ program \in Procon!Programs => ProconInv

\* A program belongs to one of the modules.
LEMMA OneModule ==
    /\ program \in Count!Programs => program \notin Elect!Programs \union Procon!Programs
    /\ program \in Elect!Programs => program \notin Count!Programs \union Procon!Programs
    /\ program \in Procon!Programs => program \notin Count!Programs \union Elect!Programs
BY DEF Count!Programs, Elect!Programs, Procon!Programs

LEMMA ExamplesBegin ==
    ASSUME Init
    PROVE  ExamplesInv /\ (program \in Procon!Programs => Procon!Fifo!FifoInit)
<1>1. CASE Count!Init
  <2>1. program \in Count!Programs
    BY <1>1 DEF Count!Init
  <2> QED
    BY <1>1, <2>1, CountBegin, OneModule DEF ExamplesInv
<1>2. CASE Elect!Init
  <2>1. program \in Elect!Programs
    BY <1>2 DEF Elect!Init
  <2> QED
    BY <1>2, <2>1, ElectBegin, OneModule DEF ExamplesInv
<1>3. CASE Procon!Init
  <2>1. program \in Procon!Programs
    BY <1>3 DEF Procon!Init
  <2>2. C = 0 /\ P = 0
    BY <1>3 DEF Procon!Init, C, P, Procon!Roles
  <2>3. Procon!Queue = <<>> /\ Procon!Got = <<>>
    <3>1. Procon!Queue = [i \in 1 .. 0 |-> C + i] /\ Procon!Got = [k \in 1 .. 0 |-> k]
      BY <1>3, <2>2, ProconBegin, QueueIs
    <3> QED
      BY <3>1
  <2> QED
    BY <1>3, <2>1, <2>3, ProconBegin, OneModule DEF ExamplesInv, Procon!Fifo!FifoInit
<1> QED
  BY <1>1, <1>2, <1>3 DEF Init

LEMMA ExamplesStep ==
    ASSUME ExamplesInv, [Next]_vars
    PROVE  ExamplesInv' /\ (program \in Procon!Programs => Procon!FifoSteps)
<1>1. CASE CountOnly /\ Count!Next
  <2>1. program \in Count!Programs /\ CountInv
    BY <1>1 DEF CountOnly, ExamplesInv
  <2>2. CountInv'
    BY <1>1, <2>1, CountStep, CountStutter DEF Count!Next, Count!Blocked
  <2>3. program' \in Count!Programs /\ program' = program
    <3>1. program' = program
      BY <1>1, <2>1, CountKinds DEF Count!Next, Count!Blocked, Count!vars
    <3> QED
      BY <2>1, <3>1
  <2>4. program' \notin Elect!Programs /\ program' \notin Procon!Programs
    BY <2>1, <2>3, OneModule
  <2> QED
    BY <2>1, <2>2, <2>4, OneModule DEF ExamplesInv
<1>2. CASE ElectOnly /\ Elect!Next
  <2>1. program \in Elect!Programs /\ ElectInv
    BY <1>2 DEF ElectOnly, ExamplesInv
  <2>2. ElectInv'
    BY <1>2, <2>1, ElectStep, ElectStutter DEF Elect!Next, Elect!Blocked
  <2>3. program' = program
    BY <1>2, <2>1, ElectKinds DEF Elect!Next, Elect!Blocked, Elect!vars
  <2>4. program' \notin Count!Programs /\ program' \notin Procon!Programs
    BY <2>1, <2>3, OneModule
  <2> QED
    BY <2>1, <2>2, <2>4, OneModule DEF ExamplesInv
<1>3. CASE ProconOnly /\ Procon!Next
  <2>1. program \in Procon!Programs /\ ProconInv
    BY <1>3 DEF ProconOnly, ExamplesInv
  <2>2. ProconInv' /\ program' = program
    BY <1>3, <2>1, ProconStep, ProconStutter, ProconKinds
       DEF Procon!Next, Procon!Blocked, Procon!vars
  <2>3. Procon!FifoSteps
    <3>1. CASE UNCHANGED Procon!vars
      BY <2>1, <2>2, <3>1, CopyingHidden DEF Procon!vars, Procon!FifoSteps
    <3>2. CASE \E t \in Procon!Roles : Procon!Step(t) \/ Procon!SpuriousWakeup(t)
      BY <2>1, <2>2, <3>2, ProconFifo
    <3> QED
      BY <1>3, <3>1, <3>2 DEF Procon!Next, Procon!Blocked
  <2>4. program' \notin Count!Programs /\ program' \notin Elect!Programs
    BY <2>1, <2>2, OneModule
  <2> QED
    BY <2>1, <2>2, <2>3, <2>4 DEF ExamplesInv
<1>4. CASE UNCHANGED vars
  <2>1. /\ program' = program /\ UNCHANGED Count!vars /\ UNCHANGED Elect!vars
        /\ UNCHANGED Procon!vars
    BY <1>4 DEF vars, counterVars, electionVars, proconVars, Count!vars, Elect!vars, Procon!vars
  <2>2. ExamplesInv'
    BY <2>1, CountStutter, ElectStutter, ProconStutter DEF ExamplesInv
  <2>3. ASSUME program \in Procon!Programs PROVE Procon!FifoSteps
    BY <2>1, <2>2, <2>3, CopyingHidden DEF ExamplesInv, Procon!vars, Procon!FifoSteps
  <2> QED
    BY <2>2, <2>3
<1> QED
  BY <1>1, <1>2, <1>3, <1>4 DEF Next

\* Every interleaving of the examples keeps what their invariants say.
THEOREM ExamplesInvariance == Spec => []ExamplesInv
<1>1. Init => ExamplesInv
  BY ExamplesBegin
<1>2. ExamplesInv /\ [Next]_vars => ExamplesInv'
  BY ExamplesStep
<1> QED
  BY <1>1, <1>2, PTL DEF Spec

\* What main() of an example finds when the threads have been joined: all increments where
\* a lock or an atomic operation protects them, two at least everywhere; one leader in each
\* round where test and assignment are one, a leader that knows it everywhere.
THEOREM ExamplesFind == Spec => []Outcomes
<1>1. ExamplesInv => Outcomes
  BY CountSafe, ElectSafe, ProconSafe DEF ExamplesInv, Outcomes, TypeOK
<1> QED
  BY <1>1, ExamplesInvariance, PTL

\* procon2 to procon4 pass the items through a bounded queue: whole, once and in order,
\* none overwritten before it has been consumed.
THEOREM ItemsPass == Spec => ImplementsFifo
<1>1. Init => (program \in Procon!Programs => Procon!Fifo!FifoInit)
  BY ExamplesBegin
<1>2. ExamplesInv /\ [Next]_vars => [(program \in Procon!Programs) => Procon!FifoSteps]_vars
  BY ExamplesStep
<1> QED
  BY <1>1, <1>2, ExamplesInvariance, PTL DEF Spec, ImplementsFifo
===============================================================================
