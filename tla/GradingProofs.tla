----------------------------- MODULE GradingProofs -----------------------------
(***************************************************************************)
(* Proofs about the grading program, for every number of libraries,        *)
(* workers, checkers, rounds, accounts and transactions.  One part of      *)
(* MCGrading runs in a behaviour: each part has an inductive invariant of  *)
(* its own, and a step of the whole is a step of that part, or leaves it   *)
(* alone.                                                                  *)
(***************************************************************************)
EXTENDS MCGrading, Sequences, FiniteSetTheorems, WellFoundedInduction, TLAPS

-----------------------------------------------------------------------------
(* main over its libraries: module LibraryGrading *)

\* The runner is there while main is in bounded_run, and gone when main goes on.
RunnerMatches ==
    /\ mpc \in {"load", "spawn", "measure", "close"} => runner = "none"
    /\ mpc \in {"wait", "relock", "join"} => runner \in {"func", "notify", "over"}

\* Once its function has come back, the runner has made or freed the region.
RunnerDone ==
    runner \in {"notify", "over"} => region = IF op = "create" THEN "live" ELSE "freed"

\* The library is there from load to the end of its measure.
ModuleMatches ==
    /\ op = "create" /\ mpc \in {"spawn", "wait", "relock", "join"} => module = "loaded"
    /\ mpc = "measure" => region = "live" /\ module = "loaded"
    /\ mpc = "close" => region = "freed"

LibsInv == Libs!TypeOK /\ RunnerMatches /\ RunnerDone /\ ModuleMatches /\ Libs!CleanReturn

\* It holds before main loads its first library.
LEMMA LibsBegin ==
    ASSUME Libs!LibsAssumption, Libs!Init
    PROVE  LibsInv
<1>1. lib \in 1 .. NbLibs
  BY DEF Libs!LibsAssumption, Libs!Init
<1> QED
  BY <1>1 DEF Libs!Init, LibsInv, Libs!TypeOK, RunnerMatches, RunnerDone, ModuleMatches,
              Libs!CleanReturn

\* Every step of main and of its runner keeps it.
LEMMA LibsStep ==
    ASSUME Libs!LibsAssumption, LibsInv, [Libs!Next]_Libs!vars
    PROVE  LibsInv'
<1> USE DEF LibsInv, Libs!TypeOK, RunnerMatches, RunnerDone, ModuleMatches,
            Libs!CleanReturn, Libs!Goto
<1>1. CASE outcome = "none" /\ Libs!Load
  BY <1>1 DEF Libs!Load
<1>2. CASE Libs!LoadFails
  BY <1>2 DEF Libs!LoadFails
<1>3. CASE outcome = "none" /\ Libs!Spawn
  BY <1>3 DEF Libs!Spawn
<1>4. CASE Libs!RunnerEnds
  BY <1>4 DEF Libs!RunnerEnds
<1>5. CASE Libs!RunnerThrows
  BY <1>5 DEF Libs!RunnerThrows
<1>6. CASE Libs!RunnerNotify
  BY <1>6 DEF Libs!RunnerNotify
<1>7. CASE Libs!SpuriousWakeup
  BY <1>7 DEF Libs!SpuriousWakeup
<1>8. CASE Libs!Relock
  BY <1>8 DEF Libs!Relock
<1>9. CASE outcome = "none" /\ Libs!Overrun
  BY <1>9 DEF Libs!Overrun
<1>10. CASE outcome = "none" /\ Libs!Join
  BY <1>10 DEF Libs!Join
<1>11. CASE outcome = "none" /\ Libs!Measure
  BY <1>11 DEF Libs!Measure
<1>12. CASE Libs!MeasureThrows
  BY <1>12 DEF Libs!MeasureThrows
<1>13. CASE Libs!Unwind
  BY <1>13 DEF Libs!Unwind
<1>14. CASE outcome = "none" /\ Libs!Close
  BY <1>14 DEF Libs!Close, Libs!LibsAssumption
<1>15. CASE UNCHANGED Libs!vars
  BY <1>15 DEF Libs!vars
<1>16. QED
  BY <1>1, <1>2, <1>3, <1>4, <1>5, <1>6, <1>7, <1>8, <1>9, <1>10, <1>11, <1>12, <1>13,
     <1>14, <1>15 DEF Libs!Next, Libs!Goes, Libs!Stuck

-----------------------------------------------------------------------------
(* The barrier: module SpinBarrier *)

\* There are workers, finitely many, and the two parts that count them count the same.
LEMMA Sizes ==
    /\ IsFiniteSet(Workers) /\ Workers # {}
    /\ Barrier!Cardinal = Cardinality(Workers)
    /\ Rounds!NbWorkers = Cardinality(Workers)
<1>1. \A S : /\ Barrier!IsFiniteSet(S) = IsFiniteSet(S)
             /\ Rounds!IsFiniteSet(S) = IsFiniteSet(S)
  BY DEF Barrier!IsFiniteSet, Rounds!IsFiniteSet, IsFiniteSet
<1>2. \A S : /\ Barrier!Cardinality(S) = Cardinality(S)
             /\ Rounds!Cardinality(S) = Cardinality(S)
  BY DEF Barrier!Cardinality, Rounds!Cardinality, Cardinality
<1> QED
  BY <1>1, <1>2, GradingAssumption
     DEF Barrier!SpinAssumption, Barrier!Cardinal, Rounds!NbWorkers

\* Sets of workers are counted exactly.
LEMMA Counts ==
    /\ Cardinality(Workers) \in Nat \ {0}
    /\ Cardinality({}) = 0
    /\ \A S \in SUBSET Workers :
          /\ Cardinality(S) \in 0 .. Cardinality(Workers)
          /\ Cardinality(S) = Cardinality(Workers) => S = Workers
          /\ Cardinality(S) = 0 => S = {}
          /\ \A w \in Workers :
                /\ w \notin S => Cardinality(S \union {w}) = Cardinality(S) + 1
                /\ w \in S => Cardinality(S \ {w}) = Cardinality(S) - 1
<1>1. \A S \in SUBSET Workers :
         /\ IsFiniteSet(S)
         /\ Cardinality(S) \in 0 .. Cardinality(Workers)
         /\ Cardinality(S) = Cardinality(Workers) => S = Workers
  BY Sizes, FS_Subset, FS_CardinalityType
<1>2. Cardinality({}) = 0 /\ \A S \in SUBSET Workers : Cardinality(S) = 0 => S = {}
  BY <1>1, FS_EmptySet
<1>3. Cardinality(Workers) \in Nat \ {0}
  BY <1>2, Sizes, FS_CardinalityType
<1>4. ASSUME NEW S \in SUBSET Workers, NEW w \in Workers
      PROVE  /\ w \notin S => Cardinality(S \union {w}) = Cardinality(S) + 1
             /\ w \in S => Cardinality(S \ {w}) = Cardinality(S) - 1
  BY <1>1, FS_AddElement, FS_RemoveElement
<1> QED
  BY <1>1, <1>2, <1>3, <1>4

\* Those that have counted themselves in, and not out again.
Entered == {t \in Workers : pc[t] \in {"open", "awaitLeave", "sub"}}

\* All are in meeting k + 1, still in k, or between the two.
InMeeting(k) ==
    \A t \in Workers :
        \/ mode = "enter" /\ pc[t] = "out" /\ called[t] = k /\ left[t] = k
        \/ mode = "enter" /\ pc[t] \in {"open", "awaitLeave"} /\ called[t] = k + 1 /\ left[t] = k
        \/ mode = "enter" /\ pc[t] = "awaitEnter" /\ called[t] = k /\ left[t] + 1 = k
        \/ mode = "leave" /\ pc[t] \in {"awaitLeave", "sub", "awaitEnter", "shut"}
                          /\ called[t] = k + 1 /\ left[t] = k

\* Who changes the mode is the last.
LastAlone ==
    \A t \in Workers : \A u \in Workers \ {t} :
        /\ pc[t] = "open" => pc[u] = "awaitLeave"
        /\ pc[t] = "shut" => pc[u] = "awaitEnter"

BarrierInv ==
    /\ Barrier!TypeOK
    /\ step = Cardinality(Entered)
    /\ \E k \in Nat : InMeeting(k)
    /\ LastAlone

\* It holds, and the meeting has not begun, before anybody has called.
LEMMA BarrierBegin ==
    ASSUME Barrier!Init
    PROVE  BarrierInv /\ Barrier!Sync!SyncInit
<1> USE DEF Barrier!Init
<1>1. Entered = {}
  BY DEF Entered
<1>2. Barrier!TypeOK
  BY Counts, Sizes DEF Barrier!TypeOK, Barrier!Labels
<1>3. InMeeting(0)
  BY DEF InMeeting
<1> QED
  BY <1>1, <1>2, <1>3, Counts DEF BarrierInv, LastAlone, Barrier!Sync!SyncInit

\* Every step of the barrier keeps it, and is one of the meeting or leaves that alone.
LEMMA BarrierStep ==
    ASSUME BarrierInv, NEW t \in Workers, Barrier!Step(t)
    PROVE  BarrierInv' /\ (Barrier!Sync!SyncNext \/ UNCHANGED meetVars)
<1> DEFINE N == Cardinality(Workers)
<1>1. PICK k \in Nat : InMeeting(k)
  BY DEF BarrierInv
<1> USE DEF BarrierInv, Barrier!TypeOK, Barrier!Labels, Barrier!Goto, Barrier!Returns
<1>2. Entered \in SUBSET Workers /\ N \in Nat \ {0} /\ Barrier!Cardinal = N
  BY Sizes, Counts DEF Entered
<1>3. CASE Barrier!FetchAdd(t)
  <2> USE <1>3 DEF Barrier!FetchAdd
  <2>1. mode = "enter" /\ called[t] = k /\ left[t] = k
    BY <1>1 DEF InMeeting
  <2>2. t \notin Entered /\ Entered' = Entered \union {t}
    BY DEF Entered
  <2>3. step' = Cardinality(Entered') /\ step' \in 0 .. N
    <3> Entered' \in SUBSET Workers
      BY <1>2, <2>2
    <3> QED
      BY <1>2, <2>2, Counts
  <2>4. Barrier!TypeOK'
    BY <1>2, <2>3
  <2>5. InMeeting(k)'
    BY <1>1, <2>1 DEF InMeeting
  <2>6. LastAlone'
    <3>1. CASE step + 1 = N
      <4>1. \A u \in Workers \ {t} : pc[u] \in {"open", "awaitLeave"}
        <5>1. Entered' = Workers
          BY <1>2, <2>2, <2>3, <3>1, Counts
        <5> QED
          BY <1>1, <2>1, <2>2, <5>1 DEF InMeeting, Entered
      <4>2. \A u \in Workers \ {t} : pc[u] = "awaitLeave"
        BY <4>1 DEF LastAlone
      <4>3. pc' = [pc EXCEPT ![t] = "open"]
        BY <1>2, <3>1
      <4> QED
        BY <4>2, <4>3 DEF LastAlone
    <3>2. CASE step + 1 # N
      <4>1. pc' = [pc EXCEPT ![t] = "awaitLeave"] /\ pc[t] = "out"
        BY <1>2, <3>2
      <4> QED
        BY <4>1 DEF LastAlone
    <3> QED
      BY <3>1, <3>2
  <2>7. Barrier!Sync!Call(t)
    BY <2>1 DEF Barrier!Sync!Call
  <2> QED
    BY <2>3, <2>4, <2>5, <2>6, <2>7 DEF Barrier!Sync!SyncNext
<1>4. CASE Barrier!SetLeave(t)
  <2> USE <1>4 DEF Barrier!SetLeave
  <2>1. Entered' = Entered
    BY DEF Entered
  <2>2. InMeeting(k)' /\ LastAlone'
    BY <1>1 DEF InMeeting, LastAlone
  <2>3. Barrier!TypeOK'
    BY <1>2
  <2> QED
    BY <2>1, <2>2, <2>3 DEF meetVars
<1>5. CASE Barrier!AwaitLeave(t)
  <2> USE <1>5 DEF Barrier!AwaitLeave
  <2>1. Entered' = Entered
    BY DEF Entered
  <2>2. InMeeting(k)' /\ LastAlone'
    BY <1>1 DEF InMeeting, LastAlone
  <2>3. Barrier!TypeOK'
    BY <1>2
  <2> QED
    BY <2>1, <2>2, <2>3 DEF meetVars
<1>6. CASE Barrier!FetchSub(t)
  <2> USE <1>6 DEF Barrier!FetchSub
  <2>1. mode = "leave" /\ called[t] = k + 1 /\ left[t] = k
    BY <1>1 DEF InMeeting
  <2>2. t \in Entered /\ Entered' = Entered \ {t}
    BY DEF Entered
  <2>3. step' = Cardinality(Entered') /\ step' \in 0 .. N
    <3> Entered' \in SUBSET Workers
      BY <1>2, <2>2
    <3> QED
      BY <1>2, <2>2, Counts
  <2>4. Barrier!TypeOK'
    BY <1>2, <2>3
  <2>5. InMeeting(k)'
    BY <1>1, <2>1 DEF InMeeting
  <2>6. LastAlone'
    <3>1. CASE step - 1 = 0
      <4>1. \A u \in Workers \ {t} : pc[u] \in {"awaitEnter", "shut"}
        <5>1. Entered' = {}
          BY <1>2, <2>2, <2>3, <3>1, Counts
        <5> QED
          BY <1>1, <2>1, <2>2, <5>1 DEF InMeeting, Entered
      <4>2. \A u \in Workers \ {t} : pc[u] = "awaitEnter"
        BY <4>1 DEF LastAlone
      <4>3. pc' = [pc EXCEPT ![t] = "shut"]
        BY <3>1
      <4> QED
        BY <4>2, <4>3 DEF LastAlone
    <3>2. CASE step - 1 # 0
      <4>1. pc' = [pc EXCEPT ![t] = "awaitEnter"] /\ pc[t] = "sub"
        BY <3>2
      <4> QED
        BY <4>1 DEF LastAlone
    <3> QED
      BY <3>1, <3>2
  <2> QED
    BY <2>3, <2>4, <2>5, <2>6 DEF meetVars
<1>7. CASE Barrier!SetEnter(t)
  <2> USE <1>7 DEF Barrier!SetEnter
  <2>1. mode = "leave" /\ called[t] = k + 1 /\ left[t] = k
    BY <1>1 DEF InMeeting
  <2>2. \A u \in Workers \ {t} : pc[u] = "awaitEnter" /\ called[u] = k + 1 /\ left[u] = k
    BY <1>1 DEF InMeeting, LastAlone
  <2>3. Entered' = Entered
    BY DEF Entered
  <2>4. k + 1 \in Nat /\ InMeeting(k + 1)'
    BY <2>1, <2>2 DEF InMeeting
  <2>5. LastAlone'
    BY <2>2 DEF LastAlone
  <2>6. Barrier!TypeOK'
    BY <1>2
  <2>7. Barrier!Sync!Return(t)
    BY <2>1, <2>2 DEF Barrier!Sync!Return
  <2> QED
    BY <2>3, <2>4, <2>5, <2>6, <2>7 DEF Barrier!Sync!SyncNext
<1>8. CASE Barrier!AwaitEnter(t)
  <2> USE <1>8 DEF Barrier!AwaitEnter
  <2>1. called[t] = k /\ left[t] + 1 = k
    BY <1>1 DEF InMeeting
  <2>2. Entered' = Entered
    BY DEF Entered
  <2>3. InMeeting(k)' /\ LastAlone'
    BY <1>1, <2>1 DEF InMeeting, LastAlone
  <2>4. Barrier!TypeOK'
    BY <1>2
  <2>5. \A s \in Workers : called[s] \in {k, k + 1}
    BY <1>1 DEF InMeeting
  <2>6. Barrier!Sync!Return(t)
    BY <2>1, <2>5 DEF Barrier!Sync!Return
  <2> QED
    BY <2>2, <2>3, <2>4, <2>6 DEF Barrier!Sync!SyncNext
<1> QED
  BY <1>3, <1>4, <1>5, <1>6, <1>7, <1>8 DEF Barrier!Step

\* It is about the variables of the barrier alone.
LEMMA BarrierStutter ==
    ASSUME BarrierInv, UNCHANGED Barrier!vars
    PROVE  BarrierInv' /\ UNCHANGED meetVars
BY DEF BarrierInv, Barrier!vars, Barrier!TypeOK, Entered, InMeeting, LastAlone, meetVars

-----------------------------------------------------------------------------
(* measure(): module RoundSync *)

\* The status says where the workers can be, and in which round.
WorkersInPhase ==
    \A w \in Workers :
        /\ status = "Wait" =>
              \/ pc[w] \in {"wait", "count"} /\ round[w] + 1 = mround
              \/ pc[w] \in {"resetIn", "run", "spin"} /\ round[w] = mround
        /\ status \in {"Run", "Abort"} =>
              /\ pc[w] \in {"spin", "work", "errmsg", "abort", "notify", "resetOut", "settle",
                            "wait", "gone"}
              /\ round[w] = mround
        /\ status \in {"Done", "Fail"} =>
              pc[w] \in {"unborn", "wait", "gone", "stop", "raise"} /\ round[w] = mround
        /\ status = "Quit" => pc[w] \in {"wait", "gone"}

\* Who has come last, or ends the round, is alone with it.
LastOfRound ==
    \A w \in Workers : \A v \in Workers \ {w} :
        /\ pc[w] \in {"resetIn", "run"} => pc[v] = "spin"
        /\ pc[w] \in {"resetOut", "settle", "stop", "raise"} => pc[v] \in {"wait", "gone"}

\* The counter serves twice a round: for those that have come, and for those that are done.
Ready ==
    {w \in Workers : \/ status = "Wait" /\ pc[w] \in {"resetIn", "spin"}
                     \/ status \in {"Run", "Abort"} /\ pc[w] \in {"resetOut", "wait", "gone"}}
CountReset == \E w \in Workers : pc[w] \in {"run", "settle"}
ReadyCounted ==
    /\ CountReset => nbready = 0
    /\ ~CountReset => nbready = Cardinality(Ready)

MasterWaits == mpc \in {"start", "test", "asleep", "thrown"} /\ ~raised

\* The master is at its latch until a worker has raised it, after the verdict.
MasterInPhase ==
    /\ status \in {"Wait", "Run", "Abort"} => MasterWaits
    /\ status = "Quit" <=> mpc \in {"join", "end"}
    /\ raised => mpc \in {"start", "test", "thrown"}
    /\ mpc = "spawn" => mround = 0
    /\ mpc \in {"spawn", "notify"} => status = "Done" /\ mround < NbRounds
    /\ mpc \in {"start", "test", "asleep", "read"} => mround >= 1
    /\ \A w \in Workers : /\ pc[w] = "unborn" => mpc \in {"spawn", "thrown"}
                          /\ pc[w] \in {"stop", "raise"} => MasterWaits

\* Only the last round can have failed, and its failure is announced before it ends.
ErrorsAnnounced ==
    /\ erred \in {{}, {mround}}
    /\ erred = {} => threw = {}
    /\ status \in {"Wait", "Done"} => erred = {}
    /\ status \in {"Abort", "Fail"} => erred # {} /\ errmsg # "null"
    /\ status = "Run" /\ erred # {} => \E w \in Workers : pc[w] \in {"errmsg", "abort"}
    /\ \A w \in Workers : /\ pc[w] \in {"errmsg", "abort"} => erred # {}
                          /\ pc[w] = "abort" => errmsg # "null"
                          /\ pc[w] = "gone" => w \in threw \/ status = "Quit"

RoundsInv ==
    /\ Rounds!TypeOK
    /\ WorkersInPhase
    /\ LastOfRound
    /\ ReadyCounted
    /\ MasterInPhase
    /\ ErrorsAnnounced

\* It holds before the workers are spawned.
LEMMA RoundsBegin ==
    ASSUME Rounds!Init
    PROVE  RoundsInv
<1> USE GradingAssumption DEF Rounds!Init, Rounds!RoundAssumption
<1>1. Rounds!TypeOK
  <2>1. nbready \in 0 .. Rounds!NbWorkers /\ local \in 0 .. NbRounds /\ mround \in 0 .. NbRounds
    BY Sizes, Counts
  <2>2. pc \in [Workers -> Rounds!Labels] /\ round \in [Workers -> 0 .. NbRounds]
    BY DEF Rounds!Labels
  <2>3. total \in SUBSET Rounds!Segments /\ times \in [Rounds!Rounds -> SUBSET Rounds!Segments]
    OBVIOUS
  <2> QED
    BY <2>1, <2>2, <2>3 DEF Rounds!TypeOK, Rounds!MasterLabels
<1>2. Ready = {} /\ ~CountReset
  BY DEF Ready, CountReset
<1>3. WorkersInPhase /\ LastOfRound
  BY DEF WorkersInPhase, LastOfRound
<1>4. MasterInPhase /\ ErrorsAnnounced
  BY DEF MasterInPhase, MasterWaits, ErrorsAnnounced
<1> QED
  BY <1>1, <1>2, <1>3, <1>4, Counts DEF RoundsInv, ReadyCounted

\* What the invariant says.
LEMMA RoundsSafe ==
    ASSUME RoundsInv
    PROVE  Rounds!RoundsDoNotMix /\ Rounds!VerdictTrue
<1> USE DEF RoundsInv
<1>1. Rounds!RoundsDoNotMix
  BY DEF Rounds!RoundsDoNotMix, Rounds!Working, WorkersInPhase, MasterInPhase, MasterWaits,
         Rounds!TypeOK
<1>2. Rounds!VerdictTrue
  <2>1. mpc = "read" => status \in {"Done", "Fail"}
    BY DEF MasterInPhase, MasterWaits, Rounds!TypeOK
  <2>2. mround \in erred <=> erred # {}
    BY DEF ErrorsAnnounced
  <2> QED
    BY <2>1, <2>2 DEF Rounds!VerdictTrue, ErrorsAnnounced
<1> QED
  BY <1>1, <1>2

\* A step of the master: most leave the status, the workers and the round alone.
LEMMA RoundsMasterStep ==
    ASSUME RoundsInv, Rounds!Master
    PROVE  RoundsInv'
<1> USE GradingAssumption
        DEF RoundsInv, Rounds!TypeOK, Rounds!Labels, Rounds!MasterLabels, Rounds!MGoto,
            Rounds!RoundAssumption
<1>1. UNCHANGED <<nbready, errmsg, total, bounded, round, threw, erred>>
  BY DEF Rounds!Master, Rounds!workVars
<1>2. CASE UNCHANGED <<pc, status, mround>>
  <2>1. WorkersInPhase' /\ LastOfRound' /\ Ready' = Ready /\ CountReset' = CountReset
    BY <1>1, <1>2 DEF WorkersInPhase, LastOfRound, Ready, CountReset
  <2>2. ReadyCounted' /\ ErrorsAnnounced'
    BY <1>1, <1>2, <2>1 DEF ReadyCounted, ErrorsAnnounced
  <2>3. Rounds!TypeOK' /\ MasterInPhase'
    <3> USE <1>1, <1>2 DEF MasterInPhase, MasterWaits
    <3>1. CASE Rounds!SpawnFails
      BY <3>1 DEF Rounds!SpawnFails
    <3>2. CASE Rounds!StartClock
      BY <3>2 DEF Rounds!StartClock
    <3>3. CASE Rounds!TakeLatch
      BY <3>3 DEF Rounds!TakeLatch
    <3>4. CASE Rounds!Sleep
      BY <3>4 DEF Rounds!Sleep
    <3>5. CASE Rounds!SpuriousWakeup
      BY <3>5 DEF Rounds!SpuriousWakeup
    <3>6. CASE Rounds!Overrun
      BY <3>6 DEF Rounds!Overrun
    <3>7. CASE Rounds!ReadDone
      BY <3>7 DEF Rounds!ReadDone, Rounds!Rounds
    <3>8. CASE Rounds!ReadFail
      BY <3>8 DEF Rounds!ReadFail
    <3>9. CASE Rounds!MasterJoin
      BY <3>9 DEF Rounds!MasterJoin
    <3>10. ~(\E w \in Workers : Rounds!Spawn(w)) /\ ~Rounds!MasterNotify /\ ~Rounds!MasterQuit
      BY DEF Rounds!Spawn, Rounds!MasterNotify, Rounds!MasterQuit
    <3> QED
      BY <3>1, <3>2, <3>3, <3>4, <3>5, <3>6, <3>7, <3>8, <3>9, <3>10
         DEF Rounds!Master, Rounds!MasterGoes
  <2> QED
    BY <2>1, <2>2, <2>3
<1>3. ASSUME NEW w \in Workers, Rounds!Spawn(w) PROVE RoundsInv'
  <2> USE <1>1, <1>3 DEF Rounds!Spawn
  <2>1. status = "Done" /\ \A v \in Workers : pc[v] \in {"unborn", "wait", "gone"}
    BY DEF MasterInPhase, MasterWaits, WorkersInPhase
  <2>2. WorkersInPhase' /\ LastOfRound'
    BY <2>1 DEF WorkersInPhase, LastOfRound
  <2>3. ReadyCounted'
    <3> Ready' = Ready /\ ~CountReset /\ ~CountReset'
      BY <2>1 DEF Ready, CountReset
    <3> QED
      BY DEF ReadyCounted
  <2>4. MasterInPhase'
    BY <2>1 DEF MasterInPhase, MasterWaits
  <2>5. ErrorsAnnounced' /\ Rounds!TypeOK'
    BY DEF ErrorsAnnounced
  <2> QED
    BY <2>2, <2>3, <2>4, <2>5
<1>4. CASE Rounds!MasterNotify
  <2> USE <1>1, <1>4 DEF Rounds!MasterNotify
  <2>1. status = "Done" /\ ~raised /\ mround < NbRounds /\ mround' >= 1
    BY DEF MasterInPhase
  <2>2. \A w \in Workers : pc[w] = "wait" /\ round[w] = mround
    BY <2>1 DEF MasterInPhase, MasterWaits, WorkersInPhase, ErrorsAnnounced
  <2>3. WorkersInPhase' /\ LastOfRound'
    BY <2>2 DEF WorkersInPhase, LastOfRound
  <2>4. ReadyCounted'
    <3> Ready = {} /\ Ready' = {} /\ ~CountReset /\ ~CountReset'
      BY <2>1, <2>2 DEF Ready, CountReset
    <3> QED
      BY DEF ReadyCounted
  <2>5. MasterInPhase' /\ ErrorsAnnounced' /\ Rounds!TypeOK'
    BY <2>1, <2>2 DEF MasterInPhase, MasterWaits, ErrorsAnnounced
  <2> QED
    BY <2>3, <2>4, <2>5
<1>5. CASE Rounds!MasterQuit
  <2> USE <1>1, <1>5 DEF Rounds!MasterQuit
  <2>1. status \in {"Done", "Fail"} /\ ~raised
    BY DEF MasterInPhase, MasterWaits
  <2>2. \A w \in Workers : pc[w] \in {"wait", "gone"}
    BY <2>1 DEF MasterInPhase, MasterWaits, WorkersInPhase
  <2>3. WorkersInPhase' /\ LastOfRound'
    BY <2>2 DEF WorkersInPhase, LastOfRound
  <2>4. ReadyCounted'
    <3> Ready = {} /\ Ready' = {} /\ ~CountReset /\ ~CountReset'
      BY <2>1, <2>2 DEF Ready, CountReset
    <3> QED
      BY DEF ReadyCounted
  <2>5. MasterInPhase' /\ ErrorsAnnounced' /\ Rounds!TypeOK'
    BY <2>1, <2>2 DEF MasterInPhase, MasterWaits, ErrorsAnnounced
  <2> QED
    BY <2>3, <2>4, <2>5
<1>6. \/ UNCHANGED <<pc, status, mround>>
      \/ (\E w \in Workers : Rounds!Spawn(w)) \/ Rounds!MasterNotify \/ Rounds!MasterQuit
  BY DEF Rounds!Master, Rounds!MasterGoes, Rounds!SpawnFails, Rounds!StartClock,
         Rounds!TakeLatch, Rounds!Sleep, Rounds!SpuriousWakeup, Rounds!Overrun,
         Rounds!ReadDone, Rounds!ReadFail, Rounds!MasterJoin
<1> QED
  BY <1>2, <1>3, <1>4, <1>5, <1>6

\* What a worker's step leaves alone, and the types that the others keep.
LEMMA RoundsWorkerFrame ==
    ASSUME RoundsInv, NEW w \in Workers, Rounds!Worker(w)
    PROVE  /\ UNCHANGED <<local, bounded, mround, times>>
           /\ mpc # "thrown" /\ Rounds!WorkerGoes(w)
           /\ Ready \in SUBSET Workers
           /\ pc \in [Workers -> Rounds!Labels] /\ round \in [Workers -> 0 .. NbRounds]
           /\ mround \in 0 .. NbRounds /\ NbRounds \in Nat
BY GradingAssumption DEF RoundsInv, Rounds!TypeOK, Rounds!Worker, Ready, Rounds!RoundAssumption

\* Steps towards a round, up to the last to arrive.
LEMMA RoundsArrive ==
    ASSUME RoundsInv, NEW w \in Workers, Rounds!Worker(w),
           Rounds!WorkerWait(w) \/ Rounds!Arrive(w)
    PROVE  RoundsInv'
<1> USE RoundsWorkerFrame
        DEF RoundsInv, Rounds!TypeOK, Rounds!Labels, Rounds!MasterLabels, Rounds!Goto,
            Rounds!syncVars, Rounds!workVars
<1>1. CASE Rounds!WorkerWait(w)
  <2> USE <1>1 DEF Rounds!WorkerWait
  <2>1. Ready' = Ready /\ CountReset' = CountReset
    BY DEF Ready, CountReset
  <2>2. WorkersInPhase' /\ LastOfRound'
    BY DEF WorkersInPhase, LastOfRound
  <2>3. MasterInPhase' /\ ErrorsAnnounced'
    BY DEF MasterInPhase, MasterWaits, ErrorsAnnounced
  <2>4. Rounds!TypeOK'
    OBVIOUS
  <2> QED
    BY <2>1, <2>2, <2>3, <2>4 DEF ReadyCounted
<1>2. CASE Rounds!Arrive(w)
  <2> USE <1>2 DEF Rounds!Arrive
  <2>1. status = "Wait" /\ round[w] + 1 = mround
    BY DEF WorkersInPhase
  <2>2. \A v \in Workers : pc[v] \in {"wait", "count", "spin"}
    BY <2>1 DEF WorkersInPhase, LastOfRound
  <2>3. w \notin Ready /\ Ready' = Ready \union {w} /\ ~CountReset /\ ~CountReset'
    BY <2>1, <2>2 DEF Ready, CountReset
  <2>4. nbready' = Cardinality(Ready') /\ nbready' \in 0 .. Cardinality(Workers)
    <3> Ready' \in SUBSET Workers
      BY <2>3
    <3> QED
      BY <2>3, Counts DEF ReadyCounted
  <2>5. round' = [round EXCEPT ![w] = mround]
    BY <2>1
  <2>6. WorkersInPhase'
    BY <2>1, <2>5 DEF WorkersInPhase
  <2>7. LastOfRound'
    <3>1. CASE nbready + 1 = Cardinality(Workers)
      <4>1. Ready' = Workers
        BY <2>3, <2>4, <3>1, Counts
      <4>2. \A v \in Workers \ {w} : pc[v] = "spin"
        BY <2>1, <2>2, <2>3, <4>1 DEF Ready
      <4>3. pc' = [pc EXCEPT ![w] = "resetIn"]
        BY <3>1, Sizes
      <4> QED
        BY <4>2, <4>3 DEF LastOfRound
    <3>2. CASE nbready + 1 # Cardinality(Workers)
      <4>1. pc' = [pc EXCEPT ![w] = "spin"]
        BY <3>2, Sizes
      <4> QED
        BY <2>2, <4>1 DEF LastOfRound
    <3> QED
      BY <3>1, <3>2
  <2>8. MasterInPhase' /\ ErrorsAnnounced'
    BY <2>1 DEF MasterInPhase, MasterWaits, ErrorsAnnounced
  <2>9. Rounds!TypeOK'
    BY <2>4, <2>5, Sizes
  <2> QED
    BY <2>3, <2>4, <2>6, <2>7, <2>8, <2>9 DEF ReadyCounted
<1> QED
  BY <1>1, <1>2

\* The last to come opens the round, the last to be done gives the verdict.
LEMMA RoundsTurn ==
    ASSUME RoundsInv, NEW w \in Workers, Rounds!Worker(w),
           Rounds!Reset(w) \/ Rounds!SetRun(w) \/ Rounds!Settle(w)
    PROVE  RoundsInv'
<1> USE RoundsWorkerFrame
        DEF RoundsInv, Rounds!TypeOK, Rounds!Labels, Rounds!MasterLabels, Rounds!Goto,
            Rounds!syncVars, Rounds!workVars
<1>1. CASE Rounds!Reset(w)
  <2> USE <1>1 DEF Rounds!Reset
  <2>1. CountReset' /\ nbready' = 0
    BY DEF CountReset
  <2>2. WorkersInPhase' /\ LastOfRound'
    BY DEF WorkersInPhase, LastOfRound
  <2>3. MasterInPhase' /\ ErrorsAnnounced'
    BY DEF MasterInPhase, MasterWaits, ErrorsAnnounced
  <2>4. Rounds!TypeOK'
    BY Sizes, Counts
  <2> QED
    BY <2>1, <2>2, <2>3, <2>4 DEF ReadyCounted
<1>2. CASE Rounds!SetRun(w)
  <2> USE <1>2 DEF Rounds!SetRun
  <2>1. status = "Wait" /\ \A v \in Workers \ {w} : pc[v] = "spin"
    BY DEF WorkersInPhase, LastOfRound
  <2>2. CountReset /\ ~CountReset' /\ Ready' = {}
    BY <2>1 DEF CountReset, Ready
  <2>3. WorkersInPhase' /\ LastOfRound'
    BY <2>1 DEF WorkersInPhase, LastOfRound
  <2>4. MasterInPhase' /\ ErrorsAnnounced'
    BY <2>1 DEF MasterInPhase, MasterWaits, ErrorsAnnounced
  <2>5. Rounds!TypeOK'
    OBVIOUS
  <2> QED
    BY <2>2, <2>3, <2>4, <2>5, Counts DEF ReadyCounted
<1>3. CASE Rounds!Settle(w)
  <2> USE <1>3 DEF Rounds!Settle
  <2>1. status \in {"Run", "Abort"} /\ \A v \in Workers \ {w} : pc[v] \in {"wait", "gone"}
    BY DEF WorkersInPhase, LastOfRound
  <2>2. status' = IF erred = {} THEN "Done" ELSE "Fail"
    BY <2>1 DEF ErrorsAnnounced
  <2>3. CountReset /\ ~CountReset' /\ Ready' = {}
    BY <2>1, <2>2 DEF CountReset, Ready
  <2>4. WorkersInPhase' /\ LastOfRound'
    BY <2>1, <2>2 DEF WorkersInPhase, LastOfRound
  <2>5. MasterInPhase'
    BY <2>1, <2>2 DEF MasterInPhase, MasterWaits
  <2>6. ErrorsAnnounced'
    BY <2>1, <2>2 DEF ErrorsAnnounced
  <2>7. Rounds!TypeOK'
    OBVIOUS
  <2> QED
    BY <2>3, <2>4, <2>5, <2>6, <2>7, Counts DEF ReadyCounted
<1> QED
  BY <1>1, <1>2, <1>3

\* Steps inside a round.
LEMMA RoundsWork ==
    ASSUME RoundsInv, NEW w \in Workers, Rounds!Worker(w),
           \/ Rounds!AwaitRun(w) \/ Rounds!Succeed(w) \/ Rounds!Err(w)
           \/ Rounds!SetErrmsg(w) \/ Rounds!SetAbort(w)
    PROVE  RoundsInv'
<1> USE RoundsWorkerFrame
        DEF RoundsInv, Rounds!TypeOK, Rounds!Labels, Rounds!MasterLabels, Rounds!Goto,
            Rounds!syncVars, Rounds!workVars
<1>1. status \in {"Run", "Abort"} /\ round[w] = mround
  BY DEF WorkersInPhase, Rounds!AwaitRun, Rounds!Succeed, Rounds!Err, Rounds!SetErrmsg,
         Rounds!SetAbort
<1>2. /\ pc[w] \in {"spin", "work", "errmsg", "abort"}
      /\ pc' = [pc EXCEPT ![w] = pc'[w]] /\ pc'[w] \in {"work", "errmsg", "abort", "notify"}
      /\ status' \in {"Run", "Abort"}
      /\ UNCHANGED <<round, mround, mpc, raised, nbready>>
  BY <1>1 DEF Rounds!AwaitRun, Rounds!Succeed, Rounds!Err, Rounds!SetErrmsg, Rounds!SetAbort
<1>3. WorkersInPhase' /\ LastOfRound'
  BY <1>1, <1>2 DEF WorkersInPhase, LastOfRound
<1>4. Ready' = Ready /\ CountReset' = CountReset
  BY <1>1, <1>2 DEF Ready, CountReset
<1>5. ReadyCounted' /\ MasterInPhase'
  BY <1>1, <1>2, <1>4 DEF ReadyCounted, MasterInPhase, MasterWaits
<1>6. Rounds!TypeOK' /\ ErrorsAnnounced'
  <2> USE <1>1, <1>2 DEF ErrorsAnnounced
  <2>1. CASE Rounds!AwaitRun(w)
    BY <2>1 DEF Rounds!AwaitRun
  <2>2. CASE Rounds!Succeed(w)
    BY <2>2 DEF Rounds!Succeed
  <2>3. CASE Rounds!Err(w)
    <3> USE <2>3 DEF Rounds!Err
    <3>1. mround >= 1
      BY DEF MasterInPhase, MasterWaits
    <3>2. erred' = {mround}
      OBVIOUS
    <3> QED
      BY <3>1, <3>2 DEF Rounds!Rounds
  <2>4. CASE Rounds!SetErrmsg(w)
    BY <2>4 DEF Rounds!SetErrmsg
  <2>5. CASE Rounds!SetAbort(w)
    BY <2>5 DEF Rounds!SetAbort
  <2> QED
    BY <2>1, <2>2, <2>3, <2>4, <2>5
<1> QED
  BY <1>3, <1>5, <1>6

\* A worker is done: the last one is alone with the end of the round.
LEMMA RoundsLeave ==
    ASSUME RoundsInv, NEW w \in Workers, Rounds!Worker(w), Rounds!WorkerNotify(w)
    PROVE  RoundsInv'
<1> USE RoundsWorkerFrame
        DEF RoundsInv, Rounds!TypeOK, Rounds!Labels, Rounds!MasterLabels, Rounds!Goto,
            Rounds!syncVars, Rounds!workVars, Rounds!WorkerNotify, Rounds!AfterRound
<1>1. status \in {"Run", "Abort"} /\ round[w] = mround
  BY DEF WorkersInPhase
<1>2. \A v \in Workers : pc[v] \notin {"resetOut", "settle", "run"}
  BY <1>1 DEF WorkersInPhase, LastOfRound
<1>3. w \notin Ready /\ Ready' = Ready \union {w} /\ ~CountReset /\ ~CountReset'
  BY <1>1, <1>2 DEF Ready, CountReset
<1>4. nbready' = Cardinality(Ready') /\ nbready' \in 0 .. Cardinality(Workers)
  <2> Ready' \in SUBSET Workers
    BY <1>3
  <2> QED
    BY <1>3, Counts DEF ReadyCounted
<1>5. WorkersInPhase'
  BY <1>1 DEF WorkersInPhase
<1>6. LastOfRound'
  <2>1. CASE nbready + 1 = Cardinality(Workers)
    <3>1. Ready' = Workers
      BY <1>3, <1>4, <2>1, Counts
    <3>2. \A v \in Workers \ {w} : pc[v] \in {"wait", "gone"}
      BY <1>1, <1>2, <1>3, <3>1 DEF Ready
    <3>3. pc' = [pc EXCEPT ![w] = "resetOut"]
      BY <2>1, Sizes
    <3> QED
      BY <3>2, <3>3 DEF LastOfRound
  <2>2. CASE nbready + 1 # Cardinality(Workers)
    <3>1. pc' = [pc EXCEPT ![w] = IF w \in threw THEN "gone" ELSE "wait"]
      BY <2>2, Sizes
    <3>2. \A v \in Workers : pc[v] \notin {"resetIn", "run", "stop", "raise"}
      BY <1>1 DEF WorkersInPhase
    <3> QED
      BY <1>2, <3>1, <3>2 DEF LastOfRound
  <2> QED
    BY <2>1, <2>2
<1>7. MasterInPhase' /\ ErrorsAnnounced'
  BY <1>1 DEF MasterInPhase, MasterWaits, ErrorsAnnounced
<1>8. Rounds!TypeOK'
  BY <1>4, Sizes
<1> QED
  BY <1>3, <1>4, <1>5, <1>6, <1>7, <1>8 DEF ReadyCounted

\* The verdict is out: the clock, and then the latch.
LEMMA RoundsRaise ==
    ASSUME RoundsInv, NEW w \in Workers, Rounds!Worker(w),
           Rounds!StopClock(w) \/ Rounds!Raise(w)
    PROVE  RoundsInv'
<1> USE RoundsWorkerFrame
        DEF RoundsInv, Rounds!TypeOK, Rounds!Labels, Rounds!MasterLabels, Rounds!Goto,
            Rounds!syncVars, Rounds!workVars, Rounds!StopClock, Rounds!Raise,
            Rounds!AfterRound
<1>1. /\ status \in {"Done", "Fail"} /\ MasterWaits /\ round[w] = mround
      /\ \A v \in Workers \ {w} : pc[v] \in {"wait", "gone"}
  BY DEF WorkersInPhase, MasterInPhase, MasterWaits, LastOfRound
<1>2. WorkersInPhase' /\ LastOfRound'
  BY <1>1 DEF WorkersInPhase, LastOfRound
<1>3. Ready' = Ready /\ CountReset' = CountReset /\ nbready' = nbready
  BY <1>1 DEF Ready, CountReset
<1>4. MasterInPhase'
  BY <1>1 DEF MasterInPhase, MasterWaits
<1>5. ErrorsAnnounced'
  BY <1>1 DEF ErrorsAnnounced
<1>6. Rounds!TypeOK'
  <2>1. CASE Rounds!StopClock(w)
    <3>1. mround \in Rounds!Rounds
      BY <1>1 DEF MasterInPhase, MasterWaits, Rounds!Rounds
    <3>2. [start |-> local, stop |-> round[w]] \in Rounds!Segments
      BY <1>1, <3>1 DEF Rounds!Segments
    <3> QED
      BY <2>1, <3>2
  <2>2. CASE Rounds!Raise(w)
    BY <2>2
  <2> QED
    BY <2>1, <2>2
<1> QED
  BY <1>2, <1>3, <1>4, <1>5, <1>6 DEF ReadyCounted

\* Every step of measure() and of its workers keeps it.
LEMMA RoundsStep ==
    ASSUME RoundsInv, [Rounds!Next]_Rounds!vars
    PROVE  RoundsInv'
<1>1. CASE UNCHANGED Rounds!vars
  BY <1>1 DEF RoundsInv, Rounds!vars, Rounds!syncVars, Rounds!workVars, Rounds!TypeOK,
              WorkersInPhase, LastOfRound, ReadyCounted, Ready, CountReset, MasterInPhase,
              MasterWaits, ErrorsAnnounced
<1>2. ASSUME NEW w \in Workers, Rounds!Worker(w) PROVE RoundsInv'
  <2>1. Rounds!WorkerGoes(w)
    BY <1>2 DEF Rounds!Worker
  <2> QED
    BY <1>2, <2>1, RoundsArrive, RoundsTurn, RoundsWork, RoundsLeave, RoundsRaise
       DEF Rounds!WorkerGoes
<1> QED
  BY <1>1, <1>2, RoundsMasterStep DEF Rounds!Next

-----------------------------------------------------------------------------
(* The check of the bank: module CheckPhase *)

\* The transactions that are over, one by one, so that their number is a cardinality.
Slots == Check!Workers \X (1 .. NbTxPerWrk)
DoneSlots == {s \in Slots : s[2] <= done[s[1]]}
Tally == Cardinality(DoneSlots)

NoError == \A u \in Check!Workers : error[u] = "none"

\* The counter is set, and has been seen to be.
Started == pc[0] = "sync2" \/ left[0] >= 2

\* Where a worker stands says how often it has met the others.
MeetingsMatch ==
    \A u \in Check!Workers :
        /\ pc[u] = "sync1" => left[u] = 0
        /\ pc[u] \in {"init", "verify", "sync2", "bad1"} => left[u] = 1
        /\ pc[u] \in {"last", "read", "write", "sync3", "bad2"} => left[u] = 2
        /\ pc[u] \in {"final", "end"} => left[u] = 3
        /\ called[u] = left[u] \/ (pc[u] \in Check!Syncs /\ called[u] = left[u] + 1)
        /\ pc[u] \in {"init", "verify", "final", "bad1"} => u = 0
        /\ \A v \in Check!Workers : left[u] <= called[v]

\* A worker that comes to the last meeting without an error has done its part.
PartsDone ==
    \A u \in Check!Workers :
        /\ left[u] <= 1 => done[u] = 0
        /\ pc[u] \in {"last", "read", "write"} => done[u] < NbTxPerWrk
        /\ pc[u] = "sync3" => done[u] = NbTxPerWrk
        /\ pc[u] \in {"bad1", "bad2"} => error[u] # "none"
        /\ error[u] = "none" /\ called[u] >= 3 => done[u] = NbTxPerWrk

\* The counter never falls below what the transactions account for, and a loss lifts it
\* above that for good: who sees the least possible value sees the counter itself.
Above ==
    /\ counter + Tally >= Check!InitCounter
    /\ lost => counter + Tally > Check!InitCounter
    /\ \A u \in Check!Workers : pc[u] = "write" =>
          /\ value[u] + Tally >= Check!InitCounter
          /\ value[u] + Tally = Check!InitCounter => counter = value[u]

LossSeen ==
    NoError =>
        /\ pc[0] \in {"sync1", "init"} => ~lost
        /\ pc[0] = "verify" => (lost => counter # Check!InitCounter)
        /\ Started => Above
        /\ pc[0] = "end" => counter = 0

\* An atomic library counts exactly, and nobody sees its counter rise.
AtomicExact ==
    atomic =>
        /\ NoError /\ ~lost
        /\ pc[0] = "verify" \/ Started => counter + Tally = Check!InitCounter
        /\ \A u \in Check!Workers : pc[u] \in {"read", "write"} => counter <= last[u]

CheckInv ==
    /\ Check!TypeOK
    /\ MeetingsMatch
    /\ PartsDone
    /\ LossSeen
    /\ AtomicExact

\* What is assumed of the constants of the check.
LEMMA CheckNumbers ==
    /\ NbCheckers \in Nat \ {0} /\ NbTxPerWrk \in Nat \ {0} /\ SizeMax \in Nat \ {0}
    /\ 0 \in Check!Workers
    /\ Check!InitCounter \in Nat /\ Check!InitCounter + 1 < SizeMax
    /\ IsFiniteSet(Slots) /\ Cardinality(Slots) = Check!InitCounter
<1>1. /\ NbCheckers \in Nat \ {0} /\ NbTxPerWrk \in Nat \ {0} /\ SizeMax \in Nat
      /\ SizeMax > NbTxPerWrk * NbCheckers + 1
  BY GradingAssumption DEF Check!CheckAssumption
<1>2. Check!Workers = 0 .. NbCheckers - 1 /\ 0 \in Check!Workers
  BY <1>1 DEF Check!Workers
<1>3. NbTxPerWrk * NbCheckers \in Nat /\ NbCheckers * NbTxPerWrk = NbTxPerWrk * NbCheckers
  BY <1>1
<1>4. IsFiniteSet(Check!Workers) /\ Cardinality(Check!Workers) = NbCheckers
  BY <1>1, <1>2, FS_Interval
<1>5. IsFiniteSet(1 .. NbTxPerWrk) /\ Cardinality(1 .. NbTxPerWrk) = NbTxPerWrk
  BY <1>1, FS_Interval
<1>6. IsFiniteSet(Slots) /\ Cardinality(Slots) = NbCheckers * NbTxPerWrk
  BY <1>4, <1>5, FS_Product DEF Slots
<1> QED
  BY <1>1, <1>2, <1>3, <1>6 DEF Check!InitCounter

\* The tally of the transactions.
LEMMA Tallies ==
    ASSUME done \in [Check!Workers -> 0 .. NbTxPerWrk]
    PROVE  /\ Tally \in 0 .. Check!InitCounter
           /\ (\A u \in Check!Workers : done[u] = 0) => Tally = 0
           /\ (\A u \in Check!Workers : done[u] = NbTxPerWrk) => Tally = Check!InitCounter
           /\ (\E u \in Check!Workers : done[u] < NbTxPerWrk) => Tally < Check!InitCounter
<1> USE CheckNumbers
<1>1. /\ DoneSlots \in SUBSET Slots /\ IsFiniteSet(DoneSlots)
      /\ Cardinality(DoneSlots) \in Nat
      /\ Cardinality(DoneSlots) <= Cardinality(Slots)
      /\ DoneSlots # Slots => Cardinality(DoneSlots) # Cardinality(Slots)
  <2> DoneSlots \in SUBSET Slots
    BY DEF DoneSlots
  <2> QED
    BY FS_Subset, FS_CardinalityType
<1>2. ASSUME \A u \in Check!Workers : done[u] = 0 PROVE Tally = 0
  <2> DoneSlots = {}
    BY <1>2 DEF DoneSlots, Slots
  <2> QED
    BY FS_EmptySet DEF Tally
<1>3. ASSUME \A u \in Check!Workers : done[u] = NbTxPerWrk PROVE Tally = Check!InitCounter
  <2> DoneSlots = Slots
    BY <1>3 DEF DoneSlots, Slots
  <2> QED
    BY DEF Tally
<1>4. ASSUME NEW u \in Check!Workers, done[u] < NbTxPerWrk PROVE Tally < Check!InitCounter
  <2> DEFINE s == <<u, NbTxPerWrk>>
  <2>1. s \in Slots /\ s \notin DoneSlots
    BY <1>4 DEF DoneSlots, Slots
  <2> QED
    BY <1>1, <2>1 DEF Tally
<1> QED
  BY <1>1, <1>2, <1>3, <1>4 DEF Tally

\* A transaction more, and the tally goes up by one.
LEMMA TallyGoesUp ==
    ASSUME done \in [Check!Workers -> 0 .. NbTxPerWrk], NEW u \in Check!Workers,
           done[u] < NbTxPerWrk, done' = [done EXCEPT ![u] = @ + 1]
    PROVE  Tally' = Tally + 1
<1> DEFINE s == <<u, done[u] + 1>>
<1> USE CheckNumbers
<1>1. s \in Slots /\ s \notin DoneSlots
  BY DEF DoneSlots, Slots
<1>2. DoneSlots' = DoneSlots \union {s}
  <2>1. ASSUME NEW x \in Slots PROVE (x[2] <= done'[x[1]]) <=> (x[2] <= done[x[1]] \/ x = s)
    <3>1. PICK v \in Check!Workers : \E i \in 1 .. NbTxPerWrk : x = <<v, i>>
      BY DEF Slots
    <3>2. PICK i \in 1 .. NbTxPerWrk : x = <<v, i>>
      BY <3>1
    <3> QED
      BY <3>2
  <2> QED
    BY <1>1, <2>1 DEF DoneSlots
<1>3. IsFiniteSet(DoneSlots)
  BY FS_Subset DEF DoneSlots
<1> QED
  BY <1>1, <1>2, <1>3, FS_AddElement DEF Tally

\* It holds before anybody has come to the check.
LEMMA CheckBegin ==
    ASSUME Check!Init
    PROVE  CheckInv
<1> USE CheckNumbers DEF Check!Init, Check!Barrier!SyncInit
<1>1. Check!TypeOK
  <2>1. counter \in 0 .. SizeMax - 1
    OBVIOUS
  <2>2. atomic \in BOOLEAN /\ lost \in BOOLEAN
    OBVIOUS
  <2>3. Check!Barrier!SyncTypeOK
    BY DEF Check!Barrier!SyncTypeOK
  <2>4. /\ done \in [Check!Workers -> 0 .. NbTxPerWrk]
        /\ last \in [Check!Workers -> 0 .. SizeMax - 1]
        /\ value \in [Check!Workers -> 0 .. SizeMax - 1]
    OBVIOUS
  <2>5. pc \in [Check!Workers -> Check!Labels] /\ error \in [Check!Workers -> Check!Errors]
    BY DEF Check!Labels, Check!Syncs, Check!Errors
  <2> QED
    BY <2>1, <2>2, <2>3, <2>4, <2>5 DEF Check!TypeOK
<1>2. MeetingsMatch /\ PartsDone
  BY DEF MeetingsMatch, PartsDone
<1>3. ~Started
  BY DEF Started
<1>4. LossSeen /\ AtomicExact
  BY <1>3 DEF LossSeen, AtomicExact, NoError
<1> QED
  BY <1>1, <1>2, <1>4 DEF CheckInv

\* What the invariant says: when all have come to the end without an error, the counter
\* is 0, as low as the tally of all transactions lets it be, and nothing was lost.
LEMMA CheckSafe ==
    ASSUME CheckInv
    PROVE  Check!NoFalseAlarm /\ Check!LossDetected
<1> USE CheckNumbers DEF CheckInv
<1>1. Check!NoFalseAlarm
  BY DEF Check!NoFalseAlarm, AtomicExact, NoError
<1>2. ASSUME lost, \A u \in Check!Workers : pc[u] = "end", NoError PROVE FALSE
  <2>1. \A u \in Check!Workers : left[u] = 3 /\ called[u] >= 3
    BY <1>2 DEF MeetingsMatch, Check!Syncs
  <2>2. \A u \in Check!Workers : done[u] = NbTxPerWrk
    BY <1>2, <2>1 DEF PartsDone, NoError
  <2>3. Tally = Check!InitCounter
    BY <2>2, Tallies DEF Check!TypeOK
  <2>4. Above /\ counter = 0
    BY <1>2, <2>1 DEF LossSeen, Started
  <2> QED
    BY <1>2, <2>3, <2>4 DEF Above
<1> QED
  BY <1>1, <1>2 DEF Check!LossDetected, NoError

-----------------------------------------------------------------------------
(* The meetings *)

\* The rest of TypeOK, with the definitions of module SyncPoint and the labels open.
LEMMA CheckTypes ==
    ASSUME CheckInv
    PROVE  /\ called \in [Check!Workers -> Nat] /\ left \in [Check!Workers -> Nat]
           /\ pc \in [Check!Workers -> Check!Labels]
           /\ done \in [Check!Workers -> 0 .. NbTxPerWrk]
           /\ last \in [Check!Workers -> 0 .. SizeMax - 1]
           /\ value \in [Check!Workers -> 0 .. SizeMax - 1]
           /\ error \in [Check!Workers -> Check!Errors]
           /\ counter \in 0 .. SizeMax - 1
           /\ Tally \in 0 .. Check!InitCounter
BY Tallies DEF CheckInv, Check!TypeOK, Check!Barrier!SyncTypeOK

\* What Started and the labels have to do with each other.
LEMMA Phases ==
    ASSUME CheckInv
    PROVE  /\ pc[0] \in {"sync1", "init", "verify"} =>
                 /\ ~Started /\ Tally = 0
                 /\ \A u \in Check!Workers : pc[u] \notin {"last", "read", "write"}
           /\ NoError /\ (\E u \in Check!Workers : pc[u] \in {"last", "read", "write"}) => Started
           /\ pc[0] = "end" =>
                 \A u \in Check!Workers : pc[u] \notin {"last", "read", "write"}
<1> USE CheckNumbers, CheckTypes DEF CheckInv
<1>1. ASSUME pc[0] \in {"sync1", "init", "verify"}
      PROVE  /\ ~Started /\ Tally = 0
             /\ \A u \in Check!Workers : pc[u] \notin {"last", "read", "write"}
  <2>1. left[0] <= 1 /\ called[0] <= 1
    BY <1>1 DEF MeetingsMatch, Check!Syncs
  <2>2. \A u \in Check!Workers : left[u] <= 1
    BY <2>1 DEF MeetingsMatch
  <2>3. Tally = 0
    BY <2>2, Tallies DEF PartsDone
  <2> QED
    BY <1>1, <2>1, <2>2, <2>3 DEF Started, MeetingsMatch
<1>2. ASSUME NoError, NEW u \in Check!Workers, pc[u] \in {"last", "read", "write"}
      PROVE  Started
  <2>1. called[0] >= 2
    BY <1>2 DEF MeetingsMatch
  <2>2. CASE left[0] >= 2
    BY <2>2 DEF Started
  <2>3. CASE left[0] < 2
    <3>1. left[0] = 1 /\ pc[0] \in Check!Syncs
      BY <2>1, <2>3 DEF MeetingsMatch
    <3>2. pc[0] \in {"sync2", "bad1"}
      BY <3>1 DEF MeetingsMatch, Check!Syncs
    <3> QED
      BY <1>2, <3>2 DEF PartsDone, NoError, Started
  <2> QED
    BY <2>2, <2>3
<1>3. ASSUME pc[0] = "end", NEW u \in Check!Workers
      PROVE  pc[u] \notin {"last", "read", "write"}
  BY <1>3 DEF MeetingsMatch, Check!Syncs
<1> QED
  BY <1>1, <1>2, <1>3

\* Where a worker goes from a meeting.
LEMMA AfterSyncIs ==
    ASSUME NEW u \in Check!Workers, pc[u] \in Check!Syncs
    PROVE  /\ pc[u] = "sync1" => Check!AfterSync(u) = IF u = 0 THEN "init" ELSE "sync2"
           /\ pc[u] = "sync2" => Check!AfterSync(u) = "last"
           /\ pc[u] = "sync3" => Check!AfterSync(u) = IF u = 0 THEN "final" ELSE "end"
           /\ pc[u] = "bad1" => Check!AfterSync(u) = "bad2"
           /\ pc[u] = "bad2" => Check!AfterSync(u) = "end"
BY DEF Check!AfterSync, Check!Syncs

\* The meetings of the check keep the invariant.
LEMMA CheckSync ==
    ASSUME CheckInv, NEW u \in Check!Workers, Check!SyncCall(u) \/ Check!SyncReturn(u)
    PROVE  CheckInv'
<1> USE CheckNumbers, CheckTypes DEF CheckInv
<1>1. UNCHANGED <<atomic, counter, done, last, value, error, lost>> /\ Tally' = Tally
  BY DEF Check!SyncCall, Check!SyncReturn, Check!txVars, Tally, DoneSlots
<1>2. CASE Check!SyncCall(u)
  <2> USE <1>1, <1>2 DEF Check!SyncCall, Check!Barrier!Call
  <2>1. Check!TypeOK' /\ Started' = Started
    BY DEF Check!TypeOK, Check!Barrier!SyncTypeOK, Started
  <2>2. MeetingsMatch'
    BY DEF MeetingsMatch
  <2>3. PartsDone'
    BY DEF PartsDone, MeetingsMatch, Check!Syncs
  <2>4. LossSeen' /\ AtomicExact'
    BY <2>1 DEF LossSeen, AtomicExact, NoError, Above
  <2> QED
    BY <2>1, <2>2, <2>3, <2>4
<1>3. CASE Check!SyncReturn(u)
  <2> USE <1>1, <1>3 DEF Check!SyncReturn, Check!Barrier!Return
  <2>1. pc[u] \in Check!Syncs /\ called[u] = left[u] + 1
    BY DEF MeetingsMatch
  <2>2. Check!AfterSync(u) \in Check!Labels
    BY <2>1, AfterSyncIs DEF Check!Labels, Check!Syncs
  <2>3. Check!TypeOK'
    BY <2>2 DEF Check!TypeOK, Check!Barrier!SyncTypeOK
  <2>4. pc'[u] = Check!AfterSync(u) /\ left'[u] = left[u] + 1
    OBVIOUS
  <2>5. /\ pc'[u] \in {"init", "sync2"} => left'[u] = 1
        /\ pc'[u] \in {"last", "bad2"} => left'[u] = 2
        /\ pc'[u] \in {"final", "end"} => left'[u] = 3
        /\ pc'[u] \in {"init", "final"} => u = 0
        /\ pc'[u] \in {"init", "sync2", "last", "bad2", "final", "end"}
        /\ pc'[u] = "bad2" => error[u] # "none"
        /\ pc'[u] = "last" => done[u] = 0
    BY <2>1, <2>4, AfterSyncIs DEF MeetingsMatch, PartsDone, Check!Syncs
  <2>6. MeetingsMatch'
    BY <2>1, <2>5 DEF MeetingsMatch
  <2>7. PartsDone'
    BY <2>1, <2>5 DEF PartsDone
  <2>8. NoError' = NoError /\ Above => Above'
    BY <2>5 DEF NoError, Above
  <2>9. LossSeen' /\ AtomicExact'
    <3>1. CASE u # 0
      <4>1. Started' = Started /\ pc'[0] = pc[0]
        BY <3>1 DEF Started
      <4> QED
        BY <2>5, <2>8, <4>1 DEF LossSeen, AtomicExact, NoError
    <3>2. CASE u = 0
      <4>1. NoError => pc[0] \in {"sync1", "sync2", "sync3"}
        BY <2>1, <3>2 DEF PartsDone, NoError, Check!Syncs
      <4>2. pc[0] = "sync1" => pc'[0] = "init" /\ ~Started'
        BY <2>4, <2>5, <3>2, AfterSyncIs, <2>1 DEF Started
      <4>3. pc[0] \in {"sync2", "sync3"} => Started /\ pc'[0] \in {"last", "final"}
        BY <2>1, <3>2, AfterSyncIs DEF Started, MeetingsMatch
      <4> QED
        BY <2>5, <2>8, <4>1, <4>2, <4>3 DEF LossSeen, AtomicExact, NoError
    <3> QED
      BY <3>1, <3>2
  <2> QED
    BY <2>3, <2>6, <2>7, <2>9
<1> QED
  BY <1>2, <1>3

-----------------------------------------------------------------------------
(* The transactions *)

\* The steps between two meetings.
Transact(u) ==
    \/ Check!InitCommit(u) \/ Check!Verify(u) \/ Check!ReadLast(u) \/ Check!ReadValue(u)
    \/ Check!Decrement(u) \/ Check!Retry(u) \/ Check!Final(u) \/ Check!Throw(u)

\* They lead to the next meeting of their worker, or to another step before it.
LEMMA TransactMeetings ==
    ASSUME CheckInv, NEW u \in Check!Workers, Transact(u)
    PROVE  /\ MeetingsMatch'
           /\ UNCHANGED <<called, left, atomic>>
           /\ Started' = Started \/ (u = 0 /\ pc[0] = "verify" /\ pc'[0] = "sync2")
           /\ \A v \in Check!Workers \ {u} : pc'[v] = pc[v] /\ error'[v] = error[v]
           /\ error[u] # "none" => error'[u] # "none"
           /\ pc' \in [Check!Workers -> Check!Labels]
           /\ error' \in [Check!Workers -> Check!Errors]
<1> USE CheckNumbers, CheckTypes
    DEF CheckInv, Transact, Check!Goto, Check!Judge, Check!syncVars, Check!txVars,
        Check!InitCommit, Check!Verify, Check!ReadLast, Check!ReadValue, Check!Decrement,
        Check!Retry, Check!Final, Check!Throw
<1>1. UNCHANGED <<called, left, atomic>>
  OBVIOUS
<1>2. \E l \in Check!Labels :
         /\ pc' = [pc EXCEPT ![u] = l]
         /\ \/ pc[u] \in {"init", "verify"} /\ l \in {"verify", "sync2", "bad1", "thrown"}
            \/ pc[u] \in {"last", "read", "write"}
                  /\ l \in {"last", "read", "write", "sync3", "bad2", "thrown"}
            \/ pc[u] = "final" /\ l \in {"end", "thrown"}
         /\ pc[u] = "init" => l \in {"verify", "thrown"}
  BY DEF Check!Labels, Check!Syncs
<1>3. PICK l \in Check!Labels :
         /\ pc' = [pc EXCEPT ![u] = l]
         /\ \/ pc[u] \in {"init", "verify"} /\ l \in {"verify", "sync2", "bad1", "thrown"}
            \/ pc[u] \in {"last", "read", "write"}
                  /\ l \in {"last", "read", "write", "sync3", "bad2", "thrown"}
            \/ pc[u] = "final" /\ l \in {"end", "thrown"}
         /\ pc[u] = "init" => l \in {"verify", "thrown"}
  BY <1>2
<1>4. called[u] = left[u]
  BY <1>3 DEF MeetingsMatch, Check!Syncs
<1>5. MeetingsMatch'
  BY <1>1, <1>3, <1>4 DEF MeetingsMatch, Check!Syncs
<1>6. Started' = Started \/ (u = 0 /\ pc[0] = "verify" /\ pc'[0] = "sync2")
  BY <1>1, <1>3 DEF Started
<1>7. /\ error' \in [Check!Workers -> Check!Errors]
      /\ \A v \in Check!Workers \ {u} : error'[v] = error[v]
      /\ error[u] # "none" => error'[u] # "none"
  <2>1. UNCHANGED error \/ \E kind \in Check!Errors \ {"none"} : error' = [error EXCEPT ![u] = kind]
    BY DEF Check!Errors
  <2> QED
    BY <2>1
<1> QED
  BY <1>1, <1>3, <1>5, <1>6, <1>7

\* The initializer: nobody else is at work yet.
LEMMA CheckInitializes ==
    ASSUME CheckInv, NEW u \in Check!Workers, Check!InitCommit(u) \/ Check!Verify(u)
    PROVE  CheckInv'
<1> USE CheckNumbers, CheckTypes DEF CheckInv
<1>1. Transact(u)
  BY DEF Transact
<1>2. /\ MeetingsMatch' /\ UNCHANGED <<called, left, atomic, done, last, value>>
      /\ pc' \in [Check!Workers -> Check!Labels] /\ error' \in [Check!Workers -> Check!Errors]
  BY <1>1, TransactMeetings DEF Check!InitCommit, Check!Verify
<1>3. u = 0 /\ pc[0] \in {"init", "verify"}
  BY DEF MeetingsMatch, Check!InitCommit, Check!Verify, Check!Goto
<1>4. /\ ~Started /\ Tally = 0 /\ Tally' = 0 /\ done[0] = 0
      /\ \A v \in Check!Workers : pc[v] \notin {"last", "read", "write"}
  BY <1>2, <1>3, Phases DEF Tally, DoneSlots, MeetingsMatch, PartsDone
<1>5. CASE Check!InitCommit(u)
  <2> USE <1>2, <1>3, <1>4, <1>5 DEF Check!InitCommit, Check!Commit, Check!Goto
  <2>1. counter' \in {Check!InitCounter, counter} /\ (atomic => counter' = Check!InitCounter)
    OBVIOUS
  <2>2. lost' = (lost \/ counter' # Check!InitCounter)
    OBVIOUS
  <2>3. pc' = [pc EXCEPT ![0] = "verify"] /\ UNCHANGED error
    OBVIOUS
  <2>4. ~Started'
    BY <2>3 DEF Started
  <2>5. Check!TypeOK'
    BY <2>1, <2>2, <2>3 DEF Check!TypeOK, Check!Barrier!SyncTypeOK
  <2>6. PartsDone'
    BY <2>3 DEF PartsDone
  <2>7. LossSeen'
    BY <2>2, <2>3, <2>4 DEF LossSeen, NoError
  <2>8. atomic => ~lost'
    BY <2>1, <2>2 DEF AtomicExact
  <2>9. \A v \in Check!Workers : pc'[v] \notin {"read", "write"}
    BY <2>3
  <2>10. AtomicExact'
    BY <2>1, <2>3, <2>4, <2>8, <2>9 DEF AtomicExact, NoError
  <2> QED
    BY <2>5, <2>6, <2>7, <2>10
<1>6. CASE Check!Verify(u)
  <2> USE <1>2, <1>3, <1>4, <1>6 DEF Check!Verify, Check!Judge
  <2>1. UNCHANGED <<counter, lost>>
    OBVIOUS
  <2>2. CASE counter = Check!InitCounter
    <3>1. pc' = [pc EXCEPT ![0] = "sync2"] /\ UNCHANGED error
      BY <2>2
    <3>2. Check!TypeOK'
      BY <2>1, <3>1 DEF Check!TypeOK, Check!Barrier!SyncTypeOK
    <3>3. PartsDone'
      BY <3>1 DEF PartsDone
    <3>4. NoError => ~lost
      BY <2>2 DEF LossSeen
    <3>5. LossSeen'
      BY <2>1, <2>2, <3>1, <3>4 DEF LossSeen, NoError, Above
    <3>6. AtomicExact'
      BY <2>1, <2>2, <3>1 DEF AtomicExact, NoError
    <3> QED
      BY <3>2, <3>3, <3>5, <3>6
  <2>3. CASE counter # Check!InitCounter
    <3>1. /\ pc' = [pc EXCEPT ![0] = "bad1"]
          /\ error' = [error EXCEPT ![0] = "initialization"]
      BY <2>3
    <3>2. Check!TypeOK'
      BY <2>1, <3>1 DEF Check!TypeOK, Check!Barrier!SyncTypeOK
    <3>3. PartsDone'
      BY <3>1 DEF PartsDone
    <3>4. ~atomic
      BY <2>3 DEF AtomicExact
    <3>5. LossSeen' /\ AtomicExact'
      BY <3>1, <3>4 DEF LossSeen, NoError, AtomicExact
    <3> QED
      BY <3>2, <3>3, <3>5
  <2> QED
    BY <2>2, <2>3
<1> QED
  BY <1>5, <1>6

\* What a worker reads is what the counter is.
LEMMA CheckReads ==
    ASSUME CheckInv, NEW u \in Check!Workers,
           Check!ReadLast(u) \/ Check!ReadValue(u) \/ Check!Retry(u)
    PROVE  CheckInv'
<1> USE CheckNumbers, CheckTypes DEF CheckInv
<1>1. Transact(u)
  BY DEF Transact
<1>2. /\ MeetingsMatch' /\ UNCHANGED <<called, left, atomic, done, counter, lost>>
      /\ Tally' = Tally
      /\ pc' \in [Check!Workers -> Check!Labels] /\ error' \in [Check!Workers -> Check!Errors]
  BY <1>1, TransactMeetings
     DEF Check!ReadLast, Check!ReadValue, Check!Retry, Check!txVars, Tally, DoneSlots
<1>3. pc[u] \in {"last", "read", "write"}
  BY DEF Check!ReadLast, Check!ReadValue, Check!Retry, Check!Goto
<1>4. pc[0] \notin {"sync1", "init", "verify", "end"} /\ (NoError => Started)
  BY <1>3, Phases
<1>5. done[u] < NbTxPerWrk /\ left[u] = 2 /\ called[u] = 2
  BY <1>3 DEF PartsDone, MeetingsMatch, Check!Syncs
<1>6. CASE Check!ReadLast(u) \/ Check!Retry(u)
  <2> USE <1>2, <1>3, <1>4, <1>5
  <2>1. \E l \in {"read"} : pc' = [pc EXCEPT ![u] = l]
    BY <1>6 DEF Check!ReadLast, Check!Retry, Check!Goto
  <2>2. /\ UNCHANGED <<value, error>>
        /\ \/ last' = [last EXCEPT ![u] = counter]
           \/ pc[u] = "write" /\ UNCHANGED last
    BY <1>6 DEF Check!ReadLast, Check!Retry, Check!Goto, Check!txVars
  <2>3. Check!TypeOK'
    BY <2>1, <2>2 DEF Check!TypeOK, Check!Barrier!SyncTypeOK
  <2>4. PartsDone'
    BY <2>1, <2>2 DEF PartsDone
  <2>5. Started' = Started /\ pc'[0] \notin {"sync1", "init", "verify", "end"}
    BY <2>1 DEF Started
  <2>6. LossSeen'
    BY <2>1, <2>2, <2>5 DEF LossSeen, NoError, Above
  <2>7. AtomicExact'
    BY <2>1, <2>2, <2>5 DEF AtomicExact, NoError
  <2> QED
    BY <2>3, <2>4, <2>6, <2>7
<1>7. CASE Check!ReadValue(u)
  <2> USE <1>2, <1>3, <1>4, <1>5, <1>7 DEF Check!ReadValue, Check!Judge
  <2>1. value' = [value EXCEPT ![u] = counter] /\ UNCHANGED last
    OBVIOUS
  <2>2. CASE counter <= last[u]
    <3>1. pc' = [pc EXCEPT ![u] = "write"] /\ UNCHANGED error
      BY <2>2
    <3>2. Check!TypeOK'
      BY <2>1, <3>1 DEF Check!TypeOK, Check!Barrier!SyncTypeOK
    <3>3. PartsDone'
      BY <3>1 DEF PartsDone
    <3>4. Started' = Started /\ pc'[0] \notin {"sync1", "init", "verify", "end"}
      BY <3>1 DEF Started
    <3>5. LossSeen'
      BY <2>1, <3>1, <3>4 DEF LossSeen, NoError, Above
    <3>6. AtomicExact'
      BY <2>1, <2>2, <3>1, <3>4 DEF AtomicExact, NoError
    <3> QED
      BY <3>2, <3>3, <3>5, <3>6
  <2>3. CASE ~(counter <= last[u])
    <3>1. /\ pc' = [pc EXCEPT ![u] = "bad2"]
          /\ error' = [error EXCEPT ![u] = "isolation"]
      BY <2>3
    <3>2. Check!TypeOK'
      BY <2>1, <3>1 DEF Check!TypeOK, Check!Barrier!SyncTypeOK
    <3>3. PartsDone'
      BY <3>1 DEF PartsDone
    <3>4. ~atomic
      BY <2>3 DEF AtomicExact
    <3>5. LossSeen' /\ AtomicExact'
      BY <3>1, <3>4 DEF LossSeen, NoError, AtomicExact
    <3> QED
      BY <3>2, <3>3, <3>5
  <2> QED
    BY <2>2, <2>3
<1> QED
  BY <1>6, <1>7

\* A transaction ends: the tally goes up by one, the counter down by one at the most.
LEMMA CheckDecrements ==
    ASSUME CheckInv, NEW u \in Check!Workers, Check!Decrement(u)
    PROVE  CheckInv'
<1> USE CheckNumbers, CheckTypes DEF CheckInv
<1>1. Transact(u)
  BY DEF Transact
<1>2. /\ MeetingsMatch' /\ UNCHANGED <<called, left, atomic, last, value, error>>
      /\ pc' \in [Check!Workers -> Check!Labels] /\ pc[u] = "write"
      /\ done' = [done EXCEPT ![u] = @ + 1]
  BY <1>1, TransactMeetings DEF Check!Decrement
<1>3. pc[0] \notin {"sync1", "init", "verify", "end"} /\ (NoError => Started)
  BY <1>2, Phases
<1>4. done[u] < NbTxPerWrk /\ left[u] = 2 /\ called[u] = 2
  BY <1>2 DEF PartsDone, MeetingsMatch, Check!Syncs
<1>5. Tally < Check!InitCounter /\ Tally' = Tally + 1
  BY <1>2, <1>4, Tallies, TallyGoesUp
<1>6. /\ done' \in [Check!Workers -> 0 .. NbTxPerWrk]
      /\ done'[u] = done[u] + 1
      /\ \A v \in Check!Workers \ {u} : done'[v] = done[v]
  BY <1>2, <1>4
<1>7. pc' = [pc EXCEPT ![u] = IF done'[u] = NbTxPerWrk THEN "sync3" ELSE "last"]
  BY DEF Check!Decrement
<1>8. /\ pc'[u] \in {"sync3", "last"}
      /\ pc'[u] = "sync3" => done'[u] = NbTxPerWrk
      /\ pc'[u] = "last" => done'[u] # NbTxPerWrk
      /\ \A v \in Check!Workers \ {u} : pc'[v] = pc[v]
  BY <1>2, <1>7
<1>9. PartsDone'
  BY <1>2, <1>4, <1>6, <1>8 DEF PartsDone
<1>10. Started' = Started /\ pc'[0] \notin {"sync1", "init", "verify", "end"}
  BY <1>2, <1>3, <1>8 DEF Started
<1> DEFINE v == (value[u] - 1) % SizeMax
<1>11. v \in 0 .. SizeMax - 1 /\ (value[u] >= 1 => v = value[u] - 1)
  BY <1>2
<1>12. /\ counter' \in {v, counter} /\ (atomic => counter' = v /\ counter = value[u])
       /\ lost' = (lost \/ counter # value[u] \/ counter' # v)
  BY DEF Check!Decrement, Check!Commit
<1> HIDE DEF v
<1>13. Check!TypeOK'
  BY <1>2, <1>6, <1>11, <1>12 DEF Check!TypeOK, Check!Barrier!SyncTypeOK
<1>14. ASSUME NoError PROVE Above'
  <2>1. Above /\ value[u] + Tally >= Check!InitCounter
    BY <1>2, <1>3, <1>14 DEF LossSeen, Above
  <2>2. v = value[u] - 1
    BY <1>5, <1>11, <2>1
  <2>3. counter' + Tally' >= Check!InitCounter
    BY <1>5, <1>12, <2>1, <2>2 DEF Above
  <2>4. ASSUME lost' PROVE counter' + Tally' > Check!InitCounter
    <3>1. CASE lost \/ counter # value[u]
      <4>1. value[u] + Tally > Check!InitCounter
        BY <1>2, <2>1, <3>1 DEF Above
      <4> QED
        BY <1>5, <1>12, <2>1, <2>2, <4>1 DEF Above
    <3>2. CASE counter' # v
      BY <1>5, <1>12, <2>1, <3>2 DEF Above
    <3> QED
      BY <1>12, <2>4, <3>1, <3>2
  <2>5. \A w \in Check!Workers : pc'[w] = "write" => value'[w] + Tally' > Check!InitCounter
    BY <1>2, <1>5, <1>8, <2>1 DEF Above
  <2>6. \A w \in Check!Workers : value'[w] + Tally' \in Nat
    BY <1>2, <1>5
  <2> QED
    BY <2>3, <2>4, <2>5, <2>6 DEF Above
<1>15. LossSeen'
  BY <1>2, <1>10, <1>14 DEF LossSeen, NoError
<1>16. AtomicExact'
  <2> SUFFICES ASSUME atomic PROVE AtomicExact'
    BY <1>2 DEF AtomicExact
  <2>1. NoError /\ ~lost /\ Started /\ counter + Tally = Check!InitCounter
    BY <1>3 DEF AtomicExact
  <2>2. counter = value[u] /\ counter >= 1 /\ counter' = counter - 1
    BY <1>5, <1>11, <1>12, <2>1
  <2>3. ~lost'
    BY <1>11, <1>12, <2>1, <2>2
  <2>4. \A w \in Check!Workers : pc'[w] \in {"read", "write"} => counter' <= last'[w]
    BY <1>2, <1>8, <2>2 DEF AtomicExact
  <2> QED
    BY <1>2, <1>5, <2>1, <2>2, <2>3, <2>4 DEF AtomicExact, NoError
<1> QED
  BY <1>2, <1>9, <1>13, <1>15, <1>16

\* The last word: all have met three times, and so have done their parts.
LEMMA CheckFinal ==
    ASSUME CheckInv, NEW u \in Check!Workers, Check!Final(u) \/ Check!Throw(u)
    PROVE  CheckInv'
<1> USE CheckNumbers, CheckTypes DEF CheckInv
<1>1. Transact(u)
  BY DEF Transact
<1>2. /\ MeetingsMatch'
      /\ UNCHANGED <<called, left, atomic, done, last, value, counter, lost>> /\ Tally' = Tally
      /\ pc' \in [Check!Workers -> Check!Labels] /\ error' \in [Check!Workers -> Check!Errors]
  BY <1>1, TransactMeetings
     DEF Check!Final, Check!Throw, Check!syncVars, Check!txVars, Tally, DoneSlots
<1>3. CASE Check!Final(u)
  <2> USE <1>2, <1>3 DEF Check!Final, Check!Judge
  <2>1. u = 0 /\ Started /\ Started'
    BY DEF MeetingsMatch, Started
  <2>2. pc' = [pc EXCEPT ![0] = "end"]
    BY <2>1
  <2>3. PartsDone'
    <3>1. \A w \in Check!Workers : error'[w] = "none" => error[w] = "none"
      BY <1>1, TransactMeetings
    <3>2. \A w \in Check!Workers : error[w] # "none" => error'[w] # "none"
      BY <1>1, TransactMeetings
    <3> QED
      BY <2>2, <3>1, <3>2 DEF PartsDone
  <2>4. CASE counter = 0
    <3>1. UNCHANGED error
      BY <2>4
    <3>2. Check!TypeOK'
      BY <3>1 DEF Check!TypeOK, Check!Barrier!SyncTypeOK
    <3>3. LossSeen'
      BY <2>1, <2>2, <2>4, <3>1 DEF LossSeen, NoError, Above
    <3>4. AtomicExact'
      BY <2>1, <2>2, <3>1 DEF AtomicExact, NoError
    <3> QED
      BY <2>3, <3>2, <3>3, <3>4
  <2>5. CASE counter # 0
    <3>1. error' = [error EXCEPT ![0] = "consistency"]
      BY <2>1, <2>5
    <3>2. Check!TypeOK'
      BY DEF Check!TypeOK, Check!Barrier!SyncTypeOK
    <3>3. ~atomic
      <4> SUFFICES ASSUME atomic PROVE FALSE
        OBVIOUS
      <4>1. \A w \in Check!Workers : called[w] >= 3 /\ error[w] = "none"
        BY <2>1 DEF MeetingsMatch, AtomicExact, NoError
      <4>2. Tally = Check!InitCounter
        BY <4>1, Tallies DEF PartsDone
      <4> QED
        BY <2>1, <2>5, <4>2 DEF AtomicExact
    <3>4. LossSeen' /\ AtomicExact'
      BY <3>1, <3>3 DEF LossSeen, NoError, AtomicExact
    <3> QED
      BY <2>3, <3>2, <3>4
  <2> QED
    BY <2>4, <2>5
<1>4. CASE Check!Throw(u)
  <2> USE <1>2, <1>4 DEF Check!Throw
  <2>1. pc' = [pc EXCEPT ![u] = "thrown"] /\ UNCHANGED error
    BY DEF Check!txVars
  <2>2. Check!TypeOK'
    BY <2>1 DEF Check!TypeOK, Check!Barrier!SyncTypeOK
  <2>3. PartsDone'
    BY <2>1 DEF PartsDone
  <2>4. (Started' => Started) /\ (pc'[0] # "thrown" => pc'[0] = pc[0])
    BY <2>1 DEF Started
  <2>5. LossSeen' /\ AtomicExact'
    BY <2>1, <2>4 DEF LossSeen, AtomicExact, NoError, Above
  <2> QED
    BY <2>2, <2>3, <2>5
<1> QED
  BY <1>3, <1>4

\* Every step of the check keeps its invariant.
LEMMA CheckStep ==
    ASSUME CheckInv, [Check!Next]_Check!vars
    PROVE  CheckInv'
<1>1. CASE UNCHANGED Check!vars
  BY <1>1 DEF CheckInv, Check!vars, Check!syncVars, Check!txVars, Check!TypeOK,
              Check!Barrier!SyncTypeOK, MeetingsMatch, PartsDone, LossSeen, AtomicExact, NoError,
              Started, Above, Tally, DoneSlots
<1>2. ASSUME NEW u \in Check!Workers, Check!Step(u) PROVE CheckInv'
  BY <1>2, CheckSync, CheckInitializes, CheckReads, CheckDecrements, CheckFinal DEF Check!Step
<1> QED
  BY <1>1, <1>2 DEF Check!Next, Check!Spin

-----------------------------------------------------------------------------
(* Running sums, for the bank *)

\* A set of numbers that is not empty has a least element.
LEMMA Least ==
    ASSUME NEW S \in SUBSET Nat, S # {}
    PROVE  \E m \in S : \A n \in S : m <= n
<1> DEFINE R == OpToRel(<, Nat)
<1>1. \E m \in S : \A n \in S : <<n, m>> \notin R
  BY NatLessThanWellFounded, WFMin
<1>2. \A m, n \in Nat : <<n, m>> \in R <=> n < m
  BY DEF OpToRel
<1> HIDE DEF R
<1>3. PICK m \in S : \A n \in S : <<n, m>> \notin R
  BY <1>1
<1>4. ASSUME NEW n \in S PROVE m <= n
  <2>1. n \in Nat /\ m \in Nat
    OBVIOUS
  <2>2. ~(n < m)
    BY <1>2, <1>3, <1>4, <2>1
  <2> QED
    BY <2>1, <2>2
<1> QED
  BY <1>3, <1>4

\* What holds of 0, and of a number up to k when it holds of the one before, holds of all.
LEMMA Induction ==
    ASSUME NEW k \in Nat, NEW S \in SUBSET (0 .. k), 0 \in S,
           \A n \in 1 .. k : n - 1 \in S => n \in S
    PROVE  S = 0 .. k
<1> SUFFICES ASSUME S # 0 .. k PROVE FALSE
  OBVIOUS
<1>1. (0 .. k) \ S \in SUBSET Nat /\ (0 .. k) \ S # {}
  <2>1. \E n \in 0 .. k : n \notin S
    OBVIOUS
  <2> QED
    BY <2>1
<1>2. PICK m \in (0 .. k) \ S : \A n \in (0 .. k) \ S : m <= n
  BY <1>1, Least
<1> QED
  BY <1>2

\* f adds up the first k elements of s, one after the other.
Adds(s, f, k) ==
    f \in [0 .. k -> Int] /\ f[0] = 0 /\ \A n \in 1 .. k : f[n] = f[n - 1] + s[n]

\* The running sums of a sequence exist: those of a longest prefix that has some go further.
LEMMA SumsExist ==
    ASSUME NEW s \in Seq(Int)
    PROVE  \E f \in [0 .. Len(s) -> Int] : Adds(s, f, Len(s))
<1> DEFINE S == {k \in 0 .. Len(s) : \E f \in [0 .. k -> Int] : Adds(s, f, k)}
<1>1. 0 \in S
  <2>1. [n \in 0 .. 0 |-> 0] \in [0 .. 0 -> Int]
    OBVIOUS
  <2>2. Adds(s, [n \in 0 .. 0 |-> 0], 0)
    BY <2>1 DEF Adds
  <2> QED
    BY <2>1, <2>2
<1>2. ASSUME NEW n \in 1 .. Len(s), n - 1 \in S PROVE n \in S
  <2>1. PICK f \in [0 .. n - 1 -> Int] : Adds(s, f, n - 1)
    BY <1>2
  <2> DEFINE g == [i \in 0 .. n |-> IF i = n THEN f[n - 1] + s[n] ELSE f[i]]
  <2>2. g \in [0 .. n -> Int]
    BY <2>1 DEF Adds
  <2>3. \A i \in 1 .. n : g[i] = g[i - 1] + s[i]
    BY <2>1 DEF Adds
  <2>4. g[0] = 0
    BY <2>1 DEF Adds
  <2> HIDE DEF g
  <2>5. Adds(s, g, n)
    BY <2>2, <2>3, <2>4 DEF Adds
  <2> QED
    BY <2>2, <2>5
<1>3. S = 0 .. Len(s)
  <2>1. S \in SUBSET (0 .. Len(s)) /\ Len(s) \in Nat
    OBVIOUS
  <2> HIDE DEF S
  <2> QED
    BY <1>1, <1>2, <2>1, Induction
<1> QED
  BY <1>3 DEF S

\* What the recursive function of the model is.
LEMMA SumsDef ==
    ASSUME NEW s \in Seq(Int)
    PROVE  Adds(s, Bank!Sums(s), Len(s))
<1> DEFINE F(f) == [n \in 0 .. Len(s) |-> IF n = 0 THEN 0 ELSE f[n - 1] + s[n]]
<1> DEFINE P(f) == f = F(f)
<1>1. PICK f \in [0 .. Len(s) -> Int] : Adds(s, f, Len(s))
  BY SumsExist
<1>2. f = F(f)
  BY <1>1 DEF Adds
<1>3. Bank!Sums(s) = CHOOSE g : g = F(g)
  BY DEF Bank!Sums
<1> HIDE DEF F
<1>4. Bank!Sums(s) = F(Bank!Sums(s))
  BY <1>2, <1>3, Zenon
<1> DEFINE g == Bank!Sums(s)
<1> HIDE DEF g
<1>5. g = [n \in 0 .. Len(s) |-> IF n = 0 THEN 0 ELSE g[n - 1] + s[n]]
  BY <1>4 DEF F, g
<1>a. Len(s) \in Nat
  OBVIOUS
<1>6. DOMAIN g = 0 .. Len(s) /\ g[0] = 0 /\ \A n \in 1 .. Len(s) : g[n] = g[n - 1] + s[n]
  <2>1. DOMAIN g = 0 .. Len(s)
    BY <1>5
  <2>2. \A n \in 0 .. Len(s) : g[n] = IF n = 0 THEN 0 ELSE g[n - 1] + s[n]
    BY <1>5
  <2>3. 0 \in 0 .. Len(s) /\ \A n \in 1 .. Len(s) : n \in 0 .. Len(s) /\ n # 0
    BY <1>a
  <2> HIDE DEF g
  <2> QED
    BY <2>1, <2>2, <2>3
<1> DEFINE S == {n \in 0 .. Len(s) : g[n] \in Int}
<1>7. S = 0 .. Len(s)
  <2>1. 0 \in S
    BY <1>a, <1>6
  <2>2. ASSUME NEW n \in 1 .. Len(s), n - 1 \in S PROVE n \in S
    <3>1. g[n] = g[n - 1] + s[n] /\ g[n - 1] \in Int /\ s[n] \in Int
      BY <1>6, <2>2
    <3> QED
      BY <3>1
  <2>3. S \in SUBSET (0 .. Len(s)) /\ Len(s) \in Nat
    OBVIOUS
  <2> HIDE DEF S
  <2> QED
    BY <2>1, <2>2, <2>3, Induction
<1>8. g \in [0 .. Len(s) -> Int]
  BY <1>5, <1>7
<1> QED
  BY <1>6, <1>8 DEF g, Adds

\* The running sums of two sequences are the same as long as their elements are.
LEMMA SumsAgree ==
    ASSUME NEW s \in Seq(Int), NEW u \in Seq(Int), NEW k \in 0 .. Len(s), k <= Len(u),
           \A n \in 1 .. k : s[n] = u[n]
    PROVE  \A n \in 0 .. k : Bank!Sums(s)[n] = Bank!Sums(u)[n]
<1> DEFINE S == {n \in 0 .. k : Bank!Sums(s)[n] = Bank!Sums(u)[n]}
<1>1. Adds(s, Bank!Sums(s), Len(s)) /\ Adds(u, Bank!Sums(u), Len(u))
  BY SumsDef
<1>2. 0 \in S
  BY <1>1 DEF Adds
<1>3. \A n \in 1 .. k : n - 1 \in S => n \in S
  BY <1>1 DEF Adds
<1>4. S \in SUBSET (0 .. k) /\ k \in Nat
  OBVIOUS
<1> HIDE DEF S
<1>5. S = 0 .. k
  BY <1>2, <1>3, <1>4, Induction
<1> QED
  BY <1>5 DEF S

\* A sum is a number.
LEMMA SumType ==
    ASSUME NEW s \in Seq(Int)
    PROVE  Bank!Sum(s) \in Int
BY SumsDef DEF Adds, Bank!Sum

\* An element more.
LEMMA SumOneMore ==
    ASSUME NEW s \in Seq(Int), NEW u \in Seq(Int), Len(u) = Len(s) + 1,
           \A n \in 1 .. Len(s) : u[n] = s[n]
    PROVE  Bank!Sum(u) = Bank!Sum(s) + u[Len(u)]
<1>1. Bank!Sums(u)[Len(u) - 1] = Bank!Sums(s)[Len(s)]
  <2>1. /\ Len(s) \in 0 .. Len(s) /\ Len(s) <= Len(u) /\ Len(u) - 1 = Len(s)
        /\ \A n \in 1 .. Len(s) : s[n] = u[n]
    OBVIOUS
  <2>2. \A n \in 0 .. Len(s) : Bank!Sums(s)[n] = Bank!Sums(u)[n]
    BY <2>1, SumsAgree
  <2> QED
    BY <2>1, <2>2
<1>2. Bank!Sums(u)[Len(u)] = Bank!Sums(u)[Len(u) - 1] + u[Len(u)]
  <2>1. Adds(u, Bank!Sums(u), Len(u))
    BY SumsDef
  <2>2. Len(u) \in 1 .. Len(u)
    OBVIOUS
  <2> QED
    BY <2>1, <2>2 DEF Adds
<1> QED
  BY <1>1, <1>2 DEF Bank!Sum

\* Another element.
LEMMA SumChange ==
    ASSUME NEW s \in Seq(Int), NEW u \in Seq(Int), Len(u) = Len(s), NEW k \in 1 .. Len(s),
           \A n \in 1 .. Len(s) : n # k => u[n] = s[n]
    PROVE  Bank!Sum(u) = Bank!Sum(s) - s[k] + u[k]
<1> DEFINE S == {n \in 0 .. Len(s) - k :
                    Bank!Sums(u)[n + k] = Bank!Sums(s)[n + k] - s[k] + u[k]}
<1>1. Adds(s, Bank!Sums(s), Len(s)) /\ Adds(u, Bank!Sums(u), Len(u))
  BY SumsDef
<1>2. 0 \in S
  <2>1. Bank!Sums(u)[k - 1] = Bank!Sums(s)[k - 1]
    <3>1. /\ k - 1 \in 0 .. Len(s) /\ k - 1 <= Len(u)
          /\ \A n \in 1 .. k - 1 : s[n] = u[n]
      OBVIOUS
    <3>2. \A n \in 0 .. k - 1 : Bank!Sums(s)[n] = Bank!Sums(u)[n]
      BY <3>1, SumsAgree
    <3> QED
      BY <3>1, <3>2
  <2>2. /\ Bank!Sums(s)[k] = Bank!Sums(s)[k - 1] + s[k]
        /\ Bank!Sums(u)[k] = Bank!Sums(u)[k - 1] + u[k]
        /\ Bank!Sums(s)[k - 1] \in Int /\ s[k] \in Int /\ u[k] \in Int
    <3>1. k \in 1 .. Len(u) /\ k - 1 \in 0 .. Len(s) /\ s[k] \in Int /\ u[k] \in Int
      OBVIOUS
    <3>2. Bank!Sums(s)[k] = Bank!Sums(s)[k - 1] + s[k] /\ Bank!Sums(s)[k - 1] \in Int
      BY <1>1, <3>1 DEF Adds
    <3>3. Bank!Sums(u)[k] = Bank!Sums(u)[k - 1] + u[k]
      BY <1>1, <3>1 DEF Adds
    <3> QED
      BY <3>1, <3>2, <3>3
  <2>3. 0 \in 0 .. Len(s) - k /\ 0 + k = k
    OBVIOUS
  <2> QED
    BY <2>1, <2>2, <2>3
<1>3. \A n \in 1 .. Len(s) - k : n - 1 \in S => n \in S
  <2> SUFFICES ASSUME NEW n \in 1 .. Len(s) - k, n - 1 \in S PROVE n \in S
    OBVIOUS
  <2>1. /\ n + k \in 1 .. Len(s) /\ (n + k) - 1 = (n - 1) + k /\ u[n + k] = s[n + k]
        /\ s[n + k] \in Int /\ s[k] \in Int /\ u[k] \in Int
    OBVIOUS
  <2>2. /\ Bank!Sums(s)[n + k] = Bank!Sums(s)[(n + k) - 1] + s[n + k]
        /\ Bank!Sums(u)[n + k] = Bank!Sums(u)[(n + k) - 1] + u[n + k]
        /\ Bank!Sums(s)[(n - 1) + k] \in Int
    <3>1. (n - 1) + k \in 0 .. Len(s)
      OBVIOUS
    <3> QED
      BY <1>1, <2>1, <3>1 DEF Adds
  <2>3. Bank!Sums(u)[(n - 1) + k] = Bank!Sums(s)[(n - 1) + k] - s[k] + u[k]
    OBVIOUS
  <2>4. Bank!Sums(u)[n + k] = Bank!Sums(s)[n + k] - s[k] + u[k]
    <3> DEFINE a == Bank!Sums(s)[(n - 1) + k]
               b == Bank!Sums(u)[(n - 1) + k]
               c == s[n + k]
               x == s[k]
               y == u[k]
    <3>1. a \in Int /\ b = a - x + y /\ c \in Int /\ x \in Int /\ y \in Int
      BY <2>1, <2>2, <2>3
    <3>2. Bank!Sums(s)[n + k] = a + c /\ Bank!Sums(u)[n + k] = b + c
      BY <2>1, <2>2
    <3> HIDE DEF a, b, c, x, y
    <3>3. b + c = (a + c) - x + y
      BY <3>1
    <3> QED
      BY <3>2, <3>3 DEF x, y
  <2> QED
    BY <2>4
<1>4. S \in SUBSET (0 .. Len(s) - k) /\ Len(s) - k \in Nat
  OBVIOUS
<1> HIDE DEF S
<1>5. S = 0 .. Len(s) - k
  BY <1>2, <1>3, <1>4, Induction
<1>6. Len(s) - k \in S
  BY <1>4, <1>5
<1>7. Bank!Sums(u)[(Len(s) - k) + k] = Bank!Sums(s)[(Len(s) - k) + k] - s[k] + u[k]
  BY <1>6 DEF S
<1> QED
  BY <1>7 DEF Bank!Sum

\* The running sums of natural numbers are natural numbers.
LEMMA SumsNatural ==
    ASSUME NEW s \in Seq(Nat)
    PROVE  Bank!Sums(s) \in [0 .. Len(s) -> Nat]
<1> DEFINE S == {n \in 0 .. Len(s) : Bank!Sums(s)[n] \in Nat}
<1>0. s \in Seq(Int)
  OBVIOUS
<1>1. Adds(s, Bank!Sums(s), Len(s))
  BY <1>0, SumsDef
<1>2. 0 \in S
  BY <1>1 DEF Adds
<1>3. \A n \in 1 .. Len(s) : n - 1 \in S => n \in S
  BY <1>1 DEF Adds
<1>4. S \in SUBSET (0 .. Len(s)) /\ Len(s) \in Nat
  OBVIOUS
<1> HIDE DEF S
<1>5. S = 0 .. Len(s)
  BY <1>2, <1>3, <1>4, Induction
<1> QED
  BY <1>1, <1>5 DEF S, Adds

-----------------------------------------------------------------------------
(* The list of segments *)

\* A segment with balances that are not negative.
Segment == [parity : Int, accounts : Seq(Nat)]

\* What a segment is worth, and what the list adds up.
Worth(s) == s.parity + Bank!Sum(s.accounts)

Worths(b) == [i \in DOMAIN b |-> Worth(b[i])]

\* The money of the bank is what its segments are worth together.
LEMMA MoneyIsWorth == \A b : Bank!Money(b) = Bank!Sum(Worths(b))
BY DEF Bank!Money, Worths, Worth

\* A segment has a worth.
LEMMA WorthType ==
    ASSUME NEW s \in Segment
    PROVE  /\ s.parity \in Int /\ s.accounts \in Seq(Nat) /\ s.accounts \in Seq(Int)
           /\ Bank!Sum(s.accounts) \in Int /\ Worth(s) \in Int /\ Len(s.accounts) \in Nat
<1>1. s.parity \in Int /\ s.accounts \in Seq(Nat)
  BY DEF Segment
<1>2. s.accounts \in Seq(Int) /\ Len(s.accounts) \in Nat
  BY <1>1
<1> QED
  BY <1>1, <1>2, SumType DEF Worth

\* What is added up, a number for each segment.
Numbers(b) ==
    /\ Bank!Counts(b) \in Seq(Nat) /\ Bank!Counts(b) \in Seq(Int)
    /\ Len(Bank!Counts(b)) = Len(b)
    /\ \A i \in 1 .. Len(b) : Bank!Counts(b)[i] = Len(b[i].accounts)
    /\ Worths(b) \in Seq(Int) /\ Len(Worths(b)) = Len(b)
    /\ \A i \in 1 .. Len(b) : Worths(b)[i] = Worth(b[i])
    /\ Bank!Count(b) \in Nat /\ Bank!Money(b) \in Int

\* A list of segments has these numbers.
LEMMA ListNumbers ==
    ASSUME NEW b \in Seq(Segment)
    PROVE  Numbers(b)
<1>1. DOMAIN b = 1 .. Len(b) /\ Len(b) \in Nat /\ \A i \in 1 .. Len(b) : b[i] \in Segment
  OBVIOUS
<1>2. /\ Bank!Counts(b) = [i \in 1 .. Len(b) |-> Len(b[i].accounts)]
      /\ Worths(b) = [i \in 1 .. Len(b) |-> Worth(b[i])]
  BY <1>1 DEF Bank!Counts, Worths
<1>3. \A i \in 1 .. Len(b) : Len(b[i].accounts) \in Nat /\ Worth(b[i]) \in Int
  BY <1>1, WorthType
<1>4. Bank!Counts(b) \in [1 .. Len(b) -> Nat] /\ Worths(b) \in [1 .. Len(b) -> Int]
  BY <1>2, <1>3
<1>5. Bank!Counts(b) \in Seq(Nat) /\ Worths(b) \in Seq(Int)
  BY <1>1, <1>4
<1>6. Bank!Counts(b) \in Seq(Int) /\ Len(Bank!Counts(b)) = Len(b) /\ Len(Worths(b)) = Len(b)
  BY <1>1, <1>4, <1>5
<1>7. Bank!Count(b) \in Nat
  BY <1>5, <1>6, SumsNatural DEF Bank!Count, Bank!Sum
<1>8. Bank!Money(b) \in Int
  BY <1>5, MoneyIsWorth, SumType
<1> QED
  BY <1>2, <1>5, <1>6, <1>7, <1>8 DEF Numbers

\* Another segment k.
LEMMA ListChange ==
    ASSUME NEW b \in Seq(Segment), NEW c \in Seq(Segment), Len(c) = Len(b), NEW k \in 1 .. Len(b),
           \A i \in 1 .. Len(b) : i # k => c[i] = b[i]
    PROVE  /\ Bank!Count(c) = Bank!Count(b) - Len(b[k].accounts) + Len(c[k].accounts)
           /\ Bank!Money(c) = Bank!Money(b) - Worth(b[k]) + Worth(c[k])
<1>0. Numbers(b) /\ Numbers(c)
  BY ListNumbers
<1>1. /\ Bank!Counts(b) \in Seq(Int) /\ Bank!Counts(c) \in Seq(Int)
      /\ Len(Bank!Counts(b)) = Len(b) /\ Len(Bank!Counts(c)) = Len(b)
      /\ \A i \in 1 .. Len(b) : i # k => Bank!Counts(c)[i] = Bank!Counts(b)[i]
      /\ Bank!Counts(b)[k] = Len(b[k].accounts) /\ Bank!Counts(c)[k] = Len(c[k].accounts)
  BY <1>0 DEF Numbers
<1>2. /\ Worths(b) \in Seq(Int) /\ Worths(c) \in Seq(Int)
      /\ Len(Worths(b)) = Len(b) /\ Len(Worths(c)) = Len(b)
      /\ \A i \in 1 .. Len(b) : i # k => Worths(c)[i] = Worths(b)[i]
      /\ Worths(b)[k] = Worth(b[k]) /\ Worths(c)[k] = Worth(c[k])
  BY <1>0 DEF Numbers
<1>3. Bank!Sum(Bank!Counts(c)) = Bank!Sum(Bank!Counts(b)) - Bank!Counts(b)[k] + Bank!Counts(c)[k]
  BY <1>1, SumChange
<1>4. Bank!Sum(Worths(c)) = Bank!Sum(Worths(b)) - Worths(b)[k] + Worths(c)[k]
  BY <1>2, SumChange
<1> QED
  BY <1>1, <1>2, <1>3, <1>4, MoneyIsWorth DEF Bank!Count

\* A segment more.
LEMMA ListOneMore ==
    ASSUME NEW b \in Seq(Segment), NEW c \in Seq(Segment), Len(c) = Len(b) + 1,
           \A i \in 1 .. Len(b) : c[i] = b[i]
    PROVE  /\ Bank!Count(c) = Bank!Count(b) + Len(c[Len(c)].accounts)
           /\ Bank!Money(c) = Bank!Money(b) + Worth(c[Len(c)])
<1>a. Numbers(b) /\ Numbers(c)
  BY ListNumbers
<1>0. Len(b) \in Nat /\ Len(c) \in 1 .. Len(c) /\ \A i \in 1 .. Len(b) : i \in 1 .. Len(c)
  OBVIOUS
<1>1. /\ Bank!Counts(b) \in Seq(Int) /\ Bank!Counts(c) \in Seq(Int)
      /\ Len(Bank!Counts(b)) = Len(b) /\ Len(Bank!Counts(c)) = Len(c)
      /\ \A i \in 1 .. Len(b) : Bank!Counts(c)[i] = Bank!Counts(b)[i]
      /\ Bank!Counts(c)[Len(c)] = Len(c[Len(c)].accounts)
  BY <1>0, <1>a DEF Numbers
<1>2. /\ Worths(b) \in Seq(Int) /\ Worths(c) \in Seq(Int)
      /\ Len(Worths(b)) = Len(b) /\ Len(Worths(c)) = Len(c)
      /\ \A i \in 1 .. Len(b) : Worths(c)[i] = Worths(b)[i]
      /\ Worths(c)[Len(c)] = Worth(c[Len(c)])
  BY <1>0, <1>a DEF Numbers
<1>3. Bank!Sum(Bank!Counts(c)) = Bank!Sum(Bank!Counts(b)) + Bank!Counts(c)[Len(c)]
  BY <1>1, SumOneMore
<1>4. Bank!Sum(Worths(c)) = Bank!Sum(Worths(b)) + Worths(c)[Len(c)]
  BY <1>2, SumOneMore
<1> QED
  BY <1>1, <1>2, <1>3, <1>4, MoneyIsWorth DEF Bank!Count

\* Nothing adds up to nothing.
LEMMA SumEmpty == Bank!Sum(<<>>) = 0
<1>1. <<>> \in Seq(Int) /\ Len(<<>>) = 0
  OBVIOUS
<1> QED
  BY <1>1, SumsDef DEF Bank!Sum, Adds

\* A single number adds up to itself.
LEMMA SumSingle ==
    ASSUME NEW x \in Int
    PROVE  Bank!Sum(<<x>>) = x
<1>1. <<>> \in Seq(Int) /\ <<x>> \in Seq(Int) /\ Len(<<>>) = 0 /\ Len(<<x>>) = 1 /\ <<x>>[1] = x
  OBVIOUS
<1>2. Bank!Sum(<<>>) = 0
  BY SumEmpty
<1>3. Bank!Sum(<<x>>) = Bank!Sum(<<>>) + <<x>>[1]
  <2>1. Len(<<x>>) = Len(<<>>) + 1 /\ \A n \in 1 .. Len(<<>>) : <<x>>[n] = <<>>[n]
    BY <1>1
  <2>2. Bank!Sum(<<x>>) = Bank!Sum(<<>>) + <<x>>[Len(<<x>>)]
    BY <1>1, <2>1, SumOneMore
  <2> QED
    BY <1>1, <2>2
<1> QED
  BY <1>1, <1>2, <1>3

\* A region between two transactions: every segment has an account, and there is as much
\* money as the accounts began with.
Region(b) ==
    /\ b \in Seq(Segment) /\ Len(b) >= 1
    /\ \A i \in 1 .. Len(b) : Len(b[i].accounts) >= 1
    /\ Bank!Count(b) \in 1 .. MaxAccounts
    /\ Bank!Money(b) = InitBalance * Bank!Count(b)

\* A region passes the check of long_tx.
LEMMA RegionConsistent ==
    ASSUME NEW b, Region(b)
    PROVE  Bank!Consistent(b)
<1>1. ASSUME NEW i \in DOMAIN b, NEW j \in DOMAIN b[i].accounts PROVE b[i].accounts[j] >= 0
  <2>1. b[i] \in Segment
    BY DEF Region
  <2>2. b[i].accounts \in Seq(Nat)
    BY <2>1, WorthType
  <2>3. b[i].accounts[j] \in Nat
    BY <2>2
  <2> QED
    BY <2>3
<1>2. \A i \in DOMAIN b : \A j \in DOMAIN b[i].accounts : b[i].accounts[j] >= 0
  BY <1>1
<1> QED
  BY <1>2 DEF Region, Bank!Consistent

\* The first segment is not taken away.
LEMMA TwoSegments ==
    ASSUME NEW b, Region(b), Bank!Count(b) > 2, Len(b) = 1
    PROVE  Len(b[1].accounts) > 2
<1>1. Numbers(b)
  BY ListNumbers DEF Region
<1>2. Adds(Bank!Counts(b), Bank!Sums(Bank!Counts(b)), 1)
  BY <1>1, SumsDef DEF Numbers
<1>3. Bank!Count(b) = 0 + Len(b[1].accounts)
  BY <1>1, <1>2 DEF Numbers, Adds, Bank!Count, Bank!Sum
<1>4. Len(b[1].accounts) \in Nat
  BY WorthType DEF Region
<1> QED
  BY <1>3, <1>4

\* What is assumed of the constants of the bank.
LEMMA BankNumbers ==
    /\ InitBalance \in Nat /\ NbAccounts \in Nat \ {0} /\ NbTxPerRun \in Nat
    /\ MaxAccounts \in Nat /\ MaxAccounts >= 3 /\ MaxAccounts >= NbAccounts
BY GradingAssumption DEF Bank!BankAssumption

\* An account comes or goes with the balance that it began with.
LEMMA RegionStep ==
    ASSUME NEW b, Region(b), NEW c \in Seq(Segment), Len(c) >= 1,
           \A i \in 1 .. Len(c) : Len(c[i].accounts) >= 1,
           Bank!Count(c) \in 1 .. MaxAccounts,
           \/ Bank!Count(c) = Bank!Count(b) /\ Bank!Money(c) = Bank!Money(b)
           \/ Bank!Count(c) = Bank!Count(b) + 1 /\ Bank!Money(c) = Bank!Money(b) + InitBalance
           \/ Bank!Count(c) = Bank!Count(b) - 1 /\ Bank!Money(c) = Bank!Money(b) - InitBalance
    PROVE  Region(c)
<1> DEFINE n == Bank!Count(b)
           m == Bank!Money(b)
<1>1. n \in Nat /\ n >= 1 /\ m = InitBalance * n /\ InitBalance \in Nat
  BY BankNumbers DEF Region
<1>2. Bank!Money(c) = InitBalance * Bank!Count(c)
  <2>1. CASE Bank!Count(c) = n /\ Bank!Money(c) = m
    BY <1>1, <2>1
  <2>2. CASE Bank!Count(c) = n + 1 /\ Bank!Money(c) = m + InitBalance
    <3> HIDE DEF n, m
    <3>1. InitBalance * (n + 1) = InitBalance * n + InitBalance
      BY <1>1
    <3> QED
      BY <1>1, <2>2, <3>1
  <2>3. CASE Bank!Count(c) = n - 1 /\ Bank!Money(c) = m - InitBalance
    <3> HIDE DEF n, m
    <3>1. InitBalance * (n - 1) = InitBalance * n - InitBalance
      BY <1>1
    <3> QED
      BY <1>1, <2>3, <3>1
  <2> QED
    BY <2>1, <2>2, <2>3
<1> QED
  BY <1>2 DEF Region

\* The last account goes, and its balance into the parity.
LEMMA ShrinkKeeps ==
    ASSUME NEW b, Region(b), Bank!Count(b) > 2
    PROVE  Region(Bank!Shrink(b))
<1> DEFINE m == Len(b)
           end == b[m]
           a == end.accounts
           n == Len(a)
           parity == end.parity + a[n] - InitBalance
<1>1. /\ m \in 1 .. Len(b) /\ end \in Segment /\ end.parity \in Int /\ a \in Seq(Nat)
      /\ a \in Seq(Int) /\ n \in Nat /\ n >= 1 /\ a[n] \in Nat /\ InitBalance \in Nat
  <2>1. m \in 1 .. Len(b) /\ end \in Segment /\ n >= 1
    BY DEF Region
  <2>2. end.parity \in Int /\ a \in Seq(Nat) /\ a \in Seq(Int) /\ n \in Nat
    BY <2>1, WorthType
  <2> HIDE DEF m, end, a
  <2>3. a[n] \in Nat
    BY <2>1, <2>2
  <2> QED
    BY <2>1, <2>2, <2>3, BankNumbers
<1>2. parity \in Int
  BY <1>1
<1>3. Bank!Last(b) = end /\ Bank!Last(a) = a[n]
  BY DEF Bank!Last
<1>4. Bank!Count(b) - 1 \in 1 .. MaxAccounts /\ Bank!Count(b) \in Nat /\ Bank!Money(b) \in Int
  <2>1. Numbers(b)
    BY ListNumbers DEF Region
  <2> QED
    BY <2>1, BankNumbers DEF Region, Numbers
<1>5. CASE n > 1
  <2> DEFINE front == Bank!Front(a)
             s == [parity |-> parity, accounts |-> front]
             c == [b EXCEPT ![m] = s]
  <2>1. Bank!Shrink(b) = c
    BY <1>3, <1>5 DEF Bank!Shrink
  <2>2. /\ front \in Seq(Nat) /\ Len(front) = n - 1
        /\ \A i \in 1 .. n - 1 : front[i] = a[i]
    <3> HIDE DEF a
    <3> QED
      BY <1>1, <1>5 DEF Bank!Front
  <2>3. s \in Segment /\ s.parity = parity /\ s.accounts = front
    BY <1>2, <2>2 DEF Segment
  <2>4. Bank!Sum(a) = Bank!Sum(front) + a[n]
    <3>1. /\ front \in Seq(Int) /\ Len(a) = Len(front) + 1
          /\ \A i \in 1 .. Len(front) : a[i] = front[i]
      BY <1>1, <2>2
    <3> HIDE DEF a, front
    <3> QED
      BY <1>1, <3>1, SumOneMore
  <2>5. Worth(s) = Worth(end) - InitBalance /\ Worth(end) \in Int
    <3>1. Bank!Sum(front) \in Int /\ Worth(end) \in Int
      BY <1>1, <2>3, WorthType
    <3>2. Worth(s) = parity + Bank!Sum(front) /\ Worth(end) = end.parity + Bank!Sum(a)
      BY <2>3 DEF Worth
    <3> HIDE DEF end, a, front, s
    <3> QED
      BY <1>1, <2>4, <3>1, <3>2
  <2>6. /\ c \in Seq(Segment) /\ Len(c) = Len(b) /\ c[m] = s
        /\ \A i \in 1 .. Len(b) : i # m => c[i] = b[i]
    <3> HIDE DEF s
    <3> QED
      BY <1>1, <2>3 DEF Region
  <2>7. /\ Bank!Count(c) = Bank!Count(b) - n + (n - 1)
        /\ Bank!Money(c) = Bank!Money(b) - Worth(end) + Worth(s)
    <3>1. Len(c[m].accounts) = n - 1 /\ Worth(c[m]) = Worth(s)
      BY <2>2, <2>3, <2>6
    <3>2. b \in Seq(Segment)
      BY DEF Region
    <3> HIDE DEF c, s
    <3>3. /\ Bank!Count(c) = Bank!Count(b) - Len(b[m].accounts) + Len(c[m].accounts)
          /\ Bank!Money(c) = Bank!Money(b) - Worth(b[m]) + Worth(c[m])
      BY <1>1, <2>6, <3>2, ListChange
    <3> QED
      BY <3>1, <3>3
  <2>8. Bank!Count(c) = Bank!Count(b) - 1 /\ Bank!Money(c) = Bank!Money(b) - InitBalance
    <3> HIDE DEF c, s, end, n
    <3> QED
      BY <1>1, <1>4, <2>5, <2>7
  <2>9. Len(c) >= 1 /\ \A i \in 1 .. Len(c) : Len(c[i].accounts) >= 1
    <3>1. Len(s.accounts) >= 1
      BY <1>1, <1>5, <2>2, <2>3
    <3> HIDE DEF c, s
    <3> QED
      BY <2>6, <3>1 DEF Region
  <2> HIDE DEF c
  <2> QED
    BY <1>4, <2>1, <2>6, <2>8, <2>9, RegionStep
<1>6. CASE n = 1
  <2> DEFINE front == Bank!Front(b)
             s == [front[m - 1] EXCEPT !.parity = @ + parity]
             c == [front EXCEPT ![m - 1].parity = @ + parity]
  <2>1. Bank!Shrink(b) = c
    BY <1>3, <1>6 DEF Bank!Shrink
  <2>2. m >= 2
    <3>1. m # 1
      BY <1>6, TwoSegments
    <3>2. m \in Nat /\ m >= 1
      BY DEF Region
    <3> HIDE DEF m
    <3> QED
      BY <3>1, <3>2
  <2>3. /\ front \in Seq(Segment) /\ Len(front) = m - 1
        /\ \A i \in 1 .. m - 1 : front[i] = b[i]
    BY <1>1, <2>2 DEF Bank!Front, Region
  <2>4. front[m - 1] \in Segment /\ m - 1 \in 1 .. Len(front)
    BY <1>1, <2>2, <2>3
  <2>5. /\ s \in Segment /\ s.parity = front[m - 1].parity + parity
        /\ s.accounts = front[m - 1].accounts
    <3> HIDE DEF front, parity
    <3> QED
      BY <1>2, <2>4 DEF Segment
  <2>6. /\ c \in Seq(Segment) /\ Len(c) = Len(front) /\ c[m - 1] = s
        /\ \A i \in 1 .. Len(front) : i # m - 1 => c[i] = front[i]
    <3>1. c = [front EXCEPT ![m - 1] = s]
      OBVIOUS
    <3> HIDE DEF front, s, c, m
    <3> QED
      BY <2>3, <2>4, <2>5, <3>1
  <2>7. /\ Bank!Count(c) = Bank!Count(front) - Len(front[m - 1].accounts) + Len(s.accounts)
        /\ Bank!Money(c) = Bank!Money(front) - Worth(front[m - 1]) + Worth(s)
    <3> HIDE DEF front, s, c, m
    <3> QED
      BY <2>3, <2>4, <2>6, ListChange
  <2>8. /\ Bank!Count(b) = Bank!Count(front) + n
        /\ Bank!Money(b) = Bank!Money(front) + Worth(end)
    <3>1. /\ b \in Seq(Segment) /\ Len(b) = Len(front) + 1
          /\ \A i \in 1 .. Len(front) : b[i] = front[i]
      BY <1>1, <2>3 DEF Region
    <3> HIDE DEF front
    <3> QED
      BY <2>3, <3>1, ListOneMore
  <2>9. Worth(s) = Worth(front[m - 1]) + parity /\ Worth(front[m - 1]) \in Int
    <3>1. Worth(front[m - 1]) \in Int /\ front[m - 1].parity \in Int /\ Bank!Sum(s.accounts) \in Int
      BY <2>4, <2>5, WorthType
    <3>2. /\ Worth(s) = (front[m - 1].parity + parity) + Bank!Sum(s.accounts)
          /\ Worth(front[m - 1]) = front[m - 1].parity + Bank!Sum(s.accounts)
      BY <2>5 DEF Worth
    <3> HIDE DEF front, s, m, parity
    <3> QED
      BY <1>2, <3>1, <3>2
  <2>10. Worth(end) = end.parity + a[n]
    <3>1. Bank!Sum(a) = Bank!Sum(<<>>) + a[Len(a)]
      <4>1. <<>> \in Seq(Int) /\ Len(a) = Len(<<>>) + 1 /\ \A i \in 1 .. Len(<<>>) : a[i] = <<>>[i]
        BY <1>6
      <4> HIDE DEF a
      <4> QED
        BY <1>1, <4>1, SumOneMore
    <3>2. Bank!Sum(a) = a[n]
      BY <1>1, <1>6, <3>1, SumEmpty
    <3> QED
      BY <3>2 DEF Worth
  <2>11. Bank!Count(c) = Bank!Count(b) - 1 /\ Bank!Money(c) = Bank!Money(b) - InitBalance
    <3>1. Len(s.accounts) = Len(front[m - 1].accounts) /\ Len(s.accounts) \in Nat
      BY <2>5, WorthType
    <3>2. Bank!Count(front) \in Nat /\ Bank!Money(front) \in Int
      BY <2>3, ListNumbers DEF Numbers
    <3>3. Bank!Count(c) = Bank!Count(front) /\ Bank!Money(c) = Bank!Money(front) + parity
      <4> HIDE DEF front, s, c, m, parity
      <4>1. Bank!Count(c) = Bank!Count(front)
        BY <2>7, <3>1, <3>2
      <4>2. Bank!Money(c) = Bank!Money(front) + parity
        BY <1>2, <2>7, <2>9, <3>2
      <4> QED
        BY <4>1, <4>2
    <3>4. parity = Worth(end) - InitBalance /\ Worth(end) \in Int
      <4>1. Worth(end) \in Int
        BY <1>1, WorthType
      <4> HIDE DEF end, a, n
      <4> QED
        BY <1>1, <2>10, <4>1
    <3>5. InitBalance \in Int
      BY BankNumbers
    <3> HIDE DEF front, c, end, parity, n
    <3>6. Bank!Count(c) = Bank!Count(b) - 1
      BY <1>6, <2>8, <3>2, <3>3
    <3>7. Bank!Money(c) = Bank!Money(b) - InitBalance
      BY <2>8, <3>2, <3>3, <3>4, <3>5
    <3> QED
      BY <3>6, <3>7
  <2>12. Len(c) >= 1 /\ \A i \in 1 .. Len(c) : Len(c[i].accounts) >= 1
    <3>1. \A i \in 1 .. m - 1 : i \in 1 .. Len(b)
      BY <1>1
    <3>2. \A i \in 1 .. m - 1 : Len(front[i].accounts) >= 1
      BY <2>3, <3>1 DEF Region
    <3> HIDE DEF front, s, c
    <3> QED
      BY <2>2, <2>3, <2>4, <2>5, <2>6, <3>2
  <2> HIDE DEF c
  <2> QED
    BY <1>4, <2>1, <2>6, <2>11, <2>12, RegionStep
<1>7. n \in Nat /\ n >= 1
  BY <1>1
<1> HIDE DEF n
<1> QED
  BY <1>5, <1>6, <1>7

\* An account comes, in the last segment or in one of its own.
LEMMA GrowKeeps ==
    ASSUME NEW b, Region(b), Bank!Count(b) < MaxAccounts
    PROVE  Region(Bank!Grow(b))
<1> DEFINE m == Len(b)
           end == b[m]
           a == end.accounts
           n == Len(a)
<1>1. /\ b \in Seq(Segment) /\ m \in 1 .. Len(b) /\ end \in Segment /\ end.parity \in Int
      /\ a \in Seq(Nat) /\ a \in Seq(Int) /\ n \in Nat /\ n >= 1 /\ InitBalance \in Nat
  <2>1. b \in Seq(Segment) /\ m \in 1 .. Len(b) /\ end \in Segment /\ n >= 1
    BY DEF Region
  <2>2. end.parity \in Int /\ a \in Seq(Nat) /\ a \in Seq(Int) /\ n \in Nat
    BY <2>1, WorthType
  <2> QED
    BY <2>1, <2>2, BankNumbers
<1>2. Bank!Last(b) = end
  BY DEF Bank!Last
<1>3. /\ Bank!Count(b) + 1 \in 1 .. MaxAccounts /\ Bank!Count(b) \in Nat
      /\ Bank!Money(b) \in Int
  <2>1. Numbers(b)
    BY ListNumbers DEF Region
  <2> QED
    BY <2>1, BankNumbers DEF Region, Numbers
<1>4. CASE n < NbAccounts
  <2> DEFINE u == Append(a, InitBalance)
             s == [end EXCEPT !.accounts = Append(@, InitBalance)]
             c == [b EXCEPT ![m].accounts = Append(@, InitBalance)]
  <2>1. Bank!Grow(b) = c
    BY <1>2, <1>4 DEF Bank!Grow
  <2>2. /\ u \in Seq(Nat) /\ u \in Seq(Int) /\ Len(u) = n + 1 /\ u[n + 1] = InitBalance
        /\ \A i \in 1 .. n : u[i] = a[i]
    <3> HIDE DEF a
    <3> QED
      BY <1>1
  <2>3. s \in Segment /\ s.parity = end.parity /\ s.accounts = u
    <3>1. s = [end EXCEPT !.accounts = u]
      OBVIOUS
    <3> HIDE DEF end, u, s
    <3> QED
      BY <1>1, <2>2, <3>1 DEF Segment
  <2>4. Bank!Sum(u) = Bank!Sum(a) + InitBalance
    <3> HIDE DEF a, u
    <3>1. Bank!Sum(u) = Bank!Sum(a) + u[Len(u)]
      BY <1>1, <2>2, SumOneMore
    <3> QED
      BY <2>2, <3>1
  <2>5. Worth(s) = Worth(end) + InitBalance /\ Worth(end) \in Int
    <3>1. Bank!Sum(a) \in Int /\ Worth(end) \in Int
      BY <1>1, WorthType
    <3>2. Worth(s) = end.parity + Bank!Sum(u) /\ Worth(end) = end.parity + Bank!Sum(a)
      BY <2>3 DEF Worth
    <3> HIDE DEF end, a, u, s
    <3> QED
      BY <1>1, <2>4, <3>1, <3>2
  <2>6. /\ c \in Seq(Segment) /\ Len(c) = Len(b) /\ c[m] = s
        /\ \A i \in 1 .. Len(b) : i # m => c[i] = b[i]
    <3>1. c = [b EXCEPT ![m] = s]
      OBVIOUS
    <3> HIDE DEF s, c, m
    <3> QED
      BY <1>1, <2>3, <3>1
  <2>7. /\ Bank!Count(c) = Bank!Count(b) - n + (n + 1)
        /\ Bank!Money(c) = Bank!Money(b) - Worth(end) + Worth(s)
    <3>1. Len(c[m].accounts) = n + 1 /\ Worth(c[m]) = Worth(s)
      BY <2>2, <2>3, <2>6
    <3> HIDE DEF c, s
    <3>2. /\ Bank!Count(c) = Bank!Count(b) - Len(b[m].accounts) + Len(c[m].accounts)
          /\ Bank!Money(c) = Bank!Money(b) - Worth(b[m]) + Worth(c[m])
      BY <1>1, <2>6, ListChange
    <3> QED
      BY <3>1, <3>2
  <2>8. Bank!Count(c) = Bank!Count(b) + 1 /\ Bank!Money(c) = Bank!Money(b) + InitBalance
    <3> HIDE DEF c, s, end, n
    <3> QED
      BY <1>1, <1>3, <2>5, <2>7
  <2>9. Len(c) >= 1 /\ \A i \in 1 .. Len(c) : Len(c[i].accounts) >= 1
    <3>1. Len(s.accounts) >= 1
      BY <1>1, <2>2, <2>3
    <3> HIDE DEF c, s
    <3> QED
      BY <2>6, <3>1 DEF Region
  <2> HIDE DEF c
  <2> QED
    BY <1>3, <2>1, <2>6, <2>8, <2>9, RegionStep
<1>5. CASE ~(n < NbAccounts)
  <2> DEFINE s == [parity |-> 0, accounts |-> <<InitBalance>>]
             c == Append(b, s)
  <2>1. Bank!Grow(b) = c
    BY <1>2, <1>5 DEF Bank!Grow
  <2>2. s \in Segment /\ Len(s.accounts) = 1 /\ Worth(s) = InitBalance
    <3>1. s \in Segment /\ Len(s.accounts) = 1
      BY <1>1 DEF Segment
    <3>2. Bank!Sum(<<InitBalance>>) = InitBalance
      BY <1>1, SumSingle
    <3> QED
      BY <1>1, <3>1, <3>2 DEF Worth
  <2>3. /\ c \in Seq(Segment) /\ Len(c) = Len(b) + 1 /\ c[Len(c)] = s
        /\ \A i \in 1 .. Len(b) : c[i] = b[i]
    <3> HIDE DEF s
    <3> QED
      BY <1>1, <2>2
  <2>4. Bank!Count(c) = Bank!Count(b) + 1 /\ Bank!Money(c) = Bank!Money(b) + InitBalance
    <3> HIDE DEF s, c
    <3> QED
      BY <1>1, <2>2, <2>3, ListOneMore
  <2>5. Len(c) >= 1 /\ \A i \in 1 .. Len(c) : Len(c[i].accounts) >= 1
    <3>1. Len(b) \in Nat /\ \A i \in 1 .. Len(c) : i = Len(c) \/ i \in 1 .. Len(b)
      BY <1>1, <2>3
    <3>2. \A i \in 1 .. Len(b) : Len(b[i].accounts) >= 1
      BY DEF Region
    <3> HIDE DEF s, c
    <3>3. ASSUME NEW i \in 1 .. Len(c) PROVE Len(c[i].accounts) >= 1
      <4>1. CASE i = Len(c)
        <5>1. c[i] = s
          BY <2>3, <4>1
        <5>2. Len(s.accounts) = 1
          BY <2>2
        <5> QED
          BY <5>1, <5>2
      <4>2. CASE i \in 1 .. Len(b)
        BY <2>3, <3>2, <4>2
      <4> QED
        BY <3>1, <4>1, <4>2
    <3> QED
      BY <2>3, <3>1, <3>3
  <2> HIDE DEF c
  <2> QED
    BY <1>3, <2>1, <2>3, <2>4, <2>5, RegionStep
<1> QED
  BY <1>4, <1>5

\* The walk along the segments finds the account, or comes to the end.
LEMMA Located ==
    ASSUME NEW b \in Seq(Segment), NEW id \in Nat
    PROVE  /\ Bank!SegmentOf(b, id) \in 1 .. Len(b) + 1
           /\ \A k \in 1 .. Bank!SegmentOf(b, id) - 1 : id >= Bank!Sums(Bank!Counts(b))[k]
           /\ Bank!SegmentOf(b, id) <= Len(b) =>
                 id < Bank!Sums(Bank!Counts(b))[Bank!SegmentOf(b, id)]
<1> DEFINE sums == Bank!Sums(Bank!Counts(b))
           P(i) == /\ \A k \in 1 .. i - 1 : id >= sums[k]
                   /\ i <= Len(b) => id < sums[i]
<1>1. sums \in [0 .. Len(b) -> Nat] /\ Len(b) \in Nat
  <2>1. Bank!Counts(b) \in Seq(Nat) /\ Len(Bank!Counts(b)) = Len(b)
    BY ListNumbers DEF Numbers
  <2> QED
    BY <2>1, SumsNatural
<1> HIDE DEF sums
<1>2. \E i \in 1 .. Len(b) + 1 : P(i)
  <2> DEFINE S == {i \in 1 .. Len(b) + 1 : i <= Len(b) => id < sums[i]}
  <2>1. S \in SUBSET Nat /\ S # {}
    <3>1. Len(b) + 1 \in S
      BY <1>1
    <3> QED
      BY <3>1
  <2>2. PICK m \in S : \A n \in S : m <= n
    BY <2>1, Least
  <2>3. ASSUME NEW k \in 1 .. m - 1 PROVE id >= sums[k]
    <3>1. k \in 1 .. Len(b) /\ k < m /\ sums[k] \in Nat
      BY <1>1
    <3>2. k \notin S
      BY <2>2, <3>1
    <3>3. ~(id < sums[k])
      BY <1>1, <3>1, <3>2
    <3> QED
      BY <3>1, <3>3
  <2>4. m \in 1 .. Len(b) + 1 /\ (m <= Len(b) => id < sums[m])
    OBVIOUS
  <2> QED
    BY <2>3, <2>4
<1>3. Bank!SegmentOf(b, id) = CHOOSE i \in 1 .. Len(b) + 1 : P(i)
  BY DEF Bank!SegmentOf, sums
<1> DEFINE i0 == Bank!SegmentOf(b, id)
<1>4. i0 \in 1 .. Len(b) + 1 /\ P(i0)
  <2> HIDE DEF P
  <2> QED
    BY <1>2, <1>3
<1> QED
  BY <1>4 DEF sums

\* What is left of an index is an index.
LEMMA LeftRange ==
    ASSUME NEW b \in Seq(Segment), NEW id \in Nat, NEW i \in 1 .. Len(b) + 1
    PROVE  Bank!LeftOf(b, id, i) \in 0 .. id
<1> DEFINE sums == Bank!Sums(Bank!Counts(b))
           at == Bank!SegmentOf(b, id)
           j == IF at < i THEN at ELSE i
<1>1. Bank!Counts(b) \in Seq(Int) /\ Bank!Counts(b) \in Seq(Nat) /\ Len(Bank!Counts(b)) = Len(b)
  BY ListNumbers DEF Numbers
<1>2. sums \in [0 .. Len(b) -> Nat] /\ sums[0] = 0
  BY <1>1, SumsNatural, SumsDef DEF Adds
<1>3. at \in 1 .. Len(b) + 1 /\ \A k \in 1 .. at - 1 : id >= sums[k]
  BY Located
<1>4. Bank!LeftOf(b, id, i) = id - sums[j - 1]
  BY DEF Bank!LeftOf
<1> HIDE DEF sums, at
<1>5. j \in 1 .. Len(b) + 1 /\ j <= at
  BY <1>3
<1> HIDE DEF j
<1>6. sums[j - 1] \in Nat /\ id >= sums[j - 1]
  <2>1. CASE j = 1
    BY <1>2, <2>1
  <2>2. CASE j # 1
    <3>1. j - 1 \in 1 .. at - 1 /\ j - 1 \in 0 .. Len(b)
      BY <1>3, <1>5, <2>2
    <3> QED
      BY <1>2, <1>3, <3>1
  <2> QED
    BY <2>1, <2>2
<1> QED
  BY <1>4, <1>6

\* An account that exists has a place.
LEMMA Found ==
    ASSUME NEW b \in Seq(Segment), NEW id \in Nat, id < Bank!Count(b)
    PROVE  /\ Bank!SegmentOf(b, id) \in 1 .. Len(b)
           /\ Bank!LeftOf(b, id, Len(b) + 1) + 1
                 \in 1 .. Len(b[Bank!SegmentOf(b, id)].accounts)
<1> DEFINE sums == Bank!Sums(Bank!Counts(b))
           at == Bank!SegmentOf(b, id)
<1>1. /\ Bank!Counts(b) \in Seq(Int) /\ Bank!Counts(b) \in Seq(Nat)
      /\ Len(Bank!Counts(b)) = Len(b)
      /\ \A i \in 1 .. Len(b) : Bank!Counts(b)[i] = Len(b[i].accounts)
  BY ListNumbers DEF Numbers
<1>2. /\ sums \in [0 .. Len(b) -> Nat] /\ sums[0] = 0
      /\ \A n \in 1 .. Len(b) : sums[n] = sums[n - 1] + Bank!Counts(b)[n]
  BY <1>1, SumsNatural, SumsDef DEF Adds
<1>3. /\ at \in 1 .. Len(b) + 1 /\ \A k \in 1 .. at - 1 : id >= sums[k]
      /\ at <= Len(b) => id < sums[at]
  BY Located
<1>4. Bank!Count(b) = sums[Len(b)] /\ Len(b) \in Nat
  BY <1>1 DEF Bank!Count, Bank!Sum
<1>5. Bank!LeftOf(b, id, Len(b) + 1) = id - sums[(IF at < Len(b) + 1 THEN at ELSE Len(b) + 1) - 1]
  BY DEF Bank!LeftOf
<1>6. Bank!LeftOf(b, id, Len(b) + 1) \in 0 .. id
  BY <1>4, LeftRange
<1> HIDE DEF sums, at
<1>7. at \in 1 .. Len(b)
  <2> SUFFICES ASSUME at = Len(b) + 1 PROVE FALSE
    BY <1>3, <1>4
  <2>1. Len(b) # 0
    BY <1>2, <1>4
  <2>2. Len(b) \in 1 .. at - 1
    BY <1>4, <2>1
  <2> QED
    BY <1>2, <1>3, <1>4, <2>2
<1>8. Bank!LeftOf(b, id, Len(b) + 1) = id - sums[at - 1]
  BY <1>4, <1>5, <1>7
<1>9. id - sums[at - 1] < Len(b[at].accounts)
  <2>1. sums[at] = sums[at - 1] + Len(b[at].accounts) /\ id < sums[at]
    BY <1>1, <1>2, <1>3, <1>7
  <2>2. sums[at] \in Nat /\ sums[at - 1] \in Nat
    BY <1>2, <1>7
  <2>3. Len(b[at].accounts) \in Nat
    BY <1>7, WorthType
  <2> QED
    BY <2>1, <2>2, <2>3
<1>10. Len(b[at].accounts) \in Nat
  BY <1>7, WorthType
<1>11. Bank!LeftOf(b, id, Len(b) + 1) + 1 \in 1 .. Len(b[at].accounts)
  BY <1>6, <1>8, <1>9, <1>10
<1> QED
  BY <1>7, <1>11 DEF at

\* A region with another balance in some account.
SameShape(b, c) ==
    /\ c \in Seq(Segment) /\ Len(c) = Len(b) /\ Bank!Counts(c) = Bank!Counts(b)
    /\ \A i \in 1 .. Len(b) : Len(c[i].accounts) = Len(b[i].accounts)

\* An account has a balance, and nothing but it changes by a transfer.
LEMMA AddKeeps ==
    ASSUME NEW b \in Seq(Segment), NEW id \in Nat, id < Bank!Count(b)
    PROVE  /\ Bank!BalanceOf(b, id) \in Nat
           /\ \A v \in Int : Bank!BalanceOf(b, id) + v >= 0 =>
                 /\ SameShape(b, Bank!Add(b, id, v))
                 /\ Bank!Money(Bank!Add(b, id, v)) = Bank!Money(b) + v
<1> DEFINE k == Bank!SegmentOf(b, id)
           j == Bank!LeftOf(b, id, Len(b) + 1) + 1
           a == b[k].accounts
<1>1. k \in 1 .. Len(b) /\ j \in 1 .. Len(a)
  BY Found
<1>2. /\ Bank!BalanceOf(b, id) = a[j]
      /\ \A v : Bank!Add(b, id, v) = [b EXCEPT ![k].accounts[j] = @ + v]
  BY DEF Bank!BalanceOf, Bank!Add
<1> HIDE DEF k, j
<1>3. /\ b[k] \in Segment /\ b[k].parity \in Int /\ a \in Seq(Nat) /\ a \in Seq(Int)
      /\ Len(a) \in Nat /\ Bank!Sum(a) \in Int
  BY <1>1, WorthType
<1>4. a[j] \in Nat
  <2> HIDE DEF a
  <2> QED
    BY <1>1, <1>3
<1>5. ASSUME NEW v \in Int, a[j] + v >= 0
      PROVE  /\ SameShape(b, [b EXCEPT ![k].accounts[j] = @ + v])
             /\ Bank!Money([b EXCEPT ![k].accounts[j] = @ + v]) = Bank!Money(b) + v
  <2> DEFINE u == [a EXCEPT ![j] = @ + v]
             s == [b[k] EXCEPT !.accounts = u]
             c == [b EXCEPT ![k].accounts[j] = @ + v]
  <2>1. c = [b EXCEPT ![k] = s]
    OBVIOUS
  <2>2. /\ u \in Seq(Nat) /\ u \in Seq(Int) /\ Len(u) = Len(a) /\ u[j] = a[j] + v
        /\ \A i \in 1 .. Len(a) : i # j => u[i] = a[i]
    <3> HIDE DEF a
    <3>1. a[j] + v \in Nat
      BY <1>4, <1>5
    <3> QED
      BY <1>1, <1>3, <3>1
  <2>3. Bank!Sum(u) = Bank!Sum(a) + v
    <3> HIDE DEF a, u
    <3>1. Bank!Sum(u) = Bank!Sum(a) - a[j] + u[j]
      BY <1>1, <1>3, <2>2, SumChange
    <3> QED
      BY <1>3, <1>4, <2>2, <3>1
  <2>4. s \in Segment /\ s.parity = b[k].parity /\ s.accounts = u
    <3> HIDE DEF u
    <3> QED
      BY <1>3, <2>2 DEF Segment
  <2>5. Worth(s) = Worth(b[k]) + v /\ Worth(b[k]) \in Int
    <3>1. Worth(s) = b[k].parity + Bank!Sum(u) /\ Worth(b[k]) = b[k].parity + Bank!Sum(a)
      BY <2>4 DEF Worth
    <3>2. Worth(b[k]) \in Int
      BY <1>3, WorthType
    <3> HIDE DEF a, u, s
    <3> QED
      BY <1>3, <2>3, <3>1, <3>2
  <2>6. /\ c \in Seq(Segment) /\ Len(c) = Len(b) /\ c[k] = s
        /\ \A i \in 1 .. Len(b) : i # k => c[i] = b[i]
    <3> HIDE DEF s, c
    <3> QED
      BY <1>1, <2>1, <2>4
  <2>7. Len(s.accounts) = Len(a)
    BY <2>2, <2>4
  <2>8. ASSUME NEW i \in 1 .. Len(b) PROVE Len(c[i].accounts) = Len(b[i].accounts)
    <3>1. CASE i = k
      <4>1. c[i] = s /\ b[i] = b[k]
        BY <2>6, <3>1
      <4> HIDE DEF c, s
      <4> QED
        BY <2>7, <4>1
    <3>2. CASE i # k
      <4>1. c[i] = b[i]
        BY <2>6, <3>2
      <4> HIDE DEF c
      <4> QED
        BY <4>1
    <3> QED
      BY <3>1, <3>2
  <2> HIDE DEF c, s, a
  <2>9. Bank!Counts(c) = Bank!Counts(b)
    <3>1. DOMAIN c = DOMAIN b /\ DOMAIN b = 1 .. Len(b)
      BY <2>6
    <3> QED
      BY <2>8, <3>1 DEF Bank!Counts
  <2>10. Bank!Money(c) = Bank!Money(b) + v
    <3>1. Bank!Money(c) = Bank!Money(b) - Worth(b[k]) + Worth(c[k])
      BY <1>1, <2>6, ListChange
    <3>2. Bank!Money(b) \in Int
      BY ListNumbers DEF Numbers
    <3> QED
      BY <2>5, <2>6, <3>1, <3>2
  <2>11. SameShape(b, c)
    BY <2>6, <2>8, <2>9 DEF SameShape
  <2> QED
    BY <2>10, <2>11 DEF c
<1> QED
  BY <1>2, <1>4, <1>5

\* A transfer takes what it gives, and gives it to an account that is there.
LEMMA TransferKeeps ==
    ASSUME NEW b, Region(b), NEW s \in Nat, NEW r \in Nat, Bank!Exist(b, s, r)
    PROVE  Region(Bank!Transfer(b, s, r))
<1>1. /\ b \in Seq(Segment) /\ s < Bank!Count(b) /\ r < Bank!Count(b)
      /\ Bank!Count(b) \in Nat /\ Bank!Money(b) \in Int
  BY ListNumbers DEF Region, Bank!Exist, Numbers
<1>2. CASE ~(Bank!BalanceOf(b, s) > 0)
  BY <1>2 DEF Bank!Transfer
<1>3. CASE Bank!BalanceOf(b, s) > 0
  <2> DEFINE c == Bank!Add(b, s, -1)
             d == Bank!Add(c, r, 1)
  <2>1. Bank!Transfer(b, s, r) = d
    BY <1>3 DEF Bank!Transfer
  <2>2. SameShape(b, c) /\ Bank!Money(c) = Bank!Money(b) + -1
    <3>1. Bank!BalanceOf(b, s) \in Nat
      BY <1>1, AddKeeps
    <3>2. Bank!BalanceOf(b, s) + -1 >= 0 /\ -1 \in Int
      BY <1>3, <3>1
    <3> QED
      BY <1>1, <3>2, AddKeeps
  <2> HIDE DEF c
  <2>3. c \in Seq(Segment) /\ Bank!Count(c) = Bank!Count(b)
    BY <2>2 DEF SameShape, Bank!Count
  <2>4. SameShape(c, d) /\ Bank!Money(d) = Bank!Money(c) + 1
    <3>1. r < Bank!Count(c)
      BY <1>1, <2>3
    <3>2. Bank!BalanceOf(c, r) \in Nat
      BY <2>3, <3>1, AddKeeps
    <3>3. Bank!BalanceOf(c, r) + 1 >= 0 /\ 1 \in Int
      BY <3>2
    <3> QED
      BY <2>3, <3>1, <3>3, AddKeeps
  <2> HIDE DEF d
  <2>5. Bank!Count(d) = Bank!Count(b) /\ Bank!Money(d) = Bank!Money(b)
    <3>1. Bank!Count(d) = Bank!Count(b)
      BY <2>2, <2>4 DEF SameShape, Bank!Count
    <3>2. Bank!Money(d) = Bank!Money(b)
      BY <1>1, <2>2, <2>4
    <3> QED
      BY <3>1, <3>2
  <2>6. d \in Seq(Segment) /\ Len(d) >= 1 /\ \A i \in 1 .. Len(d) : Len(d[i].accounts) >= 1
    BY <2>2, <2>4 DEF SameShape, Region
  <2>7. Bank!Count(d) \in 1 .. MaxAccounts
    BY <2>5 DEF Region
  <2> QED
    BY <2>1, <2>5, <2>6, <2>7, RegionStep
<1> QED
  BY <1>2, <1>3

\* What the workers begin the run with.
Fresh == <<[parity |-> 0, accounts |-> [i \in 1 .. NbAccounts |-> InitBalance]]>>

\* init_tx makes a region.
LEMMA FreshRegion == Region(Fresh)
<1> DEFINE a == [i \in 1 .. NbAccounts |-> InitBalance]
           s == [parity |-> 0, accounts |-> a]
<1>1. /\ a \in Seq(Nat) /\ a \in Seq(Int) /\ Len(a) = NbAccounts /\ NbAccounts \in Nat \ {0}
      /\ InitBalance \in Nat /\ \A n \in 1 .. NbAccounts : a[n] = InitBalance
  <2>1. NbAccounts \in Nat \ {0} /\ InitBalance \in Nat
    BY BankNumbers
  <2>2. a \in [1 .. NbAccounts -> Nat]
    BY <2>1
  <2> QED
    BY <2>1, <2>2
<1> HIDE DEF a
<1>2. Bank!Sum(a) = InitBalance * NbAccounts
  <2> DEFINE sums == Bank!Sums(a)
             S == {n \in 0 .. NbAccounts : sums[n] = InitBalance * n}
  <2>1. sums[0] = 0 /\ \A n \in 1 .. NbAccounts : sums[n] = sums[n - 1] + InitBalance
    BY <1>1, SumsDef DEF Adds
  <2> HIDE DEF sums
  <2>2. 0 \in S
    BY <1>1, <2>1
  <2>3. ASSUME NEW n \in 1 .. NbAccounts, n - 1 \in S PROVE n \in S
    <3>1. sums[n] = InitBalance * (n - 1) + InitBalance
      BY <2>1, <2>3
    <3>2. InitBalance * (n - 1) + InitBalance = InitBalance * n
      BY <1>1
    <3> QED
      BY <1>1, <3>1, <3>2
  <2>4. S \in SUBSET (0 .. NbAccounts) /\ NbAccounts \in Nat
    BY <1>1
  <2> HIDE DEF S
  <2>5. S = 0 .. NbAccounts
    BY <2>2, <2>3, <2>4, Induction
  <2>6. NbAccounts \in S
    BY <1>1, <2>5
  <2> QED
    BY <1>1, <2>6 DEF S, sums, Bank!Sum
<1>3. s \in Segment /\ Worth(s) = InitBalance * NbAccounts /\ Len(s.accounts) = NbAccounts
  <2>1. s \in Segment /\ s.parity = 0 /\ s.accounts = a
    BY <1>1 DEF Segment
  <2>2. InitBalance * NbAccounts \in Int
    BY <1>1
  <2> HIDE DEF s
  <2> QED
    BY <1>1, <1>2, <2>1, <2>2 DEF Worth
<1>4. Fresh = <<s>>
  BY DEF Fresh, a
<1> HIDE DEF s
<1>5. /\ Fresh \in Seq(Segment) /\ Len(Fresh) = 1 /\ Fresh[1] = s
      /\ <<>> \in Seq(Segment) /\ Len(<<>>) = 0
  BY <1>3, <1>4
<1>6. Bank!Count(<<>>) = 0 /\ Bank!Money(<<>>) = 0
  <2>1. Bank!Counts(<<>>) = <<>> /\ Worths(<<>>) = <<>>
    BY DEF Bank!Counts, Worths
  <2> QED
    BY <2>1, MoneyIsWorth, SumEmpty DEF Bank!Count
<1> HIDE DEF Fresh
<1>7. Bank!Count(Fresh) = NbAccounts /\ Bank!Money(Fresh) = InitBalance * NbAccounts
  <2>1. Len(Fresh) = Len(<<>>) + 1 /\ \A i \in 1 .. Len(<<>>) : Fresh[i] = <<>>[i]
    BY <1>5
  <2>2. /\ Bank!Count(Fresh) = Bank!Count(<<>>) + Len(Fresh[Len(Fresh)].accounts)
        /\ Bank!Money(Fresh) = Bank!Money(<<>>) + Worth(Fresh[Len(Fresh)])
    BY <1>5, <2>1, ListOneMore
  <2>3. InitBalance * NbAccounts \in Int
    BY <1>1
  <2> QED
    BY <1>1, <1>3, <1>5, <1>6, <2>2, <2>3
<1>8. \A i \in 1 .. Len(Fresh) : Len(Fresh[i].accounts) >= 1
  BY <1>1, <1>3, <1>5
<1> QED
  BY <1>5, <1>7, <1>8, BankNumbers DEF Region

\* What the store can be is a list of segments.
LEMMA StoreType ==
    ASSUME NEW b, b = Bank!Start \/ b = Fresh \/ Region(b)
    PROVE  \A i \in DOMAIN b : b[i].parity \in Int /\ b[i].accounts \in Seq(Int)
<1>1. CASE b = Bank!Start
  <2> DEFINE s == [parity |-> 0, accounts |-> <<>>]
  <2>1. s.parity \in Int /\ s.accounts \in Seq(Int)
    OBVIOUS
  <2>2. b = <<s>>
    BY <1>1 DEF Bank!Start
  <2> HIDE DEF s
  <2>3. ASSUME NEW i \in DOMAIN b PROVE b[i] = s
    BY <2>2
  <2> QED
    BY <2>1, <2>3
<1>2. CASE Region(b)
  <2>1. \A i \in DOMAIN b : b[i] \in Segment
    BY <1>2 DEF Region
  <2> QED
    BY <2>1, WorthType
<1> QED
  BY <1>1, <1>2, FreshRegion

\* Nobody runs before all have initialized.
BankPhases ==
    \/ /\ \A t \in Workers : pc[t] = "init" /\ cntr[t] = 0
       /\ store = Bank!Start
    \/ /\ \A t \in Workers : pc[t] \in {"init", "initCheck", "ready"} /\ cntr[t] = 0
       /\ store = Fresh
    \/ /\ \A t \in Workers : pc[t] \notin {"init", "initCheck", "ready"}
       /\ Region(store)

\* A transaction that initializes: it has seen what the store is, or was before.
Initializes(t) ==
    /\ pc[t] = "init"
    /\ base[t] \in {Bank!Start, Fresh} /\ (base[t] = Fresh => store = Fresh)
    /\ \/ result[t] = "none" /\ local[t] = base[t]
       \/ result[t] = "true" /\ local[t] = Fresh

\* Any other, which leaves a region whenever it ends.
Works(t) ==
    \/ pc[t] = "initCheck" /\ result[t] \in {"none", "true"} /\ local[t] = Fresh
    \/ pc[t] \in {"long", "last"} /\ result[t] \in {"none", "true"} /\ Region(local[t])
    \/ pc[t] = "alloc" /\ result[t] \in {"none", "true", "nomem"} /\ Region(local[t])
    \/ pc[t] = "short" /\ result[t] \in {"none", "true", "false"} /\ Region(local[t])

\* A worker and its transaction fit together, and run() has not had its fill.
Fits(t) ==
    /\ t \notin open => result[t] = "none"
    /\ t \in open => Initializes(t) \/ Works(t)
    /\ pc[t] \in {"long", "alloc", "short", "again"} => cntr[t] < NbTxPerRun

\* The invariant of the bank: whoever commits leaves a region.
BankInv ==
    /\ Bank!TypeOK
    /\ base = [t \in Workers |-> base[t]] /\ local = [t \in Workers |-> local[t]]
    /\ BankPhases
    /\ \A t \in Workers : Fits(t)
    /\ Bank!NoFalseAlarm

\* It holds before anybody has initialized.
LEMMA BankBegin ==
    ASSUME Bank!Init
    PROVE  BankInv
<1> USE DEF Bank!Init, Bank!Memory!SerialInit, Bank!Memory!Nothing
<1>1. Bank!TypeOK
  <2>1. \A i \in DOMAIN store : store[i].parity \in Int /\ store[i].accounts \in Seq(Int)
    BY StoreType
  <2>2. /\ send \in [Workers -> 0 .. MaxAccounts - 1] /\ recv \in [Workers -> 0 .. MaxAccounts - 1]
        /\ count \in [Workers -> 1 .. MaxAccounts] /\ cntr \in [Workers -> 0 .. NbTxPerRun]
    BY BankNumbers
  <2>3. /\ pc \in [Workers -> Bank!Bodies \union {"ready", "pick", "again", "done"}]
        /\ open \subseteq Workers
        /\ result \in [Workers -> {"none", "true", "false", "null", "nomem"}]
        /\ error \in [Workers -> {"none", "consistency", "isolation", "exception"}]
    BY DEF Bank!Bodies
  <2> QED
    BY <2>1, <2>2, <2>3 DEF Bank!TypeOK
<1>2. BankPhases
  BY DEF BankPhases
<1>3. \A t \in Workers : Fits(t)
  BY DEF Fits
<1>4. base = [t \in Workers |-> base[t]] /\ local = [t \in Workers |-> local[t]]
  OBVIOUS
<1>5. Bank!NoFalseAlarm
  BY DEF Bank!NoFalseAlarm
<1> QED
  BY <1>1, <1>2, <1>3, <1>4, <1>5 DEF BankInv

\* Nothing changes for a worker when another one takes a step.
LEMMA OthersFit ==
    ASSUME NEW u \in Workers, Fits(u), UNCHANGED <<pc[u], result[u], local[u], base[u], cntr[u]>>,
           u \in open' <=> u \in open,
           store' = store \/ pc[u] # "init" \/ store' = Fresh
    PROVE  Fits(u)'
BY DEF Fits, Initializes, Works

\* It is about the variables of the bank alone.
LEMMA BankStutter ==
    ASSUME BankInv, UNCHANGED Bank!vars
    PROVE  BankInv'
<1> USE DEF Bank!vars, Bank!memoryVars, Bank!argVars, Bank!runVars
<1>1. Bank!TypeOK' /\ BankPhases' /\ Bank!NoFalseAlarm'
  BY DEF BankInv, Bank!TypeOK, BankPhases, Bank!NoFalseAlarm
<1>2. \A u \in Workers : Fits(u)'
  BY OthersFit DEF BankInv
<1> QED
  BY <1>1, <1>2 DEF BankInv

\* What the invariant says of the types.
LEMMA BankTypes ==
    ASSUME BankInv
    PROVE  /\ pc \in [Workers -> Bank!Bodies \union {"ready", "pick", "again", "done"}]
           /\ open \subseteq Workers
           /\ result \in [Workers -> {"none", "true", "false", "null", "nomem"}]
           /\ send \in [Workers -> 0 .. MaxAccounts - 1]
           /\ recv \in [Workers -> 0 .. MaxAccounts - 1]
           /\ count \in [Workers -> 1 .. MaxAccounts]
           /\ error \in [Workers -> {"none", "consistency", "isolation", "exception"}]
           /\ cntr \in [Workers -> 0 .. NbTxPerRun]
           /\ DOMAIN base = Workers /\ DOMAIN local = Workers
BY DEF BankInv, Bank!TypeOK

\* The store, and so what a transaction begins with.
LEMMA StoreKinds ==
    ASSUME BankInv, NEW t \in Workers
    PROVE  /\ store \in {Bank!Start, Fresh} \/ Region(store)
           /\ pc[t] = "init" => store \in {Bank!Start, Fresh}
           /\ pc[t] \in {"initCheck", "ready"} => store = Fresh
           /\ pc[t] \notin {"init", "initCheck", "ready"} => Region(store)
           /\ cntr[t] > 0 => Region(store)
BY DEF BankInv, BankPhases

\* A worker picks its next transaction.
LEMMA BankPicks ==
    ASSUME BankInv, NEW t \in Workers, Bank!Pick(t)
    PROVE  BankInv'
<1> USE DEF Bank!Pick, Bank!memoryVars, Bank!argVars, Bank!runVars
<1>1. PICK body \in IF cntr[t] < NbTxPerRun THEN {"long", "alloc"} ELSE {"last"} :
         pc' = [pc EXCEPT ![t] = body]
  OBVIOUS
<1>2. body \in {"long", "alloc", "last"} /\ (body # "last" => cntr[t] < NbTxPerRun)
  BY <1>1
<1>3. t \notin open /\ result[t] = "none"
  BY DEF BankInv, Fits, Initializes, Works
<1>4. Bank!TypeOK'
  BY <1>1, <1>2, BankTypes DEF BankInv, Bank!TypeOK, Bank!Bodies
<1>5. BankPhases'
  BY <1>1, <1>2, BankTypes DEF BankInv, BankPhases
<1>6. ASSUME NEW u \in Workers PROVE Fits(u)'
  <2>1. CASE u = t
    BY <1>1, <1>2, <1>3, <2>1, BankTypes DEF Fits
  <2>2. CASE u # t
    BY <1>1, <2>2, BankTypes, OthersFit DEF BankInv
  <2> QED
    BY <2>1, <2>2
<1> QED
  BY <1>4, <1>5, <1>6 DEF BankInv, Bank!NoFalseAlarm

\* It draws the accounts among as many as it has last seen.
LEMMA BankDraws ==
    ASSUME BankInv, NEW t \in Workers, Bank!PickShort(t)
    PROVE  BankInv'
<1> USE DEF Bank!PickShort, Bank!memoryVars, Bank!runVars
<1>1. PICK s \in 0 .. count[t] - 1, r \in 0 .. count[t] - 1 :
         send' = [send EXCEPT ![t] = s] /\ recv' = [recv EXCEPT ![t] = r]
  OBVIOUS
<1>2. s \in 0 .. MaxAccounts - 1 /\ r \in 0 .. MaxAccounts - 1
  <2>1. count[t] \in 1 .. MaxAccounts
    BY BankTypes
  <2> QED
    BY <2>1, BankNumbers
<1>3. pc' = [pc EXCEPT ![t] = "short"] /\ pc[t] \in {"again", "pick"} /\ cntr[t] < NbTxPerRun
  BY DEF BankInv, Fits
<1>4. t \notin open /\ result[t] = "none"
  BY DEF BankInv, Fits, Initializes, Works
<1>5. Bank!TypeOK'
  <2>1. /\ send' \in [Workers -> 0 .. MaxAccounts - 1]
        /\ recv' \in [Workers -> 0 .. MaxAccounts - 1]
        /\ pc' \in [Workers -> Bank!Bodies \union {"ready", "pick", "again", "done"}]
    BY <1>1, <1>2, <1>3, BankTypes DEF Bank!Bodies
  <2> QED
    BY <2>1 DEF BankInv, Bank!TypeOK
<1>6. BankPhases'
  BY <1>3, BankTypes DEF BankInv, BankPhases
<1>7. ASSUME NEW u \in Workers PROVE Fits(u)'
  <2>1. CASE u = t
    BY <1>3, <1>4, <2>1, BankTypes DEF Fits
  <2>2. CASE u # t
    BY <1>3, <2>2, BankTypes, OthersFit DEF BankInv
  <2> QED
    BY <2>1, <2>2
<1> QED
  BY <1>5, <1>6, <1>7 DEF BankInv, Bank!NoFalseAlarm

\* A transaction begins with what the store is.
LEMMA BankBegins ==
    ASSUME BankInv, NEW t \in Workers, Bank!Begin(t)
    PROVE  BankInv'
<1>0. pc[t] \in Bank!Bodies
  BY DEF Bank!Begin
<1>1. /\ t \notin open /\ open' = open \union {t} /\ result[t] = "none"
      /\ base' = [base EXCEPT ![t] = store] /\ local' = [local EXCEPT ![t] = store]
      /\ UNCHANGED <<store, pc, result, send, recv, count, cntr, error>>
  BY DEF BankInv, Fits, Bank!Begin, Bank!Memory!Begin, Bank!argVars, Bank!runVars
<1>2. Bank!TypeOK'
  BY <1>1 DEF BankInv, Bank!TypeOK
<1>3. BankPhases'
  BY <1>1 DEF BankInv, BankPhases
<1>4. ASSUME NEW u \in Workers PROVE Fits(u)'
  <2>1. CASE u = t
    <3>1. base'[t] = store /\ local'[t] = store /\ t \in open'
      BY <1>1, BankTypes
    <3>2. CASE pc[t] = "init"
      <4>1. store \in {Bank!Start, Fresh}
        BY <3>2, StoreKinds
      <4> QED
        BY <1>1, <2>1, <3>1, <3>2, <4>1 DEF Fits, Initializes
    <3>3. CASE pc[t] # "init"
      <4>1. \/ pc[t] = "initCheck" /\ store = Fresh
            \/ pc[t] \in {"long", "last", "alloc", "short"} /\ Region(store)
        <5>1. pc[t] = "initCheck" \/ pc[t] \in {"long", "last", "alloc", "short"}
          BY <1>0, <3>3 DEF Bank!Bodies
        <5>2. pc[t] \in {"long", "last", "alloc", "short"} => Region(store)
          BY StoreKinds
        <5>3. pc[t] = "initCheck" => store = Fresh
          BY StoreKinds
        <5>4. CASE pc[t] = "initCheck"
          BY <5>3, <5>4
        <5>5. CASE pc[t] \in {"long", "last", "alloc", "short"}
          BY <5>2, <5>5
        <5> QED
          BY <5>1, <5>4, <5>5
      <4>2. Works(t)'
        BY <1>1, <3>1, <4>1 DEF Works
      <4>3. Fits(t)
        BY DEF BankInv
      <4> QED
        BY <1>1, <2>1, <3>1, <4>2, <4>3 DEF Fits
    <3> QED
      BY <3>2, <3>3
  <2>2. CASE u # t
    BY <1>1, <2>2, BankTypes, OthersFit DEF BankInv
  <2> QED
    BY <2>1, <2>2
<1> QED
  BY <1>1, <1>2, <1>3, <1>4, BankTypes DEF BankInv, Bank!NoFalseAlarm

\* A body comes to its end.
LEMMA BankReturns ==
    ASSUME BankInv, NEW t \in Workers, NEW body, NEW ret, NEW b, Bank!Body(t, body, ret, b),
           ret \in {"none", "true", "false", "null", "nomem"},
           send' \in [Workers -> 0 .. MaxAccounts - 1],
           recv' \in [Workers -> 0 .. MaxAccounts - 1],
           \/ body = "init" /\ ret = "true" /\ b = Fresh
           \/ body = "initCheck" /\ ret = "true" /\ b = Fresh
           \/ body \in {"long", "last"} /\ ret = "true" /\ Region(b)
           \/ body = "alloc" /\ ret \in {"true", "nomem"} /\ Region(b)
           \/ body = "short" /\ ret \in {"true", "false"} /\ Region(b)
    PROVE  BankInv'
<1> USE DEF Bank!Body, Bank!runVars
<1>1. /\ pc[t] = body /\ t \in open /\ result[t] = "none"
      /\ local' = [local EXCEPT ![t] = b] /\ result' = [result EXCEPT ![t] = ret]
      /\ UNCHANGED <<store, open, base, pc, count, cntr, error>>
  OBVIOUS
<1>2. Bank!TypeOK'
  BY <1>1, BankTypes DEF BankInv, Bank!TypeOK
<1>3. BankPhases'
  BY <1>1 DEF BankInv, BankPhases
<1>4. local'[t] = b /\ result'[t] = ret
  BY <1>1, BankTypes
<1>5. Fits(t)
  BY DEF BankInv
<1>6. Fits(t)'
  <2>1. CASE body = "init"
    <3>1. Initializes(t)
      BY <1>1, <1>5, <2>1 DEF Fits, Works
    <3>2. Initializes(t)'
      BY <1>1, <1>4, <2>1, <3>1 DEF Initializes
    <3> QED
      BY <1>1, <1>4, <1>5, <2>1, <3>2 DEF Fits
  <2>2. CASE body # "init"
    <3>1. Works(t)'
      BY <1>1, <1>4, <2>2 DEF Works
    <3> QED
      BY <1>1, <1>4, <1>5, <3>1 DEF Fits
  <2> QED
    BY <2>1, <2>2
<1>7. ASSUME NEW u \in Workers PROVE Fits(u)'
  <2>1. CASE u # t
    BY <1>1, <2>1, BankTypes, OthersFit DEF BankInv
  <2> QED
    BY <1>6, <2>1
<1> QED
  BY <1>1, <1>2, <1>3, <1>7, BankTypes DEF BankInv, Bank!NoFalseAlarm

\* What a body finds.
LEMMA BankFinds ==
    ASSUME BankInv, NEW t \in Workers, t \in open, result[t] = "none"
    PROVE  /\ pc[t] = "init" => local[t] \in {Bank!Start, Fresh}
           /\ pc[t] = "initCheck" => local[t] = Fresh
           /\ pc[t] \in {"long", "last", "alloc", "short"} => Region(local[t])
<1>1. Initializes(t) \/ Works(t)
  BY DEF BankInv, Fits
<1>2. CASE Initializes(t)
  BY <1>2 DEF Initializes
<1>3. CASE Works(t)
  BY <1>3 DEF Works
<1> QED
  BY <1>1, <1>2, <1>3

\* init_tx writes the same, whoever was there before.
LEMMA BankInitializes ==
    ASSUME BankInv, NEW t \in Workers, Bank!InitTx(t)
    PROVE  BankInv'
<1> DEFINE b == [local[t] EXCEPT ![1].accounts = [i \in 1 .. NbAccounts |-> InitBalance]]
<1>1. Bank!Body(t, "init", "true", b) /\ UNCHANGED <<send, recv>>
  BY DEF Bank!InitTx, Bank!argVars
<1>2. pc[t] = "init" /\ t \in open /\ result[t] = "none"
  BY <1>1 DEF Bank!Body
<1>3. local[t] \in {Bank!Start, Fresh}
  BY <1>2, BankFinds
<1>4. b = Fresh
  <2> DEFINE a == [i \in 1 .. NbAccounts |-> InitBalance]
  <2>1. \A x : [<<[parity |-> 0, accounts |-> x]>> EXCEPT ![1].accounts = a]
                 = <<[parity |-> 0, accounts |-> a]>>
    <3> HIDE DEF a
    <3> QED
      OBVIOUS
  <2>2. b = [local[t] EXCEPT ![1].accounts = a] /\ Fresh = <<[parity |-> 0, accounts |-> a]>>
    BY DEF Fresh
  <2>3. \E x : local[t] = <<[parity |-> 0, accounts |-> x]>>
    BY <1>3 DEF Bank!Start, Fresh
  <2> HIDE DEF a, b
  <2> QED
    BY <2>1, <2>2, <2>3
<1> HIDE DEF b
<1> QED
  BY <1>1, <1>4, BankTypes, BankReturns

\* The check of init() finds what init_tx has written.
LEMMA BankChecksInit ==
    ASSUME BankInv, NEW t \in Workers, Bank!InitCheckTx(t)
    PROVE  BankInv'
<1> DEFINE ret == Bank!Truth(Bank!IsPrefix(<<InitBalance>>, local[t][1].accounts))
<1>1. Bank!Body(t, "initCheck", ret, local[t]) /\ UNCHANGED <<send, recv>>
  BY DEF Bank!InitCheckTx, Bank!argVars
<1>2. pc[t] = "initCheck" /\ t \in open /\ result[t] = "none"
  BY <1>1 DEF Bank!Body
<1>3. local[t] = Fresh
  BY <1>2, BankFinds
<1>4. ret = "true"
  <2> DEFINE a == [i \in 1 .. NbAccounts |-> InitBalance]
  <2>1. Fresh[1].accounts = a
    BY DEF Fresh
  <2>2. a \in Seq(Nat) /\ Len(a) = NbAccounts /\ NbAccounts >= 1 /\ a[1] = InitBalance
    <3>1. NbAccounts \in Nat \ {0} /\ InitBalance \in Nat
      BY BankNumbers
    <3>2. a \in [1 .. NbAccounts -> Nat]
      BY <3>1
    <3> QED
      BY <3>1, <3>2
  <2> HIDE DEF a
  <2>3. Bank!IsPrefix(<<InitBalance>>, a)
    BY <2>2 DEF Bank!IsPrefix
  <2> QED
    BY <1>3, <2>1, <2>3 DEF Bank!Truth
<1> HIDE DEF ret
<1> QED
  BY <1>1, <1>3, <1>4, BankTypes, BankReturns

\* A long transaction finds the money that it looks for.
LEMMA BankSumsUp ==
    ASSUME BankInv, NEW t \in Workers, Bank!LongTx(t)
    PROVE  BankInv'
<1>1. PICK body \in {"long", "last"} :
         Bank!Body(t, body, Bank!Truth(Bank!Consistent(local[t])), local[t])
  BY DEF Bank!LongTx
<1>2. UNCHANGED <<send, recv>>
  BY DEF Bank!LongTx, Bank!argVars
<1>3. pc[t] \in {"long", "last"} /\ t \in open /\ result[t] = "none"
  BY <1>1 DEF Bank!Body
<1>4. Region(local[t])
  BY <1>3, BankFinds
<1>5. Bank!Truth(Bank!Consistent(local[t])) = "true"
  BY <1>4, RegionConsistent DEF Bank!Truth
<1> QED
  BY <1>1, <1>2, <1>4, <1>5, BankTypes, BankReturns

\* An account comes or goes, and the first segment stays.
LEMMA BankAllocates ==
    ASSUME BankInv, NEW t \in Workers, Bank!AllocTx(t)
    PROVE  BankInv'
<1> DEFINE b == local[t]
<1>1. pc[t] = "alloc" /\ t \in open /\ UNCHANGED <<send, recv>>
  BY DEF Bank!AllocTx, Bank!argVars
<1>2. PICK trigger \in {0, MaxAccounts - 1} :
         IF ~Bank!Destroys(b, trigger)
         THEN \/ Bank!Body(t, "alloc", "true", Bank!Grow(b))
              \/ Len(Bank!Last(b).accounts) = NbAccounts /\ Bank!Body(t, "alloc", "nomem", b)
         ELSE IF Len(b) = 1 /\ Len(b[1].accounts) = 1
         THEN Bank!Body(t, "alloc", "null", b)
         ELSE Bank!Body(t, "alloc", "true", Bank!Shrink(b))
  BY DEF Bank!AllocTx
<1>3. result[t] = "none"
  BY <1>2 DEF Bank!Body
<1>4. Region(b) /\ Bank!Count(b) \in Nat
  <2>1. Region(b)
    BY <1>1, <1>3, BankFinds
  <2> QED
    BY <2>1, ListNumbers DEF Region, Numbers
<1> HIDE DEF b
<1>5. CASE ~Bank!Destroys(b, trigger)
  <2>1. Bank!Count(b) < MaxAccounts
    BY <1>4, <1>5, BankNumbers DEF Bank!Destroys
  <2>2. Region(Bank!Grow(b))
    BY <1>4, <2>1, GrowKeeps
  <2>3. CASE Bank!Body(t, "alloc", "true", Bank!Grow(b))
    BY <1>1, <2>2, <2>3, BankTypes, BankReturns
  <2>4. CASE Bank!Body(t, "alloc", "nomem", b)
    BY <1>1, <1>4, <2>4, BankTypes, BankReturns
  <2> QED
    BY <1>2, <1>5, <2>3, <2>4
<1>6. CASE Bank!Destroys(b, trigger)
  <2>1. Bank!Count(b) > 2
    BY <1>6 DEF Bank!Destroys
  <2>2. ~(Len(b) = 1 /\ Len(b[1].accounts) = 1)
    <3> SUFFICES ASSUME Len(b) = 1, Len(b[1].accounts) = 1 PROVE FALSE
      OBVIOUS
    <3>1. Len(b[1].accounts) > 2
      BY <1>4, <2>1, TwoSegments
    <3> QED
      BY <3>1
  <2>3. Region(Bank!Shrink(b))
    BY <1>4, <2>1, ShrinkKeeps
  <2>4. Bank!Body(t, "alloc", "true", Bank!Shrink(b))
    BY <1>2, <1>6, <2>2
  <2> QED
    BY <1>1, <2>3, <2>4, BankTypes, BankReturns
<1> QED
  BY <1>5, <1>6

\* The arguments count down, and stay indices.
LEMMA BankCountsDown ==
    ASSUME BankInv, NEW t \in Workers, Region(local[t]), NEW i \in 1 .. Len(local[t]) + 1,
           Bank!CountDown(t, i)
    PROVE  /\ send' \in [Workers -> 0 .. MaxAccounts - 1]
           /\ recv' \in [Workers -> 0 .. MaxAccounts - 1]
<1> DEFINE s == Bank!LeftOf(local[t], send[t], i)
           r == Bank!LeftOf(local[t], recv[t], i)
<1>1. send' = [send EXCEPT ![t] = s] /\ recv' = [recv EXCEPT ![t] = r]
  BY DEF Bank!CountDown
<1>2. /\ send \in [Workers -> 0 .. MaxAccounts - 1] /\ recv \in [Workers -> 0 .. MaxAccounts - 1]
      /\ send[t] \in Nat /\ recv[t] \in Nat /\ send[t] <= MaxAccounts - 1
      /\ recv[t] <= MaxAccounts - 1 /\ MaxAccounts \in Nat
  BY BankTypes, BankNumbers
<1>3. local[t] \in Seq(Segment)
  BY DEF Region
<1>4. s \in 0 .. send[t] /\ r \in 0 .. recv[t]
  BY <1>2, <1>3, LeftRange
<1> HIDE DEF s, r
<1>5. s \in 0 .. MaxAccounts - 1 /\ r \in 0 .. MaxAccounts - 1
  BY <1>2, <1>4
<1> QED
  BY <1>1, <1>2, <1>5

\* A transfer is made among accounts that are there, or not at all.
LEMMA BankTransfers ==
    ASSUME BankInv, NEW t \in Workers, Bank!ShortTx(t)
    PROVE  BankInv'
<1> DEFINE b == local[t]
           exist == Bank!Exist(b, send[t], recv[t])
           c == IF exist THEN Bank!Transfer(b, send[t], recv[t]) ELSE b
<1>1. /\ pc[t] = "short" /\ t \in open /\ Bank!Body(t, "short", Bank!Truth(exist), c)
      /\ Bank!CountDown(t, Len(b) + 1)
  BY DEF Bank!ShortTx
<1>2. result[t] = "none"
  BY <1>1 DEF Bank!Body
<1>3. Region(b) /\ Len(b) + 1 \in 1 .. Len(b) + 1
  <2>1. Region(b)
    BY <1>1, <1>2, BankFinds
  <2>2. Len(b) \in Nat
    BY <2>1 DEF Region
  <2> QED
    BY <2>1, <2>2
<1>4. /\ send' \in [Workers -> 0 .. MaxAccounts - 1]
      /\ recv' \in [Workers -> 0 .. MaxAccounts - 1]
  BY <1>1, <1>3, BankCountsDown
<1>5. Region(c)
  <2>1. send[t] \in Nat /\ recv[t] \in Nat
    BY BankTypes
  <2>2. exist => Region(Bank!Transfer(b, send[t], recv[t]))
    BY <1>3, <2>1, TransferKeeps
  <2> QED
    BY <1>3, <2>2
<1>6. Bank!Truth(exist) \in {"true", "false"}
  BY DEF Bank!Truth
<1> HIDE DEF c, exist
<1> QED
  BY <1>1, <1>4, <1>5, <1>6, BankReturns

\* A transaction that is aborted leaves nothing, and starts over.
LEMMA BankRetries ==
    ASSUME BankInv, NEW t \in Workers, Bank!Retry(t)
    PROVE  BankInv'
<1>1. /\ t \in open /\ open' = open \ {t} /\ result' = [result EXCEPT ![t] = "none"]
      /\ base' = [base EXCEPT ![t] = Bank!Memory!Nothing]
      /\ local' = [local EXCEPT ![t] = Bank!Memory!Nothing]
      /\ UNCHANGED <<store, pc, count, cntr, error>>
  BY DEF Bank!Retry, Bank!Memory!Abort, Bank!Memory!Over, Bank!runVars
<1>2. /\ send' \in [Workers -> 0 .. MaxAccounts - 1]
      /\ recv' \in [Workers -> 0 .. MaxAccounts - 1]
  <2>1. CASE pc[t] = "short" /\ result[t] = "none"
    <3>1. Region(local[t])
      BY <1>1, <2>1, BankFinds
    <3>2. \E i \in 1 .. Len(local[t]) + 1 : Bank!CountDown(t, i)
      BY <2>1 DEF Bank!Retry
    <3> QED
      BY <3>1, <3>2, BankCountsDown
  <2>2. CASE ~(pc[t] = "short" /\ result[t] = "none")
    BY <2>2, BankTypes DEF Bank!Retry, Bank!argVars
  <2> QED
    BY <2>1, <2>2
<1>3. Bank!TypeOK'
  BY <1>1, <1>2, BankTypes DEF BankInv, Bank!TypeOK
<1>4. BankPhases'
  BY <1>1 DEF BankInv, BankPhases
<1>5. ASSUME NEW u \in Workers PROVE Fits(u)'
  <2>1. CASE u = t
    BY <1>1, <2>1, BankTypes DEF BankInv, Fits
  <2>2. CASE u # t
    BY <1>1, <2>2, BankTypes, OthersFit DEF BankInv
  <2> QED
    BY <2>1, <2>2
<1> QED
  BY <1>1, <1>3, <1>4, <1>5, BankTypes DEF BankInv, Bank!NoFalseAlarm

\* A transaction that commits, whatever it leads to.
Committed(t) ==
    /\ t \in open /\ open' = open \ {t} /\ result' = [result EXCEPT ![t] = "none"]
    /\ base' = [base EXCEPT ![t] = Bank!Memory!Nothing]
    /\ local' = [local EXCEPT ![t] = Bank!Memory!Nothing]
    /\ \/ local[t] = base[t] /\ UNCHANGED store
       \/ base[t] = store /\ store' = local[t]
    /\ Bank!Returns(t)
    /\ UNCHANGED <<send, recv>>

\* What a commit is.
LEMMA BankCommitted ==
    ASSUME BankInv, NEW t \in Workers, Bank!Commit(t)
    PROVE  Committed(t) /\ result[t] \notin {"none", "null"} /\ (Initializes(t) \/ Works(t))
BY DEF Bank!Commit, Bank!Memory!Commit, Bank!Memory!Over, Bank!argVars, Committed, BankInv, Fits

\* The first two transactions of each worker: they leave what init() writes.
LEMMA BankCommitsFirst ==
    ASSUME BankInv, NEW t \in Workers, Bank!Commit(t), pc[t] \in {"init", "initCheck"}
    PROVE  BankInv'
<1>1. Committed(t) /\ result[t] \notin {"none", "null"} /\ (Initializes(t) \/ Works(t))
  BY BankCommitted
<1>2. result[t] = "true" /\ local[t] = Fresh /\ (base[t] = Fresh => store = Fresh)
  <2>1. CASE pc[t] = "init"
    BY <1>1, <2>1 DEF Initializes, Works
  <2>2. CASE pc[t] = "initCheck"
    <3>1. Works(t) /\ store = Fresh
      BY <1>1, <2>2, StoreKinds DEF Initializes
    <3> QED
      BY <1>1, <2>2, <3>1 DEF Works
  <2> QED
    BY <2>1, <2>2
<1>3. store' = Fresh
  BY <1>1, <1>2 DEF Committed
<1>4. PICK to \in {"initCheck", "ready"} :
         pc' = [pc EXCEPT ![t] = to] /\ UNCHANGED <<count, cntr, error>>
  <2>1. CASE pc[t] = "init"
    BY <1>1, <2>1 DEF Committed, Bank!Returns, Bank!Proceeds, Bank!runVars
  <2>2. CASE pc[t] = "initCheck"
    BY <1>1, <1>2, <2>2 DEF Committed, Bank!Returns, Bank!Proceeds, Bank!runVars
  <2> QED
    BY <2>1, <2>2
<1>5. Bank!TypeOK'
  <2>1. \A i \in DOMAIN store' : store'[i].parity \in Int /\ store'[i].accounts \in Seq(Int)
    BY <1>3, StoreType
  <2>2. pc' \in [Workers -> Bank!Bodies \union {"ready", "pick", "again", "done"}]
    BY <1>4, BankTypes DEF Bank!Bodies
  <2>3. /\ result' \in [Workers -> {"none", "true", "false", "null", "nomem"}]
        /\ open' \subseteq Workers
    BY <1>1, BankTypes DEF Committed
  <2> QED
    BY <1>1, <1>4, <2>1, <2>2, <2>3, BankTypes DEF Bank!TypeOK, Committed
<1>6. BankPhases'
  <2>1. \A u \in Workers : pc[u] \in {"init", "initCheck", "ready"} /\ cntr[u] = 0
    BY DEF BankInv, BankPhases
  <2> QED
    BY <1>3, <1>4, <2>1, BankTypes DEF BankPhases
<1>7. ASSUME NEW u \in Workers PROVE Fits(u)'
  <2>1. CASE u = t
    BY <1>1, <1>4, <2>1, BankTypes DEF Committed, Fits
  <2>2. CASE u # t
    <3>1. /\ UNCHANGED <<pc[u], result[u], local[u], base[u], cntr[u]>>
          /\ u \in open' <=> u \in open
      BY <1>1, <1>4, <2>2, BankTypes DEF Committed
    <3> QED
      BY <1>3, <3>1, OthersFit DEF BankInv
  <2> QED
    BY <2>1, <2>2
<1>8. base' = [u \in Workers |-> base'[u]] /\ local' = [u \in Workers |-> local'[u]]
  BY <1>1, BankTypes DEF Committed
<1> QED
  BY <1>4, <1>5, <1>6, <1>7, <1>8 DEF BankInv, Bank!NoFalseAlarm

\* What run() does of a transaction's answer: none that it gets stops it with a lie.
LEMMA BankGoesOn ==
    ASSUME BankInv, NEW t \in Workers, Bank!Commit(t), pc[t] \notin {"init", "initCheck"}
    PROVE  /\ \E to \in {"pick", "again", "done"} :
                 /\ pc' = [pc EXCEPT ![t] = to]
                 /\ to = "again" => cntr' = cntr /\ cntr[t] < NbTxPerRun
           /\ cntr' = cntr \/ (cntr[t] < NbTxPerRun /\ cntr' = [cntr EXCEPT ![t] = @ + 1])
           /\ count' \in [Workers -> 1 .. MaxAccounts]
           /\ \E kind \in {"none", "exception"} :
                 error' = error \/ error' = [error EXCEPT ![t] = kind]
<1>1. Committed(t) /\ result[t] \notin {"none", "null"} /\ Works(t)
  BY BankCommitted DEF Initializes
<1>2. Bank!Returns(t) /\ count \in [Workers -> 1 .. MaxAccounts]
  BY <1>1, BankTypes DEF Committed
<1>3. pc[t] \in {"long", "alloc", "short"} => cntr[t] < NbTxPerRun
  BY DEF BankInv, Fits
<1> USE DEF Bank!Stops, Bank!NextTx, Bank!Proceeds, Bank!runVars
<1>4. CASE pc[t] = "long"
  <2>1. result[t] = "true" /\ Region(local[t])
    BY <1>1, <1>4 DEF Works
  <2>2. Bank!NextTx(t, Bank!Count(local[t]))
    BY <1>2, <1>4, <2>1 DEF Bank!Returns
  <2>3. Bank!Count(local[t]) \in 1 .. MaxAccounts
    BY <2>1 DEF Region
  <2> QED
    BY <1>2, <1>3, <1>4, <2>2, <2>3
<1>5. CASE pc[t] = "alloc"
  <2>1. Bank!NextTx(t, count[t]) \/ Bank!Stops(t, "exception")
    BY <1>2, <1>5 DEF Bank!Returns
  <2> QED
    BY <1>2, <1>3, <1>5, <2>1
<1>6. CASE pc[t] = "short"
  <2>1. Bank!NextTx(t, count[t]) \/ Bank!Proceeds(t, "again")
    BY <1>2, <1>6 DEF Bank!Returns
  <2> QED
    BY <1>2, <1>3, <1>6, <2>1
<1>7. CASE pc[t] = "last"
  <2>1. result[t] = "true"
    BY <1>1, <1>7 DEF Works
  <2>2. Bank!Stops(t, "none")
    BY <1>2, <1>7, <2>1 DEF Bank!Returns
  <2> QED
    BY <1>2, <2>2
<1> QED
  BY <1>1, <1>4, <1>5, <1>6, <1>7 DEF Works

\* The transactions of run(): each leaves a region.
LEMMA BankCommitsLater ==
    ASSUME BankInv, NEW t \in Workers, Bank!Commit(t), pc[t] \notin {"init", "initCheck"}
    PROVE  BankInv'
<1>1. Committed(t) /\ Works(t)
  BY BankCommitted DEF Initializes
<1>2. Region(local[t])
  BY <1>1 DEF Works
<1>3. /\ \A u \in Workers : pc[u] \notin {"init", "initCheck", "ready"}
      /\ Region(store)
  <2>1. pc[t] # "ready"
    BY <1>1 DEF Works
  <2> QED
    BY <2>1 DEF BankInv, BankPhases
<1>4. Region(store')
  BY <1>1, <1>2, <1>3 DEF Committed
<1>5. PICK to \in {"pick", "again", "done"} :
         /\ pc' = [pc EXCEPT ![t] = to]
         /\ to = "again" => cntr' = cntr /\ cntr[t] < NbTxPerRun
  BY BankGoesOn
<1>6. /\ cntr' \in [Workers -> 0 .. NbTxPerRun] /\ count' \in [Workers -> 1 .. MaxAccounts]
      /\ to = "again" => cntr'[t] < NbTxPerRun
      /\ \A u \in Workers \ {t} : cntr'[u] = cntr[u]
  <2>1. cntr \in [Workers -> 0 .. NbTxPerRun] /\ NbTxPerRun \in Nat
    BY BankTypes, BankNumbers
  <2>2. \/ cntr' = cntr
        \/ cntr[t] < NbTxPerRun /\ cntr' = [cntr EXCEPT ![t] = @ + 1]
    BY BankGoesOn
  <2>3. count' \in [Workers -> 1 .. MaxAccounts]
    BY BankGoesOn
  <2> QED
    BY <1>5, <2>1, <2>2, <2>3
<1>7. error' \in [Workers -> {"none", "exception"}]
  <2>1. error \in [Workers -> {"none", "exception"}]
    BY BankTypes DEF BankInv, Bank!NoFalseAlarm
  <2> QED
    BY <2>1, BankGoesOn
<1>8. Bank!TypeOK'
  <2>1. \A i \in DOMAIN store' : store'[i].parity \in Int /\ store'[i].accounts \in Seq(Int)
    BY <1>4, StoreType
  <2>2. pc' \in [Workers -> Bank!Bodies \union {"ready", "pick", "again", "done"}]
    BY <1>5, BankTypes DEF Bank!Bodies
  <2>3. /\ result' \in [Workers -> {"none", "true", "false", "null", "nomem"}]
        /\ open' \subseteq Workers
    BY <1>1, BankTypes DEF Committed
  <2> QED
    BY <1>1, <1>6, <1>7, <2>1, <2>2, <2>3, BankTypes DEF Bank!TypeOK, Committed
<1>9. BankPhases'
  BY <1>3, <1>4, <1>5, BankTypes DEF BankPhases
<1>10. ASSUME NEW u \in Workers PROVE Fits(u)'
  <2>1. CASE u = t
    BY <1>1, <1>5, <1>6, <2>1, BankTypes DEF Committed, Fits
  <2>2. CASE u # t
    <3>1. /\ UNCHANGED <<pc[u], result[u], local[u], base[u], cntr[u]>>
          /\ u \in open' <=> u \in open
      BY <1>1, <1>5, <1>6, <2>2, BankTypes DEF Committed
    <3> QED
      BY <1>3, <3>1, OthersFit DEF BankInv
  <2> QED
    BY <2>1, <2>2
<1>11. base' = [u \in Workers |-> base'[u]] /\ local' = [u \in Workers |-> local'[u]]
  BY <1>1, BankTypes DEF Committed
<1> QED
  BY <1>7, <1>8, <1>9, <1>10, <1>11 DEF BankInv, Bank!NoFalseAlarm

\* The round of run() starts when all have initialized.
LEMMA BankStarts ==
    ASSUME BankInv, Bank!StartRun
    PROVE  BankInv'
<1>1. /\ \A t \in Workers : pc[t] = "ready"
      /\ pc' = [t \in Workers |-> "pick"]
      /\ UNCHANGED <<store, open, base, local, result, send, recv, count, cntr, error>>
  BY DEF Bank!StartRun, Bank!memoryVars, Bank!argVars, Bank!runVars
<1>2. Bank!TypeOK'
  BY <1>1 DEF BankInv, Bank!TypeOK
<1>3. BankPhases'
  <2>1. Workers # {}
    BY GradingAssumption DEF Barrier!SpinAssumption
  <2>2. store = Fresh
    BY <1>1, <2>1, StoreKinds
  <2> QED
    BY <1>1, <2>2, FreshRegion DEF BankPhases
<1>4. ASSUME NEW u \in Workers PROVE Fits(u)'
  <2>1. u \notin open /\ result[u] = "none"
    BY <1>1 DEF BankInv, Fits, Initializes, Works
  <2> QED
    BY <1>1, <2>1 DEF Fits
<1> QED
  BY <1>1, <1>2, <1>3, <1>4 DEF BankInv, Bank!NoFalseAlarm

\* Every step of the bank keeps its invariant.
LEMMA BankStep ==
    ASSUME BankInv, [Bank!Next]_Bank!vars
    PROVE  BankInv'
<1>1. CASE UNCHANGED Bank!vars
  BY <1>1, BankStutter
<1>2. CASE Bank!StartRun
  BY <1>2, BankStarts
<1>3. ASSUME NEW t \in Workers, Bank!Goes(t) PROVE BankInv'
  <2>1. CASE Bank!Bodily(t)
    BY <2>1, BankInitializes, BankChecksInit, BankSumsUp, BankAllocates, BankTransfers
       DEF Bank!Bodily
  <2>2. CASE Bank!Commit(t)
    BY <2>2, BankCommitsFirst, BankCommitsLater
  <2> QED
    BY <1>3, <2>1, <2>2, BankPicks, BankDraws, BankBegins DEF Bank!Goes
<1>4. ASSUME NEW t \in Workers, Bank!Retry(t) PROVE BankInv'
  BY <1>4, BankRetries
<1> QED
  BY <1>1, <1>2, <1>3, <1>4 DEF Bank!Next

\* The invariant says what is promised.
LEMMA BankSafe ==
    ASSUME BankInv
    PROVE  Bank!TypeOK /\ Bank!MoneyKept /\ Bank!FirstSegmentStays /\ Bank!NoFalseAlarm
<1>1. Bank!MoneyKept
  <2>1. ASSUME NEW t \in Workers, pc[t] = "ready" \/ cntr[t] > 0 PROVE Region(store)
    BY <2>1, StoreKinds, FreshRegion
  <2> QED
    BY <2>1, RegionConsistent DEF Bank!MoneyKept
<1>2. Bank!FirstSegmentStays
  BY DEF BankInv, Fits, Initializes, Works, Bank!FirstSegmentStays
<1> QED
  BY <1>1, <1>2 DEF BankInv

-----------------------------------------------------------------------------
(* The whole *)

GradingInv ==
    /\ part \in {"barrier", "check", "rounds", "libs", "bank"}
    /\ part = "barrier" => BarrierInv
    /\ part = "check" => CheckInv
    /\ part = "rounds" => RoundsInv
    /\ part = "libs" => LibsInv
    /\ part = "bank" => BankInv

\* Whichever part runs, its invariant holds at first.
LEMMA InitGrading == Init => GradingInv /\ (part = "barrier" => Barrier!Sync!SyncInit)
BY GradingAssumption, BarrierBegin, CheckBegin, RoundsBegin, LibsBegin, BankBegin
   DEF Init, GradingInv

\* A step of the whole is one of the part that runs.
LEMMA OnePart ==
    ASSUME [Next]_vars
    PROVE  /\ part' = part
           /\ part = "barrier" => [Barrier!Next]_Barrier!vars
           /\ part = "check" => [Check!Next]_Check!vars
           /\ part = "rounds" => [Rounds!Next]_Rounds!vars
           /\ part = "libs" => [Libs!Next]_Libs!vars
           /\ part = "bank" => [Bank!Next]_Bank!vars
<1>1. CASE UNCHANGED vars
  BY <1>1 DEF vars, meetVars, barrierVars, checkVars, roundVars, libVars, bankVars,
              Bank!vars, Bank!memoryVars, Bank!argVars, Bank!runVars, Barrier!vars,
              Check!vars, Check!syncVars, Check!txVars, Rounds!vars, Rounds!syncVars,
              Rounds!workVars, Libs!vars
<1>2. CASE Next
  BY <1>2 DEF Next, BarrierOnly, CheckOnly, RoundsOnly, LibsOnly, BankOnly
<1> QED
  BY <1>1, <1>2

\* Whichever part runs, its steps keep its invariant.
LEMMA NextGrading == GradingInv /\ [Next]_vars => GradingInv'
<1> SUFFICES ASSUME GradingInv, [Next]_vars PROVE GradingInv'
  OBVIOUS
<1>1. CASE part = "barrier"
  <2>1. [Barrier!Next]_Barrier!vars /\ BarrierInv /\ part' = "barrier"
    BY <1>1, OnePart DEF GradingInv
  <2>2. UNCHANGED Barrier!vars \/ \E t \in Workers : Barrier!Step(t)
    BY <2>1 DEF Barrier!Next, Barrier!Spin
  <2> QED
    BY <2>1, <2>2, BarrierStep, BarrierStutter DEF GradingInv
<1>2. CASE part = "check"
  BY <1>2, OnePart, CheckStep DEF GradingInv
<1>3. CASE part = "rounds"
  BY <1>3, OnePart, RoundsStep DEF GradingInv
<1>4. CASE part = "libs"
  BY <1>4, GradingAssumption, OnePart, LibsStep DEF GradingInv
<1>5. CASE part = "bank"
  BY <1>5, OnePart, BankStep DEF GradingInv
<1> QED
  BY <1>1, <1>2, <1>3, <1>4, <1>5 DEF GradingInv

\* In every part, the parts being separate: the invariants above.
THEOREM GradingInvariance == Spec => []GradingInv
BY InitGrading, NextGrading, PTL DEF Spec

\* Two atomics and no lock make a barrier: nobody returns from its k-th call before all
\* have made theirs, however often the two are reused and however slow a thread is.
THEOREM BarrierMeets == Spec => ImplementsSyncPoint
<1>1. GradingInv /\ [Next]_vars => [part = "barrier" => Barrier!Sync!SyncNext]_meetVars
  <2> SUFFICES ASSUME GradingInv, [Next]_vars, part = "barrier"
               PROVE  Barrier!Sync!SyncNext \/ UNCHANGED meetVars
    OBVIOUS
  <2>1. [Barrier!Next]_Barrier!vars /\ BarrierInv
    BY OnePart DEF GradingInv
  <2>2. UNCHANGED Barrier!vars \/ \E t \in Workers : Barrier!Step(t)
    BY <2>1 DEF Barrier!Next, Barrier!Spin
  <2> QED
    BY <2>1, <2>2, BarrierStep, BarrierStutter
<1>2. GradingInv => (part = "barrier" => Barrier!TypeOK)
  BY DEF GradingInv, BarrierInv
<1> QED
  BY <1>1, <1>2, InitGrading, GradingInvariance, PTL DEF Spec, ImplementsSyncPoint

\* The check of the bank never accuses an atomic library, and when every worker comes
\* back without an error the library has lost no update, for any number of workers and
\* transactions.
THEOREM CheckIsSound == Spec => []CheckSound
<1>1. GradingInv => CheckSound
  BY CheckSafe DEF GradingInv, CheckSound, CheckInv
<1> QED
  BY <1>1, GradingInvariance, PTL

\* nbready and status serve round after round, and yet no two rounds overlap; the master
\* reads the verdict of its own round.
THEOREM RoundsAreSound == Spec => []RoundsSound
<1>1. GradingInv => RoundsSound
  BY RoundsSafe DEF GradingInv, RoundsSound, RoundsInv
<1> QED
  BY <1>1, GradingInvariance, PTL

\* main measures a library only when its region is there, although bounded_run waits
\* once and without a predicate, and leaves nothing behind when it returns.
THEOREM LibrariesAreSound == Spec => []LibrariesSound
<1>1. LibsInv => Libs!MeasureSeesRegion
  BY DEF LibsInv, ModuleMatches, Libs!MeasureSeesRegion
<1>2. GradingInv => LibrariesSound
  BY <1>1 DEF GradingInv, LibrariesSound, LibsInv
<1> QED
  BY <1>2, GradingInvariance, PTL
\* Transfers, new accounts and freed ones make and lose no money, balances are never
\* negative, and the segment that the region starts with is never freed: for any number of
\* workers, accounts and transactions, and whatever the library aborts.
THEOREM BankIsSound == Spec => []BankSound
<1>1. GradingInv => BankSound
  BY BankSafe DEF GradingInv, BankSound
<1> QED
  BY <1>1, GradingInvariance, PTL

\* The bank accuses no library that keeps its promise: neither the check of init() nor the
\* sum of a long transaction, the last one included, ever fails.
THEOREM NobodyAccused == Spec => []NoFalseAlarm
<1>1. GradingInv => NoFalseAlarm
  BY BankSafe DEF GradingInv, NoFalseAlarm
<1> QED
  BY <1>1, GradingInvariance, PTL
===============================================================================
