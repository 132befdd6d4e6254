------------------------------- MODULE Counters -------------------------------
(***************************************************************************)
(* counter1.c to counter4.c of sync-examples, and the playground, whose    *)
(* Lock does nothing yet: threads that increment one shared counter.  Init *)
(* chooses the program.  An unprotected increment is a load and a store:   *)
(* the Makefile of sync-examples gives no -O, and that of the playground   *)
(* gives -O2, but the access is a call into another translation unit.  A   *)
(* compiler that keeps counter1's counter in a register would do worse.    *)
(***************************************************************************)
EXTENDS Naturals, FiniteSets

CONSTANTS
    Threads,
    RUNS

CountersAssumption == IsFiniteSet(Threads) /\ RUNS \in Nat \ {0}

VARIABLES
    program,
    counter, lock,
    checkCounter,   \* check_counter of the playground
    pc, r, local    \* of each thread: its next step, the runs it has finished, what it loaded

Programs == {"counter1", "counter2", "counter3", "counter4", "playground"}

vars == <<program, counter, lock, checkCounter, pc, r, local>>

Expected == RUNS * Cardinality(Threads)
Joined == \A t \in Threads : r[t] = RUNS

TypeOK ==
    /\ program \in Programs
    /\ counter \in 0 .. Expected
    /\ lock = (\E t \in Threads : pc[t] \in {"load", "store", "release"} /\ program = "counter2")
    /\ checkCounter \in 0 .. Expected
    /\ pc \in [Threads -> {"start", "load", "store", "release", "count"}]
    /\ r \in [Threads -> 0 .. RUNS] /\ local \in [Threads -> 0 .. Expected]

Init ==
    /\ program \in Programs
    /\ counter = 0 /\ lock = FALSE /\ checkCounter = 0
    /\ pc = [t \in Threads |-> "start"]
    /\ r = [t \in Threads |-> 0] /\ local = [t \in Threads |-> 0]

Goto(t, from, to) == r[t] < RUNS /\ pc[t] = from /\ pc' = [pc EXCEPT ![t] = to]

NextRun(t) == r' = [r EXCEPT ![t] = @ + 1]

Load(t, from) ==
    /\ Goto(t, from, "store")
    /\ local' = [local EXCEPT ![t] = counter]
    /\ UNCHANGED <<counter, r>>

\* Slip: what is stored is what was loaded.
StoreSame(t, to) ==
    /\ Goto(t, "store", to)
    /\ counter' = local[t]
    /\ UNCHANGED local

Store(t, to) ==
    /\ Goto(t, "store", to)
    /\ counter' = local[t] + 1
    /\ UNCHANGED local

\* counter++ on an int.
Counter1(t) ==
    /\ Load(t, "start") \/ (Store(t, "start") /\ NextRun(t))
    /\ UNCHANGED <<lock, checkCounter>>

\* Slip: an increment that nobody protects.
Counter2Unlocked(t) ==
    /\ Load(t, "start") \/ (Store(t, "start") /\ NextRun(t))
    /\ UNCHANGED <<lock, checkCounter>>

\* lock_acquire, counter++, lock_release.
Counter2(t) ==
    /\ \/ Goto(t, "start", "load") /\ ~lock /\ lock' = TRUE /\ UNCHANGED <<counter, local, r>>
       \/ Load(t, "load") /\ UNCHANGED lock
       \/ Store(t, "release") /\ UNCHANGED <<lock, r>>
       \/ Goto(t, "release", "start") /\ lock' = FALSE /\ NextRun(t) /\ UNCHANGED <<counter, local>>
    /\ UNCHANGED checkCounter

\* The counter is atomic, the two operations on it are not.
Counter3(t) ==
    /\ Load(t, "start") \/ (Store(t, "start") /\ NextRun(t))
    /\ UNCHANGED <<lock, checkCounter>>

Counter4(t) ==
    /\ Goto(t, "start", "start")
    /\ counter' = counter + 1
    /\ NextRun(t)
    /\ UNCHANGED <<lock, checkCounter, local>>

\* shared_access: the lock around it is the one left to complete.
Playground(t) ==
    /\ \/ Load(t, "start") /\ UNCHANGED checkCounter
       \/ Store(t, "count") /\ UNCHANGED <<checkCounter, r>>
       \/ /\ Goto(t, "count", "start")
          /\ checkCounter' = checkCounter + 1
          /\ NextRun(t)
          /\ UNCHANGED <<counter, local>>
    /\ UNCHANGED lock

Step(t) ==
    /\ \/ program = "counter1" /\ Counter1(t)
       \/ program = "counter2" /\ Counter2(t)
       \/ program = "counter3" /\ Counter3(t)
       \/ program = "counter4" /\ Counter4(t)
       \/ program = "playground" /\ Playground(t)
    /\ UNCHANGED program

\* t waits for the mutex.
Blocked(t) == program = "counter2" /\ pc[t] = "start" /\ lock /\ UNCHANGED vars

Next == (\E t \in Threads : Step(t) \/ Blocked(t)) \/ (Joined /\ UNCHANGED vars)

\* A mutex is taken finitely often here: weak fairness of each thread is enough.
Spec == Init /\ [][Next]_vars /\ \A t \in Threads : WF_vars(Step(t))

-----------------------------------------------------------------------------
(* Properties *)

\* "We check that the counter = RUNS * THREADS at the end": with a lock or an atomic
\* operation nothing is lost, for every interleaving.
CountsAll == Joined /\ program \in {"counter2", "counter4"} => counter = Expected

\* However bad the interleaving, the programs that lose increments count up to 2 at
\* least, and never too far.
LosesNotAll ==
    Joined /\ RUNS > 1 => counter \in 2 .. Expected

\* Every thread can be joined.
AllJoin == <>Joined
=============================================================================
