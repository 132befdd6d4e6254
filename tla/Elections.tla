------------------------------ MODULE Elections ------------------------------
(***************************************************************************)
(* election1.c to election4.c of sync-examples: in every round each thread *)
(* tries to become the leader.  Init chooses the program.  A thread may be *)
(* any number of rounds ahead of another one.                              *)
(***************************************************************************)
EXTENDS Naturals, FiniteSets

CONSTANTS
    Threads,
    NoLeader,       \* leader[r] = 0
    RUNS

ElectionsAssumption ==
    IsFiniteSet(Threads) /\ Threads # {} /\ NoLeader \notin Threads /\ RUNS \in Nat \ {0}

VARIABLES
    program,
    leader, nbLeaders, lock,
    pc, r           \* of each thread: its next step, its round

Programs == {"election1", "election2", "election3", "election4"}

vars == <<program, leader, nbLeaders, lock, pc, r>>

Rounds == 0 .. RUNS - 1
Joined == \A t \in Threads : r[t] = RUNS

TypeOK ==
    /\ program \in Programs
    /\ leader \in [Rounds -> Threads \union {NoLeader}]
    /\ nbLeaders \in [Rounds -> 0 .. Cardinality(Threads)]
    /\ lock = (program = "election2" /\ \E t \in Threads : pc[t] # "start")
    /\ pc \in [Threads -> {"start", "test", "set", "count", "release"}]
    /\ r \in [Threads -> 0 .. RUNS]

Init ==
    /\ program \in Programs
    /\ leader = [k \in Rounds |-> NoLeader]
    /\ nbLeaders = [k \in Rounds |-> 0]
    /\ lock = FALSE
    /\ pc = [t \in Threads |-> "start"] /\ r = [t \in Threads |-> 0]

Goto(t, from, to) == r[t] < RUNS /\ pc[t] = from /\ pc' = [pc EXCEPT ![t] = to]

NextRound(t) == r' = [r EXCEPT ![t] = @ + 1]

\* if (leader[r] == 0): on to the assignment, or to last, the end of the round.
Test(t, from, last) ==
    /\ IF leader[r[t]] = NoLeader
       THEN Goto(t, from, "set") /\ UNCHANGED r
       ELSE Goto(t, from, last) /\ IF last = "start" THEN NextRound(t) ELSE UNCHANGED r
    /\ UNCHANGED <<leader, nbLeaders>>

\* Slip: the index of the thread is stored in the next round.
SetNext(t) ==
    /\ Goto(t, "set", "count")
    /\ leader' = [leader EXCEPT ![IF r[t] + 1 \in Rounds THEN r[t] + 1 ELSE 0] = t]
    /\ UNCHANGED <<nbLeaders, r>>

Set(t) ==
    /\ Goto(t, "set", "count")
    /\ leader' = [leader EXCEPT ![r[t]] = t]
    /\ UNCHANGED <<nbLeaders, r>>

\* Used to check correctness.
Count(t, last) ==
    /\ Goto(t, "count", last)
    /\ nbLeaders' = [nbLeaders EXCEPT ![r[t]] = @ + 1]
    /\ IF last = "start" THEN NextRound(t) ELSE UNCHANGED r
    /\ UNCHANGED leader

Election1(t) == (Test(t, "start", "start") \/ Set(t) \/ Count(t, "start")) /\ UNCHANGED lock

\* Slip: the lock only covers the assignment.
Election2Late(t) ==
    \/ Test(t, "start", "start") /\ UNCHANGED lock
    \/ ~lock /\ Set(t) /\ lock' = TRUE
    \/ Count(t, "start") /\ lock' = FALSE

\* lock_acquire, test and set, lock_release.
Election2(t) ==
    \/ /\ Goto(t, "start", "test") /\ ~lock /\ lock' = TRUE
       /\ UNCHANGED <<leader, nbLeaders, r>>
    \/ (Test(t, "test", "release") \/ Set(t) \/ Count(t, "release")) /\ UNCHANGED lock
    \/ Goto(t, "release", "start") /\ lock' = FALSE /\ NextRound(t) /\ UNCHANGED <<leader, nbLeaders>>

\* leader is atomic, test and set are two operations.
Election3(t) == (Test(t, "start", "start") \/ Set(t) \/ Count(t, "start")) /\ UNCHANGED lock

\* compare_exchange: t becomes the leader if there is none.
Election4(t) ==
    /\ \/ /\ leader[r[t]] = NoLeader
          /\ Goto(t, "start", "count")
          /\ leader' = [leader EXCEPT ![r[t]] = t]
          /\ UNCHANGED <<nbLeaders, r>>
       \/ /\ leader[r[t]] # NoLeader
          /\ Goto(t, "start", "start") /\ NextRound(t)
          /\ UNCHANGED <<leader, nbLeaders>>
       \/ Count(t, "start")
    /\ UNCHANGED lock

Step(t) ==
    /\ r[t] < RUNS
    /\ \/ program = "election1" /\ Election1(t)
       \/ program = "election2" /\ Election2(t)
       \/ program = "election3" /\ Election3(t)
       \/ program = "election4" /\ Election4(t)
    /\ UNCHANGED program

\* t waits for the mutex.
Blocked(t) == program = "election2" /\ pc[t] = "start" /\ lock /\ UNCHANGED vars

Next == (\E t \in Threads : Step(t) \/ Blocked(t)) \/ (Joined /\ UNCHANGED vars)

Spec == Init /\ [][Next]_vars /\ \A t \in Threads : WF_vars(Step(t))

-----------------------------------------------------------------------------
(* Properties *)

\* "We check that exactly one thread considers itself as the leader in each run", in
\* the programs with a lock or a compare-and-swap.
OneLeader ==
    Joined /\ program \in {"election2", "election4"} => \A k \in Rounds : nbLeaders[k] = 1

\* Even without synchronisation no round is left without a leader that knows it.
SomeLeader == Joined => \A k \in Rounds : nbLeaders[k] > 0 /\ leader[k] # NoLeader

\* Every thread can be joined.
AllJoin == <>Joined
=============================================================================
