----------------------------- MODULE SpinBarrier -----------------------------
(***************************************************************************)
(* class Barrier of grading/common.hpp: a counter and a mode, no lock.     *)
(* Threads that meet count themselves in; the last one opens the way out;  *)
(* they count themselves out, and the last one closes it behind them.      *)
(* The same two atomics serve one meeting after another.                   *)
(***************************************************************************)
EXTENDS Integers, FiniteSets

CONSTANTS
    Threads,
    MaxSyncs        \* bound: calls of sync() by a thread

SpinAssumption ==
    /\ IsFiniteSet(Threads)
    /\ Threads # {}
    /\ MaxSyncs \in Nat

VARIABLES
    step, mode,     \* the two atomics
    pc,
    called, left    \* history: calls of sync(), and returns from it

vars == <<step, mode, pc, called, left>>

Cardinal == Cardinality(Threads)

Labels == {"out", "open", "awaitLeave", "sub", "shut", "awaitEnter"}

TypeOK ==
    /\ step \in 0 .. Cardinal
    /\ mode \in {"enter", "leave"}
    /\ pc \in [Threads -> Labels]
    /\ called \in [Threads -> Nat]
    /\ left \in [Threads -> Nat]

Init ==
    /\ step = 0
    /\ mode = "enter"
    /\ pc = [t \in Threads |-> "out"]
    /\ called = [t \in Threads |-> 0]
    /\ left = [t \in Threads |-> 0]

Goto(t, from, to) == pc[t] = from /\ pc' = [pc EXCEPT ![t] = to]

\* step.fetch_add: the last to come opens the way out.
FetchAdd(t) ==
    /\ called[t] < MaxSyncs
    /\ Goto(t, "out", IF step + 1 = Cardinal THEN "open" ELSE "awaitLeave")
    /\ step' = step + 1
    /\ called' = [called EXCEPT ![t] = @ + 1]
    /\ UNCHANGED <<mode, left>>

SetLeave(t) ==
    /\ Goto(t, "open", "sub")
    /\ mode' = "leave"
    /\ UNCHANGED <<step, called, left>>

\* Slip: the mode is not looked at.
AwaitNothing(t) ==
    /\ Goto(t, "awaitLeave", "sub")
    /\ UNCHANGED <<step, mode, called, left>>

AwaitLeave(t) ==
    /\ mode = "leave"
    /\ Goto(t, "awaitLeave", "sub")
    /\ UNCHANGED <<step, mode, called, left>>

\* step.fetch_sub: the last to go shuts it again.
FetchSub(t) ==
    /\ Goto(t, "sub", IF step - 1 = 0 THEN "shut" ELSE "awaitEnter")
    /\ step' = step - 1
    /\ UNCHANGED <<mode, called, left>>

Returns(t) == left' = [left EXCEPT ![t] = @ + 1]

\* Slip: the last to go leaves the way out open.
SetNothing(t) ==
    /\ Goto(t, "shut", "out")
    /\ Returns(t)
    /\ UNCHANGED <<step, mode, called>>

SetEnter(t) ==
    /\ Goto(t, "shut", "out")
    /\ mode' = "enter"
    /\ Returns(t)
    /\ UNCHANGED <<step, called>>

AwaitEnter(t) ==
    /\ mode = "enter"
    /\ Goto(t, "awaitEnter", "out")
    /\ Returns(t)
    /\ UNCHANGED <<step, mode, called>>

Step(t) ==
    \/ FetchAdd(t) \/ SetLeave(t) \/ AwaitLeave(t)
    \/ FetchSub(t) \/ SetEnter(t) \/ AwaitEnter(t)

Finished == \A t \in Threads : left[t] = MaxSyncs

\* A thread that waits, or is gone, turns in place.
Spin(t) == pc[t] \in {"out", "awaitLeave", "awaitEnter"} /\ UNCHANGED vars

Next == \E t \in Threads : Step(t) \/ Spin(t)

Spec == Init /\ [][Next]_vars

\* A spinning thread is scheduled again and again (short_pause yields).
FairSpec == Spec /\ \A t \in Threads : WF_vars(Step(t))

-----------------------------------------------------------------------------
(* Properties *)

Sync == INSTANCE SyncPoint

\* Nobody returns from a meeting before all have come to it, although the counter
\* and the mode are reused at once and slow threads may still spin on the mode
\* of the meeting before.
ImplementsSyncPoint == Sync!SyncSpec

\* Nobody is left spinning on a mode that fast threads have changed back: when all
\* keep coming, all get through every meeting.
EveryoneThrough == <>[]Finished
=============================================================================
