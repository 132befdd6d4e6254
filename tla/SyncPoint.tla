------------------------------ MODULE SyncPoint ------------------------------
(***************************************************************************)
(* What a barrier promises: the k-th call of a thread returns only when    *)
(* every thread has made its k-th call.  The Barrier of grading/common.hpp *)
(* implements it (module SpinBarrier), and the check of                    *)
(* grading/workload.hpp is written on top of it (module CheckPhase).       *)
(***************************************************************************)
EXTENDS Naturals

CONSTANT Threads

VARIABLES
    called,     \* calls of sync() made by each thread
    left        \* calls of sync() that have returned

syncVars == <<called, left>>

SyncTypeOK ==
    /\ called \in [Threads -> Nat]
    /\ left \in [Threads -> Nat]

SyncInit ==
    /\ called = [t \in Threads |-> 0]
    /\ left = [t \in Threads |-> 0]

Call(t) ==
    /\ called[t] = left[t]
    /\ called' = [called EXCEPT ![t] = @ + 1]
    /\ UNCHANGED left

Return(t) ==
    /\ left[t] < called[t]
    /\ \A s \in Threads : left[t] < called[s]
    /\ left' = [left EXCEPT ![t] = @ + 1]
    /\ UNCHANGED called

SyncNext == \E t \in Threads : Call(t) \/ Return(t)

SyncSpec == SyncInit /\ [][SyncNext]_syncVars
=============================================================================
