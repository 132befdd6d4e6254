----------------------------- MODULE CheckPhase -----------------------------
(***************************************************************************)
(* WorkloadBank::check of grading/workload.hpp: the workers take a shared  *)
(* counter down to zero, one transaction at a time, and say whether the    *)
(* library lost any of them.  They meet three times at the barrier, which  *)
(* is used here by its promise (module SyncPoint).  The library under test *)
(* is either atomic, or may overwrite and drop what transactions commit.   *)
(***************************************************************************)
EXTENDS Integers

CONSTANTS
    NbWorkers,
    NbTxPerWrk,     \* nbtxperwrk: 100 in the code
    SizeMax         \* 2^64 of a size_t, in small

CheckAssumption ==
    /\ NbWorkers \in Nat \ {0}
    /\ NbTxPerWrk \in Nat \ {0}
    /\ SizeMax \in Nat /\ SizeMax > NbTxPerWrk * NbWorkers + 1

Workers == 0 .. NbWorkers - 1       \* their uid
InitCounter == NbTxPerWrk * NbWorkers

VARIABLES
    called, left,   \* the barrier
    atomic,         \* whether the library is
    counter,        \* the first word of the region
    pc,
    done,           \* transactions that each worker has finished
    last, value,
    error,          \* what each call returns
    lost            \* history: an update was overwritten or dropped

syncVars == <<called, left>>
txVars == <<atomic, counter, done, last, value, error, lost>>
vars == <<syncVars, pc, txVars>>

Barrier == INSTANCE SyncPoint WITH Threads <- Workers

\* The calls of barrier.sync(), by what follows them.
Syncs == {"sync1", "sync2", "sync3", "bad1", "bad2"}
Labels == Syncs \union {"init", "verify", "last", "read", "write", "final", "end", "thrown"}
Errors == {"none", "initialization", "isolation", "consistency"}

TypeOK ==
    /\ Barrier!SyncTypeOK
    /\ atomic \in BOOLEAN /\ lost \in BOOLEAN
    /\ counter \in 0 .. SizeMax - 1
    /\ pc \in [Workers -> Labels]
    /\ done \in [Workers -> 0 .. NbTxPerWrk]
    /\ last \in [Workers -> 0 .. SizeMax - 1] /\ value \in [Workers -> 0 .. SizeMax - 1]
    /\ error \in [Workers -> Errors]

\* The word still holds what the runs before the check left in it.
Init ==
    /\ Barrier!SyncInit
    /\ atomic \in BOOLEAN
    /\ counter \in {0, InitCounter, InitCounter + 1}
    /\ pc = [u \in Workers |-> "sync1"]
    /\ done = [u \in Workers |-> 0]
    /\ last = [u \in Workers |-> 0] /\ value = [u \in Workers |-> 0]
    /\ error = [u \in Workers |-> "none"]
    /\ lost = FALSE

Goto(u, from, to) == pc[u] = from /\ pc' = [pc EXCEPT ![u] = to]

\* Slip: the failing initializer meets the others once only.
AfterSyncOnce(u) ==
    CASE pc[u] = "sync1" -> IF u = 0 THEN "init" ELSE "sync2"
      [] pc[u] = "sync2" -> "last"
      [] pc[u] = "sync3" -> IF u = 0 THEN "final" ELSE "end"
      [] pc[u] \in {"bad1", "bad2"} -> "end"

AfterSync(u) ==
    CASE pc[u] = "sync1" -> IF u = 0 THEN "init" ELSE "sync2"
      [] pc[u] = "sync2" -> "last"
      [] pc[u] = "sync3" -> IF u = 0 THEN "final" ELSE "end"
      [] pc[u] = "bad1" -> "bad2"
      [] pc[u] = "bad2" -> "end"

SyncCall(u) == pc[u] \in Syncs /\ Barrier!Call(u) /\ UNCHANGED <<pc, txVars>>

SyncReturn(u) ==
    /\ Barrier!Return(u)
    /\ pc' = [pc EXCEPT ![u] = AfterSync(u)]
    /\ UNCHANGED txVars

\* A transaction of u puts v into the counter, unless the library drops it.
Commit(u, v, unseen) ==
    /\ counter' \in IF atomic THEN {v} ELSE {v, counter}
    /\ lost' = (lost \/ unseen \/ counter' # v)

InitCommit(u) ==
    /\ Goto(u, "init", "verify")
    /\ Commit(u, InitCounter, FALSE)
    /\ UNCHANGED <<syncVars, atomic, done, last, value, error>>

Judge(u, correct, to, kind, bad) ==
    /\ pc' = [pc EXCEPT ![u] = IF correct THEN to ELSE bad]
    /\ error' = IF correct THEN error ELSE [error EXCEPT ![u] = kind]

Verify(u) ==
    /\ pc[u] = "verify"
    /\ Judge(u, counter = InitCounter, "sync2", "initialization", "bad1")
    /\ UNCHANGED <<syncVars, atomic, counter, done, last, value, lost>>

ReadLast(u) ==
    /\ Goto(u, "last", "read")
    /\ last' = [last EXCEPT ![u] = counter]
    /\ UNCHANGED <<syncVars, atomic, counter, done, value, error, lost>>

\* Slip: a counter that did not move is taken for a violation.
ReadValueStrict(u) ==
    /\ pc[u] = "read"
    /\ value' = [value EXCEPT ![u] = counter]
    /\ Judge(u, counter < last[u], "write", "isolation", "bad2")
    /\ UNCHANGED <<syncVars, atomic, counter, done, last, lost>>

ReadValue(u) ==
    /\ pc[u] = "read"
    /\ value' = [value EXCEPT ![u] = counter]
    /\ Judge(u, counter <= last[u], "write", "isolation", "bad2")
    /\ UNCHANGED <<syncVars, atomic, counter, done, last, lost>>

Decrement(u) ==
    /\ pc[u] = "write"
    /\ atomic => counter = value[u]
    /\ Commit(u, (value[u] - 1) % SizeMax, counter # value[u])
    /\ done' = [done EXCEPT ![u] = @ + 1]
    /\ pc' = [pc EXCEPT ![u] = IF done'[u] = NbTxPerWrk THEN "sync3" ELSE "last"]
    /\ UNCHANGED <<syncVars, atomic, last, value, error>>

\* transactional() tries again when the library aborts.
Retry(u) ==
    /\ atomic /\ counter # value[u]
    /\ Goto(u, "write", "read")
    /\ UNCHANGED <<syncVars, txVars>>

\* Slip: the counter only has to have gone down.
FinalLoose(u) ==
    /\ pc[u] = "final"
    /\ Judge(u, counter < InitCounter, "end", "consistency", "end")
    /\ UNCHANGED <<syncVars, atomic, counter, done, last, value, lost>>

Final(u) ==
    /\ pc[u] = "final"
    /\ Judge(u, counter = 0, "end", "consistency", "end")
    /\ UNCHANGED <<syncVars, atomic, counter, done, last, value, lost>>

\* A transaction may throw, as when tm_begin fails: the exception leaves check(),
\* past the meetings that are left.
Throw(u) ==
    /\ pc[u] \in {"init", "verify", "last", "read", "final"}
    /\ pc' = [pc EXCEPT ![u] = "thrown"]
    /\ UNCHANGED <<syncVars, txVars>>

Step(u) ==
    \/ SyncCall(u) \/ SyncReturn(u)
    \/ InitCommit(u) \/ Verify(u)
    \/ ReadLast(u) \/ ReadValue(u) \/ Decrement(u) \/ Retry(u)
    \/ Final(u) \/ Throw(u)

Returned == \A u \in Workers : pc[u] \in {"end", "thrown"}

\* A worker inside sync() spins, one that is back does nothing.
Spin(u) == (pc[u] \in {"end", "thrown"} \/ left[u] < called[u]) /\ UNCHANGED vars

Next == \E u \in Workers : Step(u) \/ Spin(u)

Spec == Init /\ [][Next]_vars

FairSpec == Spec /\ \A u \in Workers : WF_vars(Step(u))

-----------------------------------------------------------------------------
(* Properties *)

\* An atomic library is never accused, however the workers interleave and whatever
\* the word held before.
NoFalseAlarm == atomic => \A u \in Workers : error[u] = "none"

\* "False negative-free": when all have returned and an update was lost at any
\* point, some worker returns an error, even where later updates hide the loss
\* from every comparison with the last value read.
LossDetected ==
    (lost /\ \A u \in Workers : pc[u] = "end") => \E u \in Workers : error[u] # "none"

\* Every path through check() meets the others equally often: no failure that one
\* worker sees leaves another one in the barrier, unless a transaction throws.
ReturnedOrThrown == Returned \/ \E u \in Workers : pc[u] = "thrown"
EveryoneReturns == <>ReturnedOrThrown

\* What the master relies on when it waits for the round without a time limit: each
\* worker comes back, with a verdict or an exception.
EveryoneComesBack == <>Returned
=============================================================================
