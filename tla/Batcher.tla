------------------------------- MODULE Batcher -------------------------------
(***************************************************************************)
(* 260772/batcher.c: the mutex lock_cond, the condition variable empty and *)
(* the fields remaining, keep_waiting and epoch that enter() and leave()   *)
(* share.  Each thread runs MaxTx transactions one after the other, as a   *)
(* worker of grading.cpp does; a step is one access to the shared fields,  *)
(* and the last access of a critical section is one step with its unlock.  *)
(* The condition variable is POSIX's: a waiter may also wake on its own.   *)
(***************************************************************************)
EXTENDS Naturals, FiniteSets

CONSTANTS
    Threads,
    MaxTx,          \* bound: transactions that each thread runs
    MaxSpurious     \* bound: wakeups without a broadcast in a behaviour

ASSUME BatcherAssumption ==
    /\ IsFiniteSet(Threads)
    /\ MaxTx \in Nat
    /\ MaxSpurious \in Nat

VARIABLES
    pc,             \* the next step of each thread
    mutex,          \* the holder of lock_cond, as a set of at most one thread
    sleeping,       \* the threads blocked in pthread_cond_wait
    remaining, keepWaiting, epoch,
    served,         \* transactions each thread has completed
    spurious,       \* spurious wakeups so far
    since           \* history: the epoch that blocked a thread, 0 if none

vars == <<pc, mutex, sleeping, remaining, keepWaiting, epoch, served, spurious, since>>

Labels == {"idle",                            \* outside, no transaction begun
           "test", "loop", "sleep", "wake", "join",      \* in enter()
           "in",                              \* inside the batch
           "sub", "commit", "bump", "open", "bcast"}     \* in leave()

TypeOK ==
    /\ pc \in [Threads -> Labels]
    /\ mutex \in SUBSET Threads
    /\ sleeping \in SUBSET Threads
    /\ remaining \in Nat
    /\ keepWaiting \in BOOLEAN
    /\ epoch \in Nat \ {0}
    /\ served \in [Threads -> Nat]
    /\ spurious \in Nat
    /\ since \in [Threads -> Nat]

\* Slip: the epoch starts at 0, the value that stands for "never".
EpochZero == 0

FirstEpoch == 1

Init ==
    /\ pc = [t \in Threads |-> "idle"]
    /\ mutex = {}
    /\ sleeping = {}
    /\ remaining = 0
    /\ keepWaiting = TRUE
    /\ epoch = FirstEpoch
    /\ served = [t \in Threads |-> 0]
    /\ spurious = 0
    /\ since = [t \in Threads |-> 0]

Goto(t, from, to) == pc[t] = from /\ pc' = [pc EXCEPT ![t] = to]

-----------------------------------------------------------------------------
(* enter *)

EnterLock(t) ==
    /\ served[t] < MaxTx
    /\ mutex = {}
    /\ Goto(t, "idle", "test")
    /\ mutex' = {t}
    /\ UNCHANGED <<sleeping, remaining, keepWaiting, epoch, served, spurious, since>>

\* Slip: keep_waiting is left as the last broadcast set it.
TestBusyKeepsGate(t) ==
    /\ remaining > 0
    /\ Goto(t, "test", "loop")
    /\ since' = [since EXCEPT ![t] = epoch]
    /\ UNCHANGED <<mutex, sleeping, remaining, keepWaiting, epoch, served, spurious>>

\* remaining > 0: ask everyone, oneself included, to wait for the next batch.
TestBusy(t) ==
    /\ remaining > 0
    /\ Goto(t, "test", "loop")
    /\ keepWaiting' = TRUE
    /\ since' = [since EXCEPT ![t] = epoch]
    /\ UNCHANGED <<mutex, sleeping, remaining, epoch, served, spurious>>

TestEmpty(t) ==
    /\ remaining = 0
    /\ Goto(t, "test", "join")
    /\ UNCHANGED <<mutex, sleeping, remaining, keepWaiting, epoch, served, spurious, since>>

\* while (keep_waiting) pthread_cond_wait(): sleeping releases the mutex.
CondWait(t) ==
    /\ keepWaiting
    /\ Goto(t, "loop", "sleep")
    /\ mutex' = {}
    /\ sleeping' = sleeping \union {t}
    /\ UNCHANGED <<remaining, keepWaiting, epoch, served, spurious, since>>

LoopExit(t) ==
    /\ ~keepWaiting
    /\ Goto(t, "loop", "join")
    /\ UNCHANGED <<mutex, sleeping, remaining, keepWaiting, epoch, served, spurious, since>>

\* A woken thread takes the mutex back before it tests keep_waiting again.
Relock(t) ==
    /\ mutex = {}
    /\ Goto(t, "wake", "loop")
    /\ mutex' = {t}
    /\ UNCHANGED <<sleeping, remaining, keepWaiting, epoch, served, spurious, since>>

SpuriousWakeup(t) ==
    /\ spurious < MaxSpurious
    /\ t \in sleeping
    /\ Goto(t, "sleep", "wake")
    /\ sleeping' = sleeping \ {t}
    /\ spurious' = spurious + 1
    /\ UNCHANGED <<mutex, remaining, keepWaiting, epoch, served, since>>

\* Slip: only a thread that found the batch empty is counted.
JoinUncounted(t) ==
    /\ Goto(t, "join", "in")
    /\ remaining' = IF since[t] = 0 THEN remaining + 1 ELSE remaining
    /\ mutex' = {}
    /\ since' = [since EXCEPT ![t] = 0]
    /\ UNCHANGED <<sleeping, keepWaiting, epoch, served, spurious>>

Join(t) ==
    /\ Goto(t, "join", "in")
    /\ remaining' = remaining + 1
    /\ mutex' = {}
    /\ since' = [since EXCEPT ![t] = 0]
    /\ UNCHANGED <<sleeping, keepWaiting, epoch, served, spurious>>

-----------------------------------------------------------------------------
(* leave *)

LeaveLock(t) ==
    /\ mutex = {}
    /\ Goto(t, "in", "sub")
    /\ mutex' = {t}
    /\ UNCHANGED <<sleeping, remaining, keepWaiting, epoch, served, spurious, since>>

FetchSubOthers(t) ==
    /\ remaining # 1
    /\ Goto(t, "sub", "idle")
    /\ remaining' = remaining - 1
    /\ mutex' = {}
    /\ served' = [served EXCEPT ![t] = @ + 1]
    /\ UNCHANGED <<sleeping, keepWaiting, epoch, spurious, since>>

\* Slip: the mutex is released before the commit.
FetchSubUnlocks(t) ==
    /\ remaining = 1
    /\ Goto(t, "sub", "commit")
    /\ remaining' = remaining - 1
    /\ mutex' = {}
    /\ UNCHANGED <<sleeping, keepWaiting, epoch, served, spurious, since>>

FetchSubLast(t) ==
    /\ remaining = 1
    /\ Goto(t, "sub", "commit")
    /\ remaining' = remaining - 1
    /\ UNCHANGED <<mutex, sleeping, keepWaiting, epoch, served, spurious, since>>

\* The callback; what it does to the words is in module DualVersionedSTM.
CommitCallback(t) ==
    /\ Goto(t, "commit", "bump")
    /\ UNCHANGED <<mutex, sleeping, remaining, keepWaiting, epoch, served, spurious, since>>

BumpEpoch(t) ==
    /\ Goto(t, "bump", "open")
    /\ epoch' = epoch + 1
    /\ UNCHANGED <<mutex, sleeping, remaining, keepWaiting, served, spurious, since>>

\* Slip: the waiters are woken and find that they must keep waiting.
OpenForgotten(t) ==
    /\ Goto(t, "open", "bcast")
    /\ UNCHANGED <<mutex, sleeping, remaining, keepWaiting, epoch, served, spurious, since>>

OpenGate(t) ==
    /\ Goto(t, "open", "bcast")
    /\ keepWaiting' = FALSE
    /\ UNCHANGED <<mutex, sleeping, remaining, epoch, served, spurious, since>>

Broadcast(t) ==
    /\ pc[t] = "bcast"
    /\ pc' = [u \in Threads |-> IF u = t THEN "idle"
                                ELSE IF u \in sleeping THEN "wake" ELSE pc[u]]
    /\ sleeping' = {}
    /\ mutex' = {}
    /\ served' = [served EXCEPT ![t] = @ + 1]
    /\ UNCHANGED <<remaining, keepWaiting, epoch, spurious, since>>

-----------------------------------------------------------------------------

Enter(t) ==
    EnterLock(t) \/ TestBusy(t) \/ TestEmpty(t) \/ CondWait(t) \/ LoopExit(t)
        \/ Relock(t) \/ Join(t)

Leave(t) ==
    LeaveLock(t) \/ FetchSubOthers(t) \/ FetchSubLast(t) \/ CommitCallback(t)
        \/ BumpEpoch(t) \/ OpenGate(t) \/ Broadcast(t)

AllServed == \A t \in Threads : pc[t] = "idle" /\ served[t] = MaxTx

Done == AllServed /\ UNCHANGED vars

Next == (\E t \in Threads : Enter(t) \/ Leave(t) \/ SpuriousWakeup(t)) \/ Done

Spec == Init /\ [][Next]_vars

\* Every thread keeps running and a transaction ends by itself; nothing is
\* asked of the mutex beyond that, nor of the thread that a broadcast favours.
FairSpec == Spec /\ \A t \in Threads : WF_vars(Enter(t) \/ Leave(t))

-----------------------------------------------------------------------------
(* Properties *)

Inside == {t \in Threads : pc[t] \in {"in", "sub"}}
Closing == {t \in Threads : pc[t] \in {"commit", "bump"}}

\* The counter that decides who commits is the number of threads inside the
\* batch (atomic_fetch_sub(...) == 1 in leave).
RemainingCounts == remaining = Cardinality(Inside)

\* While the last thread runs the commit callback nobody is inside the batch
\* and nobody else commits, so commit() needs no lock of its own on the words.
CommitAlone ==
    \A t \in Closing : Inside = {} /\ Closing = {t}

\* A blocked thread always has somebody who will wake it: a member that is
\* still to leave, or the closer on its way to the broadcast.
NoLostWakeup ==
    (\E t \in Threads : pc[t] = "sleep" \/ (pc[t] \in {"wake", "loop"} /\ keepWaiting))
        => Inside # {} \/ (\E t \in Threads : pc[t] \in {"commit", "bump", "open", "bcast"})

\* The members of the batch as the gate's clients see them: a closer is one
\* until it has advanced the epoch.
Gate == INSTANCE EpochGate WITH members <- Inside \union Closing

\* Batches as enter() and leave() implement them are those of EpochGate.
ImplementsGate == Gate!GateSpec

\* Every thread gets through all of its transactions: nobody is left asleep, and no
\* batch is kept open for ever by threads that join it late.
EveryoneServed == <>[]AllServed
=============================================================================
