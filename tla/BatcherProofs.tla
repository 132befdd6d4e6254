----------------------------- MODULE BatcherProofs -----------------------------
(***************************************************************************)
(* Proofs about Batcher, for any finite set of threads and any bounds: the *)
(* inductive invariant BatcherInv, the safety properties that follow from  *)
(* it, and that every step of the batcher is a step of EpochGate or none.  *)
(***************************************************************************)
EXTENDS Batcher, FiniteSetTheorems, TLAPS

Critical == {"test", "loop", "join", "sub", "commit", "bump", "open", "bcast"}
Leaving == {"commit", "bump", "open", "bcast"}
Blocked == {"loop", "sleep", "wake"}

\* lock_cond is held by whoever runs between its lock and its unlock.
MutexInv == \A t \in Threads : pc[t] \in Critical => mutex = {t}

\* The condition variable's waiters are the threads in pthread_cond_wait.
SleepInv == \A t \in Threads : t \in sleeping <=> pc[t] = "sleep"

\* Nobody is inside while the batch is being closed, or opened by a newcomer.
EmptyInv ==
    \A t \in Threads :
        /\ pc[t] \in Leaving => Inside = {}
        /\ pc[t] = "join" /\ since[t] = 0 => Inside = {}
        /\ pc[t] = "bcast" => ~keepWaiting

\* Once keep_waiting is false, everyone it held back belongs to a past epoch.
SinceInv ==
    \A t \in Threads :
        /\ pc[t] \in Blocked => since[t] # 0
        /\ pc[t] \notin Blocked \union {"join"} => since[t] = 0
        /\ since[t] <= epoch
        /\ pc[t] \in Blocked /\ ~keepWaiting => since[t] < epoch
        /\ pc[t] = "join" => since[t] < epoch
        /\ \A u \in Threads : pc[u] \in {"open", "bcast"} => since[t] < epoch

BatcherInv ==
    /\ TypeOK
    /\ MutexInv
    /\ SleepInv
    /\ EmptyInv
    /\ SinceInv
    /\ RemainingCounts
    /\ NoLostWakeup

-----------------------------------------------------------------------------

\* init_batcher() establishes the invariant.
LEMMA InitBatcherInv == Init => BatcherInv
<1> SUFFICES ASSUME Init PROVE BatcherInv
    OBVIOUS
<1>1. Inside = {}
  BY DEF Init, Inside
<1>2. RemainingCounts
  BY <1>1, FS_EmptySet DEF Init, RemainingCounts
<1>3. TypeOK /\ MutexInv /\ SleepInv /\ EmptyInv
  BY <1>1 DEF Init, FirstEpoch, TypeOK, MutexInv, SleepInv, EmptyInv, Critical, Leaving,
    Labels
<1>4. SinceInv
  BY DEF Init, FirstEpoch, SinceInv, Blocked
<1>5. NoLostWakeup
  BY DEF Init, NoLostWakeup
<1> QED
  BY <1>2, <1>3, <1>4, <1>5 DEF BatcherInv

\* An exact counter tells an empty batch and a last member from the others: the
\* tests `remaining > 0` of enter() and `fetch_sub == 1` of leave() mean what
\* they are used for.
LEMMA InsideFacts ==
    ASSUME TypeOK, RemainingCounts
    PROVE  /\ IsFiniteSet(Inside)
           /\ remaining = 0 <=> Inside = {}
           /\ \A t \in Inside : remaining = 1 <=> Inside = {t}
<1>1. IsFiniteSet(Inside)
  BY BatcherAssumption, FS_Subset DEF Inside
<1>2. remaining = 0 <=> Inside = {}
  BY <1>1, FS_EmptySet DEF RemainingCounts
<1>3. ASSUME NEW t \in Inside PROVE remaining = 1 <=> Inside = {t}
  <2>1. Cardinality(Inside \ {t}) = Cardinality(Inside) - 1
    BY <1>1, FS_RemoveElement
  <2>2. Cardinality(Inside \ {t}) = 0 <=> Inside \ {t} = {}
    BY <1>1, FS_RemoveElement, FS_EmptySet
  <2>3. Cardinality(Inside) \in Nat
    BY <1>1, FS_CardinalityType
  <2> QED
    BY <2>1, <2>2, <2>3 DEF RemainingCounts
<1> QED
  BY <1>1, <1>2, <1>3

\* Every step of enter() and leave() keeps the invariant, one step of the proof
\* per action and one leaf per conjunct that the action can disturb.
LEMMA NextBatcherInv == BatcherInv /\ [Next]_vars => BatcherInv'
<1> SUFFICES ASSUME BatcherInv, [Next]_vars PROVE BatcherInv'
    OBVIOUS
<1> USE DEF BatcherInv, Goto
<1>0. /\ IsFiniteSet(Inside)
      /\ remaining = 0 <=> Inside = {}
      /\ \A t \in Inside : remaining = 1 <=> Inside = {t}
  BY InsideFacts
<1>1. ASSUME NEW t \in Threads, EnterLock(t) PROVE BatcherInv'
  <2>0. Inside' = Inside
    BY <1>1 DEF TypeOK, Inside, SleepInv, EnterLock
  <2>1. RemainingCounts'
    BY <2>0, <1>1 DEF RemainingCounts, EnterLock
  <2>2. TypeOK'
    BY <1>0, <1>1, <2>0 DEF TypeOK, Labels, EnterLock
  <2>3. MutexInv'
    BY <1>0, <1>1, <2>0 DEF TypeOK, MutexInv, Critical, EnterLock
  <2>4. SleepInv'
    BY <1>0, <1>1, <2>0 DEF TypeOK, SleepInv, MutexInv, Critical, EnterLock
  <2>5. EmptyInv'
    BY <1>0, <1>1, <2>0 DEF TypeOK, EmptyInv, MutexInv, Critical, SinceInv, Blocked, Leaving,
      Inside, EnterLock
  <2>6. SinceInv'
    BY <1>0, <1>1, <2>0 DEF TypeOK, SinceInv, Blocked, EmptyInv, MutexInv, Critical, Leaving,
      EnterLock
  <2>7. NoLostWakeup'
    BY <1>0, <1>1, <2>0 DEF TypeOK, NoLostWakeup, EmptyInv, SleepInv, Inside, MutexInv,
      Critical, Leaving, EnterLock
  <2> QED
    BY <2>1, <2>2, <2>3, <2>4, <2>5, <2>6, <2>7
<1>2. ASSUME NEW t \in Threads, TestBusy(t) PROVE BatcherInv'
  <2>0. Inside' = Inside
    BY <1>2 DEF TypeOK, Inside, SleepInv, TestBusy
  <2>1. RemainingCounts'
    BY <2>0, <1>2 DEF RemainingCounts, TestBusy
  <2>2. TypeOK'
    BY <1>0, <1>2, <2>0 DEF TypeOK, Labels, TestBusy
  <2>3. MutexInv'
    BY <1>0, <1>2, <2>0 DEF TypeOK, MutexInv, Critical, TestBusy
  <2>4. SleepInv'
    BY <1>0, <1>2, <2>0 DEF TypeOK, SleepInv, MutexInv, Critical, TestBusy
  <2>5. EmptyInv'
    BY <1>0, <1>2, <2>0 DEF TypeOK, EmptyInv, MutexInv, Critical, SinceInv, Blocked, Leaving,
      Inside, TestBusy
  <2>6. SinceInv'
    BY <1>0, <1>2, <2>0 DEF TypeOK, SinceInv, Blocked, EmptyInv, MutexInv, Critical, Leaving,
      TestBusy
  <2>7. NoLostWakeup'
    BY <1>0, <1>2, <2>0 DEF TypeOK, NoLostWakeup, EmptyInv, SleepInv, Inside, MutexInv,
      Critical, Leaving, TestBusy
  <2> QED
    BY <2>1, <2>2, <2>3, <2>4, <2>5, <2>6, <2>7
<1>3. ASSUME NEW t \in Threads, TestEmpty(t) PROVE BatcherInv'
  <2>0. Inside' = Inside
    BY <1>3 DEF TypeOK, Inside, SleepInv, TestEmpty
  <2>1. RemainingCounts'
    BY <2>0, <1>3 DEF RemainingCounts, TestEmpty
  <2>2. TypeOK'
    BY <1>0, <1>3, <2>0 DEF TypeOK, Labels, TestEmpty
  <2>3. MutexInv'
    BY <1>0, <1>3, <2>0 DEF TypeOK, MutexInv, Critical, TestEmpty
  <2>4. SleepInv'
    BY <1>0, <1>3, <2>0 DEF TypeOK, SleepInv, MutexInv, Critical, TestEmpty
  <2>5. EmptyInv'
    BY <1>0, <1>3, <2>0 DEF TypeOK, EmptyInv, MutexInv, Critical, SinceInv, Blocked, Leaving,
      Inside, TestEmpty
  <2>6. SinceInv'
    BY <1>0, <1>3, <2>0 DEF TypeOK, SinceInv, Blocked, EmptyInv, MutexInv, Critical, Leaving,
      TestEmpty
  <2>7. NoLostWakeup'
    BY <1>0, <1>3, <2>0 DEF TypeOK, NoLostWakeup, EmptyInv, SleepInv, Inside, MutexInv,
      Critical, Leaving, TestEmpty
  <2> QED
    BY <2>1, <2>2, <2>3, <2>4, <2>5, <2>6, <2>7
<1>4. ASSUME NEW t \in Threads, CondWait(t) PROVE BatcherInv'
  <2>0. Inside' = Inside
    BY <1>4 DEF TypeOK, Inside, SleepInv, CondWait
  <2>1. RemainingCounts'
    BY <2>0, <1>4 DEF RemainingCounts, CondWait
  <2>2. TypeOK'
    BY <1>0, <1>4, <2>0 DEF TypeOK, Labels, CondWait
  <2>3. MutexInv'
    BY <1>0, <1>4, <2>0 DEF TypeOK, MutexInv, Critical, CondWait
  <2>4. SleepInv'
    BY <1>0, <1>4, <2>0 DEF TypeOK, SleepInv, MutexInv, Critical, CondWait
  <2>5. EmptyInv'
    BY <1>0, <1>4, <2>0 DEF TypeOK, EmptyInv, MutexInv, Critical, SinceInv, Blocked, Leaving,
      Inside, CondWait
  <2>6. SinceInv'
    BY <1>0, <1>4, <2>0 DEF TypeOK, SinceInv, Blocked, EmptyInv, MutexInv, Critical, Leaving,
      CondWait
  <2>7. NoLostWakeup'
    BY <1>0, <1>4, <2>0 DEF TypeOK, NoLostWakeup, EmptyInv, SleepInv, Inside, MutexInv,
      Critical, Leaving, CondWait
  <2> QED
    BY <2>1, <2>2, <2>3, <2>4, <2>5, <2>6, <2>7
<1>5. ASSUME NEW t \in Threads, LoopExit(t) PROVE BatcherInv'
  <2>0. Inside' = Inside
    BY <1>5 DEF TypeOK, Inside, SleepInv, LoopExit
  <2>1. RemainingCounts'
    BY <2>0, <1>5 DEF RemainingCounts, LoopExit
  <2>2. TypeOK'
    BY <1>0, <1>5, <2>0 DEF TypeOK, Labels, LoopExit
  <2>3. MutexInv'
    BY <1>0, <1>5, <2>0 DEF TypeOK, MutexInv, Critical, LoopExit
  <2>4. SleepInv'
    BY <1>0, <1>5, <2>0 DEF TypeOK, SleepInv, MutexInv, Critical, LoopExit
  <2>5. EmptyInv'
    BY <1>0, <1>5, <2>0 DEF TypeOK, EmptyInv, MutexInv, Critical, SinceInv, Blocked, Leaving,
      Inside, LoopExit
  <2>6. SinceInv'
    BY <1>0, <1>5, <2>0 DEF TypeOK, SinceInv, Blocked, EmptyInv, MutexInv, Critical, Leaving,
      LoopExit
  <2>7. NoLostWakeup'
    BY <1>0, <1>5, <2>0 DEF TypeOK, NoLostWakeup, EmptyInv, SleepInv, Inside, MutexInv,
      Critical, Leaving, LoopExit
  <2> QED
    BY <2>1, <2>2, <2>3, <2>4, <2>5, <2>6, <2>7
<1>6. ASSUME NEW t \in Threads, Relock(t) PROVE BatcherInv'
  <2>0. Inside' = Inside
    BY <1>6 DEF TypeOK, Inside, SleepInv, Relock
  <2>1. RemainingCounts'
    BY <2>0, <1>6 DEF RemainingCounts, Relock
  <2>2. TypeOK'
    BY <1>0, <1>6, <2>0 DEF TypeOK, Labels, Relock
  <2>3. MutexInv'
    BY <1>0, <1>6, <2>0 DEF TypeOK, MutexInv, Critical, Relock
  <2>4. SleepInv'
    BY <1>0, <1>6, <2>0 DEF TypeOK, SleepInv, MutexInv, Critical, Relock
  <2>5. EmptyInv'
    BY <1>0, <1>6, <2>0 DEF TypeOK, EmptyInv, MutexInv, Critical, SinceInv, Blocked, Leaving,
      Inside, Relock
  <2>6. SinceInv'
    BY <1>0, <1>6, <2>0 DEF TypeOK, SinceInv, Blocked, EmptyInv, MutexInv, Critical, Leaving,
      Relock
  <2>7. NoLostWakeup'
    BY <1>0, <1>6, <2>0 DEF TypeOK, NoLostWakeup, EmptyInv, SleepInv, Inside, MutexInv,
      Critical, Leaving, Relock
  <2> QED
    BY <2>1, <2>2, <2>3, <2>4, <2>5, <2>6, <2>7
<1>7. ASSUME NEW t \in Threads, Join(t) PROVE BatcherInv'
  <2>0. t \notin Inside /\ Inside' = Inside \union {t}
    BY <1>7 DEF TypeOK, Inside, Join
  <2>1. RemainingCounts'
    BY <1>0, <1>7, <2>0, FS_AddElement DEF RemainingCounts, Join, TypeOK
  <2>2. TypeOK'
    BY <1>0, <1>7, <2>0 DEF TypeOK, Labels, Join
  <2>3. MutexInv'
    BY <1>0, <1>7, <2>0 DEF TypeOK, MutexInv, Critical, Join
  <2>4. SleepInv'
    BY <1>0, <1>7, <2>0 DEF TypeOK, SleepInv, MutexInv, Critical, Join
  <2>5. EmptyInv'
    BY <1>0, <1>7, <2>0 DEF TypeOK, EmptyInv, MutexInv, Critical, SinceInv, Blocked, Leaving,
      Inside, Join
  <2>6. SinceInv'
    BY <1>0, <1>7, <2>0 DEF TypeOK, SinceInv, Blocked, EmptyInv, MutexInv, Critical, Leaving,
      Join
  <2>7. NoLostWakeup'
    BY <1>0, <1>7, <2>0 DEF TypeOK, NoLostWakeup, EmptyInv, SleepInv, Inside, MutexInv,
      Critical, Leaving, Join
  <2> QED
    BY <2>1, <2>2, <2>3, <2>4, <2>5, <2>6, <2>7
<1>8. ASSUME NEW t \in Threads, SpuriousWakeup(t) PROVE BatcherInv'
  <2>0. Inside' = Inside
    BY <1>8 DEF TypeOK, Inside, SleepInv, SpuriousWakeup
  <2>1. RemainingCounts'
    BY <2>0, <1>8 DEF RemainingCounts, SpuriousWakeup
  <2>2. TypeOK'
    BY <1>0, <1>8, <2>0 DEF TypeOK, Labels, SpuriousWakeup
  <2>3. MutexInv'
    BY <1>0, <1>8, <2>0 DEF TypeOK, MutexInv, Critical, SpuriousWakeup
  <2>4. SleepInv'
    BY <1>0, <1>8, <2>0 DEF TypeOK, SleepInv, MutexInv, Critical, SpuriousWakeup
  <2>5. EmptyInv'
    BY <1>0, <1>8, <2>0 DEF TypeOK, EmptyInv, MutexInv, Critical, SinceInv, Blocked, Leaving,
      Inside, SpuriousWakeup
  <2>6. SinceInv'
    BY <1>0, <1>8, <2>0 DEF TypeOK, SinceInv, Blocked, EmptyInv, MutexInv, Critical, Leaving,
      SpuriousWakeup
  <2>7. NoLostWakeup'
    BY <1>0, <1>8, <2>0 DEF TypeOK, NoLostWakeup, EmptyInv, SleepInv, Inside, MutexInv,
      Critical, Leaving, SpuriousWakeup
  <2> QED
    BY <2>1, <2>2, <2>3, <2>4, <2>5, <2>6, <2>7
<1>9. ASSUME NEW t \in Threads, LeaveLock(t) PROVE BatcherInv'
  <2>0. Inside' = Inside
    BY <1>9 DEF TypeOK, Inside, SleepInv, LeaveLock
  <2>1. RemainingCounts'
    BY <2>0, <1>9 DEF RemainingCounts, LeaveLock
  <2>2. TypeOK'
    BY <1>0, <1>9, <2>0 DEF TypeOK, Labels, LeaveLock
  <2>3. MutexInv'
    BY <1>0, <1>9, <2>0 DEF TypeOK, MutexInv, Critical, LeaveLock
  <2>4. SleepInv'
    BY <1>0, <1>9, <2>0 DEF TypeOK, SleepInv, MutexInv, Critical, LeaveLock
  <2>5. EmptyInv'
    BY <1>0, <1>9, <2>0 DEF TypeOK, EmptyInv, MutexInv, Critical, SinceInv, Blocked, Leaving,
      Inside, LeaveLock
  <2>6. SinceInv'
    BY <1>0, <1>9, <2>0 DEF TypeOK, SinceInv, Blocked, EmptyInv, MutexInv, Critical, Leaving,
      LeaveLock
  <2>7. NoLostWakeup'
    BY <1>0, <1>9, <2>0 DEF TypeOK, NoLostWakeup, EmptyInv, SleepInv, Inside, MutexInv,
      Critical, Leaving, LeaveLock
  <2> QED
    BY <2>1, <2>2, <2>3, <2>4, <2>5, <2>6, <2>7
<1>10. ASSUME NEW t \in Threads, FetchSubOthers(t) PROVE BatcherInv'
  <2>0. t \in Inside /\ Inside' = Inside \ {t} /\ remaining # 0
    BY <1>0, <1>10 DEF TypeOK, Inside, FetchSubOthers
  <2>1. RemainingCounts'
    BY <1>0, <1>10, <2>0, FS_RemoveElement DEF RemainingCounts, FetchSubOthers, TypeOK
  <2>2. TypeOK'
    BY <1>0, <1>10, <2>0 DEF TypeOK, Labels, FetchSubOthers
  <2>3. MutexInv'
    BY <1>0, <1>10, <2>0 DEF TypeOK, MutexInv, Critical, FetchSubOthers
  <2>4. SleepInv'
    BY <1>0, <1>10, <2>0 DEF TypeOK, SleepInv, MutexInv, Critical, FetchSubOthers
  <2>5. EmptyInv'
    BY <1>0, <1>10, <2>0 DEF TypeOK, EmptyInv, MutexInv, Critical, SinceInv, Blocked,
      Leaving, Inside, FetchSubOthers
  <2>6. SinceInv'
    BY <1>0, <1>10, <2>0 DEF TypeOK, SinceInv, Blocked, EmptyInv, MutexInv, Critical,
      Leaving, FetchSubOthers
  <2>7. NoLostWakeup'
    BY <1>0, <1>10, <2>0 DEF TypeOK, NoLostWakeup, EmptyInv, SleepInv, Inside, MutexInv,
      Critical, Leaving, FetchSubOthers
  <2> QED
    BY <2>1, <2>2, <2>3, <2>4, <2>5, <2>6, <2>7
<1>11. ASSUME NEW t \in Threads, FetchSubLast(t) PROVE BatcherInv'
  <2>0. t \in Inside /\ Inside' = Inside \ {t} /\ remaining # 0
    BY <1>0, <1>11 DEF TypeOK, Inside, FetchSubLast
  <2>1. RemainingCounts'
    BY <1>0, <1>11, <2>0, FS_RemoveElement DEF RemainingCounts, FetchSubLast, TypeOK
  <2>2. TypeOK'
    BY <1>0, <1>11, <2>0 DEF TypeOK, Labels, FetchSubLast
  <2>3. MutexInv'
    BY <1>0, <1>11, <2>0 DEF TypeOK, MutexInv, Critical, FetchSubLast
  <2>4. SleepInv'
    BY <1>0, <1>11, <2>0 DEF TypeOK, SleepInv, MutexInv, Critical, FetchSubLast
  <2>5. EmptyInv'
    BY <1>0, <1>11, <2>0 DEF TypeOK, EmptyInv, MutexInv, Critical, SinceInv, Blocked,
      Leaving, Inside, FetchSubLast
  <2>6. SinceInv'
    BY <1>0, <1>11, <2>0 DEF TypeOK, SinceInv, Blocked, EmptyInv, MutexInv, Critical,
      Leaving, FetchSubLast
  <2>7. NoLostWakeup'
    BY <1>0, <1>11, <2>0 DEF TypeOK, NoLostWakeup, EmptyInv, SleepInv, Inside, MutexInv,
      Critical, Leaving, FetchSubLast
  <2> QED
    BY <2>1, <2>2, <2>3, <2>4, <2>5, <2>6, <2>7
<1>12. ASSUME NEW t \in Threads, CommitCallback(t) PROVE BatcherInv'
  <2>0. Inside' = Inside
    BY <1>12 DEF TypeOK, Inside, SleepInv, CommitCallback
  <2>1. RemainingCounts'
    BY <2>0, <1>12 DEF RemainingCounts, CommitCallback
  <2>2. TypeOK'
    BY <1>0, <1>12, <2>0 DEF TypeOK, Labels, CommitCallback
  <2>3. MutexInv'
    BY <1>0, <1>12, <2>0 DEF TypeOK, MutexInv, Critical, CommitCallback
  <2>4. SleepInv'
    BY <1>0, <1>12, <2>0 DEF TypeOK, SleepInv, MutexInv, Critical, CommitCallback
  <2>5. EmptyInv'
    BY <1>0, <1>12, <2>0 DEF TypeOK, EmptyInv, MutexInv, Critical, SinceInv, Blocked,
      Leaving, Inside, CommitCallback
  <2>6. SinceInv'
    BY <1>0, <1>12, <2>0 DEF TypeOK, SinceInv, Blocked, EmptyInv, MutexInv, Critical,
      Leaving, CommitCallback
  <2>7. NoLostWakeup'
    BY <1>0, <1>12, <2>0 DEF TypeOK, NoLostWakeup, EmptyInv, SleepInv, Inside, MutexInv,
      Critical, Leaving, CommitCallback
  <2> QED
    BY <2>1, <2>2, <2>3, <2>4, <2>5, <2>6, <2>7
<1>13. ASSUME NEW t \in Threads, BumpEpoch(t) PROVE BatcherInv'
  <2>0. Inside' = Inside
    BY <1>13 DEF TypeOK, Inside, SleepInv, BumpEpoch
  <2>1. RemainingCounts'
    BY <2>0, <1>13 DEF RemainingCounts, BumpEpoch
  <2>2. TypeOK'
    BY <1>0, <1>13, <2>0 DEF TypeOK, Labels, BumpEpoch
  <2>3. MutexInv'
    BY <1>0, <1>13, <2>0 DEF TypeOK, MutexInv, Critical, BumpEpoch
  <2>4. SleepInv'
    BY <1>0, <1>13, <2>0 DEF TypeOK, SleepInv, MutexInv, Critical, BumpEpoch
  <2>5. EmptyInv'
    BY <1>0, <1>13, <2>0 DEF TypeOK, EmptyInv, MutexInv, Critical, SinceInv, Blocked,
      Leaving, Inside, BumpEpoch
  <2>6. SinceInv'
    BY <1>0, <1>13, <2>0 DEF TypeOK, SinceInv, Blocked, EmptyInv, MutexInv, Critical,
      Leaving, BumpEpoch
  <2>7. NoLostWakeup'
    BY <1>0, <1>13, <2>0 DEF TypeOK, NoLostWakeup, EmptyInv, SleepInv, Inside, MutexInv,
      Critical, Leaving, BumpEpoch
  <2> QED
    BY <2>1, <2>2, <2>3, <2>4, <2>5, <2>6, <2>7
<1>14. ASSUME NEW t \in Threads, OpenGate(t) PROVE BatcherInv'
  <2>0. Inside' = Inside
    BY <1>14 DEF TypeOK, Inside, SleepInv, OpenGate
  <2>1. RemainingCounts'
    BY <2>0, <1>14 DEF RemainingCounts, OpenGate
  <2>2. TypeOK'
    BY <1>0, <1>14, <2>0 DEF TypeOK, Labels, OpenGate
  <2>3. MutexInv'
    BY <1>0, <1>14, <2>0 DEF TypeOK, MutexInv, Critical, OpenGate
  <2>4. SleepInv'
    BY <1>0, <1>14, <2>0 DEF TypeOK, SleepInv, MutexInv, Critical, OpenGate
  <2>5. EmptyInv'
    BY <1>0, <1>14, <2>0 DEF TypeOK, EmptyInv, MutexInv, Critical, SinceInv, Blocked,
      Leaving, Inside, OpenGate
  <2>6. SinceInv'
    BY <1>0, <1>14, <2>0 DEF TypeOK, SinceInv, Blocked, EmptyInv, MutexInv, Critical,
      Leaving, OpenGate
  <2>7. NoLostWakeup'
    BY <1>0, <1>14, <2>0 DEF TypeOK, NoLostWakeup, EmptyInv, SleepInv, Inside, MutexInv,
      Critical, Leaving, OpenGate
  <2> QED
    BY <2>1, <2>2, <2>3, <2>4, <2>5, <2>6, <2>7
<1>15. ASSUME NEW t \in Threads, Broadcast(t) PROVE BatcherInv'
  <2>0. Inside' = Inside
    BY <1>15 DEF TypeOK, Inside, SleepInv, Broadcast
  <2>1. RemainingCounts'
    BY <2>0, <1>15 DEF RemainingCounts, Broadcast
  <2>2. TypeOK'
    BY <1>0, <1>15, <2>0 DEF TypeOK, Labels, Broadcast
  <2>3. MutexInv'
    BY <1>0, <1>15, <2>0 DEF TypeOK, MutexInv, Critical, Broadcast
  <2>4. SleepInv'
    BY <1>0, <1>15, <2>0 DEF TypeOK, SleepInv, MutexInv, Critical, Broadcast
  <2>5. EmptyInv'
    BY <1>0, <1>15, <2>0 DEF TypeOK, EmptyInv, MutexInv, Critical, SinceInv, Blocked,
      Leaving, Inside, Broadcast
  <2>6. SinceInv'
    BY <1>0, <1>15, <2>0 DEF TypeOK, SinceInv, SleepInv, Blocked, EmptyInv, MutexInv,
      Critical, Leaving, Broadcast
  <2>7. NoLostWakeup'
    BY <1>0, <1>15, <2>0 DEF TypeOK, NoLostWakeup, EmptyInv, SleepInv, Inside, MutexInv,
      Critical, Leaving, Broadcast
  <2> QED
    BY <2>1, <2>2, <2>3, <2>4, <2>5, <2>6, <2>7
<1>16. ASSUME UNCHANGED vars PROVE BatcherInv'
  <2>1. Inside' = Inside
    BY <1>16 DEF vars, Inside
  <2> QED
    BY <1>16, <2>1 DEF vars, TypeOK, MutexInv, SleepInv, EmptyInv, SinceInv, RemainingCounts,
      NoLostWakeup
<1> QED
  BY <1>1, <1>2, <1>3, <1>4, <1>5, <1>6, <1>7, <1>8, <1>9, <1>10, <1>11, <1>12, <1>13,
    <1>14, <1>15, <1>16 DEF Next, Enter, Leave, Done

\* The inductive invariant holds in every state of the batcher.
THEOREM BatcherInvariant == Spec => []BatcherInv
  BY InitBatcherInv, NextBatcherInv, PTL DEF Spec

\* The fields keep their types; in particular `remaining` is never decremented below 0.
THEOREM TypeCorrect == Spec => []TypeOK
  BY BatcherInvariant, PTL DEF BatcherInv

\* `remaining` is the number of threads between enter() and leave()'s fetch_sub.
THEOREM CounterExact == Spec => []RemainingCounts
  BY BatcherInvariant, PTL DEF BatcherInv

\* While a thread waits on the condition variable, some thread is on its way to
\* the broadcast of leave(): enter() and leave() lose no wakeup.
THEOREM WakeupsNotLost == Spec => []NoLostWakeup
  BY BatcherInvariant, PTL DEF BatcherInv

\* The commit callback of leave() runs with nobody inside the batch and never
\* beside another commit.
THEOREM CommitsExclusive == Spec => []CommitAlone
<1>1. BatcherInv => CommitAlone
  BY DEF BatcherInv, EmptyInv, MutexInv, Critical, Leaving, CommitAlone, Closing
<1> QED
  BY <1>1, BatcherInvariant, PTL

-----------------------------------------------------------------------------

\* The initial batcher is a closed gate with no member.
LEMMA InitGate == Init => Gate!GateInit
  BY DEF Init, FirstEpoch, Inside, Closing, Gate!GateInit

\* A step of the batcher is one step of the gate or leaves it as it is: the gate
\* moves when enter() blocks, when it joins, when leave() counts down, and when
\* the last member bumps the epoch.
LEMMA NextGate == BatcherInv /\ [Next]_vars => [Gate!GateNext]_(Gate!gateVars)
<1> SUFFICES ASSUME BatcherInv, [Next]_vars PROVE [Gate!GateNext]_(Gate!gateVars)
    OBVIOUS
<1> DEFINE members == Inside \union Closing
<1> USE DEF Goto
<1>0. TypeOK
  BY DEF BatcherInv
<1>1. ASSUME NEW t \in Threads, TestBusy(t) PROVE Gate!Block(t)
  <2>1. Inside # {}
    BY <1>1, <1>0, InsideFacts DEF BatcherInv, TestBusy
  <2>2. UNCHANGED <<Inside, Closing>>
    BY <1>1, <1>0 DEF TestBusy, TypeOK, Inside, Closing
  <2> QED
    BY <1>1, <1>0, <2>1, <2>2 DEF BatcherInv, SinceInv, Blocked, TestBusy, TypeOK, Inside,
      Closing, Gate!Block
<1>2. ASSUME NEW t \in Threads, Join(t) PROVE Gate!JoinEmpty(t) \/ Gate!JoinLater(t)
  <2>1. Closing = {} /\ Closing' = {}
    BY <1>2, <1>0 DEF BatcherInv, MutexInv, Critical, Join, TypeOK, Closing
  <2>2. Inside' = Inside \union {t}
    BY <1>2, <1>0 DEF Join, TypeOK, Inside
  <2>3. CASE since[t] = 0
    <3>1. Inside = {}
      BY <1>2, <2>3 DEF BatcherInv, EmptyInv, Join
    <3>2. since' = since
      BY <1>2, <1>0, <2>3 DEF Join, TypeOK
    <3> QED
      BY <1>2, <2>1, <2>2, <2>3, <3>1, <3>2 DEF Join, Gate!JoinEmpty
  <2>4. CASE since[t] # 0
    BY <1>2, <1>0, <2>1, <2>2, <2>4 DEF BatcherInv, SinceInv, Join, Gate!JoinLater
  <2> QED
    BY <2>3, <2>4
<1>3. ASSUME NEW t \in Threads, FetchSubOthers(t) PROVE Gate!LeaveOthers(t)
  <2>1. t \in Inside /\ Inside # {t}
    BY <1>3, <1>0, InsideFacts DEF BatcherInv, FetchSubOthers, Inside
  <2>2. t \notin Closing /\ Closing' = Closing /\ Inside' = Inside \ {t}
    BY <1>3, <1>0 DEF FetchSubOthers, TypeOK, Inside, Closing
  <2> QED
    BY <1>3, <2>1, <2>2 DEF FetchSubOthers, Gate!LeaveOthers
<1>4. ASSUME NEW t \in Threads, BumpEpoch(t) PROVE Gate!CloseBatch(t)
  <2>1. Inside = {} /\ Closing = {t}
    BY <1>4, <1>0 DEF BatcherInv, EmptyInv, MutexInv, Critical, Leaving, BumpEpoch, Closing
  <2>2. Inside' = {} /\ Closing' = {}
    BY <1>4, <1>0, <2>1 DEF BumpEpoch, TypeOK, Inside, Closing
  <2> QED
    BY <1>4, <2>1, <2>2 DEF BumpEpoch, Gate!CloseBatch
<1>5. ASSUME NEW t \in Threads,
             \/ EnterLock(t) \/ TestEmpty(t) \/ CondWait(t) \/ LoopExit(t) \/ Relock(t)
             \/ SpuriousWakeup(t) \/ LeaveLock(t) \/ FetchSubLast(t)
             \/ CommitCallback(t) \/ OpenGate(t) \/ Broadcast(t)
      PROVE  UNCHANGED Gate!gateVars
  <2>1. members' = members
    BY <1>5, <1>0 DEF BatcherInv, SleepInv, TypeOK, Inside, Closing, EnterLock, TestEmpty,
      CondWait,
      LoopExit, Relock, SpuriousWakeup, LeaveLock, FetchSubLast, CommitCallback,
      OpenGate, Broadcast
  <2>2. UNCHANGED <<epoch, since>>
    BY <1>5 DEF EnterLock, TestEmpty, CondWait, LoopExit, Relock, SpuriousWakeup,
      LeaveLock, FetchSubLast, CommitCallback, OpenGate, Broadcast
  <2> QED
    BY <2>1, <2>2 DEF Gate!gateVars
<1>6. ASSUME UNCHANGED vars PROVE UNCHANGED Gate!gateVars
  BY <1>6 DEF vars, Gate!gateVars, Inside, Closing
<1> QED
  BY <1>1, <1>2, <1>3, <1>4, <1>5, <1>6 DEF Next, Enter, Leave, Done, Gate!GateNext

\* Refinement: with `remaining`, keep_waiting, the mutex and the condition variable
\* hidden, enter() and leave() only ever do what EpochGate allows.
THEOREM BatcherImplementsGate == Spec => ImplementsGate
  BY InitGate, NextGate, BatcherInvariant, PTL DEF Spec, ImplementsGate, Gate!GateSpec
=============================================================================
