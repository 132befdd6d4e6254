---------------------------- MODULE TemplateProofs ----------------------------
(***************************************************************************)
(* Proofs about TemplateSTM, for any finite set of transactions and any    *)
(* set of words: the count of those inside is exact although it is         *)
(* decremented without the lock, so that a batch ends when nobody is in it *)
(* and a read-only transaction sees one memory from its entry to its end.  *)
(***************************************************************************)
EXTENDS TemplateSTM, FiniteSetTheorems, TLAPS

InsideSet == {t \in Tx : Inside(t)}
OverSet == {t \in Tx : Over(t)}

\* Everybody ends one epoch at the most, and is over then.
EpochInv == epoch <= 1 + Cardinality(OverSet)

\* A read-only transaction marks nothing, writes nothing, and while it is inside
\* the memory stays as it was when it entered.
ReaderInv ==
    /\ wrote \in [Tx -> SUBSET Words] /\ dirty \in [Tx -> BOOLEAN]
    /\ snap \in [Tx -> [Words -> Values]]
    /\ \A t \in ReadOnly :
          /\ pc[t] \in {"enter", "waiting", "woken", "run", "leave", "settle", "committed",
                        "aborted"}
          /\ wrote[t] = {} /\ ~dirty[t]
          /\ Inside(t) => snap[t] = readCopy

TemplateInv ==
    /\ TypeOK
    /\ EpochInv
    /\ ReaderInv

\* Spurious wakeups included.
Moves(t) == ~crashed /\ (Step(t) \/ (SpuriousWakeup(t) /\ OnlyGate))

-----------------------------------------------------------------------------
(* The gate *)

LEMMA Finite ==
    /\ IsFiniteSet(Tx) /\ Cardinality(Tx) \in Nat
    /\ \A S \in SUBSET Tx : IsFiniteSet(S) /\ Cardinality(S) \in 0 .. Cardinality(Tx)
BY TemplateAssumption, FS_Subset, FS_CardinalityType

\* A step of t wakes the others at the most.
LEMMA Others ==
    ASSUME TypeOK, NEW t \in Tx, Moves(t)
    PROVE  /\ pc' \in [Tx -> Labels]
           /\ \A u \in Tx \ {t} : pc'[u] = pc[u] \/ (pc[u] = "waiting" /\ pc'[u] = "woken")
<1> USE DEF TypeOK, Labels, Goto
<1>1. CASE GateStep(t) \/ SpuriousWakeup(t)
  BY <1>1 DEF GateStep, Enter, Counted, SpuriousWakeup, Wake, Decrement
<1>2. CASE Settle(t)
  BY <1>2 DEF Settle, AfterLeave
<1>3. CASE ReadStep(t)
  BY <1>3 DEF ReadStep, ReadReadOnly, ReadTest, ReadEpoch, ReadOwner, ReadMark, ReadStamp,
    ReadOwn, ReadLink, ReadCopy
<1>4. CASE WriteStep(t)
  BY <1>4 DEF WriteStep, WriteTest, WriteBranch, WriteEpoch, WriteOwner, WriteAlone,
    WriteOthers, WriteMark, WriteStamp, WriteOwn, WriteLink, WriteSet, WriteCopy
<1>5. CASE EndStep(t)
  BY <1>5 DEF EndStep, Undo, UndoEpoch, Publish
<1> QED
  BY <1>1, <1>2, <1>3, <1>4, <1>5 DEF Moves, Step

\* Where t is, and what the gate has counted.
LEMMA GateCases ==
    ASSUME TypeOK, NEW t \in Tx, Moves(t)
    PROVE  \/ /\ ~Inside(t) /\ pc'[t] = "run" /\ remaining' = remaining + 1 /\ epoch' = epoch
              /\ ~Over(t)
           \/ /\ Inside(t) /\ pc'[t] = "settle" /\ remaining' = remaining - 1 /\ epoch' = epoch
           \/ /\ Settle(t) /\ pc[t] = "settle" /\ Over(t)'
              /\ remaining' = remaining
              /\ \/ epoch' = epoch
                 \/ remaining = 0 /\ epoch' = epoch + 1
           \/ /\ Inside(t) <=> Inside(t)'
              /\ ~Over(t) /\ ~Over(t)'
              /\ remaining' = remaining /\ epoch' = epoch
<1> USE DEF TypeOK, Goto, Inside, Over
<1>1. CASE Enter(t) \/ Wake(t) \/ Decrement(t) \/ SpuriousWakeup(t)
  BY <1>1 DEF Enter, Counted, SpuriousWakeup, Wake, Decrement, gateVars
<1>2. CASE Settle(t)
  BY <1>2 DEF Settle, AfterLeave
<1>3. CASE ReadStep(t)
  BY <1>3 DEF ReadStep, ReadReadOnly, ReadTest, ReadEpoch, ReadOwner, ReadMark, ReadStamp,
    ReadOwn, ReadLink, ReadCopy, Calls, gateVars
<1>4. CASE WriteStep(t)
  BY <1>4 DEF WriteStep, WriteTest, WriteBranch, WriteEpoch, WriteOwner, WriteAlone,
    WriteOthers, WriteMark, WriteStamp, WriteOwn, WriteLink, WriteSet, WriteCopy, Calls,
    gateVars
<1>5. CASE EndStep(t)
  BY <1>5 DEF EndStep, Undo, UndoEpoch, Publish, gateVars
<1> QED
  BY <1>1, <1>2, <1>3, <1>4, <1>5 DEF Moves, Step, GateStep

\* remaining counts those inside, and everybody who is over has ended one epoch at most.
LEMMA CountStep ==
    ASSUME TypeOK, EpochInv, NEW t \in Tx, Moves(t)
    PROVE  /\ remaining' = Cardinality(InsideSet')
           /\ EpochInv'
           /\ epoch' \in 1 .. Cardinality(Tx) + 1
<1>1. \A u \in Tx \ {t} : (Inside(u)' <=> Inside(u)) /\ (Over(u)' <=> Over(u))
  BY Others DEF Inside, Over
<1>2. /\ InsideSet \subseteq Tx /\ OverSet \subseteq Tx /\ InsideSet' \subseteq Tx
      /\ OverSet' \subseteq Tx
  BY DEF InsideSet, OverSet
<1>3. remaining = Cardinality(InsideSet) /\ epoch \in Nat
  BY Finite DEF TypeOK, InsideSet
<1>4. Cardinality(OverSet) \in Nat /\ Cardinality(OverSet') \in 0 .. Cardinality(Tx)
      /\ Cardinality(InsideSet) \in Nat
  BY <1>2, Finite
<1>5. epoch >= 1 /\ epoch <= 1 + Cardinality(OverSet)
  BY DEF TypeOK, EpochInv
<1>6. CASE ~Inside(t) /\ pc'[t] = "run" /\ remaining' = remaining + 1 /\ epoch' = epoch /\ ~Over(t)
  <2>1. InsideSet' = InsideSet \union {t} /\ t \notin InsideSet /\ OverSet' = OverSet
    BY <1>1, <1>6 DEF InsideSet, OverSet, Inside, Over
  <2>2. Cardinality(InsideSet') = Cardinality(InsideSet) + 1
    BY <2>1, <1>2, Finite, FS_AddElement
  <2> QED
    BY <2>1, <2>2, <1>3, <1>4, <1>5, <1>6, Finite DEF EpochInv
<1>7. CASE Inside(t) /\ pc'[t] = "settle" /\ remaining' = remaining - 1 /\ epoch' = epoch
  <2>1. InsideSet' = InsideSet \ {t} /\ t \in InsideSet /\ OverSet' = OverSet
    BY <1>1, <1>7 DEF InsideSet, OverSet, Inside, Over
  <2>2. Cardinality(InsideSet') = Cardinality(InsideSet) - 1
    BY <2>1, <1>2, Finite, FS_RemoveElement
  <2> QED
    BY <2>1, <2>2, <1>3, <1>4, <1>5, <1>7, Finite DEF EpochInv
<1>8. CASE /\ pc[t] = "settle" /\ Over(t)' /\ remaining' = remaining
           /\ (epoch' = epoch \/ epoch' = epoch + 1)
  <2>1. OverSet' = OverSet \union {t} /\ t \notin OverSet /\ InsideSet' = InsideSet
    BY <1>1, <1>8 DEF InsideSet, OverSet, Inside, Over
  <2>2. Cardinality(OverSet') = Cardinality(OverSet) + 1
    BY <2>1, <1>2, Finite, FS_AddElement
  <2> QED
    BY <2>1, <2>2, <1>3, <1>4, <1>5, <1>8, Finite DEF EpochInv
<1>9. CASE /\ Inside(t) <=> Inside(t)'
           /\ ~Over(t) /\ ~Over(t)' /\ remaining' = remaining /\ epoch' = epoch
  <2>1. OverSet' = OverSet /\ InsideSet' = InsideSet
    BY <1>1, <1>9 DEF InsideSet, OverSet
  <2> QED
    BY <2>1, <1>3, <1>4, <1>5, <1>9, Finite DEF EpochInv
<1> QED
  BY <1>6, <1>7, <1>8, <1>9, GateCases

\* The epoch ends when nobody is inside.
LEMMA EpochEnds ==
    ASSUME TypeOK, NEW t \in Tx, Moves(t), epoch' # epoch
    PROVE  Settle(t) /\ remaining = 0 /\ \A u \in Tx : ~Inside(u)
<1>1. Settle(t) /\ remaining = 0
  BY GateCases
<1>2. Cardinality(InsideSet) = 0 /\ IsFiniteSet(InsideSet)
  BY <1>1, Finite DEF TypeOK, InsideSet
<1>3. InsideSet = {}
  BY <1>2, FS_EmptySet
<1> QED
  BY <1>1, <1>3 DEF InsideSet

-----------------------------------------------------------------------------
(* The words *)

\* No mark is of an epoch that has not begun.
LEMMA TypeStep ==
    ASSUME TypeOK, EpochInv, NEW t \in Tx, Moves(t)
    PROVE  TypeOK'
<1> USE DEF TypeOK
<1>0. /\ pc' \in [Tx -> Labels] /\ epoch' \in 1 .. Cardinality(Tx) + 1
      /\ remaining' = Cardinality({u \in Tx : Inside(u)'})
  BY Others, CountStep DEF InsideSet
<1>1. epoch \in Nat /\ epoch' \in Nat /\ epoch <= epoch' /\ epoch \in 0 .. epoch /\ 0 \in 0 .. epoch
  <2>1. epoch \in Nat /\ epoch' \in Nat /\ epoch >= 1
    BY <1>0, Finite
  <2>2. epoch' = epoch \/ epoch' = epoch + 1
    BY GateCases
  <2> QED
    BY <2>1, <2>2
<1>2. \A f \in [Words -> 0 .. epoch] : f \in [Words -> 0 .. epoch']
  BY <1>1
<1>3. NoTx \in Values /\ t \in Values
  BY DEF Values
<1>4. keepWaiting' \in BOOLEAN /\ crashed' \in BOOLEAN
  BY DEF Moves, Step, GateStep, Enter, Wake, Counted, Decrement, SpuriousWakeup, OnlyGate,
    gateVars, Settle, ReadStep, ReadReadOnly, ReadTest, ReadEpoch, ReadOwner, ReadMark,
    ReadStamp, ReadOwn, ReadLink, ReadCopy, WriteStep, WriteTest, WriteBranch, WriteEpoch,
    WriteOwner, WriteAlone, WriteOthers, WriteMark, WriteStamp, WriteOwn, WriteLink, WriteSet,
    WriteCopy, EndStep, Undo, UndoEpoch, Publish
<1>5. CASE GateStep(t) \/ (SpuriousWakeup(t) /\ OnlyGate)
  <2>1. UNCHANGED <<readLock, writeLock, accessSet, linked, accessedEpoch, written, writeCopy,
                    readCopy, modified, word, accessed, ops>>
    BY <1>5 DEF GateStep, OnlyGate, lockVars, controlVars, copyVars, txVars
  <2> QED
    BY <1>0, <1>2, <1>4, <2>1
<1>6. CASE Settle(t)
  <2>1. UNCHANGED <<readLock, writeLock, accessSet, linked, accessedEpoch, written, writeCopy,
                    word, accessed, ops>>
    BY <1>6 DEF Settle, lockVars, controlVars, txVars
  <2>2. readCopy' \in [Words -> Values] /\ modified' \subseteq Words
    BY <1>6 DEF Settle, CommitWords
  <2> QED
    BY <1>0, <1>2, <1>4, <2>1, <2>2
<1>7. CASE ReadStep(t)
  <2>1. UNCHANGED <<writeLock, writeCopy, readCopy, modified>>
    BY <1>7 DEF ReadStep, copyVars
  <2>2. readLock' \in Values /\ accessSet' \in [Words -> Values] /\ linked' \in [Words -> BOOLEAN]
    <3>1. linked' \in [Words -> BOOLEAN]
      BY <1>7 DEF ReadStep, ReadReadOnly, ReadTest, ReadEpoch, ReadOwner, ReadMark, ReadStamp,
        ReadOwn, ReadLink, ReadCopy, controlVars
    <3>2. readLock' \in Values
      BY <1>3, <1>7 DEF ReadStep, ReadReadOnly, ReadTest, ReadEpoch, ReadOwner, ReadMark,
        ReadStamp, ReadOwn, ReadLink, ReadCopy, controlVars
    <3>3. accessSet' \in [Words -> Values]
      BY <1>3, <1>7 DEF ReadStep, ReadReadOnly, ReadTest, ReadEpoch, ReadOwner, ReadMark,
        ReadStamp, ReadOwn, ReadLink, ReadCopy, controlVars
    <3> QED
      BY <3>1, <3>2, <3>3
  <2>3. accessedEpoch' \in [Words -> 0 .. epoch] /\ written' \in [Words -> 0 .. epoch]
    BY <1>1, <1>7 DEF ReadStep, ReadReadOnly, ReadTest, ReadEpoch, ReadOwner, ReadMark,
      ReadStamp, ReadOwn, ReadLink, ReadCopy, controlVars
  <2>4. word' \in [Tx -> Words] /\ accessed' \in [Tx -> SUBSET Words]
    BY <1>7 DEF ReadStep, ReadReadOnly, ReadTest, ReadEpoch, ReadOwner, ReadMark, ReadStamp,
      ReadOwn, ReadLink, ReadCopy, Calls, txVars
  <2>5. ops' \in [Tx -> 0 .. MaxOps]
    <3>1. CASE \E w \in Words : Calls(t, w)
      BY <3>1, TemplateAssumption DEF Calls
    <3>2. CASE ~(\E w \in Words : Calls(t, w))
      BY <1>7, <3>2 DEF ReadStep, ReadReadOnly, ReadTest, ReadEpoch, ReadOwner, ReadMark,
        ReadStamp, ReadOwn, ReadLink, ReadCopy, txVars
    <3> QED
      BY <3>1, <3>2
  <2> QED
    BY <1>0, <1>2, <1>4, <2>1, <2>2, <2>3, <2>4, <2>5
<1>8. CASE WriteStep(t)
  <2>1. UNCHANGED <<readLock, readCopy, modified>>
    BY <1>8 DEF WriteStep
  <2>2. writeLock' \in Values /\ accessSet' \in [Words -> Values] /\ linked' \in [Words -> BOOLEAN]
        /\ writeCopy' \in [Words -> Values]
    <3>1. linked' \in [Words -> BOOLEAN]
      BY <1>8 DEF WriteStep, WriteTest, WriteBranch, WriteEpoch, WriteOwner, WriteAlone,
        WriteOthers, WriteMark, WriteStamp, WriteOwn, WriteLink, WriteSet, WriteCopy,
        controlVars
    <3>2. writeLock' \in Values /\ writeCopy' \in [Words -> Values]
      BY <1>3, <1>8 DEF WriteStep, WriteTest, WriteBranch, WriteEpoch, WriteOwner, WriteAlone,
        WriteOthers, WriteMark, WriteStamp, WriteOwn, WriteLink, WriteSet, WriteCopy,
        controlVars
    <3>3. accessSet' \in [Words -> Values]
      BY <1>3, <1>8 DEF WriteStep, WriteTest, WriteBranch, WriteEpoch, WriteOwner, WriteAlone,
        WriteOthers, WriteMark, WriteStamp, WriteOwn, WriteLink, WriteSet, WriteCopy,
        controlVars
    <3> QED
      BY <3>1, <3>2, <3>3
  <2>3. accessedEpoch' \in [Words -> 0 .. epoch] /\ written' \in [Words -> 0 .. epoch]
    BY <1>1, <1>8 DEF WriteStep, WriteTest, WriteBranch, WriteEpoch, WriteOwner, WriteAlone,
      WriteOthers, WriteMark, WriteStamp, WriteOwn, WriteLink, WriteSet, WriteCopy, controlVars
  <2>4. word' \in [Tx -> Words] /\ accessed' \in [Tx -> SUBSET Words]
    BY <1>8 DEF WriteStep, WriteTest, WriteBranch, WriteEpoch, WriteOwner, WriteAlone,
      WriteOthers, WriteMark, WriteStamp, WriteOwn, WriteLink, WriteSet, WriteCopy, Calls,
      txVars
  <2>5. ops' \in [Tx -> 0 .. MaxOps]
    <3>1. CASE \E w \in Words : Calls(t, w)
      BY <3>1, TemplateAssumption DEF Calls
    <3>2. CASE ~(\E w \in Words : Calls(t, w))
      BY <1>8, <3>2 DEF WriteStep, WriteTest, WriteBranch, WriteEpoch, WriteOwner, WriteAlone,
        WriteOthers, WriteMark, WriteStamp, WriteOwn, WriteLink, WriteSet, WriteCopy, txVars
    <3> QED
      BY <3>1, <3>2
  <2> QED
    BY <1>0, <1>2, <1>4, <2>1, <2>2, <2>3, <2>4, <2>5
<1>9. CASE EndStep(t)
  <2>1. UNCHANGED <<readLock, writeLock, accessSet, linked, writeCopy, readCopy, ops>>
    BY <1>9 DEF EndStep, Undo, UndoEpoch, Publish, lockVars, controlVars
  <2>2. /\ accessedEpoch' \in [Words -> 0 .. epoch] /\ written' \in [Words -> 0 .. epoch]
        /\ modified' \subseteq Words /\ accessed' \in [Tx -> SUBSET Words]
        /\ word' \in [Tx -> Words]
    BY <1>1, <1>9 DEF EndStep, Undo, UndoEpoch, Publish, controlVars
  <2> QED
    BY <1>0, <1>2, <1>4, <2>1, <2>2
<1> QED
  BY <1>5, <1>6, <1>7, <1>8, <1>9 DEF Moves, Step

\* segments_read changes when nobody is inside, and read-only transactions read nothing
\* else.
LEMMA ReaderStep ==
    ASSUME TypeOK, EpochInv, ReaderInv, NEW t \in Tx, Moves(t)
    PROVE  ReaderInv'
<1> USE DEF TypeOK
<1>1. readCopy' = readCopy \/ (Settle(t) /\ \A u \in Tx : ~Inside(u))
  <2>1. CASE Settle(t) /\ remaining = 0
    <3>1. epoch' # epoch
      BY <2>1, Finite DEF Settle
    <3> QED
      BY <2>1, <3>1, EpochEnds
  <2>2. CASE Settle(t) /\ remaining # 0
    BY <2>2 DEF Settle
  <2>3. CASE ~Settle(t)
    BY <2>3 DEF Moves, Step, GateStep, OnlyGate, ReadStep, WriteStep, EndStep, copyVars
  <2> QED
    BY <2>1, <2>2, <2>3
<1>2. \A u \in Tx \ {t} : Inside(u)' <=> Inside(u)
  BY Others DEF Inside
<1>3. /\ wrote' \in [Tx -> SUBSET Words] /\ \A u \in Tx \ {t} : wrote'[u] = wrote[u]
      /\ t \in ReadOnly => wrote'[t] = wrote[t]
  <2>1. CASE WriteCopy(t)
    BY <2>1 DEF WriteCopy, Goto, ReaderInv
  <2>2. CASE ~WriteCopy(t)
    BY <2>2 DEF ReaderInv, Moves, Step, GateStep, OnlyGate, Settle, ReadStep, WriteStep,
      WriteTest, WriteBranch, WriteEpoch, WriteOwner, WriteAlone, WriteOthers, WriteMark,
      WriteStamp, WriteOwn, WriteLink, WriteSet, EndStep, histVars
  <2> QED
    BY <2>1, <2>2
<1>4. /\ snap' \in [Tx -> [Words -> Values]] /\ \A u \in Tx \ {t} : snap'[u] = snap[u]
      /\ Inside(t)' => snap'[t] = readCopy \/ (Inside(t) /\ snap'[t] = snap[t])
  <2>1. CASE Enter(t) \/ Wake(t)
    BY <2>1 DEF Enter, Wake, Counted, gateVars, ReaderInv, Inside
  <2>2. CASE ~(Enter(t) \/ Wake(t))
    <3>1. snap' = snap
      BY <2>2 DEF Moves, Step, GateStep, Decrement, SpuriousWakeup, Settle, ReadStep,
        WriteStep, EndStep, histVars, gateVars
    <3>2. Inside(t)' => Inside(t)
      <4>1. pc'[t] = "run" => Inside(t)
        BY <2>2 DEF Moves, Step, GateStep, Decrement, SpuriousWakeup, Settle, AfterLeave,
          ReadStep, ReadReadOnly, ReadTest, ReadEpoch, ReadOwner, ReadMark, ReadStamp, ReadOwn,
          ReadLink, ReadCopy, Calls, WriteStep, WriteTest, WriteBranch, WriteEpoch, WriteOwner,
          WriteAlone, WriteOthers, WriteMark, WriteStamp, WriteOwn, WriteLink, WriteSet,
          WriteCopy, EndStep, Undo, UndoEpoch, Publish, Goto, Inside
      <4> QED
        BY <4>1, GateCases DEF Inside, Over
    <3> QED
      BY <3>1, <3>2 DEF ReaderInv
  <2> QED
    BY <2>1, <2>2
<1>5. ASSUME t \in ReadOnly
      PROVE  pc'[t] \in {"enter", "waiting", "woken", "run", "leave", "settle", "committed",
                         "aborted"}
  <2>1. pc[t] \in {"enter", "waiting", "woken", "run", "leave", "settle", "committed",
                   "aborted"}
    BY <1>5 DEF ReaderInv
  <2>2. CASE ReadStep(t)
    BY <1>5, <2>1, <2>2 DEF ReadStep, ReadReadOnly, ReadTest, ReadEpoch, ReadOwner, ReadMark,
      ReadStamp, ReadOwn, ReadLink, ReadCopy, Goto
  <2>3. CASE WriteStep(t) \/ EndStep(t)
    BY <1>5, <2>1, <2>3 DEF WriteStep, WriteTest, WriteBranch, WriteEpoch, WriteOwner,
      WriteAlone, WriteOthers, WriteMark, WriteStamp, WriteOwn, WriteLink, WriteSet, WriteCopy,
      EndStep, Undo, UndoEpoch, Publish, Goto
  <2>4. CASE GateStep(t) \/ SpuriousWakeup(t) \/ Settle(t)
    BY <2>1, <2>4 DEF GateStep, Enter, Wake, Counted, Decrement, SpuriousWakeup, Settle,
      AfterLeave, Goto
  <2> QED
    BY <2>2, <2>3, <2>4 DEF Moves, Step
<1>6. /\ dirty' \in [Tx -> BOOLEAN] /\ \A u \in Tx \ {t} : dirty'[u] = dirty[u]
      /\ t \in ReadOnly => ~dirty'[t]
  <2>1. CASE ReadStep(t)
    <3>1. dirty' = dirty \/ \E w \in Words : \E v : Gets(t, w, v)
      BY <2>1 DEF ReadStep, ReadReadOnly, ReadTest, ReadEpoch, ReadOwner, ReadMark, ReadStamp,
        ReadOwn, ReadLink, ReadCopy, readVars
    <3>2. dirty' \in [Tx -> BOOLEAN] /\ \A u \in Tx \ {t} : dirty'[u] = dirty[u]
      BY <3>1, Zenon DEF Gets, ReaderInv
    <3>3. ASSUME t \in ReadOnly PROVE ~dirty'[t]
      <4>1. pc[t] \in {"enter", "waiting", "woken", "run", "leave", "settle", "committed",
                       "aborted"}
        BY <3>3 DEF ReaderInv
      <4>2. PICK w \in Words : ReadReadOnly(t, w)
        BY <2>1, <3>3, <4>1 DEF ReadStep, ReadTest, ReadEpoch, ReadOwner, ReadMark, ReadStamp,
          ReadOwn, ReadLink, ReadCopy, Goto
      <4>3. pc[t] = "run" /\ Gets(t, w, readCopy[w])
        BY <4>2 DEF ReadReadOnly, Calls
      <4>4. w \notin wrote[t] /\ snap[t] = readCopy /\ ~dirty[t] /\ dirty \in [Tx -> BOOLEAN]
        BY <3>3, <4>3 DEF ReaderInv, Inside
      <4> QED
        BY <4>3, <4>4 DEF Gets
    <3> QED
      BY <3>2, <3>3
  <2>2. CASE ~ReadStep(t)
    <3>1. dirty' = dirty
      BY <2>2 DEF Moves, Step, GateStep, OnlyGate, Settle, WriteStep, EndStep, histVars,
        readVars
    <3> QED
      BY <3>1 DEF ReaderInv
  <2> QED
    BY <2>1, <2>2
<1>7. ASSUME NEW u \in ReadOnly PROVE Inside(u)' => snap'[u] = readCopy'
  <2>1. u \in Tx /\ (Inside(u) => snap[u] = readCopy)
    BY TemplateAssumption DEF ReaderInv
  <2>2. CASE Settle(t) /\ \A v \in Tx : ~Inside(v)
    <3>1. ~Inside(t)'
      BY <2>2 DEF Settle, AfterLeave, Inside
    <3> QED
      BY <1>2, <2>1, <2>2, <3>1
  <2>3. CASE readCopy' = readCopy
    BY <1>2, <1>4, <2>1, <2>3
  <2> QED
    BY <1>1, <2>2, <2>3
<1>8. ASSUME NEW u \in ReadOnly, u # t
      PROVE  /\ pc'[u] \in {"enter", "waiting", "woken", "run", "leave", "settle", "committed",
                            "aborted"}
             /\ wrote'[u] = {} /\ ~dirty'[u]
  <2>1. u \in Tx \ {t}
    BY <1>8, TemplateAssumption
  <2> QED
    BY <1>3, <1>6, <2>1, Others DEF ReaderInv
<1>9. t \in ReadOnly => wrote'[t] = {}
  BY <1>3 DEF ReaderInv
<1> QED
  BY <1>3, <1>4, <1>5, <1>6, <1>7, <1>8, <1>9 DEF ReaderInv, Inside

-----------------------------------------------------------------------------
(* Theorems *)

LEMMA InitTemplateInv == Init => TemplateInv
<1> SUFFICES ASSUME Init PROVE TemplateInv
  OBVIOUS
<1> USE DEF Init
<1>1. TypeOK
  <2>1. {t \in Tx : Inside(t)} = {}
    BY DEF Inside
  <2>2. remaining = Cardinality({t \in Tx : Inside(t)}) /\ epoch \in 1 .. Cardinality(Tx) + 1
    BY <2>1, FS_EmptySet, Finite
  <2>3. word \in [Tx -> Words]
    <3>1. (CHOOSE w \in Words : TRUE) \in Words
      BY TemplateAssumption
    <3> QED
      BY <3>1
  <2>4. NoTx \in Values
    BY DEF Values
  <2>5. pc \in [Tx -> Labels] /\ ops \in [Tx -> 0 .. MaxOps] /\ accessed \in [Tx -> SUBSET Words]
    BY TemplateAssumption DEF Labels
  <2>6. accessedEpoch \in [Words -> 0 .. epoch] /\ written \in [Words -> 0 .. epoch]
    OBVIOUS
  <2>7. linked \in [Words -> BOOLEAN] /\ keepWaiting \in BOOLEAN /\ crashed \in BOOLEAN
    OBVIOUS
  <2>8. /\ accessSet \in [Words -> Values] /\ writeCopy \in [Words -> Values]
        /\ readCopy \in [Words -> Values] /\ modified \subseteq Words
        /\ readLock \in Values /\ writeLock \in Values
    BY <2>4
  <2> QED
    BY <2>2, <2>3, <2>5, <2>6, <2>7, <2>8 DEF TypeOK
<1>2. EpochInv
  BY Finite DEF EpochInv, OverSet
<1>3. ReaderInv
  <2>1. NoTx \in Values
    BY DEF Values
  <2> QED
    BY <2>1, TemplateAssumption DEF ReaderInv, Inside
<1> QED
  BY <1>1, <1>2, <1>3 DEF TemplateInv

LEMMA NextTemplateInv == TemplateInv /\ [Next]_vars => TemplateInv'
<1> SUFFICES ASSUME TemplateInv, [Next]_vars PROVE TemplateInv'
  OBVIOUS
<1>1. ASSUME NEW t \in Tx, Moves(t) PROVE TemplateInv'
  BY <1>1, TypeStep, CountStep, ReaderStep DEF TemplateInv
<1>2. CASE UNCHANGED vars
  <2>1. UNCHANGED <<keepWaiting, remaining, epoch, readLock, writeLock, accessSet, accessedEpoch,
                    written, linked, writeCopy, readCopy, modified, pc, word, accessed, ops,
                    crashed, seen, wrote, snap, dirty, batch>>
    BY <1>2 DEF vars, gateVars, lockVars, controlVars, copyVars, txVars, readVars, histVars
  <2>2. TypeOK'
    BY <2>1 DEF TemplateInv, TypeOK, Inside
  <2>3. EpochInv' /\ ReaderInv'
    BY <2>1 DEF TemplateInv, EpochInv, ReaderInv, OverSet, Over, Inside
  <2> QED
    BY <2>2, <2>3 DEF TemplateInv
<1> QED
  BY <1>1, <1>2 DEF Next, Moves, Step

\* At every time the types, the count of the epochs and what readers rely on hold.
THEOREM TemplateInvariance == Spec => []TemplateInv
BY InitTemplateInv, NextTemplateInv, PTL DEF Spec

\* The count of the gate is that of the transactions inside, and no mark is of an epoch
\* to come.
THEOREM TemplateTypes == Spec => []TypeOK
<1>1. TemplateInv => TypeOK
  BY DEF TemplateInv
<1> QED
  BY <1>1, TemplateInvariance, PTL

\* What a read-only transaction reads is the memory when it entered.
THEOREM ReadersSeeSnapshots == Spec => []ReadOnlySnapshots
<1>1. TemplateInv => ReadOnlySnapshots
  BY DEF TemplateInv, ReaderInv, ReadOnlySnapshots
<1> QED
  BY <1>1, TemplateInvariance, PTL

\* leave() decrements remaining before it takes the lock, and tests it after: all the
\* same the epoch ends when nobody is inside, and no sooner.
THEOREM EpochsEndAlone == Spec => CommitAlone
<1>1. TemplateInv /\ [Next]_vars => [epoch' # epoch => \A t \in Tx : ~Inside(t)]_vars
  <2> SUFFICES ASSUME TemplateInv, Next, epoch' # epoch PROVE \A t \in Tx : ~Inside(t)
    BY DEF vars, gateVars
  <2>1. ~(UNCHANGED vars)
    BY DEF vars, gateVars
  <2>2. PICK t \in Tx : Moves(t)
    BY <2>1 DEF Next, Moves, Step
  <2> QED
    BY <2>2, EpochEnds DEF TemplateInv
<1> QED
  BY <1>1, TemplateInvariance, PTL DEF Spec, CommitAlone
===============================================================================
