------------------------------ MODULE STMProofs ------------------------------
(***************************************************************************)
(* Proofs about DualVersionedSTM, for any transactions, words and numbers  *)
(* of calls.                                                               *)
(*                                                                         *)
(* The controls: whatever marks a word (its access type, its tx_read, its  *)
(* accessed_write) is the trace of a member of the batch that will reset   *)
(* it if it aborts, or is already handed to commit().  Only saved may      *)
(* survive: it vouches for pointers that are set, and never change.  So    *)
(* the controls are free whenever a batch is empty, which the source       *)
(* relies on and never checks.                                             *)
(*                                                                         *)
(* The values: what reads return, who owns a word, and what a batch        *)
(* publishes.  ValueInv is inductive relative to STMInv.                   *)
(***************************************************************************)
EXTENDS DualVersionedSTM, SequenceTheorems, TLAPS

\* The transactions inside a batch are those between tm_begin and the end of tm_end.
MemberInv ==
    \A t \in Tx :
        /\ t \in members <=> pc[t] \notin {"new", "committed", "aborted"}
        /\ since[t] # 0 => pc[t] = "new"

WordInv == \A t \in Tx : pc[t] \in ReadLabels \union WriteLabels => word[t] \in Words

ListInv ==
    \A t \in Tx :
        /\ pc[t] \in {"undoTxRead", "undoWritten", "undoAcs"} => accessed[t] # <<>>
        /\ pc[t] \in {"new", "leaveAborted", "committed", "aborted"} => accessed[t] = <<>>
        /\ pc[t] = "leaveCommitted" => Range(accessed[t]) \subseteq modified

ReadInserts == {"setTxRead", "readFields", "readLink", "readSave"}
WriteInserts ==
    {"testSaved", "writeFields", "writeLink", "writeSave", "testWritten", "insertWritten"}

\* t is on its way to insert w in its list, or to find it already marked as written.
Inserting(t, w) == word[t] = w /\ pc[t] \in ReadInserts \union WriteInserts

\* t has still to reset tx_read (accessed_write) of w, if it aborts.
ToUndoRead(t, w) ==
    w \in Range(IF pc[t] \in {"undoWritten", "undoAcs"} THEN Tail(accessed[t]) ELSE accessed[t])
ToUndoWritten(t, w) ==
    w \in Range(IF pc[t] = "undoAcs" THEN Tail(accessed[t]) ELSE accessed[t])

\* Whoever leaves a trace in a control is a member that will reset it, has
\* handed it to the commit, or relies on a member that marked it as written.
Holds(t, w) == Inserting(t, w) \/ w \in Range(accessed[t])

AcsInv ==
    \A w \in Words : acs[w] # "null" => w \in modified \/ \E t \in members : Holds(t, w)

HoldsRead(t, w) == (word[t] = w /\ pc[t] \in ReadInserts) \/ ToUndoRead(t, w)

TxReadInv ==
    \A w \in Words : txRead[w] # NoTx =>
        w \in modified \/ (txRead[w] \in members /\ HoldsRead(txRead[w], w))

WrittenInv ==
    \A w \in Words : accessedWrite[w] =>
        w \in modified \/ \E t \in members : ToUndoWritten(t, w)

\* Outside of a batch nothing is left to commit.
ModifiedInv == members = {} => modified = {}

\* saved vouches for the pointers, or for those that the transaction which has
\* stored it first is about to set.
Linking(t, w) == word[t] = w /\ pc[t] \in {"readLink", "writeLink"}
LinkedInv ==
    /\ \A w \in Words : saved[w] => linked[w] \/ \E t \in Tx : Linking(t, w)
    /\ \A t \in Tx : pc[t] \in {"readSave", "writeSave"} => linked[word[t]]

STMInv ==
    /\ TypeOK
    /\ MemberInv
    /\ WordInv
    /\ ListInv
    /\ AcsInv
    /\ TxReadInv
    /\ WrittenInv
    /\ ModifiedInv
    /\ LinkedInv

-----------------------------------------------------------------------------
(* Abbreviations of the proofs *)

\* A step of t leaves the local state of the others alone.
Frame(t) ==
    \A u \in Tx \ {t} :
        pc'[u] = pc[u] /\ word'[u] = word[u] /\ accessed'[u] = accessed[u]

\* The conclusions of AcsInv, TxReadInv and WrittenInv for one word.
CoveredNext(v) == v \in modified' \/ \E u \in members' : Holds(u, v)'
ReadCovered(u, v) == v \in modified \/ (u \in members /\ HoldsRead(u, v))
WrittenCovered(v) == v \in modified \/ \E u \in members : ToUndoWritten(u, v)

-----------------------------------------------------------------------------
(* Lists *)

\* The elements of a sequence are in the set it is over.
LEMMA RangeType ==
    ASSUME NEW S, NEW s \in Seq(S)
    PROVE  Range(s) \subseteq S
BY DEF Range

\* insert_list adds one element.
LEMMA RangeAppend ==
    ASSUME NEW S, NEW s \in Seq(S), NEW e \in S
    PROVE  /\ Append(s, e) \in Seq(S)
           /\ Append(s, e) # <<>>
           /\ Range(Append(s, e)) = Range(s) \union {e}
<1>1. Append(s, e) \in Seq(S) /\ Append(s, e) # <<>> /\ Len(Append(s, e)) = Len(s) + 1
  BY AppendProperties
<1>2. /\ Append(s, e)[Len(s) + 1] = e
      /\ \A i \in 1 .. Len(s) : Append(s, e)[i] = s[i]
  OBVIOUS
<1> QED
  BY <1>1, <1>2 DEF Range

\* The undo loop of tm_end meets the elements of the list one after the other.
LEMMA RangeTail ==
    ASSUME NEW S, NEW s \in Seq(S), s # <<>>
    PROVE  /\ Head(s) \in S
           /\ Tail(s) \in Seq(S)
           /\ Range(s) = Range(Tail(s)) \union {Head(s)}
<1>1. /\ Head(s) \in S /\ Head(s) = s[1]
      /\ Tail(s) \in Seq(S)
      /\ Len(s) \in Nat \ {0}
      /\ Len(Tail(s)) = Len(s) - 1
  OBVIOUS
<1>2. \A i \in 1 .. Len(Tail(s)) : Tail(s)[i] = s[i + 1]
  OBVIOUS
<1>3. ASSUME NEW i \in 2 .. Len(s) PROVE s[i] \in Range(Tail(s))
  <2>1. i - 1 \in 1 .. Len(Tail(s)) /\ s[i] = Tail(s)[i - 1]
    BY <1>1, <1>2
  <2>2. DOMAIN Tail(s) = 1 .. Len(Tail(s))
    BY <1>1
  <2> QED
    BY <2>1, <2>2 DEF Range
<1>4. Range(Tail(s)) \subseteq Range(s)
  BY <1>1, <1>2 DEF Range
<1>5. Head(s) \in Range(s)
  BY <1>1 DEF Range
<1>6. ASSUME NEW x \in Range(s), x # Head(s) PROVE x \in Range(Tail(s))
  <2>1. PICK i \in 1 .. Len(s) : x = s[i]
    BY <1>1 DEF Range
  <2> QED
    BY <2>1, <1>1, <1>3, <1>6
<1> QED
  BY <1>1, <1>4, <1>5, <1>6

-----------------------------------------------------------------------------
(* The invariant holds at the start, and every step keeps it *)

\* tm_create establishes the invariant.
LEMMA InitSTMInv == Init => STMInv
<1> SUFFICES ASSUME Init PROVE STMInv
    OBVIOUS
<1>1. /\ Gate!GateTypeOK
      /\ acs \in [Words -> Acs]
      /\ txRead \in [Words -> Content] /\ readCopy \in [Words -> Content]
      /\ writeCopy \in [Words -> Content]
      /\ pc \in [Tx -> Labels] /\ accessed \in [Tx -> Seq(Words)]
  BY DEF Init, Gate!GateInit, Gate!GateTypeOK, Zeroed, Content, Acs, Labels
<1>2. TypeOK
  BY <1>1 DEF Init, TypeOK, Zeroed, NothingSeen, Content
<1>3. MemberInv /\ WordInv /\ ListInv
  BY DEF Init, Gate!GateInit, MemberInv, WordInv, ListInv, ReadLabels, WriteLabels
<1>4. AcsInv /\ TxReadInv /\ WrittenInv /\ ModifiedInv
  BY DEF Init, Zeroed, AcsInv, TxReadInv, WrittenInv, ModifiedInv
<1>5. LinkedInv
  BY DEF Init, LinkedInv
<1> QED
  BY <1>2, <1>3, <1>4, <1>5 DEF STMInv

\* Every step keeps the types of the fields, of the copies and of the lists.
LEMMA TypeStep ==
    ASSUME STMInv, NEW t \in Tx, Step(t)
    PROVE  TypeOK'
<1> USE DEF STMInv, TypeOK, Gate!GateTypeOK, Goto, Content, Acs
<1>1. CASE Begin(t)
  <2>1. Gate!GateTypeOK'
    BY <1>1 DEF Begin, Gate!JoinEmpty, Gate!JoinLater
  <2> QED
    BY <1>1, <2>1 DEF Begin, Labels, controlVars, memVars, callVars
<1>2. CASE BeginBlocked(t)
  BY <1>2 DEF
    BeginBlocked, Gate!Block, gateVars, controlVars, memVars, callVars, histVars, Labels,
    ReadLabels, WriteLabels, UndoLabels
<1>3. CASE \E w \in Words : ReadOnlyRead(t, w)
  BY <1>3 DEF
    ReadOnlyRead, gateVars, controlVars, memVars, callVars, histVars, Labels, ReadLabels,
    WriteLabels, UndoLabels
<1>4. CASE \E w \in Words : ReadCall(t, w)
  BY <1>4 DEF
    ReadCall, gateVars, controlVars, memVars, callVars, histVars, Labels, ReadLabels,
    WriteLabels, UndoLabels
<1>5. CASE CopyOwn(t)
  BY <1>5 DEF
    CopyOwn, ReadReturns, WordDone, gateVars, controlVars, memVars, callVars, histVars,
    Labels, ReadLabels, WriteLabels, UndoLabels, WordInv
<1>6. CASE CopyRead(t)
  BY <1>6 DEF
    CopyRead, ReadReturns, WordDone, gateVars, controlVars, memVars, callVars, histVars,
    Labels, ReadLabels, WriteLabels, UndoLabels, WordInv
<1>7. CASE CasRead(t)
  BY <1>7 DEF
    CasRead, gateVars, controlVars, memVars, callVars, histVars, Labels, ReadLabels,
    WriteLabels, UndoLabels, WordInv
<1>8. CASE SetTxRead(t)
  BY <1>8 DEF
    SetTxRead, gateVars, controlVars, memVars, callVars, histVars, Labels, ReadLabels,
    WriteLabels, UndoLabels
<1>9. CASE ReadSaveFirst(t)
  BY <1>9 DEF
    ReadSaveFirst, gateVars, controlVars, memVars, callVars, histVars, Labels, ReadLabels,
    WriteLabels, UndoLabels
<1>10. CASE ReadLinkFirst(t)
  BY <1>10 DEF
    ReadLinkFirst, gateVars, controlVars, memVars, callVars, histVars, Labels, ReadLabels,
    WriteLabels, UndoLabels
<1>11. CASE ReadLink(t)
  BY <1>11, RangeAppend DEF
    ReadLink, FirstReadDone, ReadReturns, WordDone, gateVars, controlVars, memVars,
    callVars, histVars, Labels, ReadLabels, WriteLabels, UndoLabels, WordInv
<1>12. CASE ReadSave(t)
  BY <1>12, RangeAppend DEF
    ReadSave, FirstReadDone, ReadReturns, WordDone, gateVars, controlVars, memVars,
    callVars, histVars, Labels, ReadLabels, WriteLabels, UndoLabels, WordInv
<1>13. CASE CmpTxRead(t)
  BY <1>13 DEF
    CmpTxRead, gateVars, controlVars, memVars, callVars, histVars, Labels, ReadLabels,
    WriteLabels, UndoLabels
<1>14. CASE CasMore(t)
  BY <1>14 DEF
    CasMore, gateVars, controlVars, memVars, callVars, histVars, Labels, ReadLabels,
    WriteLabels, UndoLabels
<1>15. CASE LoadMore(t)
  BY <1>15 DEF
    LoadMore, gateVars, controlVars, memVars, callVars, histVars, Labels, ReadLabels,
    WriteLabels, UndoLabels
<1>16. CASE ReadFails(t)
  BY <1>16 DEF
    ReadFails, WordDone, gateVars, controlVars, memVars, callVars, histVars, Labels,
    ReadLabels, WriteLabels, UndoLabels
<1>17. CASE \E w \in Words : WriteCall(t, w)
  BY <1>17 DEF
    WriteCall, gateVars, controlVars, memVars, callVars, histVars, Labels, ReadLabels,
    WriteLabels, UndoLabels
<1>18. CASE CasNull(t)
  BY <1>18 DEF
    CasNull, gateVars, controlVars, memVars, callVars, histVars, Labels, ReadLabels,
    WriteLabels, UndoLabels
<1>19. CASE CasFirst(t)
  BY <1>19 DEF
    CasFirst, gateVars, controlVars, memVars, callVars, histVars, Labels, ReadLabels,
    WriteLabels, UndoLabels
<1>20. CASE WriteFails(t)
  BY <1>20 DEF
    WriteFails, WordDone, gateVars, controlVars, memVars, callVars, histVars, Labels,
    ReadLabels, WriteLabels, UndoLabels
<1>21. CASE TestSaved(t)
  BY <1>21 DEF
    TestSaved, gateVars, controlVars, memVars, callVars, histVars, Labels, ReadLabels,
    WriteLabels, UndoLabels
<1>22. CASE WriteSaveFirst(t)
  BY <1>22 DEF
    WriteSaveFirst, gateVars, controlVars, memVars, callVars, histVars, Labels, ReadLabels,
    WriteLabels, UndoLabels
<1>23. CASE WriteLinkFirst(t)
  BY <1>23 DEF
    WriteLinkFirst, gateVars, controlVars, memVars, callVars, histVars, Labels, ReadLabels,
    WriteLabels, UndoLabels
<1>24. CASE WriteLink(t)
  BY <1>24 DEF
    WriteLink, gateVars, controlVars, memVars, callVars, histVars, Labels, ReadLabels,
    WriteLabels, UndoLabels
<1>25. CASE WriteSave(t)
  BY <1>25 DEF
    WriteSave, gateVars, controlVars, memVars, callVars, histVars, Labels, ReadLabels,
    WriteLabels, UndoLabels
<1>26. CASE TestWritten(t)
  BY <1>26 DEF
    TestWritten, gateVars, controlVars, memVars, callVars, histVars, Labels, ReadLabels,
    WriteLabels, UndoLabels
<1>27. CASE InsertWritten(t)
  BY <1>27, RangeAppend DEF
    InsertWritten, gateVars, controlVars, memVars, callVars, histVars, Labels, ReadLabels,
    WriteLabels, UndoLabels, WordInv
<1>28. CASE CopyWrite(t)
  BY <1>28 DEF
    CopyWrite, WordDone, gateVars, controlVars, memVars, callVars, histVars, Labels,
    ReadLabels, WriteLabels, UndoLabels, WordInv
<1>29. CASE EndCommit(t)
  <2>1. modified' \in SUBSET Words
    BY <1>29, RangeType DEF EndCommit
  <2> QED
    BY <1>29, <2>1 DEF EndCommit, Labels, gateVars, controlVars, callVars, histVars
<1>30. CASE UndoSaved(t)
  BY <1>30, RangeTail DEF
    UndoSaved, gateVars, controlVars, memVars, callVars, histVars, Labels, ReadLabels,
    WriteLabels, UndoLabels, ListInv
<1>31. CASE UndoTxRead(t)
  BY <1>31 DEF
    UndoTxRead, gateVars, controlVars, memVars, callVars, histVars, Labels, ReadLabels,
    WriteLabels, UndoLabels
<1>32. CASE UndoWritten(t)
  BY <1>32 DEF
    UndoWritten, gateVars, controlVars, memVars, callVars, histVars, Labels, ReadLabels,
    WriteLabels, UndoLabels
<1>33. CASE UndoAcs(t)
  BY <1>33, RangeTail DEF
    UndoAcs, gateVars, controlVars, memVars, callVars, histVars, Labels, ReadLabels,
    WriteLabels, UndoLabels, ListInv
<1>34. CASE UndoDone(t)
  BY <1>34 DEF
    UndoDone, gateVars, controlVars, memVars, callVars, histVars, Labels, ReadLabels,
    WriteLabels, UndoLabels
<1>35. CASE LeaveOthers(t)
  BY <1>35 DEF
    LeaveOthers, Left, Gate!LeaveOthers, gateVars, controlVars, memVars, callVars, histVars,
    Labels, ReadLabels, WriteLabels, UndoLabels, Zeroed, NothingSeen
<1>36. CASE LeaveLast(t)
  <2>1. /\ acs' \in [Words -> Acs]
        /\ txRead' \in [Words -> Content]
        /\ saved' \in [Words -> BOOLEAN]
        /\ accessedWrite' \in [Words -> BOOLEAN]
    BY <1>36 DEF LeaveLast, ResetModified
  <2>2. /\ readCopy' \in [Words -> Content]
        /\ modified' \in SUBSET Words
        /\ wrote' \in [Tx -> SUBSET Words]
        /\ scrubbed' \in SUBSET Words
    BY <1>36 DEF LeaveLast
  <2>3. Gate!GateTypeOK'
    BY <1>36 DEF LeaveLast, Gate!CloseBatch
  <2>4. /\ pc' \in [Tx -> Labels]
        /\ accessed' \in [Tx -> Seq(Words)]
        /\ ops' \in [Tx -> Nat]
        /\ UNCHANGED <<word, linked, writeCopy, crashed>>
    BY <1>36 DEF LeaveLast, Left, Labels
  <2>5. /\ seen' \in [Tx -> [Words -> Content \union {"unread"}]]
        /\ snapshot' \in [Tx -> [Words -> Content]]
    BY <1>36 DEF LeaveLast, Left, Zeroed, NothingSeen
  <2> QED
    BY <2>1, <2>2, <2>3, <2>4, <2>5
<1>37. CASE Crash(t)
  BY <1>37 DEF
    Crash, gateVars, controlVars, memVars, callVars, histVars, Labels, ReadLabels,
    WriteLabels, UndoLabels
<1> QED
  BY <1>1, <1>2, <1>3, <1>4, <1>5, <1>6, <1>7, <1>8, <1>9, <1>10, <1>11, <1>12, <1>13, <1>14,
    <1>15, <1>16, <1>17, <1>18, <1>19, <1>20, <1>21, <1>22, <1>23, <1>24, <1>25, <1>26,
    <1>27, <1>28, <1>29, <1>30, <1>31, <1>32, <1>33, <1>34, <1>35, <1>36, <1>37 DEF
    Step, Reads, Writes, Ends

\* A step of t leaves the local state of the others alone.
LEMMA FrameStep ==
    ASSUME TypeOK, NEW t \in Tx, Step(t)
    PROVE  Frame(t)
<1>a. /\ pc \in [Tx -> Labels]
      /\ word \in [Tx -> Words \union {"none"}]
      /\ accessed \in [Tx -> Seq(Words)]
  BY DEF TypeOK
<1>1. CASE Reads(t)
  BY <1>1, <1>a DEF
    Reads, ReadOnlyRead, ReadCall, CopyOwn, ReadReturns, WordDone, CopyRead, CasRead,
    SetTxRead, ReadSaveFirst, ReadLinkFirst, ReadLink, FirstReadDone, ReadSave, CmpTxRead,
    CasMore, LoadMore, ReadFails, gateVars, controlVars, memVars, callVars, histVars, Goto,
    Frame
<1>2. CASE Writes(t)
  BY <1>2, <1>a DEF
    Writes, WriteCall, CasNull, CasFirst, WriteFails, WordDone, TestSaved, WriteSaveFirst,
    WriteLinkFirst, WriteLink, WriteSave, TestWritten, InsertWritten, CopyWrite, gateVars,
    controlVars, memVars, callVars, histVars, Goto, Frame
<1>3. CASE EndCommit(t)
  BY <1>3, <1>a DEF EndCommit, gateVars, controlVars, memVars, callVars, histVars, Goto, Frame
<1>4. CASE UndoSaved(t) \/ UndoTxRead(t) \/ UndoWritten(t) \/ UndoAcs(t) \/ UndoDone(t)
  BY <1>4, <1>a DEF
    UndoSaved, UndoTxRead, UndoWritten, UndoAcs, UndoDone, gateVars, controlVars, memVars,
    callVars, histVars, Goto, Frame
<1>5. CASE LeaveOthers(t)
  BY <1>5, <1>a DEF
    LeaveOthers, Left, gateVars, controlVars, memVars, callVars, histVars, Goto, Frame
<1>6. CASE LeaveLast(t)
  BY <1>6, <1>a DEF
    LeaveLast, Left, ResetModified, gateVars, controlVars, memVars, callVars, histVars,
    Goto, Frame
<1>7. CASE Begin(t)
  BY <1>7, <1>a DEF Begin, gateVars, controlVars, memVars, callVars, histVars, Goto, Frame
<1>8. CASE BeginBlocked(t)
  BY <1>8, <1>a DEF
    BeginBlocked, gateVars, controlVars, memVars, callVars, histVars, Goto, Frame
<1>9. CASE Crash(t)
  BY <1>9, <1>a DEF Crash, gateVars, controlVars, memVars, callVars, histVars, Goto, Frame
<1> QED
  BY <1>1, <1>2, <1>3, <1>4, <1>5, <1>6, <1>7, <1>8, <1>9 DEF Step, Ends

\* The members of the batch remain the transactions between tm_begin and the end
\* of tm_end.
LEMMA MemberStep ==
    ASSUME TypeOK, MemberInv, NEW t \in Tx, Step(t)
    PROVE  MemberInv'
<1>1. CASE Reads(t)
  <2>1. UNCHANGED <<members, since>>
    BY <1>1 DEF
      Reads, ReadOnlyRead, ReadCall, CopyOwn, ReadReturns, WordDone, CopyRead, CasRead,
      SetTxRead, ReadSaveFirst, ReadLinkFirst, ReadLink, FirstReadDone, ReadSave, CmpTxRead,
      CasMore, LoadMore, ReadFails, gateVars
  <2>2. /\ pc[t] \notin {"new", "committed", "aborted"}
        /\ pc'[t] \notin {"new", "committed", "aborted"}
        /\ \A u \in Tx \ {t} : pc'[u] = pc[u]
    BY <1>1 DEF
      Reads, ReadOnlyRead, ReadCall, CopyOwn, ReadReturns, WordDone, CopyRead, CasRead,
      SetTxRead, ReadSaveFirst, ReadLinkFirst, ReadLink, FirstReadDone, ReadSave, CmpTxRead,
      CasMore, LoadMore, ReadFails, Goto, TypeOK, Labels
  <2> QED
    BY <2>1, <2>2 DEF MemberInv
<1>2. CASE Writes(t)
  BY <1>2 DEF
    Writes, WriteCall, CasNull, CasFirst, WriteFails, WordDone, TestSaved, WriteSaveFirst,
    WriteLinkFirst, WriteLink, WriteSave, TestWritten, InsertWritten, CopyWrite, gateVars,
    controlVars, memVars, callVars, histVars, Goto, MemberInv, TypeOK, Gate!GateTypeOK,
    Labels
<1>3. CASE EndCommit(t)
  BY <1>3 DEF
    EndCommit, gateVars, controlVars, memVars, callVars, histVars, Goto, MemberInv, TypeOK,
    Gate!GateTypeOK, Labels
<1>4. CASE UndoSaved(t) \/ UndoTxRead(t) \/ UndoWritten(t) \/ UndoAcs(t) \/ UndoDone(t)
  BY <1>4 DEF
    UndoSaved, UndoTxRead, UndoWritten, UndoAcs, UndoDone, gateVars, controlVars, memVars,
    callVars, histVars, Goto, MemberInv, TypeOK, Gate!GateTypeOK, Labels
<1>5. CASE LeaveOthers(t)
  BY <1>5 DEF
    LeaveOthers, Left, Gate!LeaveOthers, gateVars, controlVars, memVars, callVars, histVars,
    Goto, MemberInv, TypeOK, Gate!GateTypeOK, Labels
<1>6. CASE LeaveLast(t)
  BY <1>6 DEF
    LeaveLast, Left, Gate!CloseBatch, ResetModified, gateVars, controlVars, memVars,
    callVars, histVars, Goto, MemberInv, TypeOK, Gate!GateTypeOK, Labels
<1>7. CASE Begin(t)
  BY <1>7 DEF
    Begin, Gate!JoinEmpty, Gate!JoinLater, gateVars, controlVars, memVars, callVars,
    histVars, Goto, MemberInv, TypeOK, Gate!GateTypeOK, Labels
<1>8. CASE BeginBlocked(t)
  BY <1>8 DEF
    BeginBlocked, Gate!Block, gateVars, controlVars, memVars, callVars, histVars, Goto,
    MemberInv, TypeOK, Gate!GateTypeOK, Labels
<1>9. CASE Crash(t)
  BY <1>9 DEF
    Crash, gateVars, controlVars, memVars, callVars, histVars, Goto, MemberInv, TypeOK,
    Gate!GateTypeOK, Labels
<1> QED
  BY <1>1, <1>2, <1>3, <1>4, <1>5, <1>6, <1>7, <1>8, <1>9 DEF Step, Ends

\* A transaction inside read_word or write_word has a current word.
LEMMA WordStep ==
    ASSUME TypeOK, WordInv, NEW t \in Tx, Step(t)
    PROVE  WordInv'
<1>1. CASE Reads(t)
  BY <1>1 DEF
    Reads, ReadOnlyRead, ReadCall, CopyOwn, ReadReturns, WordDone, CopyRead, CasRead,
    SetTxRead, ReadSaveFirst, ReadLinkFirst, ReadLink, FirstReadDone, ReadSave, CmpTxRead,
    CasMore, LoadMore, ReadFails, gateVars, controlVars, memVars, callVars, histVars, Goto,
    WordInv, TypeOK, ReadLabels, WriteLabels
<1>2. CASE Writes(t)
  BY <1>2 DEF
    Writes, WriteCall, CasNull, CasFirst, WriteFails, WordDone, TestSaved, WriteSaveFirst,
    WriteLinkFirst, WriteLink, WriteSave, TestWritten, InsertWritten, CopyWrite, gateVars,
    controlVars, memVars, callVars, histVars, Goto, WordInv, TypeOK, ReadLabels, WriteLabels
<1>3. CASE EndCommit(t)
  BY <1>3 DEF
    EndCommit, gateVars, controlVars, memVars, callVars, histVars, Goto, WordInv, TypeOK,
    ReadLabels, WriteLabels
<1>4. CASE UndoSaved(t) \/ UndoTxRead(t) \/ UndoWritten(t) \/ UndoAcs(t) \/ UndoDone(t)
  BY <1>4 DEF
    UndoSaved, UndoTxRead, UndoWritten, UndoAcs, UndoDone, gateVars, controlVars, memVars,
    callVars, histVars, Goto, WordInv, TypeOK, ReadLabels, WriteLabels
<1>5. CASE LeaveOthers(t)
  BY <1>5 DEF
    LeaveOthers, Left, Gate!LeaveOthers, gateVars, controlVars, memVars, callVars, histVars,
    Goto, WordInv, TypeOK, ReadLabels, WriteLabels
<1>6. CASE LeaveLast(t)
  BY <1>6 DEF
    LeaveLast, Left, Gate!CloseBatch, ResetModified, gateVars, controlVars, memVars,
    callVars, histVars, Goto, WordInv, TypeOK, ReadLabels, WriteLabels
<1>7. CASE Begin(t)
  BY <1>7 DEF
    Begin, Gate!JoinEmpty, Gate!JoinLater, gateVars, controlVars, memVars, callVars,
    histVars, Goto, WordInv, TypeOK, ReadLabels, WriteLabels
<1>8. CASE BeginBlocked(t)
  BY <1>8 DEF
    BeginBlocked, Gate!Block, gateVars, controlVars, memVars, callVars, histVars, Goto,
    WordInv, TypeOK, ReadLabels, WriteLabels
<1>9. CASE Crash(t)
  BY <1>9 DEF
    Crash, gateVars, controlVars, memVars, callVars, histVars, Goto, WordInv, TypeOK,
    ReadLabels, WriteLabels
<1> QED
  BY <1>1, <1>2, <1>3, <1>4, <1>5, <1>6, <1>7, <1>8, <1>9 DEF Step, Ends

\* The undo loop of tm_end runs exactly until the list is empty, and a committing
\* transaction has handed over its whole list.
LEMMA ListStep ==
    ASSUME TypeOK, ListInv, MemberInv, NEW t \in Tx, Step(t)
    PROVE  ListInv'
<1>1. CASE Reads(t)
  <2>1. modified' = modified
    BY <1>1 DEF
      Reads, ReadOnlyRead, ReadCall, CopyOwn, ReadReturns, WordDone, CopyRead, CasRead,
      SetTxRead, ReadSaveFirst, ReadLinkFirst, ReadLink, FirstReadDone, ReadSave, CmpTxRead,
      CasMore, LoadMore, ReadFails, memVars
  <2>2. /\ pc'[t] \in {"run", "undoSaved"} \union ReadLabels \union WriteLabels
        /\ \A u \in Tx \ {t} : pc'[u] = pc[u] /\ accessed'[u] = accessed[u]
    BY <1>1 DEF
      Reads, ReadOnlyRead, ReadCall, CopyOwn, ReadReturns, WordDone, CopyRead, CasRead,
      SetTxRead, ReadSaveFirst, ReadLinkFirst, ReadLink, FirstReadDone, ReadSave, CmpTxRead,
      CasMore, LoadMore, ReadFails, Goto, TypeOK, ReadLabels
  <2> QED
    BY <2>1, <2>2 DEF ListInv, ReadLabels, WriteLabels
<1>2. CASE Writes(t)
  <2>1. modified' = modified
    BY <1>2 DEF
      Writes, WriteCall, CasNull, CasFirst, WriteFails, WordDone, TestSaved, WriteSaveFirst,
      WriteLinkFirst, WriteLink, WriteSave, TestWritten, InsertWritten, CopyWrite, memVars
  <2>2. /\ pc'[t] \in {"run", "undoSaved"} \union WriteLabels
        /\ \A u \in Tx \ {t} : pc'[u] = pc[u] /\ accessed'[u] = accessed[u]
    BY <1>2 DEF
      Writes, WriteCall, CasNull, CasFirst, WriteFails, WordDone, TestSaved, WriteSaveFirst,
      WriteLinkFirst, WriteLink, WriteSave, TestWritten, InsertWritten, CopyWrite, Goto,
      TypeOK, WriteLabels
  <2> QED
    BY <2>1, <2>2 DEF ListInv, WriteLabels
<1>3. CASE EndCommit(t)
  BY <1>3 DEF
    EndCommit, gateVars, controlVars, memVars, callVars, histVars, Goto, ListInv, TypeOK,
    Labels
<1>4. CASE UndoSaved(t) \/ UndoTxRead(t) \/ UndoWritten(t) \/ UndoAcs(t) \/ UndoDone(t)
  <2>1. modified' = modified
    BY <1>4 DEF UndoSaved, UndoTxRead, UndoWritten, UndoAcs, UndoDone, memVars
  <2>2. /\ pc'[t] \in {"undoTxRead", "undoWritten", "undoAcs"} => accessed'[t] # <<>>
        /\ pc'[t] \in UndoLabels \union {"leaveAborted"}
        /\ pc'[t] = "leaveAborted" => accessed'[t] = <<>>
        /\ \A u \in Tx \ {t} : pc'[u] = pc[u] /\ accessed'[u] = accessed[u]
    BY <1>4 DEF
      UndoSaved, UndoTxRead, UndoWritten, UndoAcs, UndoDone, Goto, TypeOK, UndoLabels, ListInv
  <2> QED
    BY <2>1, <2>2 DEF ListInv, UndoLabels
<1>5. CASE LeaveOthers(t)
  BY <1>5 DEF
    LeaveOthers, Left, Gate!LeaveOthers, gateVars, controlVars, memVars, callVars, histVars,
    Goto, ListInv, TypeOK, Labels
<1>6. CASE LeaveLast(t)
  <2>1. \A u \in Tx \ {t} : pc[u] \in {"new", "committed", "aborted"}
    BY <1>6 DEF MemberInv, LeaveLast, Gate!CloseBatch
  <2>2. /\ \A u \in Tx \ {t} : pc'[u] = pc[u] /\ accessed'[u] = accessed[u]
        /\ pc'[t] \in {"committed", "aborted"}
        /\ accessed'[t] = <<>>
    BY <1>6 DEF LeaveLast, Left, TypeOK
  <2> QED
    BY <2>1, <2>2 DEF ListInv
<1>7. CASE Begin(t)
  BY <1>7 DEF
    Begin, Gate!JoinEmpty, Gate!JoinLater, gateVars, controlVars, memVars, callVars,
    histVars, Goto, ListInv, TypeOK, Labels
<1>8. CASE BeginBlocked(t)
  BY <1>8 DEF
    BeginBlocked, Gate!Block, gateVars, controlVars, memVars, callVars, histVars, Goto,
    ListInv, TypeOK, Labels
<1>9. CASE Crash(t)
  BY <1>9 DEF
    Crash, gateVars, controlVars, memVars, callVars, histVars, Goto, ListInv, TypeOK, Labels
<1> QED
  BY <1>1, <1>2, <1>3, <1>4, <1>5, <1>6, <1>7, <1>8, <1>9 DEF Step, Ends

\* What read_word and write_word do to the transaction's list.
LEMMA ListGrows ==
    ASSUME TypeOK, WordInv, NEW t \in Tx, Reads(t) \/ Writes(t)
    PROVE  Range(accessed'[t]) = Range(accessed[t]) \union
               (IF pc[t] \in {"readLink", "readSave", "insertWritten"} THEN {word[t]} ELSE {})
<1> DEFINE inserts == pc[t] \in {"readLink", "readSave", "insertWritten"}
<1>1. accessed'[t] = IF inserts THEN Append(accessed[t], word[t]) ELSE accessed[t]
  <2>1. CASE Reads(t)
    BY <2>1 DEF
      Reads, ReadOnlyRead, ReadCall, CopyOwn, ReadReturns, WordDone, CopyRead, CasRead,
      SetTxRead, ReadSaveFirst, ReadLinkFirst, ReadLink, FirstReadDone, ReadSave, CmpTxRead,
      CasMore, LoadMore, ReadFails, Goto, TypeOK
  <2>2. CASE Writes(t)
    BY <2>2 DEF
      Writes, WriteCall, CasNull, CasFirst, WriteFails, WordDone, TestSaved, WriteSaveFirst,
      WriteLinkFirst, WriteLink, WriteSave, TestWritten, InsertWritten, CopyWrite, Goto,
      TypeOK
  <2> QED
    BY <2>1, <2>2
<1>2. inserts => word[t] \in Words
  BY DEF WordInv, ReadLabels, WriteLabels
<1>3. accessed[t] \in Seq(Words)
  BY DEF TypeOK
<1> QED
  BY <1>1, <1>2, <1>3, RangeAppend

\* What is left to show of AcsInv for the word v when only t moves.
LEMMA AcsKept ==
    ASSUME AcsInv, NEW t \in Tx, Frame(t), members \subseteq Tx,
           members \ {t} \subseteq members', modified \subseteq modified',
           NEW v \in Words, acs'[v] # "null",
           acs[v] = "null" => CoveredNext(v),
           t \in members /\ Holds(t, v) => CoveredNext(v)
    PROVE  CoveredNext(v)
<1>1. CASE acs[v] = "null" \/ v \in modified
  BY <1>1 DEF CoveredNext
<1>2. CASE acs[v] # "null" /\ v \notin modified
  <2>1. PICK u \in members : Holds(u, v)
    BY <1>2 DEF AcsInv
  <2>2. u # t => Holds(u, v)'
    BY <2>1 DEF Frame, Holds, Inserting
  <2> QED
    BY <2>1, <2>2 DEF CoveredNext
<1> QED
  BY <1>1, <1>2

\* A marked word is in the list of a member that has still to reset the mark.
LEMMA WrittenHeld ==
    ASSUME TypeOK, ListInv, WrittenInv, NEW v \in Words, accessedWrite[v], v \notin modified
    PROVE  \E u \in members : v \in Range(accessed[u])
<1>1. PICK u \in members : ToUndoWritten(u, v)
  BY DEF WrittenInv
<1>2. u \in Tx /\ accessed[u] \in Seq(Words)
  BY DEF TypeOK, Gate!GateTypeOK
<1>3. pc[u] = "undoAcs" => accessed[u] # <<>>
  BY <1>2 DEF ListInv
<1>4. v \in Range(accessed[u])
  BY <1>1, <1>2, <1>3, RangeTail DEF ToUndoWritten
<1> QED
  BY <1>4

\* A step keeps every non-null access type covered.
LEMMA AcsStep ==
    ASSUME STMInv, NEW t \in Tx, Step(t)
    PROVE  AcsInv'
<1> SUFFICES ASSUME NEW v \in Words, acs'[v] # "null" PROVE CoveredNext(v)
  BY DEF AcsInv, CoveredNext
<1>a. /\ pc \in [Tx -> Labels] /\ word \in [Tx -> Words \union {"none"}]
      /\ accessed \in [Tx -> Seq(Words)] /\ acs \in [Words -> Acs] /\ members \subseteq Tx
      /\ AcsInv /\ WordInv /\ ListInv /\ MemberInv
  BY DEF STMInv, TypeOK, Gate!GateTypeOK
<1>b. Frame(t)
  BY FrameStep DEF STMInv
<1>1. CASE Reads(t)
  <2>1. UNCHANGED <<members, modified>>
    BY <1>1 DEF
      Reads, ReadOnlyRead, ReadCall, CopyOwn, ReadReturns, WordDone, CopyRead, CasRead,
      SetTxRead, ReadSaveFirst, ReadLinkFirst, ReadLink, FirstReadDone, ReadSave, CmpTxRead,
      CasMore, LoadMore, ReadFails, gateVars, memVars
  <2>2. t \in members
    BY <1>1, <1>a DEF
      Reads, ReadOnlyRead, ReadCall, CopyOwn, ReadReturns, WordDone, CopyRead, CasRead,
      SetTxRead, ReadSaveFirst, ReadLinkFirst, ReadLink, FirstReadDone, ReadSave, CmpTxRead,
      CasMore, LoadMore, ReadFails, Goto, MemberInv
  <2>3. acs[v] = "null" => Holds(t, v)'
    BY <1>1, <1>a DEF
      Reads, ReadOnlyRead, ReadCall, CopyOwn, ReadReturns, WordDone, CopyRead, CasRead,
      SetTxRead, ReadSaveFirst, ReadLinkFirst, ReadLink, FirstReadDone, ReadSave, CmpTxRead,
      CasMore, LoadMore, ReadFails, Goto, Holds, Inserting, ReadInserts, controlVars,
      callVars
  <2>4. Range(accessed[t]) \subseteq Range(accessed'[t])
    BY <1>1, <1>a, ListGrows DEF STMInv
  <2>5. Inserting(t, v) => Holds(t, v)'
    <3>1. Inserting(t, v) /\ pc[t] \notin {"readLink", "readSave"} => Inserting(t, v)'
      BY <1>1, <1>a DEF
        Reads, ReadOnlyRead, ReadCall, CopyOwn, ReadReturns, WordDone, CopyRead, CasRead,
        SetTxRead, ReadSaveFirst, ReadLinkFirst, ReadLink, FirstReadDone, ReadSave,
        CmpTxRead, CasMore, LoadMore, ReadFails, Goto, Inserting, ReadInserts, WriteInserts,
        callVars
    <3> QED
      BY <1>1, <3>1, ListGrows DEF STMInv, Inserting, Holds
  <2> QED
    BY <1>a, <1>b, <2>1, <2>2, <2>3, <2>4, <2>5, AcsKept DEF CoveredNext, Holds
<1>2. CASE Writes(t)
  <2>1. UNCHANGED <<members, modified>>
    BY <1>2 DEF
      Writes, WriteCall, CasNull, CasFirst, WriteFails, WordDone, TestSaved, WriteSaveFirst,
      WriteLinkFirst, WriteLink, WriteSave, TestWritten, InsertWritten, CopyWrite, gateVars,
      memVars
  <2>2. t \in members
    BY <1>2, <1>a DEF
      Writes, WriteCall, CasNull, CasFirst, WriteFails, WordDone, TestSaved, WriteSaveFirst,
      WriteLinkFirst, WriteLink, WriteSave, TestWritten, InsertWritten, CopyWrite, Goto,
      MemberInv
  <2>3. acs[v] = "null" => Holds(t, v)'
    BY <1>2, <1>a DEF
      Writes, WriteCall, CasNull, CasFirst, WriteFails, WordDone, TestSaved, WriteSaveFirst,
      WriteLinkFirst, WriteLink, WriteSave, TestWritten, InsertWritten, CopyWrite, Goto,
      Holds, Inserting, WriteInserts, controlVars, callVars
  <2>4. Range(accessed[t]) \subseteq Range(accessed'[t])
    BY <1>2, <1>a, ListGrows DEF STMInv
  <2>5. Inserting(t, v) => Holds(t, v)' \/ accessedWrite[v]
    <3>1. Inserting(t, v) /\ pc[t] # "insertWritten" => Inserting(t, v)' \/ accessedWrite[v]
      BY <1>2, <1>a DEF
        Writes, WriteCall, CasNull, CasFirst, WriteFails, WordDone, TestSaved,
        WriteSaveFirst, WriteLinkFirst, WriteLink, WriteSave, TestWritten, InsertWritten,
        CopyWrite, Goto, Inserting, ReadInserts, WriteInserts, callVars
    <3> QED
      BY <1>2, <3>1, ListGrows DEF STMInv, Inserting, Holds
  <2>6. accessedWrite[v] => CoveredNext(v)
    <3>1. CASE v \in modified
      BY <3>1, <2>1 DEF CoveredNext
    <3>2. CASE accessedWrite[v] /\ v \notin modified
      <4>1. PICK u \in members : v \in Range(accessed[u])
        BY <3>2, WrittenHeld DEF STMInv
      <4>2. v \in Range(accessed'[u])
        BY <4>1, <1>a, <1>b, <2>4 DEF Frame
      <4> QED
        BY <4>1, <4>2, <2>1 DEF CoveredNext, Holds
    <3> QED
      BY <3>1, <3>2
  <2>7. Holds(t, v) => CoveredNext(v)
    BY <2>1, <2>2, <2>4, <2>5, <2>6 DEF Holds, CoveredNext
  <2> QED
    BY <1>a, <1>b, <2>1, <2>2, <2>3, <2>7, AcsKept DEF CoveredNext
<1>3. CASE EndCommit(t)
  BY <1>3, <1>a, <1>b, AcsKept DEF EndCommit, Goto, CoveredNext, Holds, Inserting,
    ReadInserts, WriteInserts, gateVars, controlVars
<1>4. CASE UndoSaved(t) \/ UndoTxRead(t) \/ UndoWritten(t) \/ UndoAcs(t) \/ UndoDone(t)
  <2>1. UNCHANGED <<members, modified>>
    BY <1>4 DEF UndoSaved, UndoTxRead, UndoWritten, UndoAcs, UndoDone, gateVars, memVars
  <2>2. ~Inserting(t, v) /\ t \in members /\ acs[v] # "null"
    BY <1>4, <1>a, RangeTail DEF
      UndoSaved, UndoTxRead, UndoWritten, UndoAcs, UndoDone, Goto, ListInv, MemberInv,
      Inserting, ReadInserts, WriteInserts, controlVars
  <2>3. v \in Range(accessed[t]) => v \in Range(accessed'[t])
    <3>1. \/ accessed'[t] = accessed[t]
          \/ accessed[t] # <<>> /\ accessed'[t] = Tail(accessed[t]) /\ v # Head(accessed[t])
      BY <1>4, <1>a DEF UndoSaved, UndoTxRead, UndoWritten, UndoAcs, UndoDone, Goto, ListInv
    <3>2. accessed[t] \in Seq(Words)
      BY <1>a
    <3> QED
      BY <3>1, <3>2, RangeTail
  <2> QED
    BY <1>a, <1>b, <2>1, <2>2, <2>3, AcsKept DEF CoveredNext, Holds
<1>5. CASE LeaveOthers(t)
  <2>1. members' = members \ {t} /\ UNCHANGED <<modified, acs>>
    BY <1>5 DEF LeaveOthers, Gate!LeaveOthers
  <2>2. Holds(t, v) => v \in modified
    BY <1>5, <1>a DEF LeaveOthers, Left, Holds, Inserting, ReadInserts, WriteInserts,
      ListInv, Range
  <2> QED
    BY <1>a, <1>b, <2>1, <2>2, AcsKept DEF CoveredNext
<1>6. CASE LeaveLast(t)
  <2>1. acs[v] # "null" /\ v \notin modified
    BY <1>6, <1>a DEF LeaveLast, ResetModified
  <2>2. Holds(t, v)
    BY <1>6, <1>a, <2>1 DEF AcsInv, LeaveLast, Gate!CloseBatch
  <2> QED
    BY <1>6, <1>a, <2>1, <2>2 DEF LeaveLast, Left, Holds, Inserting, ReadInserts,
      WriteInserts, ListInv, Range
<1>7. CASE Begin(t)
  <2>1. members \subseteq members' /\ UNCHANGED <<modified, acs, accessed, word>>
    BY <1>7 DEF Begin, Gate!JoinEmpty, Gate!JoinLater, memVars, controlVars, callVars
  <2>2. t \notin members
    BY <1>7, <1>a DEF Begin, Goto, MemberInv
  <2> QED
    BY <1>a, <1>b, <2>1, <2>2, AcsKept DEF CoveredNext
<1>8. CASE BeginBlocked(t) \/ Crash(t)
  <2>1. UNCHANGED <<members, modified, acs, accessed, word, pc>>
    BY <1>8 DEF BeginBlocked, Crash, Gate!Block, gateVars, memVars, controlVars, callVars
  <2> QED
    BY <1>a, <2>1 DEF CoveredNext, AcsInv, Holds, Inserting
<1> QED
  BY <1>1, <1>2, <1>3, <1>4, <1>5, <1>6, <1>7, <1>8 DEF Step, Ends

\* A step keeps every tx_read with a reader that will reset it.
LEMMA TxReadStep ==
    ASSUME STMInv, NEW t \in Tx, Step(t)
    PROVE  TxReadInv'
<1>a. /\ pc \in [Tx -> Labels] /\ word \in [Tx -> Words \union {"none"}]
      /\ accessed \in [Tx -> Seq(Words)] /\ members \subseteq Tx
      /\ txRead \in [Words -> Content] /\ accessedWrite \in [Words -> BOOLEAN]
      /\ WordInv /\ ListInv /\ MemberInv
  BY DEF STMInv, TypeOK, Gate!GateTypeOK
<1>b. Frame(t)
  BY FrameStep DEF STMInv
<1> SUFFICES ASSUME NEW v \in Words, NEW u, u = txRead'[v], u # NoTx PROVE ReadCovered(u, v)'
  BY DEF TxReadInv, ReadCovered
<1>c. u = txRead[v] => ReadCovered(u, v) /\ u \in Tx
  BY <1>a DEF STMInv, TxReadInv, ReadCovered, Content
<1>d. ASSUME u = txRead[v], modified \subseteq modified', members \ {t} \subseteq members',
             u = t /\ t \in members /\ HoldsRead(t, v) => ReadCovered(t, v)'
      PROVE  ReadCovered(u, v)'
  BY <1>b, <1>c, <1>d DEF ReadCovered, HoldsRead, ToUndoRead, Frame
<1>1. CASE Reads(t)
  <2>1. UNCHANGED <<members, modified>>
    BY <1>1 DEF
      Reads, ReadOnlyRead, ReadCall, CopyOwn, ReadReturns, WordDone, CopyRead, CasRead,
      SetTxRead, ReadSaveFirst, ReadLinkFirst, ReadLink, FirstReadDone, ReadSave, CmpTxRead,
      CasMore, LoadMore, ReadFails, gateVars, memVars
  <2>2. t \in members /\ pc[t] \notin UndoLabels /\ pc'[t] \notin UndoLabels \ {"undoSaved"}
    BY <1>1, <1>a DEF
      Reads, ReadOnlyRead, ReadCall, CopyOwn, ReadReturns, WordDone, CopyRead, CasRead,
      SetTxRead, ReadSaveFirst, ReadLinkFirst, ReadLink, FirstReadDone, ReadSave, CmpTxRead,
      CasMore, LoadMore, ReadFails, Goto, MemberInv, UndoLabels
  <2>3. u # txRead[v] => u = t /\ word'[t] = v /\ pc'[t] \in ReadInserts
    BY <1>1, <1>a DEF
      Reads, ReadOnlyRead, ReadCall, CopyOwn, ReadReturns, WordDone, CopyRead, CasRead,
      SetTxRead, ReadSaveFirst, ReadLinkFirst, ReadLink, FirstReadDone, ReadSave, CmpTxRead,
      CasMore, LoadMore, ReadFails, Goto, ReadInserts, controlVars, callVars
  <2>4. Range(accessed[t]) \subseteq Range(accessed'[t])
    BY <1>1, ListGrows DEF STMInv
  <2>5. word[t] = v /\ pc[t] \in ReadInserts =>
          \/ word'[t] = v /\ pc'[t] \in ReadInserts
          \/ v \in Range(accessed'[t])
    <3>1. word[t] = v /\ pc[t] \in ReadInserts \ {"readLink", "readSave"} =>
            word'[t] = v /\ pc'[t] \in ReadInserts
      BY <1>1, <1>a DEF
        Reads, ReadOnlyRead, ReadCall, CopyOwn, ReadReturns, WordDone, CopyRead, CasRead,
        SetTxRead, ReadSaveFirst, ReadLinkFirst, ReadLink, FirstReadDone, ReadSave,
        CmpTxRead, CasMore, LoadMore, ReadFails, Goto, ReadInserts, callVars
    <3> QED
      BY <1>1, <3>1, ListGrows DEF STMInv
  <2> QED
    BY <1>d, <2>1, <2>2, <2>3, <2>4, <2>5 DEF ReadCovered, HoldsRead, ToUndoRead, UndoLabels
<1>2. CASE Writes(t)
  <2>1. UNCHANGED <<members, modified, txRead>>
    BY <1>2 DEF
      Writes, WriteCall, CasNull, CasFirst, WriteFails, WordDone, TestSaved, WriteSaveFirst,
      WriteLinkFirst, WriteLink, WriteSave, TestWritten, InsertWritten, CopyWrite, gateVars,
      memVars, controlVars
  <2>2. /\ t \in members /\ pc[t] \notin UndoLabels \union ReadInserts
        /\ pc'[t] \notin UndoLabels \ {"undoSaved"}
    BY <1>2, <1>a DEF
      Writes, WriteCall, CasNull, CasFirst, WriteFails, WordDone, TestSaved, WriteSaveFirst,
      WriteLinkFirst, WriteLink, WriteSave, TestWritten, InsertWritten, CopyWrite, Goto,
      MemberInv, UndoLabels, ReadInserts
  <2>3. Range(accessed[t]) \subseteq Range(accessed'[t])
    BY <1>2, ListGrows DEF STMInv
  <2> QED
    BY <1>d, <2>1, <2>2, <2>3 DEF ReadCovered, HoldsRead, ToUndoRead, UndoLabels
<1>3. CASE EndCommit(t)
  BY <1>3, <1>a, <1>d DEF EndCommit, Goto, ReadCovered, HoldsRead, ToUndoRead, ReadInserts,
    gateVars, controlVars
<1>4. CASE UndoSaved(t) \/ UndoTxRead(t) \/ UndoWritten(t) \/ UndoAcs(t) \/ UndoDone(t)
  <2>1. UNCHANGED <<members, modified>>
    BY <1>4 DEF UndoSaved, UndoTxRead, UndoWritten, UndoAcs, UndoDone, gateVars, memVars
  <2>2. /\ t \in members /\ pc[t] \notin ReadInserts
        /\ u = txRead[v]
        /\ pc[t] = "undoTxRead" => v # Head(accessed[t])
    BY <1>4, <1>a DEF
      UndoSaved, UndoTxRead, UndoWritten, UndoAcs, UndoDone, Goto, ListInv, MemberInv,
      ReadInserts, controlVars
  <2>3. ToUndoRead(t, v) => ToUndoRead(t, v)'
    <3>1. CASE UndoTxRead(t)
      <4>1. /\ pc[t] = "undoTxRead" /\ pc'[t] = "undoWritten" /\ accessed'[t] = accessed[t]
            /\ accessed[t] # <<>> /\ accessed[t] \in Seq(Words)
        BY <3>1, <1>a DEF UndoTxRead, Goto, ListInv
      <4> QED
        BY <2>2, <4>1, RangeTail DEF ToUndoRead
    <3>2. CASE UndoSaved(t) \/ UndoWritten(t) \/ UndoAcs(t) \/ UndoDone(t)
      BY <1>a, <3>2 DEF UndoSaved, UndoWritten, UndoAcs, UndoDone, Goto, ToUndoRead
    <3> QED
      BY <1>4, <3>1, <3>2
  <2> QED
    BY <1>d, <2>1, <2>2, <2>3 DEF ReadCovered, HoldsRead
<1>5. CASE LeaveOthers(t)
  <2>1. members' = members \ {t} /\ UNCHANGED <<modified, txRead>>
    BY <1>5 DEF LeaveOthers, Gate!LeaveOthers
  <2>2. HoldsRead(t, v) => v \in modified
    BY <1>5, <1>a DEF LeaveOthers, Left, HoldsRead, ToUndoRead, ReadInserts, ListInv, Range
  <2> QED
    BY <1>d, <2>1, <2>2 DEF ReadCovered
<1>6. CASE LeaveLast(t)
  <2>1. u = txRead[v] /\ v \notin modified
    BY <1>6, <1>a DEF LeaveLast, ResetModified
  <2>2. HoldsRead(t, v)
    BY <1>6, <1>c, <2>1 DEF ReadCovered, LeaveLast, Gate!CloseBatch
  <2> QED
    BY <1>6, <1>a, <2>1, <2>2 DEF LeaveLast, Left, HoldsRead, ToUndoRead, ReadInserts, ListInv,
      Range
<1>7. CASE Begin(t)
  <2>1. members \subseteq members' /\ UNCHANGED <<modified, txRead>> /\ t \notin members
    BY <1>7, <1>a DEF Begin, Goto, MemberInv, Gate!JoinEmpty, Gate!JoinLater, memVars,
      controlVars
  <2> QED
    BY <1>d, <2>1
<1>8. CASE BeginBlocked(t) \/ Crash(t)
  <2>1. UNCHANGED <<members, modified, txRead, accessed, word, pc>>
    BY <1>8 DEF BeginBlocked, Crash, Gate!Block, gateVars, memVars, controlVars, callVars
  <2> QED
    BY <1>d, <2>1 DEF ReadCovered, HoldsRead, ToUndoRead
<1> QED
  BY <1>1, <1>2, <1>3, <1>4, <1>5, <1>6, <1>7, <1>8 DEF Step, Ends

\* A step keeps every accessed_write with somebody who will reset it.
LEMMA WrittenStep ==
    ASSUME STMInv, NEW t \in Tx, Step(t)
    PROVE  WrittenInv'
<1>a. /\ pc \in [Tx -> Labels] /\ word \in [Tx -> Words \union {"none"}]
      /\ accessed \in [Tx -> Seq(Words)] /\ members \subseteq Tx
      /\ txRead \in [Words -> Content] /\ accessedWrite \in [Words -> BOOLEAN]
      /\ WordInv /\ ListInv /\ MemberInv
  BY DEF STMInv, TypeOK, Gate!GateTypeOK
<1>b. Frame(t)
  BY FrameStep DEF STMInv
<1> SUFFICES ASSUME NEW v \in Words, accessedWrite'[v] PROVE WrittenCovered(v)'
  BY DEF WrittenInv, WrittenCovered
<1>d. ASSUME accessedWrite[v], modified \subseteq modified', members \ {t} \subseteq members',
             t \in members /\ ToUndoWritten(t, v) => WrittenCovered(v)'
      PROVE  WrittenCovered(v)'
  BY <1>a, <1>b, <1>d DEF STMInv, WrittenInv, WrittenCovered, ToUndoWritten, Frame
<1>1. CASE Reads(t)
  <2>1. UNCHANGED <<members, modified, accessedWrite>>
    BY <1>1 DEF
      Reads, ReadOnlyRead, ReadCall, CopyOwn, ReadReturns, WordDone, CopyRead, CasRead,
      SetTxRead, ReadSaveFirst, ReadLinkFirst, ReadLink, FirstReadDone, ReadSave, CmpTxRead,
      CasMore, LoadMore, ReadFails, gateVars, memVars, controlVars
  <2>2. t \in members /\ pc[t] # "undoAcs" /\ pc'[t] # "undoAcs"
    BY <1>1, <1>a DEF
      Reads, ReadOnlyRead, ReadCall, CopyOwn, ReadReturns, WordDone, CopyRead, CasRead,
      SetTxRead, ReadSaveFirst, ReadLinkFirst, ReadLink, FirstReadDone, ReadSave, CmpTxRead,
      CasMore, LoadMore, ReadFails, Goto, MemberInv
  <2>3. Range(accessed[t]) \subseteq Range(accessed'[t])
    BY <1>1, ListGrows DEF STMInv
  <2> QED
    BY <1>d, <2>1, <2>2, <2>3 DEF WrittenCovered, ToUndoWritten
<1>2. CASE Writes(t)
  <2>1. UNCHANGED <<members, modified>>
    BY <1>2 DEF
      Writes, WriteCall, CasNull, CasFirst, WriteFails, WordDone, TestSaved, WriteSaveFirst,
      WriteLinkFirst, WriteLink, WriteSave, TestWritten, InsertWritten, CopyWrite, gateVars,
      memVars
  <2>2. t \in members /\ pc[t] # "undoAcs" /\ pc'[t] # "undoAcs"
    BY <1>2, <1>a DEF
      Writes, WriteCall, CasNull, CasFirst, WriteFails, WordDone, TestSaved, WriteSaveFirst,
      WriteLinkFirst, WriteLink, WriteSave, TestWritten, InsertWritten, CopyWrite, Goto,
      MemberInv
  <2>3. Range(accessed[t]) \subseteq Range(accessed'[t])
    BY <1>2, ListGrows DEF STMInv
  <2>4. ~accessedWrite[v] => pc[t] = "insertWritten" /\ word[t] = v
    BY <1>2, <1>a DEF
      Writes, WriteCall, CasNull, CasFirst, WriteFails, WordDone, TestSaved, WriteSaveFirst,
      WriteLinkFirst, WriteLink, WriteSave, TestWritten, InsertWritten, CopyWrite, Goto,
      controlVars
  <2>5. ~accessedWrite[v] => v \in Range(accessed'[t])
    BY <1>2, <2>4, ListGrows DEF STMInv
  <2> QED
    BY <1>d, <2>1, <2>2, <2>3, <2>5 DEF WrittenCovered, ToUndoWritten
<1>3. CASE EndCommit(t)
  BY <1>3, <1>a, <1>d DEF EndCommit, Goto, WrittenCovered, ToUndoWritten, gateVars, controlVars
<1>4. CASE UndoSaved(t) \/ UndoTxRead(t) \/ UndoWritten(t) \/ UndoAcs(t) \/ UndoDone(t)
  <2>1. UNCHANGED <<members, modified>>
    BY <1>4 DEF UndoSaved, UndoTxRead, UndoWritten, UndoAcs, UndoDone, gateVars, memVars
  <2>2. /\ t \in members /\ accessedWrite[v]
        /\ pc[t] = "undoWritten" => v # Head(accessed[t])
    BY <1>4, <1>a DEF
      UndoSaved, UndoTxRead, UndoWritten, UndoAcs, UndoDone, Goto, MemberInv, controlVars
  <2>3. ToUndoWritten(t, v) => ToUndoWritten(t, v)'
    <3>1. CASE UndoWritten(t)
      <4>1. /\ pc[t] = "undoWritten" /\ pc'[t] = "undoAcs" /\ accessed'[t] = accessed[t]
            /\ accessed[t] # <<>> /\ accessed[t] \in Seq(Words)
        BY <3>1, <1>a DEF UndoWritten, Goto, ListInv
      <4> QED
        BY <2>2, <4>1, RangeTail DEF ToUndoWritten
    <3>2. CASE UndoSaved(t) \/ UndoTxRead(t) \/ UndoAcs(t) \/ UndoDone(t)
      BY <1>a, <3>2 DEF UndoSaved, UndoTxRead, UndoAcs, UndoDone, Goto, ToUndoWritten
    <3> QED
      BY <1>4, <3>1, <3>2
  <2> QED
    BY <1>d, <2>1, <2>2, <2>3 DEF WrittenCovered
<1>5. CASE LeaveOthers(t)
  <2>1. members' = members \ {t} /\ UNCHANGED <<modified, accessedWrite>>
    BY <1>5 DEF LeaveOthers, Gate!LeaveOthers
  <2>2. ToUndoWritten(t, v) => v \in modified
    BY <1>5, <1>a DEF LeaveOthers, Left, ToUndoWritten, ListInv, Range
  <2> QED
    BY <1>d, <2>1, <2>2 DEF WrittenCovered
<1>6. CASE LeaveLast(t)
  <2>1. accessedWrite[v] /\ v \notin modified
    BY <1>6, <1>a DEF LeaveLast, ResetModified
  <2>2. ToUndoWritten(t, v)
    BY <1>6, <2>1 DEF STMInv, WrittenInv, LeaveLast, Gate!CloseBatch
  <2> QED
    BY <1>6, <1>a, <2>1, <2>2 DEF LeaveLast, Left, ToUndoWritten, ListInv, Range
<1>7. CASE Begin(t)
  <2>1. members \subseteq members' /\ UNCHANGED <<modified, accessedWrite>> /\ t \notin members
    BY <1>7, <1>a DEF Begin, Goto, MemberInv, Gate!JoinEmpty, Gate!JoinLater, memVars,
      controlVars
  <2> QED
    BY <1>d, <2>1
<1>8. CASE BeginBlocked(t) \/ Crash(t)
  <2>1. UNCHANGED <<members, modified, accessedWrite, accessed, pc>>
    BY <1>8 DEF BeginBlocked, Crash, Gate!Block, gateVars, memVars, controlVars
  <2> QED
    BY <1>d, <2>1 DEF WrittenCovered, ToUndoWritten
<1> QED
  BY <1>1, <1>2, <1>3, <1>4, <1>5, <1>6, <1>7, <1>8 DEF Step, Ends

\* Nothing is handed to a batch that has no member.
LEMMA ModifiedStep ==
    ASSUME STMInv, NEW t \in Tx, Step(t)
    PROVE  ModifiedInv'
<1>a. /\ ModifiedInv /\ MemberInv /\ members \subseteq Tx
  BY DEF STMInv, TypeOK, Gate!GateTypeOK
<1>1. CASE Reads(t)
  BY <1>1, <1>a DEF
    Reads, ReadOnlyRead, ReadCall, CopyOwn, ReadReturns, WordDone, CopyRead, CasRead,
    SetTxRead, ReadSaveFirst, ReadLinkFirst, ReadLink, FirstReadDone, ReadSave, CmpTxRead,
    CasMore, LoadMore, ReadFails, gateVars, memVars, ModifiedInv
<1>2. CASE Writes(t)
  BY <1>2, <1>a DEF
    Writes, WriteCall, CasNull, CasFirst, WriteFails, WordDone, TestSaved, WriteSaveFirst,
    WriteLinkFirst, WriteLink, WriteSave, TestWritten, InsertWritten, CopyWrite, gateVars,
    memVars, ModifiedInv
<1>3. CASE EndCommit(t)
  BY <1>3, <1>a DEF EndCommit, Goto, gateVars, MemberInv, ModifiedInv
<1>4. CASE UndoSaved(t) \/ UndoTxRead(t) \/ UndoWritten(t) \/ UndoAcs(t) \/ UndoDone(t)
  BY <1>4, <1>a DEF
    UndoSaved, UndoTxRead, UndoWritten, UndoAcs, UndoDone, gateVars, memVars, ModifiedInv
<1>5. CASE LeaveOthers(t)
  BY <1>5, <1>a DEF LeaveOthers, Gate!LeaveOthers, ModifiedInv
<1>6. CASE LeaveLast(t)
  BY <1>6 DEF LeaveLast, ModifiedInv
<1>7. CASE Begin(t)
  BY <1>7 DEF Begin, Gate!JoinEmpty, Gate!JoinLater, ModifiedInv
<1>8. CASE BeginBlocked(t) \/ Crash(t)
  BY <1>8, <1>a DEF BeginBlocked, Crash, Gate!Block, gateVars, memVars, ModifiedInv
<1> QED
  BY <1>1, <1>2, <1>3, <1>4, <1>5, <1>6, <1>7, <1>8 DEF Step, Ends

\* saved is stored with the pointers, in either order, and nobody resets those.
LEMMA LinkedStep ==
    ASSUME STMInv, NEW t \in Tx, Step(t)
    PROVE  LinkedInv'
<1> DEFINE Saving == {"readLink", "writeLink", "readSave", "writeSave"}
           First == ReadSaveFirst(t) \/ ReadLinkFirst(t) \/ WriteSaveFirst(t) \/ WriteLinkFirst(t)
           Second == ReadLink(t) \/ ReadSave(t) \/ WriteLink(t) \/ WriteSave(t)
<1>a. /\ LinkedInv /\ WordInv
      /\ pc \in [Tx -> Labels] /\ word \in [Tx -> Words \union {"none"}]
      /\ saved \in [Words -> BOOLEAN] /\ linked \in [Words -> BOOLEAN]
  BY DEF STMInv, TypeOK
<1>b. \A u \in Tx \ {t} : pc'[u] = pc[u] /\ word'[u] = word[u]
  BY FrameStep DEF STMInv, Frame
<1>1. CASE First
  <2>1. word[t] \in Words
    BY <1>1, <1>a DEF ReadSaveFirst, ReadLinkFirst, WriteSaveFirst, WriteLinkFirst, Goto,
      WordInv, ReadLabels, WriteLabels
  <2>2. word' = word /\ pc[t] \notin Saving
    BY <1>1 DEF ReadSaveFirst, ReadLinkFirst, WriteSaveFirst, WriteLinkFirst, Goto, callVars
  <2>3. CASE ReadSaveFirst(t) \/ WriteSaveFirst(t)
    <3>1. /\ pc'[t] \in {"readLink", "writeLink"} /\ linked' = linked
          /\ \A w \in Words : saved'[w] => saved[w] \/ w = word[t]
      BY <2>3, <1>a DEF ReadSaveFirst, WriteSaveFirst, Goto
    <3>2. ASSUME NEW w \in Words, saved'[w] PROVE linked'[w] \/ \E u \in Tx : Linking(u, w)'
      BY <1>a, <1>b, <2>2, <3>1, <3>2 DEF LinkedInv, Linking
    <3>3. ASSUME NEW u \in Tx, pc'[u] \in {"readSave", "writeSave"} PROVE linked'[word'[u]]
      BY <1>a, <1>b, <2>2, <3>1, <3>3 DEF LinkedInv
    <3> QED
      BY <3>2, <3>3 DEF LinkedInv, Linking
  <2>4. CASE ReadLinkFirst(t) \/ WriteLinkFirst(t)
    <3>1. /\ pc'[t] \in {"readSave", "writeSave"} /\ saved' = saved
          /\ linked' = [linked EXCEPT ![word[t]] = TRUE]
      BY <2>4, <1>a DEF ReadLinkFirst, WriteLinkFirst, Goto
    <3>a. linked'[word[t]] /\ \A w \in Words : linked[w] => linked'[w]
      BY <3>1, <2>1, <1>a
    <3>2. ASSUME NEW w \in Words, saved'[w] PROVE linked'[w] \/ \E u \in Tx : Linking(u, w)'
      BY <1>a, <1>b, <2>2, <3>1, <3>a, <3>2 DEF LinkedInv, Linking
    <3>3. ASSUME NEW u \in Tx, pc'[u] \in {"readSave", "writeSave"} PROVE linked'[word'[u]]
      <4>1. word[u] \in Words
        BY <1>a, <1>b, <2>1, <3>3 DEF WordInv, WriteLabels, ReadLabels
      <4> QED
        BY <1>a, <1>b, <2>2, <3>3, <3>a, <4>1 DEF LinkedInv
    <3> QED
      BY <3>2, <3>3 DEF LinkedInv, Linking
  <2> QED
    BY <1>1, <2>3, <2>4
<1>2. CASE Second
  <2>1. word[t] \in Words
    BY <1>2, <1>a DEF ReadLink, ReadSave, WriteLink, WriteSave, Goto, WordInv, ReadLabels,
      WriteLabels
  <2>2. pc'[t] \notin Saving
    BY <1>2, <1>a DEF ReadLink, ReadSave, WriteLink, WriteSave, Goto
  <2>3. \A w \in Words : linked[w] => linked'[w]
    BY <1>2, <1>a, <2>1 DEF ReadLink, ReadSave, WriteLink, WriteSave
  <2>4. linked'[word[t]]
    BY <1>2, <1>a, <2>1 DEF ReadLink, ReadSave, WriteLink, WriteSave, Goto, LinkedInv
  <2>5. \A w \in Words : saved'[w] => saved[w] \/ w = word[t]
    BY <1>2, <1>a DEF ReadLink, ReadSave, WriteLink, WriteSave
  <2>6. ASSUME NEW w \in Words, saved'[w] PROVE linked'[w] \/ \E u \in Tx : Linking(u, w)'
    BY <1>a, <1>b, <2>3, <2>4, <2>5, <2>6 DEF LinkedInv, Linking
  <2>7. ASSUME NEW u \in Tx, pc'[u] \in {"readSave", "writeSave"} PROVE linked'[word'[u]]
    <3>1. u # t /\ word[u] \in Words
      BY <1>a, <1>b, <2>2, <2>7 DEF WordInv, WriteLabels, ReadLabels
    <3> QED
      BY <1>a, <1>b, <2>3, <2>7, <3>1 DEF LinkedInv
  <2> QED
    BY <2>6, <2>7 DEF LinkedInv, Linking
<1>3. CASE ~First /\ ~Second
  <2>1. linked' = linked
    BY <1>3 DEF Step, Begin, BeginBlocked, Reads, ReadOnlyRead, ReadCall, CopyOwn, CopyRead,
      CasRead, SetTxRead, CmpTxRead, CasMore, LoadMore, ReadFails, Writes, WriteCall, CasNull,
      CasFirst, WriteFails, TestSaved, TestWritten, InsertWritten, CopyWrite, Ends, EndCommit,
      UndoSaved, UndoTxRead, UndoWritten, UndoAcs, UndoDone, LeaveOthers, LeaveLast, Left, Crash,
      controlVars
  <2>2. \A w \in Words : saved'[w] => saved[w]
    BY <1>3, <1>a DEF Step, Begin, BeginBlocked, Reads, ReadOnlyRead, ReadCall, CopyOwn, CopyRead,
      CasRead, SetTxRead, CmpTxRead, CasMore, LoadMore, ReadFails, Writes, WriteCall, CasNull,
      CasFirst, WriteFails, TestSaved, TestWritten, InsertWritten, CopyWrite, Ends, EndCommit,
      UndoSaved, UndoTxRead, UndoWritten, UndoAcs, UndoDone, LeaveOthers, LeaveLast, Crash,
      ResetModified, controlVars
  <2>3. \/ pc'[t] = pc[t] /\ word' = word
        \/ pc'[t] = pc[t] /\ pc[t] \notin Saving
        \/ pc[t] \notin Saving /\ pc'[t] \notin Saving
    BY <1>3, <1>a DEF Step, Begin, BeginBlocked, Reads, ReadOnlyRead, ReadCall, CopyOwn, CopyRead,
      CasRead, SetTxRead, CmpTxRead, CasMore, LoadMore, ReadFails, Writes, WriteCall, CasNull,
      CasFirst, WriteFails, TestSaved, TestWritten, InsertWritten, CopyWrite, Ends, EndCommit,
      UndoSaved, UndoTxRead, UndoWritten, UndoAcs, UndoDone, LeaveOthers, LeaveLast, Left, Crash,
      Goto, callVars
  <2> QED
    BY <1>a, <1>b, <2>1, <2>2, <2>3 DEF LinkedInv, Linking
<1> QED
  BY <1>1, <1>2, <1>3

\* A step that changes nothing keeps the invariant.
LEMMA StutterSTMInv == STMInv /\ UNCHANGED vars => STMInv'
<1> SUFFICES ASSUME STMInv, UNCHANGED vars PROVE STMInv'
    OBVIOUS
<1> USE DEF vars, gateVars, controlVars, memVars, callVars, histVars
<1>1. TypeOK'
  BY DEF STMInv, TypeOK, Gate!GateTypeOK
<1>2. MemberInv' /\ WordInv' /\ ListInv' /\ ModifiedInv' /\ LinkedInv'
  BY DEF STMInv, MemberInv, WordInv, ListInv, ModifiedInv, LinkedInv, Linking
<1>3. AcsInv' /\ TxReadInv' /\ WrittenInv'
  BY DEF STMInv, AcsInv, Holds, Inserting, TxReadInv, HoldsRead, ToUndoRead, WrittenInv,
    ToUndoWritten
<1> QED
  BY <1>1, <1>2, <1>3 DEF STMInv

\* Every step of the word protocol keeps the invariant.
LEMMA NextSTMInv == STMInv /\ [Next]_vars => STMInv'
<1> SUFFICES ASSUME STMInv, [Next]_vars PROVE STMInv'
    OBVIOUS
<1>1. ASSUME NEW t \in Tx, Step(t) PROVE STMInv'
  BY <1>1, TypeStep, MemberStep, WordStep, ListStep, AcsStep, TxReadStep, WrittenStep,
    ModifiedStep, LinkedStep DEF STMInv
<1>2. CASE Done \/ UNCHANGED vars
  BY <1>2, StutterSTMInv DEF Done
<1> QED
  BY <1>1, <1>2 DEF Next

-----------------------------------------------------------------------------
(* Theorems *)

\* The inductive invariant holds in every state of the word protocol.
THEOREM STMInvariant == Spec => []STMInv
  BY InitSTMInv, NextSTMInv, PTL DEF Spec

\* The controls, the copies and the lists keep their types.
THEOREM STMTypeCorrect == Spec => []TypeOK
  BY STMInvariant, PTL DEF STMInv

\* Whenever no transaction is running, no word is owned, marked or assigned, and a
\* saved that has survived vouches for pointers that are set: aborts and commits of
\* any number of transactions, in any order, leave no word locked.
THEOREM ControlsCleanBetweenBatches == Spec => []CleanBetweenBatches
<1>1. STMInv => CleanBetweenBatches
  <2> SUFFICES ASSUME STMInv, members = {}, NEW w \in Words
               PROVE  /\ acs[w] = "null" /\ ~accessedWrite[w] /\ txRead[w] = NoTx
                      /\ saved[w] => linked[w]
    BY DEF CleanBetweenBatches
  <2>1. modified = {}
    BY DEF STMInv, ModifiedInv
  <2>2. saved[w] => linked[w]
    BY DEF STMInv, LinkedInv, Linking, MemberInv
  <2> QED
    BY <2>1, <2>2 DEF STMInv, AcsInv, TxReadInv, WrittenInv
<1> QED
  BY <1>1, STMInvariant, PTL

-----------------------------------------------------------------------------
(* The values *)

\* While a batch lasts its read copies do not change.
SnapshotInv == \A t \in members : snapshot[t] = readCopy

SeenInv == \A t \in Tx \ members : seen[t] = NothingSeen

\* Read-only transactions touch no control.
ReadOnlyInv ==
    \A t \in ReadOnly :
        /\ wrote[t] = {}
        /\ pc[t] \in {"new", "run", "leaveCommitted", "committed"}

\* t has passed the ownership test of write_word on w.
MidWrite(t, w) == word[t] = w /\ pc[t] \in WriteInserts \union {"copyWrite"}

\* The owner of a word has written it in this batch or is writing it.
OwnerInv ==
    \A w \in Words : acs[w] \in Tx => w \in wrote[acs[w]] \/ MidWrite(acs[w], w)

\* The write copy of a word written in this batch comes from this batch.
WriteCopyInv ==
    \A t \in Tx : \A w \in wrote[t] : writeCopy[w] \in Tx /\ w \in wrote[writeCopy[w]]

\* As long as nobody resets a word, its writer owns it.
ScrubInv ==
    /\ \A t \in Tx : \A w \in Words \ scrubbed :
        /\ w \in wrote[t] => acs[w] = t /\ writeCopy[w] = t
        /\ MidWrite(t, w) => acs[w] = t
    /\ \A t \in Tx :
        pc[t] \in {"undoTxRead", "undoWritten", "undoAcs"} => Head(accessed[t]) \in scrubbed

\* copyOwn reads a word that t wrote, the other branches one that it did not.
ReadPathInv ==
    \A t \in Tx :
        /\ pc[t] = "copyOwn" => word[t] \in wrote[t]
        /\ pc[t] \in ReadLabels \ {"copyOwn"} => word[t] \notin wrote[t] \ scrubbed

ValueInv ==
    /\ SnapshotInv
    /\ SeenInv
    /\ ReadOnlyInv
    /\ OwnerInv
    /\ WriteCopyInv
    /\ ScrubInv
    /\ ReadPathInv
    /\ SnapshotReads
    /\ ReadsOwnWrites

-----------------------------------------------------------------------------
(* The invariant holds at the start *)

\* tm_create establishes the invariant.
LEMMA InitValueInv == Init => ValueInv
<1> SUFFICES ASSUME Init PROVE ValueInv
    OBVIOUS
<1>1. SnapshotInv /\ SeenInv /\ SnapshotReads /\ ReadsOwnWrites
  BY DEF Init, Gate!GateInit, NothingSeen, SnapshotInv, SeenInv, SnapshotReads, ReadsOwnWrites
<1>2. ReadOnlyInv /\ WriteCopyInv /\ ReadPathInv
  BY STMAssumption DEF Init, ReadOnlyInv, WriteCopyInv, ReadPathInv, ReadLabels
<1>3. OwnerInv
  BY STMAssumption DEF Init, OwnerInv
<1>4. ScrubInv
  BY DEF Init, ScrubInv, MidWrite, WriteInserts
<1> QED
  BY <1>1, <1>2, <1>3, <1>4 DEF ValueInv

-----------------------------------------------------------------------------
(* Every step keeps it *)

\* When the last member leaves, every word it or an earlier member marked has
\* been handed to commit(), and nobody else is in the middle of a call.
LEMMA LastLeaves ==
    ASSUME STMInv, NEW t \in Tx, LeaveLast(t)
    PROVE  /\ members = {t} /\ members' = {} /\ pc[t] \in {"leaveCommitted", "leaveAborted"}
           /\ \A u \in Tx : pc[u] \in {"new", "committed", "aborted", "leaveCommitted",
                                      "leaveAborted"}
           /\ \A u \in Tx : pc'[u] \in {"new", "committed", "aborted"}
           /\ \A w \in Words : acs[w] # "null" => w \in modified
<1>a. /\ pc \in [Tx -> Labels] /\ AcsInv /\ ListInv /\ MemberInv
  BY DEF STMInv, TypeOK
<1>1. /\ members = {t} /\ members' = {}
      /\ pc[t] \in {"leaveCommitted", "leaveAborted"}
      /\ pc'[t] \in {"committed", "aborted"}
      /\ \A u \in Tx \ {t} : pc'[u] = pc[u]
  BY <1>a DEF LeaveLast, Left, Gate!CloseBatch
<1>2. \A u \in Tx \ {t} : pc[u] \in {"new", "committed", "aborted"}
  BY <1>1, <1>a DEF MemberInv
<1>3. ASSUME NEW w \in Words, acs[w] # "null" PROVE w \in modified
  <2>1. w \in modified \/ Holds(t, w)
    BY <1>1, <1>3, <1>a DEF AcsInv
  <2> QED
    BY <1>1, <2>1, <1>a DEF Holds, Inserting, ReadInserts, WriteInserts, ListInv, Range
<1> QED
  BY <1>1, <1>2, <1>3

\* What a step of t leaves to the others: where they are, what they have read,
\* their snapshots and, except when the batch is closed, what they wrote.
OthersKeep(t) ==
    \A u \in Tx \ {t} : /\ pc'[u] = pc[u] /\ word'[u] = word[u]
                        /\ seen'[u] = seen[u] /\ snapshot'[u] = snapshot[u]
                        /\ ~LeaveLast(t) => wrote'[u] = wrote[u]

\* Every step of t leaves that to the others.
LEMMA ValueFrame ==
    ASSUME STMInv, NEW t \in Tx, Step(t)
    PROVE  OthersKeep(t)
<1>a. /\ seen \in [Tx -> [Words -> Content \union {"unread"}]]
      /\ snapshot \in [Tx -> [Words -> Content]]
      /\ wrote \in [Tx -> SUBSET Words]
  BY DEF STMInv, TypeOK
<1>b. Frame(t)
  <2>1. TypeOK
    BY DEF STMInv
  <2> QED
    BY <2>1, FrameStep
<1> SUFFICES \A u \in Tx \ {t} : /\ seen'[u] = seen[u] /\ snapshot'[u] = snapshot[u]
                                 /\ ~LeaveLast(t) => wrote'[u] = wrote[u]
    BY <1>b DEF Frame, OthersKeep
<1>1. CASE Reads(t)
  BY <1>1, <1>a DEF
    Reads, ReadOnlyRead, ReadCall, CopyOwn, ReadReturns, CopyRead, CasRead, SetTxRead,
    ReadSaveFirst, ReadLinkFirst, ReadLink, FirstReadDone, ReadSave, CmpTxRead, CasMore,
    LoadMore, ReadFails, histVars
<1>2. CASE Writes(t)
  BY <1>2, <1>a DEF
    Writes, WriteCall, CasNull, CasFirst, WriteFails, TestSaved, WriteSaveFirst,
    WriteLinkFirst, WriteLink, WriteSave, TestWritten, InsertWritten, CopyWrite, histVars
<1>3. CASE EndCommit(t)
  BY <1>3, <1>a DEF EndCommit, histVars
<1>4. CASE UndoSaved(t) \/ UndoTxRead(t) \/ UndoWritten(t) \/ UndoAcs(t) \/ UndoDone(t)
  BY <1>4, <1>a DEF UndoSaved, UndoTxRead, UndoWritten, UndoAcs, UndoDone, histVars
<1>5. CASE LeaveOthers(t)
  BY <1>5, <1>a DEF LeaveOthers, Left, histVars
<1>6. CASE LeaveLast(t)
  BY <1>6, <1>a DEF LeaveLast, Left, histVars
<1>7. CASE Begin(t)
  BY <1>7, <1>a DEF Begin, histVars
<1>8. CASE BeginBlocked(t)
  BY <1>8, <1>a DEF BeginBlocked, histVars
<1>9. CASE Crash(t)
  BY <1>9, <1>a DEF Crash, histVars
<1> QED
  BY <1>1, <1>2, <1>3, <1>4, <1>5, <1>6, <1>7, <1>8, <1>9 DEF Step, Ends

\* While a batch lasts, the read copies stay what they were when it was joined.
LEMMA SnapshotStep ==
    ASSUME STMInv, ValueInv, NEW t \in Tx, Step(t)
    PROVE  SnapshotInv'
<1>a. members \subseteq Tx /\ SnapshotInv
  BY DEF STMInv, TypeOK, Gate!GateTypeOK, ValueInv
<1>b. snapshot \in [Tx -> [Words -> Content]]
  BY DEF STMInv, TypeOK
<1>1. CASE Reads(t)
  BY <1>1, <1>a DEF
    Reads, ReadOnlyRead, ReadCall, CopyOwn, ReadReturns, CopyRead, CasRead, SetTxRead,
    ReadSaveFirst, ReadLinkFirst, ReadLink, FirstReadDone, ReadSave, CmpTxRead, CasMore,
    LoadMore, ReadFails, gateVars, memVars, histVars, SnapshotInv
<1>2. CASE Writes(t)
  BY <1>2, <1>a DEF
    Writes, WriteCall, CasNull, CasFirst, WriteFails, TestSaved, WriteSaveFirst,
    WriteLinkFirst, WriteLink, WriteSave, TestWritten, InsertWritten, CopyWrite, gateVars,
    memVars, histVars, SnapshotInv
<1>3. CASE EndCommit(t)
  BY <1>3, <1>a DEF EndCommit, gateVars, memVars, histVars, SnapshotInv
<1>4. CASE UndoSaved(t) \/ UndoTxRead(t) \/ UndoWritten(t) \/ UndoAcs(t) \/ UndoDone(t)
  BY <1>4, <1>a DEF
    UndoSaved, UndoTxRead, UndoWritten, UndoAcs, UndoDone, gateVars, memVars, histVars,
    SnapshotInv
<1>5. CASE LeaveOthers(t)
  BY <1>5, <1>a, <1>b DEF
    LeaveOthers, Left, Gate!LeaveOthers, gateVars, memVars, histVars, SnapshotInv
<1>6. CASE LeaveLast(t)
  BY <1>6, <1>a DEF
    LeaveLast, Left, Gate!CloseBatch, ResetModified, gateVars, memVars, histVars, SnapshotInv
<1>7. CASE Begin(t)
  BY <1>7, <1>a, <1>b DEF
    Begin, Gate!JoinEmpty, Gate!JoinLater, gateVars, memVars, histVars, SnapshotInv, memVars
<1>8. CASE BeginBlocked(t)
  BY <1>8, <1>a DEF BeginBlocked, Gate!Block, gateVars, memVars, histVars, SnapshotInv
<1>9. CASE Crash(t)
  BY <1>9, <1>a DEF Crash, gateVars, memVars, histVars, SnapshotInv
<1> QED
  BY <1>1, <1>2, <1>3, <1>4, <1>5, <1>6, <1>7, <1>8, <1>9 DEF Step, Ends

\* Outside of a batch a transaction has read nothing.
LEMMA SeenStep ==
    ASSUME STMInv, ValueInv, NEW t \in Tx, Step(t)
    PROVE  SeenInv'
<1>a. /\ pc \in [Tx -> Labels] /\ word \in [Tx -> Words \union {"none"}]
      /\ acs \in [Words -> Acs] /\ members \subseteq Tx
      /\ wrote \in [Tx -> SUBSET Words] /\ scrubbed \subseteq Words
      /\ writeCopy \in [Words -> Content]
      /\ seen \in [Tx -> [Words -> Content \union {"unread"}]]
      /\ snapshot \in [Tx -> [Words -> Content]]
      /\ MemberInv /\ WordInv
  BY DEF STMInv, TypeOK, Gate!GateTypeOK
<1>b. SeenInv
  BY DEF ValueInv
<1>1. CASE Reads(t)
  BY <1>1, <1>a, <1>b DEF
    Reads, ReadOnlyRead, ReadCall, CopyOwn, ReadReturns, CopyRead, CasRead, SetTxRead,
    ReadSaveFirst, ReadLinkFirst, ReadLink, FirstReadDone, ReadSave, CmpTxRead, CasMore,
    LoadMore, ReadFails, gateVars, histVars, SeenInv, Goto, MemberInv
<1>2. CASE Writes(t)
  BY <1>2, <1>a, <1>b DEF
    Writes, WriteCall, CasNull, CasFirst, WriteFails, TestSaved, WriteSaveFirst,
    WriteLinkFirst, WriteLink, WriteSave, TestWritten, InsertWritten, CopyWrite, gateVars,
    histVars, SeenInv, Goto, MemberInv
<1>3. CASE EndCommit(t)
  BY <1>3, <1>a, <1>b DEF EndCommit, gateVars, histVars, SeenInv, Goto, MemberInv
<1>4. CASE UndoSaved(t) \/ UndoTxRead(t) \/ UndoWritten(t) \/ UndoAcs(t) \/ UndoDone(t)
  BY <1>4, <1>a, <1>b DEF
    UndoSaved, UndoTxRead, UndoWritten, UndoAcs, UndoDone, gateVars, histVars, SeenInv,
    Goto, MemberInv
<1>5. CASE LeaveOthers(t)
  BY <1>5, <1>a, <1>b DEF
    LeaveOthers, Left, Gate!LeaveOthers, gateVars, histVars, SeenInv, Goto, MemberInv
<1>6. CASE LeaveLast(t)
  BY <1>6, <1>a, <1>b DEF
    LeaveLast, Left, Gate!CloseBatch, ResetModified, gateVars, histVars, SeenInv, Goto,
    MemberInv
<1>7. CASE Begin(t)
  BY <1>7, <1>a, <1>b DEF
    Begin, Gate!JoinEmpty, Gate!JoinLater, gateVars, histVars, SeenInv, Goto, MemberInv
<1>8. CASE BeginBlocked(t)
  BY <1>8, <1>a, <1>b DEF
    BeginBlocked, Gate!Block, gateVars, histVars, SeenInv, Goto, MemberInv
<1>9. CASE Crash(t)
  BY <1>9, <1>a, <1>b DEF Crash, gateVars, histVars, SeenInv, Goto, MemberInv
<1> QED
  BY <1>1, <1>2, <1>3, <1>4, <1>5, <1>6, <1>7, <1>8, <1>9 DEF Step, Ends

\* Read-only transactions never write nor abort.
LEMMA ReadOnlyStep ==
    ASSUME STMInv, ValueInv, NEW t \in Tx, Step(t)
    PROVE  ReadOnlyInv'
<1>a. /\ pc \in [Tx -> Labels] /\ word \in [Tx -> Words \union {"none"}]
      /\ acs \in [Words -> Acs] /\ members \subseteq Tx
      /\ wrote \in [Tx -> SUBSET Words] /\ scrubbed \subseteq Words
      /\ writeCopy \in [Words -> Content]
      /\ seen \in [Tx -> [Words -> Content \union {"unread"}]]
      /\ snapshot \in [Tx -> [Words -> Content]]
      /\ MemberInv /\ WordInv
  BY DEF STMInv, TypeOK, Gate!GateTypeOK
<1>b. ReadOnlyInv /\ ReadOnly \subseteq Tx
  BY STMAssumption DEF ValueInv
<1>1. CASE Reads(t)
  BY <1>1, <1>a, <1>b DEF
    Reads, ReadOnlyRead, ReadCall, CopyOwn, ReadReturns, CopyRead, CasRead, SetTxRead,
    ReadSaveFirst, ReadLinkFirst, ReadLink, FirstReadDone, ReadSave, CmpTxRead, CasMore,
    LoadMore, ReadFails, histVars, ReadOnlyInv, Goto
<1>2. CASE Writes(t)
  BY <1>2, <1>a, <1>b DEF
    Writes, WriteCall, CasNull, CasFirst, WriteFails, TestSaved, WriteSaveFirst,
    WriteLinkFirst, WriteLink, WriteSave, TestWritten, InsertWritten, CopyWrite, histVars,
    ReadOnlyInv, Goto
<1>3. CASE EndCommit(t)
  BY <1>3, <1>a, <1>b DEF EndCommit, histVars, ReadOnlyInv, Goto
<1>4. CASE UndoSaved(t) \/ UndoTxRead(t) \/ UndoWritten(t) \/ UndoAcs(t) \/ UndoDone(t)
  BY <1>4, <1>a, <1>b DEF
    UndoSaved, UndoTxRead, UndoWritten, UndoAcs, UndoDone, histVars, ReadOnlyInv, Goto
<1>5. CASE LeaveOthers(t)
  BY <1>5, <1>a, <1>b DEF LeaveOthers, Left, histVars, ReadOnlyInv, Goto
<1>6. CASE LeaveLast(t)
  BY <1>6, <1>a, <1>b DEF LeaveLast, Left, ResetModified, histVars, ReadOnlyInv, Goto
<1>7. CASE Begin(t)
  BY <1>7, <1>a, <1>b DEF Begin, histVars, ReadOnlyInv, Goto
<1>8. CASE BeginBlocked(t)
  BY <1>8, <1>a, <1>b DEF BeginBlocked, histVars, ReadOnlyInv, Goto
<1>9. CASE Crash(t)
  BY <1>9, <1>a, <1>b DEF Crash, histVars, ReadOnlyInv, Goto
<1> QED
  BY <1>1, <1>2, <1>3, <1>4, <1>5, <1>6, <1>7, <1>8, <1>9 DEF Step, Ends

\* Outside of write_word and commit, no word is written or changes owner, except
\* that an aborting transaction frees the words it has already reset.
LEMMA NoWriteStep ==
    ASSUME STMInv, ValueInv, NEW t \in Tx, Step(t), ~Writes(t), ~LeaveLast(t)
    PROVE  /\ UNCHANGED <<wrote, writeCopy>> /\ scrubbed \subseteq scrubbed'
           /\ \A w \in Words :
                /\ \/ acs'[w] = acs[w]
                   \/ acs'[w] \notin Tx /\ (acs[w] \notin Tx \/ w \in scrubbed)
                /\ MidWrite(t, w)' <=> MidWrite(t, w)
<1>a. /\ pc \in [Tx -> Labels] /\ acs \in [Words -> Acs] /\ MemberInv
      /\ Tx \intersect {"null", "first", "more"} = {}
      /\ pc[t] \in {"undoTxRead", "undoWritten", "undoAcs"} => Head(accessed[t]) \in scrubbed
  BY STMAssumption DEF STMInv, TypeOK, ValueInv, ScrubInv
<1>1. CASE Reads(t)
  <2>1. UNCHANGED <<wrote, writeCopy>> /\ scrubbed \subseteq scrubbed'
    BY <1>1 DEF
      Reads, ReadOnlyRead, ReadCall, CopyOwn, ReadReturns, WordDone, CopyRead, CasRead,
      SetTxRead, ReadSaveFirst, ReadLinkFirst, ReadLink, FirstReadDone, ReadSave, CmpTxRead,
      CasMore, LoadMore, ReadFails, memVars, histVars
  <2>2. ASSUME NEW w \in Words
        PROVE  \/ acs'[w] = acs[w]
               \/ acs'[w] \notin Tx /\ (acs[w] \notin Tx \/ w \in scrubbed)
    BY <1>1, <1>a DEF
      Reads, ReadOnlyRead, ReadCall, CopyOwn, ReadReturns, WordDone, CopyRead, CasRead,
      SetTxRead, ReadSaveFirst, ReadLinkFirst, ReadLink, FirstReadDone, ReadSave, CmpTxRead,
      CasMore, LoadMore, ReadFails, Goto, controlVars
  <2>3. /\ pc[t] \notin WriteInserts \union {"copyWrite"}
        /\ pc'[t] \notin WriteInserts \union {"copyWrite"}
    BY <1>1, <1>a DEF
      Reads, ReadOnlyRead, ReadCall, CopyOwn, ReadReturns, WordDone, CopyRead, CasRead,
      SetTxRead, ReadSaveFirst, ReadLinkFirst, ReadLink, FirstReadDone, ReadSave, CmpTxRead,
      CasMore, LoadMore, ReadFails, Goto, WriteInserts
  <2> QED
    BY <2>1, <2>2, <2>3 DEF MidWrite
<1>2. CASE UndoSaved(t) \/ UndoTxRead(t) \/ UndoWritten(t) \/ UndoAcs(t) \/ UndoDone(t)
  <2>1. UNCHANGED <<wrote, writeCopy>> /\ scrubbed \subseteq scrubbed'
    BY <1>2 DEF UndoSaved, UndoTxRead, UndoWritten, UndoAcs, UndoDone, memVars, histVars
  <2>2. ASSUME NEW w \in Words
        PROVE  \/ acs'[w] = acs[w]
               \/ acs'[w] \notin Tx /\ (acs[w] \notin Tx \/ w \in scrubbed)
    BY <1>2, <1>a DEF UndoSaved, UndoTxRead, UndoWritten, UndoAcs, UndoDone, Goto, controlVars
  <2>3. /\ pc[t] \notin WriteInserts \union {"copyWrite"}
        /\ pc'[t] \notin WriteInserts \union {"copyWrite"}
    BY <1>2, <1>a DEF
      UndoSaved, UndoTxRead, UndoWritten, UndoAcs, UndoDone, Goto, WriteInserts
  <2> QED
    BY <2>1, <2>2, <2>3 DEF MidWrite
<1>3. CASE EndCommit(t) \/ LeaveOthers(t)
  <2>1. UNCHANGED <<wrote, writeCopy>> /\ scrubbed \subseteq scrubbed'
    BY <1>3 DEF EndCommit, LeaveOthers, Left, memVars, histVars
  <2>2. ASSUME NEW w \in Words
        PROVE  \/ acs'[w] = acs[w]
               \/ acs'[w] \notin Tx /\ (acs[w] \notin Tx \/ w \in scrubbed)
    BY <1>3, <1>a DEF EndCommit, LeaveOthers, Left, Goto, controlVars
  <2>3. /\ pc[t] \notin WriteInserts \union {"copyWrite"}
        /\ pc'[t] \notin WriteInserts \union {"copyWrite"}
    BY <1>3, <1>a DEF EndCommit, LeaveOthers, Left, Goto, WriteInserts
  <2> QED
    BY <2>1, <2>2, <2>3 DEF MidWrite
<1>4. CASE Begin(t) \/ BeginBlocked(t) \/ Crash(t)
  <2>1. UNCHANGED <<wrote, writeCopy>> /\ scrubbed \subseteq scrubbed'
    BY <1>4 DEF Begin, BeginBlocked, Crash, memVars, histVars
  <2>2. ASSUME NEW w \in Words
        PROVE  \/ acs'[w] = acs[w]
               \/ acs'[w] \notin Tx /\ (acs[w] \notin Tx \/ w \in scrubbed)
    BY <1>4, <1>a DEF Begin, BeginBlocked, Crash, Goto, controlVars
  <2>3. pc'[t] = pc[t] \/ {pc[t], pc'[t]} \intersect (WriteInserts \union {"copyWrite"}) = {}
    BY <1>4, <1>a DEF Begin, BeginBlocked, Crash, Goto, WriteInserts
  <2>4. word'[t] = word[t]
    BY <1>4 DEF Begin, BeginBlocked, Crash, callVars
  <2> QED
    BY <2>1, <2>2, <2>3, <2>4 DEF MidWrite
<1> QED
  BY <1>1, <1>2, <1>3, <1>4 DEF Step, Ends

\* write_word up to its memcpy takes a free word for t or keeps one that t owns.
LEMMA ClaimStep ==
    ASSUME STMInv, NEW t \in Tx, Writes(t), ~CopyWrite(t)
    PROVE  /\ UNCHANGED <<wrote, writeCopy, scrubbed>>
           /\ \A w \in Words :
                /\ acs'[w] = acs[w] \/ (acs[w] \notin Tx /\ acs'[w] = t /\ MidWrite(t, w)')
                /\ MidWrite(t, w) => MidWrite(t, w)'
                /\ MidWrite(t, w)' => MidWrite(t, w) \/ acs'[w] = t
<1>a. /\ pc \in [Tx -> Labels] /\ word \in [Tx -> Words \union {"none"}]
      /\ acs \in [Words -> Acs] /\ WordInv
      /\ Tx \intersect {"null", "first", "more"} = {}
  BY STMAssumption DEF STMInv, TypeOK
<1>1. UNCHANGED <<wrote, writeCopy, scrubbed>>
  BY DEF
    Writes, WriteCall, CasNull, CasFirst, WriteFails, WordDone, TestSaved, WriteSaveFirst,
    WriteLinkFirst, WriteLink, WriteSave, TestWritten, InsertWritten, memVars, histVars
<1>2. ASSUME NEW w \in Words
      PROVE  /\ acs'[w] = acs[w] \/ (acs[w] \notin Tx /\ acs'[w] = t /\ MidWrite(t, w)')
             /\ MidWrite(t, w) => MidWrite(t, w)'
             /\ MidWrite(t, w)' => MidWrite(t, w) \/ acs'[w] = t
  BY <1>a DEF
    Writes, WriteCall, CasNull, CasFirst, WriteFails, WordDone, TestSaved, WriteSaveFirst,
    WriteLinkFirst, WriteLink, WriteSave, TestWritten, InsertWritten, Goto, controlVars,
    callVars, MidWrite, WriteInserts, WordInv, WriteLabels
<1> QED
  BY <1>1, <1>2

\* Who owns a word wrote it in this batch, or is writing it.
LEMMA OwnerStep ==
    ASSUME STMInv, ValueInv, NEW t \in Tx, Step(t)
    PROVE  OwnerInv'
<1>a. /\ pc \in [Tx -> Labels] /\ word \in [Tx -> Words \union {"none"}]
      /\ acs \in [Words -> Acs] /\ members \subseteq Tx
      /\ wrote \in [Tx -> SUBSET Words] /\ scrubbed \subseteq Words
      /\ writeCopy \in [Words -> Content]
      /\ seen \in [Tx -> [Words -> Content \union {"unread"}]]
      /\ snapshot \in [Tx -> [Words -> Content]]
      /\ MemberInv /\ WordInv
  BY DEF STMInv, TypeOK, Gate!GateTypeOK
<1>b. /\ OwnerInv
      /\ \A u \in Tx \ {t} : pc'[u] = pc[u] /\ word'[u] = word[u]
  BY FrameStep DEF ValueInv, STMInv, Frame
<1>1. CASE LeaveLast(t)
  BY <1>1, <1>a, STMAssumption, LastLeaves DEF LeaveLast, ResetModified, OwnerInv, Acs
<1>2. CASE CopyWrite(t)
  BY <1>2, <1>a, <1>b DEF CopyWrite, Goto, OwnerInv, MidWrite, controlVars, WordInv,
    WriteLabels,
    WordDone
<1>3. CASE Writes(t) /\ ~CopyWrite(t)
  BY <1>3, <1>b, ClaimStep DEF OwnerInv, MidWrite
<1>4. CASE ~Writes(t) /\ ~LeaveLast(t)
  BY <1>4, <1>b, NoWriteStep DEF OwnerInv, MidWrite
<1> QED
  BY <1>1, <1>2, <1>3, <1>4

\* The write copy of a word written in this batch comes from this batch.
LEMMA WriteCopyStep ==
    ASSUME STMInv, ValueInv, NEW t \in Tx, Step(t)
    PROVE  WriteCopyInv'
<1>a. /\ pc \in [Tx -> Labels] /\ word \in [Tx -> Words \union {"none"}]
      /\ acs \in [Words -> Acs] /\ members \subseteq Tx
      /\ wrote \in [Tx -> SUBSET Words] /\ scrubbed \subseteq Words
      /\ writeCopy \in [Words -> Content]
      /\ seen \in [Tx -> [Words -> Content \union {"unread"}]]
      /\ snapshot \in [Tx -> [Words -> Content]]
      /\ MemberInv /\ WordInv
  BY DEF STMInv, TypeOK, Gate!GateTypeOK
<1>b. WriteCopyInv
  BY DEF ValueInv
<1>1. CASE LeaveLast(t)
  BY <1>1 DEF LeaveLast, WriteCopyInv
<1>2. CASE CopyWrite(t)
  BY <1>2, <1>a, <1>b DEF CopyWrite, Goto, WriteCopyInv, WordInv, WriteLabels
<1>3. CASE Writes(t) /\ ~CopyWrite(t)
  BY <1>3, <1>b, ClaimStep DEF WriteCopyInv
<1>4. CASE ~Writes(t) /\ ~LeaveLast(t)
  BY <1>4, <1>b, NoWriteStep DEF WriteCopyInv
<1> QED
  BY <1>1, <1>2, <1>3, <1>4

\* As long as nobody resets a word, its writer owns it; and the aborting transaction
\* that frees a word has reset it first.
LEMMA ScrubStep ==
    ASSUME STMInv, ValueInv, NEW t \in Tx, Step(t)
    PROVE  ScrubInv'
<1>a. /\ pc \in [Tx -> Labels] /\ word \in [Tx -> Words \union {"none"}]
      /\ acs \in [Words -> Acs] /\ members \subseteq Tx
      /\ wrote \in [Tx -> SUBSET Words] /\ scrubbed \subseteq Words
      /\ writeCopy \in [Words -> Content]
      /\ seen \in [Tx -> [Words -> Content \union {"unread"}]]
      /\ snapshot \in [Tx -> [Words -> Content]]
      /\ MemberInv /\ WordInv
  BY DEF STMInv, TypeOK, Gate!GateTypeOK
<1>b. /\ ScrubInv
      /\ \A u \in Tx \ {t} : pc'[u] = pc[u] /\ word'[u] = word[u] /\ accessed'[u] = accessed[u]
  BY FrameStep DEF ValueInv, STMInv, Frame
<1>1. ASSUME NEW u \in Tx, NEW w \in Words \ scrubbed'
      PROVE  /\ (w \in wrote[u])' => (acs[w] = u /\ writeCopy[w] = u)'
             /\ MidWrite(u, w)' => acs'[w] = u
  <2>1. CASE LeaveLast(t)
    BY <2>1, LastLeaves DEF LeaveLast, MidWrite, WriteInserts
  <2>2. CASE CopyWrite(t)
    <3>1. /\ word[t] \in Words /\ MidWrite(t, word[t])
          /\ pc'[t] = "run" /\ UNCHANGED <<acs, scrubbed>>
          /\ writeCopy' = [writeCopy EXCEPT ![word[t]] = t]
          /\ wrote' = [wrote EXCEPT ![t] = @ \union {word[t]}]
      BY <2>2, <1>a DEF CopyWrite, Goto, MidWrite, controlVars, WordInv, WriteLabels
    <3>2. word[t] \notin scrubbed => acs[word[t]] = t
      BY <3>1, <1>b DEF ScrubInv
    <3> QED
      BY <3>1, <3>2, <1>a, <1>b DEF ScrubInv, MidWrite, WriteInserts
  <2>3. CASE Writes(t) /\ ~CopyWrite(t)
    BY <2>3, <1>1, <1>b, ClaimStep DEF ScrubInv, MidWrite
  <2>4. CASE ~Writes(t) /\ ~LeaveLast(t)
    BY <2>4, <1>1, <1>b, NoWriteStep DEF ScrubInv, MidWrite
  <2> QED
    BY <2>1, <2>2, <2>3, <2>4
<1>2. ASSUME NEW u \in Tx, pc'[u] \in {"undoTxRead", "undoWritten", "undoAcs"}
      PROVE  Head(accessed'[u]) \in scrubbed'
  <2>1. ~LeaveLast(t)
    BY <1>2, LastLeaves
  <2>2. scrubbed \subseteq scrubbed'
    BY <2>1, ClaimStep, NoWriteStep DEF CopyWrite
  <2>3. CASE u # t
    BY <2>2, <2>3, <1>2, <1>b DEF ScrubInv
  <2>4. CASE u = t
    <3>1. CASE UndoSaved(t) \/ UndoTxRead(t) \/ UndoWritten(t) \/ UndoAcs(t) \/ UndoDone(t)
      BY <3>1, <2>4, <1>2, <1>a, <1>b DEF UndoSaved, UndoTxRead, UndoWritten, UndoAcs, UndoDone,
        Goto, ScrubInv, histVars
    <3>2. CASE Reads(t)
      BY <3>2, <2>4, <1>2, <1>a DEF
        Reads, ReadOnlyRead, ReadCall, CopyOwn, ReadReturns, WordDone, CopyRead, CasRead,
        SetTxRead, ReadSaveFirst, ReadLinkFirst, ReadLink, FirstReadDone, ReadSave,
        CmpTxRead, CasMore, LoadMore, ReadFails, Goto
    <3>3. CASE Writes(t)
      BY <3>3, <2>4, <1>2, <1>a DEF
        Writes, WriteCall, CasNull, CasFirst, WriteFails, WordDone, TestSaved,
        WriteSaveFirst, WriteLinkFirst, WriteLink, WriteSave, TestWritten, InsertWritten,
        CopyWrite, Goto
    <3>4. CASE EndCommit(t) \/ LeaveOthers(t) \/ Begin(t) \/ BeginBlocked(t) \/ Crash(t)
      BY <3>4, <2>4, <1>2, <1>a DEF EndCommit, LeaveOthers, Left, Begin, BeginBlocked, Crash,
        Goto
    <3> QED
      BY <3>1, <3>2, <3>3, <3>4, <2>1 DEF Step, Ends
  <2> QED
    BY <2>3, <2>4
<1> QED
  BY <1>1, <1>2 DEF ScrubInv

\* What the steps of a call of tm_read return: a read-only transaction, and any
\* word but its own, reads the read copy.
LEMMA ReadStep ==
    ASSUME TypeOK, WordInv, NEW t \in Tx, Reads(t), NEW w \in Words
    PROVE  /\ UNCHANGED <<wrote, scrubbed, snapshot, members, readCopy, writeCopy>>
           /\ \/ seen'[t][w] = seen[t][w]
              \/ t \in ReadOnly /\ seen'[t][w] = readCopy[w]
              \/ /\ word[t] = w /\ pc[t] \in ReadLabels \ {"copyOwn"}
                 /\ seen'[t][w] = readCopy[w]
              \/ word[t] = w /\ pc[t] = "copyOwn" /\ seen'[t][w] = writeCopy[w]
<1>a. /\ seen \in [Tx -> [Words -> Content \union {"unread"}]]
      /\ pc[t] \in ReadLabels => word[t] \in Words
  BY DEF TypeOK, WordInv
<1>1. UNCHANGED <<wrote, scrubbed, snapshot, members, readCopy, writeCopy>>
  BY DEF
    Reads, ReadOnlyRead, ReadCall, CopyOwn, ReadReturns, WordDone, CopyRead, CasRead,
    SetTxRead, ReadSaveFirst, ReadLinkFirst, ReadLink, FirstReadDone, ReadSave, CmpTxRead,
    CasMore, LoadMore, ReadFails, gateVars, memVars, histVars
<1>2. \/ seen'[t][w] = seen[t][w]
      \/ t \in ReadOnly /\ seen'[t][w] = readCopy[w]
      \/ /\ word[t] = w /\ pc[t] \in ReadLabels \ {"copyOwn"}
         /\ seen'[t][w] = readCopy[w]
      \/ word[t] = w /\ pc[t] = "copyOwn" /\ seen'[t][w] = writeCopy[w]
  BY <1>a DEF
    Reads, ReadOnlyRead, ReadCall, CopyOwn, ReadReturns, WordDone, CopyRead, CasRead,
    SetTxRead, ReadSaveFirst, ReadLinkFirst, ReadLink, FirstReadDone, ReadSave, CmpTxRead,
    CasMore, LoadMore, ReadFails, histVars, Goto, ReadLabels
<1> QED
  BY <1>1, <1>2

\* A call of tm_write forgets what was read of the word, and adds it to the words
\* written; the other steps that remain read nothing and write nothing.
LEMMA QuietStep ==
    ASSUME STMInv, ValueInv, NEW t \in Tx, Step(t), ~Reads(t), ~LeaveLast(t), NEW w \in Words
    PROVE  /\ wrote[t] \subseteq wrote'[t] /\ scrubbed \subseteq scrubbed'
           /\ (w \in wrote'[t] \ wrote[t]) => seen'[t][w] = "unread"
           /\ \/ seen'[t][w] = "unread"
              \/ seen'[t][w] = seen[t][w] /\ snapshot'[t] = snapshot[t]
<1>a. /\ seen \in [Tx -> [Words -> Content \union {"unread"}]]
      /\ wrote \in [Tx -> SUBSET Words] /\ SeenInv /\ MemberInv
  BY DEF STMInv, TypeOK, ValueInv
<1>1. CASE CopyWrite(t)
  BY <1>1, <1>a DEF CopyWrite
<1>2. CASE Writes(t) /\ ~CopyWrite(t)
  <2>1. UNCHANGED histVars
    BY <1>2 DEF
      Writes, WriteCall, CasNull, CasFirst, WriteFails, WordDone, TestSaved, WriteSaveFirst,
      WriteLinkFirst, WriteLink, WriteSave, TestWritten, InsertWritten
  <2> QED
    BY <2>1 DEF histVars
<1>3. CASE UndoSaved(t) \/ UndoTxRead(t) \/ UndoWritten(t) \/ UndoAcs(t) \/ UndoDone(t)
  BY <1>3 DEF UndoSaved, UndoTxRead, UndoWritten, UndoAcs, UndoDone, histVars
<1>4. CASE EndCommit(t) \/ BeginBlocked(t) \/ Crash(t)
  BY <1>4 DEF EndCommit, BeginBlocked, Crash, histVars
<1>5. CASE LeaveOthers(t)
  BY <1>5, <1>a DEF LeaveOthers, Left, NothingSeen
<1>6. CASE Begin(t)
  BY <1>6, <1>a DEF Begin, Goto, SeenInv, MemberInv, NothingSeen
<1> QED
  BY <1>1, <1>2, <1>3, <1>4, <1>5, <1>6 DEF Step, Ends

\* The ownership test of read_word holds until the memcpy, unless an aborting
\* transaction resets the word in between.
LEMMA ReadPathStep ==
    ASSUME STMInv, ValueInv, NEW t \in Tx, Step(t)
    PROVE  ReadPathInv'
<1>a. /\ pc \in [Tx -> Labels] /\ word \in [Tx -> Words \union {"none"}]
      /\ acs \in [Words -> Acs]
  BY DEF STMInv, TypeOK
<1>b. /\ ReadPathInv /\ OwnerInv /\ ScrubInv
      /\ \A u \in Tx \ {t} : pc'[u] = pc[u] /\ word'[u] = word[u]
      /\ ~LeaveLast(t) => \A u \in Tx \ {t} : wrote'[u] = wrote[u]
  BY ValueFrame DEF ValueInv, OthersKeep
<1>1. CASE LeaveLast(t)
  BY <1>1, LastLeaves DEF ReadPathInv, ReadLabels
<1>2. CASE Reads(t)
  <2>1. UNCHANGED <<wrote, scrubbed>>
    BY <1>2 DEF
      Reads, ReadOnlyRead, ReadCall, CopyOwn, ReadReturns, WordDone, CopyRead, CasRead,
      SetTxRead, ReadSaveFirst, ReadLinkFirst, ReadLink, FirstReadDone, ReadSave, CmpTxRead,
      CasMore, LoadMore, ReadFails, histVars
  <2>2. CASE \E w \in Words : ReadCall(t, w)
    <3>1. PICK w \in Words : ReadCall(t, w)
      BY <2>2
    <3>2. /\ pc[t] = "run" /\ word'[t] = w
          /\ pc'[t] = IF acs[w] = t THEN "copyOwn" ELSE "casRead"
      BY <3>1, <1>a DEF ReadCall, Goto
    <3>3. acs[w] = t => w \in wrote[t]
      BY <3>2, <1>b DEF OwnerInv, MidWrite, WriteInserts
    <3>4. acs[w] # t => w \notin wrote[t] \ scrubbed
      BY <1>b DEF ScrubInv
    <3> QED
      BY <2>1, <3>2, <3>3, <3>4, <1>b DEF ReadPathInv, ReadLabels
  <2>3. CASE ~\E w \in Words : ReadCall(t, w)
    <3>1. pc'[t] \in ReadLabels =>
            pc[t] \in ReadLabels \ {"copyOwn"} /\ pc'[t] # "copyOwn" /\ word'[t] = word[t]
      BY <1>2, <2>3, <1>a DEF
        Reads, ReadOnlyRead, CopyOwn, ReadReturns, WordDone, CopyRead, CasRead, SetTxRead,
        ReadSaveFirst, ReadLinkFirst, ReadLink, FirstReadDone, ReadSave, CmpTxRead, CasMore,
        LoadMore, ReadFails, Goto, callVars, ReadLabels
    <3> QED
      BY <2>1, <3>1, <1>b DEF ReadPathInv, ReadLabels
  <2> QED
    BY <2>2, <2>3
<1>3. CASE ~Reads(t) /\ ~LeaveLast(t)
  <2>1. scrubbed \subseteq scrubbed'
    BY <1>3, ClaimStep, NoWriteStep DEF CopyWrite
  <2>2. CASE Writes(t)
    <3>1. pc'[t] \notin ReadLabels
      BY <2>2, <1>a DEF
        Writes, WriteCall, CasNull, CasFirst, WriteFails, WordDone, TestSaved,
        WriteSaveFirst, WriteLinkFirst, WriteLink, WriteSave, TestWritten, InsertWritten,
        CopyWrite, Goto, ReadLabels
    <3> QED
      BY <2>1, <3>1, <1>3, <1>b DEF ReadPathInv, ReadLabels
  <2>3. CASE EndCommit(t) \/ LeaveOthers(t) \/ Begin(t)
    <3>1. pc'[t] \notin ReadLabels
      BY <2>3, <1>a DEF EndCommit, LeaveOthers, Left, Begin, Goto, ReadLabels
    <3> QED
      BY <2>1, <3>1, <1>3, <1>b DEF ReadPathInv, ReadLabels
  <2>4. CASE UndoSaved(t) \/ UndoTxRead(t) \/ UndoWritten(t) \/ UndoAcs(t) \/ UndoDone(t)
    <3>1. pc'[t] \notin ReadLabels
      BY <2>4, <1>a DEF
        UndoSaved, UndoTxRead, UndoWritten, UndoAcs, UndoDone, Goto, ReadLabels
    <3> QED
      BY <2>1, <3>1, <1>3, <1>b DEF ReadPathInv, ReadLabels
  <2>5. CASE BeginBlocked(t) \/ Crash(t)
    <3>1. UNCHANGED <<pc, word, wrote, scrubbed>>
      BY <2>5 DEF BeginBlocked, Crash, callVars, histVars
    <3> QED
      BY <3>1, <1>b DEF ReadPathInv
  <2> QED
    BY <1>3, <2>2, <2>3, <2>4, <2>5 DEF Step, Ends
<1> QED
  BY <1>1, <1>2, <1>3

\* A read of a word that t has not written returns the snapshot's value.
LEMMA SnapshotReadsStep ==
    ASSUME STMInv, ValueInv, NEW t \in Tx, Step(t)
    PROVE  SnapshotReads'
<1>a. /\ seen \in [Tx -> [Words -> Content \union {"unread"}]]
      /\ SnapshotInv /\ SeenInv /\ ReadPathInv /\ ReadOnlyInv /\ SnapshotReads /\ MemberInv
  BY DEF ValueInv, STMInv, TypeOK
<1>b. \A u \in Tx \ {t} : /\ seen'[u] = seen[u] /\ snapshot'[u] = snapshot[u]
                          /\ ~LeaveLast(t) => wrote'[u] = wrote[u]
  BY ValueFrame DEF OthersKeep
<1>1. ASSUME LeaveLast(t), NEW u \in Tx PROVE seen'[u] = NothingSeen
  BY <1>1, <1>a, LastLeaves DEF LeaveLast, Left, SeenInv
<1>2. ASSUME ~LeaveLast(t), NEW w \in Words, w \notin wrote'[t]
      PROVE  seen'[t][w] \in {"unread", snapshot'[t][w]}
  <2>1. CASE Reads(t)
    <3>1. t \in members
      BY <2>1, <1>a DEF
        Reads, ReadOnlyRead, ReadCall, CopyOwn, ReadReturns, WordDone, CopyRead, CasRead,
        SetTxRead, ReadSaveFirst, ReadLinkFirst, ReadLink, FirstReadDone, ReadSave,
        CmpTxRead, CasMore, LoadMore, ReadFails, Goto, MemberInv
    <3> QED
      BY <1>2, <2>1, <3>1, <1>a, ReadStep DEF STMInv, SnapshotInv, SnapshotReads, ReadPathInv
  <2>2. CASE ~Reads(t)
    BY <1>2, <2>2, <1>a, QuietStep DEF SnapshotReads
  <2> QED
    BY <2>1, <2>2
<1>3. CASE LeaveLast(t)
  BY <1>1, <1>3 DEF SnapshotReads, NothingSeen
<1>4. CASE ~LeaveLast(t)
  <2>1. ASSUME NEW u \in Tx \ {t}, NEW w \in Words \ wrote'[u]
        PROVE  seen'[u][w] \in {"unread", snapshot'[u][w]}
    BY <1>4, <1>a, <1>b, <2>1 DEF SnapshotReads
  <2> QED
    BY <1>2, <1>4, <2>1 DEF SnapshotReads
<1> QED
  BY <1>3, <1>4

\* A read of a word that t has written returns what t wrote, unless the word was
\* reset.
LEMMA ReadsOwnStep ==
    ASSUME STMInv, ValueInv, NEW t \in Tx, Step(t)
    PROVE  ReadsOwnWrites'
<1>a. /\ seen \in [Tx -> [Words -> Content \union {"unread"}]]
      /\ ReadPathInv /\ ReadOnlyInv /\ ScrubInv /\ ReadsOwnWrites
  BY DEF ValueInv, STMInv, TypeOK
<1>b. \A u \in Tx \ {t} : seen'[u] = seen[u] /\ (~LeaveLast(t) => wrote'[u] = wrote[u])
  BY ValueFrame DEF OthersKeep
<1>1. CASE LeaveLast(t)
  BY <1>1 DEF LeaveLast, ReadsOwnWrites
<1>2. CASE ~LeaveLast(t)
  <2>1. scrubbed \subseteq scrubbed'
    BY <1>2, ClaimStep, NoWriteStep DEF CopyWrite
  <2>2. ASSUME NEW w \in wrote'[t] \ scrubbed', w \in Words
        PROVE  seen'[t][w] \in {"unread", t}
    <3>1. CASE Reads(t)
      BY <2>2, <3>1, <1>a, ReadStep DEF STMInv, ReadPathInv, ReadOnlyInv, ScrubInv,
        ReadsOwnWrites
    <3>2. CASE ~Reads(t)
      BY <1>2, <2>1, <2>2, <3>2, <1>a, QuietStep DEF ReadsOwnWrites
    <3> QED
      BY <3>1, <3>2
  <2>3. wrote' \in [Tx -> SUBSET Words]
    BY TypeStep DEF TypeOK
  <2> QED
    BY <1>2, <2>1, <2>2, <2>3, <1>a, <1>b DEF ReadsOwnWrites
<1> QED
  BY <1>1, <1>2

\* Every step of the word protocol keeps the invariant.
LEMMA NextValueInv == STMInv /\ ValueInv /\ [Next]_vars => ValueInv'
<1> SUFFICES ASSUME STMInv, ValueInv, [Next]_vars PROVE ValueInv'
    OBVIOUS
<1>1. ASSUME NEW t \in Tx, Step(t) PROVE ValueInv'
  BY <1>1, SnapshotStep, SeenStep, ReadOnlyStep, OwnerStep, WriteCopyStep, ScrubStep,
    ReadPathStep, SnapshotReadsStep, ReadsOwnStep DEF ValueInv
<1>2. CASE Done \/ UNCHANGED vars
  <2>1. UNCHANGED vars
    BY <1>2 DEF Done
  <2> QED
    BY <2>1 DEF vars, gateVars, controlVars, memVars, callVars, histVars, ValueInv, SnapshotInv,
      SeenInv, ReadOnlyInv, OwnerInv, WriteCopyInv, ScrubInv, MidWrite, ReadPathInv,
      SnapshotReads, ReadsOwnWrites
<1> QED
  BY <1>1, <1>2 DEF Next

\* The inductive invariant holds in every state of the word protocol.
THEOREM ValueInvariant == Spec => [](STMInv /\ ValueInv)
  BY InitSTMInv, NextSTMInv, InitValueInv, NextValueInv, PTL DEF Spec

-----------------------------------------------------------------------------
(* Theorems *)

\* Every transaction reads a snapshot of the region: its batch's read copies.
THEOREM ReadsAreSnapshots == Spec => []SnapshotReads
  BY ValueInvariant, PTL DEF ValueInv

\* A transaction reads what it wrote, as long as nobody resets the word.
THEOREM OwnWritesRead == Spec => []ReadsOwnWrites
  BY ValueInvariant, PTL DEF ValueInv

\* Two transactions of a batch both write a word only if somebody reset it.
THEOREM ConflictsDetected == Spec => []WriteConflictsDetected
<1>1. STMInv /\ ValueInv => WriteConflictsDetected
  BY DEF STMInv, TypeOK, ValueInv, ScrubInv, WriteConflictsDetected
<1> QED
  BY <1>1, ValueInvariant, PTL

\* Only the last member's leave ends a batch, changes a read copy, or both.
LEMMA OnlyLastPublishes ==
    ASSUME [Next]_vars, BatchEnds \/ readCopy' # readCopy
    PROVE  \E t \in Tx : LeaveLast(t)
<1>1. ASSUME NEW t \in Tx, Step(t), ~LeaveLast(t) PROVE UNCHANGED <<epoch, readCopy>>
  <2>1. CASE Reads(t)
    BY <1>1, <2>1 DEF
      Reads, ReadOnlyRead, ReadCall, CopyOwn, ReadReturns, CopyRead, CasRead, SetTxRead,
      ReadSaveFirst, ReadLinkFirst, ReadLink, ReadSave, CmpTxRead, CasMore, LoadMore,
      ReadFails, FirstReadDone, gateVars, memVars
  <2>2. CASE Writes(t)
    BY <1>1, <2>2 DEF
      Writes, WriteCall, CasNull, CasFirst, WriteFails, TestSaved, WriteSaveFirst,
      WriteLinkFirst, WriteLink, WriteSave, TestWritten, InsertWritten, CopyWrite, gateVars,
      memVars
  <2>3. CASE UndoSaved(t) \/ UndoTxRead(t) \/ UndoWritten(t) \/ UndoAcs(t) \/ UndoDone(t)
                \/ EndCommit(t)
    BY <1>1, <2>3 DEF
      UndoSaved, UndoTxRead, UndoWritten, UndoAcs, UndoDone, EndCommit, gateVars, memVars
  <2>4. CASE LeaveOthers(t) \/ Begin(t) \/ BeginBlocked(t) \/ Crash(t)
    BY <1>1, <2>4 DEF
      LeaveOthers, Left, Gate!LeaveOthers, Begin, Gate!JoinEmpty, Gate!JoinLater,
      BeginBlocked, Gate!Block, Crash, gateVars, memVars
  <2> QED
    BY <1>1, <2>1, <2>2, <2>3, <2>4 DEF Step, Ends
<1>2. Done \/ UNCHANGED vars => UNCHANGED <<epoch, readCopy>>
  BY DEF Done, vars, gateVars, memVars
<1> QED
  BY <1>1, <1>2 DEF Next, BatchEnds

\* The commit of a batch publishes the writes of its committed transactions on
\* every word that no aborting transaction reset.
THEOREM CommitPublishes == Spec => CommittedWritesPublished
<1>1. ASSUME STMInv, ValueInv, [Next]_vars, BatchEnds, NEW u \in Tx,
             NEW w \in wrote[u] \ scrubbed
      PROVE  readCopy'[w] = u
  <2>1. PICK t \in Tx : LeaveLast(t)
    BY <1>1, OnlyLastPublishes
  <2>2. w \in Words /\ acs[w] = u /\ writeCopy[w] = u
    BY <1>1 DEF STMInv, TypeOK, ValueInv, ScrubInv
  <2>3. w \in modified
    BY <1>1, <2>1, <2>2, LastLeaves, STMAssumption
  <2> QED
    BY <2>1, <2>2, <2>3 DEF LeaveLast, Written
<1>2. STMInv /\ ValueInv /\ [Next]_vars =>
        [BatchEnds => \A t \in Tx : \A w \in wrote[t] \ scrubbed :
            pc'[t] = "committed" => readCopy'[w] = t]_vars
  BY <1>1
<1> QED
  BY <1>2, ValueInvariant, PTL DEF Spec, CommittedWritesPublished, CommittedIn

\* A word's content only changes at the end of a batch, to the value of a
\* transaction that wrote the word in that batch.
THEOREM PublishesBatchWrites == Spec => PublishesThisBatch
<1>1. ASSUME STMInv, ValueInv, [Next]_vars, NEW w \in Words, readCopy'[w] # readCopy[w]
      PROVE  BatchEnds /\ w \in wrote[readCopy'[w]]
  <2>1. PICK t \in Tx : LeaveLast(t)
    BY <1>1, OnlyLastPublishes
  <2>2. acs[w] \in Tx /\ readCopy'[w] = writeCopy[w]
    BY <1>1, <2>1 DEF LeaveLast, Written
  <2>3. ~MidWrite(acs[w], w)
    BY <1>1, <2>1, <2>2, LastLeaves DEF MidWrite, WriteInserts
  <2>4. w \in wrote[writeCopy[w]]
    BY <1>1, <2>2, <2>3 DEF ValueInv, OwnerInv, WriteCopyInv
  <2>5. epoch' # epoch
    BY <1>1, <2>1 DEF LeaveLast, Gate!CloseBatch, STMInv, TypeOK, Gate!GateTypeOK
  <2> QED
    BY <2>2, <2>4, <2>5 DEF BatchEnds
<1>2. STMInv /\ ValueInv /\ [Next]_vars =>
        [\A w \in Words : readCopy'[w] # readCopy[w] =>
            BatchEnds /\ w \in wrote[readCopy'[w]]]_vars
  BY <1>1
<1> QED
  BY <1>2, ValueInvariant, PTL DEF Spec, PublishesThisBatch
=============================================================================
