------------------------ MODULE TemplateSegmentsProofs ------------------------
(***************************************************************************)
(* Proofs about TemplateSegments, for any finite set of transactions and   *)
(* any size of the table: the count that aborts change without alloc_lock  *)
(* stays between one and twice the number of allocations, so that          *)
(* next_free takes no index beyond the table from it; an index that has    *)
(* not been given out twice has one holder; nothing of an aborted          *)
(* transaction is left.                                                    *)
(***************************************************************************)
EXTENDS TemplateSegments, FiniteSetTheorems, SequenceTheorems, TLAPS

Critical == {"take", "scan", "count"}
Inside == {t \in Tx : pc[t] \notin {"new", "waiting", "woken", "settle", "done"}}

\* alloc_lock is held by one transaction, between its test of the count and its
\* increment: nobody increments the count meanwhile.
LockInv ==
    /\ allocLock = (\E t \in Tx : pc[t] \in Critical)
    /\ \A t, u \in Tx : pc[t] \in Critical /\ pc[u] \in Critical => t = u
    /\ \A t \in Tx : pc[t] = "take" => nSegments < MaxSegments

GateInv == remaining = Cardinality(Inside)

ListInv ==
    \A t \in Tx :
        /\ t \in kept => pc[t] \in {"leave", "settle", "done"}
        /\ t \notin kept /\ pc[t] \notin {"run", "next", "take", "scan", "count", "fill", "undo",
                                         "undoFree"} => alloced[t] = <<>>
        /\ pc[t] = "undoFree" => alloced[t] # <<>>
        /\ Len(alloced[t]) <= allocs[t]
        /\ pc[t] \in Critical \union {"next", "fill"} => Len(alloced[t]) < allocs[t]
        /\ pc[t] = "scan" => index[t] \in 0 .. MaxSegments

Of(t) == {t} \X (1 .. MaxAllocs)

\* Where the segments of a transaction that has not committed are.
OwnerInv ==
    \A i \in Indices, t \in Tx \ kept :
        segments[i] \in Of(t) \/ controls[i] \in Of(t) => i \in Range(alloced[t])

\* What has no controls has no segment, but perhaps the copy of a failed allocation.
ControlInv == \A i \in Indices : controls[i] = Null => segments[i] \in {Null, <<"lost">>}

Filling(t, i) == pc[t] \in {"count", "fill"} /\ index[t] = i
Holds(t, i) == Filling(t, i) \/ i \in Range(alloced[t])

\* An index that has not been given out while it was in use has one holder at
\* most, and only the holder's segment can be there.
SoleInv ==
    \A i \in Indices \ reissued : \A t \in Tx :
        /\ Filling(t, i) => segments[i] = Null /\ i \notin Range(alloced[t])
        /\ \A u \in Tx : Holds(t, i) /\ (segments[i] \in Of(u) \/ Holds(u, i)) => t = u

SurviveInv ==
    \A t \in Tx : t \in kept \/ pc[t] \notin {"undo", "undoFree", "leave", "settle", "done"} =>
        \A s \in Of(t) :
            home[s] \in Indices \ (reissued \union asked) /\ ~destroyed =>
                segments[home[s]] = s /\ controls[home[s]] = s

\* The last transaction of a batch frees nothing but what committed ones have freed.
AskedInv == freedSegments \subseteq asking /\ asked \subseteq asking

HomeInv ==
    /\ home \in [Segments -> Indices \union {MaxSegments}]
    /\ reissued \subseteq Indices /\ kept \subseteq Tx /\ known \subseteq Indices
    /\ \A t \in Tx : pc[t] \in {"new", "waiting", "woken"} => \A s \in Of(t) : home[s] = MaxSegments

\* The segments that t has been counted for and may still give back.
Pending(t) ==
    IF pc[t] = "fill" THEN Len(alloced[t]) + 1
    ELSE IF pc[t] = "undoFree" THEN Len(alloced[t]) - 1
    ELSE Len(alloced[t])

\* The calls of tm_alloc that have been counted once, and twice, at the most.
CalledOnce(t) == IF pc[t] \in {"next", "take", "scan"} THEN allocs[t] - 1 ELSE allocs[t]
CalledTwice(t) ==
    IF pc[t] \in {"next", "take", "scan", "count"} THEN allocs[t] - 1 ELSE allocs[t]

UpTo(f) == {s \in Segments : s[2] <= f[s[1]]}
Tokens == UpTo([t \in Tx |-> Pending(t)])
Once == UpTo([t \in Tx |-> CalledOnce(t)])
Twice == UpTo([t \in Tx |-> CalledTwice(t)])

CountInv ==
    /\ nSegments >= 1 + Cardinality(Tokens)
    /\ nSegments <= 1 + Cardinality(Once) + Cardinality(Twice)

TemplateSegmentsInv ==
    /\ TypeOK
    /\ LockInv
    /\ GateInv
    /\ ListInv
    /\ OwnerInv
    /\ ControlInv
    /\ SoleInv
    /\ SurviveInv
    /\ AskedInv
    /\ HomeInv
    /\ CountInv
    /\ DestroyFreesAll

-----------------------------------------------------------------------------
(* Lists *)

\* A segment that tm_alloc has filled is appended to the list.
LEMMA RangeAppend ==
    ASSUME NEW S, NEW s \in Seq(S), NEW e \in S
    PROVE  /\ Append(s, e) \in Seq(S)
           /\ Len(Append(s, e)) = Len(s) + 1
           /\ Range(Append(s, e)) = Range(s) \union {e}
<1>1. Append(s, e) \in Seq(S) /\ Len(Append(s, e)) = Len(s) + 1
  BY AppendProperties
<1>2. /\ Append(s, e)[Len(s) + 1] = e
      /\ \A i \in 1 .. Len(s) : Append(s, e)[i] = s[i]
  OBVIOUS
<1> QED
  BY <1>1, <1>2 DEF Range

\* An abort takes the first element of the list, time after time.
LEMMA RangeTail ==
    ASSUME NEW S, NEW s \in Seq(S), s # <<>>
    PROVE  /\ Head(s) \in S
           /\ Tail(s) \in Seq(S)
           /\ Len(Tail(s)) = Len(s) - 1
           /\ Len(s) \in Nat \ {0}
           /\ Range(s) = Range(Tail(s)) \union {Head(s)}
<1>1. /\ Head(s) \in S /\ Head(s) = s[1]
      /\ Tail(s) \in Seq(S)
      /\ Len(s) \in Nat \ {0}
      /\ Len(Tail(s)) = Len(s) - 1
  OBVIOUS
<1>2. \A i \in 1 .. Len(Tail(s)) : Tail(s)[i] = s[i + 1]
  OBVIOUS
<1>3. Range(Tail(s)) \subseteq Range(s) /\ Head(s) \in Range(s)
  BY <1>1, <1>2 DEF Range
<1>4. ASSUME NEW x \in Range(s), x # Head(s) PROVE x \in Range(Tail(s))
  <2>1. PICK i \in 1 .. Len(s) : x = s[i]
    BY <1>1 DEF Range
  <2>2. i - 1 \in 1 .. Len(Tail(s)) /\ s[i] = Tail(s)[i - 1]
    BY <2>1, <1>1, <1>2, <1>4
  <2>3. DOMAIN Tail(s) = 1 .. Len(Tail(s))
    BY <1>1
  <2> QED
    BY <2>1, <2>2, <2>3 DEF Range
<1> QED
  BY <1>1, <1>3, <1>4

LEMMA RangeFacts ==
    /\ Range(<<>>) = {} /\ <<>> \in Seq(Indices) /\ Len(<<>>) = 0
    /\ \A s \in Seq(Indices) : Range(s) \subseteq Indices /\ Len(s) \in Nat
BY DEF Range

\* The entries that are no segments are none of a transaction's.
LEMMA EntryFacts ==
    /\ \A t \in Tx : Null \notin Of(t) /\ <<"lost">> \notin Of(t) /\ <<"first">> \notin Of(t)
    /\ Null # <<"lost">>
    /\ \A t \in Tx : Of(t) \subseteq Segments
    /\ \A s \in Segments : s[1] \in Tx /\ s \in Of(s[1]) /\ s = <<s[1], s[2]>>
                           /\ s[2] \in 1 .. MaxAllocs
    /\ \A t \in Tx : \A s \in Of(t) : s[1] = t
    /\ \A t, u \in Tx : \A s \in Of(t) : s \in Of(u) => t = u
BY DEF Of, Segments, Null

-----------------------------------------------------------------------------
(* One step of a transaction *)

\* A step of t wakes the others at the most.
Frame(t) ==
    /\ \A u \in Tx \ {t} :
          /\ \/ pc'[u] = pc[u]
             \/ pc[u] = "waiting" /\ pc'[u] = "woken"
          /\ index'[u] = index[u] /\ allocs'[u] = allocs[u] /\ alloced'[u] = alloced[u]
    /\ reissued \subseteq reissued'
    /\ kept \subseteq kept' /\ kept' \subseteq kept \union {t}
    /\ destroyed' = destroyed

LEMMA FrameStep ==
    ASSUME TypeOK, NEW t \in Tx, Step(t)
    PROVE  Frame(t)
<1> USE DEF TypeOK, Goto, Frame, listVars, histVars, gateVars
<1>1. CASE BeginStep(t) \/ Decrement(t)
  BY <1>1 DEF BeginStep, Begin, Join, Wait, Decrement
<1>2. CASE IndexStep(t)
  BY <1>2 DEF IndexStep, AllocCall, EnterNext, Take, Scan, Count, Give
<1>3. CASE FillStep(t) \/ (\E i \in Indices : Free(t, i))
  BY <1>3 DEF FillStep, Fill, NoMemory, Free
<1>4. CASE EndStep(t)
  BY <1>4 DEF EndStep, Fail, Undo, UndoFree, Publish
<1>5. CASE Settle(t)
  BY <1>5 DEF Settle
<1> QED
  BY <1>1, <1>2, <1>3, <1>4, <1>5 DEF Step

\* Where a step of t may lead.
LEMMA LabelStep ==
    ASSUME TypeOK, NEW t \in Tx, Step(t)
    PROVE  /\ pc' \in [Tx -> Labels]
           /\ pc[t] # "done"
           /\ pc'[t] \in {"new", "waiting", "woken"} => pc[t] \in {"new", "waiting", "woken"}
           /\ pc[t] \in {"new", "waiting", "woken"} =>
                 pc'[t] \in {"new", "waiting", "woken", "run"} /\ BeginStep(t)
           /\ pc'[t] = "next" => AllocCall(t)
           /\ pc'[t] = "take" => EnterNext(t)
           /\ pc'[t] = "scan" => EnterNext(t) \/ Scan(t)
           /\ pc'[t] = "count" => Take(t) \/ Scan(t)
           /\ pc'[t] = "fill" => Count(t) \/ pc[t] = "fill"
           /\ pc'[t] = "undoFree" => Undo(t)
           /\ pc'[t] = "leave" => Publish(t) \/ (Undo(t) /\ alloced[t] = <<>>)
           /\ pc'[t] = "settle" => Decrement(t)
           /\ pc'[t] = "done" => Settle(t)
           /\ pc[t] = "undo" => pc'[t] \in {"undoFree", "leave"}
           /\ pc[t] = "undoFree" => pc'[t] = "undo"
           /\ pc[t] = "leave" => pc'[t] = "settle"
           /\ pc[t] = "settle" => pc'[t] = "done"
<1> USE DEF TypeOK, Goto, Labels
<1>1. CASE BeginStep(t) \/ Decrement(t)
  BY <1>1 DEF BeginStep, Begin, Join, Wait, Decrement
<1>2. CASE AllocCall(t) \/ EnterNext(t) \/ Take(t) \/ Count(t)
  BY <1>2 DEF AllocCall, EnterNext, Take, Count, Give
<1>3. CASE Scan(t)
  BY <1>3 DEF Scan, Give
<1>4. CASE FillStep(t) \/ (\E i \in Indices : Free(t, i))
  BY <1>4 DEF FillStep, Fill, NoMemory, Free
<1>5. CASE EndStep(t)
  BY <1>5 DEF EndStep, Fail, Undo, UndoFree, Publish
<1>6. CASE Settle(t)
  BY <1>6 DEF Settle
<1> QED
  BY <1>1, <1>2, <1>3, <1>4, <1>5, <1>6 DEF Step, IndexStep

\* The fields whose types depend on nothing else.
FieldsOK ==
    /\ keepWaiting \in BOOLEAN
    /\ segments \in [Indices -> Entries] /\ controls \in [Indices -> Entries]
    /\ freedSegments \subseteq Indices
    /\ pc \in [Tx -> Labels] /\ index \in [Tx -> 0 .. MaxSegments]
    /\ allocs \in [Tx -> 0 .. MaxAllocs]
    /\ alloced \in [Tx -> Seq(Indices)] /\ freed \in [Tx -> SUBSET Indices]
    /\ failures \in 0 .. MaxFailures
    /\ outside \in BOOLEAN /\ destroyed \in BOOLEAN

LEMMA FieldStep ==
    ASSUME TypeOK, LockInv, ListInv, NEW t \in Tx, Step(t)
    PROVE  FieldsOK'
<1> USE TemplateSegmentsAssumption DEF TypeOK, FieldsOK, Goto
<1>0. pc' \in [Tx -> Labels]
  BY LabelStep
<1>1. CASE BeginStep(t) \/ Decrement(t)
  BY <1>0, <1>1 DEF BeginStep, Begin, Join, Wait, Decrement, tableVars, listVars, gateVars
<1>2. CASE IndexStep(t)
  <2>1. index' \in [Tx -> 0 .. MaxSegments]
    <3>1. CASE Take(t)
      BY <3>1 DEF Take, Give, LockInv
    <3>2. CASE Scan(t)
      <4>1. index[t] \in Indices => index[t] + 1 \in 0 .. MaxSegments
        BY DEF Indices
      <4> QED
        BY <3>2, <4>1 DEF Scan, Give
    <3>3. CASE EnterNext(t)
      <4>1. 0 \in 0 .. MaxSegments
        OBVIOUS
      <4> QED
        BY <3>3, <4>1 DEF EnterNext
    <3>4. CASE AllocCall(t) \/ Count(t)
      BY <3>4 DEF AllocCall, Count
    <3> QED
      BY <1>2, <3>1, <3>2, <3>3, <3>4 DEF IndexStep
  <2>2. allocs' \in [Tx -> 0 .. MaxAllocs]
    <3>1. CASE AllocCall(t)
      BY <3>1 DEF AllocCall
    <3>2. CASE ~AllocCall(t)
      BY <1>2, <3>2 DEF IndexStep, EnterNext, Take, Scan, Count
    <3> QED
      BY <3>1, <3>2
  <2>3. outside' \in BOOLEAN
    BY <1>2 DEF IndexStep, AllocCall, EnterNext, Take, Scan, Count
  <2> QED
    BY <1>0, <1>2, <2>1, <2>2, <2>3 DEF IndexStep, gateVars
<1>3. CASE FillStep(t)
  <2>1. CASE Fill(t)
    <3>1. allocs[t] \in 1 .. MaxAllocs
      BY <2>1, RangeFacts DEF Fill, ListInv
    <3>2. Newest(t) \in Entries
      BY <3>1 DEF Newest, Segments, Entries
    <3>3. alloced' \in [Tx -> Seq(Indices)]
      BY <1>3, <2>1, RangeAppend DEF Fill, FillStep
    <3> QED
      BY <1>0, <1>3, <2>1, <3>2, <3>3 DEF Fill, FillStep, gateVars
  <2>2. CASE NoMemory(t)
    <3>1. segments' \in [Indices -> Entries]
      BY <2>2 DEF NoMemory, Entries
    <3> QED
      BY <1>0, <1>3, <2>2, <3>1 DEF NoMemory, FillStep, gateVars
  <2> QED
    BY <1>3, <2>1, <2>2 DEF FillStep
<1>4. CASE \E i \in Indices : Free(t, i)
  BY <1>0, <1>4 DEF Free, gateVars, tableVars
<1>5. CASE EndStep(t)
  <2>1. CASE UndoFree(t)
    <3>1. alloced' \in [Tx -> Seq(Indices)]
      BY <2>1, RangeTail DEF UndoFree, ListInv
    <3>2. segments' \in [Indices -> Entries] /\ controls' \in [Indices -> Entries]
      BY <2>1 DEF UndoFree, SegFree, Entries
    <3> QED
      BY <1>0, <1>5, <2>1, <3>1, <3>2 DEF UndoFree, EndStep, gateVars
  <2>2. CASE Fail(t) \/ Undo(t) \/ Publish(t)
    BY <1>0, <1>5, <2>2 DEF Fail, Undo, Publish, EndStep, gateVars
  <2> QED
    BY <1>5, <2>1, <2>2 DEF EndStep
<1>6. CASE Settle(t)
  <2>1. segments' \in [Indices -> Entries] /\ controls' \in [Indices -> Entries]
    BY <1>6 DEF Settle, SegFree, Entries
  <2>2. keepWaiting' \in BOOLEAN
    BY <1>6 DEF Settle
  <2> QED
    BY <1>0, <1>6, <2>1, <2>2, RangeFacts DEF Settle
<1> QED
  BY <1>1, <1>2, <1>3, <1>4, <1>5, <1>6 DEF Step

\* alloc_lock is taken before the count is tested, and given back after the last
\* increment.
LEMMA LockStep ==
    ASSUME TypeOK, LockInv, NEW t \in Tx, Step(t)
    PROVE  LockInv' /\ CountStaysInTable'
<1> USE DEF TypeOK, LockInv, Critical
<1>0. pc' \in [Tx -> Labels]
  BY LabelStep
<1>1. \A u \in Tx \ {t} :
         /\ pc'[u] \in Critical <=> pc[u] \in Critical
         /\ pc'[u] = "take" <=> pc[u] = "take"
         /\ pc'[u] \in {"count", "fill"} => pc[u] \in {"count", "fill"} /\ index'[u] = index[u]
  BY FrameStep DEF Frame
<1>2. CASE EnterNext(t)
  <2>1. /\ \A u \in Tx : pc[u] \notin Critical
        /\ allocLock' = TRUE /\ nSegments' = nSegments /\ pc'[t] \in {"take", "scan"}
        /\ pc'[t] = "take" => nSegments < MaxSegments
    BY <1>2 DEF EnterNext, Goto
  <2> QED
    BY <1>1, <2>1 DEF CountStaysInTable
<1>3. CASE Take(t)
  <2>1. /\ pc[t] = "take" /\ pc'[t] = "count" /\ allocLock' = allocLock
        /\ index'[t] = nSegments /\ nSegments < MaxSegments
    BY <1>3 DEF Take, Give, Goto
  <2>2. index'[t] \in Indices
    BY <2>1, TemplateSegmentsAssumption DEF Indices
  <2> QED
    BY <1>1, <2>1, <2>2 DEF CountStaysInTable
<1>4. CASE Scan(t)
  <2>1. /\ pc[t] = "scan" /\ pc'[t] \in {"scan", "count"} /\ allocLock' = allocLock
        /\ pc'[t] = "count" => index'[t] \in Indices
    BY <1>4 DEF Scan, Give
  <2> QED
    BY <1>1, <2>1 DEF CountStaysInTable
<1>5. CASE Count(t)
  <2>1. /\ pc[t] = "count" /\ pc'[t] = "fill" /\ allocLock' = FALSE /\ index' = index
    BY <1>5 DEF Count, Goto
  <2> QED
    BY <1>1, <2>1 DEF CountStaysInTable
<1>6. CASE ~(EnterNext(t) \/ Take(t) \/ Scan(t) \/ Count(t))
  <2>1. /\ pc[t] \notin Critical /\ pc'[t] \notin Critical /\ allocLock' = allocLock
        /\ nSegments' \in {nSegments, nSegments - 1} /\ index' = index
        /\ pc'[t] \in {"count", "fill"} => pc[t] \in {"count", "fill"}
    BY <1>6 DEF Step, Goto, tableVars, BeginStep, Begin, Join, Wait, IndexStep, AllocCall, EnterNext, Take, Scan, Count, Give,
      FillStep, Fill, NoMemory, Free, EndStep, Fail, Undo, UndoFree, Publish, Decrement, Settle
  <2>2. nSegments' < MaxSegments \/ ~(nSegments < MaxSegments)
    BY <2>1, TemplateSegmentsAssumption
  <2> QED
    BY <1>1, <2>1, <2>2 DEF CountStaysInTable
<1> QED
  BY <1>2, <1>3, <1>4, <1>5, <1>6

\* remaining counts those inside.
LEMMA GateStep ==
    ASSUME TypeOK, GateInv, NEW t \in Tx, Step(t)
    PROVE  GateInv' /\ remaining' \in 0 .. Cardinality(Tx)
<1> DEFINE Out == {"new", "waiting", "woken", "settle", "done"}
<1> USE DEF TypeOK
<1>0. /\ IsFiniteSet(Tx) /\ Cardinality(Tx) \in Nat
      /\ \A S \in SUBSET Tx : IsFiniteSet(S) /\ Cardinality(S) \in 0 .. Cardinality(Tx)
  BY FS_Subset, FS_CardinalityType, TemplateSegmentsAssumption
<1>a. Inside \subseteq Tx /\ Inside' \subseteq Tx
  BY DEF Inside
<1>1. \A u \in Tx \ {t} : u \in Inside' <=> u \in Inside
  BY FrameStep DEF Frame, Inside
<1>2. CASE pc[t] \in Out /\ pc'[t] \notin Out
  <2>1. remaining' = remaining + 1
    BY <1>2 DEF Step, Goto, gateVars, BeginStep, Begin, Join, Wait, IndexStep, AllocCall, EnterNext, Take, Scan, Count, Give,
      FillStep, Fill, NoMemory, Free, EndStep, Fail, Undo, UndoFree, Publish, Decrement, Settle
  <2>2. Inside' = Inside \union {t} /\ t \notin Inside
    BY <1>1, <1>2 DEF Inside
  <2>3. Cardinality(Inside') = Cardinality(Inside) + 1
    BY <2>2, <1>0, <1>a, FS_AddElement
  <2> QED
    BY <2>1, <2>3, <1>0, <1>a DEF GateInv
<1>3. CASE pc[t] \notin Out /\ pc'[t] \in Out
  <2>1. remaining' = remaining - 1
    BY <1>3 DEF Step, Goto, gateVars, BeginStep, Begin, Join, Wait, IndexStep, AllocCall, EnterNext, Take, Scan, Count, Give,
      FillStep, Fill, NoMemory, Free, EndStep, Fail, Undo, UndoFree, Publish, Decrement, Settle
  <2>2. Inside' = Inside \ {t} /\ t \in Inside
    BY <1>1, <1>3 DEF Inside
  <2>3. Cardinality(Inside') = Cardinality(Inside) - 1
    BY <2>2, <1>0, <1>a, FS_RemoveElement
  <2> QED
    BY <2>1, <2>3, <1>0, <1>a DEF GateInv
<1>4. CASE pc[t] \in Out <=> pc'[t] \in Out
  <2>1. remaining' = remaining
    BY <1>4 DEF Step, Goto, gateVars, BeginStep, Begin, Join, Wait, IndexStep, AllocCall, EnterNext, Take, Scan, Count, Give,
      FillStep, Fill, NoMemory, Free, EndStep, Fail, Undo, UndoFree, Publish, Decrement, Settle
  <2>2. Inside' = Inside
    BY <1>1, <1>4, <1>a DEF Inside
  <2> QED
    BY <2>1, <2>2, <1>0, <1>a DEF GateInv
<1> QED
  BY <1>2, <1>3, <1>4

-----------------------------------------------------------------------------
(* Lists and entries *)

\* The list of t after a step of t.
LEMMA AllocedStep ==
    ASSUME TypeOK, ListInv, NEW t \in Tx, Step(t)
    PROVE  /\ FillStep(t) /\ Fill(t) =>
                 /\ pc[t] = "fill" /\ pc'[t] = "run" /\ allocs[t] \in 1 .. MaxAllocs
                 /\ Newest(t) \in Of(t)
                 /\ Len(alloced'[t]) = Len(alloced[t]) + 1
                 /\ Range(alloced'[t]) = Range(alloced[t]) \union {index[t]}
           /\ UndoFree(t) =>
                 /\ pc[t] = "undoFree" /\ pc'[t] = "undo"
                 /\ Len(alloced[t]) \in Nat \ {0}
                 /\ Len(alloced'[t]) = Len(alloced[t]) - 1
                 /\ Range(alloced[t]) = Range(alloced'[t]) \union {Head(alloced[t])}
           /\ Settle(t) => pc[t] = "settle" /\ pc'[t] = "done" /\ alloced'[t] = <<>>
           /\ ~((FillStep(t) /\ Fill(t)) \/ UndoFree(t) \/ Settle(t)) => alloced' = alloced
<1> USE DEF TypeOK, Goto
<1>1. FillStep(t) /\ Fill(t) => /\ pc[t] = "fill" /\ pc'[t] = "run" /\ allocs[t] \in 1 .. MaxAllocs
                 /\ Newest(t) \in Of(t)
                 /\ Len(alloced'[t]) = Len(alloced[t]) + 1
                 /\ Range(alloced'[t]) = Range(alloced[t]) \union {index[t]}
  <2> SUFFICES ASSUME FillStep(t), Fill(t)
               PROVE  /\ pc[t] = "fill" /\ pc'[t] = "run" /\ allocs[t] \in 1 .. MaxAllocs
                      /\ Newest(t) \in Of(t)
                      /\ Len(alloced'[t]) = Len(alloced[t]) + 1
                      /\ Range(alloced'[t]) = Range(alloced[t]) \union {index[t]}
    OBVIOUS
  <2>1. pc[t] = "fill" /\ pc'[t] = "run"
    BY DEF Fill
  <2>2. allocs[t] \in 1 .. MaxAllocs
    BY <2>1, RangeFacts DEF ListInv
  <2>3. alloced'[t] = Append(alloced[t], index[t]) /\ index[t] \in Indices
    BY DEF Fill, FillStep
  <2> QED
    BY <2>1, <2>2, <2>3, RangeAppend DEF Newest, Of
<1>2. UndoFree(t) =>
                 /\ pc[t] = "undoFree" /\ pc'[t] = "undo"
                 /\ Len(alloced[t]) \in Nat \ {0}
                 /\ Len(alloced'[t]) = Len(alloced[t]) - 1
                 /\ Range(alloced[t]) = Range(alloced'[t]) \union {Head(alloced[t])}
  BY RangeTail DEF UndoFree, ListInv
<1>3. Settle(t) => pc[t] = "settle" /\ pc'[t] = "done" /\ alloced'[t] = <<>>
  BY DEF Settle
<1>4. ~((FillStep(t) /\ Fill(t)) \/ UndoFree(t) \/ Settle(t)) => alloced' = alloced
  BY DEF Step, BeginStep, IndexStep, FillStep, NoMemory, Free, EndStep, Fail, Undo, Publish,
    Decrement, listVars
<1> QED
  BY <1>1, <1>2, <1>3, <1>4

\* Lists are empty outside of a batch, and no longer than the number of calls.
LEMMA ListStep ==
    ASSUME TypeOK, ListInv, NEW t \in Tx, Step(t)
    PROVE  ListInv'
<1> DEFINE P(u) ==
      /\ u \in kept => pc[u] \in {"leave", "settle", "done"}
      /\ u \notin kept /\ pc[u] \notin {"run", "next", "take", "scan", "count", "fill", "undo",
                                       "undoFree"} => alloced[u] = <<>>
      /\ pc[u] = "undoFree" => alloced[u] # <<>>
      /\ Len(alloced[u]) <= allocs[u]
      /\ pc[u] \in Critical \union {"next", "fill"} => Len(alloced[u]) < allocs[u]
      /\ pc[u] = "scan" => index[u] \in 0 .. MaxSegments
<1> SUFFICES ASSUME NEW u \in Tx PROVE P(u)'
  BY DEF ListInv
<1>0. P(u)
  BY DEF ListInv
<1> USE DEF TypeOK
<1>1. CASE u # t
  BY <1>0, <1>1, FrameStep DEF Frame, Critical
<1>2. CASE u = t
  <2>a. /\ Len(alloced[t]) \in Nat /\ allocs[t] \in Nat /\ allocs'[t] \in {allocs[t], allocs[t] + 1}
        /\ pc'[t] # "next" => allocs'[t] = allocs[t]
        /\ pc'[t] = "next" => allocs'[t] = allocs[t] + 1 /\ pc[t] = "run"
    <3>1. CASE AllocCall(t)
      BY <3>1, RangeFacts DEF AllocCall, Goto
    <3>2. CASE ~AllocCall(t)
      <4>1. allocs' = allocs
        BY <3>2 DEF Step, listVars, BeginStep, Begin, Join, Wait, IndexStep, AllocCall, EnterNext, Take, Scan, Count, Give,
      FillStep, Fill, NoMemory, Free, EndStep, Fail, Undo, UndoFree, Publish, Decrement, Settle
      <4> QED
        BY <3>2, <4>1, RangeFacts, LabelStep
    <3> QED
      BY <3>1, <3>2
  <2>b. kept' = kept \/ (Publish(t) /\ pc'[t] = "leave")
    BY DEF Step, histVars, Goto, BeginStep, Begin, Join, Wait, IndexStep, AllocCall, EnterNext, Take, Scan, Count, Give,
      FillStep, Fill, NoMemory, Free, EndStep, Fail, Undo, UndoFree, Publish, Decrement, Settle
  <2>1. t \in kept' => pc'[t] \in {"leave", "settle", "done"}
    BY <1>0, <1>2, <2>b, LabelStep
  <2>2. t \notin kept' /\ pc'[t] \notin {"run", "next", "take", "scan", "count", "fill", "undo",
                                        "undoFree"} => alloced'[t] = <<>>
    <3>1. CASE pc'[t] \in {"new", "waiting", "woken"}
      <4>1. pc[t] \in {"new", "waiting", "woken"} /\ alloced' = alloced
        BY <3>1, LabelStep, AllocedStep
      <4> QED
        BY <1>0, <1>2, <4>1, <2>b DEF Publish, Goto
    <3>2. CASE pc'[t] = "leave"
      <4>1. Publish(t) => t \in kept'
        BY DEF Publish
      <4>2. Undo(t) => pc[t] = "undo"
        BY DEF Undo, Goto
      <4> QED
        BY <3>2, <4>1, <4>2, LabelStep, AllocedStep
    <3>3. CASE pc'[t] = "settle"
      <4>1. pc[t] = "leave" /\ kept' = kept
        BY <3>3, <2>b, LabelStep DEF Decrement, Goto
      <4> QED
        BY <3>3, <4>1, <1>0, <1>2, AllocedStep
    <3>4. CASE pc'[t] = "done"
      BY <3>4, LabelStep, AllocedStep
    <3> QED
      BY <3>1, <3>2, <3>3, <3>4, LabelStep DEF Labels
  <2>3. pc'[t] = "undoFree" => alloced'[t] # <<>>
    <3>1. Undo(t) /\ pc'[t] = "undoFree" => alloced[t] # <<>>
      BY DEF Undo, Goto
    <3> QED
      BY <3>1, LabelStep, AllocedStep DEF Undo, Goto
  <2>4. /\ Len(alloced'[t]) <= allocs'[t]
        /\ pc'[t] \in Critical \union {"next", "fill"} => Len(alloced'[t]) < allocs'[t]
    <3>1. CASE FillStep(t) /\ Fill(t)
      BY <1>0, <1>2, <2>a, <3>1, AllocedStep DEF Critical
    <3>2. CASE UndoFree(t)
      BY <1>0, <1>2, <2>a, <3>2, AllocedStep DEF Critical
    <3>3. CASE Settle(t)
      BY <1>0, <1>2, <2>a, <3>3, AllocedStep, RangeFacts DEF Critical
    <3>4. CASE ~((FillStep(t) /\ Fill(t)) \/ UndoFree(t) \/ Settle(t))
      <4>1. alloced' = alloced
        BY <3>4, AllocedStep
      <4>2. pc'[t] \in Critical \union {"fill"} => pc[t] \in Critical \union {"next", "fill"}
        BY LabelStep DEF EnterNext, Take, Scan, Count, Goto, Critical
      <4> QED
        BY <1>0, <1>2, <2>a, <4>1, <4>2
    <3> QED
      BY <3>1, <3>2, <3>3, <3>4
  <2>5. pc'[t] = "scan" => index'[t] \in 0 .. MaxSegments
    <3>1. index'[t] \in 0 .. MaxSegments \/ pc'[t] # "scan"
      <4>1. CASE EnterNext(t)
        BY <4>1, TemplateSegmentsAssumption DEF EnterNext
      <4>2. CASE Scan(t)
        BY <4>2, TemplateSegmentsAssumption DEF Scan, Give, Indices
      <4> QED
        BY <4>1, <4>2, LabelStep
    <3> QED
      BY <3>1
  <2> QED
    BY <1>2, <2>1, <2>2, <2>3, <2>4, <2>5
<1> QED
  BY <1>1, <1>2

\* What a step of t does to an entry.
Kept(i) == controls'[i] = controls[i] /\ segments'[i] = segments[i]
Filled(t, i) ==
    /\ FillStep(t) /\ Fill(t) /\ index[t] = i
    /\ controls'[i] = Newest(t) /\ segments'[i] = Newest(t)
Lost(t, i) ==
    /\ NoMemory(t) /\ index[t] = i
    /\ controls'[i] = controls[i] /\ segments'[i] = <<"lost">>
Cleared(i) == controls'[i] = Null /\ segments'[i] = Null

LEMMA EntryStep ==
    ASSUME TypeOK, NEW t \in Tx, Step(t), NEW i \in Indices
    PROVE  \/ Kept(i)
           \/ Filled(t, i)
           \/ Lost(t, i)
           \/ UndoFree(t) /\ i = Head(alloced[t]) /\ Cleared(i)
           \/ Settle(t) /\ remaining = 0 /\ i \in freedSegments /\ Cleared(i)
<1> USE DEF TypeOK, Kept, Filled, Lost, Cleared
<1>1. CASE FillStep(t)
  BY <1>1 DEF FillStep, Fill, NoMemory
<1>2. CASE UndoFree(t)
  BY <1>2 DEF UndoFree, SegFree
<1>3. CASE Settle(t)
  BY <1>3 DEF Settle, SegFree
<1>4. CASE ~(FillStep(t) \/ UndoFree(t) \/ Settle(t))
  BY <1>4 DEF Step, BeginStep, IndexStep, Free, EndStep, Fail, Undo, Publish, Decrement,
    tableVars
<1> QED
  BY <1>1, <1>2, <1>3, <1>4

\* What t has put in the table is in its list, until it has taken it out again.
LEMMA OwnerStep ==
    ASSUME TypeOK, ListInv, OwnerInv, NEW t \in Tx, Step(t)
    PROVE  OwnerInv'
<1> SUFFICES ASSUME NEW i \in Indices, NEW u \in Tx \ kept',
                    segments'[i] \in Of(u) \/ controls'[i] \in Of(u)
             PROVE  i \in Range(alloced'[u])
  BY DEF OwnerInv, Of
<1>0. u \notin kept
  BY FrameStep DEF Frame
<1>1. CASE Filled(t, i)
  BY <1>1, AllocedStep, EntryFacts DEF Filled
<1>2. CASE ~Filled(t, i)
  <2>1. Kept(i) \/ Lost(t, i)
    BY <1>2, EntryStep, EntryFacts DEF Cleared
  <2>2. i \in Range(alloced[u])
    BY <1>0, <2>1, EntryFacts DEF OwnerInv, Kept, Lost
  <2>3. CASE u # t
    BY <2>2, <2>3, FrameStep DEF Frame
  <2>4. CASE u = t
    <3>1. ~Settle(t)
      BY <2>2, <2>4, <1>0, RangeFacts DEF Settle, ListInv
    <3>2. UndoFree(t) => i # Head(alloced[t])
      <4> SUFFICES ASSUME UndoFree(t), i = Head(alloced[t]) PROVE FALSE
        OBVIOUS
      <4>1. segments'[i] = Null /\ controls'[i] = Null
        BY DEF UndoFree, SegFree
      <4> QED
        BY <4>1, EntryFacts
    <3> QED
      BY <2>2, <2>4, <3>1, <3>2, AllocedStep
  <2> QED
    BY <2>3, <2>4
<1> QED
  BY <1>1, <1>2

\* Entries are written and cleared together, but for a copy that is lost.
LEMMA ControlStep ==
    ASSUME TypeOK, ListInv, ControlInv, NEW t \in Tx, Step(t)
    PROVE  ControlInv'
<1> SUFFICES ASSUME NEW i \in Indices, controls'[i] = Null
             PROVE  segments'[i] \in {Null, <<"lost">>}
  BY DEF ControlInv
<1>1. ~Filled(t, i)
  BY AllocedStep, EntryFacts DEF Filled
<1> QED
  BY <1>1, EntryStep DEF ControlInv, Kept, Lost, Cleared

\* An index given to t without being in use is nobody else's.
LEMMA GivenStep ==
    ASSUME TypeOK, NEW t \in Tx, Step(t), NEW i \in Indices \ reissued', Filling(t, i)'
    PROVE  Filling(t, i) \/ (segments' = segments /\ alloced' = alloced /\ ~InUse(i))
<1> USE DEF TypeOK, Filling
<1>1. CASE Take(t) \/ Scan(t)
  <2>1. segments' = segments /\ alloced' = alloced
    <3>1. CASE IndexStep(t)
      BY <3>1 DEF IndexStep
    <3>2. CASE ~IndexStep(t)
      <4>1. pc[t] \in {"take", "scan"}
        BY <1>1 DEF Take, Scan, Goto
      <4> QED
        BY <3>2, <4>1 DEF Step, Goto, BeginStep, Begin, Join, Wait, IndexStep, AllocCall, EnterNext, Take, Scan, Count, Give,
      FillStep, Fill, NoMemory, Free, EndStep, Fail, Undo, UndoFree, Publish, Decrement, Settle
    <3> QED
      BY <3>1, <3>2
  <2>2. reissued' = IF i \in Indices /\ InUse(i) THEN reissued \union {i} ELSE reissued
    BY <1>1 DEF Take, Scan, Give, Goto
  <2> QED
    BY <2>1, <2>2
<1>2. CASE ~(Take(t) \/ Scan(t))
  <2>1. pc[t] \in {"count", "fill"} /\ index' = index
    BY <1>2, LabelStep DEF Count, Goto, Step, Goto, BeginStep, Begin, Join, Wait, IndexStep, AllocCall, EnterNext, Take, Scan, Count, Give,
      FillStep, Fill, NoMemory, Free, EndStep, Fail, Undo, UndoFree, Publish, Decrement, Settle
  <2> QED
    BY <2>1
<1> QED
  BY <1>1, <1>2

\* Who holds an index after a step of t held it before, or is given it.
LEMMA HoldsStep ==
    ASSUME TypeOK, ListInv, NEW t \in Tx, Step(t), NEW i \in Indices \ reissued',
           NEW u \in Tx, Holds(u, i)'
    PROVE  \/ Holds(u, i)
           \/ /\ u = t /\ Filling(t, i)' /\ segments' = segments /\ alloced' = alloced
              /\ ~InUse(i)
<1> USE DEF Holds, Filling
<1>1. CASE u # t
  BY <1>1, FrameStep DEF Frame
<1>2. CASE u = t /\ Filling(t, i)'
  BY <1>2, GivenStep
<1>3. CASE u = t /\ i \in Range(alloced'[t])
  BY <1>3, AllocedStep, RangeFacts
<1> QED
  BY <1>1, <1>2, <1>3

\* An index given out once has one holder, and holds nobody else's segment.
LEMMA SoleStep ==
    ASSUME TypeOK, ListInv, SoleInv, NEW t \in Tx, Step(t)
    PROVE  SoleInv'
<1> SUFFICES ASSUME NEW i \in Indices \ reissued', NEW u \in Tx
             PROVE  /\ Filling(u, i)' => segments'[i] = Null /\ i \notin Range(alloced'[u])
                    /\ \A v \in Tx : Holds(u, i)' /\ segments'[i] \in Of(v) => u = v
                    /\ \A v \in Tx : Holds(u, i)' /\ Holds(v, i)' => u = v
  BY DEF SoleInv, Of
<1>0. i \in Indices \ reissued
  BY FrameStep DEF Frame
<1>1. CASE ~InUse(i) /\ Filling(t, i)' /\ segments' = segments /\ alloced' = alloced
  <2>1. segments[i] = Null /\ \A v \in Tx : ~Holds(v, i) /\ i \notin Range(alloced[v])
    BY <1>1 DEF InUse, Holds, Filling
  <2>2. \A v \in Tx : Holds(v, i)' => v = t
    BY <2>1, HoldsStep
  <2> QED
    BY <1>1, <2>1, <2>2, EntryFacts DEF Holds
<1>2. CASE \A v \in Tx : Holds(v, i)' => Holds(v, i)
  <2>1. \A v \in Tx : Holds(u, i)' /\ Holds(v, i)' => u = v
    BY <1>2, <1>0 DEF SoleInv
  <2>2. Filled(t, i) => segments'[i] \in Of(t) /\ Holds(t, i) /\ pc'[t] = "run"
    BY AllocedStep, EntryFacts DEF Filled, Holds, Filling
  <2>3. Lost(t, i) => Holds(t, i) /\ Filling(t, i) /\ pc'[t] = "run"
    BY DEF Lost, NoMemory, Holds, Filling, Goto, TypeOK
  <2>4. ASSUME NEW v \in Tx, Holds(u, i)', segments'[i] \in Of(v) PROVE u = v
    <3>1. CASE segments'[i] = segments[i]
      BY <3>1, <2>4, <1>0, <1>2 DEF SoleInv
    <3>2. CASE Filled(t, i)
      BY <3>2, <2>4, <2>2, <1>0, <1>2, EntryFacts DEF SoleInv
    <3>3. CASE Lost(t, i) \/ Cleared(i)
      BY <3>3, <2>4, EntryFacts DEF Lost, Cleared
    <3> QED
      BY <3>1, <3>2, <3>3, EntryStep DEF Kept
  <2>5. ASSUME Filling(u, i)' PROVE segments'[i] = Null /\ i \notin Range(alloced'[u])
    <3>1. Filling(u, i) \/ (u = t /\ ~InUse(i) /\ segments' = segments /\ alloced' = alloced)
      <4>1. CASE u = t
        BY <4>1, <2>5, GivenStep
      <4>2. CASE u # t
        BY <4>2, <2>5, FrameStep DEF Filling, Frame
      <4> QED
        BY <4>1, <4>2
    <3>2. CASE u = t /\ ~InUse(i) /\ segments' = segments /\ alloced' = alloced
      BY <3>2 DEF InUse
    <3>3. CASE Filling(u, i)
      <4>1. segments[i] = Null /\ i \notin Range(alloced[u]) /\ Holds(u, i)
        BY <3>3, <1>0 DEF SoleInv, Holds
      <4>2. ~Filled(t, i) /\ ~Lost(t, i)
        <5>1. Holds(t, i) => t = u
          BY <1>0, <4>1 DEF SoleInv
        <5> QED
          BY <5>1, <2>2, <2>3, <2>5 DEF Filling
      <4>3. segments'[i] = Null
        BY <4>1, <4>2, EntryStep DEF Kept, Cleared
      <4>4. i \notin Range(alloced'[u])
        <5>1. CASE u # t
          BY <5>1, <4>1, FrameStep DEF Frame
        <5>2. CASE u = t
          BY <5>2, <4>1, <2>5, AllocedStep, RangeFacts DEF Filling
        <5> QED
          BY <5>1, <5>2
      <4> QED
        BY <4>3, <4>4
    <3> QED
      BY <3>1, <3>2, <3>3
  <2> QED
    BY <2>1, <2>4, <2>5
<1> QED
  BY <1>1, <1>2, HoldsStep

\* The list of what the next end of a batch frees grows at commits only, by what
\* they have freed.
LEMMA AskedStep ==
    ASSUME TypeOK, AskedInv, NEW t \in Tx, Step(t)
    PROVE  /\ AskedInv' /\ asked \subseteq asked'
           /\ Settle(t) /\ remaining = 0 => freedSegments \subseteq asked'
<1> USE DEF AskedInv
<1>1. CASE EndStep(t)
  <2>1. Settle(t) => pc[t] = "settle"
    BY DEF Settle
  <2> QED
    BY <1>1, <2>1 DEF EndStep, Fail, Undo, UndoFree, Publish, Goto
<1>2. CASE Settle(t)
  BY <1>2 DEF Settle
<1>3. CASE ~EndStep(t) /\ ~Settle(t)
  BY <1>3 DEF Step, histVars, BeginStep, IndexStep, FillStep, Free, Decrement
<1> QED
  BY <1>1, <1>2, <1>3

\* Whoever does not abort keeps its segments, until the end of a batch.
LEMMA SurviveStep ==
    ASSUME TypeOK, ListInv, SoleInv, HomeInv, SurviveInv, AskedInv, NEW t \in Tx, Step(t)
    PROVE  SurviveInv'
<1> DEFINE Stays(u) == u \in kept \/ pc[u] \notin {"undo", "undoFree", "leave", "settle", "done"}
<1> SUFFICES ASSUME NEW u \in Tx, Stays(u)', NEW s \in Of(u),
                    home'[s] \in Indices \ (reissued' \union asked'), ~destroyed'
             PROVE  segments'[home'[s]] = s /\ controls'[home'[s]] = s
  BY DEF SurviveInv, Of
<1>0. /\ ~destroyed /\ home'[s] \notin reissued /\ home'[s] \notin asked
      /\ Settle(t) /\ remaining = 0 => home'[s] \notin freedSegments
      /\ s \in Segments
  BY FrameStep, AskedStep, EntryFacts DEF Frame
<1>1. CASE FillStep(t) /\ Fill(t) /\ s = Newest(t)
  BY <1>1, <1>0 DEF FillStep, Fill, TypeOK, HomeInv
<1>2. CASE ~(FillStep(t) /\ Fill(t) /\ s = Newest(t))
  <2>1. home'[s] = home[s]
    <3>1. CASE FillStep(t) /\ Fill(t)
      BY <1>2, <3>1, <1>0 DEF Fill, HomeInv
    <3>2. CASE ~(FillStep(t) /\ Fill(t))
      BY <3>2 DEF Step, histVars, BeginStep, IndexStep, FillStep, NoMemory, Free, EndStep,
        Decrement, Settle
    <3> QED
      BY <3>1, <3>2
  <2>2. Stays(u)
    <3>1. CASE u # t
      BY <3>1, FrameStep DEF Frame
    <3>2. CASE u = t /\ pc'[t] = "leave" /\ Publish(t)
      BY <3>2 DEF Publish, Goto
    <3>3. CASE u = t /\ ~Publish(t)
      <4>1. t \in kept' => t \in kept
        BY <3>3 DEF Step, histVars, BeginStep, IndexStep, FillStep, Fill, NoMemory, Free,
          EndStep, Fail, Undo, UndoFree, Decrement, Settle
      <4>2. pc[t] \in {"undo", "undoFree", "leave", "settle"} =>
               pc'[t] \in {"undo", "undoFree", "leave", "settle", "done"}
        BY LabelStep
      <4> QED
        BY <3>3, <4>1, <4>2, LabelStep
    <3> QED
      BY <3>1, <3>2, <3>3 DEF Publish, Goto, TypeOK
  <2>3. segments[home[s]] = s /\ controls[home[s]] = s
    BY <1>0, <2>1, <2>2 DEF SurviveInv
  <2> DEFINE i == home[s]
  <2>4. i \in Indices \ reissued /\ (Settle(t) /\ remaining = 0 => i \notin freedSegments)
    BY <1>0, <2>1
  <2>5. \A v \in Tx : Holds(v, i) => v = u
    BY <2>3, <2>4 DEF SoleInv
  <2>6. ~Filling(t, i)
    BY <2>3, <2>4, EntryFacts DEF SoleInv
  <2>7. ~Filled(t, i) /\ ~Lost(t, i)
    BY <2>6 DEF Filled, Fill, Lost, NoMemory, Filling, Goto
  <2>8. ~(UndoFree(t) /\ i = Head(alloced[t]))
    <3> SUFFICES ASSUME UndoFree(t), i = Head(alloced[t]) PROVE FALSE
      OBVIOUS
    <3>1. i \in Range(alloced[t]) /\ pc[t] = "undoFree"
      BY AllocedStep
    <3>2. t = u
      BY <3>1, <2>5 DEF Holds
    <3> QED
      BY <3>1, <3>2, <2>2 DEF ListInv
  <2>9. Kept(i)
    <3> HIDE DEF i
    <3> QED
      BY <2>4, <2>7, <2>8, EntryStep
  <2> QED
    BY <2>1, <2>3, <2>9 DEF Kept
<1> QED
  BY <1>1, <1>2

\* Before tm_begin returns, no segment of the transaction has a place.
LEMMA HomeStep ==
    ASSUME TypeOK, ListInv, HomeInv, NEW t \in Tx, Step(t)
    PROVE  HomeInv'
<1> USE DEF HomeInv
<1>1. CASE FillStep(t) /\ Fill(t)
  <2>1. Newest(t) \in Of(t) /\ pc[t] = "fill" /\ pc'[t] = "run"
    BY <1>1, AllocedStep
  <2>2. Newest(t) \in Segments /\ index[t] \in Indices
    BY <1>1, <2>1, EntryFacts DEF FillStep
  <2>3. home' = [home EXCEPT ![Newest(t)] = index[t]] /\ UNCHANGED <<reissued, kept, known>>
    BY <1>1 DEF FillStep, Fill
  <2>4. ASSUME NEW u \in Tx, pc'[u] \in {"new", "waiting", "woken"}, NEW s \in Of(u)
        PROVE  home'[s] = MaxSegments
    <3>1. u # t /\ pc[u] \in {"new", "waiting", "woken"}
      BY <2>1, <2>4, FrameStep DEF Frame
    <3>2. s # Newest(t) /\ s \in Segments
      BY <2>1, <3>1, EntryFacts
    <3> QED
      BY <2>3, <2>4, <3>1, <3>2
  <2> QED
    BY <2>2, <2>3, <2>4 DEF Of
<1>2. CASE ~(FillStep(t) /\ Fill(t))
  <2>1. home' = home
    BY <1>2 DEF Step, histVars, BeginStep, IndexStep, FillStep, NoMemory, Free, EndStep,
      Decrement, Settle
  <2>2. reissued' \subseteq Indices
    <3>1. CASE IndexStep(t)
      BY <3>1 DEF IndexStep, AllocCall, EnterNext, Take, Scan, Count, Give
    <3>2. CASE ~IndexStep(t)
      BY <3>2 DEF Step, histVars, BeginStep, FillStep, Free, EndStep, Decrement, Settle
    <3> QED
      BY <3>1, <3>2
  <2>3. kept' \subseteq Tx
    BY FrameStep DEF Frame
  <2>4. known' \subseteq Indices
    <3>1. CASE Settle(t)
      BY <3>1 DEF Settle
    <3>2. CASE ~Settle(t)
      BY <3>2 DEF Step, histVars, BeginStep, IndexStep, FillStep, Free, EndStep, Decrement
    <3> QED
      BY <3>1, <3>2
  <2>5. \A u \in Tx : pc'[u] \in {"new", "waiting", "woken"} =>
                         pc[u] \in {"new", "waiting", "woken"}
    BY FrameStep, LabelStep DEF Frame
  <2> QED
    BY <2>1, <2>2, <2>3, <2>4, <2>5 DEF Of
<1> QED
  BY <1>1, <1>2

-----------------------------------------------------------------------------
(* The count, against the segments there are and the calls there were *)

LEMMA UpToFacts ==
    ASSUME NEW f
    PROVE  /\ IsFiniteSet(Segments) /\ Cardinality(Segments) \in Nat
           /\ UpTo(f) \subseteq Segments /\ IsFiniteSet(UpTo(f))
           /\ Cardinality(UpTo(f)) \in 0 .. Cardinality(Segments)
<1>1. IsFiniteSet(1 .. MaxAllocs)
  BY FS_Interval, TemplateSegmentsAssumption
<1>2. IsFiniteSet(Segments)
  BY <1>1, FS_Product, TemplateSegmentsAssumption DEF Segments
<1>3. UpTo(f) \subseteq Segments
  BY DEF UpTo
<1> QED
  BY <1>2, <1>3, FS_Subset, FS_CardinalityType

\* Whoever may still give back one segment more counts one more.
LEMMA UpToMore ==
    ASSUME NEW f \in [Tx -> Int], NEW g \in [Tx -> Int], NEW t \in Tx,
           \A u \in Tx \ {t} : g[u] = f[u],
           f[t] \in 0 .. MaxAllocs - 1, g[t] = f[t] + 1
    PROVE  Cardinality(UpTo(g)) = Cardinality(UpTo(f)) + 1
<1> DEFINE n == f[t]
<1>1. <<t, n + 1>> \in Segments /\ <<t, n + 1>> \notin UpTo(f)
  BY TemplateSegmentsAssumption DEF Segments, UpTo
<1>2. ASSUME NEW s \in Segments PROVE s \in UpTo(g) <=> s \in UpTo(f) \union {<<t, n + 1>>}
  <2>1. s = <<s[1], s[2]>> /\ s[1] \in Tx /\ s[2] \in 1 .. MaxAllocs
    BY EntryFacts
  <2>2. CASE s[1] = t
    <3>1. s \in UpTo(g) <=> s[2] <= n + 1
      BY <2>2 DEF UpTo
    <3>2. s \in UpTo(f) <=> s[2] <= n
      BY <2>2 DEF UpTo
    <3> QED
      BY <2>1, <2>2, <3>1, <3>2, TemplateSegmentsAssumption
  <2>3. CASE s[1] # t
    BY <2>1, <2>3 DEF UpTo
  <2> QED
    BY <2>2, <2>3
<1>3. UpTo(g) = UpTo(f) \union {<<t, n + 1>>}
  BY <1>1, <1>2, UpToFacts
<1> QED
  BY <1>1, <1>3, UpToFacts, FS_AddElement

LEMMA UpToLess ==
    ASSUME NEW f \in [Tx -> Int], NEW g \in [Tx -> Int], \A u \in Tx : g[u] <= f[u]
    PROVE  Cardinality(UpTo(g)) <= Cardinality(UpTo(f))
<1>1. UpTo(g) \subseteq UpTo(f)
  <2> SUFFICES ASSUME NEW s \in Segments, s[2] <= g[s[1]] PROVE s[2] <= f[s[1]]
    BY DEF UpTo
  <2>1. s[1] \in Tx /\ s[2] \in Int /\ g[s[1]] <= f[s[1]]
    BY EntryFacts
  <2> QED
    BY <2>1
<1> QED
  BY <1>1, UpToFacts, FS_Subset

LEMMA CalledTypes ==
    ASSUME TypeOK, ListInv, NEW t \in Tx
    PROVE  /\ Len(alloced[t]) \in Nat /\ allocs[t] \in 0 .. MaxAllocs /\ MaxAllocs \in Nat
           /\ Len(alloced[t]) <= allocs[t]
           /\ Pending(t) \in Int /\ CalledOnce(t) \in Int /\ CalledTwice(t) \in Int
<1>1. /\ Len(alloced[t]) \in Nat /\ allocs[t] \in 0 .. MaxAllocs /\ MaxAllocs \in Nat
      /\ Len(alloced[t]) <= allocs[t]
  BY RangeFacts, TemplateSegmentsAssumption DEF TypeOK, ListInv
<1>2. /\ Len(alloced[t]) \in Int /\ Len(alloced[t]) + 1 \in Int /\ Len(alloced[t]) - 1 \in Int
      /\ allocs[t] \in Int /\ allocs[t] - 1 \in Int
  BY <1>1
<1> QED
  BY <1>1, <1>2 DEF Pending, CalledOnce, CalledTwice

\* How a step of t changes the count, and what it is compared with.
Change(t, count, pending, once, twice) ==
    /\ nSegments' = nSegments + count
    /\ Pending(t)' \in Int /\ Pending(t)' <= Pending(t) + pending
    /\ pending # 0 => Pending(t)' = Pending(t) + pending
    /\ CalledOnce(t)' = CalledOnce(t) + once
    /\ CalledTwice(t)' = CalledTwice(t) + twice

LEMMA CountChange ==
    ASSUME TypeOK, LockInv, ListInv, NEW t \in Tx, Step(t)
    PROVE  \/ /\ Change(t, 1, 0, 1, 0)
              /\ CalledOnce(t) \in 0 .. MaxAllocs - 1
           \/ /\ Change(t, 0, 0, 1, 0)
              /\ CalledOnce(t) \in 0 .. MaxAllocs - 1
           \/ /\ Change(t, 1, 1, 0, 1)
              /\ Pending(t) \in 0 .. MaxAllocs - 1 /\ CalledTwice(t) \in 0 .. MaxAllocs - 1
           \/ /\ Change(t, -1, -1, 0, 0)
              /\ Pending(t) \in 1 .. MaxAllocs
           \/ Change(t, 0, 0, 0, 0)
<1> DEFINE n == Len(alloced[t])
           a == allocs[t]
<1>0. /\ n \in Nat /\ a \in 0 .. MaxAllocs /\ MaxAllocs \in Nat /\ n <= a
      /\ nSegments \in Int
  BY CalledTypes DEF TypeOK
<1>a. pc[t] \in Critical \union {"next", "fill"} => n < a
  BY DEF ListInv
<1> HIDE DEF n, a
<1> USE DEF TypeOK, Goto
<1>1. CASE Take(t)
  <2>1. /\ pc[t] = "take" /\ pc'[t] = "count" /\ nSegments' = nSegments + 1 /\ allocs' = allocs
        /\ alloced' = alloced
    BY <1>1, AllocedStep DEF Take
  <2>2. /\ Pending(t) = n /\ Pending(t)' = n /\ CalledOnce(t) = a - 1 /\ CalledOnce(t)' = a
        /\ CalledTwice(t) = a - 1 /\ CalledTwice(t)' = a - 1
    BY <2>1 DEF Pending, CalledOnce, CalledTwice, n, a
  <2> QED
    BY <1>0, <1>a, <2>1, <2>2 DEF Change, Critical
<1>2. CASE Scan(t) /\ pc'[t] = "count"
  <2>1. /\ pc[t] = "scan" /\ nSegments' = nSegments /\ allocs' = allocs /\ alloced' = alloced
    BY <1>2, AllocedStep DEF Scan
  <2>2. /\ Pending(t) = n /\ Pending(t)' = n /\ CalledOnce(t) = a - 1 /\ CalledOnce(t)' = a
        /\ CalledTwice(t) = a - 1 /\ CalledTwice(t)' = a - 1
    BY <1>2, <2>1 DEF Pending, CalledOnce, CalledTwice, n, a
  <2> QED
    BY <1>0, <1>a, <2>1, <2>2 DEF Change, Critical
<1>3. CASE Count(t)
  <2>1. /\ pc[t] = "count" /\ pc'[t] = "fill" /\ nSegments' = nSegments + 1 /\ allocs' = allocs
        /\ alloced' = alloced
    BY <1>3, AllocedStep DEF Count
  <2>2. /\ Pending(t) = n /\ Pending(t)' = n + 1 /\ CalledOnce(t) = a /\ CalledOnce(t)' = a
        /\ CalledTwice(t) = a - 1 /\ CalledTwice(t)' = a
    BY <2>1 DEF Pending, CalledOnce, CalledTwice, n, a
  <2> QED
    BY <1>0, <1>a, <2>1, <2>2 DEF Change, Critical
<1>4. CASE FillStep(t) /\ NoMemory(t)
  <2>1. /\ pc[t] = "fill" /\ pc'[t] = "run" /\ nSegments' = nSegments - 1 /\ allocs' = allocs
        /\ alloced' = alloced
    BY <1>4 DEF NoMemory, FillStep
  <2>2. /\ Pending(t) = n + 1 /\ Pending(t)' = n /\ CalledOnce(t) = a /\ CalledOnce(t)' = a
        /\ CalledTwice(t) = a /\ CalledTwice(t)' = a
    BY <2>1 DEF Pending, CalledOnce, CalledTwice, n, a
  <2> QED
    BY <1>0, <1>a, <2>1, <2>2 DEF Change
<1>5. CASE EndStep(t) /\ Undo(t) /\ alloced[t] # <<>>
  <2>1. /\ pc[t] = "undo" /\ pc'[t] = "undoFree" /\ nSegments' = nSegments - 1
        /\ allocs' = allocs /\ alloced' = alloced
    BY <1>5 DEF Undo, EndStep
  <2>2. n # 0
    BY <1>5, RangeTail DEF n
  <2>3. /\ Pending(t) = n /\ Pending(t)' = n - 1 /\ CalledOnce(t) = a /\ CalledOnce(t)' = a
        /\ CalledTwice(t) = a /\ CalledTwice(t)' = a
    BY <2>1 DEF Pending, CalledOnce, CalledTwice, n, a
  <2> QED
    BY <1>0, <2>1, <2>2, <2>3 DEF Change
<1>6. CASE AllocCall(t)
  <2>1. /\ pc[t] = "run" /\ pc'[t] = "next" /\ nSegments' = nSegments /\ alloced' = alloced
        /\ allocs'[t] = a + 1
    BY <1>6, AllocedStep DEF AllocCall, a
  <2>2. /\ Pending(t) = n /\ Pending(t)' = n /\ CalledOnce(t) = a
        /\ CalledOnce(t)' = a + 1 - 1 /\ CalledTwice(t) = a /\ CalledTwice(t)' = a + 1 - 1
    BY <2>1 DEF Pending, CalledOnce, CalledTwice, n, a
  <2> QED
    BY <1>0, <2>1, <2>2 DEF Change
<1>7. CASE (FillStep(t) /\ Fill(t)) \/ UndoFree(t) \/ Settle(t)
  <2>1. nSegments' = nSegments /\ allocs' = allocs
    <3>1. CASE FillStep(t) /\ Fill(t)
      BY <3>1 DEF FillStep, Fill
    <3>2. CASE UndoFree(t)
      BY <3>2 DEF Step, BeginStep, Begin, IndexStep, AllocCall, EnterNext, Take, Scan, Count,
        FillStep, Fill, NoMemory, Free, EndStep, UndoFree, Decrement, Settle, listVars
    <3>3. CASE Settle(t)
      BY <3>3 DEF Settle
    <3> QED
      BY <1>7, <3>1, <3>2, <3>3
  <2>2. /\ CalledOnce(t) = a /\ CalledOnce(t)' = a /\ CalledTwice(t) = a /\ CalledTwice(t)' = a
    BY <1>7, <2>1, AllocedStep DEF CalledOnce, CalledTwice, a
  <2>3. Pending(t)' <= Pending(t)
    <3>1. CASE FillStep(t) /\ Fill(t)
      <4>1. Pending(t) = n + 1 /\ Pending(t)' = n + 1
        BY <3>1, AllocedStep DEF Pending, n
      <4> QED
        BY <1>0, <4>1
    <3>2. CASE UndoFree(t)
      <4>1. Pending(t) = n - 1 /\ Pending(t)' = n - 1
        BY <3>2, AllocedStep DEF Pending, n
      <4> QED
        BY <1>0, <4>1
    <3>3. CASE Settle(t)
      <4>1. Pending(t) = n /\ Pending(t)' = 0
        BY <3>3, AllocedStep, RangeFacts DEF Pending, n
      <4> QED
        BY <1>0, <4>1
    <3> QED
      BY <1>7, <3>1, <3>2, <3>3
  <2>4. Pending(t)' \in Int /\ Pending(t) \in Int
    <3>1. Len(alloced'[t]) \in Nat
      BY FieldStep, RangeFacts DEF FieldsOK
    <3>2. Len(alloced'[t]) \in Int /\ Len(alloced'[t]) + 1 \in Int /\ Len(alloced'[t]) - 1 \in Int
      BY <3>1
    <3> QED
      BY <3>2, CalledTypes DEF Pending
  <2> QED
    BY <1>0, <2>1, <2>2, <2>3, <2>4 DEF Change
<1>8. CASE ~(\/ Take(t) \/ (Scan(t) /\ pc'[t] = "count") \/ Count(t)
             \/ (FillStep(t) /\ NoMemory(t)) \/ (EndStep(t) /\ Undo(t) /\ alloced[t] # <<>>)
             \/ AllocCall(t) \/ (FillStep(t) /\ Fill(t)) \/ UndoFree(t) \/ Settle(t))
  <2>1. alloced' = alloced
    BY <1>8, AllocedStep
  <2>2. nSegments' = nSegments /\ allocs' = allocs
    BY <1>8 DEF Step, tableVars, listVars, BeginStep, IndexStep, AllocCall, EnterNext, Scan,
      FillStep, Free, EndStep, Fail, Undo, Publish, Decrement
  <2>3. \/ pc'[t] = pc[t]
        \/ pc[t] = "next" /\ pc'[t] \in {"take", "scan"}
        \/ /\ pc[t] \notin {"next", "take", "scan", "count", "fill", "undoFree"}
           /\ pc'[t] \notin {"next", "take", "scan", "count", "fill", "undoFree"}
    <3>1. CASE BeginStep(t) \/ Decrement(t) \/ (\E i \in Indices : Free(t, i))
      BY <3>1 DEF BeginStep, Begin, Join, Wait, Decrement, Free
    <3>2. CASE EndStep(t)
      BY <1>8, <3>2 DEF EndStep, Fail, Undo, Publish
    <3>3. CASE EnterNext(t)
      BY <3>3 DEF EnterNext
    <3>4. CASE Scan(t)
      BY <1>8, <3>4 DEF Scan
    <3> QED
      BY <1>8, <3>1, <3>2, <3>3, <3>4 DEF Step, IndexStep, FillStep
  <2>4. /\ Pending(t)' = Pending(t) /\ CalledOnce(t)' = CalledOnce(t)
        /\ CalledTwice(t)' = CalledTwice(t)
    BY <2>1, <2>2, <2>3 DEF Pending, CalledOnce, CalledTwice
  <2> QED
    BY <1>0, <2>2, <2>4, CalledTypes DEF Change
<1> QED
  BY <1>1, <1>2, <1>3, <1>4, <1>5, <1>6, <1>7, <1>8 DEF Step, EndStep, FillStep

\* The count stays above the segments that may still be given back, and below twice the
\* calls.
LEMMA CountStep ==
    ASSUME TypeOK, LockInv, ListInv, CountInv, NEW t \in Tx, Step(t), ListInv'
    PROVE  CountInv' /\ nSegments' \in 1 .. 2 * Cardinality(Segments) + 1
<1> DEFINE p == [u \in Tx |-> Pending(u)]
           p1 == [u \in Tx |-> Pending(u)']
           o == [u \in Tx |-> CalledOnce(u)]
           o1 == [u \in Tx |-> CalledOnce(u)']
           w == [u \in Tx |-> CalledTwice(u)]
           w1 == [u \in Tx |-> CalledTwice(u)']
<1>1. \A u \in Tx \ {t} : /\ Pending(u)' = Pending(u) /\ CalledOnce(u)' = CalledOnce(u)
                          /\ CalledTwice(u)' = CalledTwice(u)
  BY FrameStep DEF Frame, Pending, CalledOnce, CalledTwice
<1>2. \A u \in Tx : Pending(u) \in Int /\ CalledOnce(u) \in Int /\ CalledTwice(u) \in Int
  BY CalledTypes
<1>3. Pending(t)' \in Int /\ CalledOnce(t)' \in Int /\ CalledTwice(t)' \in Int
  BY <1>2, CountChange DEF Change
<1>4. /\ Tokens = UpTo(p) /\ Tokens' = UpTo(p1) /\ Once = UpTo(o) /\ Once' = UpTo(o1)
      /\ Twice = UpTo(w) /\ Twice' = UpTo(w1)
  BY DEF Tokens, Once, Twice, UpTo
<1>5. /\ p \in [Tx -> Int] /\ p1 \in [Tx -> Int] /\ o \in [Tx -> Int] /\ o1 \in [Tx -> Int]
      /\ w \in [Tx -> Int] /\ w1 \in [Tx -> Int]
  BY <1>1, <1>2, <1>3
<1>6. /\ Cardinality(Tokens) \in Nat /\ Cardinality(Tokens') \in Nat
      /\ Cardinality(Once) \in Nat /\ Cardinality(Once') \in 0 .. Cardinality(Segments)
      /\ Cardinality(Twice) \in Nat /\ Cardinality(Twice') \in 0 .. Cardinality(Segments)
      /\ Cardinality(Segments) \in Nat /\ nSegments \in Int
  BY <1>4, UpToFacts DEF TypeOK
<1>7. /\ nSegments >= 1 + Cardinality(Tokens)
      /\ nSegments <= 1 + Cardinality(Once) + Cardinality(Twice)
  BY DEF CountInv
<1>8. /\ \A u \in Tx \ {t} : p1[u] = p[u] /\ o1[u] = o[u] /\ w1[u] = w[u]
      /\ p[t] = Pending(t) /\ p1[t] = Pending(t)' /\ o[t] = CalledOnce(t)
      /\ o1[t] = CalledOnce(t)' /\ w[t] = CalledTwice(t) /\ w1[t] = CalledTwice(t)'
  BY <1>1
<1> HIDE DEF p, p1, o, o1, w, w1
<1>9. ASSUME NEW f \in [Tx -> Int], NEW g \in [Tx -> Int], \A u \in Tx \ {t} : g[u] = f[u],
             g[t] = f[t]
      PROVE  Cardinality(UpTo(g)) = Cardinality(UpTo(f))
  <2>1. g = f
    BY <1>9
  <2> QED
    BY <2>1
<1>10. ASSUME NEW f \in [Tx -> Int], NEW g \in [Tx -> Int], \A u \in Tx \ {t} : g[u] = f[u],
             g[t] <= f[t]
       PROVE  Cardinality(UpTo(g)) <= Cardinality(UpTo(f))
  <2>1. \A u \in Tx : g[u] <= f[u]
    BY <1>10
  <2> QED
    BY <2>1, UpToLess
<1>11. /\ nSegments' >= 1 + Cardinality(Tokens')
       /\ nSegments' <= 1 + Cardinality(Once') + Cardinality(Twice')
       /\ nSegments' \in Int
  <2>1. CASE Change(t, 1, 0, 1, 0) /\ CalledOnce(t) \in 0 .. MaxAllocs - 1
    <3>1. /\ nSegments' = nSegments + 1 /\ Pending(t)' <= Pending(t)
          /\ CalledOnce(t)' = CalledOnce(t) + 1 /\ CalledTwice(t)' = CalledTwice(t)
      BY <2>1, <1>2 DEF Change
    <3>2. Cardinality(Tokens') <= Cardinality(Tokens)
      BY <3>1, <1>4, <1>5, <1>8, <1>10
    <3>3. Cardinality(Once') = Cardinality(Once) + 1
      BY <2>1, <3>1, <1>4, <1>5, <1>8, UpToMore
    <3>4. Cardinality(Twice') = Cardinality(Twice)
      BY <3>1, <1>4, <1>5, <1>8, <1>9
    <3> QED
      BY <3>1, <3>2, <3>3, <3>4, <1>6, <1>7
  <2>2. CASE Change(t, 0, 0, 1, 0) /\ CalledOnce(t) \in 0 .. MaxAllocs - 1
    <3>1. /\ nSegments' = nSegments /\ Pending(t)' <= Pending(t)
          /\ CalledOnce(t)' = CalledOnce(t) + 1 /\ CalledTwice(t)' = CalledTwice(t)
      BY <2>2, <1>2, <1>6 DEF Change
    <3>2. Cardinality(Tokens') <= Cardinality(Tokens)
      BY <3>1, <1>4, <1>5, <1>8, <1>10
    <3>3. Cardinality(Once') = Cardinality(Once) + 1
      BY <2>2, <3>1, <1>4, <1>5, <1>8, UpToMore
    <3>4. Cardinality(Twice') = Cardinality(Twice)
      BY <3>1, <1>4, <1>5, <1>8, <1>9
    <3> QED
      BY <3>1, <3>2, <3>3, <3>4, <1>6, <1>7
  <2>3. CASE /\ Change(t, 1, 1, 0, 1)
             /\ Pending(t) \in 0 .. MaxAllocs - 1 /\ CalledTwice(t) \in 0 .. MaxAllocs - 1
    <3>1. /\ nSegments' = nSegments + 1 /\ Pending(t)' = Pending(t) + 1
          /\ CalledOnce(t)' = CalledOnce(t) /\ CalledTwice(t)' = CalledTwice(t) + 1
      BY <2>3, <1>2 DEF Change
    <3>2. Cardinality(Tokens') = Cardinality(Tokens) + 1
      BY <2>3, <3>1, <1>4, <1>5, <1>8, UpToMore
    <3>3. Cardinality(Once') = Cardinality(Once)
      BY <3>1, <1>4, <1>5, <1>8, <1>9
    <3>4. Cardinality(Twice') = Cardinality(Twice) + 1
      BY <2>3, <3>1, <1>4, <1>5, <1>8, UpToMore
    <3> QED
      BY <3>1, <3>2, <3>3, <3>4, <1>6, <1>7
  <2>4. CASE Change(t, -1, -1, 0, 0) /\ Pending(t) \in 1 .. MaxAllocs
    <3>1. /\ nSegments' = nSegments - 1 /\ Pending(t)' = Pending(t) - 1
          /\ CalledOnce(t)' = CalledOnce(t) /\ CalledTwice(t)' = CalledTwice(t)
      BY <2>4, <1>2, <1>6 DEF Change
    <3>2. Cardinality(Tokens) = Cardinality(Tokens') + 1
      <4>1. Pending(t)' \in 0 .. MaxAllocs - 1 /\ Pending(t) = Pending(t)' + 1
        BY <2>4, <3>1, TemplateSegmentsAssumption
      <4> QED
        BY <4>1, <1>4, <1>5, <1>8, UpToMore
    <3>3. Cardinality(Once') = Cardinality(Once)
      BY <3>1, <1>4, <1>5, <1>8, <1>9
    <3>4. Cardinality(Twice') = Cardinality(Twice)
      BY <3>1, <1>4, <1>5, <1>8, <1>9
    <3>5. Cardinality(Once) >= 0
      BY <1>6
    <3> QED
      BY <3>1, <3>2, <3>3, <3>4, <1>6, <1>7
  <2>5. CASE Change(t, 0, 0, 0, 0)
    <3>1. /\ nSegments' = nSegments /\ Pending(t)' <= Pending(t)
          /\ CalledOnce(t)' = CalledOnce(t) /\ CalledTwice(t)' = CalledTwice(t)
      BY <2>5, <1>2, <1>6 DEF Change
    <3>2. Cardinality(Tokens') <= Cardinality(Tokens)
      BY <3>1, <1>4, <1>5, <1>8, <1>10
    <3>3. Cardinality(Once') = Cardinality(Once)
      BY <3>1, <1>4, <1>5, <1>8, <1>9
    <3>4. Cardinality(Twice') = Cardinality(Twice)
      BY <3>1, <1>4, <1>5, <1>8, <1>9
    <3> QED
      BY <3>1, <3>2, <3>3, <3>4, <1>6, <1>7
  <2> QED
    BY <2>1, <2>2, <2>3, <2>4, <2>5, CountChange
<1> QED
  <2>1. CountInv'
    BY <1>11 DEF CountInv
  <2>2. nSegments' <= 1 + Cardinality(Segments) + Cardinality(Segments)
    BY <1>6, <1>11
  <2> QED
    BY <2>1, <2>2, <1>6, <1>11

\* tm_destroy clears the controls, and every segment with them.
LEMMA DestroyStep ==
    ASSUME TemplateSegmentsInv, Destroy
    PROVE  TemplateSegmentsInv'
<1> USE DEF TemplateSegmentsInv
<1>0. UNCHANGED <<keepWaiting, remaining, allocLock, nSegments, freedSegments, pc, index, allocs,
                  alloced, freed, failures, outside, kept, dropped, asking, asked, known, home, reissued, given>>
  BY DEF Destroy, gateVars, listVars, histVars
<1>1. /\ \A t \in Tx : pc[t] = "done"
      /\ destroyed' = TRUE
      /\ segments' = SegFree(segments, {i \in Indices : controls[i] # Null})
      /\ controls' = SegFree(controls, Indices)
  BY DEF Destroy
<1>2. \A i \in Indices : controls'[i] = Null /\ segments'[i] \in {Null, <<"lost">>}
  BY <1>1 DEF SegFree, ControlInv
<1>3. \A t \in Tx : Range(alloced[t]) = {} \/ t \in kept
  BY <1>1, RangeFacts DEF ListInv
<1>4. TypeOK'
  <2>1. segments' \in [Indices -> Entries] /\ controls' \in [Indices -> Entries]
    BY <1>1 DEF TypeOK, SegFree, Entries
  <2> QED
    BY <1>0, <1>1, <2>1 DEF TypeOK, CountStaysInTable
<1>5. LockInv' /\ GateInv' /\ ListInv' /\ HomeInv'
  BY <1>0 DEF LockInv, GateInv, Inside, ListInv, HomeInv
<1>6. OwnerInv' /\ ControlInv'
  BY <1>0, <1>2, EntryFacts DEF OwnerInv, ControlInv
<1>7. SoleInv'
  <2>1. \A t \in Tx, i \in Indices : Filling(t, i)' <=> Filling(t, i)
    BY <1>0 DEF Filling
  <2>2. \A t \in Tx, i \in Indices : Holds(t, i)' <=> Holds(t, i)
    BY <1>0, <2>1 DEF Holds
  <2>3. \A t \in Tx, i \in Indices : ~Filling(t, i)
    BY <1>1 DEF Filling
  <2> QED
    BY <1>0, <1>2, <2>1, <2>2, <2>3, EntryFacts DEF SoleInv
<1>8. SurviveInv' /\ AskedInv' /\ DestroyFreesAll'
  BY <1>0, <1>1, <1>2 DEF SurviveInv, AskedInv, DestroyFreesAll
<1>9. CountInv'
  BY <1>0 DEF CountInv, Tokens, Once, Twice, UpTo, Pending, CalledOnce, CalledTwice
<1> QED
  BY <1>4, <1>5, <1>6, <1>7, <1>8, <1>9

\* tm_create establishes the invariant.
LEMMA InitInv == Init => TemplateSegmentsInv
<1> SUFFICES ASSUME Init PROVE TemplateSegmentsInv
  OBVIOUS
<1> USE DEF Init
<1>0. /\ IsFiniteSet(Segments) /\ Cardinality(Segments) \in Nat
      /\ IsFiniteSet(Tx) /\ Cardinality(Tx) \in Nat
  BY UpToFacts, FS_CardinalityType, TemplateSegmentsAssumption
<1>1. TypeOK
  <2>1. remaining \in 0 .. Cardinality(Tx) /\ nSegments \in 1 .. 2 * Cardinality(Segments) + 1
    BY <1>0
  <2>2. segments \in [Indices -> Entries] /\ controls \in [Indices -> Entries]
    BY DEF Entries
  <2>3. index \in [Tx -> 0 .. MaxSegments] /\ allocs \in [Tx -> 0 .. MaxAllocs]
        /\ failures \in 0 .. MaxFailures
    BY TemplateSegmentsAssumption
  <2>4. pc \in [Tx -> Labels] /\ alloced \in [Tx -> Seq(Indices)] /\ freed \in [Tx -> SUBSET Indices]
    BY RangeFacts DEF Labels
  <2>5. allocLock = (\E t \in Tx : pc[t] \in {"take", "scan", "count"})
    OBVIOUS
  <2>6. CountStaysInTable
    BY DEF CountStaysInTable
  <2> QED
    BY <2>1, <2>2, <2>3, <2>4, <2>5, <2>6 DEF TypeOK
<1>2. LockInv /\ GateInv /\ ListInv
  <2>1. LockInv
    BY DEF LockInv, Critical
  <2>2. Inside = {}
    BY DEF Inside
  <2>3. GateInv
    BY <2>2, FS_EmptySet DEF GateInv
  <2>4. ListInv
    BY RangeFacts, TemplateSegmentsAssumption DEF ListInv, Critical
  <2> QED
    BY <2>1, <2>3, <2>4
<1>3. \A i \in Indices, t \in Tx : segments[i] \notin Of(t) /\ controls[i] \notin Of(t)
  BY EntryFacts
<1>4. \A i \in Indices, t \in Tx : ~Holds(t, i) /\ ~Filling(t, i)
  BY RangeFacts DEF Holds, Filling
<1>5. OwnerInv /\ ControlInv /\ SoleInv
  BY <1>3, <1>4, EntryFacts DEF OwnerInv, ControlInv, SoleInv
<1>6. HomeInv /\ AskedInv
  BY EntryFacts DEF HomeInv, AskedInv
<1>7. SurviveInv /\ DestroyFreesAll
  <2>1. MaxSegments \notin Indices
    BY TemplateSegmentsAssumption DEF Indices
  <2> QED
    BY <2>1, EntryFacts DEF SurviveInv, DestroyFreesAll
<1>8. CountInv
  <2>1. \A s \in Segments : s[1] \in Tx /\ s[2] \in 1 .. MaxAllocs
    BY EntryFacts
  <2>2. \A t \in Tx : Pending(t) = 0 /\ CalledOnce(t) = 0 /\ CalledTwice(t) = 0
    BY RangeFacts DEF Pending, CalledOnce, CalledTwice
  <2>3. Tokens = {} /\ Once = {} /\ Twice = {}
    BY <2>1, <2>2 DEF Tokens, Once, Twice, UpTo
  <2> QED
    BY <2>3, FS_EmptySet DEF CountInv
<1> QED
  BY <1>1, <1>2, <1>5, <1>6, <1>7, <1>8 DEF TemplateSegmentsInv

\* Every step keeps it.
LEMMA NextInv == TemplateSegmentsInv /\ [Next]_vars => TemplateSegmentsInv'
<1> SUFFICES ASSUME TemplateSegmentsInv, [Next]_vars PROVE TemplateSegmentsInv'
  OBVIOUS
<1>1. ASSUME NEW t \in Tx, Step(t), ~Stopped PROVE TemplateSegmentsInv'
  <2> USE <1>1 DEF TemplateSegmentsInv
  <2>1. FieldsOK' /\ LockInv' /\ CountStaysInTable'
    BY FieldStep, LockStep
  <2>2. GateInv' /\ remaining' \in 0 .. Cardinality(Tx)
    BY GateStep
  <2>3. ListInv' /\ OwnerInv' /\ ControlInv'
    BY ListStep, OwnerStep, ControlStep
  <2>4. SoleInv' /\ SurviveInv' /\ AskedInv' /\ HomeInv'
    BY SoleStep, SurviveStep, AskedStep, HomeStep
  <2>5. CountInv' /\ nSegments' \in 1 .. 2 * Cardinality(Segments) + 1
    BY <2>3, CountStep
  <2>6. TypeOK'
    BY <2>1, <2>2, <2>5 DEF TypeOK, FieldsOK, LockInv, Critical
  <2>7. DestroyFreesAll'
    BY FrameStep DEF Frame, Stopped, DestroyFreesAll, TypeOK
  <2> QED
    BY <2>1, <2>2, <2>3, <2>4, <2>5, <2>6, <2>7
<1>2. CASE UNCHANGED vars
  <2>1. UNCHANGED <<keepWaiting, remaining, allocLock, nSegments, segments, controls,
                    freedSegments, pc, index, allocs, alloced, freed, failures, outside,
                    destroyed, kept, dropped, asking, asked, known, home, reissued, given>>
    BY <1>2 DEF vars, gateVars, tableVars, listVars, histVars
  <2> USE <2>1 DEF TemplateSegmentsInv
  <2>2. TypeOK' /\ LockInv' /\ GateInv' /\ ListInv'
    BY DEF TypeOK, CountStaysInTable, LockInv, GateInv, Inside, ListInv
  <2>3. OwnerInv' /\ ControlInv' /\ SoleInv'
    BY DEF OwnerInv, ControlInv, SoleInv, Holds, Filling
  <2>4. SurviveInv' /\ AskedInv' /\ HomeInv' /\ DestroyFreesAll'
    BY DEF SurviveInv, AskedInv, HomeInv, DestroyFreesAll
  <2>5. CountInv'
    BY DEF CountInv, Tokens, Once, Twice, UpTo, Pending, CalledOnce, CalledTwice
  <2> QED
    BY <2>2, <2>3, <2>4, <2>5
<1> QED
  BY <1>1, <1>2, DestroyStep DEF Next

-----------------------------------------------------------------------------
(* Theorems *)

\* At every time the count, the lock, the two arrays and the lists of segments satisfy
\* TemplateSegmentsInv.
THEOREM TemplateSegmentsInvariance == Spec => []TemplateSegmentsInv
BY InitInv, NextInv, PTL DEF Spec

\* The count is never a way out of the table, and never more than twice the calls
\* of tm_alloc.
THEOREM TemplateSegmentsTypes == Spec => []TypeOK
<1>1. TemplateSegmentsInv => TypeOK
  BY DEF TemplateSegmentsInv
<1> QED
  BY <1>1, TemplateSegmentsInvariance, PTL

\* When tm_end of an aborted transaction returns, no entry of the table holds anything
\* that the transaction allocated, whoever was given the same indices; after tm_destroy
\* no entry holds a segment, whatever the count is.  (Of the table only: memory whose
\* entry was overwritten, and the copy left by a failed allocation, are lost.)
THEOREM ReleaseComplete == Spec => []NothingLeft
<1>1. TemplateSegmentsInv => NothingLeft
  <2> SUFFICES ASSUME TemplateSegmentsInv PROVE AbortReleases /\ DestroyFreesAll
    BY DEF NothingLeft
  <2>1. ASSUME NEW i \in Indices, NEW t \in Tx \ kept, pc[t] = "done"
        PROVE  {segments[i], controls[i]} \intersect Of(t) = {}
    <3>1. Range(alloced[t]) = {}
      BY <2>1, RangeFacts DEF TemplateSegmentsInv, ListInv
    <3> QED
      BY <2>1, <3>1 DEF TemplateSegmentsInv, OwnerInv
  <2> QED
    BY <2>1 DEF AbortReleases, Of, TemplateSegmentsInv
<1> QED
  BY <1>1, TemplateSegmentsInvariance, PTL

\* A segment of a transaction that has committed, or still runs, stays at its address
\* as long as its index has not been given out twice and no committed transaction of
\* an ended batch has ever freed that index.
THEOREM CommittedSurvive == Spec => []SegmentsSurvive
<1>1. TemplateSegmentsInv => SegmentsSurvive
  BY DEF TemplateSegmentsInv, SurviveInv, SegmentsSurvive, Of
<1> QED
  BY <1>1, TemplateSegmentsInvariance, PTL
===============================================================================
