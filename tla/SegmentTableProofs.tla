-------------------------- MODULE SegmentTableProofs --------------------------
(***************************************************************************)
(* Proofs about SegmentTable, for any finite set of transactions and any   *)
(* size of the table: an index that has not been given out twice has one   *)
(* owner at a time, and n_segments falls short of what tm_destroy has to   *)
(* find by no more than the indices that came from a search of the table.  *)
(* The three safety properties of the module follow.                       *)
(***************************************************************************)
EXTENDS SegmentTable, FiniteSetTheorems, SequenceTheorems, TLAPS

Working == {"run", "take", "scan", "fill"}
Aborting == {"abortCount", "abortFree"}
Over == {"committed", "aborted"}

\* The transactions inside a batch are those between tm_begin and the end of tm_end.
MemberInv == \A t \in Tx : t \in members <=> pc[t] \notin Over \union {"new"}

ListInv ==
    \A t \in Tx :
        /\ pc[t] \in Over \union {"new", "leaveAborted"} => alloced[t] = <<>>
        /\ pc[t] \in Over \union {"new"} => freed[t] = {}
        /\ pc[t] = "abortFree" => alloced[t] # <<>>
        /\ Len(alloced[t]) <= allocs[t]
        /\ pc[t] \in {"take", "scan", "fill"} => Len(alloced[t]) < allocs[t]
        /\ pc[t] = "new" => \A s \in Segments : Owner(s) = t => home[s] = MaxSegments

\* The segment in an entry is in its owner's list until the owner has left, and
\* a transaction that has aborted owns none.
OwnerInv ==
    \A i \in Indices : OfTx(controls[i]) =>
        /\ pc[Owner(controls[i])] \notin {"new", "leaveAborted", "aborted"}
        /\ pc[Owner(controls[i])] # "committed" => i \in Range(alloced[Owner(controls[i])])

Filling(t, i) == pc[t] = "fill" /\ index[t] = i
Holds(t, i) == Filling(t, i) \/ i \in Range(alloced[t])

\* An index that has not been given out while it was in use has one holder at
\* most, and only the holder's segment can be there.
SoleInv ==
    \A i \in Indices \ reissued : \A t \in Tx :
        /\ Filling(t, i) => segments[i] = Null /\ i \notin Range(alloced[t])
        /\ Holds(t, i) /\ OfTx(segments[i]) => Owner(segments[i]) = t
        /\ \A u \in Tx : Holds(t, i) /\ Holds(u, i) => t = u

\* Both tables agree on it.
AgreeInv == \A i \in Indices \ reissued : OfTx(controls[i]) => segments[i] = controls[i]

\* What a transaction may free is there until the batch ends.
KnownInv ==
    /\ \A i \in known \ reissued : ~destroyed =>
          OfTx(controls[i]) /\ pc[Owner(controls[i])] = "committed"
    /\ \A t \in Tx : pc[t] \in Working \union {"leaveCommitted"} =>
          /\ freed[t] \subseteq known \union Range(alloced[t])
          /\ \A i \in Range(alloced[t]) \ reissued :
                OfTx(controls[i]) /\ Owner(controls[i]) = t
    /\ \A i \in toFree \ reissued : ~destroyed =>
          /\ OfTx(controls[i]) /\ controls[i] \in dropping
          /\ pc[Owner(controls[i])] \in {"leaveCommitted", "committed"}

SurviveInv ==
    \A s \in Segments :
        /\ pc[Owner(s)] \in Working \union {"leaveCommitted", "committed"}
        /\ home[s] \in Indices \ reissued /\ s \notin dropped /\ ~destroyed
        => controls[home[s]] = s

\* The allocations that n_segments still counts for t, which may abort.
Pending(t) ==
    IF pc[t] = "fill" THEN Len(alloced[t]) + 1
    ELSE IF pc[t] = "abortFree" THEN Len(alloced[t]) - 1
    ELSE Len(alloced[t])
Tokens == {s \in Segments : s[2] <= Pending(s[1])}
\* The entries left by transactions that have committed.
Permanent == {i \in Indices : OfTx(controls[i]) /\ pc[Owner(controls[i])] = "committed"}

\* Somebody was given an index beyond the table, and will never finish.
Stuck == \E t \in Tx : pc[t] = "fill" /\ index[t] \notin Indices

CountInv ==
    Stuck \/ nSegments + searches >= 1 + Cardinality(Permanent) + Cardinality(Tokens)

\* A first copy stands alone only where posix_memalign failed for the second one.
Alone == {i \in Indices : segments[i] = <<"lost">>}
LostInv ==
    /\ \A i \in Indices : controls[i] = Null => segments[i] \in {Null, <<"lost">>}
    /\ Cardinality(Alone) <= failures

FirstInv ==
    \A i \in Indices \ {0} : controls[i] # Null => OfTx(controls[i])

DestroyInv == DestroyLeavesFew /\ (destroyed => Finished)

SegmentInv ==
    /\ TypeOK
    /\ MemberInv
    /\ ListInv
    /\ OwnerInv
    /\ SoleInv
    /\ AgreeInv
    /\ KnownInv
    /\ SurviveInv
    /\ FirstInv
    /\ CountInv
    /\ LostInv
    /\ DestroyInv

-----------------------------------------------------------------------------
(* Lists *)

\* alloc_segments of tm_alloc adds one element.
LEMMA RangeAppend ==
    ASSUME NEW S, NEW s \in Seq(S), NEW e \in S
    PROVE  /\ Append(s, e) \in Seq(S)
           /\ Len(Append(s, e)) = Len(s) + 1
           /\ Range(Append(s, e)) = Range(s) \union {e}
<1>1. Append(s, e) \in Seq(S) /\ Len(Append(s, e)) = Len(s) + 1
  BY AppendProperties
<1>2. /\ Append(s, e)[Len(s) + 1] = e
      /\ \A i \in 1 .. Len(s) : Append(s, e)[i] = s[i]
  OBVIOUS
<1> QED
  BY <1>1, <1>2 DEF Range

\* The loop of tm_end over alloced_segments meets the elements one after the other.
LEMMA RangeTail ==
    ASSUME NEW S, NEW s \in Seq(S), s # <<>>
    PROVE  /\ Head(s) \in S
           /\ Tail(s) \in Seq(S)
           /\ Len(Tail(s)) = Len(s) - 1
           /\ Len(s) \in Nat \ {0}
           /\ Range(s) = Range(Tail(s)) \union {Head(s)}
<1>1. /\ Head(s) \in S /\ Head(s) = s[1]
      /\ Tail(s) \in Seq(S)
      /\ Len(s) \in Nat \ {0}
      /\ Len(Tail(s)) = Len(s) - 1
  OBVIOUS
<1>2. \A i \in 1 .. Len(Tail(s)) : Tail(s)[i] = s[i + 1]
  OBVIOUS
<1>3. Range(Tail(s)) \subseteq Range(s) /\ Head(s) \in Range(s)
  BY <1>1, <1>2 DEF Range
<1>4. ASSUME NEW x \in Range(s), x # Head(s) PROVE x \in Range(Tail(s))
  <2>1. PICK i \in 1 .. Len(s) : x = s[i]
    BY <1>1 DEF Range
  <2>2. i - 1 \in 1 .. Len(Tail(s)) /\ s[i] = Tail(s)[i - 1]
    BY <2>1, <1>1, <1>2, <1>4
  <2>3. DOMAIN Tail(s) = 1 .. Len(Tail(s))
    BY <1>1
  <2> QED
    BY <2>1, <2>2, <2>3 DEF Range
<1> QED
  BY <1>1, <1>3, <1>4

LEMMA RangeFacts ==
    /\ Range(<<>>) = {} /\ <<>> \in Seq(Indices) /\ Len(<<>>) = 0
    /\ \A s \in Seq(Indices) : Range(s) \subseteq Indices /\ Len(s) \in Nat
BY DEF Range

-----------------------------------------------------------------------------
(* The types *)

\* tm_create establishes the types.
LEMMA InitType == Init => TypeOK
<1> SUFFICES ASSUME Init PROVE TypeOK
    OBVIOUS
<1>1. 0 \in Indices /\ 0 \in 0 .. SizeMax - 1 /\ 1 \in 0 .. SizeMax - 1
  BY SegmentAssumption DEF Indices
<1>2. segments \in [Indices -> Entries] /\ controls \in [Indices -> Entries]
  BY <1>1 DEF Init, Entries, Null
<1>3. Gate!GateTypeOK
  BY DEF Init, Gate!GateInit, Gate!GateTypeOK
<1>4. alloced \in [Tx -> Seq(Indices)]
  BY RangeFacts DEF Init
<1>5. index \in [Tx -> 0 .. SizeMax - 1] /\ allocs \in [Tx -> 0 .. MaxAllocs]
  BY <1>1, SegmentAssumption DEF Init
<1>6. home \in [Segments -> Indices \union {MaxSegments}]
  BY DEF Init
<1>7. failures \in 0 .. MaxFailures /\ nSegments \in 0 .. SizeMax - 1
  BY <1>1, SegmentAssumption DEF Init
<1>8. pc \in [Tx -> Labels] /\ freed \in [Tx -> SUBSET Indices]
  BY DEF Init, Labels
<1> QED
  BY <1>2, <1>3, <1>4, <1>5, <1>6, <1>7, <1>8 DEF Init, TypeOK

\* Every step of a transaction keeps them.
LEMMA TypeStep ==
    ASSUME TypeOK, ListInv, NEW t \in Tx, Step(t)
    PROVE  TypeOK'
<1> USE SegmentAssumption DEF TypeOK, Goto
<1>0. Gate!GateTypeOK'
  <2>1. CASE gateVars' = gateVars
    BY <2>1 DEF gateVars, Gate!GateTypeOK
  <2>2. CASE Gate!JoinEmpty(t) \/ Gate!JoinLater(t) \/ Gate!Block(t) \/ Gate!LeaveOthers(t)
               \/ Gate!CloseBatch(t)
    <3>1. Gate!GateTypeOK
      BY DEF TypeOK
    <3> HIDE DEF TypeOK
    <3> QED
      BY <2>2, <3>1 DEF
        Gate!GateTypeOK, Gate!JoinEmpty, Gate!JoinLater, Gate!Block, Gate!LeaveOthers,
        Gate!CloseBatch
  <2> QED
    BY <2>1, <2>2 DEF
      Step, Begin, BeginBlocked, Allocs, AllocCall, Take, Given, ScanPast, ScanFound,
      UseOutside, Fill, NoMemory, Free, Ends, EndCommit, Fail, AbortCount, AbortFree,
      AbortDone, LeaveOthers, LeaveLast, gateVars
<1>1. CASE Begin(t) \/ BeginBlocked(t)
  BY <1>1, <1>0 DEF Begin, BeginBlocked, Labels, tableVars, listVars, histVars
<1>2. CASE AllocCall(t)
  BY <1>2, <1>0 DEF AllocCall, Labels, tableVars, listVars, histVars
<1>3. CASE Take(t)
  BY <1>3, <1>0 DEF Take, Given, Labels, listVars, Indices
<1>4. CASE ScanPast(t)
  BY <1>4, <1>0 DEF ScanPast, Labels, tableVars, listVars, histVars, Indices
<1>5. CASE ScanFound(t)
  <2>1. searches' \in Nat
    BY <1>5 DEF ScanFound
  <2>2. index[t] \in Indices /\ reissued' \in SUBSET Indices
    BY <1>5 DEF ScanFound, Given
  <2> QED
    BY <1>5, <1>0, <2>1, <2>2 DEF ScanFound, Given, Labels, listVars
<1>6. CASE UseOutside(t)
  BY <1>6, <1>0 DEF UseOutside, Labels, tableVars, listVars, histVars
<1>7. CASE Fill(t)
  <2>1. allocs[t] \in 1 .. MaxAllocs
    BY <1>7, RangeFacts DEF Fill, ListInv
  <2>2. <<t, allocs[t]>> \in Segments /\ <<t, allocs[t]>> \in Entries
    BY <2>1 DEF Segments, Entries
  <2>3. alloced' \in [Tx -> Seq(Indices)]
    BY <1>7, RangeAppend DEF Fill
  <2> QED
    BY <1>7, <1>0, <2>2, <2>3 DEF Fill, Labels
<1>8. CASE NoMemory(t)
  <2>1. segments' \in [Indices -> Entries]
    BY <1>8 DEF NoMemory, Entries
  <2>2. failures' \in 0 .. MaxFailures /\ nSegments' \in 0 .. SizeMax - 1
    BY <1>8 DEF NoMemory
  <2> QED
    BY <1>8, <1>0, <2>1, <2>2 DEF NoMemory, Labels, listVars, histVars
<1>9. CASE \E i \in Indices : Free(t, i)
  BY <1>9, <1>0 DEF Free, tableVars, histVars
<1>10. CASE EndCommit(t)
  BY <1>10, <1>0 DEF EndCommit, Labels, tableVars, listVars, OfTx
<1>11. CASE Fail(t) \/ AbortDone(t)
  BY <1>11, <1>0 DEF Fail, AbortDone, Labels, tableVars, listVars, histVars
<1>12. CASE AbortCount(t)
  BY <1>12, <1>0 DEF AbortCount, Labels, listVars, histVars
<1>13. CASE AbortFree(t)
  <2>1. alloced' \in [Tx -> Seq(Indices)]
    BY <1>13, RangeTail DEF AbortFree, ListInv
  <2>2. segments' \in [Indices -> Entries] /\ controls' \in [Indices -> Entries]
    BY <1>13 DEF AbortFree, SegFree, Entries, Null
  <2> QED
    BY <1>13, <1>0, <2>1, <2>2 DEF AbortFree, Labels, listVars, histVars
<1>14. CASE LeaveOthers(t)
  BY <1>14, <1>0, RangeFacts DEF LeaveOthers, Left, Labels
<1>15. CASE LeaveLast(t)
  <2>1. segments' \in [Indices -> Entries] /\ controls' \in [Indices -> Entries]
    BY <1>15 DEF LeaveLast, SegFree, Entries, Null
  <2> QED
    BY <1>15, <1>0, <2>1, RangeFacts DEF LeaveLast, Left, Labels
<1> QED
  BY <1>1, <1>2, <1>3, <1>4, <1>5, <1>6, <1>7, <1>8, <1>9, <1>10, <1>11, <1>12, <1>13, <1>14,
    <1>15 DEF Step, Allocs, Ends

-----------------------------------------------------------------------------
(* One step *)

Frame(t) ==
    /\ \A u \in Tx \ {t} :
          /\ pc'[u] = pc[u] /\ index'[u] = index[u] /\ allocs'[u] = allocs[u]
          /\ alloced'[u] = alloced[u] /\ freed'[u] = freed[u]
    /\ reissued \subseteq reissued' /\ dropped \subseteq dropped'
    /\ ~destroyed /\ destroyed' = destroyed

\* A step of t leaves the local state of the others alone, and the histories grow.
LEMMA FrameStep ==
    ASSUME SegmentInv, NEW t \in Tx, Step(t)
    PROVE  Frame(t)
<1> USE DEF SegmentInv, TypeOK, Goto, Frame
<1>0. ~destroyed
  <2>1. pc[t] \notin {"committed", "aborted"}
    BY DEF Step, Allocs, Ends, Begin, BeginBlocked, AllocCall, Take, Given, ScanPast, ScanFound, UseOutside, Fill,
      NoMemory, Free, EndCommit, Fail, AbortCount, AbortFree, AbortDone, LeaveOthers,
      LeaveLast, Left
  <2> QED
    BY <2>1 DEF DestroyInv, Finished
<1>1. CASE Begin(t) \/ BeginBlocked(t)
  BY <1>0, <1>1 DEF Begin, BeginBlocked, listVars, histVars
<1>2. CASE AllocCall(t) \/ Take(t) \/ ScanPast(t) \/ ScanFound(t) \/ UseOutside(t)
  BY <1>0, <1>2 DEF AllocCall, Take, Given, ScanPast, ScanFound, UseOutside, listVars, histVars
<1>3. CASE Fill(t) \/ NoMemory(t)
  BY <1>0, <1>3 DEF Fill, NoMemory, listVars, histVars
<1>4. CASE (\E i \in Indices : Free(t, i)) \/ EndCommit(t) \/ Fail(t)
  BY <1>0, <1>4 DEF Free, EndCommit, Fail, listVars, histVars
<1>5. CASE AbortCount(t) \/ AbortFree(t) \/ AbortDone(t)
  BY <1>0, <1>5 DEF AbortCount, AbortFree, AbortDone, listVars, histVars
<1>6. CASE LeaveOthers(t) \/ LeaveLast(t)
  BY <1>0, <1>6 DEF LeaveOthers, LeaveLast, Left
<1> QED
  BY <1>1, <1>2, <1>3, <1>4, <1>5, <1>6 DEF Step, Allocs, Ends

\* A transaction is in a batch from enter() to leave().
LEMMA MemberStep ==
    ASSUME SegmentInv, NEW t \in Tx, Step(t)
    PROVE  MemberInv'
<1> USE DEF SegmentInv, TypeOK, MemberInv, Over, Goto
<1>1. CASE Begin(t) \/ BeginBlocked(t)
  BY <1>1 DEF Begin, BeginBlocked, Gate!JoinEmpty, Gate!JoinLater, Gate!Block
<1>2. CASE Allocs(t)
  BY <1>2 DEF
    Allocs, AllocCall, Take, Given, ScanPast, ScanFound, UseOutside, Fill, NoMemory, gateVars
<1>3. CASE (\E i \in Indices : Free(t, i)) \/ EndCommit(t) \/ Fail(t)
  BY <1>3 DEF Free, EndCommit, Fail, gateVars
<1>4. CASE AbortCount(t) \/ AbortFree(t) \/ AbortDone(t)
  BY <1>4 DEF AbortCount, AbortFree, AbortDone, gateVars
<1>5. CASE LeaveOthers(t)
  BY <1>5 DEF LeaveOthers, Left, Gate!LeaveOthers
<1>6. CASE LeaveLast(t)
  BY <1>6 DEF LeaveLast, Left, Gate!CloseBatch
<1> QED
  BY <1>1, <1>2, <1>3, <1>4, <1>5, <1>6 DEF Step, Ends

\* The lists of a transaction are empty outside of a batch, and short.
LEMMA ListStep ==
    ASSUME SegmentInv, NEW t \in Tx, Step(t)
    PROVE  ListInv'
<1> SUFFICES ASSUME NEW u \in Tx
             PROVE  /\ pc'[u] \in Over \union {"new", "leaveAborted"} => alloced'[u] = <<>>
                    /\ pc'[u] \in Over \union {"new"} => freed'[u] = {}
                    /\ pc'[u] = "abortFree" => alloced'[u] # <<>>
                    /\ Len(alloced'[u]) <= allocs'[u]
                    /\ pc'[u] \in {"take", "scan", "fill"} => Len(alloced'[u]) < allocs'[u]
                    /\ pc'[u] = "new" =>
                          \A s \in Segments : Owner(s) = u => home'[s] = MaxSegments
  BY DEF ListInv
<1> USE DEF SegmentInv, TypeOK, ListInv, Over, Goto
<1>0. Frame(t)
  BY FrameStep
<1>1. \A s \in Segments : Owner(s) # t => home'[s] = home[s]
  BY DEF Owner, Step, Allocs, Ends, histVars, Segments,
      Begin, BeginBlocked, AllocCall, Take, Given, ScanPast, ScanFound, UseOutside, Fill,
      NoMemory, Free, EndCommit, Fail, AbortCount, AbortFree, AbortDone, LeaveOthers,
      LeaveLast, Left
<1>a. Len(alloced[u]) \in Nat /\ allocs[u] \in Nat
  BY RangeFacts
<1>2. CASE u # t
  <2>1. /\ pc'[u] = pc[u] /\ allocs'[u] = allocs[u]
        /\ alloced'[u] = alloced[u] /\ freed'[u] = freed[u]
    BY <1>0, <1>2 DEF Frame
  <2>2. \A s \in Segments : Owner(s) = u => home'[s] = home[s]
    BY <1>1, <1>2
  <2> QED
    BY <2>1, <2>2
<1>3. CASE u = t /\ (Begin(t) \/ BeginBlocked(t))
  BY <1>3 DEF Begin, BeginBlocked, listVars, histVars
<1>4. CASE u = t /\ (AllocCall(t) \/ Take(t) \/ ScanPast(t) \/ ScanFound(t) \/ UseOutside(t))
  <2>1. pc'[t] # "new" /\ alloced' = alloced /\ freed' = freed
    BY <1>4 DEF AllocCall, Take, Given, ScanPast, ScanFound, UseOutside, listVars, histVars
  <2>3. pc'[t] \in {"take", "scan", "fill"} /\ Len(alloced[t]) < allocs'[t]
    BY <1>4, <1>a DEF
      AllocCall, Take, Given, ScanPast, ScanFound, UseOutside, listVars, histVars
  <2>4. allocs'[t] \in Nat
    BY TypeStep
  <2> QED
    BY <1>4, <1>a, <2>1, <2>3, <2>4
<1>5. CASE u = t /\ Fill(t)
  <2>1. Len(alloced'[t]) = Len(alloced[t]) + 1
    BY <1>5, RangeAppend DEF Fill
  <2> QED
    BY <1>5, <2>1, RangeFacts DEF Fill
<1>6. CASE u = t /\ NoMemory(t)
  BY <1>6, RangeFacts DEF NoMemory, listVars, histVars
<1>7. CASE u = t /\ ((\E i \in Indices : Free(t, i)) \/ EndCommit(t) \/ Fail(t))
  BY <1>7 DEF Free, EndCommit, Fail, listVars, histVars
<1>8. CASE u = t /\ (AbortCount(t) \/ AbortDone(t))
  BY <1>8 DEF AbortCount, AbortDone, listVars, histVars
<1>9. CASE u = t /\ AbortFree(t)
  <2>1. Len(alloced'[t]) = Len(alloced[t]) - 1
    BY <1>9, RangeTail DEF AbortFree
  <2>2. pc'[t] = "abortCount" /\ allocs' = allocs
    BY <1>9 DEF AbortFree
  <2>3. Len(alloced[t]) <= allocs[t]
    BY <1>9, <1>a DEF AbortFree
  <2> QED
    BY <1>9, <1>a, <2>1, <2>2, <2>3
<1>10. CASE u = t /\ (LeaveOthers(t) \/ LeaveLast(t))
  <2>1. pc'[t] \in Over /\ alloced'[t] = <<>> /\ freed'[t] = {} /\ allocs' = allocs
    BY <1>10 DEF LeaveOthers, LeaveLast, Left
  <2> QED
    BY <1>10, <1>a, <2>1, RangeFacts
<1> QED
  BY <1>2, <1>3, <1>4, <1>5, <1>6, <1>7, <1>8, <1>9, <1>10 DEF Step, Allocs, Ends

LEMMA EntryFacts ==
    /\ ~OfTx(Null) /\ ~OfTx(<<"lost">>) /\ ~OfTx(<<"first">>) /\ Null # <<"lost">>
    /\ \A t \in Tx, k \in 1 .. MaxAllocs : OfTx(<<t, k>>) /\ Owner(<<t, k>>) = t
    /\ \A s \in Segments : Owner(s) \in Tx /\ s = <<Owner(s), s[2]>> /\ s[2] \in 1 .. MaxAllocs
BY DEF OfTx, Segments, Null, Owner

\* fill: tm_alloc stores the new segment of t at i.
Filled(t, i) ==
    /\ Fill(t) /\ index[t] = i
    /\ controls'[i] = <<t, allocs[t]>> /\ segments'[i] = <<t, allocs[t]>>
Lost(t, i) ==
    /\ NoMemory(t) /\ index[t] = i
    /\ controls'[i] = controls[i] /\ segments'[i] = <<"lost">>
Cleared(i) == controls'[i] = Null /\ segments'[i] = Null
Kept(i) == controls'[i] = controls[i] /\ segments'[i] = segments[i]

\* What a step of t does to an entry.
LEMMA EntryStep ==
    ASSUME SegmentInv, NEW t \in Tx, Step(t), NEW i \in Indices
    PROVE  \/ Kept(i)
           \/ Filled(t, i)
           \/ Lost(t, i)
           \/ AbortFree(t) /\ i = Head(alloced[t]) /\ Cleared(i)
           \/ LeaveLast(t) /\ i \in toFree /\ Cleared(i)
<1> USE DEF SegmentInv, TypeOK, Kept, Filled, Lost, Cleared
<1>1. CASE Fill(t)
  BY <1>1 DEF Fill
<1>2. CASE NoMemory(t)
  BY <1>2 DEF NoMemory
<1>3. CASE AbortFree(t)
  BY <1>3 DEF AbortFree, SegFree
<1>4. CASE LeaveLast(t)
  BY <1>4 DEF LeaveLast, SegFree
<1>5. CASE Begin(t) \/ BeginBlocked(t) \/ (\E j \in Indices : Free(t, j)) \/ EndCommit(t)
             \/ Fail(t) \/ AbortCount(t) \/ AbortDone(t) \/ LeaveOthers(t)
  BY <1>5 DEF
    Begin, BeginBlocked, Free, EndCommit, Fail, AbortCount, AbortDone, LeaveOthers, tableVars
<1>6. CASE AllocCall(t) \/ Take(t) \/ ScanPast(t) \/ ScanFound(t) \/ UseOutside(t)
  BY <1>6 DEF AllocCall, Take, Given, ScanPast, ScanFound, UseOutside, tableVars
<1> QED
  BY <1>1, <1>2, <1>3, <1>4, <1>5, <1>6 DEF Step, Allocs, Ends

\* The list of t after a step of t.
LEMMA AllocedStep ==
    ASSUME SegmentInv, NEW t \in Tx, Step(t)
    PROVE  /\ Fill(t) => /\ pc[t] = "fill" /\ pc'[t] = "run" /\ index[t] \in Indices
                         /\ allocs[t] \in 1 .. MaxAllocs
                         /\ Range(alloced'[t]) = Range(alloced[t]) \union {index[t]}
           /\ AbortFree(t) => /\ pc[t] = "abortFree" /\ pc'[t] = "abortCount"
                              /\ Range(alloced[t])
                                    = Range(alloced'[t]) \union {Head(alloced[t])}
           /\ LeaveOthers(t) \/ LeaveLast(t) =>
                 /\ pc[t] \in {"leaveCommitted", "leaveAborted"}
                 /\ pc'[t] = IF pc[t] = "leaveCommitted" THEN "committed" ELSE "aborted"
                 /\ Range(alloced'[t]) = {} /\ freed'[t] = {}
           /\ ~(Fill(t) \/ AbortFree(t) \/ LeaveOthers(t) \/ LeaveLast(t)) =>
                 alloced' = alloced
<1> USE DEF SegmentInv, TypeOK, Goto
<1>1. Fill(t) => /\ pc[t] = "fill" /\ pc'[t] = "run" /\ index[t] \in Indices
                 /\ allocs[t] \in 1 .. MaxAllocs
                 /\ Range(alloced'[t]) = Range(alloced[t]) \union {index[t]}
  BY RangeAppend, RangeFacts DEF Fill, ListInv
<1>2. AbortFree(t) => /\ pc[t] = "abortFree" /\ pc'[t] = "abortCount"
                      /\ Range(alloced[t]) = Range(alloced'[t]) \union {Head(alloced[t])}
  BY RangeTail DEF AbortFree, ListInv
<1>3. LeaveOthers(t) \/ LeaveLast(t) =>
        /\ pc[t] \in {"leaveCommitted", "leaveAborted"}
        /\ pc'[t] = IF pc[t] = "leaveCommitted" THEN "committed" ELSE "aborted"
        /\ Range(alloced'[t]) = {} /\ freed'[t] = {}
  BY RangeFacts DEF LeaveOthers, LeaveLast, Left
<1>4. ~(Fill(t) \/ AbortFree(t) \/ LeaveOthers(t) \/ LeaveLast(t)) => alloced' = alloced
  BY DEF Step, Allocs, Ends, Begin, BeginBlocked, AllocCall, Take, Given, ScanPast, ScanFound,
    UseOutside, NoMemory, Free, EndCommit, Fail, AbortCount, AbortDone, listVars
<1> QED
  BY <1>1, <1>2, <1>3, <1>4

\* The labels between which a step of t moves.
LEMMA LabelStep ==
    ASSUME SegmentInv, NEW t \in Tx, Step(t)
    PROVE  /\ pc[t] \in {"committed", "aborted"} => FALSE
           /\ pc'[t] = "new" => pc[t] = "new"
           /\ pc'[t] \in Working /\ pc[t] # "new" => pc[t] \in Working
           /\ pc'[t] = "leaveAborted" /\ pc[t] # "leaveAborted" => AbortDone(t)
           /\ pc'[t] \in Over => LeaveOthers(t) \/ LeaveLast(t)
           /\ pc'[t] = "leaveCommitted" => EndCommit(t)
           /\ pc[t] = "new" => Begin(t) \/ BeginBlocked(t)
           /\ pc[t] \in Aborting => pc'[t] \in Aborting \union {"leaveAborted"}
<1> USE DEF SegmentInv, TypeOK, Goto, Working, Aborting, Over, Labels
<1>1. CASE Begin(t) \/ BeginBlocked(t) \/ (\E j \in Indices : Free(t, j)) \/ EndCommit(t)
             \/ Fail(t) \/ AbortCount(t) \/ AbortDone(t) \/ AbortFree(t)
  BY <1>1 DEF Begin, BeginBlocked, Free, EndCommit, Fail, AbortCount, AbortDone, AbortFree
<1>2. CASE Allocs(t)
  BY <1>2 DEF Allocs, AllocCall, Take, Given, ScanPast, ScanFound, UseOutside, Fill, NoMemory
<1>3. CASE LeaveOthers(t) \/ LeaveLast(t)
  BY <1>3 DEF LeaveOthers, LeaveLast, Left
<1> QED
  BY <1>1, <1>2, <1>3 DEF Step, Ends

\* A segment whose index t has to undo is in its list until t has undone it.
LEMMA OwnerStep ==
    ASSUME SegmentInv, NEW t \in Tx, Step(t)
    PROVE  OwnerInv'
<1> SUFFICES ASSUME NEW i \in Indices, OfTx(controls'[i])
             PROVE  LET o == Owner(controls'[i])
                    IN  /\ pc'[o] \notin {"new", "leaveAborted", "aborted"}
                        /\ pc'[o] # "committed" => i \in Range(alloced'[o])
  BY DEF OwnerInv, OfTx
<1> DEFINE o == Owner(controls'[i])
<1> USE DEF SegmentInv
<1>0. o \in Tx
  BY EntryFacts DEF OfTx
<1>1. Kept(i) \/ Filled(t, i) \/ Lost(t, i)
  BY EntryStep, EntryFacts DEF Cleared
<1>2. CASE Filled(t, i)
  <2>1. allocs[t] \in 1 .. MaxAllocs /\ pc'[t] = "run" /\ i \in Range(alloced'[t])
    BY <1>2, AllocedStep DEF Filled
  <2>2. o = t
    BY <1>2, <2>1, EntryFacts DEF Filled
  <2> QED
    BY <2>1, <2>2
<1>3. CASE controls'[i] = controls[i]
  <2>1. /\ pc[o] \notin {"new", "leaveAborted", "aborted"}
        /\ pc[o] # "committed" => i \in Range(alloced[o])
    BY <1>3 DEF OwnerInv
  <2>2. CASE o # t
    BY <1>0, <2>1, <2>2, FrameStep DEF Frame
  <2>3. CASE o = t
    <3>1. pc'[t] # "new" /\ pc[t] # "committed"
      BY <2>1, <2>3, LabelStep
    <3>2. pc'[t] # "leaveAborted"
      <4>1. AbortDone(t) => Range(alloced[t]) = {}
        BY RangeFacts DEF AbortDone
      <4> QED
        BY <4>1, <2>1, <2>3, LabelStep
    <3>3. pc'[t] # "aborted"
      BY <2>1, <2>3, LabelStep, AllocedStep DEF Over
    <3>4. pc'[t] # "committed" => i \in Range(alloced'[t])
      <4>1. AbortFree(t) => i # Head(alloced[t])
        BY <1>3, <2>1, <2>3, EntryFacts DEF AbortFree, SegFree, TypeOK
      <4> QED
        BY <4>1, <3>1, <2>1, <2>3, AllocedStep DEF Over
    <3> QED
      BY <2>3, <3>1, <3>2, <3>3, <3>4
  <2> QED
    BY <2>2, <2>3
<1> QED
  BY <1>1, <1>2, <1>3 DEF Kept, Lost

\* An index given to t without being in use is nobody else's.
LEMMA GivenStep ==
    ASSUME SegmentInv, NEW t \in Tx, Step(t), pc'[t] = "fill",
           index'[t] \in Indices \ reissued'
    PROVE  \/ pc[t] = "fill" /\ index'[t] = index[t]
           \/ /\ segments' = segments /\ alloced' = alloced
              /\ ~InUse(index'[t])
<1> USE DEF SegmentInv, TypeOK, Goto
<1>1. CASE Take(t)
  BY <1>1 DEF Take, Given, listVars
<1>2. CASE ScanFound(t)
  BY <1>2 DEF ScanFound, Given, listVars
<1>3. CASE BeginBlocked(t) \/ UseOutside(t) \/ \E i \in Indices : Free(t, i)
  BY <1>3 DEF BeginBlocked, UseOutside, Free
<1>4. CASE Begin(t) \/ AllocCall(t) \/ ScanPast(t) \/ Fill(t) \/ NoMemory(t) \/ Ends(t)
  BY <1>4 DEF
    Begin, AllocCall, ScanPast, Fill, NoMemory, Ends, EndCommit, Fail, AbortCount, AbortFree,
    AbortDone, LeaveOthers, LeaveLast, Left
<1> QED
  BY <1>1, <1>2, <1>3, <1>4 DEF Step, Allocs

\* Who holds an index after a step held it before, or has just been given it.
LEMMA HoldsStep ==
    ASSUME SegmentInv, NEW t \in Tx, Step(t), NEW i \in Indices \ reissued',
           NEW u \in Tx, Holds(u, i)'
    PROVE  \/ Holds(u, i)
           \/ /\ u = t /\ Filling(t, i)' /\ segments' = segments /\ alloced' = alloced
              /\ ~InUse(i)
<1> USE DEF Holds, Filling
<1>1. CASE u # t
  BY <1>1, FrameStep DEF Frame
<1>2. CASE u = t /\ pc'[t] = "fill" /\ index'[t] = i
  BY <1>2, GivenStep
<1>3. CASE u = t /\ i \in Range(alloced'[t])
  BY <1>3, AllocedStep
<1> QED
  BY <1>1, <1>2, <1>3

\* An index given out once has one holder, and holds nobody else's segment.
LEMMA SoleStep ==
    ASSUME SegmentInv, NEW t \in Tx, Step(t)
    PROVE  SoleInv'
<1> SUFFICES ASSUME NEW i \in Indices \ reissued', NEW u \in Tx
             PROVE  /\ Filling(u, i)' => segments'[i] = Null /\ i \notin Range(alloced'[u])
                    /\ Holds(u, i)' /\ OfTx(segments'[i]) => Owner(segments'[i]) = u
                    /\ \A v \in Tx : Holds(u, i)' /\ Holds(v, i)' => u = v
  BY DEF SoleInv, OfTx
<1> USE DEF SegmentInv
<1>0. i \in Indices \ reissued
  BY FrameStep DEF Frame
<1>1. CASE ~InUse(i) /\ Filling(t, i)' /\ segments' = segments /\ alloced' = alloced
  <2>1. segments[i] = Null /\ \A v \in Tx : ~Holds(v, i) /\ i \notin Range(alloced[v])
    BY <1>1 DEF InUse, Holds, Filling
  <2>2. \A v \in Tx : Holds(v, i)' => v = t
    BY <2>1, HoldsStep
  <2> QED
    BY <1>1, <2>1, <2>2, EntryFacts DEF Holds
<1>2. CASE \A v \in Tx : Holds(v, i)' => Holds(v, i)
  <2>1. \A v \in Tx : Holds(u, i)' /\ Holds(v, i)' => u = v
    BY <1>2, <1>0 DEF SoleInv
  <2>2. Filled(t, i) => Owner(segments'[i]) = t /\ Holds(t, i) /\ pc'[t] = "run"
    BY AllocedStep, EntryFacts DEF Filled, Holds, Filling
  <2>3. Lost(t, i) => Holds(t, i) /\ Filling(t, i) /\ pc'[t] = "run"
    BY DEF Lost, NoMemory, Holds, Filling, Goto, TypeOK
  <2>4. Holds(u, i)' /\ OfTx(segments'[i]) => Owner(segments'[i]) = u
    <3>1. CASE segments'[i] = segments[i]
      BY <3>1, <1>0, <1>2 DEF SoleInv
    <3>2. CASE Filled(t, i)
      BY <3>2, <2>2, <1>0, <1>2 DEF SoleInv
    <3>3. CASE Lost(t, i) \/ Cleared(i)
      BY <3>3, EntryFacts DEF Lost, Cleared
    <3> QED
      BY <3>1, <3>2, <3>3, EntryStep DEF Kept
  <2>5. ASSUME Filling(u, i)' PROVE segments'[i] = Null /\ i \notin Range(alloced'[u])
    <3>1. Filling(u, i) \/ (u = t /\ ~InUse(i) /\ segments' = segments /\ alloced' = alloced)
      <4>1. CASE u = t
        BY <4>1, <2>5, GivenStep DEF Filling
      <4>2. CASE u # t
        BY <4>2, <2>5, FrameStep DEF Filling, Frame
      <4> QED
        BY <4>1, <4>2
    <3>2. CASE u = t /\ ~InUse(i) /\ segments' = segments /\ alloced' = alloced
      BY <3>2 DEF InUse
    <3>3. CASE Filling(u, i)
      <4>1. segments[i] = Null /\ i \notin Range(alloced[u]) /\ Holds(u, i)
        BY <3>3, <1>0 DEF SoleInv, Holds
      <4>2. ~Filled(t, i) /\ ~Lost(t, i)
        <5>1. Holds(t, i) => t = u
          BY <1>0, <4>1 DEF SoleInv
        <5> QED
          BY <5>1, <2>2, <2>3, <2>5 DEF Filling
      <4>3. segments'[i] = Null
        BY <4>1, <4>2, EntryStep DEF Kept, Cleared
      <4>4. i \notin Range(alloced'[u])
        <5>1. CASE u # t
          BY <5>1, <4>1, FrameStep DEF Frame
        <5>2. CASE u = t
          BY <5>2, <4>1, <2>5, AllocedStep DEF Filling
        <5> QED
          BY <5>1, <5>2
      <4> QED
        BY <4>3, <4>4
    <3> QED
      BY <3>1, <3>2, <3>3
  <2> QED
    BY <2>1, <2>4, <2>5
<1> QED
  BY <1>1, <1>2, HoldsStep

\* segments and controls agree on an index given out once.
LEMMA AgreeStep ==
    ASSUME SegmentInv, NEW t \in Tx, Step(t)
    PROVE  AgreeInv'
<1> SUFFICES ASSUME NEW i \in Indices \ reissued', OfTx(controls'[i])
             PROVE  segments'[i] = controls'[i]
  BY DEF AgreeInv, OfTx
<1> USE DEF SegmentInv
<1>0. i \in Indices \ reissued
  BY FrameStep DEF Frame
<1>1. ~Lost(t, i)
  <2> SUFFICES ASSUME Lost(t, i) PROVE FALSE
    OBVIOUS
  <2>1. Filling(t, i) /\ controls'[i] = controls[i]
    BY DEF Lost, NoMemory, Filling, Goto
  <2> QED
    BY <2>1, <1>0, EntryFacts DEF SoleInv, AgreeInv
<1> QED
  BY <1>0, <1>1, EntryStep, EntryFacts DEF Kept, Filled, Cleared, AgreeInv

\* tm_create puts only the first segment in the table.
LEMMA FirstStep ==
    ASSUME SegmentInv, NEW t \in Tx, Step(t)
    PROVE  FirstInv'
<1> SUFFICES ASSUME NEW i \in Indices \ {0}, controls'[i] # Null
             PROVE  OfTx(controls'[i])
  BY DEF FirstInv, OfTx
<1> USE DEF SegmentInv
<1>1. Filled(t, i) => OfTx(controls'[i])
  BY AllocedStep, EntryFacts DEF Filled
<1> QED
  BY <1>1, EntryStep DEF Kept, Lost, Cleared, FirstInv

\* The segment of a transaction that does not abort stays where it is until the
\* last member of a batch frees it, if its index is given out once.
LEMMA SteadyEntry ==
    ASSUME SegmentInv, NEW t \in Tx, Step(t), NEW i \in Indices \ reissued',
           OfTx(controls[i]), pc[Owner(controls[i])] \notin Aborting,
           ~(LeaveLast(t) /\ i \in toFree)
    PROVE  Kept(i)
<1> USE DEF SegmentInv
<1>0. i \in Indices \ reissued /\ segments[i] = controls[i] /\ segments[i] # Null
  BY FrameStep, EntryFacts DEF Frame, AgreeInv
<1>1. ~Filling(t, i)
  BY <1>0 DEF SoleInv
<1>2. ~Filled(t, i) /\ ~Lost(t, i)
  BY <1>1 DEF Filled, Fill, Lost, NoMemory, Filling, Goto
<1>3. ~(AbortFree(t) /\ i = Head(alloced[t]))
  <2> SUFFICES ASSUME AbortFree(t), i = Head(alloced[t]) PROVE FALSE
    OBVIOUS
  <2>1. Holds(t, i) /\ pc[t] = "abortFree"
    BY AllocedStep DEF Holds
  <2> QED
    BY <2>1, <1>0 DEF SoleInv, Aborting
<1> QED
  BY <1>2, <1>3, EntryStep

\* known, freed and toFree name segments that are there.
LEMMA KnownStep ==
    ASSUME SegmentInv, NEW t \in Tx, Step(t)
    PROVE  KnownInv'
<1> USE DEF SegmentInv
<1>0. ~destroyed /\ reissued \subseteq reissued' /\ dropped \subseteq dropped'
  BY FrameStep DEF Frame
<1>a. TypeOK'
  BY TypeStep
<1>1. ASSUME NEW i \in known' \ reissued'
      PROVE  OfTx(controls'[i]) /\ pc'[Owner(controls'[i])] = "committed"
  <2>1. CASE LeaveLast(t)
    BY <2>1 DEF LeaveLast, OfTx
  <2>2. CASE ~LeaveLast(t)
    <3>1. known' = known /\ i \in Indices
      BY <2>2, <1>a DEF Step, Allocs, Ends, histVars, TypeOK,
      Begin, BeginBlocked, AllocCall, Take, Given, ScanPast, ScanFound, UseOutside, Fill,
      NoMemory, Free, EndCommit, Fail, AbortCount, AbortFree, AbortDone, LeaveOthers, Left
    <3>2. OfTx(controls[i]) /\ pc[Owner(controls[i])] = "committed"
      BY <3>1, <1>0 DEF KnownInv
    <3>3. Kept(i)
      BY <2>2, <3>1, <3>2, SteadyEntry DEF Aborting
    <3>4. Owner(controls[i]) \in Tx \ {t}
      BY <3>2, LabelStep, EntryFacts DEF OfTx
    <3> QED
      BY <3>2, <3>3, <3>4, FrameStep DEF Kept, Frame, OfTx
  <2> QED
    BY <2>1, <2>2
<1>2. ASSUME NEW u \in Tx, pc'[u] \in Working \union {"leaveCommitted"}
      PROVE  /\ freed'[u] \subseteq known' \union Range(alloced'[u])
             /\ \A i \in Range(alloced'[u]) \ reissued' :
                   OfTx(controls'[i]) /\ Owner(controls'[i]) = u
  <2>1. ~LeaveLast(t)
    <3> SUFFICES ASSUME LeaveLast(t) PROVE FALSE
      OBVIOUS
    <3>1. u # t
      BY <1>2, AllocedStep DEF Working
    <3>2. u \notin members
      BY <3>1 DEF LeaveLast, Gate!CloseBatch
    <3> QED
      BY <1>2, <3>1, <3>2, FrameStep DEF Frame, MemberInv, Working, Over
  <2>2. known' = known
    BY <2>1 DEF Step, Allocs, Ends, histVars,
      Begin, BeginBlocked, AllocCall, Take, Given, ScanPast, ScanFound, UseOutside, Fill,
      NoMemory, Free, EndCommit, Fail, AbortCount, AbortFree, AbortDone, LeaveOthers, Left
  <2>3. CASE /\ pc[u] \in Working \union {"leaveCommitted"}
             /\ Range(alloced[u]) \subseteq Range(alloced'[u])
    <3>1. freed'[u] \subseteq freed[u] \union known \union Range(alloced[u])
      <4>1. CASE u # t
        BY <4>1, FrameStep DEF Frame
      <4>2. CASE u = t
        BY <4>2, <2>1 DEF Step, Allocs, Ends, listVars, TypeOK,
      Begin, BeginBlocked, AllocCall, Take, Given, ScanPast, ScanFound, UseOutside, Fill,
      NoMemory, Free, EndCommit, Fail, AbortCount, AbortFree, AbortDone, LeaveOthers, Left
      <4> QED
        BY <4>1, <4>2
    <3>2. freed[u] \subseteq known \union Range(alloced[u])
      BY <2>3 DEF KnownInv
    <3>3. ASSUME NEW i \in Range(alloced'[u]) \ reissued'
          PROVE  OfTx(controls'[i]) /\ Owner(controls'[i]) = u
      <4>0. i \in Indices
        BY <1>a, RangeFacts DEF TypeOK
      <4>1. CASE i \in Range(alloced[u])
        <5>1. OfTx(controls[i]) /\ Owner(controls[i]) = u
          BY <4>1, <2>3, <1>0 DEF KnownInv
        <5>2. Kept(i)
          BY <4>0, <5>1, <2>1, <2>3, SteadyEntry DEF Aborting, Working
        <5> QED
          BY <5>1, <5>2 DEF Kept, OfTx
      <4>2. CASE i \notin Range(alloced[u])
        <5>1. u = t /\ Fill(t) /\ i = index[t] /\ allocs[t] \in 1 .. MaxAllocs
          <6>1. u = t
            BY <4>2, FrameStep DEF Frame
          <6> QED
            BY <6>1, <4>2, AllocedStep
        <5>2. controls'[i] = <<t, allocs[t]>>
          BY <5>1, <4>0 DEF Fill, TypeOK
        <5> QED
          BY <5>1, <5>2, EntryFacts DEF OfTx
      <4> QED
        BY <4>1, <4>2
    <3> QED
      BY <2>2, <2>3, <3>1, <3>2, <3>3
  <2>4. CASE u = t /\ pc[t] = "new"
    <3>1. alloced'[t] = <<>> /\ freed'[t] = {}
      BY <2>4, LabelStep DEF Begin, BeginBlocked, listVars, ListInv
    <3> QED
      BY <2>4, <3>1, RangeFacts
  <2>5. CASE u = t /\ pc[t] # "new"
    <3>1. pc[t] \in Working \union {"leaveCommitted"}
      BY <1>2, <2>5, LabelStep DEF EndCommit, Goto, Working
    <3>2. Range(alloced[t]) \subseteq Range(alloced'[t])
      BY <1>2, <2>5, AllocedStep DEF Working
    <3> QED
      BY <2>3, <2>5, <3>1, <3>2
  <2>6. CASE u # t
    BY <1>2, <2>3, <2>6, FrameStep DEF Frame
  <2> QED
    BY <2>4, <2>5, <2>6
<1>3. ASSUME NEW i \in toFree' \ reissued'
      PROVE  /\ OfTx(controls'[i]) /\ controls'[i] \in dropping'
             /\ pc'[Owner(controls'[i])] \in {"leaveCommitted", "committed"}
  <2>1. ~LeaveLast(t)
    BY DEF LeaveLast
  <2>2. i \in Indices \ reissued
    BY <1>a, <1>0 DEF TypeOK
  <2>3. CASE i \in toFree
    <3>1. /\ OfTx(controls[i]) /\ controls[i] \in dropping
          /\ pc[Owner(controls[i])] \in {"leaveCommitted", "committed"}
      BY <2>3, <2>2, <1>0 DEF KnownInv
    <3>2. Kept(i)
      BY <2>1, <2>2, <3>1, SteadyEntry DEF Aborting
    <3>3. pc[t] = "leaveCommitted" => pc'[t] \in {"leaveCommitted", "committed"}
      BY <2>1 DEF Step, Allocs, Ends, Goto, TypeOK,
      Begin, BeginBlocked, AllocCall, Take, Given, ScanPast, ScanFound, UseOutside, Fill,
      NoMemory, Free, EndCommit, Fail, AbortCount, AbortFree, AbortDone, LeaveOthers, Left
    <3>4. pc'[Owner(controls[i])] \in {"leaveCommitted", "committed"}
      <4>1. CASE Owner(controls[i]) = t
        BY <4>1, <3>1, <3>3, LabelStep
      <4>2. CASE Owner(controls[i]) # t
        BY <4>2, <3>1, FrameStep, EntryFacts DEF Frame, OfTx
      <4> QED
        BY <4>1, <4>2
    <3>5. dropping \subseteq dropping'
      BY <2>1 DEF Step, Allocs, Ends, histVars,
      Begin, BeginBlocked, AllocCall, Take, Given, ScanPast, ScanFound, UseOutside, Fill,
      NoMemory, Free, EndCommit, Fail, AbortCount, AbortFree, AbortDone, LeaveOthers, Left
    <3> QED
      BY <1>0, <3>1, <3>2, <3>4, <3>5 DEF Kept, OfTx
  <2>4. CASE i \notin toFree
    <3>1. EndCommit(t) /\ i \in freed[t]
      BY <2>1, <2>4 DEF Step, Allocs, Ends, TypeOK,
      Begin, BeginBlocked, AllocCall, Take, Given, ScanPast, ScanFound, UseOutside, Fill,
      NoMemory, Free, EndCommit, Fail, AbortCount, AbortFree, AbortDone, LeaveOthers, Left
    <3>2. pc[t] = "run" /\ pc'[t] = "leaveCommitted" /\ controls' = controls
      BY <3>1 DEF EndCommit, Goto, TypeOK, tableVars
    <3>3. i \in known \/ i \in Range(alloced[t])
      BY <3>1, <3>2 DEF KnownInv, Working
    <3>4. /\ OfTx(controls[i])
          /\ Owner(controls[i]) = t \/ pc[Owner(controls[i])] = "committed"
      BY <3>2, <3>3, <2>2, <1>0 DEF KnownInv, Working
    <3>5. controls[i] \in dropping'
      BY <3>1, <3>4 DEF EndCommit
    <3>6. pc'[Owner(controls[i])] \in {"leaveCommitted", "committed"}
      BY <3>2, <3>4, FrameStep, EntryFacts DEF Frame, OfTx
    <3> QED
      BY <3>2, <3>4, <3>5, <3>6 DEF OfTx
  <2> QED
    BY <2>3, <2>4
<1> QED
  BY <1>1, <1>2, <1>3 DEF KnownInv, OfTx

\* Whoever does not abort keeps its segments, until the batch of a committed
\* transaction that frees them ends.
LEMMA SurviveStep ==
    ASSUME SegmentInv, NEW t \in Tx, Step(t)
    PROVE  SurviveInv'
<1> DEFINE Stays == Working \union {"leaveCommitted", "committed"}
<1> SUFFICES ASSUME NEW s \in Segments, pc'[Owner(s)] \in Stays,
                    home'[s] \in Indices \ reissued', s \notin dropped'
             PROVE  controls'[home'[s]] = s
  BY DEF SurviveInv
<1> USE DEF SegmentInv
<1>0. ~destroyed /\ home'[s] \notin reissued /\ s \notin dropped /\ Owner(s) \in Tx
  BY FrameStep, EntryFacts DEF Frame
<1>1. CASE Fill(t) /\ s = <<t, allocs[t]>>
  BY <1>1 DEF Fill, TypeOK
<1>2. CASE ~(Fill(t) /\ s = <<t, allocs[t]>>)
  <2>1. home'[s] = home[s]
    BY <1>2 DEF Step, Allocs, Ends, histVars, TypeOK,
      Begin, BeginBlocked, AllocCall, Take, Given, ScanPast, ScanFound, UseOutside, Fill,
      NoMemory, Free, EndCommit, Fail, AbortCount, AbortFree, AbortDone, LeaveOthers,
      LeaveLast, Left
  <2>2. pc[Owner(s)] \in Stays
    <3>1. CASE Owner(s) = t
      <4>1. pc[t] # "new"
        <5>1. pc[t] = "new" => home[s] = MaxSegments
          BY <3>1 DEF ListInv
        <5>2. MaxSegments \notin Indices
          BY SegmentAssumption DEF Indices
        <5> QED
          BY <5>1, <5>2, <2>1
      <4>2. pc'[t] = "committed" => pc[t] = "leaveCommitted"
        BY LabelStep, AllocedStep DEF Over
      <4>3. pc'[t] = "leaveCommitted" => pc[t] = "run"
        BY LabelStep DEF EndCommit, Goto
      <4> QED
        BY <3>1, <4>1, <4>2, <4>3, LabelStep DEF Working
    <3>2. CASE Owner(s) # t
      BY <3>2, <1>0, FrameStep DEF Frame
    <3> QED
      BY <3>1, <3>2
  <2>3. controls[home[s]] = s
    BY <1>0, <2>1, <2>2 DEF SurviveInv
  <2>4. ~(LeaveLast(t) /\ home[s] \in toFree)
    BY <1>0, <2>1, <2>3 DEF KnownInv, LeaveLast
  <2>5. Kept(home[s])
    BY <2>1, <2>2, <2>3, <2>4, SteadyEntry DEF OfTx, Aborting, Working
  <2> QED
    BY <2>1, <2>3, <2>5 DEF Kept
<1> QED
  BY <1>1, <1>2

-----------------------------------------------------------------------------
(* n_segments against the segments there are *)

LEMMA FiniteFacts ==
    /\ IsFiniteSet(Segments) /\ IsFiniteSet(Indices)
    /\ IsFiniteSet(Permanent) /\ Cardinality(Permanent) \in Nat
    /\ IsFiniteSet(Tokens) /\ Cardinality(Tokens) \in Nat
<1>1. IsFiniteSet(Segments) /\ IsFiniteSet(Indices)
  <2>1. IsFiniteSet(1 .. MaxAllocs) /\ IsFiniteSet(0 .. MaxSegments - 1)
    BY FS_Interval, SegmentAssumption
  <2> QED
    BY <2>1, FS_Product, SegmentAssumption DEF Segments, Indices
<1>2. IsFiniteSet(Permanent) /\ IsFiniteSet(Tokens)
  BY <1>1, FS_Subset DEF Permanent, Tokens
<1> QED
  BY <1>1, <1>2, FS_CardinalityType

LEMMA UpTo ==
    ASSUME NEW n \in Nat
    PROVE  IsFiniteSet(1 .. n) /\ Cardinality(1 .. n) = n
<1>1. IsFiniteSet(1 .. n) /\ Cardinality(1 .. n) = IF 1 > n THEN 0 ELSE n - 1 + 1
  BY FS_Interval
<1> QED
  BY <1>1

\* No list is longer than the number of calls allows.
LEMMA ShortLists ==
    ASSUME TypeOK, ListInv, NEW t \in Tx
    PROVE  /\ Len(alloced[t]) \in 0 .. MaxAllocs
           /\ pc[t] \in {"take", "scan", "fill"} => Len(alloced[t]) \in 0 .. MaxAllocs - 1
<1>1. Len(alloced[t]) \in Nat /\ allocs[t] \in 0 .. MaxAllocs
  BY RangeFacts DEF TypeOK
<1>2. /\ Len(alloced[t]) <= allocs[t]
      /\ pc[t] \in {"take", "scan", "fill"} => Len(alloced[t]) < allocs[t]
  BY DEF ListInv
<1> QED
  BY <1>1, <1>2, SegmentAssumption

\* Who takes an index beyond the table never gets any further.
LEMMA StuckStep ==
    ASSUME SegmentInv, NEW t \in Tx, Step(t), Stuck
    PROVE  Stuck'
<1>1. PICK u \in Tx : pc[u] = "fill" /\ index[u] \notin Indices
  BY DEF Stuck
<1>2. pc'[u] = "fill" /\ index'[u] = index[u]
  <2>1. CASE u = t
    BY <1>1, <2>1 DEF SegmentInv, TypeOK, Step, Allocs, Ends, Goto,
      Begin, BeginBlocked, AllocCall, Take, Given, ScanPast, ScanFound, UseOutside, Fill,
      NoMemory, Free, EndCommit, Fail, AbortCount, AbortFree, AbortDone, LeaveOthers,
      LeaveLast, Left
  <2>2. CASE u # t
    BY <1>1, <2>2, FrameStep DEF Frame
  <2> QED
    BY <2>1, <2>2
<1> QED
  BY <1>1, <1>2 DEF Stuck

\* An index in the list of t for each segment of t in the table, so that there
\* are no more of them than allocations that n_segments counts.
LEMMA OwnedByOne ==
    ASSUME SegmentInv, NEW t \in Tx, pc[t] \in {"leaveCommitted", "leaveAborted"}
    PROVE  LET Owned == {i \in Indices : OfTx(controls[i]) /\ Owner(controls[i]) = t}
           IN  /\ IsFiniteSet(Owned) /\ Cardinality(Owned) <= Len(alloced[t])
               /\ pc[t] = "leaveAborted" => Owned = {}
<1> DEFINE Owned == {i \in Indices : OfTx(controls[i]) /\ Owner(controls[i]) = t}
<1> USE DEF SegmentInv, TypeOK
<1>1. Owned \subseteq Range(alloced[t])
  BY DEF OwnerInv
<1>2. alloced[t] \in Seq(Indices) /\ Len(alloced[t]) \in Nat
  BY RangeFacts
<1>3. alloced[t] \in Surjection(1 .. Len(alloced[t]), Range(alloced[t]))
  <2>1. alloced[t] \in [1 .. Len(alloced[t]) -> Range(alloced[t])]
    BY <1>2 DEF Range
  <2>2. \A i \in Range(alloced[t]) : \E n \in 1 .. Len(alloced[t]) : alloced[t][n] = i
    BY <1>2 DEF Range
  <2> QED
    BY <2>1, <2>2 DEF Surjection
<1>4. /\ IsFiniteSet(1 .. Len(alloced[t]))
      /\ Cardinality(1 .. Len(alloced[t])) = Len(alloced[t])
  BY <1>2, UpTo
<1>5. IsFiniteSet(Range(alloced[t])) /\ Cardinality(Range(alloced[t])) <= Len(alloced[t])
  BY <1>3, <1>4, FS_Surjection
<1>6. IsFiniteSet(Owned) /\ Cardinality(Owned) <= Cardinality(Range(alloced[t]))
  BY <1>1, <1>5, FS_Subset
<1>7. Cardinality(Owned) \in Nat /\ Cardinality(Range(alloced[t])) \in Nat
  BY <1>5, <1>6, FS_CardinalityType
<1>8. pc[t] = "leaveAborted" => Owned = {}
  BY DEF OwnerInv
<1> QED
  BY <1>2, <1>5, <1>6, <1>7, <1>8

\* Changing the tokens of t alone by one changes their number by one.
LEMMA TokensUp ==
    ASSUME NEW t \in Tx, NEW S, NEW T, NEW n \in 0 .. MaxAllocs - 1,
           S \subseteq Segments, T \subseteq Segments,
           \A s \in Segments : s[1] # t => (s \in S <=> s \in T),
           \A s \in Segments : s[1] = t => (s \in S <=> s[2] <= n),
           \A s \in Segments : s[1] = t => (s \in T <=> s[2] <= n + 1)
    PROVE  Cardinality(T) = Cardinality(S) + 1
<1>1. <<t, n + 1>> \in Segments /\ <<t, n + 1>> \notin S
  BY SegmentAssumption DEF Segments
<1>2. ASSUME NEW s \in Segments PROVE s \in T <=> s \in S \union {<<t, n + 1>>}
  <2>1. s = <<s[1], s[2]>> /\ s[2] \in 1 .. MaxAllocs
    BY DEF Segments
  <2>2. CASE s[1] = t
    BY <2>1, <2>2, SegmentAssumption
  <2>3. CASE s[1] # t
    BY <2>1, <2>3
  <2> QED
    BY <2>2, <2>3
<1>3. T = S \union {<<t, n + 1>>}
  BY <1>1, <1>2
<1>4. IsFiniteSet(S)
  BY FiniteFacts, FS_Subset
<1> QED
  BY <1>1, <1>3, <1>4, FS_AddElement

\* n_segments counts what is in the table, and what may still be put there.
LEMMA CountStep ==
    ASSUME SegmentInv, NEW t \in Tx, Step(t)
    PROVE  CountInv'
<1> SUFFICES ASSUME ~Stuck'
             PROVE  nSegments' + searches' >= 1 + Cardinality(Permanent') + Cardinality(Tokens')
  BY DEF CountInv, Permanent, Tokens, Pending, OfTx
<1> USE DEF SegmentInv
<1>0. nSegments + searches >= 1 + Cardinality(Permanent) + Cardinality(Tokens)
  BY StuckStep DEF CountInv
<1> USE SegmentAssumption
<1>a. /\ nSegments \in 0 .. SizeMax - 1 /\ SizeMax \in Nat /\ searches \in Nat
      /\ Cardinality(Permanent) \in Nat /\ Cardinality(Tokens) \in Nat
      /\ IsFiniteSet(Permanent)
  BY FiniteFacts DEF TypeOK
<1>b. /\ \A u \in Tx : Len(alloced[u]) \in Nat /\ allocs[u] \in 0 .. MaxAllocs
      /\ \A s \in Segments : s[1] \in Tx /\ s[2] \in 1 .. MaxAllocs
  BY RangeFacts DEF TypeOK, Segments
<1>c. \A u \in Tx \ {t} : Pending(u)' = Pending(u)
  BY FrameStep DEF Frame, Pending
<1>d. Tokens' = {s \in Segments : s[2] <= Pending(s[1])'}
  BY DEF Tokens, Pending
\* Whoever commits leaves its tokens, for as many entries at the most.
<1>1. CASE LeaveOthers(t) \/ LeaveLast(t)
  <2> DEFINE Mine == {s \in Tokens : s[1] = t}
             Owned == {i \in Indices : OfTx(controls[i]) /\ Owner(controls[i]) = t}
  <2>1. Pending(t)' = 0 /\ Pending(t) = Len(alloced[t])
    <3>1. /\ pc[t] \in {"leaveCommitted", "leaveAborted"} /\ pc'[t] \in {"committed", "aborted"}
          /\ alloced'[t] = <<>>
      BY <1>1 DEF LeaveOthers, LeaveLast, Left, TypeOK
    <3> QED
      BY <3>1, <1>b, RangeFacts DEF Pending
  <2>2. Tokens' = Tokens \ Mine
    BY <2>1, <1>b, <1>c, <1>d DEF Tokens
  <2>3. IsFiniteSet(Mine) /\ Cardinality(Tokens') = Cardinality(Tokens) - Cardinality(Mine)
    <3>1. Mine \subseteq Tokens /\ Tokens \cap Mine = Mine
      OBVIOUS
    <3> QED
      BY <3>1, <2>2, FiniteFacts, FS_Difference, FS_Subset
  <2>4. Cardinality(Mine) = Len(alloced[t])
    <3>1. Len(alloced[t]) <= MaxAllocs
      BY <1>b, ShortLists
    <3>2. Mine = {t} \X (1 .. Len(alloced[t]))
      BY <3>1, <2>1, <1>b DEF Tokens, Segments
    <3>3. Cardinality({t}) = 1 /\ IsFiniteSet({t})
      BY FS_Singleton
    <3>4. /\ IsFiniteSet(1 .. Len(alloced[t]))
          /\ Cardinality(1 .. Len(alloced[t])) = Len(alloced[t])
      BY <1>b, UpTo
    <3>5. Cardinality({t} \X (1 .. Len(alloced[t]))) = 1 * Len(alloced[t])
      <4>1. \A S, T : IsFiniteSet(S) /\ IsFiniteSet(T) =>
                Cardinality(S \X T) = Cardinality(S) * Cardinality(T)
        BY FS_Product
      <4> QED
        BY <4>1, <3>3, <3>4
    <3>6. 1 * Len(alloced[t]) = Len(alloced[t])
      BY <1>b
    <3> HIDE DEF Mine
    <3> QED
      BY <3>2, <3>5, <3>6
  <2>5. Permanent' \subseteq Permanent \union Owned
    <3> SUFFICES ASSUME NEW i \in Permanent' PROVE i \in Permanent \union Owned
      OBVIOUS
    <3>1. i \in Indices /\ OfTx(controls'[i]) /\ pc'[Owner(controls'[i])] = "committed"
      BY DEF Permanent, OfTx
    <3>2. controls'[i] = controls[i]
      <4>1. ~Filled(t, i) /\ ~Cleared(i)
        BY <1>1, <3>1, AllocedStep, EntryFacts DEF Filled, Cleared
      <4> QED
        BY <3>1, <4>1, EntryStep DEF Kept, Lost
    <3>3. Owner(controls[i]) \in Tx
      BY <3>1, <3>2, EntryFacts DEF OfTx
    <3> QED
      BY <3>1, <3>2, <3>3, FrameStep DEF Frame, Permanent, OfTx
  <2>6. pc[t] \in {"leaveCommitted", "leaveAborted"}
    BY <1>1, AllocedStep
  <2>7. IsFiniteSet(Owned) /\ Cardinality(Owned) <= Len(alloced[t])
    BY <2>6, OwnedByOne
  <2>8. Cardinality(Permanent') <= Cardinality(Permanent) + Cardinality(Owned)
    <3>1. /\ IsFiniteSet(Permanent \union Owned)
          /\ Cardinality(Permanent \union Owned)
               = Cardinality(Permanent) + Cardinality(Owned) - Cardinality(Permanent \cap Owned)
      BY <1>a, <2>7, FS_Union
    <3>2. Cardinality(Permanent \cap Owned) \in Nat /\ Cardinality(Owned) \in Nat
      BY <1>a, <2>7, FS_Intersection, FS_CardinalityType
    <3>3. /\ IsFiniteSet(Permanent') /\ Cardinality(Permanent') \in Nat
          /\ Cardinality(Permanent') <= Cardinality(Permanent \union Owned)
      BY <3>1, <2>5, FS_Subset, FS_CardinalityType
    <3> QED
      BY <1>a, <3>1, <3>2, <3>3
  <2>9. nSegments' = nSegments /\ searches' = searches
    BY <1>1 DEF LeaveOthers, LeaveLast, Left
  <2>10. Cardinality(Permanent') \in Nat /\ Cardinality(Owned) \in Nat
    BY <2>5, <2>7, <1>a, FS_Union, FS_Subset, FS_CardinalityType
  <2> QED
    BY <1>0, <1>a, <1>b, <2>3, <2>4, <2>7, <2>8, <2>9, <2>10
\* Every other step of a transaction leaves no more permanent entries than there were.
<1>2. ASSUME ~(LeaveOthers(t) \/ LeaveLast(t))
      PROVE  Cardinality(Permanent') <= Cardinality(Permanent) /\ Cardinality(Permanent') \in Nat
  <2>1. Permanent' \subseteq Permanent
    <3> SUFFICES ASSUME NEW i \in Permanent' PROVE i \in Permanent
      OBVIOUS
    <3>1. i \in Indices /\ OfTx(controls'[i]) /\ pc'[Owner(controls'[i])] = "committed"
      BY DEF Permanent, OfTx
    <3>2. pc'[t] # "committed"
      BY <1>2, LabelStep DEF Over
    <3>3. controls'[i] = controls[i]
      <4>1. ~Filled(t, i) /\ ~Cleared(i)
        BY <3>1, <3>2, AllocedStep, EntryFacts DEF Filled, Cleared
      <4> QED
        BY <3>1, <4>1, EntryStep DEF Kept, Lost
    <3>4. Owner(controls[i]) \in Tx \ {t}
      BY <3>1, <3>2, <3>3, EntryFacts DEF OfTx
    <3> QED
      BY <3>1, <3>3, <3>4, FrameStep DEF Frame, Permanent, OfTx
  <2> QED
    BY <2>1, <1>a, FS_Subset, FS_CardinalityType
\* A step that does not change the number of tokens of t.
<1>3. CASE /\ ~(LeaveOthers(t) \/ LeaveLast(t))
           /\ Pending(t)' = Pending(t) /\ nSegments' = nSegments /\ searches' = searches
  <2>1. Tokens' = Tokens
    BY <1>3, <1>b, <1>c, <1>d DEF Tokens
  <2> QED
    BY <1>0, <1>a, <1>2, <1>3, <2>1
\* Taking an index.
<1>4. CASE Take(t)
  <2>1. /\ pc[t] = "take" /\ pc'[t] = "fill" /\ alloced' = alloced
        /\ nSegments' = (nSegments + 1) % SizeMax /\ index'[t] = nSegments
        /\ searches' = searches
    BY <1>4 DEF Take, Given, Goto, TypeOK, listVars
  <2>2. Pending(t)' = Len(alloced[t]) + 1 /\ Pending(t) = Len(alloced[t])
    BY <2>1, <1>b DEF Pending
  <2>3. nSegments' = nSegments + 1
    <3>1. nSegments \in Indices
      BY <2>1 DEF Stuck
    <3> QED
      BY <3>1, <2>1, <1>a DEF Indices
  <2>4. Len(alloced[t]) \in 0 .. MaxAllocs - 1
    BY <2>1, ShortLists
  <2>5. Cardinality(Tokens') = Cardinality(Tokens) + 1
    <3>1. \A s \in Segments : s[1] # t => (s \in Tokens <=> s \in Tokens')
      BY <1>b, <1>c, <1>d DEF Tokens
    <3>2. \A s \in Segments : s[1] = t => (s \in Tokens <=> s[2] <= Len(alloced[t]))
      BY <2>2 DEF Tokens
    <3>3. \A s \in Segments : s[1] = t => (s \in Tokens' <=> s[2] <= Len(alloced[t]) + 1)
      BY <2>2, <1>d
    <3>4. Tokens \subseteq Segments /\ Tokens' \subseteq Segments
      BY <1>d DEF Tokens
    <3> QED
      BY <2>4, <3>1, <3>2, <3>3, <3>4, TokensUp
  <2>6. ~(LeaveOthers(t) \/ LeaveLast(t))
    BY <2>1, AllocedStep
  <2> QED
    BY <1>0, <1>a, <1>2, <2>1, <2>3, <2>5, <2>6
\* Finding one: a token that n_segments does not count.
<1>7. CASE ScanFound(t)
  <2>1. /\ pc[t] = "scan" /\ pc'[t] = "fill" /\ alloced' = alloced
        /\ nSegments' = nSegments /\ searches' = searches + 1
    BY <1>7 DEF ScanFound, Given, Goto, TypeOK, listVars
  <2>2. Pending(t)' = Len(alloced[t]) + 1 /\ Pending(t) = Len(alloced[t])
    BY <2>1, <1>b DEF Pending
  <2>3. Len(alloced[t]) \in 0 .. MaxAllocs - 1
    BY <2>1, ShortLists
  <2>4. Cardinality(Tokens') = Cardinality(Tokens) + 1
    <3>1. \A s \in Segments : s[1] # t => (s \in Tokens <=> s \in Tokens')
      BY <1>b, <1>c, <1>d DEF Tokens
    <3>2. \A s \in Segments : s[1] = t => (s \in Tokens <=> s[2] <= Len(alloced[t]))
      BY <2>2 DEF Tokens
    <3>3. \A s \in Segments : s[1] = t => (s \in Tokens' <=> s[2] <= Len(alloced[t]) + 1)
      BY <2>2, <1>d
    <3>4. Tokens \subseteq Segments /\ Tokens' \subseteq Segments
      BY <1>d DEF Tokens
    <3> QED
      BY <2>3, <3>1, <3>2, <3>3, <3>4, TokensUp
  <2>5. ~(LeaveOthers(t) \/ LeaveLast(t))
    BY <2>1, AllocedStep
  <2> QED
    BY <1>0, <1>a, <1>2, <2>1, <2>4, <2>5
\* Giving one back: one token less.
<1>5. CASE NoMemory(t) \/ AbortCount(t)
  <2>1. /\ alloced' = alloced /\ nSegments' = (nSegments - 1) % SizeMax
        /\ \/ pc[t] = "fill" /\ pc'[t] = "run"
           \/ pc[t] = "abortCount" /\ pc'[t] = "abortFree" /\ alloced[t] # <<>>
    BY <1>5 DEF NoMemory, AbortCount, Goto, TypeOK, listVars
  <2> DEFINE n == Pending(t)'
  <2>2. n \in 0 .. MaxAllocs - 1 /\ Pending(t) = n + 1
    <3>1. CASE pc[t] = "fill"
      <4>1. Len(alloced[t]) \in 0 .. MaxAllocs - 1
        BY <3>1, ShortLists
      <4>2. Pending(t)' = Len(alloced[t]) /\ Pending(t) = Len(alloced[t]) + 1
        BY <2>1, <3>1, <1>b DEF Pending
      <4> QED
        BY <4>1, <4>2, <1>b
    <3>2. CASE pc[t] = "abortCount"
      <4>1. Len(alloced[t]) \in 1 .. MaxAllocs
        BY <2>1, <3>2, ShortLists, RangeTail DEF TypeOK
      <4>2. Pending(t)' = Len(alloced[t]) - 1 /\ Pending(t) = Len(alloced[t])
        BY <2>1, <3>2, <1>b DEF Pending
      <4> QED
        BY <4>1, <4>2, <1>b
    <3> QED
      BY <2>1, <3>1, <3>2
  <2>3. Cardinality(Tokens) = Cardinality(Tokens') + 1
    <3>1. \A s \in Segments : s[1] # t => (s \in Tokens' <=> s \in Tokens)
      BY <1>b, <1>c, <1>d DEF Tokens
    <3>2. \A s \in Segments : s[1] = t => (s \in Tokens' <=> s[2] <= n)
      BY <1>d
    <3>3. \A s \in Segments : s[1] = t => (s \in Tokens <=> s[2] <= n + 1)
      BY <2>2 DEF Tokens
    <3>4. Tokens \subseteq Segments /\ Tokens' \subseteq Segments
      BY <1>d DEF Tokens
    <3> HIDE DEF n
    <3> QED
      BY <2>2, <3>1, <3>2, <3>3, <3>4, TokensUp
  <2>4. Cardinality(Tokens') \in Nat
    BY <1>d, FiniteFacts, FS_Subset, FS_CardinalityType
  <2>5. nSegments' \in Nat /\ nSegments' >= nSegments - 1
    <3>1. nSegments' \in 0 .. SizeMax - 1
      BY TypeStep DEF TypeOK
    <3>2. CASE nSegments = 0
      BY <3>1, <3>2
    <3>3. CASE nSegments # 0
      <4>1. nSegments - 1 \in 0 .. SizeMax - 1
        BY <3>3, <1>a
      <4> QED
        BY <3>1, <4>1, <2>1, <1>a
    <3> QED
      BY <3>2, <3>3
  <2>6. ~(LeaveOthers(t) \/ LeaveLast(t))
    BY <2>1, AllocedStep
  <2>7. searches' = searches
    BY <1>5 DEF NoMemory, AbortCount, histVars
  <2> QED
    BY <1>0, <1>a, <1>2, <2>3, <2>4, <2>5, <2>6, <2>7
<1>6. CASE ~(LeaveOthers(t) \/ LeaveLast(t) \/ Take(t) \/ ScanFound(t) \/ NoMemory(t)
               \/ AbortCount(t))
  <2>1. nSegments' = nSegments /\ searches' = searches
    BY <1>6 DEF Step, Allocs, Ends, Begin, BeginBlocked, AllocCall, ScanPast,
      UseOutside, Fill, Free, EndCommit, Fail, AbortFree, AbortDone, tableVars, histVars
  <2>2. Pending(t)' = Pending(t)
    <3>1. CASE Fill(t)
      <4>1. pc[t] = "fill" /\ pc'[t] = "run" /\ Len(alloced'[t]) = Len(alloced[t]) + 1
        BY <3>1, RangeAppend DEF Fill, Goto, TypeOK
      <4> QED
        BY <4>1, <1>b DEF Pending
    <3>2. CASE AbortFree(t)
      <4>1. /\ pc[t] = "abortFree" /\ pc'[t] = "abortCount"
            /\ Len(alloced'[t]) = Len(alloced[t]) - 1
        BY <3>2, RangeTail DEF AbortFree, Goto, TypeOK, ListInv
      <4> QED
        BY <4>1, <1>b DEF Pending
    <3>4. CASE ~(Fill(t) \/ AbortFree(t))
      <4>1. alloced' = alloced
        BY <1>6, <3>4, AllocedStep
      <4>2. \/ pc'[t] = pc[t]
            \/ pc[t] \notin {"fill", "abortFree"} /\ pc'[t] \notin {"fill", "abortFree"}
        BY <1>6, <3>4 DEF Step, Allocs, Ends, Begin, BeginBlocked, AllocCall, ScanPast,
          UseOutside, Free, EndCommit, Fail, AbortDone, Goto, TypeOK
      <4> QED
        BY <4>1, <4>2 DEF Pending
    <3> QED
      BY <3>1, <3>2, <3>4
  <2> QED
    BY <1>3, <1>6, <2>1, <2>2
<1> QED
  BY <1>1, <1>4, <1>5, <1>6, <1>7

\* Only a failed allocation leaves a first copy alone.
LEMMA LostStep ==
    ASSUME SegmentInv, NEW t \in Tx, Step(t)
    PROVE  LostInv'
<1> USE DEF SegmentInv
<1>a. /\ IsFiniteSet(Alone) /\ Cardinality(Alone) \in Nat
      /\ failures \in Nat /\ Cardinality(Alone) <= failures
  BY FiniteFacts, FS_Subset, FS_CardinalityType DEF Alone, TypeOK, LostInv
<1>1. \A i \in Indices : controls'[i] = Null => segments'[i] \in {Null, <<"lost">>}
  BY EntryStep, EntryFacts DEF LostInv, Kept, Filled, Lost, Cleared, Segments, OfTx
<1>2. CASE NoMemory(t)
  <2>1. index[t] \in Indices /\ failures' = failures + 1
    BY <1>2 DEF NoMemory
  <2>2. Alone' \subseteq Alone \union {index[t]}
    BY <1>2 DEF NoMemory, Alone, TypeOK
  <2>3. /\ IsFiniteSet(Alone \union {index[t]})
        /\ Cardinality(Alone \union {index[t]}) <= Cardinality(Alone) + 1
    BY <1>a, FS_AddElement
  <2>4. /\ Cardinality(Alone') \in Nat
        /\ Cardinality(Alone') <= Cardinality(Alone \union {index[t]})
        /\ Cardinality(Alone \union {index[t]}) \in Nat
    BY <2>2, <2>3, FS_Subset, FS_CardinalityType
  <2> QED
    BY <1>a, <1>1, <2>1, <2>3, <2>4 DEF LostInv
<1>3. CASE ~NoMemory(t)
  <2>1. failures' = failures
    BY <1>3 DEF Step, Allocs, Ends, Begin, BeginBlocked, AllocCall, Take, Given, ScanPast,
      ScanFound, UseOutside, Fill, Free, EndCommit, Fail, AbortCount, AbortFree, AbortDone,
      LeaveOthers, LeaveLast, Left
  <2>2. Alone' \subseteq Alone
    <3> SUFFICES ASSUME NEW i \in Indices, segments'[i] = <<"lost">>
                 PROVE  segments[i] = <<"lost">>
      BY DEF Alone
    <3>1. ~Filled(t, i) /\ ~Cleared(i) /\ ~Lost(t, i)
      BY <1>3, AllocedStep, EntryFacts DEF Filled, Cleared, Lost
    <3> QED
      BY <3>1, EntryStep DEF Kept
  <2>3. Cardinality(Alone') \in Nat /\ Cardinality(Alone') <= Cardinality(Alone)
    BY <1>a, <2>2, FS_Subset, FS_CardinalityType
  <2> QED
    BY <1>a, <1>1, <2>1, <2>3 DEF LostInv
<1> QED
  BY <1>2, <1>3

\* The elements of a finite set of numbers that have n others or more before them:
\* no two have the same number of others before them.
LEMMA PassedOver ==
    ASSUME NEW S \in SUBSET Nat, IsFiniteSet(S), NEW n \in Nat
    PROVE  LET Before(j) == {k \in S : k < j}
               Over_n == {j \in S : ~(Cardinality(Before(j)) < n)}
           IN  /\ IsFiniteSet(Over_n) /\ Cardinality(Over_n) \in Nat
               /\ Over_n # {} => Cardinality(Over_n) <= Cardinality(S) - n
<1> DEFINE Before(j) == {k \in S : k < j}
           Later == {j \in S : ~(Cardinality(Before(j)) < n)}
           rank == [j \in Later |-> Cardinality(Before(j))]
           C == Cardinality(S)
<1>1. C \in Nat
  BY FS_CardinalityType
<1>2. ASSUME NEW j \in S
      PROVE  IsFiniteSet(Before(j)) /\ Cardinality(Before(j)) \in 0 .. C - 1
  <2>1. IsFiniteSet(Before(j)) /\ Cardinality(Before(j)) <= C
    BY FS_Subset
  <2>2. Before(j) # S
    OBVIOUS
  <2>3. Cardinality(Before(j)) # C
    BY <2>2, FS_Subset
  <2>4. Cardinality(Before(j)) \in Nat
    BY <2>1, FS_CardinalityType
  <2> QED
    BY <1>1, <2>1, <2>3, <2>4
<1>3. ASSUME NEW j \in S, NEW k \in S, j < k
      PROVE  Cardinality(Before(j)) # Cardinality(Before(k))
  <2>1. Before(j) \subseteq Before(k) /\ Before(j) # Before(k)
    <3>1. j \in Before(k) /\ j \notin Before(j)
      BY <1>3
    <3>2. \A x \in Before(j) : x \in Before(k)
      BY <1>3
    <3> QED
      BY <3>1, <3>2
  <2> QED
    BY <1>2, <2>1, FS_Subset
<1>4. rank \in Injection(Later, n .. C - 1)
  <2>1. \A j \in Later : rank[j] \in n .. C - 1
    BY <1>1, <1>2
  <2>2. ASSUME NEW j \in Later, NEW k \in Later, rank[j] = rank[k] PROVE j = k
    <3>1. j < k \/ k < j \/ j = k
      OBVIOUS
    <3> QED
      BY <3>1, <2>2, <1>3
  <2>3. rank \in [Later -> n .. C - 1]
    BY <2>1
  <2> HIDE DEF rank, Later
  <2> QED
    BY <2>2, <2>3 DEF Injection, IsInjective
<1>5. /\ IsFiniteSet(n .. C - 1)
      /\ Cardinality(n .. C - 1) = IF n > C - 1 THEN 0 ELSE (C - 1) - n + 1
  <2> HIDE DEF C
  <2>1. n \in Int /\ C - 1 \in Int
    BY <1>1
  <2> QED
    BY <2>1, FS_Interval
<1>6. IsFiniteSet(Later) /\ Cardinality(Later) <= Cardinality(n .. C - 1)
  BY <1>4, <1>5, FS_Injection
<1>7. Cardinality(Later) \in Nat
  BY <1>6, FS_CardinalityType
<1>8. Later # {} => n <= C - 1
  <2> SUFFICES ASSUME NEW j \in Later PROVE n <= C - 1
    OBVIOUS
  <2>1. j \in S /\ ~(Cardinality(Before(j)) < n)
    OBVIOUS
  <2>2. Cardinality(Before(j)) \in 0 .. C - 1
    BY <2>1, <1>2
  <2> HIDE DEF Before, C, Later
  <2> QED
    BY <1>1, <2>1, <2>2
<1> HIDE DEF Later, C
<1>9. Later # {} => Cardinality(Later) <= C - n
  BY <1>1, <1>5, <1>6, <1>7, <1>8
<1> QED
  BY <1>6, <1>7, <1>9 DEF Later, C

\* tm_destroy stops when it has found n_segments segments, which is too early by
\* less than the number of searches.
LEMMA DestroyStep ==
    ASSUME SegmentInv, Destroy
    PROVE  SegmentInv'
<1> USE DEF SegmentInv
<1>0. /\ Finished /\ destroyed' /\ destroyed' \in BOOLEAN
      /\ segments' = SegFree(segments, Found \union {0})
      /\ controls' = SegFree(controls, Found \union {0})
      /\ UNCHANGED <<gateVars, nSegments, toFree, pc, index, listVars, failures, outside,
                     histVars>>
  BY DEF Destroy
<1>a. UNCHANGED <<epoch, members, since, nSegments, toFree, pc, index, allocs, alloced, freed,
                  failures, outside, known, home, reissued, searches, dropping,
                  dropped>>
  BY <1>0 DEF gateVars, listVars, histVars
<1>b. \A t \in Tx : pc[t] \in {"committed", "aborted"} /\ Range(alloced[t]) = {}
  BY <1>0, RangeFacts DEF Finished, ListInv, Over
<1>c. \A i \in Indices : Kept(i) \/ Cleared(i)
  BY <1>0 DEF SegFree, Kept, Cleared, TypeOK
<1>1. TypeOK'
  <2>1. segments' \in [Indices -> Entries] /\ controls' \in [Indices -> Entries]
    BY <1>0 DEF TypeOK, SegFree, Entries, Null
  <2>2. Gate!GateTypeOK'
    BY <1>a DEF TypeOK, Gate!GateTypeOK
  <2> QED
    BY <1>0, <1>a, <2>1, <2>2 DEF TypeOK
<1>2. MemberInv' /\ ListInv'
  BY <1>a DEF MemberInv, ListInv
<1>3. OwnerInv'
  BY <1>a, <1>c, EntryFacts DEF OwnerInv, Kept, Cleared, OfTx
<1>4. SoleInv'
  BY <1>a, <1>b, <1>c, EntryFacts DEF SoleInv, Holds, Filling
<1>5. AgreeInv' /\ FirstInv'
  BY <1>a, <1>c, EntryFacts DEF AgreeInv, FirstInv, Kept, Cleared, OfTx
<1>6. KnownInv'
  BY <1>0, <1>a, <1>b DEF KnownInv, Working
<1>7. SurviveInv'
  BY <1>0 DEF SurviveInv
<1>8. CountInv'
  <2> SUFFICES nSegments' + searches' >= 1 + Cardinality(Permanent') + Cardinality(Tokens')
    BY <1>a DEF CountInv, Permanent, Tokens, Pending, OfTx
  <2>1. nSegments + searches >= 1 + Cardinality(Permanent) + Cardinality(Tokens)
    BY <1>b DEF CountInv, Stuck
  <2>2. Tokens' = Tokens
    BY <1>a DEF Tokens, Pending
  <2>3. Permanent' \subseteq Permanent
    BY <1>a, <1>c, EntryFacts DEF Permanent, Kept, Cleared, OfTx
  <2>4. Cardinality(Permanent') \in Nat /\ Cardinality(Permanent') <= Cardinality(Permanent)
    BY <2>3, FiniteFacts, FS_Subset, FS_CardinalityType
  <2> QED
    BY <1>a, <2>1, <2>2, <2>4, FiniteFacts DEF TypeOK
<1>9. LostInv'
  <2>1. Alone' \subseteq Alone
    BY <1>c, EntryFacts DEF Alone, Kept, Cleared
  <2>2. /\ Cardinality(Alone') <= Cardinality(Alone)
        /\ Cardinality(Alone') \in Nat /\ Cardinality(Alone) \in Nat
    BY <2>1, FiniteFacts, FS_Subset, FS_CardinalityType DEF Alone
  <2> QED
    BY <1>a, <1>c, <2>2 DEF LostInv, Kept, Cleared, TypeOK
<1>10. DestroyInv'
  <2>1. destroyed' => Finished'
    BY <1>0, <1>a DEF Finished
  <2>2. nSegments + searches >= 1 + Cardinality(Permanent) + Cardinality(Tokens)
    BY <1>b DEF CountInv, Stuck
  <2>3. Occupied \subseteq Permanent
    BY <1>b, EntryFacts DEF Occupied, Permanent, FirstInv, OwnerInv, OfTx
  <2>4. /\ IsFiniteSet(Occupied) /\ Cardinality(Occupied) <= Cardinality(Permanent)
        /\ Cardinality(Occupied) \in Nat
    BY <2>3, FiniteFacts, FS_Subset, FS_CardinalityType
  <2>5. Missed' = Occupied \ Found
    BY <1>0 DEF SegFree, Missed, Occupied, Found, TypeOK
  <2>6. Occupied \ Found = {j \in Occupied : ~(Cardinality({k \in Occupied : k < j}) < nSegments)}
    BY DEF Found
  <2>7. nSegments \in Nat /\ searches \in Nat /\ Occupied \in SUBSET Nat
    BY SegmentAssumption DEF TypeOK, Occupied, Indices
  <2>8. Missed' = {} \/ Cardinality(Missed') < searches'
    <3>1. /\ Cardinality(Missed') \in Nat
          /\ Missed' # {} => Cardinality(Missed') <= Cardinality(Occupied) - nSegments
      BY <2>4, <2>5, <2>6, <2>7, PassedOver
    <3> QED
      BY <1>a, <2>2, <2>4, <2>7, <3>1, FiniteFacts
  <2>9. Cardinality(Halves') <= failures'
    <3>1. Halves' \subseteq Alone
      BY <1>c, <1>9 DEF Halves, Alone, LostInv, Kept, Cleared
    <3>2. IsFiniteSet(Alone)
      BY FiniteFacts, FS_Subset DEF Alone
    <3>3. /\ IsFiniteSet(Halves') /\ Cardinality(Halves') <= Cardinality(Alone)
          /\ Cardinality(Halves') \in Nat /\ Cardinality(Alone) \in Nat
      BY <3>1, <3>2, FS_Subset, FS_CardinalityType
    <3> QED
      BY <1>a, <3>3 DEF LostInv, TypeOK
  <2> QED
    BY <2>1, <2>8, <2>9 DEF DestroyInv, DestroyLeavesFew, Missed, Halves
<1> QED
  BY <1>1, <1>2, <1>3, <1>4, <1>5, <1>6, <1>7, <1>8, <1>9, <1>10

\* tm_create establishes the invariant.
LEMMA InitSegmentInv == Init => SegmentInv
<1> SUFFICES ASSUME Init PROVE SegmentInv
    OBVIOUS
<1>1. TypeOK
  BY InitType
<1>2. MemberInv /\ ListInv
  BY RangeFacts DEF Init, Gate!GateInit, MemberInv, ListInv, Over
<1>3. \A i \in Indices : ~OfTx(controls[i]) /\ ~OfTx(segments[i])
  BY EntryFacts DEF Init
<1>4. \A t \in Tx, i \in Indices : ~Holds(t, i)
  BY RangeFacts DEF Init, Holds, Filling
<1>5. OwnerInv /\ SoleInv /\ AgreeInv
  BY <1>3, <1>4 DEF OwnerInv, SoleInv, AgreeInv, Holds
<1>6. KnownInv
  BY RangeFacts DEF Init, KnownInv, Working
<1>7. SurviveInv /\ FirstInv /\ DestroyInv
  <2>1. SurviveInv
    BY EntryFacts DEF Init, SurviveInv, Working
  <2>2. FirstInv /\ DestroyInv
    BY DEF Init, FirstInv, DestroyInv, DestroyLeavesFew
  <2> QED
    BY <2>1, <2>2
<1>8. CountInv
  <2>1. Permanent = {}
    BY <1>3 DEF Permanent
  <2>2. Tokens = {}
    BY RangeFacts DEF Init, Tokens, Pending, Segments
  <2> QED
    BY <2>1, <2>2, FS_EmptySet DEF CountInv, Init
<1>9. LostInv
  <2>1. Alone = {}
    BY DEF Init, Alone, Null
  <2> QED
    BY <2>1, FS_EmptySet DEF LostInv, Init
<1> QED
  BY <1>1, <1>2, <1>5, <1>6, <1>7, <1>8, <1>9 DEF SegmentInv

\* Every step keeps it.
LEMMA NextSegmentInv == SegmentInv /\ [Next]_vars => SegmentInv'
<1> SUFFICES ASSUME SegmentInv, [Next]_vars PROVE SegmentInv'
    OBVIOUS
<1>1. ASSUME NEW t \in Tx, Step(t) PROVE SegmentInv'
  <2>1. TypeOK' /\ MemberInv' /\ ListInv' /\ OwnerInv'
    BY <1>1, TypeStep, MemberStep, ListStep, OwnerStep DEF SegmentInv
  <2>2. SoleInv' /\ AgreeInv' /\ FirstInv'
    BY <1>1, SoleStep, AgreeStep, FirstStep
  <2>3. KnownInv' /\ SurviveInv' /\ CountInv' /\ LostInv'
    BY <1>1, KnownStep, SurviveStep, CountStep, LostStep
  <2>4. DestroyInv'
    BY <1>1, FrameStep DEF Frame, DestroyInv, DestroyLeavesFew
  <2> QED
    BY <2>1, <2>2, <2>3, <2>4 DEF SegmentInv
<1>2. CASE UNCHANGED vars
  <2>1. UNCHANGED <<epoch, members, since, nSegments, segments, controls, toFree, pc, index,
                    allocs, alloced, freed, failures, outside, destroyed, known, home,
                    reissued, searches, dropping, dropped>>
    BY <1>2 DEF vars, gateVars, tableVars, listVars, histVars
  <2>2. TypeOK'
    BY <2>1 DEF SegmentInv, TypeOK, Gate!GateTypeOK
  <2>3. MemberInv' /\ ListInv' /\ OwnerInv' /\ SoleInv' /\ AgreeInv'
    BY <2>1 DEF SegmentInv, MemberInv, ListInv, OwnerInv, SoleInv, AgreeInv, Holds, Filling,
      OfTx
  <2>4. KnownInv' /\ SurviveInv' /\ FirstInv'
    BY <2>1 DEF SegmentInv, KnownInv, SurviveInv, FirstInv, OfTx
  <2>5. CountInv' /\ LostInv' /\ DestroyInv'
    BY <2>1 DEF SegmentInv, CountInv, Stuck, Permanent, Tokens, Pending, OfTx, LostInv, Alone,
      DestroyInv, DestroyLeavesFew, Missed, Halves, Finished
  <2> QED
    BY <2>2, <2>3, <2>4, <2>5 DEF SegmentInv
<1> QED
  BY <1>1, <1>2, DestroyStep DEF Next, Done

-----------------------------------------------------------------------------
(* Theorems *)

\* At every time n_segments, the two arrays and the lists of segments satisfy
\* SegmentInv.
THEOREM SegmentInvariance == Spec => []SegmentInv
BY InitSegmentInv, NextSegmentInv, PTL DEF Spec

\* The types of the table's state hold at every time.
THEOREM SegmentTypes == Spec => []TypeOK
<1>1. SegmentInv => TypeOK
  BY DEF SegmentInv
<1> QED
  BY <1>1, SegmentInvariance, PTL

\* A segment that a transaction was given is in its entry until the transaction
\* aborts, or a batch ends in which a committed transaction has freed it, if
\* next_free has not given the index to somebody else.
THEOREM Survival == Spec => []SegmentsSurvive
<1>1. SegmentInv => SegmentsSurvive
  <2> SUFFICES ASSUME SegmentInv, NEW s \in Segments,
                      pc[Owner(s)] \in Working \union {"leaveCommitted", "committed"},
                      home[s] \in Indices \ reissued, s \notin dropped, ~destroyed
               PROVE  segments[home[s]] = s /\ controls[home[s]] = s
    BY DEF SegmentsSurvive, Working
  <2> QED
    BY DEF SegmentInv, SurviveInv, AgreeInv, OfTx
<1> QED
  BY <1>1, SegmentInvariance, PTL

\* The loop of tm_end over alloced_segments leaves nothing of an aborted
\* transaction in the table, whoever was given the same indices.
THEOREM AbortedRelease == Spec => []AbortReleases
<1>1. SegmentInv => AbortReleases
  BY DEF SegmentInv, OwnerInv, AbortReleases
<1> QED
  BY <1>1, SegmentInvariance, PTL

\* tm_destroy leaves fewer segments than there were indices found by a search, none
\* if there was no search or one, and no more lone first copies than allocations failed.
THEOREM DestroyBounded == Spec => []DestroyLeavesFew
<1>1. SegmentInv => DestroyLeavesFew
  BY DEF SegmentInv, DestroyInv
<1> QED
  BY <1>1, SegmentInvariance, PTL
===============================================================================
