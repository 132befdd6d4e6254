----------------------------- MODULE SegmentTable -----------------------------
(***************************************************************************)
(* The segment table of 260772: tm_alloc, tm_free, the allocating part of  *)
(* tm_end and tm_destroy (tm.c) over next_free, seg_free and the freeing   *)
(* part of commit (helper.c).  An index names the same entry of            *)
(* segments_write, segments_read and controls; the first two change        *)
(* together and are one variable here.  What transactions do to the words  *)
(* is in module DualVersionedSTM: here they may fail at any time.          *)
(***************************************************************************)
EXTENDS Integers, Sequences, Functions, FiniteSets

CONSTANTS
    Tx,
    MaxSegments,    \* MAX_SEGMENTS, which is also the number of 16-bit addresses
    SizeMax,        \* 2^64 of an atomic_size_t, in small
    MaxAllocs,      \* bound: calls of tm_alloc by a transaction
    MaxFailures     \* bound: calls of posix_memalign that fail

ASSUME SegmentAssumption ==
    /\ IsFiniteSet(Tx)
    /\ MaxSegments \in Nat \ {0, 1}
    /\ SizeMax \in Nat /\ SizeMax > MaxSegments
    /\ MaxAllocs \in Nat
    /\ MaxFailures \in Nat

VARIABLES
    epoch, members, since,      \* the gate
    nSegments,
    segments, controls,         \* what each entry points to
    toFree,         \* the region's freed_segments
    pc, index,      \* each transaction's next step, the index it works on
    allocs,         \* its calls of tm_alloc
    alloced, freed, \* its alloced_segments and freed_segments
    failures,       \* calls of posix_memalign that have failed
    outside,        \* an entry beyond the table was used: anything may follow
    destroyed,
    \* history:
    known,          \* the indices whose addresses a committed transaction left behind
    home,           \* the index that each segment was given
    reissued,       \* the indices given out while they were in use
    searches,       \* the indices given out by a search of the table
    dropping,       \* the segments freed by transactions of this batch that commit
    dropped         \* those freed by committed transactions of earlier batches

gateVars == <<epoch, members, since>>
tableVars == <<nSegments, segments, controls>>
listVars == <<allocs, alloced, freed>>
histVars == <<known, home, reissued, searches, dropping, dropped>>
vars == <<gateVars, tableVars, toFree, pc, index, listVars, failures, outside, destroyed,
          histVars>>

Gate == INSTANCE EpochGate WITH Threads <- Tx

Indices == 0 .. MaxSegments - 1
Segments == Tx \X (1 .. MaxAllocs)
\* What an entry may hold besides: NULL, the first segment, or memory whose
\* transaction was told that there is none.
Entries == Segments \union {<<"null">>, <<"first">>, <<"lost">>}
Null == <<"null">>

Owner(s) == s[1]
OfTx(s) == s \in Segments

Labels == {"new", "run", "take", "scan", "fill", "abortCount", "abortFree",
           "leaveCommitted", "leaveAborted", "committed", "aborted"}

TypeOK ==
    /\ Gate!GateTypeOK
    /\ nSegments \in 0 .. SizeMax - 1
    /\ segments \in [Indices -> Entries]
    /\ controls \in [Indices -> Entries]
    /\ toFree \in SUBSET Indices
    /\ pc \in [Tx -> Labels]
    /\ index \in [Tx -> 0 .. SizeMax - 1]
    /\ allocs \in [Tx -> 0 .. MaxAllocs]
    /\ alloced \in [Tx -> Seq(Indices)]
    /\ freed \in [Tx -> SUBSET Indices]
    /\ failures \in 0 .. MaxFailures
    /\ outside \in BOOLEAN /\ destroyed \in BOOLEAN
    /\ known \in SUBSET Indices
    /\ home \in [Segments -> Indices \union {MaxSegments}]
    /\ reissued \in SUBSET Indices
    /\ searches \in Nat
    /\ dropping \in SUBSET Segments
    /\ dropped \in SUBSET Segments

\* tm_create: the first segment has index 0.
Init ==
    /\ Gate!GateInit
    /\ nSegments = 1
    /\ segments = [i \in Indices |-> IF i = 0 THEN <<"first">> ELSE Null]
    /\ controls = segments
    /\ toFree = {}
    /\ pc = [t \in Tx |-> "new"]
    /\ index = [t \in Tx |-> 0]
    /\ allocs = [t \in Tx |-> 0]
    /\ alloced = [t \in Tx |-> <<>>]
    /\ freed = [t \in Tx |-> {}]
    /\ failures = 0
    /\ outside = FALSE
    /\ destroyed = FALSE
    /\ known = {}
    /\ home = [s \in Segments |-> MaxSegments]
    /\ reissued = {}
    /\ searches = 0
    /\ dropping = {}
    /\ dropped = {}

Goto(t, from, to) == pc[t] = from /\ pc' = [pc EXCEPT ![t] = to]

\* The address that tm_alloc returns, ((index + 1) << 48) without its zeros.
Address(i) == (i + 1) % MaxSegments

\* Somebody has been given i and still has it, or is about to fill it.
InUse(i) ==
    \/ segments[i] # Null
    \/ \E t \in Tx : (pc[t] = "fill" /\ index[t] = i) \/ i \in Range(alloced[t])

Begin(t) ==
    /\ Goto(t, "new", "run")
    /\ Gate!JoinEmpty(t) \/ Gate!JoinLater(t)
    /\ UNCHANGED <<tableVars, toFree, index, listVars, failures, outside, destroyed, histVars>>

BeginBlocked(t) ==
    /\ pc[t] = "new"
    /\ Gate!Block(t)
    /\ UNCHANGED <<tableVars, toFree, pc, index, listVars, failures, outside, destroyed,
                   histVars>>

-----------------------------------------------------------------------------
(* next_free *)

\* n_segments is compared here and incremented in a later step.
AllocCall(t) ==
    /\ allocs[t] < MaxAllocs
    /\ allocs' = [allocs EXCEPT ![t] = @ + 1]
    /\ Goto(t, "run", IF nSegments < MaxSegments THEN "take" ELSE "scan")
    /\ index' = [index EXCEPT ![t] = 0]
    /\ UNCHANGED <<gateVars, tableVars, toFree, alloced, freed, failures, outside, destroyed,
                   histVars>>

\* t is given index i.
Given(t, i) ==
    /\ index' = [index EXCEPT ![t] = i]
    /\ reissued' = IF i \in Indices /\ InUse(i) THEN reissued \union {i} ELSE reissued
    /\ UNCHANGED <<gateVars, segments, controls, toFree, listVars, failures, outside, destroyed,
                   known, home, dropping, dropped>>

Take(t) ==
    /\ Goto(t, "take", "fill")
    /\ nSegments' = (nSegments + 1) % SizeMax
    /\ UNCHANGED searches
    /\ Given(t, nSegments)

\* The search looks at one entry after the other; nothing stops it at the end.
ScanPast(t) ==
    /\ pc[t] = "scan"
    /\ index[t] \in Indices
    /\ segments[index[t]] # Null
    /\ index' = [index EXCEPT ![t] = @ + 1]
    /\ UNCHANGED <<gateVars, tableVars, toFree, pc, listVars, failures, outside, destroyed,
                   histVars>>

ScanFound(t) ==
    /\ index[t] \in Indices
    /\ segments[index[t]] = Null
    /\ Goto(t, "scan", "fill")
    /\ searches' = searches + 1
    /\ UNCHANGED nSegments
    /\ Given(t, index[t])

\* The next access of t is to an entry beyond the table.
UseOutside(t) ==
    /\ pc[t] \in {"scan", "fill"}
    /\ index[t] \notin Indices
    /\ outside' = TRUE
    /\ UNCHANGED <<gateVars, tableVars, toFree, pc, index, listVars, failures, destroyed,
                   histVars>>

-----------------------------------------------------------------------------
(* the rest of tm_alloc, and tm_free *)

\* Slip: the number in the address is recorded, one more than the index.
FillAddress(t) ==
    LET i == index[t]
        s == <<t, allocs[t]>>
    IN  /\ i \in Indices
        /\ Goto(t, "fill", "run")
        /\ segments' = [segments EXCEPT ![i] = s]
        /\ controls' = [controls EXCEPT ![i] = s]
        /\ alloced' = [alloced EXCEPT ![t] = Append(@, i + 1)]
        /\ home' = [home EXCEPT ![s] = i]
        /\ UNCHANGED <<gateVars, nSegments, toFree, index, allocs, freed, failures, outside,
                       destroyed, known, reissued, searches, dropping, dropped>>

\* The calloc of the controls, whose result the code does not look at, succeeds.
Fill(t) ==
    LET i == index[t]
        s == <<t, allocs[t]>>
    IN  /\ i \in Indices
        /\ Goto(t, "fill", "run")
        /\ segments' = [segments EXCEPT ![i] = s]
        /\ controls' = [controls EXCEPT ![i] = s]
        /\ alloced' = [alloced EXCEPT ![t] = Append(@, i)]
        /\ home' = [home EXCEPT ![s] = i]
        /\ UNCHANGED <<gateVars, nSegments, toFree, index, allocs, freed, failures, outside,
                       destroyed, known, reissued, searches, dropping, dropped>>

\* posix_memalign fails, for the first copy or for the second one.
NoMemory(t) ==
    LET i == index[t]
    IN  /\ i \in Indices
        /\ failures < MaxFailures
        /\ failures' = failures + 1
        /\ Goto(t, "fill", "run")
        /\ nSegments' = (nSegments - 1) % SizeMax
        /\ segments' \in {segments, [segments EXCEPT ![i] = <<"lost">>]}
        /\ UNCHANGED <<gateVars, controls, toFree, index, listVars, outside, destroyed,
                       histVars>>

\* tm_free of a segment that t allocated, or found in shared memory.
Free(t, i) ==
    /\ pc[t] = "run"
    /\ i \in known \union Range(alloced[t])
    /\ Address(i) # 0
    /\ i \notin freed[t]
    /\ freed' = [freed EXCEPT ![t] = @ \union {i}]
    /\ UNCHANGED <<gateVars, tableVars, toFree, pc, index, allocs, alloced, failures, outside,
                   destroyed, histVars>>

-----------------------------------------------------------------------------
(* tm_end *)

\* seg_free; free(NULL) does nothing, so that freeing an index twice is harmless.
SegFree(f, is) == [i \in Indices |-> IF i \in is THEN Null ELSE f[i]]

\* Slip: what the committing transaction has freed is freed at once.
EndCommitFrees(t) ==
    /\ Goto(t, "run", "leaveCommitted")
    /\ segments' = SegFree(segments, freed[t])
    /\ controls' = SegFree(controls, freed[t])
    /\ dropping' = dropping \union {controls[i] : i \in {j \in freed[t] : OfTx(controls[j])}}
    /\ UNCHANGED <<gateVars, nSegments, toFree, index, listVars, failures, outside, destroyed,
                   known, home, reissued, searches, dropped>>

EndCommit(t) ==
    /\ Goto(t, "run", "leaveCommitted")
    /\ toFree' = toFree \union freed[t]
    /\ dropping' = dropping \union {controls[i] : i \in {j \in freed[t] : OfTx(controls[j])}}
    /\ UNCHANGED <<gateVars, tableVars, index, listVars, failures, outside, destroyed,
                   known, home, reissued, searches, dropped>>

\* Slip: the segments that the aborting transaction wanted freed are handed over.
FailFrees(t) ==
    /\ Goto(t, "run", "abortCount")
    /\ toFree' = toFree \union freed[t]
    /\ UNCHANGED <<gateVars, tableVars, index, listVars, failures, outside, destroyed,
                   histVars>>

\* A conflict: tm_read or tm_write calls tm_end with is_aborted set.
Fail(t) ==
    /\ Goto(t, "run", "abortCount")
    /\ UNCHANGED <<gateVars, tableVars, toFree, index, listVars, failures, outside, destroyed,
                   histVars>>

\* One allocated segment after the other: n_segments first, then the segment.
AbortCount(t) ==
    /\ alloced[t] # <<>>
    /\ Goto(t, "abortCount", "abortFree")
    /\ nSegments' = (nSegments - 1) % SizeMax
    /\ UNCHANGED <<gateVars, segments, controls, toFree, index, listVars, failures, outside,
                   destroyed, histVars>>

AbortFree(t) ==
    /\ Goto(t, "abortFree", "abortCount")
    /\ segments' = SegFree(segments, {Head(alloced[t])})
    /\ controls' = SegFree(controls, {Head(alloced[t])})
    /\ alloced' = [alloced EXCEPT ![t] = Tail(@)]
    /\ UNCHANGED <<gateVars, nSegments, toFree, index, allocs, freed, failures, outside,
                   destroyed, histVars>>

\* Slip: the segment allocated last is forgotten.
AbortDoneEarly(t) ==
    /\ Len(alloced[t]) <= 1
    /\ Goto(t, "abortCount", "leaveAborted")
    /\ UNCHANGED <<gateVars, tableVars, toFree, index, listVars, failures, outside, destroyed,
                   histVars>>

AbortDone(t) ==
    /\ alloced[t] = <<>>
    /\ Goto(t, "abortCount", "leaveAborted")
    /\ UNCHANGED <<gateVars, tableVars, toFree, index, listVars, failures, outside, destroyed,
                   histVars>>

\* The lists of a transaction are destroyed when it has left.
Left(t) ==
    /\ pc[t] \in {"leaveCommitted", "leaveAborted"}
    /\ pc' = [pc EXCEPT ![t] = IF @ = "leaveCommitted" THEN "committed" ELSE "aborted"]
    /\ alloced' = [alloced EXCEPT ![t] = <<>>]
    /\ freed' = [freed EXCEPT ![t] = {}]
    /\ UNCHANGED <<nSegments, index, allocs, failures, outside, destroyed,
                   home, reissued, searches>>

LeaveOthers(t) ==
    /\ Gate!LeaveOthers(t)
    /\ Left(t)
    /\ UNCHANGED <<segments, controls, toFree, known, dropping, dropped>>

\* The last one frees what committed transactions of the batch have freed.
LeaveLast(t) ==
    /\ Gate!CloseBatch(t)
    /\ Left(t)
    /\ segments' = SegFree(segments, toFree)
    /\ controls' = SegFree(controls, toFree)
    /\ toFree' = {}
    /\ dropped' = dropped \union dropping
    /\ dropping' = {}
    /\ known' = {i \in Indices : OfTx(controls'[i]) /\ pc'[Owner(controls'[i])] = "committed"}

-----------------------------------------------------------------------------
(* tm_destroy *)

Finished == \A t \in Tx : pc[t] \in {"committed", "aborted"}

Occupied == {i \in Indices \ {0} : controls[i] # Null}

\* Slip: the entries looked at are counted, not the segments found.
LookedAt == {i \in Indices \ {0} : i <= nSegments /\ controls[i] # Null}

\* The loop stops when it has found n_segments segments.
Found == {i \in Occupied : Cardinality({j \in Occupied : j < i}) < nSegments}

Destroy ==
    /\ Finished /\ ~destroyed
    /\ destroyed' = TRUE
    /\ segments' = SegFree(segments, Found \union {0})
    /\ controls' = SegFree(controls, Found \union {0})
    /\ UNCHANGED <<gateVars, nSegments, toFree, pc, index, listVars, failures, outside, histVars>>

-----------------------------------------------------------------------------

Allocs(t) ==
    AllocCall(t) \/ Take(t) \/ ScanPast(t) \/ ScanFound(t) \/ UseOutside(t) \/ Fill(t)
        \/ NoMemory(t)

Ends(t) ==
    EndCommit(t) \/ Fail(t) \/ AbortCount(t) \/ AbortFree(t) \/ AbortDone(t)
        \/ LeaveOthers(t) \/ LeaveLast(t)

Step(t) ==
    \/ Begin(t) \/ BeginBlocked(t)
    \/ Allocs(t)
    \/ \E i \in Indices : Free(t, i)
    \/ Ends(t)

Done == (destroyed \/ outside) /\ UNCHANGED vars

Next == (~outside /\ ((\E t \in Tx : Step(t)) \/ Destroy)) \/ Done

Spec == Init /\ [][Next]_vars

-----------------------------------------------------------------------------
(* Properties *)

\* A segment that a transaction was given is there until the transaction aborts or
\* the last one of a batch in which a committed transaction has freed it leaves,
\* whatever others allocate, free and abort.  Not so where its index has been given
\* to somebody else as well (NewSegments).
SegmentsSurvive ==
    \A s \in Segments :
        /\ pc[Owner(s)] \in {"run", "take", "scan", "fill", "leaveCommitted", "committed"}
        /\ home[s] \in Indices \ reissued
        /\ s \notin dropped /\ ~destroyed
        => segments[home[s]] = s /\ controls[home[s]] = s

\* No entry of the table holds a segment of a transaction that has aborted, whoever
\* was given the same index meanwhile.  (A segment whose pointers somebody else has
\* overwritten is in no entry: it leaks, unseen here.)
AbortReleases ==
    \A i \in Indices :
        OfTx(controls[i]) => pc[Owner(controls[i])] \notin {"leaveAborted", "aborted"}

\* The entries that tm_destroy has passed over: segments, and first copies whose
\* second one could not be allocated.
Missed == {i \in Indices : controls[i] # Null}
Halves == {i \in Indices : controls[i] = Null /\ segments[i] # Null}

\* tm_destroy stops when it has found n_segments segments, and n_segments counts
\* calls: neither the index that a search finds nor a segment freed at the end of a
\* batch changes it, an abort decrements it for any index.  What it leaves is still
\* bounded: nothing when at most one index has come from a search, in general fewer
\* segments than there were such indices; and a first copy for a failed allocation.
DestroyLeavesFew ==
    destroyed =>
        /\ Missed = {} \/ Cardinality(Missed) < searches
        /\ Cardinality(Halves) <= failures

(* What the source says and the code does not do: see the README. *)

\* tm_alloc gives out "the newly allocated, aligned segment": it never puts a
\* segment where another one is.
NewSegments ==
    [][\A i \in Indices : OfTx(segments'[i]) /\ segments'[i] # segments[i] =>
            segments[i] \in {Null, <<"lost">>}]_vars

\* "Destroy (i.e. clean-up + free) a given shared memory region": tm_destroy
\* leaves no entry of the table behind.
DestroyFreesAll == destroyed => \A i \in Indices : segments[i] = Null

\* "Index go from 0 to MAX_SEGMENTS - 1".
IndexInTable == ~outside

\* "We need the -1 ... to avoid having NULL as an address".
NoNullAddress == \A s \in Segments : home[s] \in Indices => Address(home[s]) # 0
=============================================================================
