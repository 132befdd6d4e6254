--------------------------- MODULE TemplateSegments ---------------------------
(***************************************************************************)
(* The segments of template/: tm_alloc, tm_free, the part of tm_end about  *)
(* them and tm_destroy (tm.c) over next_free, seg_free and the freeing part*)
(* of commit (helper.c).  An index is chosen under alloc_lock, and filled  *)
(* later without it.  Words and their copies: module TemplateSTM.          *)
(***************************************************************************)
EXTENDS Integers, Sequences, FiniteSets, Functions

CONSTANTS
    Tx,
    MaxSegments,    \* MAX_SEGMENTS
    MaxAllocs,      \* bound: calls of tm_alloc by a transaction
    MaxFailures     \* bound: calls of posix_memalign that fail

ASSUME TemplateSegmentsAssumption ==
    /\ IsFiniteSet(Tx) /\ MaxSegments \in Nat \ {0}
    /\ MaxAllocs \in Nat /\ MaxFailures \in Nat

VARIABLES
    keepWaiting, remaining,     \* batcher
    allocLock,      \* a transaction is in its critical section
    nSegments, segments, controls,
    freedSegments,  \* the region's freed_segments
    pc, index,      \* each transaction's next step, the index it works on
    allocs, alloced, freed,     \* its calls of tm_alloc, alloced_segments, freed_segments
    failures,
    outside,        \* an entry beyond the table was used: anything may follow
    destroyed,
    \* history:
    kept,           \* the transactions whose tm_end has committed
    known,          \* the indices of the segments that those of earlier batches left behind
    home,           \* the index of each segment that was filled
    dropped,        \* the segments that committed transactions have freed
    asking, asked,  \* the indices they have freed: all, and those of ended batches
    reissued,       \* the indices given out while they were in use
    given           \* how many indices have been given out

gateVars == <<keepWaiting, remaining>>
tableVars == <<nSegments, segments, controls>>
listVars == <<allocs, alloced, freed>>
histVars == <<kept, dropped, asking, asked, known, home, reissued, given>>
vars == <<gateVars, allocLock, tableVars, freedSegments, pc, index, listVars, failures,
          outside, destroyed, histVars>>

Indices == 0 .. MaxSegments - 1
Segments == Tx \X (1 .. MaxAllocs)
Null == <<"null">>
\* Besides segments: NULL, the first segment, one copy of a failed allocation.
Entries == Segments \union {Null, <<"first">>, <<"lost">>}

Labels == {"new", "waiting", "woken", "run", "next", "take", "scan", "count", "fill",
           "undo", "undoFree", "leave", "settle", "done"}

\* The count, which aborts change without the lock, never sends anyone beyond the
\* table: only a search can.
CountStaysInTable == \A t \in Tx : pc[t] \in {"count", "fill"} => index[t] \in Indices

TypeOK ==
    /\ keepWaiting \in BOOLEAN /\ remaining \in 0 .. Cardinality(Tx)
    /\ allocLock = (\E t \in Tx : pc[t] \in {"take", "scan", "count"})
    /\ nSegments \in 1 .. 2 * Cardinality(Segments) + 1
    /\ segments \in [Indices -> Entries] /\ controls \in [Indices -> Entries]
    /\ freedSegments \subseteq Indices
    /\ pc \in [Tx -> Labels] /\ index \in [Tx -> 0 .. MaxSegments] /\ CountStaysInTable
    /\ allocs \in [Tx -> 0 .. MaxAllocs]
    /\ alloced \in [Tx -> Seq(Indices)] /\ freed \in [Tx -> SUBSET Indices]
    /\ failures \in 0 .. MaxFailures
    /\ outside \in BOOLEAN /\ destroyed \in BOOLEAN

\* tm_create
Init ==
    /\ keepWaiting = TRUE /\ remaining = 0 /\ allocLock = FALSE
    /\ nSegments = 1
    /\ segments = [i \in Indices |-> IF i = 0 THEN <<"first">> ELSE Null]
    /\ controls = segments
    /\ freedSegments = {}
    /\ pc = [t \in Tx |-> "new"] /\ index = [t \in Tx |-> 0]
    /\ allocs = [t \in Tx |-> 0]
    /\ alloced = [t \in Tx |-> <<>>] /\ freed = [t \in Tx |-> {}]
    /\ failures = 0 /\ outside = FALSE /\ destroyed = FALSE
    /\ kept = {} /\ dropped = {} /\ asking = {} /\ asked = {} /\ known = {}
    /\ home = [s \in Segments |-> MaxSegments] /\ reissued = {} /\ given = 0

Goto(t, from, to) == pc[t] = from /\ pc' = [pc EXCEPT ![t] = to]

-----------------------------------------------------------------------------
(* enter *)

Join(t) == pc' = [pc EXCEPT ![t] = "run"] /\ remaining' = remaining + 1 /\ UNCHANGED keepWaiting

Wait(t) ==
    /\ pc' = [pc EXCEPT ![t] = "waiting"] /\ UNCHANGED remaining

Begin(t) ==
    \/ pc[t] = "new" /\ remaining = 0 /\ Join(t)
    \/ pc[t] = "new" /\ remaining > 0 /\ Wait(t) /\ keepWaiting' = TRUE
    \/ pc[t] = "woken" /\ ~keepWaiting /\ Join(t)
    \/ pc[t] = "woken" /\ keepWaiting /\ Wait(t) /\ UNCHANGED keepWaiting

BeginStep(t) ==
    /\ Begin(t)
    /\ UNCHANGED <<allocLock, tableVars, freedSegments, index, listVars, failures, outside,
                   destroyed, histVars>>

-----------------------------------------------------------------------------
(* tm_alloc and next_free *)

\* Somebody has been given i and still has it, or is about to fill it.
InUse(i) ==
    \/ segments[i] # Null
    \/ \E t \in Tx : i \in Range(alloced[t]) \/ (pc[t] \in {"count", "fill"} /\ index[t] = i)

Give(t, i) ==
    /\ index' = [index EXCEPT ![t] = i]
    /\ given' = given + 1
    /\ reissued' = IF i \in Indices /\ InUse(i) THEN reissued \union {i} ELSE reissued

AllocCall(t) ==
    /\ allocs[t] < MaxAllocs
    /\ allocs' = [allocs EXCEPT ![t] = @ + 1]
    /\ Goto(t, "run", "next")
    /\ UNCHANGED <<allocLock, nSegments, index, given, reissued, outside>>

\* Slip: alloc_lock is not taken.
EnterNextUnlocked(t) ==
    /\ Goto(t, "next", IF nSegments < MaxSegments THEN "take" ELSE "scan")
    /\ index' = [index EXCEPT ![t] = 0]
    /\ UNCHANGED <<allocLock, nSegments, allocs, given, reissued, outside>>

EnterNext(t) ==
    /\ ~allocLock /\ allocLock' = TRUE
    /\ Goto(t, "next", IF nSegments < MaxSegments THEN "take" ELSE "scan")
    /\ index' = [index EXCEPT ![t] = 0]
    /\ UNCHANGED <<nSegments, allocs, given, reissued, outside>>

\* Transactions that abort may have decremented nSegments since the test: they do not
\* take the lock.
Take(t) ==
    /\ Goto(t, "take", "count")
    /\ nSegments' = nSegments + 1
    /\ Give(t, nSegments)
    /\ UNCHANGED <<allocLock, allocs, outside>>

Scan(t) ==
    /\ pc[t] = "scan"
    /\ IF index[t] \notin Indices THEN outside' = TRUE /\ UNCHANGED <<pc, index, given, reissued>>
       ELSE /\ IF segments[index[t]] # Null
               THEN index' = [index EXCEPT ![t] = @ + 1] /\ UNCHANGED <<pc, given, reissued>>
               ELSE pc' = [pc EXCEPT ![t] = "count"] /\ Give(t, index[t])
            /\ UNCHANGED outside
    /\ UNCHANGED <<allocLock, nSegments, allocs>>

\* Slip: the lock is not released.
CountLocked(t) ==
    /\ Goto(t, "count", "fill")
    /\ nSegments' = nSegments + 1
    /\ UNCHANGED <<allocLock, index, allocs, given, reissued, outside>>

\* ++n_segments, a second time where next_free has incremented it.
Count(t) ==
    /\ Goto(t, "count", "fill")
    /\ nSegments' = nSegments + 1
    /\ allocLock' = FALSE
    /\ UNCHANGED <<index, allocs, given, reissued, outside>>

IndexStep(t) ==
    /\ AllocCall(t) \/ EnterNext(t) \/ Take(t) \/ Scan(t) \/ Count(t)
    /\ UNCHANGED <<gateVars, segments, controls, freedSegments, alloced, freed, failures,
                   destroyed, kept, dropped, asking, asked, known, home>>

Newest(t) == <<t, allocs[t]>>

\* posix_memalign of both copies, then the controls; a call that fails leaves its
\* pointer alone.  The calloc of the controls, which the code does not check, succeeds.
Fill(t) ==
    LET i == index[t]
    IN  /\ Goto(t, "fill", "run")
        /\ segments' = [segments EXCEPT ![i] = Newest(t)]
        /\ controls' = [controls EXCEPT ![i] = Newest(t)]
        /\ alloced' = [alloced EXCEPT ![t] = Append(@, i)]
        /\ home' = [home EXCEPT ![Newest(t)] = i]
        /\ UNCHANGED <<nSegments, failures>>

NoMemory(t) ==
    /\ Goto(t, "fill", "run")
    /\ failures < MaxFailures /\ failures' = failures + 1
    /\ nSegments' = nSegments - 1
    /\ segments' \in {segments, [segments EXCEPT ![index[t]] = <<"lost">>]}
    /\ UNCHANGED <<controls, alloced, home>>

FillStep(t) ==
    /\ index[t] \in Indices
    /\ Fill(t) \/ NoMemory(t)
    /\ UNCHANGED <<gateVars, allocLock, freedSegments, index, allocs, freed, outside, destroyed,
                   kept, dropped, asking, asked, known, reissued, given>>

\* tm_free of a segment that t allocated or found in shared memory; the address of
\* the last index is NULL.
Free(t, i) ==
    /\ pc[t] = "run"
    /\ i \in (known \union Range(alloced[t])) \ (freed[t] \union {MaxSegments - 1})
    /\ freed' = [freed EXCEPT ![t] = @ \union {i}]
    /\ UNCHANGED <<gateVars, allocLock, tableVars, freedSegments, pc, index, allocs, alloced,
                   failures, outside, destroyed, histVars>>

-----------------------------------------------------------------------------
(* tm_end, leave and commit *)

SegFree(f, is) == [i \in Indices |-> IF i \in is THEN Null ELSE f[i]]

\* A conflict: tm_read or tm_write calls tm_end with is_aborted set.
Fail(t) ==
    /\ Goto(t, "run", "undo")
    /\ UNCHANGED <<nSegments, segments, controls, freedSegments, alloced, kept, dropped, asking>>

\* Slip: the last of the allocated segments is left.
UndoButLast(t) ==
    /\ \/ Len(alloced[t]) <= 1 /\ Goto(t, "undo", "leave") /\ UNCHANGED nSegments
       \/ Len(alloced[t]) > 1 /\ Goto(t, "undo", "undoFree") /\ nSegments' = nSegments - 1
    /\ UNCHANGED <<segments, controls, freedSegments, alloced, kept, dropped, asking>>

\* For each allocated segment, n_segments is decremented and then the segment freed.
Undo(t) ==
    /\ \/ alloced[t] = <<>> /\ Goto(t, "undo", "leave") /\ UNCHANGED nSegments
       \/ alloced[t] # <<>> /\ Goto(t, "undo", "undoFree") /\ nSegments' = nSegments - 1
    /\ UNCHANGED <<segments, controls, freedSegments, alloced, kept, dropped, asking>>

\* Slip: the segments that the transaction wanted freed go with those it allocated.
UndoFreeBoth(t) ==
    LET is == {Head(alloced[t])} \union freed[t]
    IN  /\ Goto(t, "undoFree", "undo")
        /\ segments' = SegFree(segments, is) /\ controls' = SegFree(controls, is)
        /\ alloced' = [alloced EXCEPT ![t] = Tail(@)]
        /\ UNCHANGED <<nSegments, freedSegments, kept, dropped, asking>>

UndoFree(t) ==
    LET is == {Head(alloced[t])}
    IN  /\ Goto(t, "undoFree", "undo")
        /\ segments' = SegFree(segments, is) /\ controls' = SegFree(controls, is)
        /\ alloced' = [alloced EXCEPT ![t] = Tail(@)]
        /\ UNCHANGED <<nSegments, freedSegments, kept, dropped, asking>>

\* Slip: the segments are freed at once.
PublishFrees(t) ==
    /\ Goto(t, "run", "leave")
    /\ freedSegments' = freedSegments \union freed[t]
    /\ kept' = kept \union {t}
    /\ dropped' = dropped \union {controls[i] : i \in freed[t]}
    /\ asking' = asking \union freed[t]
    /\ segments' = SegFree(segments, freed[t]) /\ controls' = SegFree(controls, freed[t])
    /\ UNCHANGED <<nSegments, alloced>>

Publish(t) ==
    /\ Goto(t, "run", "leave")
    /\ freedSegments' = freedSegments \union freed[t]
    /\ kept' = kept \union {t}
    /\ dropped' = dropped \union {controls[i] : i \in freed[t]}
    /\ asking' = asking \union freed[t]
    /\ UNCHANGED <<nSegments, segments, controls, alloced>>

EndStep(t) ==
    /\ Fail(t) \/ Undo(t) \/ UndoFree(t) \/ Publish(t)
    /\ UNCHANGED <<gateVars, allocLock, index, allocs, freed, failures, outside, destroyed,
                   asked, known, home, reissued, given>>

Decrement(t) ==
    /\ Goto(t, "leave", "settle")
    /\ remaining' = remaining - 1
    /\ UNCHANGED <<keepWaiting, allocLock, tableVars, freedSegments, index, listVars, failures,
                   outside, destroyed, histVars>>

\* The last one frees what freed_segments lists: the list is not emptied, and a later
\* batch frees the same indices again.
Settle(t) ==
    /\ pc[t] = "settle"
    /\ IF remaining = 0
       THEN /\ segments' = SegFree(segments, freedSegments)
            /\ controls' = SegFree(controls, freedSegments)
            /\ keepWaiting' = FALSE
            /\ asked' = asking
            /\ known' = {i \in Indices : controls'[i] \in kept \X (1 .. MaxAllocs)}
            /\ pc' = [s \in Tx |-> IF s = t THEN "done"
                                   ELSE IF pc[s] = "waiting" THEN "woken" ELSE pc[s]]
       ELSE /\ pc' = [pc EXCEPT ![t] = "done"]
            /\ UNCHANGED <<segments, controls, keepWaiting, asked, known>>
    /\ alloced' = [alloced EXCEPT ![t] = <<>>] /\ freed' = [freed EXCEPT ![t] = {}]
    /\ UNCHANGED <<remaining, allocLock, nSegments, freedSegments, index, allocs, failures,
                   outside, destroyed, kept, dropped, asking, home, reissued, given>>

-----------------------------------------------------------------------------

\* Slip: the loop ends at n_segments.
DestroyCounted ==
    /\ \A t \in Tx : pc[t] = "done"
    /\ ~destroyed /\ destroyed' = TRUE
    /\ segments' = SegFree(segments, {i \in Indices : i < nSegments /\ controls[i] # Null})
    /\ controls' = SegFree(controls, 0 .. nSegments - 1)
    /\ UNCHANGED <<gateVars, allocLock, nSegments, freedSegments, pc, index, listVars, failures,
                   outside, histVars>>

\* tm_destroy looks at every entry, and frees those whose controls are not NULL.
Destroy ==
    /\ \A t \in Tx : pc[t] = "done"
    /\ ~destroyed /\ destroyed' = TRUE
    /\ segments' = SegFree(segments, {i \in Indices : controls[i] # Null})
    /\ controls' = SegFree(controls, Indices)
    /\ UNCHANGED <<gateVars, allocLock, nSegments, freedSegments, pc, index, listVars, failures,
                   outside, histVars>>

Step(t) ==
    \/ BeginStep(t) \/ IndexStep(t) \/ FillStep(t)
    \/ \E i \in Indices : Free(t, i)
    \/ EndStep(t) \/ Decrement(t) \/ Settle(t)

Stopped == outside \/ destroyed

Next ==
    \/ ~Stopped /\ ((\E t \in Tx : Step(t)) \/ Destroy)
    \/ Stopped /\ UNCHANGED vars

Spec == Init /\ [][Next]_vars

-----------------------------------------------------------------------------
(* Properties *)

\* No entry of the table holds what an aborted transaction allocated when tm_end
\* returns, even if its indices were given to others meanwhile.  Of the table only:
\* memory whose entry another transaction has overwritten is lost, and not seen here.
AbortReleases ==
    \A i \in Indices, t \in Tx \ kept :
        pc[t] = "done" => {segments[i], controls[i]} \intersect ({t} \X (1 .. MaxAllocs)) = {}

\* A segment stays at its address from the moment it is filled, while its transaction
\* runs and after it has committed, whatever others allocate, free and abort: until the
\* end of a batch in which, or before which, a committed transaction has freed its
\* index.  (freed_segments is never emptied: the index goes again at every later end,
\* FreedByRequest.)  An index that has been given out twice is out of it (NewSegments).
SegmentsSurvive ==
    \A t \in Tx :
        t \in kept \/ pc[t] \notin {"undo", "undoFree", "leave", "settle", "done"} =>
            \A s \in {t} \X (1 .. MaxAllocs) :
                home[s] \in Indices \ (reissued \union asked) /\ ~destroyed =>
                    segments[home[s]] = s /\ controls[home[s]] = s

\* tm_destroy frees every segment of the table, whatever the count has become.  The copy
\* left by an allocation that failed halfway has no controls, and is lost.
DestroyFreesAll == destroyed => \A i \in Indices : segments[i] \in {Null, <<"lost">>}

\* No entry of the table outlives its transaction's abort, or its region.
NothingLeft == AbortReleases /\ DestroyFreesAll

(* What the source says and the code does not do: see the README. *)

\* next_free takes "the next available index ... if the number of allocations is less
\* than the maximum": nobody searches the table before.
SearchWhenFull == \A t \in Tx : pc[t] = "scan" => given >= MaxSegments - 1

\* tm_alloc gives out "the newly allocated, aligned segment": never the place of
\* another one.
NewSegments == reissued = {}

\* tm_free is of "the previously allocated segment": a committed segment stays until a
\* transaction frees it.
FreedByRequest ==
    \A s \in kept \X (1 .. MaxAllocs) :
        s \notin dropped /\ home[s] \in Indices \ reissued /\ ~destroyed => controls[home[s]] = s
=============================================================================
