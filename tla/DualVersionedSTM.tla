--------------------------- MODULE DualVersionedSTM ---------------------------
(***************************************************************************)
(* The word protocol of 260772: tm_begin, tm_read, tm_write and tm_end     *)
(* (tm.c) over read_word, write_word and commit (helper.c).  Every word    *)
(* has a read copy, a write copy and a control; transactions run inside    *)
(* the batches of EpochGate, which Batcher implements.  A step is one      *)
(* access to shared state; a transaction is used once, as its struct is,   *)
(* and a word holds the id of the transaction that wrote it.               *)
(***************************************************************************)
EXTENDS Naturals, Sequences, Functions

CONSTANTS
    Tx,             \* the transactions, by their ids
    ReadOnly,       \* those begun with is_ro
    Words,          \* the shared words of a fresh region
    NoTx,           \* id 0, and the initial content of a word
    MaxOps          \* bound: words that each transaction reads or writes

ASSUME STMAssumption ==
    /\ ReadOnly \subseteq Tx
    /\ NoTx \notin Tx
    /\ Tx \intersect {"null", "first", "more"} = {}
    /\ "unread" \notin Tx \union {NoTx}
    /\ "none" \notin Words
    /\ MaxOps \in [Tx -> Nat]

VARIABLES
    epoch, members, since,      \* the gate
    acs,            \* access_type_id: NULL, FIRST_READ, MORE_READ or the owner
    txRead, saved, accessedWrite,
    linked,         \* read_word and write_word point to the copies
    readCopy, writeCopy,
    modified,       \* the region's modified_controls
    pc, word, ops,  \* each transaction's next step, its current word, its calls
    accessed,       \* each transaction's accessed_words
    crashed,        \* a null pointer was dereferenced: the process is gone
    \* history, for as long as the transaction or its batch lasts:
    snapshot,       \* the read copies when the transaction joined
    seen,           \* its last read of each word since it wrote that word
    wrote,          \* the words on which its tm_write succeeded
    scrubbed        \* the words that an aborting transaction has reset

gateVars == <<epoch, members, since>>
controlVars == <<acs, txRead, saved, accessedWrite, linked>>
memVars == <<readCopy, writeCopy, modified>>
callVars == <<word, ops>>
histVars == <<snapshot, seen, wrote, scrubbed>>
vars == <<gateVars, controlVars, memVars, pc, callVars, accessed, crashed, histVars>>

Gate == INSTANCE EpochGate WITH Threads <- Tx

Content == Tx \union {NoTx}
Acs == {"null", "first", "more"} \union Tx

ReadLabels == {"casRead", "setTxRead", "readFields", "readLink", "readSave",
               "cmpTxRead", "casMore", "loadMore", "copyRead", "copyOwn"}
WriteLabels == {"casNull", "casFirst", "testSaved", "writeFields", "writeLink",
                "writeSave", "testWritten", "insertWritten", "copyWrite"}
UndoLabels == {"undoSaved", "undoTxRead", "undoWritten", "undoAcs"}
Labels == {"new", "run", "leaveCommitted", "leaveAborted", "committed", "aborted"}
              \union ReadLabels \union WriteLabels \union UndoLabels

NothingSeen == [w \in Words |-> "unread"]
Zeroed == [w \in Words |-> NoTx]

TypeOK ==
    /\ Gate!GateTypeOK
    /\ acs \in [Words -> Acs]
    /\ txRead \in [Words -> Content]
    /\ saved \in [Words -> BOOLEAN]
    /\ accessedWrite \in [Words -> BOOLEAN]
    /\ linked \in [Words -> BOOLEAN]
    /\ readCopy \in [Words -> Content]
    /\ writeCopy \in [Words -> Content]
    /\ modified \in SUBSET Words
    /\ pc \in [Tx -> Labels]
    /\ word \in [Tx -> Words \union {"none"}]
    /\ ops \in [Tx -> Nat]
    /\ accessed \in [Tx -> Seq(Words)]
    /\ crashed \in BOOLEAN
    /\ snapshot \in [Tx -> [Words -> Content]]
    /\ seen \in [Tx -> [Words -> Content \union {"unread"}]]
    /\ wrote \in [Tx -> SUBSET Words]
    /\ scrubbed \in SUBSET Words

\* tm_create: both copies zeroed, the controls calloc'ed.
Init ==
    /\ Gate!GateInit
    /\ acs = [w \in Words |-> "null"]
    /\ txRead = Zeroed
    /\ saved = [w \in Words |-> FALSE]
    /\ accessedWrite = [w \in Words |-> FALSE]
    /\ linked = [w \in Words |-> FALSE]
    /\ readCopy = Zeroed
    /\ writeCopy = Zeroed
    /\ modified = {}
    /\ pc = [t \in Tx |-> "new"]
    /\ word = [t \in Tx |-> "none"]
    /\ ops = [t \in Tx |-> 0]
    /\ accessed = [t \in Tx |-> <<>>]
    /\ crashed = FALSE
    /\ snapshot = [t \in Tx |-> Zeroed]
    /\ seen = [t \in Tx |-> NothingSeen]
    /\ wrote = [t \in Tx |-> {}]
    /\ scrubbed = {}

Goto(t, from, to) == pc[t] = from /\ pc' = [pc EXCEPT ![t] = to]

\* Where a transaction goes after the last line of read_word or write_word.
WordDone(t) == word' = [word EXCEPT ![t] = "none"] /\ UNCHANGED ops

-----------------------------------------------------------------------------
(* tm_begin *)

Begin(t) ==
    /\ Goto(t, "new", "run")
    /\ Gate!JoinEmpty(t) \/ Gate!JoinLater(t)
    /\ snapshot' = [snapshot EXCEPT ![t] = readCopy]
    /\ UNCHANGED <<controlVars, memVars, callVars, accessed, crashed, seen, wrote, scrubbed>>

BeginBlocked(t) ==
    /\ pc[t] = "new"
    /\ Gate!Block(t)
    /\ UNCHANGED <<controlVars, memVars, pc, callVars, accessed, crashed, histVars>>

-----------------------------------------------------------------------------
(* read_word *)

ReadOnlyRead(t, w) ==
    /\ pc[t] = "run" /\ t \in ReadOnly
    /\ ops[t] < MaxOps[t]
    /\ ops' = [ops EXCEPT ![t] = @ + 1]
    /\ seen' = [seen EXCEPT ![t][w] = readCopy[w]]
    /\ UNCHANGED <<gateVars, controlVars, memVars, pc, word, accessed, crashed,
                   snapshot, wrote, scrubbed>>

\* The call, up to the test that the word is the transaction's own.
ReadCall(t, w) ==
    /\ t \notin ReadOnly
    /\ ops[t] < MaxOps[t]
    /\ Goto(t, "run", IF acs[w] = t THEN "copyOwn" ELSE "casRead")
    /\ word' = [word EXCEPT ![t] = w]
    /\ ops' = [ops EXCEPT ![t] = @ + 1]
    /\ UNCHANGED <<gateVars, controlVars, memVars, accessed, crashed, histVars>>

ReadReturns(t, v) ==
    /\ seen' = [seen EXCEPT ![t][word[t]] = v]
    /\ WordDone(t)
    /\ UNCHANGED <<snapshot, wrote, scrubbed>>

\* memcpy from or to a copy whose pointer is still NULL.
Crash(t) ==
    /\ pc[t] \in {"copyOwn", "copyRead", "copyWrite"}
    /\ ~linked[word[t]]
    /\ crashed' = TRUE
    /\ UNCHANGED <<gateVars, controlVars, memVars, pc, callVars, accessed, histVars>>

\* Slip: the transaction's own word is read from the read copy.
CopyOwnStale(t) ==
    /\ Goto(t, "copyOwn", "run")
    /\ linked[word[t]]
    /\ ReadReturns(t, readCopy[word[t]])
    /\ UNCHANGED <<gateVars, controlVars, memVars, accessed, crashed>>

CopyOwn(t) ==
    /\ Goto(t, "copyOwn", "run")
    /\ linked[word[t]]
    /\ ReadReturns(t, writeCopy[word[t]])
    /\ UNCHANGED <<gateVars, controlVars, memVars, accessed, crashed>>

\* Slip: a word that somebody else read is read from the write copy.
CopyReadDirty(t) ==
    /\ Goto(t, "copyRead", "run")
    /\ linked[word[t]]
    /\ ReadReturns(t, writeCopy[word[t]])
    /\ UNCHANGED <<gateVars, controlVars, memVars, accessed, crashed>>

CopyRead(t) ==
    /\ Goto(t, "copyRead", "run")
    /\ linked[word[t]]
    /\ ReadReturns(t, readCopy[word[t]])
    /\ UNCHANGED <<gateVars, controlVars, memVars, accessed, crashed>>

CasRead(t) ==
    LET w == word[t]
        free == acs[w] = "null"
    IN  /\ Goto(t, "casRead", IF free THEN "setTxRead" ELSE "cmpTxRead")
        /\ acs' = IF free THEN [acs EXCEPT ![w] = "first"] ELSE acs
        /\ UNCHANGED <<gateVars, txRead, saved, accessedWrite, linked, memVars, callVars,
                       accessed, crashed, histVars>>

\* Slip: the access type goes where the reader's id belongs.
SetTxReadAcs(t) ==
    /\ Goto(t, "setTxRead", "readFields")
    /\ txRead' = [txRead EXCEPT ![word[t]] = acs[word[t]]]
    /\ UNCHANGED <<gateVars, acs, saved, accessedWrite, linked, memVars, callVars,
                   accessed, crashed, histVars>>

SetTxRead(t) ==
    /\ Goto(t, "setTxRead", "readFields")
    /\ txRead' = [txRead EXCEPT ![word[t]] = t]
    /\ UNCHANGED <<gateVars, acs, saved, accessedWrite, linked, memVars, callVars,
                   accessed, crashed, histVars>>

\* The pointers and saved are plain stores, which the compiler may exchange:
\* gcc -O2, the build's flag, stores saved first.
ReadSaveFirst(t) ==
    /\ Goto(t, "readFields", "readLink")
    /\ saved' = [saved EXCEPT ![word[t]] = TRUE]
    /\ UNCHANGED <<gateVars, acs, txRead, accessedWrite, linked, memVars, callVars,
                   accessed, crashed, histVars>>

ReadLinkFirst(t) ==
    /\ Goto(t, "readFields", "readSave")
    /\ linked' = [linked EXCEPT ![word[t]] = TRUE]
    /\ UNCHANGED <<gateVars, acs, txRead, saved, accessedWrite, memVars, callVars,
                   accessed, crashed, histVars>>

\* The second of the two stores, the insertion in accessed_words, the memcpy.
FirstReadDone(t) ==
    /\ accessed' = [accessed EXCEPT ![t] = Append(@, word[t])]
    /\ ReadReturns(t, readCopy[word[t]])
    /\ UNCHANGED <<gateVars, acs, txRead, accessedWrite, memVars, crashed>>

ReadLink(t) ==
    /\ Goto(t, "readLink", "run")
    /\ linked' = [linked EXCEPT ![word[t]] = TRUE]
    /\ FirstReadDone(t)
    /\ UNCHANGED saved

ReadSave(t) ==
    /\ Goto(t, "readSave", "run")
    /\ saved' = [saved EXCEPT ![word[t]] = TRUE]
    /\ FirstReadDone(t)
    /\ UNCHANGED linked

CmpTxRead(t) ==
    /\ Goto(t, "cmpTxRead", IF txRead[word[t]] = t THEN "copyRead" ELSE "casMore")
    /\ UNCHANGED <<gateVars, controlVars, memVars, callVars, accessed, crashed, histVars>>

CasMore(t) ==
    LET w == word[t]
        once == acs[w] = "first"
    IN  /\ Goto(t, "casMore", IF once THEN "copyRead" ELSE "loadMore")
        /\ acs' = IF once THEN [acs EXCEPT ![w] = "more"] ELSE acs
        /\ UNCHANGED <<gateVars, txRead, saved, accessedWrite, linked, memVars, callVars,
                       accessed, crashed, histVars>>

LoadMore(t) ==
    /\ Goto(t, "loadMore", "copyRead")
    /\ acs[word[t]] = "more"
    /\ UNCHANGED <<gateVars, controlVars, memVars, callVars, accessed, crashed, histVars>>

\* Slip: the reader waits for the word's owner instead of aborting.
ReadRetries(t) ==
    /\ Goto(t, "loadMore", "casRead")
    /\ acs[word[t]] # "more"
    /\ UNCHANGED <<gateVars, controlVars, memVars, callVars, accessed, crashed, histVars>>

\* read_word returns false: tm_read marks the transaction and calls tm_end.
ReadFails(t) ==
    /\ Goto(t, "loadMore", "undoSaved")
    /\ acs[word[t]] # "more"
    /\ WordDone(t)
    /\ UNCHANGED <<gateVars, controlVars, memVars, accessed, crashed, histVars>>

-----------------------------------------------------------------------------
(* write_word *)

WriteCall(t, w) ==
    /\ t \notin ReadOnly
    /\ ops[t] < MaxOps[t]
    /\ Goto(t, "run", IF acs[w] = t THEN "copyWrite" ELSE "casNull")
    /\ word' = [word EXCEPT ![t] = w]
    /\ ops' = [ops EXCEPT ![t] = @ + 1]
    /\ UNCHANGED <<gateVars, controlVars, memVars, accessed, crashed, histVars>>

\* Slip: the word is taken whoever owns it, unless several transactions read it.
CasNullSteals(t) ==
    LET w == word[t]
        free == acs[w] # "more"
    IN  /\ Goto(t, "casNull", IF free THEN "testSaved" ELSE "casFirst")
        /\ acs' = IF free THEN [acs EXCEPT ![w] = t] ELSE acs
        /\ UNCHANGED <<gateVars, txRead, saved, accessedWrite, linked, memVars, callVars,
                       accessed, crashed, histVars>>

CasNull(t) ==
    LET w == word[t]
        free == acs[w] = "null"
    IN  /\ Goto(t, "casNull", IF free THEN "testSaved" ELSE "casFirst")
        /\ acs' = IF free THEN [acs EXCEPT ![w] = t] ELSE acs
        /\ UNCHANGED <<gateVars, txRead, saved, accessedWrite, linked, memVars, callVars,
                       accessed, crashed, histVars>>

\* FIRST_READ does not say who the reader is: anybody may write after it.
CasFirst(t) ==
    /\ Goto(t, "casFirst", "testSaved")
    /\ acs[word[t]] = "first"
    /\ acs' = [acs EXCEPT ![word[t]] = t]
    /\ UNCHANGED <<gateVars, txRead, saved, accessedWrite, linked, memVars, callVars,
                   accessed, crashed, histVars>>

\* write_word returns false: tm_write marks the transaction and calls tm_end.
WriteFails(t) ==
    /\ Goto(t, "casFirst", "undoSaved")
    /\ acs[word[t]] # "first"
    /\ WordDone(t)
    /\ UNCHANGED <<gateVars, controlVars, memVars, accessed, crashed, histVars>>

TestSaved(t) ==
    /\ Goto(t, "testSaved", IF saved[word[t]] THEN "testWritten" ELSE "writeFields")
    /\ UNCHANGED <<gateVars, controlVars, memVars, callVars, accessed, crashed, histVars>>

\* Two plain stores again, in either order.
WriteSaveFirst(t) ==
    /\ Goto(t, "writeFields", "writeLink")
    /\ saved' = [saved EXCEPT ![word[t]] = TRUE]
    /\ UNCHANGED <<gateVars, acs, txRead, accessedWrite, linked, memVars, callVars,
                   accessed, crashed, histVars>>

WriteLinkFirst(t) ==
    /\ Goto(t, "writeFields", "writeSave")
    /\ linked' = [linked EXCEPT ![word[t]] = TRUE]
    /\ UNCHANGED <<gateVars, acs, txRead, saved, accessedWrite, memVars, callVars,
                   accessed, crashed, histVars>>

WriteLink(t) ==
    /\ Goto(t, "writeLink", "testWritten")
    /\ linked' = [linked EXCEPT ![word[t]] = TRUE]
    /\ UNCHANGED <<gateVars, acs, txRead, saved, accessedWrite, memVars, callVars,
                   accessed, crashed, histVars>>

WriteSave(t) ==
    /\ Goto(t, "writeSave", "testWritten")
    /\ saved' = [saved EXCEPT ![word[t]] = TRUE]
    /\ UNCHANGED <<gateVars, acs, txRead, accessedWrite, linked, memVars, callVars,
                   accessed, crashed, histVars>>

TestWritten(t) ==
    /\ Goto(t, "testWritten", IF accessedWrite[word[t]] THEN "copyWrite" ELSE "insertWritten")
    /\ UNCHANGED <<gateVars, controlVars, memVars, callVars, accessed, crashed, histVars>>

InsertWritten(t) ==
    /\ Goto(t, "insertWritten", "copyWrite")
    /\ accessed' = [accessed EXCEPT ![t] = Append(@, word[t])]
    /\ accessedWrite' = [accessedWrite EXCEPT ![word[t]] = TRUE]
    /\ UNCHANGED <<gateVars, acs, txRead, saved, linked, memVars, callVars, crashed, histVars>>

\* Slip: both copies are written.
CopyWriteBoth(t) ==
    LET w == word[t]
    IN  /\ Goto(t, "copyWrite", "run")
        /\ linked[w]
        /\ writeCopy' = [writeCopy EXCEPT ![w] = t]
        /\ readCopy' = [readCopy EXCEPT ![w] = t]
        /\ wrote' = [wrote EXCEPT ![t] = @ \union {w}]
        /\ seen' = [seen EXCEPT ![t][w] = "unread"]
        /\ WordDone(t)
        /\ UNCHANGED <<gateVars, controlVars, modified, accessed, crashed, snapshot, scrubbed>>

CopyWrite(t) ==
    LET w == word[t]
    IN  /\ Goto(t, "copyWrite", "run")
        /\ linked[w]
        /\ writeCopy' = [writeCopy EXCEPT ![w] = t]
        /\ wrote' = [wrote EXCEPT ![t] = @ \union {w}]
        /\ seen' = [seen EXCEPT ![t][w] = "unread"]
        /\ WordDone(t)
        /\ UNCHANGED <<gateVars, controlVars, readCopy, modified, accessed, crashed,
                       snapshot, scrubbed>>

-----------------------------------------------------------------------------
(* tm_end *)

\* The committing branch: accessed_words go to the region's modified_controls,
\* under modified_controls_lock.
EndCommit(t) ==
    /\ Goto(t, "run", "leaveCommitted")
    /\ modified' = modified \union Range(accessed[t])
    /\ UNCHANGED <<gateVars, controlVars, readCopy, writeCopy, callVars, accessed,
                   crashed, histVars>>

\* The aborting branch: one store after the other on each accessed control,
\* whoever owns it by now.  accessed_epoch, which nothing reads, is left out.
UndoSaved(t) ==
    /\ accessed[t] # <<>>
    /\ Goto(t, "undoSaved", "undoTxRead")
    /\ saved' = [saved EXCEPT ![Head(accessed[t])] = FALSE]
    /\ scrubbed' = scrubbed \union {Head(accessed[t])}
    /\ UNCHANGED <<gateVars, acs, txRead, accessedWrite, linked, memVars, callVars,
                   accessed, crashed, snapshot, seen, wrote>>

UndoTxRead(t) ==
    /\ Goto(t, "undoTxRead", "undoWritten")
    /\ txRead' = [txRead EXCEPT ![Head(accessed[t])] = NoTx]
    /\ UNCHANGED <<gateVars, acs, saved, accessedWrite, linked, memVars, callVars,
                   accessed, crashed, histVars>>

\* Slip: accessed_write survives the abort.
UndoKeepsWritten(t) ==
    /\ Goto(t, "undoWritten", "undoAcs")
    /\ UNCHANGED <<gateVars, controlVars, memVars, callVars, accessed, crashed, histVars>>

UndoWritten(t) ==
    /\ Goto(t, "undoWritten", "undoAcs")
    /\ accessedWrite' = [accessedWrite EXCEPT ![Head(accessed[t])] = FALSE]
    /\ UNCHANGED <<gateVars, acs, txRead, saved, linked, memVars, callVars, accessed,
                   crashed, histVars>>

UndoAcs(t) ==
    /\ Goto(t, "undoAcs", "undoSaved")
    /\ acs' = [acs EXCEPT ![Head(accessed[t])] = "null"]
    /\ accessed' = [accessed EXCEPT ![t] = Tail(@)]
    /\ UNCHANGED <<gateVars, txRead, saved, accessedWrite, linked, memVars, callVars,
                   crashed, histVars>>

UndoDone(t) ==
    /\ accessed[t] = <<>>
    /\ Goto(t, "undoSaved", "leaveAborted")
    /\ UNCHANGED <<gateVars, controlVars, memVars, callVars, accessed, crashed, histVars>>

-----------------------------------------------------------------------------
(* leave, and commit for the last one *)

\* tm_end's clean up: the transaction's struct and lists are freed.
Left(t) ==
    /\ pc[t] \in {"leaveCommitted", "leaveAborted"}
    /\ pc' = [pc EXCEPT ![t] = IF @ = "leaveCommitted" THEN "committed" ELSE "aborted"]
    /\ accessed' = [accessed EXCEPT ![t] = <<>>]
    /\ ops' = [ops EXCEPT ![t] = 0]
    /\ seen' = [seen EXCEPT ![t] = NothingSeen]
    /\ snapshot' = [snapshot EXCEPT ![t] = Zeroed]
    /\ UNCHANGED <<word, linked, writeCopy, crashed>>

LeaveOthers(t) ==
    /\ Gate!LeaveOthers(t)
    /\ Left(t)
    /\ UNCHANGED <<acs, txRead, saved, accessedWrite, readCopy, modified, wrote, scrubbed>>

ResetModified(f, v) == [w \in Words |-> IF w \in modified THEN v ELSE f[w]]

\* Slip: the bit of MORE_READ is tested instead of the write bit.
WrittenByManyReaders(w) == acs[w] = "more"

\* ACS_TYPE has the write bit.
Written(w) == acs[w] \in Tx

LeaveLast(t) ==
    /\ Gate!CloseBatch(t)
    /\ Left(t)
    /\ readCopy' = [w \in Words |-> IF w \in modified /\ Written(w) THEN writeCopy[w]
                                                                    ELSE readCopy[w]]
    /\ acs' = ResetModified(acs, "null")
    /\ accessedWrite' = ResetModified(accessedWrite, FALSE)
    /\ saved' = ResetModified(saved, FALSE)
    /\ txRead' = ResetModified(txRead, NoTx)
    /\ modified' = {}
    /\ wrote' = [u \in Tx |-> {}]
    /\ scrubbed' = {}

-----------------------------------------------------------------------------

Reads(t) ==
    \/ \E w \in Words : ReadOnlyRead(t, w) \/ ReadCall(t, w)
    \/ CopyOwn(t) \/ CopyRead(t) \/ CasRead(t) \/ SetTxRead(t) \/ ReadSaveFirst(t)
    \/ ReadLinkFirst(t) \/ ReadLink(t) \/ ReadSave(t) \/ CmpTxRead(t) \/ CasMore(t) \/ LoadMore(t)
    \/ ReadFails(t)

Writes(t) ==
    \/ \E w \in Words : WriteCall(t, w)
    \/ CasNull(t) \/ CasFirst(t) \/ WriteFails(t) \/ TestSaved(t) \/ WriteSaveFirst(t)
    \/ WriteLinkFirst(t) \/ WriteLink(t) \/ WriteSave(t) \/ TestWritten(t)
    \/ InsertWritten(t) \/ CopyWrite(t)

Ends(t) ==
    \/ EndCommit(t)
    \/ UndoSaved(t) \/ UndoTxRead(t) \/ UndoWritten(t) \/ UndoAcs(t) \/ UndoDone(t)
    \/ LeaveOthers(t) \/ LeaveLast(t)

Step(t) == ~crashed /\ (Begin(t) \/ BeginBlocked(t) \/ Reads(t) \/ Writes(t) \/ Ends(t) \/ Crash(t))

Finished == \A t \in Tx : pc[t] \in {"committed", "aborted"}

Done == (Finished \/ crashed) /\ UNCHANGED vars

Next == (\E t \in Tx : Step(t)) \/ Done

Spec == Init /\ [][Next]_vars

\* A thread inside a transaction keeps running it, and ends it.
FairSpec == Spec /\ \A t \in Tx : WF_vars(Step(t))

-----------------------------------------------------------------------------
(* Properties *)

\* Between two batches no word is owned, marked as read or written, or assigned to a
\* first reader: nobody who is gone keeps it locked.  Nothing checks this in the
\* code: commit() resets only the controls that were handed to it.  It may leave
\* saved set; the next batch then trusts the pointers, which are there.
CleanBetweenBatches ==
    members = {} =>
        \A w \in Words :
            /\ acs[w] = "null" /\ ~accessedWrite[w] /\ txRead[w] = NoTx
            /\ saved[w] => linked[w]

\* Every read of a word that the transaction has not written, in a read-only
\* transaction or another, returns the word's value when the batch was joined.
SnapshotReads ==
    \A t \in Tx : \A w \in Words \ wrote[t] : seen[t][w] \in {"unread", snapshot[t][w]}

\* A transaction reads back what it wrote, unless an aborting one reset the word.
ReadsOwnWrites ==
    \A t \in Tx : \A w \in wrote[t] \ scrubbed : seen[t][w] \in {"unread", t}

\* Two transactions never both succeed in writing a word in the same batch,
\* unless an aborting transaction reset the word.
WriteConflictsDetected ==
    \A t, u \in Tx : t # u => wrote[t] \intersect wrote[u] \subseteq scrubbed

BatchEnds == epoch' # epoch

CommittedIn(t) == pc'[t] = "committed"

\* The commit publishes the writes of the transactions for which tm_end says
\* true, on every word that no aborting transaction of the batch reset.
CommittedWritesPublished ==
    [][BatchEnds => \A t \in Tx : \A w \in wrote[t] \ scrubbed :
            CommittedIn(t) => readCopy'[w] = t]_vars

\* Read copies change only when a batch ends, and only to the value of a
\* transaction that wrote the word in that batch.
PublishesThisBatch ==
    [][\A w \in Words : readCopy'[w] # readCopy[w] =>
            BatchEnds /\ w \in wrote[readCopy'[w]]]_vars

\* Transactions never block one another for ever: each of them ends, as
\* committed or as aborted, if the process survives.
EveryTransactionEnds == <>(Finished \/ crashed)

(* What the source says and the code does not do: see the README. *)

\* tm_end returns "whether the whole transaction committed", and committed
\* writes get visible to the following transactions' reads.
CommitMeansPublished ==
    [][BatchEnds => \A t \in Tx : \A w \in wrote[t] :
            CommittedIn(t) =>
                \E u \in Tx : w \in wrote[u] /\ CommittedIn(u) /\ readCopy'[w] = u]_vars

\* "Must undo writes and reads": an aborted transaction's value never becomes
\* the content of a word.
AbortedWritesUndone ==
    [][\A w \in Words : readCopy'[w] # readCopy[w] => CommittedIn(readCopy'[w])]_vars

\* tm_read and tm_write are thread-safe: no step dereferences a null pointer.
NoNullAccess == ~crashed
=============================================================================
