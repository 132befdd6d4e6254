----------------------------- MODULE TemplateSTM -----------------------------
(***************************************************************************)
(* The library of template/: the gate of batcher.c, read_word, write_word  *)
(* and the copying part of commit in helper.c, and what tm.c makes of them.*)
(* It differs from 260772 where it matters: remaining is decremented       *)
(* before the lock is taken, reads and writes hold different locks, and    *)
(* the access set is one transaction.  Segments: module TemplateSegments.  *)
(***************************************************************************)
EXTENDS Integers, FiniteSets

CONSTANTS
    Tx,
    ReadOnly,       \* the transactions begun with is_ro
    Words,
    NoTx,           \* id 0 of calloc, no transaction's; and the lock that nobody holds
    MaxOps          \* bound: calls of tm_read and tm_write by a transaction

ASSUME TemplateAssumption ==
    /\ ReadOnly \subseteq Tx /\ NoTx \notin Tx /\ Words # {}
    /\ IsFiniteSet(Tx) /\ MaxOps \in Nat

VARIABLES
    keepWaiting, remaining, epoch,          \* batcher
    readLock, writeLock,
    accessSet, accessedEpoch, written,      \* the control of each word
    linked,         \* its pointers write_word and read_word have been set
    writeCopy, readCopy,    \* the word in segments_write and in segments_read
    modified,       \* modified_controls
    pc, word,       \* each transaction's next step, the word it works on
    accessed,       \* its accessed_words
    ops,
    crashed,        \* a null pointer was followed
    \* history:
    seen, wrote,    \* the words that each transaction has read, has written
    snap,           \* segments_read when it entered
    dirty,          \* it read what neither itself nor an earlier batch has written
    batch           \* the epoch in which it left, committed

gateVars == <<keepWaiting, remaining, epoch>>
lockVars == <<readLock, writeLock>>
controlVars == <<accessSet, accessedEpoch, written, linked>>
copyVars == <<writeCopy, readCopy, modified>>
txVars == <<accessed, ops>>
readVars == <<seen, dirty>>
histVars == <<readVars, wrote, snap, batch>>
vars == <<gateVars, lockVars, controlVars, copyVars, pc, word, txVars, crashed, histVars>>

Values == Tx \union {NoTx}      \* a word holds the last transaction that wrote it

Labels == {"enter", "waiting", "woken", "run",
           "readEpoch", "readOwner", "readMark", "readStamp", "readOwn", "readLink", "readCopy",
           "writeEpoch", "writeOwner", "writeAlone", "writeOthers", "writeMark", "writeStamp",
           "writeOwn", "writeLink", "writeSet", "writeCopy",
           "undo", "undoEpoch", "leave", "settle", "committed", "aborted"}
Inside(t) == pc[t] \notin {"enter", "waiting", "woken", "settle", "committed", "aborted"}
Over(t) == pc[t] \in {"committed", "aborted"}

TypeOK ==
    /\ keepWaiting \in BOOLEAN /\ crashed \in BOOLEAN
    /\ remaining = Cardinality({t \in Tx : Inside(t)})
    /\ epoch \in 1 .. Cardinality(Tx) + 1
    /\ readLock \in Values /\ writeLock \in Values
    /\ accessSet \in [Words -> Values] /\ linked \in [Words -> BOOLEAN]
    /\ accessedEpoch \in [Words -> 0 .. epoch] /\ written \in [Words -> 0 .. epoch]
    /\ writeCopy \in [Words -> Values] /\ readCopy \in [Words -> Values]
    /\ modified \subseteq Words
    /\ pc \in [Tx -> Labels] /\ word \in [Tx -> Words]
    /\ accessed \in [Tx -> SUBSET Words] /\ ops \in [Tx -> 0 .. MaxOps]

Init ==
    /\ keepWaiting = TRUE /\ remaining = 0 /\ epoch = 1
    /\ readLock = NoTx /\ writeLock = NoTx
    /\ accessSet = [w \in Words |-> NoTx] /\ linked = [w \in Words |-> FALSE]
    /\ accessedEpoch = [w \in Words |-> 0] /\ written = [w \in Words |-> 0]
    /\ writeCopy = [w \in Words |-> NoTx] /\ readCopy = [w \in Words |-> NoTx]
    /\ modified = {}
    /\ pc = [t \in Tx |-> "enter"] /\ word \in [Tx -> {CHOOSE w \in Words : TRUE}]
    /\ accessed = [t \in Tx |-> {}] /\ ops = [t \in Tx |-> 0]
    /\ crashed = FALSE
    /\ seen = [t \in Tx |-> {}] /\ wrote = [t \in Tx |-> {}]
    /\ snap = [t \in Tx |-> readCopy] /\ dirty = [t \in Tx |-> FALSE]
    /\ batch = [t \in Tx |-> 0]

Goto(t, from, to) == pc[t] = from /\ pc' = [pc EXCEPT ![t] = to]

-----------------------------------------------------------------------------
(* enter and leave, each under lock_cond but for the decrement *)

Counted(t) ==
    /\ pc' = [pc EXCEPT ![t] = "run"]
    /\ remaining' = remaining + 1
    /\ snap' = [snap EXCEPT ![t] = readCopy]

\* Slip: who waited for the batch to end is not counted in the next one.
WakeUncounted(t) ==
    /\ pc[t] = "woken"
    /\ pc' = [pc EXCEPT ![t] = IF keepWaiting THEN "waiting" ELSE "run"]
    /\ snap' = IF keepWaiting THEN snap ELSE [snap EXCEPT ![t] = readCopy]
    /\ UNCHANGED gateVars

Enter(t) ==
    /\ pc[t] = "enter"
    /\ IF remaining > 0
       THEN /\ pc' = [pc EXCEPT ![t] = "waiting"]
            /\ keepWaiting' = TRUE
            /\ UNCHANGED <<remaining, epoch, snap>>
       ELSE Counted(t) /\ UNCHANGED <<keepWaiting, epoch>>

SpuriousWakeup(t) == Goto(t, "waiting", "woken") /\ UNCHANGED <<gateVars, snap>>

Wake(t) ==
    /\ pc[t] = "woken"
    /\ IF keepWaiting
       THEN pc' = [pc EXCEPT ![t] = "waiting"] /\ UNCHANGED <<gateVars, snap>>
       ELSE Counted(t) /\ UNCHANGED <<keepWaiting, epoch>>

Decrement(t) ==
    /\ Goto(t, "leave", "settle")
    /\ remaining' = remaining - 1
    /\ UNCHANGED <<keepWaiting, epoch, snap>>

OnlyGate == UNCHANGED <<lockVars, controlVars, copyVars, word, txVars, crashed, readVars, wrote, batch>>

GateStep(t) == (Enter(t) \/ Wake(t) \/ Decrement(t)) /\ OnlyGate

AfterLeave(t) == IF batch[t] > 0 THEN "committed" ELSE "aborted"

\* commit(): the words of modified_controls that were written in this epoch.
CommitWords ==
    /\ readCopy' = [w \in Words |->
            IF w \in modified /\ written[w] = epoch THEN writeCopy[w] ELSE readCopy[w]]
    /\ modified' = {}

\* Slip: whoever leaves ends the batch.
SettleAnyway(t) ==
    /\ pc[t] = "settle"
    /\ CommitWords
    /\ epoch' = epoch + 1
    /\ keepWaiting' = FALSE
    /\ pc' = [s \in Tx |-> IF s = t THEN AfterLeave(t)
                           ELSE IF pc[s] = "waiting" THEN "woken" ELSE pc[s]]
    /\ UNCHANGED <<remaining, lockVars, controlVars, writeCopy, word, txVars, crashed, histVars>>

\* Slip: nobody is woken.
SettleQuietly(t) ==
    /\ pc[t] = "settle"
    /\ pc' = [pc EXCEPT ![t] = AfterLeave(t)]
    /\ IF remaining = 0
       THEN CommitWords /\ epoch' = epoch + 1 /\ keepWaiting' = FALSE
       ELSE UNCHANGED <<keepWaiting, epoch, readCopy, modified>>
    /\ UNCHANGED <<remaining, lockVars, controlVars, writeCopy, word, txVars, crashed, histVars>>

\* The last one commits, ends the epoch and wakes those who wait.
Settle(t) ==
    /\ pc[t] = "settle"
    /\ IF remaining = 0
       THEN /\ CommitWords
            /\ epoch' = epoch + 1
            /\ keepWaiting' = FALSE
            /\ pc' = [s \in Tx |-> IF s = t THEN AfterLeave(t)
                                   ELSE IF pc[s] = "waiting" THEN "woken" ELSE pc[s]]
       ELSE pc' = [pc EXCEPT ![t] = AfterLeave(t)] /\ UNCHANGED <<keepWaiting, epoch, readCopy, modified>>
    /\ UNCHANGED <<remaining, lockVars, controlVars, writeCopy, word, txVars, crashed, histVars>>

-----------------------------------------------------------------------------
(* read_word.  read_lock does not exclude the writers, nor write_lock the  *)
(* readers, and an abort takes neither: every access to a control is a     *)
(* step of its own.                                                        *)

Calls(t, w) ==
    /\ pc[t] = "run" /\ ops[t] < MaxOps
    /\ ops' = [ops EXCEPT ![t] = @ + 1]
    /\ word' = [word EXCEPT ![t] = w]

\* t reads value v; what it may read is its own write, or else what was there when
\* it entered.
Gets(t, w, v) ==
    /\ seen' = [seen EXCEPT ![t] = @ \union {w}]
    /\ dirty' = [dirty EXCEPT ![t] = @ \/ v # IF w \in wrote[t] THEN t ELSE snap[t][w]]

ReadReadOnly(t, w) ==
    /\ t \in ReadOnly /\ Calls(t, w)
    /\ Gets(t, w, readCopy[w])
    /\ UNCHANGED <<readLock, controlVars, pc, accessed, crashed>>

InEpoch(t) == accessedEpoch[word[t]] = epoch
IsOwner(t) == accessSet[word[t]] = t

ReadTest(t, w) ==
    /\ t \notin ReadOnly /\ Calls(t, w)
    /\ readLock = NoTx /\ readLock' = t
    /\ pc' = [pc EXCEPT ![t] = IF written[w] = epoch THEN "readEpoch" ELSE "readMark"]
    /\ UNCHANGED <<controlVars, accessed, crashed, readVars>>

ReadEpoch(t) ==
    /\ \/ InEpoch(t) /\ Goto(t, "readEpoch", "readOwner") /\ UNCHANGED readLock
       \/ ~InEpoch(t) /\ Goto(t, "readEpoch", "undo") /\ readLock' = NoTx
    /\ UNCHANGED <<controlVars, word, txVars, crashed, readVars>>

ReadOwner(t) ==
    /\ \/ IsOwner(t) /\ Goto(t, "readOwner", "run") /\ Gets(t, word[t], writeCopy[word[t]])
       \/ ~IsOwner(t) /\ Goto(t, "readOwner", "undo") /\ UNCHANGED readVars
    /\ readLock' = NoTx
    /\ UNCHANGED <<controlVars, word, txVars, crashed>>

ReadMark(t) ==
    /\ \/ ~InEpoch(t) /\ Goto(t, "readMark", "readStamp") /\ UNCHANGED readLock
       \/ InEpoch(t) /\ Goto(t, "readMark", "readCopy") /\ readLock' = NoTx
    /\ UNCHANGED <<controlVars, word, txVars, crashed, readVars>>

ReadStamp(t) ==
    /\ Goto(t, "readStamp", "readOwn")
    /\ accessedEpoch' = [accessedEpoch EXCEPT ![word[t]] = epoch]
    /\ readLock' = NoTx
    /\ UNCHANGED <<accessSet, written, linked, word, txVars, crashed, readVars>>

ReadOwn(t) ==
    /\ Goto(t, "readOwn", "readLink")
    /\ accessSet' = [accessSet EXCEPT ![word[t]] = t]
    /\ UNCHANGED <<readLock, accessedEpoch, written, linked, word, txVars, crashed, readVars>>

ReadLink(t) ==
    /\ Goto(t, "readLink", "readCopy")
    /\ linked' = [linked EXCEPT ![word[t]] = TRUE]
    /\ accessed' = [accessed EXCEPT ![t] = @ \union {word[t]}]
    /\ UNCHANGED <<readLock, accessSet, accessedEpoch, written, word, ops, crashed, readVars>>

ReadCopy(t) ==
    /\ Goto(t, "readCopy", "run")
    /\ crashed' = ~linked[word[t]]
    /\ Gets(t, word[t], readCopy[word[t]])
    /\ UNCHANGED <<readLock, controlVars, word, txVars>>

ReadStep(t) ==
    /\ \/ \E w \in Words : ReadReadOnly(t, w) \/ ReadTest(t, w)
       \/ ReadEpoch(t) \/ ReadOwner(t) \/ ReadMark(t) \/ ReadStamp(t)
       \/ ReadOwn(t) \/ ReadLink(t) \/ ReadCopy(t)
    /\ UNCHANGED <<gateVars, writeLock, copyVars, wrote, snap, batch>>

-----------------------------------------------------------------------------
(* write_word *)

WriteTest(t, w) ==
    /\ t \notin ReadOnly /\ Calls(t, w)
    /\ writeLock = NoTx /\ writeLock' = t
    /\ pc' = [pc EXCEPT ![t] = IF written[w] = epoch THEN "writeEpoch" ELSE "writeAlone"]
    /\ UNCHANGED <<controlVars, accessed, crashed, writeCopy, wrote>>

\* One of the tests under write_lock, and where it leads.
WriteBranch(t, from, test, yes, no) ==
    /\ Goto(t, from, IF test THEN yes ELSE no)
    /\ writeLock' = IF pc'[t] \in {"undo", "writeCopy"} THEN NoTx ELSE t
    /\ UNCHANGED <<controlVars, word, txVars, crashed, writeCopy, wrote>>

WriteEpoch(t) == WriteBranch(t, "writeEpoch", InEpoch(t), "writeOwner", "undo")
WriteOwner(t) == WriteBranch(t, "writeOwner", IsOwner(t), "writeCopy", "undo")
WriteAlone(t) == WriteBranch(t, "writeAlone", InEpoch(t), "writeOthers", "writeMark")
WriteOthers(t) == WriteBranch(t, "writeOthers", IsOwner(t), "writeMark", "undo")
WriteMark(t) == WriteBranch(t, "writeMark", InEpoch(t), "writeSet", "writeStamp")

WriteStamp(t) ==
    /\ Goto(t, "writeStamp", "writeOwn")
    /\ accessedEpoch' = [accessedEpoch EXCEPT ![word[t]] = epoch]
    /\ UNCHANGED <<writeLock, accessSet, written, linked, word, txVars, crashed, writeCopy, wrote>>

WriteOwn(t) ==
    /\ Goto(t, "writeOwn", "writeLink")
    /\ accessSet' = [accessSet EXCEPT ![word[t]] = t]
    /\ UNCHANGED <<writeLock, accessedEpoch, written, linked, word, txVars, crashed, writeCopy, wrote>>

WriteLink(t) ==
    /\ Goto(t, "writeLink", "writeSet")
    /\ linked' = [linked EXCEPT ![word[t]] = TRUE]
    /\ accessed' = [accessed EXCEPT ![t] = @ \union {word[t]}]
    /\ UNCHANGED <<writeLock, accessSet, accessedEpoch, written, word, ops, crashed, writeCopy, wrote>>

WriteSet(t) ==
    /\ Goto(t, "writeSet", "writeCopy")
    /\ written' = [written EXCEPT ![word[t]] = epoch]
    /\ writeLock' = NoTx
    /\ UNCHANGED <<accessedEpoch, accessSet, linked, word, txVars, crashed, writeCopy, wrote>>

WriteCopy(t) ==
    /\ Goto(t, "writeCopy", "run")
    /\ crashed' = ~linked[word[t]]
    /\ writeCopy' = [writeCopy EXCEPT ![word[t]] = t]
    /\ wrote' = [wrote EXCEPT ![t] = @ \union {word[t]}]
    /\ UNCHANGED <<writeLock, controlVars, word, txVars>>

WriteStep(t) ==
    /\ \/ \E w \in Words : WriteTest(t, w)
       \/ WriteEpoch(t) \/ WriteOwner(t) \/ WriteAlone(t) \/ WriteOthers(t) \/ WriteMark(t)
       \/ WriteStamp(t) \/ WriteOwn(t) \/ WriteLink(t) \/ WriteSet(t) \/ WriteCopy(t)
    /\ UNCHANGED <<gateVars, readLock, readCopy, modified, readVars, snap, batch>>

-----------------------------------------------------------------------------
(* tm_end *)

\* An aborted transaction takes its marks back, one control after the other.
Undo(t) ==
    /\ \/ /\ accessed[t] = {} /\ Goto(t, "undo", "leave")
          /\ UNCHANGED <<written, word>>
       \/ \E w \in accessed[t] :
          /\ Goto(t, "undo", "undoEpoch")
          /\ word' = [word EXCEPT ![t] = w]
          /\ written' = [written EXCEPT ![w] = 0]
    /\ UNCHANGED <<modified, accessSet, accessedEpoch, linked, accessed, batch>>

UndoEpoch(t) ==
    /\ Goto(t, "undoEpoch", "undo")
    /\ accessedEpoch' = [accessedEpoch EXCEPT ![word[t]] = 0]
    /\ accessed' = [accessed EXCEPT ![t] = @ \ {word[t]}]
    /\ UNCHANGED <<modified, accessSet, written, linked, word, batch>>

Publish(t) ==
    /\ Goto(t, "run", "leave")
    /\ modified' = modified \union accessed[t]
    /\ batch' = [batch EXCEPT ![t] = epoch]
    /\ UNCHANGED <<controlVars, word, accessed>>

EndStep(t) ==
    /\ Undo(t) \/ UndoEpoch(t) \/ Publish(t)
    /\ UNCHANGED <<gateVars, lockVars, writeCopy, readCopy, ops, crashed, readVars, wrote, snap>>

Step(t) == ~crashed /\ (GateStep(t) \/ Settle(t) \/ ReadStep(t) \/ WriteStep(t) \/ EndStep(t))

Ended == crashed \/ \A t \in Tx : Over(t)

Next ==
    \/ \E t \in Tx : Step(t)
    \/ \E t \in Tx : ~crashed /\ SpuriousWakeup(t) /\ OnlyGate
    \/ Ended /\ UNCHANGED vars

Spec == Init /\ [][Next]_vars

\* Threads are scheduled, and a woken one gets the lock; transactions end.
FairSpec == Spec /\ \A t \in Tx : WF_vars(Step(t))

-----------------------------------------------------------------------------
(* Properties *)

\* A read-only transaction reads the memory as it was when it entered, whatever is
\* written and committed meanwhile.
ReadOnlySnapshots == \A t \in ReadOnly : ~dirty[t]

\* Although remaining is decremented, and read, with and without the lock: the epoch
\* only ends when no transaction is inside.
CommitAlone == [][epoch' # epoch => \A t \in Tx : ~Inside(t)]_vars

\* Nobody is left waiting in the gate.
EveryTransactionEnds == <>Ended

\* "[thread-safe] Read operation in the given transaction": what is read is the memory
\* when it began, or its own writes.
SnapshotReads == \A t \in Tx : ~dirty[t]

\* "[thread-safe]": no null pointer is followed.
NoNullAccess == ~crashed

\* "Committed writes in shared memory get visible to the following transactions'
\* reads": when a reader enters, the batch of every writer whose tm_end has returned
\* is over.
EndedIsVisible ==
    [][\A s \in ReadOnly, t \in Tx :
        (~Inside(s) /\ Inside(s)' /\ pc[t] = "committed" /\ wrote[t] # {}) => batch[t] < epoch]_vars

\* A write fails "if at least one other transaction is in the access set".
WritesAlone ==
    \A w \in Words, s, t \in Tx \ ReadOnly :
        (s # t /\ Inside(s) /\ Inside(t) /\ w \in wrote[t]) => w \notin seen[s]
=============================================================================
