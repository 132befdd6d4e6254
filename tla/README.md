# A TLA+ development of the CS-453 transactional memory

The repository holds a course project on software transactional memory. Its
centre is `src/260772`, an implementation of the interface `src/include/tm.h`
for which every word of a region has two copies and a control. Around it are the
skeleton it grew from (`template`), a reference implementation with one lock
(`reference`), the program that grades implementations (`grading`), examples of
synchronisation (`sync-examples`) and an exercise (`playground`).

All of these are modelled here and checked with TLC on small instances; only the
build and submission tools are not. TLAPS proves that all the safety the runs check holds for any
number of threads, transactions, words, segments, accounts and rounds, refinements included (section 5).
Three runs are violations on purpose: they show where the code does not do what its own
comments and its grader say (section 6, which also names what else was seen). Line numbers
below are those of the files under `src/`.

## 1. Inventory

| Component | State | Operations | Met by |
|---|---|---|---|
| Batcher, `260772/batcher.c` | mutex `lock_cond`, condition variable `empty`, `remaining`, `keep_waiting`, `epoch` | `enter`, `leave` | `tm_begin` enters, `tm_end` leaves; `leave` calls back `commit` |
| Word protocol, `260772/helper.c`, `tm.c` | per word: `access_type_id`, `tx_read`, `saved`, `accessed_write`, two pointers, two copies; per region: `modified_controls`; per transaction: `accessed_words` | `tm_begin`, `tm_read`, `tm_write`, `tm_end`, `commit` | the batcher, the segment table |
| Segment table, `260772/helper.c`, `tm.c` | `segments_read/write`, `controls`, `n_segments`, `freed_segments`; per transaction: `alloced_segments`, `freed_segments` | `tm_alloc`, `tm_free`, `next_free`, `seg_free`, the second half of `commit`, `tm_destroy` | the word protocol |
| Lists, `simple_list.c` | array, capacity, length | insert, get, double | all of the above |
| Template, `template/*` | as 260772; a control holds an id (`access_set`) and two epochs, guarded by `read_lock` or `write_lock` | same interface; `leave` decrements outside the lock | harness, workload |
| Reference, `reference/*` | one reader-writer lock, the memory itself, a doubly linked list of segments | same interface | harness, workload |
| Harness, `grading/grading.cpp`, `common.hpp` | `Sync` (status, count of ready workers, error, clock), `Latch`, `Barrier`; the library and region of the moment | load, create, start and judge a round, destroy, unload; `bounded_run` | workload, any library |
| Workload, `grading/workload.hpp`, `transactional.hpp` | a bank in shared memory, a counter in its first word | short, long and allocating transactions, each retried until it commits; the check | any library |
| Examples, `sync-examples/*` | a counter, a leader per round, a bounded buffer; a lock | threads with and without locks, atomics, condition variables | - |
| Playground, `playground/*` | a counter and a lock to be completed | threads that increment | - |
| Submission, builds | - | - | - |

### How they interact

A worker thread begins a transaction (`enter`), reads and writes words, and ends
it (`leave`). Threads inside the batcher form a batch. The last one out runs
`commit` under the batcher's mutex: it copies every written word from the write
copy to the read copy and resets the controls. A conflict makes `tm_read` or
`tm_write` call `tm_end` in its aborting branch and return false; the retry is
the caller's (`transactional.hpp`).

The grading program evaluates libraries one after another. `main` loads one, has it
create a region, hands it to `measure`, destroys the region and unloads the library; calls
that may hang run in `bounded_run`. `measure` is a master with worker threads, in
rounds: initialization, repetitions, check. The bank of the workload lives in the
region and is worked on by transactions only. In the check the workers meet at a barrier.

### What is hard

- *The gate.* A newcomer, a waiter that has been woken but has not run yet, and
  the last leaver share `keep_waiting`; condition variables may wake without a
  signal.
- *Controls.* A control is taken by compare-and-swap, but its other fields are
  plain stores afterwards; the ownership test and the copy are separate steps.
- *Aborts.* An abort resets the controls in its list one store at a time,
  without asking who owns them by then, while the batch runs on.
- *Hand-over.* What `commit` copies and resets is only what committing
  transactions have put in `modified_controls`.
- *Allocation.* Indices are reserved by a counter that aborts decrement.
- *The template.* The decrement of `remaining` and the test of it are apart; readers and
  writers of one control hold different locks, or none.
- *Rounds.* One status word, one counter and one latch serve every round; a fast
  worker waits for the next round while a slow one is still in this one; the master may give
  up. The barrier reuses its two atomics in the same way.
- *Waiting without a predicate.* `bounded_run` waits once, for a wakeup that may be spurious.
- *Stale arguments.* The bank's workers draw accounts from a count that others have made
  old, and a retried transfer has changed its own arguments.

### What makes each component correct

| Component | Properties |
|---|---|
| Batcher | `remaining` counts the members; the commit runs alone; no waiter is lost; a blocked thread joins a later batch; batches close; all are served |
| Word protocol | reads are snapshots; own writes are read back; write conflicts are detected; what is committed is published, and nothing else; no control stays owned, marked or assigned between batches; every transaction ends |
| Segment table | no live index is handed out twice; freed segments are freed once, when nobody reads them; destruction frees all but a few |
| Template | epochs end only when nobody is inside; read-only transactions read snapshots; every transaction ends; aborts and destruction release; the count of segments does not lead outside the table |
| Reference | it is a serial memory: transactions are atomic and see a fixed memory; the list holds what is allocated; every transaction ends |
| Harness | nobody runs a round before all have come to it, nobody is left in it; the verdict of a round is that of its own workers; no wakeup is lost; a region is measured only when it exists; a process that returns has cleaned up |
| Workload | the bank keeps its money; a correct library is never accused, a lost update never goes unnoticed; runs end |
| Examples | counts are exact, one leader is elected, the buffer is first-in first-out - where the example's comment says so, and no worse than it must be elsewhere |

`PROJECT.json` lists every component with its status and every hazard at its
line, with the properties that would show it going wrong. Two parts stay partly modelled:
of the region's life cycle, `tm_start`, `tm_size` and `tm_align` return constants and failing
allocations of `tm_create` are left out; of the lists, growing by `realloc` is.

## 2. Modules

| Module | Extends / instantiates | What it is |
|---|---|---|
| `EpochGate` | - | what the batcher promises, without locks: batches, one per epoch |
| `Batcher` | instantiates `EpochGate` | `enter` and `leave`, one shared access per step |
| `MCBatcher` | `Batcher` | constants for TLC |
| `BatcherProofs` | `Batcher`, `TLAPS` | theorems about `Batcher`, the refinement of `EpochGate` among them |
| `DualVersionedSTM` | instantiates `EpochGate` | the word protocol inside the gate |
| `MCDualVersionedSTM` | `DualVersionedSTM` | constants for TLC |
| `SegmentTable` | instantiates `EpochGate` | allocation, freeing and destruction of segments inside the gate |
| `MCSegmentTable` | `SegmentTable` | symmetry for TLC |
| `STMProofs` | `DualVersionedSTM`, `TLAPS` | theorems about who holds a control and who will reset it, what reads return and what batches publish |
| `SegmentTableProofs` | `SegmentTable`, `TLAPS` | theorems about whose segment an index holds, and what is left |
| `TemplateSTM` | - | the template's gate and word protocol |
| `TemplateProofs` | `TemplateSTM`, `TLAPS` | theorems about its count, its epochs and its read-only transactions |
| `TemplateSegments`, `MCTemplateSegments` | - | the template's segments; symmetry for TLC |
| `TemplateSegmentsProofs` | `TemplateSegments`, `TLAPS` | theorems about its count of segments, and what is left |
| `SerialMemory` | - | what a transactional memory promises to the grader |
| `ReferenceSTM` | instantiates `SerialMemory` | the reference library, which implements it |
| `ReferenceProofs` | `ReferenceSTM`, `TLAPS` | theorems: it does, and its list is one |
| `Bank` | instantiates `SerialMemory` | the workload, which relies on it |
| `SyncPoint` | - | what a barrier promises |
| `SpinBarrier` | instantiates `SyncPoint` | the grader's barrier, which implements it |
| `CheckPhase` | instantiates `SyncPoint` | the check of the bank, which relies on it |
| `RoundSync` | - | `measure` with `Sync`, `Latch` and `Chrono` |
| `LibraryGrading` | - | the loop of `main` with `bounded_run` |
| `MCGrading` | instantiates the four above and `Bank` | one of the parts, chosen in `Init` |
| `GradingProofs` | `MCGrading`, `TLAPS` | theorems about each of the parts |
| `Counters`, `Elections` | - | the counters with the playground; the elections |
| `BoundedFifo` | - | what a bounded buffer promises |
| `ProducerConsumer` | instantiates `BoundedFifo` | the four producers and consumers |
| `MCExamples` | instantiates the three | one of the programs, chosen in `Init` |
| `ExamplesProofs` | `MCExamples`, `TLAPS` | theorems about each of the programs |

`EpochGate` is the joint. `Batcher` implements it and `DualVersionedSTM` is
written on top of it, so the word protocol does not carry the batcher's locks
and the batcher does not carry the words. `SerialMemory` and `SyncPoint` are joints of the
same kind: what is below implements them, what is above is written over them, and
neither carries the other. The template is on no joint: it does not implement `EpochGate`
(section 6), so its gate is part of its own module.

`MCGrading` and `MCExamples` run parts that do not interact, one per behaviour: `Init` chooses one,
whose variables it initialises, and those of the others stay `"idle"`. `Next`, the fairness and
the properties are those of the part that was chosen. `Parts` says which parts of `MCGrading` may be: the
bank has a run of its own, with two workers, and the other four share one, with three.

### EpochGate

`members` is the batch, `epoch` its number, `since[t]` the epoch that blocked
`t`. `JoinEmpty` is `enter` with `remaining` 0, `Block` is `enter` finding it
positive, `JoinLater` is a waiter let in during a later epoch, `LeaveOthers` is
`leave` for all but the last, `CloseBatch` is `leave` for the last one. A batch
may be joined while it runs, by threads that an earlier one blocked: the broadcast
opens the gate and they come in one after the other. A thread that was blocked
may join only after the epoch has advanced.

### Batcher

| Code | Action |
|---|---|
| `enter`, line 86 | `EnterLock` |
| line 88, and 90 | `TestEmpty`, `TestBusy` |
| lines 92-95 | `CondWait`, `Relock`, `LoopExit`; `SpuriousWakeup` is POSIX's |
| lines 98-99 | `Join` |
| `leave`, line 104 | `LeaveLock` |
| line 105 | `FetchSubOthers` (with the unlock of 115), `FetchSubLast` |
| 108, 111, 112, 113-115 | `CommitCallback`, `BumpEpoch`, `OpenGate`, `Broadcast` |

`mutex` holds the owner, `sleeping` the wait set; a thread in `pc = "wake"` has
been woken and waits for the mutex. `keep_waiting`, `epoch` and `remaining` are
read and written under the mutex only, so that a step that joins an access with
the unlock after it hides no interleaving. `n_blocked` is never used,
`tx_count` gives transactions distinct ids: in `DualVersionedSTM` they are the
elements of `Tx`.

### DualVersionedSTM

A transaction is an element of `Tx` and is used once, as a `struct Transaction`
is. A thread of the program that runs several is several elements. Since one
transaction never waits for another of its own thread, nothing is lost; the order
of a thread's transactions is one of the orders of the model.
Read-only transactions share the id `read_only_tx` and touch no control.

*Data.* A word holds the id of the transaction that wrote it last, `NoTx` at
first: enough to tell whose write is read or published. `acs` is
`access_type_id`: `null`, `first`, `more` or the owner's id, which with
`ACS_CREATE(id, 0, 1, 1)` are the only values the code stores. The two copies'
pointers are one flag, `linked`: they are NULL until somebody sets them,
and then always the same addresses. `calloc` gives cleared controls.
`accessed_epoch` is only ever written, with 0, and is left out.

*Steps.* A step has at most one access to shared state that others may see:

| Code | Actions |
|---|---|
| `tm_begin` | `Begin`, `BeginBlocked` |
| `read_word` 25-31 | `ReadOnlyRead` |
| 33-37 | `ReadCall` (the load), `CopyOwn` (the memcpy) |
| 42 / 45 / 47-51 / 53-57 | `CasRead` / `SetTxRead` / `ReadSaveFirst`, `ReadLinkFirst` / `ReadLink`, `ReadSave` |
| 60 / 66 / 68 / 72 / 77 | `CmpTxRead` / `CasMore` / `LoadMore` / `CopyRead` / `ReadFails` |
| `write_word` 85, 94, 96 | `WriteCall`, `CasNull`, `CasFirst`, `WriteFails` |
| 98-104 | `TestSaved`, `WriteSaveFirst`, `WriteLinkFirst`, `WriteLink`, `WriteSave` |
| 106-111 | `TestWritten`, `InsertWritten`, `CopyWrite` |
| `tm_end`, abort 194-212 | `UndoSaved`, `UndoTxRead`, `UndoWritten`, `UndoAcs`, `UndoDone` |
| `tm_end`, commit 213-230 | `EndCommit` |
| `leave` and `commit` | `LeaveOthers`, `LeaveLast` |

The stores to the pointers and to `saved` are plain: the compiler may exchange
them, and with `-O2` (`260772/Makefile`) it does. Both orders are actions.
`memcpy` with a pointer that is still NULL is `Crash`, after which nothing
happens. `commit` runs alone (`Batcher!CommitAlone`, proved), so that
`LeaveLast` is one step. `EndCommit` is one step because the list it fills is
protected by its lock and read only by `commit`. Two races are left to the steps'
atomicity: a memcpy of one word is one step (a torn word needs two writers of the
write copy, which the model shows as the second write), and lists are private.

*History.* `snapshot`, `seen`, `wrote` and `scrubbed` record what a transaction
could compute from its own calls, and the words that an abort has reset; no
action reads them. `seen[t][w]` forgets a read when `t` writes `w`, so that
`SnapshotReads` and `ReadsOwnWrites` speak of reads before and after.

Not in the model: tm_read and tm_write of several words are a sequence of
one-word calls (in the code, a call of several words that fails in the middle
ends the transaction just as a call of one does); words of
segments other than the first; and a second `tm_end` by a caller that ignores a
false result, which the interface forbids.

### SegmentTable

An entry of the table holds a segment, named by the transaction that allocated it
and the number of its call, or NULL, or the first segment, or `lost` memory. `segments_write`
and `segments_read` change together and are the variable `segments`; `controls` is
apart, because a failing `posix_memalign` sets the one and not the other, `next_free`
looks at the first and `tm_destroy` at the second.

| Code | Actions |
|---|---|
| `next_free` 122 / 123 / 127-132 | `AllocCall` / `Take` / `ScanPast`, `ScanFound`, `UseOutside` |
| `tm_alloc` 339-345 / 347-361 | `NoMemory` / `Fill` |
| `tm_free` | `Free` |
| `tm_end` 206-210 | `AbortCount`, `AbortFree`, `AbortDone` |
| `tm_end` 214-221, `commit` 172-177 | `EndCommit`, `LeaveLast` |
| `tm_destroy` 92-104 | `Found`, `Destroy` |

Conflicts are decided by the word protocol: here a transaction may `Fail` whenever it
is between two calls. Transactions free what they allocated, or what they may have
found in shared memory (`known`: what committed transactions of earlier batches
allocated and nobody freed); two of them may free the same. `seg_free` is one step, so
that the double `free` of two aborting transactions that share an index, which
needs `NewSegments` to be violated first, is not shown apart. An entry beyond the table is
not modelled further: after `UseOutside` nothing happens. `home`, `reissued`,
`known`, `searches` (how many indices came from a search), `dropping` and `dropped` (what committed
transactions of this batch, and of those that are over, have freed) are history. The properties speak of the entries
of the table: memory whose pointers a second owner of the same index has overwritten is in none, leaks,
and is not seen.

### TemplateSTM

The code that 260772 grew from. `access_set` is one transaction id, `accessed_epoch`
and the epoch of the last write (`written`) are compared with the batch's epoch: a batch's
marks expire by themselves.

| Code | Actions |
|---|---|
| `enter` 84-99 | `Enter`, `Wake`; `SpuriousWakeup` is POSIX's |
| `leave` 104 / 106-117 | `Decrement` (outside the lock) / `Settle`, with `commit` 153-163 |
| `read_word` 18-25 | `ReadReadOnly` |
| 27-30 / 31 / 32-39, under `read_lock` | `ReadTest` / `ReadEpoch` / `ReadOwner` |
| 42 / 44-45 / 46 / 48-52 / 59 | `ReadMark` / `ReadStamp` (and the unlock) / `ReadOwn` / `ReadLink` / `ReadCopy` |
| `write_word` 71-72 / 75 / 76 / 87 / 88, under `write_lock` | `WriteTest` / `WriteEpoch` / `WriteOwner` / `WriteAlone` / `WriteOthers` |
| 94 / 96 / 97 / 99-104 / 106-107 / 108 | `WriteMark` / `WriteStamp` / `WriteOwn` / `WriteLink` / `WriteSet` (and the unlock) / `WriteCopy` |
| `tm_end`, abort 185-193 / commit 216-224 | `Undo`, `UndoEpoch`, for each control in turn / `Publish` |

Readers, writers and aborts hold different locks, or none, so that no two of these accesses to one control
are in one step.
A transaction enters once. As the first one enters an empty batcher and the others wait for
it, three transactions give at most two that run side by side: which is where the
read and write locks matter. `dirty`, `seen`, `wrote`, `snap` and `batch` are history. A null
pointer that is followed ends the behaviour (`crashed`).

### TemplateSegments

As `SegmentTable`, for the template's code: `next_free` chooses an index under `alloc_lock`
(`EnterNext`, `Take`, `Scan`), `tm_alloc` increments the counter (`Count`, after the increment
of `next_free`) and fills the entry without the lock (`Fill`, `NoMemory`); `tm_free` is
`Free`; the abort of `tm_end` is `Fail`, `Undo`, `UndoFree`, its commit `Publish`; `leave` is `Decrement`
and `Settle`; `tm_destroy` is `Destroy`. An abort decrements the counter without the lock.
`freed_segments` is never emptied, here as in the code. A conflict is a choice (`Fail`). `home`, `reissued`,
`known`, `kept`, `asking` and `asked` are history: `asking` and `asked` are the indices that committed transactions of this batch, and
of those that are over, have freed. Here too the properties speak of the entries of the table.

### SerialMemory and ReferenceSTM

In `SerialMemory` a transaction works on what was committed when it began, and commits if
nothing else has been since or if it changed nothing. A store is a function from the cells
that exist to their contents: allocating and freeing change its domain.

`ReferenceSTM` has the lock of `shared-lock.c` (`readers`, `writer`: each of its functions
is one `pthread_rwlock` call), the memory, and the list of `tm.c` 45-61 with its links. An allocation puts a
node in front (`Alloc`), `Unlink` is `tm_free` 191-194, `Destroy` walks the list. `BeginFails`
and `AllocFails` are the failing returns. One word per segment is enough: the code treats the words of
a segment alike. The refinement: what is committed is the memory, or, while a writer works in place,
the memory as it was when the writer began.

### Bank

A client of `SerialMemory` through `transactional.hpp`: `Begin`, the body, `Commit`, or `Retry` at
any access and at the commit. The region is the list of account segments, each with its parity and balances; `Sums` are the partial sums
that the loops over segments and accounts go through.
Bodies are single steps on the transaction's own copy: what a body may see is fixed
when it begins.

| Code | Actions |
|---|---|
| `init` 280-290 | `InitTx`, `InitCheckTx` |
| `run` 300-323 | `Pick`, `PickShort`, `Returns` |
| `long_tx`, `alloc_tx`, `short_tx` | `LongTx`, `AllocTx`, `ShortTx` with `Consistent`, `Shrink`, `Grow`, `Transfer` |
| `transactional()`, `Transaction` | `Begin`, `Commit`, `Retry` |

`alloc_tx` draws its trigger from a distribution; the two extremes stand for it. The lambda
of `short_tx` counts the captured arguments down while it walks (`LeftOf`), so that `Retry` leaves in `send`
and `recv` what was left at the segment the walk had reached.

### The grading program

`SpinBarrier`: `called` and `left` count calls and returns and are the refinement mapping.
`CheckPhase` is `check` of the bank, over `SyncPoint`. The library is atomic, or may overwrite and
drop what it commits; `lost` remembers that. An unsigned counter may wrap (`% SizeMax`).

| Code | Actions |
|---|---|
| `Barrier::sync` 319-331 | `FetchAdd`, `SetLeave`, `AwaitLeave`, `FetchSub`, `SetEnter`, `AwaitEnter` |
| `check` 331, 346, 353, 377 | `SyncCall`, `SyncReturn` |
| 334-350 / 354-375 / 377-387 | `InitCommit`, `Verify` / `ReadLast`, `ReadValue`, `Decrement`, `Retry` / `Final` |
| an exception of a transaction | `Throw` |
| `Sync::master_notify`, `Chrono::start` | `MasterNotify`, `StartClock` |
| `Latch::wait` within `master_wait` | `TakeLatch`, `Sleep`, `SpuriousWakeup`, `Overrun`, `ReadDone`, `ReadFail` |
| `worker_wait` 102-122 | `WorkerWait`, `Arrive`, `Reset`, `SetRun`, `AwaitRun` |
| the worker of `measure` | `Succeed`, `Err` |
| `worker_notify` 126-140 | `SetErrmsg`, `SetAbort`, `WorkerNotify`, `Reset`, `Settle`, `StopClock`, `Raise` |
| `bounded_run` 270-286 | `Spawn`, `RunnerEnds`, `RunnerNotify`, `Relock`, `Overrun`, `Join`, `Stuck` |
| `main` 304-352 | `Load`, `Measure`, `Close`, and the ways out `LoadFails`, `MeasureThrows`, `Unwind`, `RunnerThrows` |

`RoundSync` takes what a worker runs in a round as an outcome; a worker that throws reports it and
leaves. Clock values are replaced by the rounds in which the clock was started and stopped. After an exception in `measure`
the process leaves with its detached workers, which therefore stop. `Stuck` is `main` joining a
runner that waits for the lock `main` holds: both stay there, so that the module needs no exemption from
the search for deadlocks. `Overrun` may also come when the runner has notified or a spurious wakeup has: the wait
times out as long as it has not got the lock back.

### The examples

One module per problem, `program` tells which of its programs runs. `Counters` includes the
playground: its `Lock` is an empty stub, so that an increment there is a load and a store.
The examples are built without optimisation, the playground with `-O2`, but there the increment is in a file of its own and its
caller in another: either way each call of an increment is a load and a store, in program order. The bounds on the
unprotected counter, a data race in C, rest on that. In
`ProducerConsumer` an item is two halves and a copy is two steps, so that a torn copy would show. `lock_wait`,
`lock_wake_up` and the others are `lock.c`'s.

## 3. Runs

| Run | Instance | Distinct states | Shows |
|---|---|---|---|
| `Batcher` | 3 threads, 2 transactions each, 2 spurious wakeups, fair | 26 thousand | `TypeOK`, `RemainingCounts`, `CommitAlone`, `NoLostWakeup`, `ImplementsGate`, `EveryoneServed` |
| `STM` | 1 read-only transaction, 2 others, 3 calls each, 2 words, fair | 358 thousand | `TypeOK`, `CleanBetweenBatches`, `SnapshotReads`, `ReadsOwnWrites`, `WriteConflictsDetected`, `CommittedWritesPublished`, `PublishesThisBatch`, `EveryTransactionEnds` |
| `STMLostCommit` | 1 read-only transaction of one call, 3 others of two calls, 2 words, symmetric | to the violation | `CommitMeansPublished` fails |
| `STMDirtyCommit` | as `STMLostCommit` | to the violation | `AbortedWritesUndone` fails |
| `Segments` | 3 transactions of 2 allocations, 4 entries, 1 failing allocation, symmetric | 882 thousand | `TypeOK`, `SegmentsSurvive`, `AbortReleases`, `DestroyLeavesFew` |
| `SegmentAlias` | as `Segments`, no failing allocation | to the violation | `NewSegments` fails |
| `Template` | 1 read-only transaction, 2 others, 2 calls each, 2 words, fair | 1.2 million | `TypeOK`, `ReadOnlySnapshots`, `CommitAlone`, `EveryTransactionEnds` |
| `TemplateSegments` | 3 transactions of 2 allocations, 6 entries, 1 failing allocation, symmetric | 3.3 million | `TypeOK` (with `CountStaysInTable`), `NothingLeft`, `SegmentsSurvive` |
| `Reference` | 3 transactions of 2 calls, 3 nodes, 2 values, fair | 73 thousand | `TypeOK`, `ListSound`, `ImplementsSerialMemory`, `EveryTransactionEnds` |
| `Bank` (part of `MCGrading`) | 2 workers of 2 transactions, segments of 2 accounts, at most 4 asked for, fair | 77 thousand | `BankSound`, `NoFalseAlarm`, `RunEnds` |
| `Grading` | barrier: 3 threads, 3 meetings; check: 2 workers, 3 decrements; rounds: 3 workers, 3 rounds; main: 4 libraries; fair | 110 thousand | `ImplementsSyncPoint`, `CheckSound`, `RoundsSound`, `LibrariesSound`, `EveryPartEnds` |
| `Examples` | counters: 3 threads, 3 runs; elections: 3 threads, 2 rounds; buffers: 2 slots, 5 items; fair | 190 thousand | `Outcomes`, `ImplementsFifo`, `AllJoin` |

`BankSound`, `NothingLeft`, `Outcomes`, `CheckSound`, `RoundsSound`, `LibrariesSound` and `EveryPartEnds`
are conjunctions of the properties that their modules state and explain one by one; the type
invariants of those modules are among them.

*What they say.*

- `CleanBetweenBatches` says that between batches no control is owned, marked as read or written, or in
  `modified_controls`. `saved` alone may survive: an owner that found `accessed_write` set by a writer that then aborts sets
  `saved` without listing the word (`helper.c:98-106`), and `commit` does not reset it. No harm comes of it, because
  `saved` is never set without the pointers being so, and these last: the property says that, too. It takes three writers in one batch,
  one more than the run has, so that this part rests on the theorem (`ControlsCleanBetweenBatches`), which is for any number.
- `SegmentsSurvive` holds for running and for committed transactions, and so says that a segment that a
  committed transaction has freed stays until its batch is over. It exempts an index that has been given out twice (section 6).
- `AbortReleases` and the template's `NothingLeft` say that no entry of the table is an aborted transaction's,
  not that its memory has been freed: see section 2.
- `DestroyLeavesFew` is what is left of `DestroyFreesAll` (section 6): at most one index from a search, and no segment is
  left; in general fewer segments than there were such indices, and as many half-allocated ones as allocations have failed.
- `CommitAlone` (template) holds although two leavers may both have read 0 of `remaining`:
  whoever entered after the decrement has made it positive again or is in the same epoch.
- `ReadOnlySnapshots` is what is left of the template's promise: read-write
  transactions do read what is not committed (section 6).
- `ImplementsSerialMemory` is the refinement from one lock and a memory changed in place to atomic
  transactions; `Bank` takes `SerialMemory` as its library, so that `Bank` over `ReferenceSTM` needs no run of its own.
- `CheckSound` is both halves of the check: no atomic library is accused
  whatever the interleaving, and a library that loses any update is, although later updates
  may hide the loss from the workers and the unsigned counter may wrap.
- `RoundsSound` says that the status the master reads belongs to its round. The state that
  makes it delicate has one worker in the next round's wait while the last one resets the counter.
- `EveryPartEnds` says that no failure of one worker leaves the others at the barrier, unless it is
  an exception, and that `measure` and `main` come back, unless a wakeup is spurious.
- `Outcomes` also says how badly the unsynchronised programs may do: at least 2 of the increments
  are counted, and each round of an election has a leader.
- `ImplementsFifo` is the refinement of a bounded queue by the three programs that count.

*Bounds, all of them.* `MaxTx` and `MaxSpurious` bound `Batcher`; `MaxOps`
bounds the calls of a transaction in `DualVersionedSTM`, `TemplateSTM` and `ReferenceSTM`; `MaxAllocs` and
`MaxFailures` bound `SegmentTable` and `TemplateSegments`, where `MaxSegments` stands for 65536, and `SizeMax` for 2^64
there and in `CheckPhase`; `MaxAccounts` bounds the number of accounts that `Bank` asks for; `MaxSyncs` bounds the calls of a
thread in `SpinBarrier`. `NbTxPerWrk`, `NbRounds`, `NbLibs` and `RUNS` are the program's own
parameters, in small. Spurious wakeups are bounded in `Batcher` only, where a bound is cheaper than the
states that they would add. With `MaxOps` a transaction may also end before it has made all of its calls.

*Why they are enough.* In the batcher, the interesting race has a member that closes the batch,
a woken waiter and a newcomer: three threads, of which one comes back for its second transaction. In the word
protocol the joint cases need a first reader, a second one or a writer on one
word, while another word gives them something to conflict about. A transaction that opens the first batch alone
is needed to block the others, so that they join one after another: the read-only one.
The two violations run with a third writer; the proofs hold for any number.
In the segment tables, two transactions race for an index while a third has a committed
segment, and six calls on the free entries fill the table and search it. The template
counts each allocation twice, which is why its table has six entries.
The reference needs two readers and a writer, and three nodes to have one inside the list.
The bank needs two workers on three or more accounts, so that a segment comes and goes while the other
worker has drawn an account of it; with four asked for, the two extremes of the trigger differ, and all four branches of `alloc_tx` are taken.
A segment that shrinks in place with an account that is not at its initial balance takes more transactions than the
run has, and is covered by the theorem only. Three rounds are initialization, run and check; the third one is
where counters that were not reset show. At the barrier the third meeting reuses
what the second one left. A buffer of two wraps round twice for five items.
Every action of the modules is taken in those runs.

*Symmetry* is used only where no liveness is checked: transactions are interchangeable in `SegmentTable`
and `TemplateSegments`; words, and read-write transactions, in the two violations of `DualVersionedSTM`,
whose `MaxOps` gives all of them the same bound.

*Deadlock* is checked in every run. What has ended stutters, and so does a thread that spins or
is blocked for ever (`Spin`, `Stuck`).

*Mutants.* Every property of a passing run is paired in `PROJECT.json` with a
definition marked *Slip* in its module: a plausible mistake in the code, such as
leaving the gate shut at the broadcast, unlocking before the commit, waking nobody, or reading the
wrong copy, under which TLC finds the property violated in the same run; a conjunction has a slip for most of its parts.
No action of a specification uses them.

## 4. Fairness

`Batcher!FairSpec` is weak fairness of each thread's own steps: a thread that can
run runs. It is what a preemptive scheduler gives. A step that needs the mutex is
enabled only while it is free, so that a thread might in principle be overtaken
at the mutex for ever; here the supply of transactions is bounded, hence so is the
overtaking, and weak fairness suffices. Spurious wakeups are not fair: nothing
may depend on them. That a transaction ends by itself is assumed of the worker
(`grading/workload.hpp` always ends its transactions). `DualVersionedSTM` and `TemplateSTM` have
weak fairness of each transaction's next step, ending included: of several calls it may
make, a transaction makes one, at most `MaxOps`, and then ends.

`ReferenceSTM`: weak fairness of beginning or ending, and of `Destroy`. Each transaction takes
the lock once, so that no writer is overtaken for ever.

`Bank` (in `MCGrading!Fairness`): weak fairness of each worker, retries included, and of `StartRun`; strong fairness of
`DrawExisting`, that some worker draws accounts that exist when it is again and again free to draw:
`run` draws at random. Without it a worker may for ever draw accounts that are gone. `RunEnds` has one premise: that the
library does not for ever abort transactions which nobody has overtaken. A library
without progress keeps any client from ending.

`SpinBarrier` and `CheckPhase`: weak fairness of each thread; who spins calls `short_pause`, which yields. `RoundSync`: of the master
and of each worker; what a worker runs is assumed to come back, time limits may
run out but need not. `LibraryGrading`: of `main` only; the library's own functions may hang, and
then only the time limit ends the wait.

The examples: weak fairness of each thread. `procon2` is left out of `AllJoin`: it takes and releases its
mutex in a loop until its test succeeds, and nothing makes the mutex pass to the other thread. For
`procon4`, `AllJoin` assumes that spurious wakeups stop at some point.

The code gives no bound on overtaking in an unbounded supply: a newcomer that
finds a batch running sets `keep_waiting` again, and a woken waiter that comes
later sleeps for another batch. This is listed as a hazard, and is not a
property of the model.

## 5. Proofs

TLAPS checks every theorem; the modules with theorems are those whose names end in `Proofs`. Each
strengthened invariant that TLC can evaluate holds on the instance of its component's run, too.

The assumptions on constants are those that TLC evaluates in the runs:

| Assumption | Says | Why the code justifies it |
|---|---|---|
| `BatcherAssumption`, `TemplateSegmentsAssumption` | finite sets of threads or transactions, natural bounds | a process has finitely many |
| `SegmentAssumption` | the same; a table of two entries at least, whose size the counter can exceed | `MAX_SEGMENTS` is 65536, the counter has 64 bits |
| `STMAssumption` | ids differ from the constants beside them; `MaxOps` is a function to naturals | `helper.h` keeps the values of `access_type_id` apart |
| `TemplateAssumption` | finitely many transactions, ids that differ from `NoTx`, one word at least | the size of a region is positive (`template/tm.c:37`) |
| `ReferenceAssumption` | `NULL` is no node and no transaction, and nodes are finitely many | `malloc` returns NULL only when it fails, and memory is finite |
| `GradingAssumption` | finitely many workers, one at least; one round, one transaction and one library at least; an unsigned counter holds what the check puts into it | `grading.cpp` takes them from the number of CPUs and its arguments |
| the same, for the bank | an account at least; an initial balance that is not negative; at most `MaxAccounts` accounts at the beginning, and three at least later | `grading.cpp` 272-274 sets them; `alloc_tx` always adds to two accounts or fewer, whatever its trigger (`workload.hpp:197`) |
| `ExamplesAssumption` | finitely many threads, for the elections one at least; a round, and a run, of counters and elections at least; a slot of the buffer | `#define`s of the examples |

The sets of transactions and words are arbitrary in `STMAssumption`, infinite ones included.

### BatcherProofs

`BatcherInvariant`: the inductive invariant is the type invariant,
mutual exclusion (whoever is between a lock and its unlock is the holder, so
there is one), the sleepers are those in `sleep`, `RemainingCounts`,
and what each label knows: a thread in `commit` or later has seen `remaining`
reach 0, one that is about to join was either first or finds the gate open, and
the gate is open only when those who were blocked belong to an earlier epoch.
`CounterExact` alone is not inductive: that a decrement reaches 0 when the last
member leaves needs the mutex, and that nobody joins between it and the
broadcast needs the mutex too. The cardinality steps use `FiniteSetTheorems`.
`WakeupsNotLost` and `CommitsExclusive` follow from the invariant.
`BatcherImplementsGate` maps each step: `Join` to `JoinEmpty` or `JoinLater`,
`TestBusy` to `Block`, `FetchSubOthers` to `LeaveOthers`, `BumpEpoch` to
`CloseBatch`, all others to a stutter.

### STMProofs

`STMInvariant` says who is responsible for each control that is not clear:
a member that is in the middle of taking it, a member in whose `accessed_words`
it is, or the region's `modified_controls`. Aborting transactions make
this delicate: they may clear a control that is in another's list, or twice, so the
invariant follows `acs`, `tx_read` and `accessed_write` separately through the four
stores of an abort. `ControlsCleanBetweenBatches` is its consequence when there
are no members left: only `modified_controls` remains, and `commit` clears it. `saved` has a part of its own
(`LinkedInv`): the pointers are set already, or who set it is about to set them.

`ValueInvariant` adds what the history variables say: read copies do not change
while a batch lasts (so every member's snapshot is the present one), an owner has
written its word or is writing it, a write copy under a write of this batch is of
this batch, and as long as no abort has reset a word its writer still owns it.
From it follow `ReadsAreSnapshots`, `OwnWritesRead`, `ConflictsDetected` and, with
the control invariant (every owned word has been handed to `commit` when the last
member leaves), `CommitPublishes` and `PublishesBatchWrites`.

The exception "unless an aborting transaction reset the word" (`scrubbed`) in
three of these is not a convenience: without it they are false (section 6).

### SegmentTableProofs

`SegmentInvariance`: as long as an index has not been given out while it was in use (`reissued`, which
section 6 shows to happen), it has one holder at most, that is filling it or has it in its list, only the holder's
segment can be there (`SoleInv`), and both tables agree on it (`AgreeInv`). `OwnerInv` and `KnownInv` say in whose
list a segment is, until its owner commits, and that what others may free is there. From these, `Survival`
and `AbortedRelease`. `DestroyBounded` needs the count besides: `n_segments` and the searches together are one more
than the entries of committed transactions and those that others still have to give back, at the least (`CountInv`); the
search is counted because an abort decrements for it what nobody has incremented. `tm_destroy` stops at `n_segments`, so what it
has not met is less than the searches. The first copies that stand alone are as many as allocations have failed (`LostInv`).

### TemplateProofs

`TemplateInvariance`: `remaining` is the cardinality of those inside, though it is
decremented outside the lock; each transaction ends one epoch at most, which bounds the epochs; and while a
read-only transaction is inside, the memory is what it was when it entered. `EpochsEndAlone` and
`ReadersSeeSnapshots` follow.

### TemplateSegmentsProofs

`TemplateSegmentsInvariance` has the ownership of `SegmentTableProofs` with `alloc_lock` in it, and the count between two
cardinalities: the allocations counted for those that may give them back, and all calls counted once
or, after the second increment, twice. `freed_segments` has nothing in it but what committed
transactions freed (`AskedInv`). `NothingLeft` and `CommittedSurvive` follow, and in `TemplateSegmentsTypes`
that the count does not lead outside the table.

### ReferenceProofs

`ReferenceInvariance`: readers and the writer exclude one another, and a reader's memory is the one it began with. The
list is stated without recursion: there is an ordering `1 .. k` of the live nodes
that `next` follows one way and `prev` the other, each `Alloc` puts one in front and each `Unlink` takes one out. That following `next`
from the head meets all live nodes (`ReferenceList`) is then an argument by the first position at which it would not.
`ReferenceRefines` maps `Write`, `Alloc` and `Free` to steps on the transaction's own copy and the release of the lock to the commit.

### GradingProofs

The parts do not share a step, so `GradingInv` is one invariant for each:

- *main*: the runner is there exactly while `bounded_run` waits, and has made or freed the region when it is over.
- *Barrier*: there is a meeting `k` such that everybody's calls and returns are those of somebody in it, on the way from
  the one before or to the next one, depending on the mode; the counter is the number of those entered; who changes
  the mode is the last. `BarrierMeets` maps the first step of a call and the last one to `SyncPoint`.
- *Rounds*: the status says in which round and where the workers can be; who arrives last, or ends the round, is alone with it;
  the counter is the number of those that have come, or are done, unless the last one has to reset it; the
  master is at its latch until a worker has raised it.
- *Check*: the transactions that are over are pairs of a worker and a number, so that their tally is a cardinality.
  The counter never falls below what the tally accounts for, and after a loss stays above it:
  who has seen the least possible value has seen that nothing is lost. When all have
  met for the third time, without an error, the tally is that of all transactions.
- *Bank*: a `Region` is a list of segments with an account at least each and no negative balance, whose worth, balances and
  parities together, is the initial balance times the number of accounts. The store is one from `init` on, and so is
  what a transaction of `run` has made of its copy, finished or not (`Works`); `init_tx`
  alone may commit what another one has already, and writes the same (`Initializes`). That `BankSound` and `NoFalseAlarm` hold is then
  immediate; that the invariant is kept rests on one lemma for each thing a body does to a region:
  `ShrinkKeeps`, `GrowKeeps`, `TransferKeeps` and `FreshRegion`. `TwoSegments` is why the first segment stays: with more than
  two accounts, a segment that is alone has more than one. Only `short_tx`, after an abort, sees other arguments than were drawn, but
  what it is left with is an index (`LeftRange`), and an index that is less than the count has an account (`Found`).

The sums of the bank are functions on `0 .. n`, defined recursively. Nothing is assumed of them: that the partial sums
of a sequence exist (`SumsExist`, and so `SumsDef`, what the function is) and what an element more or another element
does to the last one (`SumOneMore`, `SumChange`) are arguments by `Induction` on the set of the positions up to which
they hold, which is the least counterexample (`Least`, from the well-foundedness of `<`) and needs no induction
theorem with an operator parameter.

### ExamplesProofs

`ExamplesInv` has one invariant for each module:

- *Counters*: an increment that has been stored is a pair of a thread and a run. The counter is never ahead of their number, and is
  that number where it is protected. That two increments are counted at least, for more than one run, rests on `AtLeastTwo`: what
  is stored is 1 or more, so a thread in its second run has loaded 1 or more, and
  the last store of all leaves 2 or more.
- *Elections*: nobody leaves a round without a leader, and a leader has been counted or is about to count itself;
  where test and assignment are one for the others, who is about to is the leader, alone.
- *Buffers*: the halves of what has been copied, the counts in step with the runs, and the room, or the item, which the
  other one cannot take away between test and copy. That a slot which is written is not one that holds an item is a lemma about `%`.
  `ItemsPass` maps the count of an item to `Put` or `Get`, all else to a stutter.

### Left to TLC

`EveryoneServed` and `EveryTransactionEnds` are liveness under fairness, which the prover does not do, and so
are `RunEnds`, `EveryPartEnds` and `AllJoin`. The violations are TLC's. All invariants and action properties of the passing runs
are proved. The modules that are instantiated by `MCGrading` and `MCExamples` state what
they assume of their constants as definitions (`SpinAssumption` and so on), which the two modules assume.

## 6. Where the code differs from what it says

Three runs show a violation each:

- **Lost commits** (`STMLostCommit`). `tm.c:178` says that `tm_end` returns
  "whether the whole transaction committed", and the grader
  (`grading/workload.hpp:292`) wants "that committed writes in shared memory get
  visible to the following transactions' reads". A first reader `a` of a word has it in
  its `accessed_words`; `b` then writes the word, which `ACS_FIRST_READ` allows
  anyone; `a` fails on another word and its abort sets the control to `ACS_NULL`
  (`tm.c:202`). `b` commits, `tm_end` returns true, and `commit` skips the word.
- **Dirty commits** (`STMDirtyCommit`). `tm.c:195`: "Must undo writes and reads".
  The abort restores no write copy, and a control whose `accessed_write` was set by
  an earlier writer is not in the second writer's list (`helper.c:106`): after the
  second one's abort the control still holds its id, and `commit` copies its value.
- **Aliased segments** (`SegmentAlias`). `tm.c:318` promises "the newly allocated, aligned
  segment". An abort decrements `n_segments` (`tm.c:208`) before it frees the segment, and
  whichever index that has: the next `tm_alloc` is given an index in use and
  overwrites its pointers, be the other segment committed or not.

The others are stated as properties of their modules and are in no run: TLC refutes each
when it is added to the run of its module (for the parts of `Grading` and `Bank`, under the condition that the part runs).

| Property | Module | What the code does |
|---|---|---|
| `NoNullAccess` | `DualVersionedSTM` | `tm.c:246` calls `tm_read` thread-safe. Between the compare-and-swap of `helper.c:42` and the stores of 47-50 another reader takes the path of line 72 and copies from a pointer that is still NULL. |
| `DestroyFreesAll` | `SegmentTable` | `tm.c:84`: "Destroy (i.e. clean-up + free) a given shared memory region". `tm_destroy` stops when it has freed `n_segments` segments (`tm.c:95`). An index that comes from a search (`helper.c:127-132`) has not incremented `n_segments`, while an abort (`tm.c:208`) and a failing allocation (`tm.c:343`) decrement it for any index: after two of these a segment may be left. The first copy of a segment whose second copy could not be allocated is not freed either. |
| `IndexInTable` | `SegmentTable` | `helper.c:121`: "Index go from 0 to MAX_SEGMENTS - 1". The test and the increment of `n_segments` are two steps, and the search of a full table does not end with it. |
| `NoNullAddress` | `SegmentTable` | `helper.h:12` numbers segments from 1 "to avoid having NULL as an address"; the number of index 65535 is 65536, of which 16 bits leave 0. |
| `EveryoneComesBack` | `CheckPhase` | An exception of a transaction leaves `check` past the meetings that are left; the other workers spin at the barrier, and the master, which waits for the reference without a time limit, with them. `grading.cpp:200`: "It returns early in case of a failure." |
| `RoundMeasured` | `RoundSync` | `Chrono::stop` (`common.hpp:187`) adds its segment to a total that nobody resets: the time of a round includes those before it. `grading.cpp:58`: "Runtime between 'master_notify' and when the last worker finished". |
| `ClockStarted` | `RoundSync` | `grading.cpp:74` starts the clock after the status has let the workers go: the last one may stop it first. |
| `BoundedRunEnds` | `LibraryGrading` | `common.hpp:281` waits once, without a predicate, and joins with the lock held: after a spurious wakeup the runner cannot notify and the join never returns. `common.hpp:265`: "Run some function for some bounded time". |
| `NoRunningCodeUnloaded` | `LibraryGrading` | When `tm_create` takes too long, the exception leaves the constructor of the workload (`grading.cpp:309`) outside the inner `try`: the library is closed under the detached runner (`grading.cpp:341`: "cannot unload library with running threads"). |
| `RetriesRepeat` | `Bank` | `workload.hpp:228`: "@param send_id Index of the sender account". The lambda of `short_tx` counts its captured arguments down: a retry looks for other accounts. `BankSound` and `NoFalseAlarm` show that the bank takes no harm. |
| `SnapshotReads` | `TemplateSTM` | Readers hold `read_lock` and writers `write_lock`, and a reader stores `access_set` after unlocking (`helper.c:46`): it may take over a word that is being written and read the uncommitted value as its own. |
| `NoNullAccess` | `TemplateSTM` | `helper.c:44` sets the epoch, 48-51 the pointers, after unlocking: whoever finds the epoch in between copies through a null pointer. |
| `WritesAlone` | `TemplateSTM` | `helper.c:86`: a write fails "if at least one other transaction is in the access set". The access set holds the first reader only, who may write beside the others. |
| `EndedIsVisible` | `TemplateSTM` | `batcher.c:104` decrements before it takes the lock: a transaction that enters in between joins the epoch that is over, and does not see the writes of a transaction whose `tm_end` has returned. For the same reason the template does not implement `EpochGate`. |
| `NewSegments` | `TemplateSegments` | `tm.c:199`, as above: an abort gives the index of a live segment to the next allocation. |
| `SearchWhenFull` | `TemplateSegments` | `helper.c:117` promises an index in constant time below the maximum; `tm.c:329` increments `n_segments` a second time, so that the search begins at half of it. |
| `FreedByRequest` | `TemplateSegments` | `helper.c:165` walks `freed_segments` and never empties it: every later batch frees the same indices again, with whatever is there by then. |

What holds in spite of these is in section 3: reads of 260772 are always snapshots, no
control stays owned, marked or assigned beyond its batch, and words that no abort has reset are published
exactly; a segment whose index is not given out a second time survives until the end of a batch in which
a committed transaction has freed it, and aborts leave no entry in the table. `tm_destroy` of the template frees all segments that
are in the table, that of 260772 misses none, or fewer than there were searches.
The grader's verdicts are right, whatever its clock says.

## 7. Not modelled, and plan

*Not modelled.* Formatting, options, the median and clock values of the grader, `submit.py` and the Makefiles: input and output
with no state to check. The `Shared<>` wrappers of `transactional.hpp` turn C++ accesses into
`tm_read` and `tm_write`; a body reads what its transaction sees. `~Transaction` ends its transaction also while an
exception unwinds, which a body of the workload throws only when memory runs out. Workers that have been
detached run on objects that are gone; the models end when the exception does. Atomic accesses are sequentially consistent in the models: the barrier, `Sync` and `procon3` ask for weaker orders, and the
reorderings that those allow are not modelled. Padding and `realloc` of lists change nothing that a property speaks of.
The `calloc` of a segment's controls (`260772/tm.c:351`, and the template's) is not checked; the models let it succeed: after a failure the
first access to the segment is one through NULL. A runner of `bounded_run` that raises its latch when the time is over
finds nobody waiting, and is left out.

*Plan.* What is modelled is complete as far as the code goes, and what is safety is proved. What is left
is liveness, which stays with TLC.

No module with theorems reaches a recursive operator, and each component keeps its theorems in a module
of its own.
