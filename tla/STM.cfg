CONSTANTS
    Tx = {r, t1, t2}
    ReadOnly = {r}
    Words = {x, y}
    NoTx = NoTx
    MaxOps <- ThreeCalls
SPECIFICATION FairSpec
INVARIANTS TypeOK CleanBetweenBatches SnapshotReads ReadsOwnWrites WriteConflictsDetected
PROPERTIES CommittedWritesPublished PublishesThisBatch EveryTransactionEnds
