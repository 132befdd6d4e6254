CONSTANTS
    Tx = {r, t1, t2}
    ReadOnly = {r}
    Words = {x, y}
    NoTx = NoTx
    MaxOps = 2
SPECIFICATION FairSpec
INVARIANTS TypeOK ReadOnlySnapshots
PROPERTIES CommitAlone EveryTransactionEnds
