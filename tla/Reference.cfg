CONSTANTS
    Tx = {t1, t2, t3}
    Nodes = {n1, n2, n3}
    NULL = NULL
    Start = Start
    Values = {0, 1}
    MaxOps = 2
SPECIFICATION FairSpec
INVARIANTS TypeOK ListSound
PROPERTIES ImplementsSerialMemory EveryTransactionEnds
