CONSTANTS
    Threads = {t1, t2, t3}
    MaxTx = 2
    MaxSpurious = 2
SPECIFICATION FairSpec
INVARIANTS TypeOK RemainingCounts CommitAlone NoLostWakeup
PROPERTIES ImplementsGate EveryoneServed
