CONSTANTS
    Parts = {"bank"}
    NbLibs = 4
    NbThreads = 2
    NbRounds = 3
    NbCheckers = 2
    NbTxPerWrk = 3
    SizeMax = 16
    MaxSyncs = 3
    NbAccounts = 2
    InitBalance = 1
    NbTxPerRun = 2
    MaxAccounts = 4
SPECIFICATION Spec
INVARIANTS BankSound NoFalseAlarm
PROPERTY RunEnds
