CONSTANTS
    Parts = {"barrier", "check", "rounds", "libs"}
    NbLibs = 4
    NbThreads = 3
    NbRounds = 3
    NbCheckers = 2
    NbTxPerWrk = 3
    SizeMax = 16
    MaxSyncs = 3
    NbAccounts = 2
    InitBalance = 1
    NbTxPerRun = 2
    MaxAccounts = 3
SPECIFICATION Spec
INVARIANTS CheckSound RoundsSound LibrariesSound
PROPERTIES ImplementsSyncPoint EveryPartEnds
