CONSTANTS
    Threads = {a, b, c}
    NoLeader = NoLeader
    CounterRuns = 3
    ElectionRuns = 2
    BUFFER_SIZE = 2
    ProconRuns = 5
SPECIFICATION Spec
INVARIANT Outcomes
PROPERTIES ImplementsFifo AllJoin
