CONSTANTS
    Clients = {k1}
    Workers = {w1}
    MaxConns = 1
    MaxSignals = 1
    MaxFd = 7
    Int8Max = 6
    Backlog = 2
    MaxJobs = 2
    None = None
SPECIFICATION Spec
INVARIANT NoReadAfterFree
