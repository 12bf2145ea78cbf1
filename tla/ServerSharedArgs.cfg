CONSTANTS
    Clients = {k1, k2}
    Workers = {w1, w2}
    MaxConns = 2
    MaxSignals = 0
    MaxFd = 7
    Int8Max = 6
    Backlog = 2
    MaxJobs = 2
    None = None
SPECIFICATION Spec
INVARIANT OwnConnection
