\* Two workers: with one client at most three connections are open at once.
\* Their descriptors are 4, 5 and 6, and 6 is the last that the socket field
\* can number here.  There is a descriptor 7, which a lost one would bring
\* into use, and a fourth connection to use it.
CONSTANTS
    Clients = {k1}
    Workers = {w1, w2}
    MaxConns = 4
    MaxSignals = 2
    MaxFd = 7
    Int8Max = 6
    Backlog = 2
    MaxJobs = 2
    None = None
SPECIFICATION Spec
INVARIANTS
    TypeOK
    OwnConnection
    SocketFits
    SocketsAccounted
    AtMostOneAfterSignal
PROPERTIES
    ListenerStops
    AcceptedIsClosed
