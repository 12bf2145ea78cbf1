\* Items of two units can arrive whole or in two pieces.  A file of two
\* equations has a reply of 2 + 2 + 4 units that just fits under way, and a
\* file of three one that does not.
CONSTANTS
    NetHeader = 2
    FileHeader = 2
    Equation = 2
    Solution = 2
    MaxEquations = 3
    CapIn = 3
    CapOut = 8
SPECIFICATION Spec
INVARIANTS
    TypeOK
    Aligned
    NoStall
    OnlyLeaverKills
PROPERTIES
    ImplementsSession
    ServerFinishes
    GoneClientFreesWorker
    ClientFinishes
    WholeReply
