CONSTANTS
    NetHeader = 2
    FileHeader = 2
    Equation = 2
    Solution = 1
    MaxEquations = 2
    CapIn = 3
    CapOut = 5
SPECIFICATION Spec
INVARIANT WholeItemIsAccepted
