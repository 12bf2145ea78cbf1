CONSTANTS
    ThreadCount = 2
    Jobs = {j1}
    MaxJobs = 2
    NoTask = {}
    NoArg = {j1}
    NoDel = {}
    NoMemory = {}
    MayFail = {}
    MaxSpurious = 0
    None = None
SPECIFICATION Spec
INVARIANT SuccessMeansAdded
