CONSTANTS
    ThreadCount = 2
    Jobs = {j1, j2, j3}
    MaxJobs = 2
    NoTask = {}
    NoArg = {}
    NoDel = {}
    NoMemory = {}
    MayFail = {}
    MaxSpurious = 0
    None = None
SPECIFICATION Spec
INVARIANT AcceptedWorkIsFinished
