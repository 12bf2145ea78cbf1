\* Three workers, so that a signal can meet waiting, awake and exiting ones at
\* once, and a queue shorter than the number of jobs, so that it fills.  j3 has
\* no del_f and its node may fail to be allocated.  The first pthread_create
\* may fail.
CONSTANTS
    ThreadCount = 3
    Jobs = {j1, j2, j3}
    MaxJobs = 2
    NoTask = {}
    NoArg = {}
    NoDel = {j3}
    NoMemory = {j3}
    MayFail = {1}
    MaxSpurious = 1
    None = None
SPECIFICATION FairSpec
INVARIANTS
    TypeOK
    JobAccounting
    NoLostWakeup
    NoUseAfterFree
PROPERTIES
    ImplementsJobService
    DestroyCompletes
    QueuedJobIsRun
