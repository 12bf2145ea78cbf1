\* One worker and one file that an earlier run began to solve; nothing fails.
\* An int has two bits, a word four.
CONSTANTS
    Workers = {w1}
    Files = {f1}
    Hidden = {}
    Flaky = {}
    Earlier = {f1}
    Contents <- GradedFile
    IntMax = 1
    NUM_BITS = 4
    INT_MAX = 7
    Signals = {1}
    MaxFd = 2
    MaxJobs = 1
    None = None
SPECIFICATION Spec
INVARIANT SolvedAsGraded
