\* Two files and a hidden entry, in any order; a queue of one, so that it fills;
\* and the descriptors of both files, those of closed ones being used again.
\* The disk and the memory may fail f2, also for want of descriptors, and f1
\* was being solved when an earlier run was killed.
\* An int has three bits, a word four.
CONSTANTS
    Workers = {w1, w2}
    Files = {f1, f2, f3}
    Hidden = {f3}
    Flaky = {f2}
    Earlier = {f1}
    Contents <- MCContents
    IntMax = 3
    NUM_BITS = 4
    INT_MAX = 7
    Signals = {1}
    MaxFd = 4
    MaxJobs = 1
    None = None
SPECIFICATION Spec
INVARIANTS
    TypeOK
    OwnFiles
    SolvedFilesAreClosed
    AnswersAreWhole
    
PROPERTIES
    DirectoryIsSolved
    ProgramEnds
