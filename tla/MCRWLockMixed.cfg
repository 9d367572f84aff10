CONSTANTS
    Threads = {1, 2, 3, 4}
    NoThread = NoThread
    MallocMayFail = FALSE
    Ops <- MCOpsMixed
SPECIFICATION FairSpec
INVARIANTS RWExclusion
