CONSTANTS
    Threads = {1, 2, 3}
    NoThread = NoThread
    MallocMayFail = TRUE
    Ops <- MCOpsWriters
SPECIFICATION FairSpec
INVARIANTS RWExclusion
