CONSTANTS
    Threads = {1, 2, 3}
    NoThread = NoThread
    MallocMayFail = FALSE
    Ops <- MCOpsDowngrade
SPECIFICATION FairSpec
INVARIANTS RWExclusion
