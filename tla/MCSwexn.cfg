CONSTANTS
    RegionPages = 2
    MaxDepth = 4
    Heap = {9}
    NewPagesEager = FALSE
    AllocMayFail = TRUE
SPECIFICATION FairSpec
INVARIANT IntConfined
PROPERTY FaultsResolve
