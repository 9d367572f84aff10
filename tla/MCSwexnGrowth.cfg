CONSTANTS
    RegionPages = 2
    MaxDepth = 4
    Heap = {9}
    NewPagesEager = TRUE
    AllocMayFail = FALSE
SPECIFICATION Spec
INVARIANT GrowthServed
