CONSTANTS
    Tables = 2
    PTEs = 2
    Frames = {f1, f2}
    AllocRecords = 1
    MallocMayFail = TRUE
    NoFrame = NoFrame
    f1 = f1
    f2 = f2
INIT Init
NEXT Next
INVARIANT ForkFaithful
INVARIANT ForkAccounted
