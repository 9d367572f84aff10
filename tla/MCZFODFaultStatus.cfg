CONSTANTS
    Frames = {1, 2}
    Pages = {1, 2, 3}
    Dirs = {"d1", "d2"}
    DirOf <- MCDirOf
    Threads = {1, 2}
    FreeNodeMayFail = FALSE
SPECIFICATION Spec
INVARIANTS FaultDeathAbnormal
