CONSTANTS
    Threads = {1, 2, 3}
    Root = 1
    NoThread = NoThread
    ForkMayFail = TRUE
    Joins <- MCJoins
SPECIFICATION FairSpec
INVARIANT ExitStatusReported
