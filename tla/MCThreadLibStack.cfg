CONSTANTS
    Threads = {1, 2, 3}
    Root = 1
    NoThread = NoThread
    ForkMayFail = FALSE
    Joins <- MCJoins
SPECIFICATION FairSpec
PROPERTY StackFreedAfterVanish
