CONSTANTS
    Threads = {1, 2, 3, 4}
    SemInit = 2
    NoThread = NoThread
SPECIFICATION FairSpec
INVARIANTS TypeOK SemBound
PROPERTY WaitersProceed
