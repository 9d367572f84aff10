CONSTANTS
    Threads = {1, 2, 3, 4}
    Owner <- MCOwner
    Idle = 1
    InitThread = 2
    MaxSleep = 2
SPECIFICATION Spec
INVARIANTS
    TypeOK
    ListsMatchState
    OneRunning
    SleepSorted
PROPERTIES
    SleeperWakes
    RefinesThreadStates
