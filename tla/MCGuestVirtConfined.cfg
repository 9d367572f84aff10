CONSTANTS
    VIRTUAL_IDT_LEN = 3
    TIMER_IDT_ENTRY = 1
    KEY_IDT_ENTRY = 2
    FaultVectors = {0}
    Eips = {0, 4096}
    BUF_LEN = 2
    MaxKeys = 3
    MaxNest = 2
    Irqs <- MCIrqsNegative
SPECIFICATION Spec
INVARIANTS GuestConfined
