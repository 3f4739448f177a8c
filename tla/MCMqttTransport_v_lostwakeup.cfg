CONSTANTS
    Main = main
    Pool = {w1}
    MaxRequests = 1
    MaxMessages = 1
    MaxDrops = 0
    MaxDuplicates = 0
    Spurious = FALSE
SPECIFICATION Spec
CHECK_DEADLOCK FALSE
INVARIANT WaiterWoken
