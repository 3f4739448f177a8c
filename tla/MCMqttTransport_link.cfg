CONSTANTS
    Main = main
    Pool = {}
    MaxRequests = 1
    MaxMessages = 3
    MaxDrops = 1
    MaxDuplicates = 1
    Spurious = FALSE
SPECIFICATION Spec
CHECK_DEADLOCK FALSE
INVARIANTS TypeOK InOrder NothingLost FetchSeesQueue
