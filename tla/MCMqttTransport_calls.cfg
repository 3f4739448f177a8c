CONSTANTS
    Main = main
    Pool = {w1}
    MaxRequests = 2
    MaxMessages = 1
    MaxDrops = 0
    MaxDuplicates = 1
    Spurious = TRUE
SPECIFICATION FairSpec
CHECK_DEADLOCK FALSE
INVARIANT OwnReply
PROPERTIES ImplementsBusRequests RequestsReturn MessagesTaken LoopEnds
