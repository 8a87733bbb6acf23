CONSTANTS
    Slots = 2
    Total = 3
    StoreBuffer = FALSE
    Timed <- NoEnd
    Interruptible = TRUE
SPECIFICATION FairSpec
PROPERTY CloseReleases
CHECK_DEADLOCK FALSE
