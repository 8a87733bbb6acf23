CONSTANTS
    Slots = 2
    Total = 4
    StoreBuffer = TRUE
    Timed <- ReaderOnly
    Interruptible = TRUE
SPECIFICATION FairSpec
PROPERTIES PushedIsRead TimedCloseReleases
CHECK_DEADLOCK FALSE
