CONSTANTS
    Slots = 2
    Total = 3
    StoreBuffer = TRUE
    Timed <- NoEnd
    Interruptible = FALSE
SPECIFICATION FairSpec
PROPERTY AllDelivered
CHECK_DEADLOCK FALSE
