CONSTANTS
    Slots = 2
    Total = 5
    StoreBuffer = FALSE
    Timed <- NoEnd
    Interruptible = TRUE
SPECIFICATION FairSpec
INVARIANTS TypeOK NoLostWakeup WakeInv
PROPERTY AllDelivered
CHECK_DEADLOCK FALSE
