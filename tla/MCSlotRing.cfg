CONSTANTS
    Slots = 2
    PayloadBytes = 2
    Bodies = {"x", "y"}
    MaxMessages = 5
SPECIFICATION Spec
INVARIANTS TypeOK NoOverlap DeliveredInOrder RingInv
PROPERTY ImplementsFifo
