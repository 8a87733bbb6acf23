CONSTANTS
    Ranks = {"rank0", "rank1"}
    Inputs = {"U", "k"}
    Outputs = {"nut", "p"}
    Slots = 1
    MaxCalls = 4
    MaxBeside = 2
    MaxOther = 1
SPECIFICATION MCSpec
INVARIANTS AllOrNothing OneBatch
PROPERTIES ImplementsService CallsEnd FailTogether
CHECK_DEADLOCK FALSE
