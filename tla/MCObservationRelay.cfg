CONSTANTS
    Alone = 5
    Together = 3
    Sources = {"rank0", "rank1"}
    Decisions <- DecisionsOf
    Size <- Sizes
    MaxRecords = 2
    MaxBytes = 2
    Pieces = 1
SPECIFICATION MCSpec
INVARIANTS OrderKept RecordsAccounted RetentionBounded
PROPERTY StopsEnd
CHECK_DEADLOCK FALSE
