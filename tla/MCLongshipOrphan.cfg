CONSTANTS
    Markers = {"one", "two"}
SPECIFICATION Spec
INVARIANT NoOrphan
CHECK_DEADLOCK FALSE
