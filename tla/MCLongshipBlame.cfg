CONSTANTS
    Markers = {"one", "two"}
SPECIFICATION Spec
INVARIANT BlameIsRight
CHECK_DEADLOCK FALSE
