CONSTANTS
    Markers = {"one", "two"}
SPECIFICATION FairSpec
INVARIANTS SolverAfterReady LeadersReaped SuccessIsReal
PROPERTIES CoupledLifetimes ReadinessDecided
CHECK_DEADLOCK FALSE
