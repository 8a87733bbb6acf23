SPECIFICATION FairSpec
CONSTANTS
    c1 = c1
    c2 = c2
    Clients <- MCClients
    Sessions <- MCSessions
    Connections = 2
    Peers = 2
    SolverLimit = 2
    WorkerLimit = 1
INVARIANTS
    PlanesAgree
    OneRun
    SessionAgreed
    AttachFinds
PROPERTY
    HandshakesEnd
\* The model ends when the worker serves or has thrown and no solver is left.
CHECK_DEADLOCK FALSE
