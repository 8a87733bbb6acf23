CONSTANTS
    Prepared = "prepared"
    Final = "final"
    Copy = "copy"
    Build = "build"
    Native = "native"
    Declarations <- AllDeclarations
    Threads = {"caller", "reader"}
    Reader = "reader"
    MaxSuffix = 2
    MaxSources = 2
    Exchanges = 2
    Lines = 2
    Hosts = {"closure", "transform"}
    MaxServed = 2
    MaxRows = 3
    MaxThreads = 2
    Rounds = 3
    Words = 2
    Seed = 5
    MaxSeed = 16
SPECIFICATION MCFairSpec
INVARIANTS TypeOK  ObservationsComplete HostsAreTrue LibraryIsWhole LaunchIsSound BuildIsUsable EvaluationIsTrue
PROPERTIES WorkspaceIsSafe WaitsEnd
CHECK_DEADLOCK FALSE
