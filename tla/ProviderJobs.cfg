SPECIFICATION Spec
CONSTANTS
    c1 = c1
    c2 = c2
    Client <- Clients
    Workers = 2
    MaxJobs = 3
    PendingMax = 2
    ListMax = 2
    CancelMax = 1
INVARIANTS
    TypeOK
    ListedAreSerial
    CancelledLeavesNothing
    WaitsForLiveJob
SYMMETRY Symmetry
CHECK_DEADLOCK FALSE
