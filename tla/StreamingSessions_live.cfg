SPECIFICATION FairSpec
CONSTANTS
    r1 = r1
    r2 = r2
    r3 = r3
    r4 = r4
    h1 = h1
    h2 = h2
    c1 = c1
    c2 = c2
    Request = {r1, r2}
    Helper = {h1}
    Pool <- OneContainer
    Ops = {"claim", "release", "save_and_exit", "control", "heartbeat"}
    CardSync = FALSE
    Webstation = FALSE
    Mishaps = {"crash", "contention", "forgotten", "overrun", "slow_start", "failure",
               "early_exit"}
INVARIANTS
    TeardownHoldsMarker
PROPERTIES
    ContainerIsFreed
    RequestEnds
    ClaimEndsByItsOwn
