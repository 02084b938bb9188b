SPECIFICATION Spec
CONSTANTS
    r1 = r1
    r2 = r2
    r3 = r3
    h1 = h1
    h2 = h2
    c1 = c1
    c2 = c2
    r4 = r4
    Request = {r1, r2, r3, r4}
    Helper = {h1}
    Pool <- OneContainer
    Ops = {"claim", "release", "desktop", "heartbeat", "control"}
    CardSync = TRUE
    Webstation = TRUE
    Mishaps = {}
INVARIANTS
    TypeOK
    FiledIsOwn
    GameOnOwnCard
PROPERTIES
    UnsavedIsKept
    StopsOwnGame
SYMMETRY Symmetry
VIEW View
