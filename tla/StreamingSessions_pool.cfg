SPECIFICATION Spec
CONSTANTS
    r1 = r1
    r2 = r2
    r3 = r3
    r4 = r4
    h1 = h1
    h2 = h2
    c1 = c1
    c2 = c2
    Request = {r1, r2, r3}
    Helper = {h1}
    Pool <- TwoContainers
    Ops = {"claim", "force"}
    CardSync = TRUE
    Webstation = TRUE
    Mishaps = {"failure"}
INVARIANTS
    ClaimHoldsOne
SYMMETRY Symmetry
VIEW View
