SPECIFICATION CasSpec
CONSTANTS
    p1 = p1
    p2 = p2
    k1 = k1
    seenField = seenField
    discField = discField
    Proc <- Procs2
    ClaimId <- Claims
    Token <- Tokens
    Field <- Fields
    Attempts = 2
    Ops <- AllOps
INVARIANTS
    NoLostUpdate
    NoResurrection
PROPERTIES
    OnlyOwnRemoval
    ImplementsSessionKey
SYMMETRY Symmetry2
