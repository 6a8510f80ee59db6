SPECIFICATION Spec
CONSTANTS
    Unranked = Unranked
    IntModulus = 128
    Extents = {1, 2, 3, 4, 6, 8}
    Reshapes <- MCReshapes
INVARIANTS
    VerifiedSameCount
CHECK_DEADLOCK FALSE
