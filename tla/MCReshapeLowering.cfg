SPECIFICATION Spec
CONSTANTS
    Unranked = Unranked
    IntModulus = 128
    Extents = {1, 2, 3, 4, 6, 8}
    Reshapes <- MCReshapes
INVARIANTS
    TypeOK
    SearchesAreBalanced
    LoweringIsValid
    NeverUndefined
    SameCountIsLowered
PROPERTIES
    Terminates
CHECK_DEADLOCK FALSE
