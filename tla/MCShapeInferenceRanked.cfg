SPECIFICATION Spec
CONSTANTS
    Unranked = Unranked
    IntModulus = 1024
    Programs <- MCPrograms
INVARIANTS
    InferredIsRanked
CHECK_DEADLOCK FALSE
