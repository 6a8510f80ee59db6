SPECIFICATION Spec
CONSTANTS
    Unranked = Unranked
    IntModulus = 1024
    Inputs <- MCInputs
INVARIANTS
    TypeOK
    MeaningPreserved
    InferenceGetsWellFormed
    LoweringGetsVerified
    VectorsArePromoted
    OutputAsRequested
PROPERTIES
    Terminates
CHECK_DEADLOCK FALSE
