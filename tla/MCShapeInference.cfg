SPECIFICATION Spec
CONSTANTS
    Unranked = Unranked
    IntModulus = 1024
    Programs <- MCPrograms
INVARIANTS
    TypeOK
    SettledTypes
    VerifiedIsWellTyped
    FailureHasCause
PROPERTIES
    Terminates
    ImplementsContract
CHECK_DEADLOCK FALSE
