SPECIFICATION Spec
CONSTANTS
    MaxOperators = 6
INVARIANTS
    TypeOK
    PrecedenceRespected
    ResultIsWhole
PROPERTIES
    Terminates
CHECK_DEADLOCK FALSE
