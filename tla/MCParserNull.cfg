SPECIFICATION Spec
CONSTANTS
    Inputs <- MCInputs
INVARIANTS
    ErrorMeansNull
CHECK_DEADLOCK FALSE
