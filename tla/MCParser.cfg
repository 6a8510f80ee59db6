SPECIFICATION Spec
CONSTANTS
    Inputs <- MCInputs
INVARIANTS
    TypeOK
    AcceptedIsGrammatical
    SentencesAreAccepted
PROPERTIES
    Terminates
CHECK_DEADLOCK FALSE
