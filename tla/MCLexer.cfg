SPECIFICATION Spec
CONSTANTS
    EOF = EOF
    Texts <- MCTexts
INVARIANTS
    TypeOK
PROPERTIES
    ReadsInOrder
    ImplementsTokenStream
    Terminates
CHECK_DEADLOCK FALSE
