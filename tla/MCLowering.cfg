SPECIFICATION Spec
CONSTANTS
    Unranked = Unranked
    IntModulus = 1024
    Programs <- MCPrograms
INVARIANTS
    TypeOK
    MemoryIsSafe
    SymbolsOnce
PROPERTIES
    Terminates
    ImplementsToyMachine
CHECK_DEADLOCK FALSE
