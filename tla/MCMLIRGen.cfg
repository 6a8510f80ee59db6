SPECIFICATION Spec
CONSTANTS
    Unranked = Unranked
    IntModulus = 1024
    NoType = NoType
    Literals <- OneLiteral
    Names = {"main", "f"}
    Vars = {"x"}
    Forms = {"var", "return", "expr", "print", "call", "transpose", "binary"}
    MaxFuncs = 2
    MaxParams = 1
    MaxNodes = 7
    MaxDepth = 2
INVARIANTS
    TypeOK
    AcceptedIsWellFormed
    SymbolsInScope
    CallsGoBackwards
CHECK_DEADLOCK FALSE
