SPECIFICATION Spec
CONSTANTS
    Unranked = Unranked
    IntModulus = 1024
    NoType = NoType
    Literals = {}
    Names = {"main", "f"}
    Vars = {"x"}
    Forms = {"expr", "print"}
    MaxFuncs = 1
    MaxParams = 1
    MaxNodes = 7
    MaxDepth = 1
INVARIANTS
    ErrorMeansRejected
CHECK_DEADLOCK FALSE
