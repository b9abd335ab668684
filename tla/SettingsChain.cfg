SPECIFICATION Spec
CONSTANTS
    X = X
    Y = Y
    Names = {X, Y}
    Tokens = {"a"}
    Written <- TheWritten
    Foreign <- TheForeign
    MaxLen = 2
    MaxLines = 4
    MaxModules = 2
    MaxDepth = 2
    Habits = {}
SYMMETRY Symmetric
INVARIANTS
    CertaintyIsEarned
    SilenceIsSafe
CHECK_DEADLOCK FALSE
