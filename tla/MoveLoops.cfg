CONSTANTS
    x = x
    xf = xf
    Path = {x}
    Owner <- VarOwner
    Edges = {"deep"}
    Syntax <- Loops
    MaxSize = 7
    MaxNest = 3
SPECIFICATION Spec
INVARIANTS UseAfterMoveRejected
PROPERTIES TwoPassesSuffice
CHECK_DEADLOCK FALSE
