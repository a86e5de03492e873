CONSTANTS
    x = x
    xf = xf
    Path = {x}
    Owner <- VarOwner
    Edges = {"zero"}
    Syntax <- Loops
    MaxSize = 7
    MaxNest = 2
SPECIFICATION Spec
INVARIANTS UseAfterMoveRejected
CHECK_DEADLOCK FALSE
