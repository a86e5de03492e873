CONSTANTS
    x = x
    xf = xf
    Path = {x}
    Owner <- VarOwner
    Edges = {}
    Syntax <- Loops
    MaxSize = 7
    MaxNest = 2
SPECIFICATION Spec
PROPERTIES UnreachableOnlyWithoutBreak
CHECK_DEADLOCK FALSE
