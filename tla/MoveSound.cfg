CONSTANTS
    x = x
    xf = xf
    Path = {x, xf}
    Owner <- FieldOwner
    Edges = {"deep"}
    Syntax <- EventName
    MaxSize = 6
    MaxNest = 2
SPECIFICATION Spec
INVARIANTS TypeOK Covered UseAfterMoveRejected SwallowedWasReported
CHECK_DEADLOCK FALSE
