CONSTANTS
    x = x
    y = y
    v1 = v1
    v2 = v2
    v3 = v3
    Name = {x, y}
    Value = {v1, v2, v3}
    NoValue = NoValue
    Fresh = Fresh
    Risky = {"try"}
    MaxDefer = 1024
    MaxSize = 5
    MaxNest = 4
SYMMETRY Names
SPECIFICATION Spec
INVARIANTS NothingLost
CHECK_DEADLOCK FALSE
