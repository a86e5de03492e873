CONSTANTS
    p1 = p1
    p2 = p2
    t1 = t1
    t2 = t2
    NoText = NoText
    NoRef = NoRef
    Path = {p1, p2}
    Text = {t1, t2}
    FirstBlock = 2
    Size <- Sizes
    Base = 1
    Scratch = {3}
    MinGrowth = 2
    Trait = {t2}
    Encoded = {}
SYMMETRY Symmetry
SPECIFICATION Spec
INVARIANTS TypeOK ServesEditor ClosedServesDisk NothingDangles GarbageBounded
PROPERTY DocumentsServed
CHECK_DEADLOCK FALSE
