CONSTANTS
    a = a
    b = b
    c = c
    Type = {a, b, c}
    Func = Func
    Method = Method
    Begins <- BeginsDef
    MaxUses = 2
    MaxIndirect = 1
    MaxOwners = 1
    MaxOdd = 1
    DropKinds = {"struct", "instance"}
SPECIFICATION Spec
INVARIANTS OwnersMarked CopiesNotDropped EmittedInOrder DropReachesParts
