CONSTANTS
    a = a
    b = b
    Handle = {a, b}
    Val = {v1, v2}
    v1 = v1
    v2 = v2
    k1 = k1
    k2 = k2
    k3 = k3
    k4 = k4
    Nothing = Nothing
    Junk = Junk
    Absent = Absent
    MinCap = 2
    MaxLen = 0
    Times = {0}
    Key = {k1, k2, k3}
    Value = {v1}
    FirstCap = 4
    MaxCap = 4
    Hashes <- TableHashes
    Full = TRUE
    ZKey = {k1, k2, k3, k4}
    ZVal = {v1, v2}
    ZFirstCap = 4
    ZMaxCap = 8
    ZHashes <- ZMapHashes
    Thread = {t1}
    Nobody = Nobody
    Object = {"once", "barrier", "semaphore"}
    Initial = {1}
    Rounds = 1
    MaxSpurious = 0
    InOrder = TRUE
SPECIFICATION StdSpec
PROPERTY PutReturns
