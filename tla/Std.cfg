CONSTANTS
    a = a
    b = b
    Handle = {a, b}
    Val = {v1, v2}
    v1 = v1
    v2 = v2
    k1 = k1
    k2 = k2
    k3 = k3
    k4 = k4
    Nothing = Nothing
    Junk = Junk
    Absent = Absent
    MinCap = 2
    MaxLen = 3
    Times = {0, 1, 2}
    Key = {k1, k2, k3}
    Value = {v1, v2}
    FirstCap = 4
    MaxCap = 8
    Hashes <- TableHashes
    Full = FALSE
    ZKey = {k1, k2, k3, k4}
    ZVal = {v1, v2}
    ZFirstCap = 4
    ZMaxCap = 8
    ZHashes <- ZMapHashes
    Thread = {t1, t2, t3}
    Nobody = Nobody
    Object = {"once", "barrier", "semaphore"}
    Initial = {1, 2}
    Rounds = 3
    MaxSpurious = 1
    InOrder = TRUE
SPECIFICATION StdSpec
INVARIANTS Ordered OnceRunsOnce BarrierRounds PermitsConserved
PROPERTIES VecIsList StackIsList QueueIsList TableIsMap CallsReturn ZMapIsMap ThreadsJoined
