CONSTANTS
    x = x
    y = y
    v1 = v1
    v2 = v2
    v3 = v3
    Name = {x, y}
    Value = {v1, v2, v3}
    NoValue = NoValue
    Fresh = Fresh
    Risky = {}
    MaxDefer = 1024
    MaxSize = 5
    MaxNest = 4
    main = main
    m1 = m1
    m2 = m2
    std = std
    h = h
    main_name = main_name
    name = name
    std_name = std_name
    dir1 = dir1
    dir2 = dir2
    t1 = t1
    t2 = t2
    t3 = t3
    t4 = t4
    Main = main
    Module = {m1, m2}
    Extra = {m2}
    Std = std
    Header = {h}
    Base <- BaseDef
    Qualified <- QualifiedDef
    Symbol = {t1, t2, t3, t4}
    Item <- ItemDef
    Namings <- NamingsDef
    NoPrefix = NoPrefix
    NoFile = NoFile
    MaxItems = 3
SYMMETRY Names
SPECIFICATION PassSpec
INVARIANTS TypeOK NoDoubleDrop NothingLost
INVARIANTS FilesTypeOK CyclesReported ReadOnce DepthBounded PrefixesDistinct OwnTypeFound ImportsBind ExportsBind HeaderAliased
PROPERTIES DefersRunOnExit
CHECK_DEADLOCK FALSE
