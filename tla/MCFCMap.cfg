CONSTANTS
    Keys = {k1, k2, k3, k4}
    Rows = {r1, r2}
    Elements = {e1, e2, e3, e4}
    NoRow = NoRow
    NoElement = NoElement
    NoValue = NoValue
    maxCap = 3
    expirationTime = 1
    checkIntervalSecond = 1
    intervalCheckNum = 2
    StartTime = 2
    MaxTime = 4
SPECIFICATION Spec
SYMMETRY FCMapSymmetry
INVARIANTS
    TypeOK
    MapIsList
    SizeBounded
    OrderedByUse
PROPERTIES
    EvictsOldest
    CheckIsThorough
    ImplementsCache
