CONSTANTS
    RealAreas = {1, 2}
    ShowAreas = {s1, s2}
    AreaId = 1
    Names = {name}
    NoName = NoName
    NoGates = NoGates
    NoRow = NoRow
    Requests = {c1}
    forbidGuestLogin = FALSE
    MaxEdits = 1
    MaxLoads = 2
    MaxCharacters = 1
    MaxUnstored = 2
CONSTRAINT CountsOrLoads
SYMMETRY Symmetry
SPECIFICATION Spec
CHECK_DEADLOCK FALSE
INVARIANTS
    TypeOK
    LoginHasAreas
    KeepsTrying
    ReloadTakesEffect
    CountIsSynced
