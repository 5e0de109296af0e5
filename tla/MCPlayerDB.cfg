CONSTANTS
    Users = {u1, u2}
    Objs = {o1, o2}
    NoObj = NoObj
    MultiTables = {mail}
    MaxLives = 2
    MaxChanges = 2
SPECIFICATION FairSpec
INVARIANTS
    TypeOK
    MapIsPool
    ProgressIsOwn
    NoLostUpdate
PROPERTIES
    LoadIsAnswered
    LoadingEnds
