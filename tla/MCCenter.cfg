CONSTANTS
    n1 = n1
    n2 = n2
    s1 = s1
    s2 = s2
    NoUser = NoUser
    NoBalance = NoBalance
    NoGS = NoGS
    GSNames = {s1, s2}
    Users = {u1, u2}
    Nodes = {n1, n2}
    GameServices <- TwoNodes
    MaxUsers = 1
    Weighs = {0}
    Reports = {"Logined", "LoginOuted"}
SPECIFICATION Spec
CONSTRAINT PriorityBound
SYMMETRY UserSymmetry
INVARIANTS
    TypeOK
    LoginingIsTimed
    QueueIsBalance
    TimerHasUser
PROPERTIES
    AssignmentSticky
