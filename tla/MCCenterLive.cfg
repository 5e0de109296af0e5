CONSTANTS
    n1 = n1
    n2 = n2
    s1 = s1
    s2 = s2
    NoUser = NoUser
    NoBalance = NoBalance
    NoGS = NoGS
    GSNames = {s1, s2}
    Users = {u1}
    Nodes = {n1}
    GameServices <- OneNode
    MaxUsers = 1
    Weighs = {0}
    Reports = {"Logined", "LoginOuting", "LoginOuted"}
SPECIFICATION FairSpec
CONSTRAINT PriorityBound
PROPERTIES
    StuckOnlyByRetry
