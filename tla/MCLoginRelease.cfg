CONSTANTS
    n1 = n1
    n2 = n2
    s1 = s1
    s2 = s2
    c1 = c1
    c2 = c2
    g1 = g1
    g2 = g2
    NoUser = NoUser
    NoGS = NoGS
    NoSession = NoSession
    NoRoute = NoRoute
    NoLogin = NoLogin
    NoPlayer = NoPlayer
    NoBalance = NoBalance
    GSNames = {s1, s2}
    Nodes = {n1}
    GameServices <- OneGS
    Users = {u1}
    Clients = {c1}
    Gates = {g1}
    GateOf <- OneGate
    Logins = {l1}
    Presented = {NoSession}
    Talking = {}
    MaxUsers = 1
    Weighs = {0, 1}
    Reports = {"Logined"}
    Lossy = FALSE
    MaxRestarts = 0
    MaxQueue = 2
SPECIFICATION Spec
CHECK_DEADLOCK FALSE
PROPERTIES
    ReleaseIsReported
