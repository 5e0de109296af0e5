----------------------------- MODULE LoginProofs ------------------------------
(* What gates, GameServices and CenterService guarantee together, for any    *)
(* number of clients, gates, GameServices, users and logins.                 *)
EXTENDS LoginSystem, FiniteSetTheorems, TLAPS

----------------------------------------------------------------------------
(* Channels.                                                                *)

ToGS     == LoginToGameServiceReq \cup RawInputArgs
ToGate   == GsLoginResult \cup RawCloseArgs
ToCenter == UpdatePlayerStatus \cup UpdatePlayerList \cup GameServiceBalance

LEMMA SentType ==
    ASSUME NEW K, NEW M, NEW ch \in [K -> Seq(M)], NEW k \in K, NEW m \in M
    PROVE  Sent(ch, k, m) \in [K -> Seq(M)]
BY DEF Sent

LEMMA ReceivedType ==
    ASSUME NEW K, NEW M, NEW ch \in [K -> Seq(M)], NEW k \in K, ch[k] # <<>>
    PROVE  Received(ch, k) \in [K -> Seq(M)] /\ Head(ch[k]) \in M
BY DEF Received

\* The messages of the three channels, by what their type says.
LEMMA HeadToGS ==
    ASSUME NetTypeOK, NEW g \in GameServices, NEW gate \in Gates, NEW t,
           Delivers(toGS, <<gate, g>>, t)
    PROVE  LET m == Head(toGS[<<gate, g>>]) IN
           /\ t = "login" => m \in LoginToGameServiceReq
           /\ t \in {"close", "recv"} => m \in RawInputArgs
<1>1. Head(toGS[<<gate, g>>]) \in ToGS
    BY ReceivedType DEF NetTypeOK, Delivers, ToGS
<1> QED BY <1>1 DEF Delivers, ToGS, LoginToGameServiceReq, RawInputArgs

LEMMA HeadToGate ==
    ASSUME NetTypeOK, NEW g \in GameServices, NEW gate \in Gates, NEW t,
           Delivers(toGate, <<g, gate>>, t)
    PROVE  LET m == Head(toGate[<<g, gate>>]) IN
           /\ t = "loginRet" => m \in GsLoginResult
           /\ t = "close" => m \in RawCloseArgs
<1>1. Head(toGate[<<g, gate>>]) \in ToGate
    BY ReceivedType DEF NetTypeOK, Delivers, ToGate
<1> QED BY <1>1 DEF Delivers, ToGate, GsLoginResult, RawCloseArgs

LEMMA HeadToCenter ==
    ASSUME NetTypeOK, NEW g \in GameServices, NEW t, Delivers(toCenter, g, t)
    PROVE  LET m == Head(toCenter[g]) IN
           /\ t = "status" => m \in UpdatePlayerStatus
           /\ t = "list" => m \in UpdatePlayerList
           /\ t = "balance" => m \in GameServiceBalance
<1>1. Head(toCenter[g]) \in ToCenter
    BY ReceivedType DEF NetTypeOK, Delivers, ToCenter
<1> QED BY <1>1 DEF Delivers, ToCenter, UpdatePlayerStatus, UpdatePlayerList, GameServiceBalance

----------------------------------------------------------------------------
(* Type correctness: the gates.                                             *)

LEMMA FailType ==
    ASSUME GateTypeOK, NEW r \in Logins, NEW req \in LoginReq, Fail(r, req)
    PROVE  loginReq' \in [Logins -> LoginReq \cup {NoLogin}] /\ answered' \in SUBSET Logins
BY DEF Fail, SendLoginRes, GateTypeOK, LoginReq

LEMMA CallStateType ==
    ASSUME NetTypeOK, NEW r \in Logins, 
           NEW st \in {"idle", "center", "centerRet", "gs", "gsOk", "gsErr"},
           CallState(r, st)
    PROVE  rpc' \in [Logins -> Call]
BY DEF CallState, NetTypeOK, Call

LEMMA loginToGsType ==
    ASSUME NetTypeOK, GateTypeOK, NEW r \in Logins, NEW req \in LoginReq, loginToGs(r, req)
    PROVE  /\ loginReq' \in [Logins -> LoginReq \cup {NoLogin}] /\ answered' \in SUBSET Logins
           /\ rpc' \in [Logins -> Call]
<1>1. CASE Fail(r, req) /\ UNCHANGED rpc
    BY <1>1, FailType DEF NetTypeOK
<1>2. CASE /\ loginReq' = [loginReq EXCEPT ![r] = [req EXCEPT !.stage = "center"]]
           /\ CallState(r, "center") /\ UNCHANGED answered
    BY <1>2, CallStateType DEF GateTypeOK, LoginReq
<1> QED BY <1>1, <1>2 DEF loginToGs

LEMMA LoginType ==
    ASSUME NetTypeOK, GateTypeOK, NEW r \in Logins, NEW c \in Clients, NEW u \in Users,
           NEW s \in Presented, Login(r, c, u, s)
    PROVE  NetTypeOK' /\ GateTypeOK'
<1> DEFINE req == [client |-> c, user |-> u, session |-> s, stage |-> "db"]
<1>1. req \in LoginReq
    BY GateAssumption DEF LoginReq
<1>2. /\ loginReq' \in [Logins -> LoginReq \cup {NoLogin}] /\ answered' \in SUBSET Logins
      /\ rpc' \in [Logins -> Call]
    <2>1. CASE loginToGs(r, req)
        BY <1>1, <2>1, loginToGsType
    <2>2. CASE loginToCenter(r, req)
        <3>1. CASE Fail(r, req) /\ UNCHANGED rpc
            BY <1>1, <3>1, FailType DEF NetTypeOK
        <3>2. CASE loginReq' = [loginReq EXCEPT ![r] = req] /\ UNCHANGED <<answered, rpc>>
            BY <1>1, <3>2 DEF GateTypeOK, NetTypeOK
        <3> QED BY <2>2, <3>1, <3>2 DEF loginToCenter
    <2> QED BY <2>1, <2>2 DEF Login
<1> QED BY <1>2 DEF Login, NetTypeOK, GateTypeOK

LEMMA StageType ==
    ASSUME GateTypeOK, NEW r \in Logins, NEW st, AtStage(r, st)
    PROVE  loginReq[r] \in LoginReq
BY DEF AtStage, GateTypeOK

LEMMA CenterAnswersType ==
    ASSUME NetTypeOK, GateTypeOK, NEW r \in Logins, CenterAnswers(r)
    PROVE  NetTypeOK' /\ GateTypeOK'
<1> DEFINE req == loginReq[r]
           g   == rpc[r].gs
<1>1. req \in LoginReq /\ req.client \in Clients /\ GateOf[req.client] \in Gates
    BY StageType, NetAssumption DEF CenterAnswers, LoginReq
<1>2. CASE Fail(r, req) /\ UNCHANGED <<mapRouterCache, rpc, toGS>>
    BY <1>1, <1>2, FailType DEF CenterAnswers, NetTypeOK, GateTypeOK
<1>3. CASE /\ g # NoGS
           /\ mapRouterCache' = [mapRouterCache EXCEPT ![req.client] =
                                    [gs |-> g, status |-> "Logging"]]
    <2>1. g \in GameServices
        BY <1>3 DEF NetTypeOK, Call
    <2>2. mapRouterCache' \in [Clients -> nodeInfo \cup {NoRoute}]
        BY <1>1, <1>3, <2>1 DEF GateTypeOK, nodeInfo
    <2>3. CASE /\ loginReq' = [loginReq EXCEPT ![r].stage = "gs"]
               /\ CallState(r, "gs")
               /\ toGS' = Sent(toGS, <<GateOf[req.client], g>>,
                               [type |-> "login", id |-> r, client |-> req.client,
                                user |-> req.user, session |-> req.session])
               /\ UNCHANGED answered
        <3>1. [type |-> "login", id |-> r, client |-> req.client,
               user |-> req.user, session |-> req.session] \in ToGS
            BY <1>1 DEF ToGS, LoginToGameServiceReq, LoginReq
        <3>2. toGS' \in [Gates \X GameServices -> Seq(ToGS)]
            BY <1>1, <2>1, <2>3, <3>1, SentType DEF NetTypeOK, ToGS
        <3>3. loginReq' \in [Logins -> LoginReq \cup {NoLogin}]
            BY <1>1, <2>3 DEF GateTypeOK, LoginReq
        <3>4. rpc' \in [Logins -> Call]
            BY <2>3, CallStateType
        <3> QED BY <2>2, <2>3, <3>2, <3>3, <3>4 DEF CenterAnswers, NetTypeOK, GateTypeOK, ToGS
    <2>4. CASE Fail(r, req) /\ UNCHANGED <<rpc, toGS>>
        BY <1>1, <2>2, <2>4, FailType DEF CenterAnswers, NetTypeOK, GateTypeOK
    <2> QED BY <1>2, <1>3, <2>3, <2>4 DEF CenterAnswers, loginOk
<1> QED BY <1>2, <1>3 DEF CenterAnswers, loginOk

LEMMA GateLoginType == TypeOK /\ GateLogin /\ GateOnly => TypeOK'
<1> SUFFICES ASSUME TypeOK, GateLogin, GateOnly PROVE NetTypeOK' /\ GateTypeOK'
    BY DEF TypeOK, GateOnly, gsVars, GSTypeOK
<1> USE DEF TypeOK
<1>1. PICK r \in Logins :
        \/ \E c \in Clients, u \in Users, s \in Presented : Login(r, c, u, s)
        \/ DBAnswers(r) \/ CenterAnswers(r) \/ GSAnswers(r) \/ CallFails(r)
    BY DEF GateLogin
<1>2. CASE \E c \in Clients, u \in Users, s \in Presented : Login(r, c, u, s)
    BY <1>2, LoginType
<1>3. CASE DBAnswers(r)
    BY <1>3, StageType, loginToGsType DEF DBAnswers, NetTypeOK, GateTypeOK
<1>4. CASE CenterAnswers(r)
    BY <1>4, CenterAnswersType
<1>5. CASE GSAnswers(r)
    <2>1. CASE Fail(r, loginReq[r])
        BY <1>5, <2>1, StageType, FailType DEF GSAnswers, NetTypeOK, GateTypeOK, netVars
    <2>2. CASE loginReq' = [loginReq EXCEPT ![r].stage = "done"] /\ UNCHANGED answered
        <3>1. loginReq' \in [Logins -> LoginReq \cup {NoLogin}]
            BY <1>5, <2>2, StageType DEF GSAnswers, GateTypeOK, LoginReq
        <3> QED BY <1>5, <2>2, <3>1 DEF GSAnswers, NetTypeOK, GateTypeOK, netVars
    <2> QED BY <1>5, <2>1, <2>2 DEF GSAnswers
<1>6. CASE CallFails(r)
    BY <1>6, StageType, FailType DEF CallFails, NetTypeOK, GateTypeOK, netVars
<1> QED BY <1>1, <1>2, <1>3, <1>4, <1>5, <1>6

LEMMA CloseType ==
    ASSUME GateTypeOK, NEW c \in Clients, Close(c)
    PROVE  conn' \in [Clients -> {"open", "closed", "gone"}]
BY DEF Close, GateTypeOK

LEMMA OnDisconnectedType ==
    ASSUME NetTypeOK, GateTypeOK, NEW c \in Clients, OnDisconnected(c)
    PROVE  NetTypeOK' /\ GateTypeOK'
<1>1. toGS' \in [Gates \X GameServices -> Seq(ToGS)]
    <2>1. CASE Routed(c)
        <3>1. mapRouterCache[c].gs \in GameServices
            BY <2>1 DEF Routed, GateTypeOK, nodeInfo
        <3>2. [type |-> "close", client |-> c] \in ToGS
            BY DEF ToGS, RawInputArgs
        <3>3. <<GateOf[c], mapRouterCache[c].gs>> \in Gates \X GameServices
            BY <3>1, NetAssumption
        <3>4. toGS \in [Gates \X GameServices -> Seq(ToGS)]
            BY DEF NetTypeOK, ToGS
        <3>5. toGS' = Sent(toGS, <<GateOf[c], mapRouterCache[c].gs>>,
                           [type |-> "close", client |-> c])
            BY <2>1 DEF OnDisconnected
        <3> QED BY <3>2, <3>3, <3>4, <3>5, SentType
    <2>2. CASE ~Routed(c)
        BY <2>2 DEF OnDisconnected, NetTypeOK, ToGS
    <2> QED BY <2>1, <2>2
<1>2. /\ conn' \in [Clients -> {"open", "closed", "gone"}]
      /\ mapRouterCache' \in [Clients -> nodeInfo \cup {NoRoute}]
    BY DEF OnDisconnected, GateTypeOK
<1> QED BY <1>1, <1>2 DEF OnDisconnected, NetTypeOK, GateTypeOK, ToGS

LEMMA RouterMessageType ==
    ASSUME NetTypeOK, GateTypeOK, NEW c \in Clients, RouterMessage(c)
    PROVE  NetTypeOK' /\ GateTypeOK'
<1>1. CASE Close(c) /\ UNCHANGED toGS
    BY <1>1, CloseType DEF RouterMessage, NetTypeOK, GateTypeOK
<1>2. CASE /\ Routed(c)
           /\ toGS' = Sent(toGS, <<GateOf[c], mapRouterCache[c].gs>>,
                           [type |-> "recv", client |-> c])
           /\ UNCHANGED conn
    <2>1. <<GateOf[c], mapRouterCache[c].gs>> \in Gates \X GameServices
        BY <1>2, NetAssumption DEF Routed, GateTypeOK, nodeInfo
    <2>2. [type |-> "recv", client |-> c] \in ToGS
        BY DEF ToGS, RawInputArgs
    <2>3. toGS' \in [Gates \X GameServices -> Seq(ToGS)]
        BY <1>2, <2>1, <2>2, SentType DEF NetTypeOK, ToGS
    <2> QED BY <1>2, <2>3 DEF RouterMessage, NetTypeOK, GateTypeOK, ToGS
<1> QED BY <1>1, <1>2 DEF RouterMessage

LEMMA GateClientType == TypeOK /\ GateClient /\ GateOnly => TypeOK'
<1> SUFFICES ASSUME TypeOK, GateClient, GateOnly PROVE NetTypeOK' /\ GateTypeOK'
    BY DEF TypeOK, GateOnly, gsVars, GSTypeOK
<1> USE DEF TypeOK
<1>1. PICK c \in Clients :
        MalformedLogin(c) \/ ClientCloses(c) \/ OnDisconnected(c) \/ RouterMessage(c)
    BY DEF GateClient
<1>2. CASE MalformedLogin(c)
    BY <1>2, CloseType DEF MalformedLogin, NetTypeOK, GateTypeOK, netVars
<1>3. CASE ClientCloses(c)
    BY <1>3, CloseType DEF ClientCloses, NetTypeOK, GateTypeOK, netVars
<1>4. CASE OnDisconnected(c)
    BY <1>4, OnDisconnectedType
<1>5. CASE RouterMessage(c)
    BY <1>5, RouterMessageType
<1> QED BY <1>1, <1>2, <1>3, <1>4, <1>5

LEMMA GateReceivesType == TypeOK /\ GateReceives /\ GateOnly => TypeOK'
<1> SUFFICES ASSUME TypeOK, GateReceives, GateOnly PROVE NetTypeOK' /\ GateTypeOK'
    BY DEF TypeOK, GateOnly, gsVars, GSTypeOK
<1> USE DEF TypeOK
<1>1. PICK g \in GameServices, gate \in Gates : RPC_GSLoginRet(g, gate) \/ RawCloseClient(g, gate)
    BY DEF GateReceives
<1> DEFINE c == Head(toGate[<<g, gate>>]).client
<1>2. c \in Clients
    BY <1>1, HeadToGate DEF RPC_GSLoginRet, RawCloseClient, GsLoginResult, RawCloseArgs
<1>3. toGate' \in [GameServices \X Gates -> Seq(ToGate)]
    <2>1. toGate \in [GameServices \X Gates -> Seq(ToGate)] /\ <<g, gate>> \in GameServices \X Gates
        BY DEF NetTypeOK, ToGate
    <2>2. toGate[<<g, gate>>] # <<>> /\ toGate' = Received(toGate, <<g, gate>>)
        BY <1>1 DEF RPC_GSLoginRet, RawCloseClient, Delivers
    <2> QED BY <2>1, <2>2, ReceivedType
<1>4. CASE RPC_GSLoginRet(g, gate)
    <2>1. mapRouterCache' \in [Clients -> nodeInfo \cup {NoRoute}]
        BY <1>2, <1>4 DEF RPC_GSLoginRet, GateTypeOK, nodeInfo, Routed
    <2>2. answered' \in SUBSET Logins
        <3>1. Head(toGate[<<g, gate>>]).id \in Logins
            BY <1>4, HeadToGate DEF RPC_GSLoginRet, GsLoginResult
        <3> QED BY <1>4, <3>1 DEF RPC_GSLoginRet, GateTypeOK, SendLoginRes
    <2> QED BY <1>3, <1>4, <2>1, <2>2 DEF RPC_GSLoginRet, NetTypeOK, GateTypeOK, ToGate
<1>5. CASE RawCloseClient(g, gate)
    BY <1>2, <1>3, <1>5, CloseType DEF RawCloseClient, NetTypeOK, GateTypeOK, ToGate
<1> QED BY <1>1, <1>4, <1>5

----------------------------------------------------------------------------
(* Type correctness: the GameServices.                                      *)

LEMMA LiveType ==
    ASSUME GSTypeOK, NEW g \in GameServices, NEW u \in Users, Live(g, u)
    PROVE  mapPlayer[g][u] \in Player
BY DEF GSTypeOK, Live

LEMMA PlayerMapType ==
    ASSUME GSTypeOK, NEW g \in GameServices, NEW u \in Users,
           NEW p \in Player \cup {NoPlayer}, mapPlayer' = [mapPlayer EXCEPT ![g][u] = p]
    PROVE  mapPlayer' \in [GameServices -> [Users -> Player \cup {NoPlayer}]]
BY DEF GSTypeOK

LEMMA DetachedType ==
    ASSUME GSTypeOK, NEW g \in GameServices, NEW c \in Clients
    PROVE  Detached(g, c) \in [GameServices -> [Clients -> Users \cup {NoUser}]]
BY DEF GSTypeOK, Detached

LEMMA CloseClientType ==
    ASSUME NetTypeOK, GSTypeOK, NEW g \in GameServices, NEW c \in Clients, CloseClient(g, c)
    PROVE  /\ toGate' \in [GameServices \X Gates -> Seq(ToGate)]
           /\ mapClientPlayer' \in [GameServices -> [Clients -> Users \cup {NoUser}]]
<1>1. [type |-> "close", client |-> c] \in ToGate /\ <<g, GateOf[c]>> \in GameServices \X Gates
    BY NetAssumption DEF ToGate, RawCloseArgs
<1>2. toGate' \in [GameServices \X Gates -> Seq(ToGate)]
    BY <1>1, SentType DEF CloseClient, NetTypeOK, ToGate
<1> QED BY <1>2, DetachedType DEF CloseClient

LEMMA DestroyType ==
    ASSUME NetTypeOK, GSTypeOK, NEW g \in GameServices, NEW u \in Users, Live(g, u), Destroy(g, u)
    PROVE  /\ toGate' \in [GameServices \X Gates -> Seq(ToGate)]
           /\ mapClientPlayer' \in [GameServices -> [Clients -> Users \cup {NoUser}]]
           /\ mapPlayer' \in [GameServices -> [Users -> Player \cup {NoPlayer}]]
<1>1. mapPlayer[g][u].client \in Clients
    BY LiveType DEF Player
<1> QED BY <1>1, CloseClientType, PlayerMapType DEF Destroy

LEMMA AcceptType ==
    ASSUME NetTypeOK, GSTypeOK, NEW g \in GameServices, NEW gate \in Gates,
           NEW m \in LoginToGameServiceReq, Accept(g, gate, m),
           UNCHANGED listed, toGS' \in [Gates \X GameServices -> Seq(ToGS)]
    PROVE  NetTypeOK' /\ GSTypeOK'
<1> DEFINE p == IF Live(g, m.user) THEN mapPlayer[g][m.user] ELSE NewPlayer(m)
<1>1. /\ m.id \in Logins /\ m.client \in Clients /\ m.user \in Users /\ m.session \in Session
    BY DEF LoginToGameServiceReq
<1>2. p \in Player
    BY <1>1, LiveType DEF NewPlayer, Player, Session
<1>3. [p EXCEPT !.client = m.client, !.session = m.session, !.ping = "fresh"] \in Player
    BY <1>1, <1>2 DEF Player
<1>4. mapPlayer' \in [GameServices -> [Users -> Player \cup {NoPlayer}]]
    BY <1>1, <1>3, PlayerMapType DEF Accept, attachConn
<1>5. mapClientPlayer' \in [GameServices -> [Clients -> Users \cup {NoUser}]]
    BY <1>1 DEF Accept, attachConn, GSTypeOK
<1>6. toCenter' \in [GameServices -> Seq(ToCenter)]
    <2>1. LoggedIn(m) \in ToCenter
        BY <1>1 DEF LoggedIn, ToCenter, UpdatePlayerStatus
    <2> QED BY <2>1, SentType DEF Accept, NetTypeOK, ToCenter
<1>7. toGate' \in [GameServices \X Gates -> Seq(ToGate)]
    <2>1. [type |-> "loginRet", id |-> m.id, client |-> m.client, user |-> m.user, session |-> m.session]
            \in ToGate
        BY <1>1 DEF ToGate, GsLoginResult
    <2>2. toGate \in [GameServices \X Gates -> Seq(ToGate)] /\ <<g, gate>> \in GameServices \X Gates
        BY DEF NetTypeOK, ToGate
    <2> DEFINE ret == [type |-> "loginRet", id |-> m.id, client |-> m.client,
                       user |-> m.user, session |-> m.session]
    <2> HIDE DEF ret
    <2>3. toGate' = toGate \/ toGate' = Sent(toGate, <<g, gate>>, ret)
        BY DEF Accept, ret
    <2>4. Sent(toGate, <<g, gate>>, ret) \in [GameServices \X Gates -> Seq(ToGate)]
        BY <2>1, <2>2, SentType DEF ret
    <2> QED BY <2>2, <2>3, <2>4
<1>8. rpc' \in [Logins -> Call]
    BY <1>1, CallStateType DEF Accept
<1> QED BY <1>4, <1>5, <1>6, <1>7, <1>8 DEF NetTypeOK, GSTypeOK, ToGS, ToGate, ToCenter

\* A ping renews a Player that is there: this needs ClientPlayerLive.
LEMMA GSReceivesType == TypeOK /\ ClientPlayerLive /\ GSReceives /\ GSOnly => TypeOK'
<1> SUFFICES ASSUME TypeOK, ClientPlayerLive, GSReceives, GSOnly PROVE NetTypeOK' /\ GSTypeOK'
    BY DEF TypeOK, GSOnly, gateVars, GateTypeOK
<1> USE DEF TypeOK
<1>1. PICK g \in GameServices, gate \in Gates :
        RPC_Login(g, gate) \/ RpcOnCloseCallBack(g, gate) \/ RpcOnRecvCallBack(g, gate)
    BY DEF GSReceives
<1> DEFINE m == Head(toGS[<<gate, g>>])
<1>2. toGS' \in [Gates \X GameServices -> Seq(ToGS)]
    <2>1. toGS \in [Gates \X GameServices -> Seq(ToGS)] /\ <<gate, g>> \in Gates \X GameServices
        BY DEF NetTypeOK, ToGS
    <2>2. toGS[<<gate, g>>] # <<>> /\ toGS' = Received(toGS, <<gate, g>>)
        BY <1>1 DEF RPC_Login, RpcOnCloseCallBack, RpcOnRecvCallBack, Delivers
    <2> QED BY <2>1, <2>2, ReceivedType
<1>3. CASE RPC_Login(g, gate)
    <2>1. m \in LoginToGameServiceReq /\ m.id \in Logins
        BY <1>3, HeadToGS DEF RPC_Login, LoginToGameServiceReq
    <2>2. CASE Accept(g, gate, m)
        BY <1>2, <1>3, <2>1, <2>2, AcceptType DEF RPC_Login
    <2>3. CASE CallState(m.id, "gsErr")
                /\ UNCHANGED <<mapPlayer, mapClientPlayer, toGate, toCenter>>
        BY <1>2, <1>3, <2>1, <2>3, CallStateType DEF RPC_Login, NetTypeOK, GSTypeOK, ToGS
    <2> QED BY <1>3, <2>2, <2>3 DEF RPC_Login
<1>4. CASE RpcOnCloseCallBack(g, gate)
    <2>1. m.client \in Clients
        BY <1>4, HeadToGS DEF RpcOnCloseCallBack, RawInputArgs
    <2> QED BY <1>2, <1>4, <2>1, DetachedType DEF RpcOnCloseCallBack, NetTypeOK, GSTypeOK, ToGS
<1>5. CASE RpcOnRecvCallBack(g, gate)
    <2>1. m.client \in Clients
        BY <1>5, HeadToGS DEF RpcOnRecvCallBack, RawInputArgs
    <2>2. CASE Attached(g, m.client) /\ Ping(g, m.client)
        <3>1. mapPlayer' \in [GameServices -> [Users -> Player \cup {NoPlayer}]]
            <4> DEFINE u == mapClientPlayer[g][m.client]
            <4>1. u \in Users /\ mapPlayer[g][u] \in Player
                BY <2>1, <2>2, LiveType DEF Attached, GSTypeOK, ClientPlayerLive
            <4>2. mapPlayer' = [mapPlayer EXCEPT ![g][u] = [@ EXCEPT !.ping = "fresh"]]
                BY <2>2 DEF Ping
            <4>3. [mapPlayer[g][u] EXCEPT !.ping = "fresh"] \in Player
                BY <4>1 DEF Player
            <4> QED BY <4>1, <4>2, <4>3 DEF GSTypeOK
        <3> QED BY <1>2, <1>5, <2>2, <3>1 DEF RpcOnRecvCallBack, Ping, NetTypeOK, GSTypeOK, ToGS
    <2>3. CASE CloseClient(g, m.client) /\ UNCHANGED mapPlayer
        BY <1>2, <1>5, <2>1, <2>3, CloseClientType
            DEF RpcOnRecvCallBack, NetTypeOK, GSTypeOK, ToGS, ToGate
    <2>4. CASE UNCHANGED <<mapPlayer, mapClientPlayer, toGate>>
        BY <1>2, <1>5, <2>4 DEF RpcOnRecvCallBack, NetTypeOK, GSTypeOK, ToGS
    <2> QED BY <1>5, <2>2, <2>3, <2>4 DEF RpcOnRecvCallBack
<1> QED BY <1>1, <1>3, <1>4, <1>5

LEMMA GSPlayerType == TypeOK /\ GSPlayer /\ GSOnly => TypeOK'
<1> SUFFICES ASSUME TypeOK, GSPlayer, GSOnly PROVE NetTypeOK' /\ GSTypeOK'
    BY DEF TypeOK, GSOnly, gateVars, GateTypeOK
<1> USE DEF TypeOK
<1>1. PICK g \in GameServices, u \in Users :
        checkPingTimeout(g, u) \/ PingGetsOld(g, u) \/ \E ok \in BOOLEAN : OnLoadDBEnd(g, u, ok)
    BY DEF GSPlayer
<1>2. mapPlayer[g][u] \in Player
    BY <1>1, LiveType DEF checkPingTimeout, PingGetsOld, OnLoadDBEnd
<1>3. CASE Destroy(g, u) /\ UNCHANGED <<listed, toGS, toCenter, rpc>>
    <2>1. Live(g, u)
        BY <1>1 DEF checkPingTimeout, PingGetsOld, OnLoadDBEnd
    <2> QED BY <1>3, <2>1, DestroyType DEF NetTypeOK, GSTypeOK, ToGate
<1>4. CASE PingGetsOld(g, u)
    <2>1. [mapPlayer[g][u] EXCEPT !.ping = "old"] \in Player
        BY <1>2 DEF Player
    <2> QED BY <1>4, <2>1 DEF PingGetsOld, NetTypeOK, GSTypeOK, netVars
<1>5. CASE /\ mapPlayer' = [mapPlayer EXCEPT ![g][u].load = "loaded"]
           /\ UNCHANGED <<mapClientPlayer, toGate, listed, toGS, toCenter, rpc>>
    <2>1. [mapPlayer[g][u] EXCEPT !.load = "loaded"] \in Player
        BY <1>2 DEF Player
    <2> QED BY <1>5, <2>1 DEF NetTypeOK, GSTypeOK
<1> QED BY <1>1, <1>3, <1>4, <1>5 DEF checkPingTimeout, OnLoadDBEnd

LEMMA GSReportsType == TypeOK /\ GSReports /\ GSOnly => TypeOK'
<1> SUFFICES ASSUME TypeOK, GSReports, GSOnly PROVE NetTypeOK' /\ GSTypeOK'
    BY DEF TypeOK, GSOnly, gateVars, GateTypeOK
<1> USE DEF TypeOK
<1>1. PICK g \in GameServices : asyncPlayerListTimer(g) \/ timerUpdateBalance(g)
    BY DEF GSReports
<1> DEFINE list == [type |-> "list", list |-> LivePlayers(g)]
<1>2. Balance(g) \in ToCenter
    <2>1. LivePlayers(g) \subseteq Users
        BY DEF LivePlayers
    <2>2. Cardinality(LivePlayers(g)) \in Nat
        BY <2>1, SystemAssumption, FS_Subset, FS_CardinalityType
    <2> QED BY <2>2 DEF Balance, ToCenter, GameServiceBalance
<1>3. list \in ToCenter
    BY DEF LivePlayers, ToCenter, UpdatePlayerList
<1>4. toCenter \in [GameServices -> Seq(ToCenter)]
    BY DEF NetTypeOK, ToCenter
<1>5. toCenter' \in [GameServices -> Seq(ToCenter)]
    <2>1. Sent(toCenter, g, list) \in [GameServices -> Seq(ToCenter)]
        BY <1>3, <1>4, SentType
    <2>2. Sent(Sent(toCenter, g, list), g, Balance(g)) \in [GameServices -> Seq(ToCenter)]
        BY <1>2, <2>1, SentType
    <2>3. Sent(toCenter, g, Balance(g)) \in [GameServices -> Seq(ToCenter)]
        BY <1>2, <1>4, SentType
    <2> QED BY <1>1, <2>2, <2>3 DEF asyncPlayerListTimer, timerUpdateBalance
<1> QED BY <1>1, <1>5
    DEF asyncPlayerListTimer, timerUpdateBalance, NetTypeOK, GSTypeOK, ToCenter, gsVars

----------------------------------------------------------------------------
(* Type correctness: CenterService and failures.                            *)

LEMMA CenterStepType == TypeOK /\ CenterStep => TypeOK'
<1> SUFFICES ASSUME TypeOK, CenterStep PROVE NetTypeOK'
    BY DEF TypeOK, CenterStep, gateVars, gsVars, GateTypeOK, GSTypeOK
<1> USE DEF TypeOK
<1>1. ASSUME NEW r \in Logins, CenterLogin(r) PROVE NetTypeOK'
    BY <1>1 DEF CenterLogin, NetTypeOK, Call
<1>2. ASSUME NEW g \in GameServices, CenterReceives(g) PROVE NetTypeOK'
    <2>1. toCenter \in [GameServices -> Seq(ToCenter)]
        BY DEF NetTypeOK, ToCenter
    <2>2. toCenter[g] # <<>> /\ toCenter' = Received(toCenter, g)
        BY <1>2 DEF CenterReceives, Delivers
    <2>3. toCenter' \in [GameServices -> Seq(ToCenter)]
        BY <2>1, <2>2, ReceivedType
    <2> QED BY <1>2, <2>3 DEF CenterReceives, NetTypeOK, ToCenter
<1>3. CASE CenterTime
    BY <1>3 DEF CenterTime, NetTypeOK, netVars
<1> QED BY <1>1, <1>2, <1>3 DEF CenterStep

LEMMA LoseType == TypeOK /\ Lose => TypeOK'
<1> SUFFICES ASSUME TypeOK, Lose PROVE NetTypeOK'
    BY DEF TypeOK, Lose, gateVars, gsVars, GateTypeOK, GSTypeOK
<1>1. /\ toGS \in [Gates \X GameServices -> Seq(ToGS)]
      /\ toGate \in [GameServices \X Gates -> Seq(ToGate)]
      /\ toCenter \in [GameServices -> Seq(ToCenter)]
    BY DEF TypeOK, NetTypeOK, ToGS, ToGate, ToCenter
<1>2. /\ toGS' \in [Gates \X GameServices -> Seq(ToGS)]
      /\ toGate' \in [GameServices \X Gates -> Seq(ToGate)]
      /\ toCenter' \in [GameServices -> Seq(ToCenter)]
    <2>1. CASE /\ \E k \in Gates \X GameServices : toGS[k] # <<>> /\ toGS' = Received(toGS, k)
               /\ UNCHANGED <<toGate, toCenter>>
        <3>1. PICK k \in Gates \X GameServices : toGS[k] # <<>> /\ toGS' = Received(toGS, k)
            BY <2>1
        <3>2. toGS' \in [Gates \X GameServices -> Seq(ToGS)]
            BY <1>1, <3>1, ReceivedType
        <3> QED BY <1>1, <2>1, <3>2
    <2>2. CASE /\ \E k \in GameServices \X Gates :
                    toGate[k] # <<>> /\ toGate' = Received(toGate, k)
               /\ UNCHANGED <<toGS, toCenter>>
        <3>1. PICK k \in GameServices \X Gates : toGate[k] # <<>> /\ toGate' = Received(toGate, k)
            BY <2>2
        <3>2. toGate' \in [GameServices \X Gates -> Seq(ToGate)]
            BY <1>1, <3>1, ReceivedType
        <3> QED BY <1>1, <2>2, <3>2
    <2>3. CASE /\ \E g \in GameServices :
                    toCenter[g] # <<>> /\ toCenter' = Received(toCenter, g)
               /\ UNCHANGED <<toGS, toGate>>
        <3>1. PICK k \in GameServices : toCenter[k] # <<>> /\ toCenter' = Received(toCenter, k)
            BY <2>3
        <3>2. toCenter' \in [GameServices -> Seq(ToCenter)]
            BY <1>1, <3>1, ReceivedType
        <3> QED BY <1>1, <2>3, <3>2
    <2> QED BY <2>1, <2>2, <2>3 DEF Lose
<1> QED BY <1>2 DEF Lose, TypeOK, NetTypeOK, ToGS, ToGate, ToCenter

LEMMA RestartType == TypeOK /\ RestartNode => TypeOK'
<1> SUFFICES ASSUME TypeOK, RestartNode PROVE NetTypeOK' /\ GSTypeOK' /\ restarts' \in 0..MaxRestarts
    BY DEF TypeOK, RestartNode, gateVars, GateTypeOK
<1> USE DEF TypeOK
<1>1. restarts' \in 0..MaxRestarts
    BY SystemAssumption DEF RestartNode
<1>2. PICK n \in Nodes : Restart(n)
    BY DEF RestartNode
<1>3. NetTypeOK'
    BY <1>2 DEF Restart, NetTypeOK
<1>4. GSTypeOK'
    BY <1>2 DEF Restart, GSTypeOK
<1> QED BY <1>1, <1>3, <1>4

----------------------------------------------------------------------------
(* Players and their clients.                                               *)

\* What a step does to the two tables of the GameServices.
LEMMA AcceptKeepsLive ==
    ASSUME GSTypeOK, ClientPlayerLive, NEW g \in GameServices, NEW gate \in Gates,
           NEW m \in LoginToGameServiceReq, Accept(g, gate, m)
    PROVE  ClientPlayerLive'
<1> DEFINE p == IF Live(g, m.user) THEN mapPlayer[g][m.user] ELSE NewPlayer(m)
           q == [p EXCEPT !.client = m.client, !.session = m.session, !.ping = "fresh"]
<1>1. m.id \in Logins /\ m.client \in Clients /\ m.user \in Users /\ m.session \in Session
    BY DEF LoginToGameServiceReq
<1>2. p \in Player
    BY <1>1, LiveType DEF NewPlayer, Player, Session
<1>3. q \in Player /\ q.client = m.client /\ q # NoPlayer
    BY <1>1, <1>2, PlayerAssumption DEF Player
<1>4. mapPlayer' = [mapPlayer EXCEPT ![g][m.user] = q]
    BY DEF Accept, attachConn
<1>5. mapClientPlayer' = [mapClientPlayer EXCEPT
           ![g] = [c \in Clients |-> IF c = m.client THEN m.user
                                     ELSE IF c = p.client THEN NoUser ELSE @[c]]]
    BY DEF Accept, attachConn
<1> HIDE DEF q
<1> SUFFICES ASSUME NEW h \in GameServices, NEW c \in Clients, Attached(h, c)'
             PROVE  /\ Live(h, mapClientPlayer[h][c])'
                    /\ mapPlayer'[h][mapClientPlayer'[h][c]].client = c
    BY DEF ClientPlayerLive
<1>6. CASE h # g
    <2>1. mapPlayer'[h] = mapPlayer[h] /\ mapClientPlayer'[h] = mapClientPlayer[h]
        BY <1>4, <1>5, <1>6 DEF GSTypeOK
    <2> QED BY <2>1 DEF ClientPlayerLive, Attached, Live
<1>7. CASE h = g /\ c = m.client
    <2>1. mapClientPlayer'[g][c] = m.user
        BY <1>5, <1>7 DEF GSTypeOK
    <2>2. mapPlayer'[g][m.user] = q
        BY <1>1, <1>4 DEF GSTypeOK
    <2> QED BY <1>3, <1>7, <2>1, <2>2 DEF Live
<1>8. CASE h = g /\ c # m.client
    <2>1. c # p.client /\ mapClientPlayer'[g][c] = mapClientPlayer[g][c]
        BY <1>5, <1>8 DEF GSTypeOK, Attached
    <2>2. Attached(g, c) /\ mapClientPlayer[g][c] \in Users
        BY <1>8, <2>1 DEF Attached, GSTypeOK
    <2>3. mapClientPlayer[g][c] # m.user
        BY <2>1, <2>2 DEF ClientPlayerLive
    <2>4. mapPlayer'[g][mapClientPlayer[g][c]] = mapPlayer[g][mapClientPlayer[g][c]]
        BY <1>1, <1>4, <2>2, <2>3 DEF GSTypeOK
    <2> QED BY <1>8, <2>1, <2>2, <2>4 DEF ClientPlayerLive, Live
<1> QED BY <1>6, <1>7, <1>8

LEMMA DetachKeepsLive ==
    ASSUME GSTypeOK, ClientPlayerLive, NEW g \in GameServices, NEW c \in Clients,
           mapClientPlayer' = Detached(g, c), UNCHANGED mapPlayer
    PROVE  ClientPlayerLive'
BY DEF Detached, GSTypeOK, ClientPlayerLive, Attached, Live

LEMMA DestroyKeepsLive ==
    ASSUME GSTypeOK, ClientPlayerLive, NEW g \in GameServices, NEW u \in Users,
           Live(g, u), Destroy(g, u)
    PROVE  ClientPlayerLive'
<1> DEFINE gone == mapPlayer[g][u].client
<1>1. gone \in Clients
    BY LiveType DEF Player
<1>2. mapClientPlayer' = [mapClientPlayer EXCEPT ![g][gone] = NoUser]
    BY DEF Destroy, CloseClient, Detached
<1>3. mapPlayer' = [mapPlayer EXCEPT ![g][u] = NoPlayer]
    BY DEF Destroy
<1> SUFFICES ASSUME NEW h \in GameServices, NEW c \in Clients, Attached(h, c)'
             PROVE  /\ Live(h, mapClientPlayer[h][c])'
                    /\ mapPlayer'[h][mapClientPlayer'[h][c]].client = c
    BY DEF ClientPlayerLive
<1>4. mapClientPlayer'[h][c] = mapClientPlayer[h][c] /\ ~(h = g /\ c = gone)
    BY <1>1, <1>2 DEF GSTypeOK, Attached
<1>5. Attached(h, c) /\ mapClientPlayer[h][c] \in Users
    BY <1>4 DEF GSTypeOK, Attached
<1>6. ~(h = g /\ mapClientPlayer[h][c] = u)
    BY <1>4, <1>5 DEF ClientPlayerLive
<1>7. mapPlayer'[h][mapClientPlayer[h][c]] = mapPlayer[h][mapClientPlayer[h][c]]
    BY <1>3, <1>5, <1>6 DEF GSTypeOK
<1> QED BY <1>4, <1>5, <1>7 DEF ClientPlayerLive, Live

\* A change of ping or load.
LEMMA ChangeKeepsLive ==
    ASSUME GSTypeOK, ClientPlayerLive, NEW g \in GameServices, NEW u \in Users,
           NEW p \in Player, Live(g, u), p.client = mapPlayer[g][u].client,
           mapPlayer' = [mapPlayer EXCEPT ![g][u] = p], UNCHANGED mapClientPlayer
    PROVE  ClientPlayerLive'
<1> SUFFICES ASSUME NEW h \in GameServices, NEW c \in Clients, Attached(h, c)
             PROVE  /\ Live(h, mapClientPlayer[h][c])'
                    /\ mapPlayer'[h][mapClientPlayer[h][c]].client = c
    BY DEF ClientPlayerLive, Attached
<1>1. mapClientPlayer[h][c] \in Users
    BY DEF Attached, GSTypeOK
<1>2. CASE h = g /\ mapClientPlayer[h][c] = u
    <2>1. mapPlayer'[g][u] = p
        BY DEF GSTypeOK
    <2> QED BY <1>2, <2>1, PlayerAssumption DEF ClientPlayerLive, Live, Player
<1>3. CASE ~(h = g /\ mapClientPlayer[h][c] = u)
    <2>1. mapPlayer'[h][mapClientPlayer[h][c]] = mapPlayer[h][mapClientPlayer[h][c]]
        BY <1>1, <1>3 DEF GSTypeOK
    <2> QED BY <1>1, <2>1 DEF ClientPlayerLive, Live
<1> QED BY <1>2, <1>3

LEMMA UnchangedKeepsLive ==
    ASSUME ClientPlayerLive, UNCHANGED <<mapPlayer, mapClientPlayer>>
    PROVE  ClientPlayerLive'
BY DEF ClientPlayerLive, Attached, Live

LEMMA StepKeepsLive == TypeOK /\ ClientPlayerLive /\ [Next]_vars => ClientPlayerLive'
<1> SUFFICES ASSUME TypeOK, ClientPlayerLive, [Next]_vars PROVE ClientPlayerLive'
    OBVIOUS
<1> USE DEF TypeOK
<1>1. CASE CenterStep
    BY <1>1, UnchangedKeepsLive DEF CenterStep, gsVars
<1>2. CASE GateStep
    BY <1>2, UnchangedKeepsLive DEF GateStep, GateOnly, gsVars
<1>3. CASE GSStep
    <2>1. ASSUME NEW g \in GameServices, NEW gate \in Gates, RPC_Login(g, gate)
          PROVE  ClientPlayerLive'
        <3>1. Head(toGS[<<gate, g>>]) \in LoginToGameServiceReq
            BY <2>1, HeadToGS DEF RPC_Login
        <3> QED BY <2>1, <3>1, AcceptKeepsLive, UnchangedKeepsLive DEF RPC_Login
    <2>2. ASSUME NEW g \in GameServices, NEW gate \in Gates, RpcOnCloseCallBack(g, gate)
          PROVE  ClientPlayerLive'
        <3>1. Head(toGS[<<gate, g>>]).client \in Clients
            BY <2>2, HeadToGS DEF RpcOnCloseCallBack, RawInputArgs
        <3> QED BY <2>2, <3>1, DetachKeepsLive DEF RpcOnCloseCallBack
    <2>3. ASSUME NEW g \in GameServices, NEW gate \in Gates, RpcOnRecvCallBack(g, gate)
          PROVE  ClientPlayerLive'
        <3> DEFINE c == Head(toGS[<<gate, g>>]).client
                   u == mapClientPlayer[g][c]
        <3>1. c \in Clients
            BY <2>3, HeadToGS DEF RpcOnRecvCallBack, RawInputArgs
        <3>2. CASE Attached(g, c) /\ Ping(g, c)
            <4>1. u \in Users /\ Live(g, u) /\ mapPlayer[g][u] \in Player
                BY <3>1, <3>2, LiveType DEF Attached, GSTypeOK, ClientPlayerLive
            <4>2. [mapPlayer[g][u] EXCEPT !.ping = "fresh"] \in Player
                BY <4>1 DEF Player
            <4>3. mapPlayer' = [mapPlayer EXCEPT ![g][u] = [mapPlayer[g][u] EXCEPT !.ping = "fresh"]]
                BY <3>2, <4>1 DEF Ping, GSTypeOK
            <4>4. [mapPlayer[g][u] EXCEPT !.ping = "fresh"].client = mapPlayer[g][u].client
                BY <4>1 DEF Player
            <4> QED BY <3>2, <4>1, <4>2, <4>3, <4>4, ChangeKeepsLive DEF Ping
        <3>3. CASE CloseClient(g, c) /\ UNCHANGED mapPlayer
            BY <3>1, <3>3, DetachKeepsLive DEF CloseClient
        <3>4. CASE UNCHANGED <<mapPlayer, mapClientPlayer, toGate>>
            BY <3>4, UnchangedKeepsLive
        <3> QED BY <2>3, <3>2, <3>3, <3>4 DEF RpcOnRecvCallBack
    <2>4. ASSUME NEW g \in GameServices, NEW u \in Users,
                 \/ checkPingTimeout(g, u) \/ PingGetsOld(g, u)
                 \/ \E ok \in BOOLEAN : OnLoadDBEnd(g, u, ok)
          PROVE  ClientPlayerLive'
        <3>1. Live(g, u) /\ mapPlayer[g][u] \in Player
            BY <2>4, LiveType DEF checkPingTimeout, PingGetsOld, OnLoadDBEnd
        <3>2. CASE Destroy(g, u)
            BY <3>1, <3>2, DestroyKeepsLive
        <3>3. CASE PingGetsOld(g, u)
            <4> DEFINE p == [mapPlayer[g][u] EXCEPT !.ping = "old"]
            <4>1. p \in Player /\ p.client = mapPlayer[g][u].client
                BY <3>1 DEF Player
            <4>2. mapPlayer' = [mapPlayer EXCEPT ![g][u] = p] /\ UNCHANGED mapClientPlayer
                BY <3>3 DEF PingGetsOld, GSTypeOK
            <4> QED BY <3>1, <4>1, <4>2, ChangeKeepsLive
        <3>4. CASE /\ mapPlayer' = [mapPlayer EXCEPT ![g][u].load = "loaded"]
                   /\ UNCHANGED <<mapClientPlayer, toGate>>
            <4> DEFINE p == [mapPlayer[g][u] EXCEPT !.load = "loaded"]
            <4>1. p \in Player /\ p.client = mapPlayer[g][u].client
                BY <3>1 DEF Player
            <4>2. mapPlayer' = [mapPlayer EXCEPT ![g][u] = p] /\ UNCHANGED mapClientPlayer
                BY <3>4 DEF GSTypeOK
            <4> QED BY <3>1, <4>1, <4>2, ChangeKeepsLive
        <3> QED BY <2>4, <3>2, <3>3, <3>4 DEF checkPingTimeout, OnLoadDBEnd
    <2>5. CASE GSReports
        BY <2>5, UnchangedKeepsLive DEF GSReports, asyncPlayerListTimer, timerUpdateBalance, gsVars
    <2> QED BY <1>3, <2>1, <2>2, <2>3, <2>4, <2>5 DEF GSStep, GSReceives, GSPlayer
<1>4. CASE Lose
    BY <1>4, UnchangedKeepsLive DEF Lose, gsVars
<1>5. CASE RestartNode
    BY <1>5 DEF RestartNode, Restart, ClientPlayerLive, Attached, Live, GSTypeOK
<1>6. CASE UNCHANGED vars
    BY <1>6, UnchangedKeepsLive DEF vars, gsVars
<1> QED BY <1>1, <1>2, <1>3, <1>4, <1>5, <1>6 DEF Next

LEMMA StepType == TypeOK /\ ClientPlayerLive /\ [Next]_vars => TypeOK'
<1>1. TypeOK /\ GateStep => TypeOK'
    BY GateLoginType, GateClientType, GateReceivesType DEF GateStep
<1>2. TypeOK /\ ClientPlayerLive /\ GSStep => TypeOK'
    BY GSReceivesType, GSPlayerType, GSReportsType DEF GSStep
<1>3. TypeOK /\ UNCHANGED vars => TypeOK'
    BY DEF TypeOK, NetTypeOK, GateTypeOK, GSTypeOK, vars, gateVars, gsVars, netVars
<1> QED BY <1>1, <1>2, <1>3, CenterStepType, LoseType, RestartType DEF Next

LEMMA InitType == Init => TypeOK /\ ClientPlayerLive
<1> SUFFICES ASSUME Init PROVE TypeOK /\ ClientPlayerLive
    OBVIOUS
<1>1. NetTypeOK
    BY DEF Init, NetInit, NetTypeOK, Call
<1>2. GateTypeOK
    BY DEF Init, GateInit, GateTypeOK
<1>3. GSTypeOK
    BY DEF Init, GSInit, GSTypeOK
<1>4. ClientPlayerLive
    BY DEF Init, GSInit, ClientPlayerLive, Attached
<1> QED BY <1>1, <1>2, <1>3, <1>4, SystemAssumption DEF Init, TypeOK

\* The services and what travels between them keep their types.  A ping
\* renews the Player of its client, so the proof goes through the next one.
THEOREM TypeCorrect == Spec => []TypeOK
BY InitType, StepType, StepKeepsLive, PTL DEF Spec

\* No message of a client ever reaches another user's Player, whoever logs
\* in with which session, takes over or is released, and whatever is lost.
THEOREM ClientsHavePlayers == Spec => []ClientPlayerLive
BY InitType, StepType, StepKeepsLive, PTL DEF Spec

----------------------------------------------------------------------------
(* Clients that are attached, and those that are about to be.               *)

Channel(g, c)       == toGS[<<GateOf[c], g>>]
RoutedTo(g, c)      == Routed(c) /\ mapRouterCache[c].gs = g
IsLogin(m, c)       == m.type = "login" /\ m.client = c
ClosedAfter(g, c, i) ==
    \E j \in 1..Len(Channel(g, c)) : j > i /\ Channel(g, c)[j] = [type |-> "close", client |-> c]

\* What comes from a gate is about its own clients.
OwnGate ==
    \A gate \in Gates, g \in GameServices : \A i \in 1..Len(toGS[<<gate, g>>]) :
        GateOf[toGS[<<gate, g>>][i].client] = gate

\* AttachedIsRouted, and the same of a login that has not arrived: unless the
\* route is still there, a close notice is behind it.
LoginIsRouted ==
    \A g \in GameServices, c \in Clients :
        /\ Attached(g, c) => RoutedTo(g, c) \/ ClosedAfter(g, c, 0)
        /\ \A i \in 1..Len(Channel(g, c)) :
              IsLogin(Channel(g, c)[i], c) => RoutedTo(g, c) \/ ClosedAfter(g, c, i)

RouteInv == OwnGate /\ LoginIsRouted

LEMMA AppendedElements ==
    ASSUME NEW M, NEW old \in Seq(M), NEW m \in M, NEW new, new = Append(old, m)
    PROVE  /\ Len(old) \in Nat /\ Len(new) = Len(old) + 1 /\ new[Len(old) + 1] = m
           /\ \A i \in 1..Len(old) : new[i] = old[i]
OBVIOUS

LEMMA TailElements ==
    ASSUME NEW M, NEW old \in Seq(M), old # <<>>, NEW new, new = Tail(old)
    PROVE  /\ Len(old) \in Nat /\ Len(old) > 0 /\ Len(new) = Len(old) - 1
           /\ Head(old) = old[1] /\ \A i \in 1..Len(new) : new[i] = old[i + 1]
OBVIOUS

LEMMA ChannelType ==
    ASSUME NetTypeOK, NEW gate \in Gates, NEW g \in GameServices
    PROVE  toGS[<<gate, g>>] \in Seq(ToGS)
BY DEF NetTypeOK, ToGS

LEMMA SentChannel ==
    ASSUME NetTypeOK, NEW gate \in Gates, NEW g \in GameServices, NEW m,
           toGS' = Sent(toGS, <<gate, g>>, m)
    PROVE  /\ toGS'[<<gate, g>>] = Append(toGS[<<gate, g>>], m)
           /\ \A a \in Gates, h \in GameServices :
                <<a, h>> # <<gate, g>> => toGS'[<<a, h>>] = toGS[<<a, h>>]
BY DEF NetTypeOK, Sent

LEMMA ReceivedChannel ==
    ASSUME NetTypeOK, NEW gate \in Gates, NEW g \in GameServices,
           toGS' = Received(toGS, <<gate, g>>)
    PROVE  /\ toGS'[<<gate, g>>] = Tail(toGS[<<gate, g>>])
           /\ \A a \in Gates, h \in GameServices :
                <<a, h>> # <<gate, g>> => toGS'[<<a, h>>] = toGS[<<a, h>>]
BY DEF NetTypeOK, Received

\* A gate sends a message about one of its clients.  It may forget the route
\* of that client if the message is the close notice, and sends a login only
\* when it has entered the route.
LEMMA SendKeepsRoute ==
    ASSUME NetTypeOK, RouteInv, NEW g0 \in GameServices, NEW c0 \in Clients,
           NEW m \in ToGS, m.client = c0,
           toGS' = Sent(toGS, <<GateOf[c0], g0>>, m), UNCHANGED mapClientPlayer,
           \A g \in GameServices, c \in Clients : RoutedTo(g, c) =>
                \/ RoutedTo(g, c)'
                \/ g = g0 /\ c = c0 /\ m = [type |-> "close", client |-> c0],
           m.type = "login" => RoutedTo(g0, c0)'
    PROVE  RouteInv'
<1> DEFINE gate0 == GateOf[c0]
           old   == toGS[<<gate0, g0>>]
           new   == toGS'[<<gate0, g0>>]
<1>1. gate0 \in Gates
    BY NetAssumption
<1>2. /\ new = Append(old, m)
      /\ \A a \in Gates, h \in GameServices :
            <<a, h>> # <<gate0, g0>> => toGS'[<<a, h>>] = toGS[<<a, h>>]
    BY <1>1, SentChannel
<1>3. /\ Len(old) \in Nat /\ Len(new) = Len(old) + 1 /\ new[Len(old) + 1] = m
      /\ \A i \in 1..Len(old) : new[i] = old[i]
    <2>1. old \in Seq(ToGS)
        BY <1>1, ChannelType
    <2>2. new = Append(old, m)
        BY <1>2
    <2> HIDE DEF old, new
    <2> QED BY <2>1, <2>2, AppendedElements
<1> HIDE DEF old, new
<1>4. OwnGate'
    <2> SUFFICES ASSUME NEW a \in Gates, NEW h \in GameServices,
                        NEW i \in 1..Len(toGS'[<<a, h>>])
                 PROVE  GateOf[toGS'[<<a, h>>][i].client] = a
        BY DEF OwnGate
    <2>1. CASE <<a, h>> = <<gate0, g0>>
        <3>1. i \in 1..Len(new) /\ toGS'[<<a, h>>][i] = new[i]
            BY <2>1 DEF new
        <3>2. CASE i = Len(old) + 1
            BY <1>3, <2>1, <3>1, <3>2
        <3>3. CASE i \in 1..Len(old)
            <4>1. toGS'[<<a, h>>][i] = toGS[<<a, h>>][i]
                BY <1>3, <2>1, <3>1, <3>3 DEF old
            <4> QED BY <2>1, <3>3, <4>1 DEF RouteInv, OwnGate, old
        <3> QED BY <1>3, <3>1, <3>2, <3>3
    <2>2. CASE <<a, h>> # <<gate0, g0>>
        <3>1. toGS'[<<a, h>>] = toGS[<<a, h>>]
            BY <1>2, <2>2
        <3>2. i \in 1..Len(toGS[<<a, h>>])
            BY <3>1
        <3> QED BY <3>1, <3>2 DEF RouteInv, OwnGate
    <2> QED BY <2>1, <2>2
<1>5. LoginIsRouted'
    <2> SUFFICES ASSUME NEW g \in GameServices, NEW c \in Clients
                 PROVE  /\ Attached(g, c)' => RoutedTo(g, c)' \/ ClosedAfter(g, c, 0)'
                        /\ \A i \in 1..Len(Channel(g, c)') :
                              IsLogin(Channel(g, c)'[i], c) => RoutedTo(g, c)' \/ ClosedAfter(g, c, i)'
        BY DEF LoginIsRouted
    <2>0. GateOf[c] \in Gates
        BY NetAssumption
    <2>1. CASE <<GateOf[c], g>> # <<gate0, g0>>
        <3>1. Channel(g, c)' = Channel(g, c)
            BY <1>2, <2>0, <2>1 DEF Channel
        <3>2. RoutedTo(g, c) => RoutedTo(g, c)'
            BY <2>1
        <3> QED BY <3>1, <3>2 DEF RouteInv, LoginIsRouted, ClosedAfter, Attached
    <2>2. CASE <<GateOf[c], g>> = <<gate0, g0>>
        <3>1. Channel(g, c) = old /\ Channel(g, c)' = new
            BY <2>2 DEF Channel, old, new
        <3>2. ASSUME NEW i \in 0..Len(old), RoutedTo(g, c) \/ ClosedAfter(g, c, i)
              PROVE  RoutedTo(g, c)' \/ ClosedAfter(g, c, i)'
            <4>1. CASE ClosedAfter(g, c, i)
                BY <1>3, <3>1, <4>1 DEF ClosedAfter
            <4>2. CASE RoutedTo(g, c) /\ ~RoutedTo(g, c)'
                <5>1. new[Len(old) + 1] = [type |-> "close", client |-> c]
                    BY <1>3, <4>2
                <5>2. Len(old) + 1 \in 1..Len(new) /\ Len(old) + 1 > i
                    BY <1>3
                <5> QED BY <3>1, <5>1, <5>2 DEF ClosedAfter
            <4> QED BY <3>2, <4>1, <4>2
        <3>3. Attached(g, c)' => RoutedTo(g, c)' \/ ClosedAfter(g, c, 0)'
            <4>1. Attached(g, c)' => RoutedTo(g, c) \/ ClosedAfter(g, c, 0)
                BY DEF RouteInv, LoginIsRouted, Attached
            <4>2. 0 \in 0..Len(old)
                BY <1>3
            <4> QED BY <3>2, <4>1, <4>2
        <3>4. ASSUME NEW i \in 1..Len(new), IsLogin(new[i], c)
              PROVE  RoutedTo(g, c)' \/ ClosedAfter(g, c, i)'
            <4>1. CASE i = Len(old) + 1
                BY <1>3, <2>2, <3>4, <4>1 DEF IsLogin
            <4>2. CASE i \in 1..Len(old)
                <5>1. RoutedTo(g, c) \/ ClosedAfter(g, c, i)
                    BY <1>3, <3>1, <3>4, <4>2 DEF RouteInv, LoginIsRouted
                <5> QED BY <3>2, <4>2, <5>1
            <4> QED BY <1>3, <4>1, <4>2
        <3> QED BY <3>1, <3>3, <3>4
    <2> QED BY <2>1, <2>2
<1> QED BY <1>4, <1>5 DEF RouteInv

\* Nothing is sent to a GameService, no route is lost and nobody attached.
LEMMA QuietKeepsRoute ==
    ASSUME RouteInv, UNCHANGED toGS,
           \A g \in GameServices, c \in Clients :
                (Attached(g, c)' => Attached(g, c)) /\ (RoutedTo(g, c) => RoutedTo(g, c)')
    PROVE  RouteInv'
<1>1. OwnGate'
    BY DEF RouteInv, OwnGate
<1>2. LoginIsRouted'
    <2> SUFFICES ASSUME NEW g \in GameServices, NEW c \in Clients
                 PROVE  /\ Attached(g, c)' => RoutedTo(g, c)' \/ ClosedAfter(g, c, 0)'
                        /\ \A i \in 1..Len(Channel(g, c)') :
                              IsLogin(Channel(g, c)'[i], c) => RoutedTo(g, c)' \/ ClosedAfter(g, c, i)'
        BY DEF LoginIsRouted
    <2>1. Channel(g, c)' = Channel(g, c) /\ \A i : ClosedAfter(g, c, i)' <=> ClosedAfter(g, c, i)
        BY DEF Channel, ClosedAfter
    <2> QED BY <2>1 DEF RouteInv, LoginIsRouted
<1> QED BY <1>1, <1>2 DEF RouteInv

\* A GameService takes a message.  It may attach the client of a login, and
\* detaches the client of a close notice.
LEMMA ReceiveKeepsRoute ==
    ASSUME NetTypeOK, RouteInv, NEW g0 \in GameServices, NEW gate0 \in Gates,
           toGS[<<gate0, g0>>] # <<>>, toGS' = Received(toGS, <<gate0, g0>>),
           UNCHANGED mapRouterCache,
           \A g \in GameServices, c \in Clients : Attached(g, c)' =>
                \/ Attached(g, c) /\ ~(g = g0 /\ Head(toGS[<<gate0, g0>>]) = [type |-> "close", client |-> c])
                \/ g = g0 /\ IsLogin(Head(toGS[<<gate0, g0>>]), c)
    PROVE  RouteInv'
<1> DEFINE old == toGS[<<gate0, g0>>]
           new == toGS'[<<gate0, g0>>]
<1>1. /\ new = Tail(old)
      /\ \A a \in Gates, h \in GameServices :
            <<a, h>> # <<gate0, g0>> => toGS'[<<a, h>>] = toGS[<<a, h>>]
    BY ReceivedChannel
<1>2. /\ Len(old) \in Nat /\ Len(old) > 0 /\ Len(new) = Len(old) - 1
      /\ Head(old) = old[1] /\ \A i \in 1..Len(new) : new[i] = old[i + 1]
    <2>1. old \in Seq(ToGS) /\ old # <<>>
        BY ChannelType
    <2>2. new = Tail(old)
        BY <1>1
    <2> HIDE DEF old, new
    <2> QED BY <2>1, <2>2, TailElements
<1>3. \A g \in GameServices, c \in Clients : Attached(g, c)' =>
            \/ Attached(g, c) /\ ~(g = g0 /\ old[1] = [type |-> "close", client |-> c])
            \/ g = g0 /\ IsLogin(old[1], c)
    BY <1>2
<1> HIDE DEF old, new
<1>4. OwnGate'
    <2> SUFFICES ASSUME NEW a \in Gates, NEW h \in GameServices,
                        NEW i \in 1..Len(toGS'[<<a, h>>])
                 PROVE  GateOf[toGS'[<<a, h>>][i].client] = a
        BY DEF OwnGate
    <2>1. CASE <<a, h>> = <<gate0, g0>>
        <3>1. i \in 1..Len(new) /\ toGS'[<<a, h>>][i] = new[i]
            BY <2>1 DEF new
        <3>2. new[i] = old[i + 1] /\ i + 1 \in 1..Len(old)
            BY <1>2, <3>1
        <3> QED BY <2>1, <3>1, <3>2 DEF RouteInv, OwnGate, old
    <2>2. CASE <<a, h>> # <<gate0, g0>>
        <3>1. toGS'[<<a, h>>] = toGS[<<a, h>>]
            BY <1>1, <2>2
        <3>2. i \in 1..Len(toGS[<<a, h>>])
            BY <3>1
        <3> QED BY <3>1, <3>2 DEF RouteInv, OwnGate
    <2> QED BY <2>1, <2>2
<1>5. LoginIsRouted'
    <2> SUFFICES ASSUME NEW g \in GameServices, NEW c \in Clients
                 PROVE  /\ Attached(g, c)' => RoutedTo(g, c) \/ ClosedAfter(g, c, 0)'
                        /\ \A i \in 1..Len(Channel(g, c)') :
                              IsLogin(Channel(g, c)'[i], c) => RoutedTo(g, c) \/ ClosedAfter(g, c, i)'
        BY DEF LoginIsRouted, RoutedTo, Routed
    <2>0. GateOf[c] \in Gates
        BY NetAssumption
    <2>1. CASE <<GateOf[c], g>> # <<gate0, g0>>
        <3>1. Channel(g, c)' = Channel(g, c)
            BY <1>1, <2>0, <2>1 DEF Channel
        <3>2. Attached(g, c)' => Attached(g, c)
            <4>1. g = g0 => ~IsLogin(old[1], c)
                <5>1. 1 \in 1..Len(old)
                    BY <1>2
                <5>2. GateOf[old[1].client] = gate0
                    BY <5>1 DEF RouteInv, OwnGate, old
                <5> QED BY <2>1, <5>2 DEF IsLogin
            <4> QED BY <1>3, <4>1
        <3> QED BY <3>1, <3>2 DEF RouteInv, LoginIsRouted, ClosedAfter
    <2>2. CASE <<GateOf[c], g>> = <<gate0, g0>>
        <3>1. Channel(g, c) = old /\ Channel(g, c)' = new /\ g = g0
            BY <2>2 DEF Channel, old, new
        <3>2. ASSUME NEW i \in 1..Len(old), ClosedAfter(g, c, i)
              PROVE  ClosedAfter(g, c, i - 1)'
            <4>1. PICK j \in 1..Len(old) : j > i /\ old[j] = [type |-> "close", client |-> c]
                BY <3>1, <3>2 DEF ClosedAfter
            <4>2. j - 1 \in 1..Len(new) /\ j - 1 > i - 1 /\ new[j - 1] = old[j]
                BY <1>2, <4>1
            <4> QED BY <3>1, <4>1, <4>2 DEF ClosedAfter
        <3>3. ASSUME Attached(g, c)'
              PROVE  RoutedTo(g, c) \/ ClosedAfter(g, c, 0)'
            <4>1. CASE IsLogin(old[1], c)
                <5>1. 1 \in 1..Len(old)
                    BY <1>2
                <5>2. RoutedTo(g, c) \/ ClosedAfter(g, c, 1)
                    BY <3>1, <4>1, <5>1 DEF RouteInv, LoginIsRouted
                <5>3. ClosedAfter(g, c, 1) => ClosedAfter(g, c, 1 - 1)'
                    BY <3>2, <5>1
                <5> QED BY <5>2, <5>3
            <4>2. CASE Attached(g, c) /\ old[1] # [type |-> "close", client |-> c]
                <5>1. RoutedTo(g, c) \/ ClosedAfter(g, c, 0)
                    BY <4>2 DEF RouteInv, LoginIsRouted
                <5>2. ClosedAfter(g, c, 0) => ClosedAfter(g, c, 1)
                    BY <3>1, <4>2 DEF ClosedAfter
                <5>3. ClosedAfter(g, c, 1) => ClosedAfter(g, c, 1 - 1)'
                    BY <1>2, <3>2
                <5> QED BY <5>1, <5>2, <5>3
            <4> QED BY <1>3, <3>1, <3>3, <4>1, <4>2
        <3>4. ASSUME NEW i \in 1..Len(new), IsLogin(new[i], c)
              PROVE  RoutedTo(g, c) \/ ClosedAfter(g, c, i)'
            <4>1. i + 1 \in 1..Len(old) /\ IsLogin(old[i + 1], c)
                BY <1>2, <3>4
            <4>2. RoutedTo(g, c) \/ ClosedAfter(g, c, i + 1)
                BY <3>1, <4>1 DEF RouteInv, LoginIsRouted
            <4>3. ClosedAfter(g, c, i + 1) => ClosedAfter(g, c, (i + 1) - 1)'
                BY <3>2, <4>1
            <4>4. (i + 1) - 1 = i
                OBVIOUS
            <4> QED BY <4>2, <4>3, <4>4
        <3> QED BY <3>1, <3>3, <3>4
    <2> QED BY <2>1, <2>2
<1> QED BY <1>4, <1>5 DEF RouteInv

LEMMA GateKeepsRoute == TypeOK /\ RouteInv /\ GateStep => RouteInv'
<1> SUFFICES ASSUME TypeOK, RouteInv, GateStep PROVE RouteInv'
    OBVIOUS
<1> USE DEF TypeOK
<1>1. UNCHANGED mapClientPlayer /\ \A g \in GameServices, c \in Clients : Attached(g, c)' => Attached(g, c)
    BY DEF GateStep, GateOnly, gsVars, Attached
<1>2. CASE UNCHANGED <<toGS, mapRouterCache>>
    BY <1>1, <1>2, QuietKeepsRoute DEF RoutedTo, Routed
<1>3. ASSUME NEW r \in Logins, CenterAnswers(r) PROVE RouteInv'
    <2>1. CASE UNCHANGED <<toGS, mapRouterCache>>
        BY <1>2, <2>1
    <2>2. CASE rpc[r].gs # NoGS /\ ~Routed(loginReq[r].client)
        <3>1. PICK g0 \in GameServices : g0 = rpc[r].gs
            BY <2>2 DEF NetTypeOK, Call
        <3>2. PICK c0 \in Clients : c0 = loginReq[r].client
            BY <1>3, StageType DEF CenterAnswers, LoginReq
        <3> DEFINE route == [gs |-> g0, status |-> "Logging"]
                   m     == [type |-> "login", id |-> r, client |-> c0,
                             user |-> loginReq[r].user, session |-> loginReq[r].session]
        <3>3. CASE mapRouterCache' = [mapRouterCache EXCEPT ![c0] = route]
            <4>1. route # NoRoute /\ route.gs = g0
                BY GateAssumption
            <4>2. RoutedTo(g0, c0)'
                BY <3>3, <4>1 DEF RoutedTo, Routed, GateTypeOK
            <4>3. \A g \in GameServices, c \in Clients : RoutedTo(g, c) => RoutedTo(g, c)'
                BY <2>2, <3>2, <3>3 DEF RoutedTo, Routed, GateTypeOK
            <4>4. CASE toGS' = Sent(toGS, <<GateOf[c0], g0>>, m)
                <5>1. m \in ToGS /\ m.client = c0
                    BY <1>3, StageType DEF CenterAnswers, ToGS, LoginToGameServiceReq, LoginReq
                <5> HIDE DEF m
                <5> QED BY <1>1, <4>2, <4>3, <4>4, <5>1, SendKeepsRoute
            <4>5. CASE UNCHANGED toGS
                BY <1>1, <4>3, <4>5, QuietKeepsRoute
            <4> QED BY <1>3, <2>2, <3>1, <3>2, <4>4, <4>5 DEF CenterAnswers, loginOk
        <3> QED BY <1>3, <2>2, <3>1, <3>2, <3>3 DEF CenterAnswers, loginOk
    <2> QED BY <1>3, <2>1, <2>2 DEF CenterAnswers, loginOk
<1>4. CASE GateLogin
    BY <1>2, <1>3, <1>4 DEF GateLogin, Login, DBAnswers, GSAnswers, CallFails, netVars
<1>5. CASE GateClient
    <2>1. PICK c0 \in Clients :
            MalformedLogin(c0) \/ ClientCloses(c0) \/ OnDisconnected(c0) \/ RouterMessage(c0)
        BY <1>5 DEF GateClient
    <2> DEFINE g0 == mapRouterCache[c0].gs
    <2>2. Routed(c0) => g0 \in GameServices
        BY DEF Routed, GateTypeOK, nodeInfo
    <2>3. CASE OnDisconnected(c0)
        <3>1. \A g \in GameServices, c \in Clients :
                RoutedTo(g, c) => RoutedTo(g, c)' \/ (g = g0 /\ c = c0)
            BY <2>3 DEF OnDisconnected, RoutedTo, Routed, GateTypeOK
        <3>2. CASE Routed(c0)
            <4> DEFINE m == [type |-> "close", client |-> c0]
            <4>1. m \in ToGS /\ m.client = c0 /\ m.type # "login"
                BY DEF ToGS, RawInputArgs
            <4>2. toGS' = Sent(toGS, <<GateOf[c0], g0>>, m)
                BY <2>3, <3>2 DEF OnDisconnected
            <4> HIDE DEF g0
            <4> QED BY <1>1, <2>2, <3>1, <3>2, <4>1, <4>2, SendKeepsRoute
        <3>3. CASE ~Routed(c0)
            <4>1. \A g \in GameServices, c \in Clients : RoutedTo(g, c) => RoutedTo(g, c)'
                BY <3>1, <3>3 DEF RoutedTo
            <4> QED BY <1>1, <2>3, <3>3, <4>1, QuietKeepsRoute DEF OnDisconnected
        <3> QED BY <3>2, <3>3
    <2>4. CASE RouterMessage(c0)
        <3>1. \A g \in GameServices, c \in Clients : RoutedTo(g, c) => RoutedTo(g, c)'
            BY <2>4 DEF RouterMessage, RoutedTo, Routed
        <3>2. CASE Routed(c0) /\ toGS' = Sent(toGS, <<GateOf[c0], g0>>, [type |-> "recv", client |-> c0])
            <4> DEFINE m == [type |-> "recv", client |-> c0]
            <4>1. m \in ToGS /\ m.client = c0 /\ m.type # "login"
                BY DEF ToGS, RawInputArgs
            <4>2. toGS' = Sent(toGS, <<GateOf[c0], g0>>, m)
                BY <3>2
            <4> HIDE DEF g0
            <4> QED BY <1>1, <2>2, <3>1, <3>2, <4>1, <4>2, SendKeepsRoute
        <3>3. CASE UNCHANGED toGS
            BY <1>1, <3>1, <3>3, QuietKeepsRoute
        <3> QED BY <2>4, <3>2, <3>3 DEF RouterMessage
    <2> QED BY <1>2, <2>1, <2>3, <2>4 DEF MalformedLogin, ClientCloses, netVars
<1>6. CASE GateReceives
    <2>1. PICK h \in GameServices, gate \in Gates : RPC_GSLoginRet(h, gate) \/ RawCloseClient(h, gate)
        BY <1>6 DEF GateReceives
    <2> DEFINE c0 == Head(toGate[<<h, gate>>]).client
    <2>2. c0 \in Clients
        BY <2>1, HeadToGate DEF RPC_GSLoginRet, RawCloseClient, GsLoginResult, RawCloseArgs
    <2>3. CASE mapRouterCache' = [mapRouterCache EXCEPT ![c0].status = "Logined"] /\ Routed(c0)
        <3>1. /\ mapRouterCache[c0] \in nodeInfo
              /\ mapRouterCache' = [mapRouterCache EXCEPT ![c0] = [mapRouterCache[c0] EXCEPT !.status = "Logined"]]
            BY <2>2, <2>3 DEF GateTypeOK, Routed
        <3>2. /\ [mapRouterCache[c0] EXCEPT !.status = "Logined"] \in nodeInfo
              /\ [mapRouterCache[c0] EXCEPT !.status = "Logined"].gs = mapRouterCache[c0].gs
            BY <3>1 DEF nodeInfo
        <3>3. \A g \in GameServices, c \in Clients : RoutedTo(g, c) => RoutedTo(g, c)'
            BY <2>2, <3>1, <3>2, GateAssumption DEF RoutedTo, Routed, GateTypeOK, nodeInfo
        <3>4. UNCHANGED toGS
            BY <2>1 DEF RPC_GSLoginRet, RawCloseClient
        <3> QED BY <1>1, <3>3, <3>4, QuietKeepsRoute
    <2> QED BY <1>2, <2>1, <2>3 DEF RPC_GSLoginRet, RawCloseClient
<1> QED BY <1>4, <1>5, <1>6 DEF GateStep

LEMMA GSKeepsRoute == TypeOK /\ RouteInv /\ GSStep => RouteInv'
<1> SUFFICES ASSUME TypeOK, RouteInv, GSStep PROVE RouteInv'
    OBVIOUS
<1> USE DEF TypeOK
<1>0. /\ UNCHANGED mapRouterCache
      /\ \A g \in GameServices, c \in Clients : RoutedTo(g, c) => RoutedTo(g, c)'
    BY DEF GSStep, GSOnly, gateVars, RoutedTo, Routed
<1>1. CASE GSReceives
    <2>1. PICK g0 \in GameServices, gate0 \in Gates :
            RPC_Login(g0, gate0) \/ RpcOnCloseCallBack(g0, gate0) \/ RpcOnRecvCallBack(g0, gate0)
        BY <1>1 DEF GSReceives
    <2> DEFINE m == Head(toGS[<<gate0, g0>>])
    <2>2. toGS[<<gate0, g0>>] # <<>> /\ toGS' = Received(toGS, <<gate0, g0>>)
        BY <2>1 DEF RPC_Login, RpcOnCloseCallBack, RpcOnRecvCallBack, Delivers
    <2>3. \A g \in GameServices, c \in Clients : Attached(g, c)' =>
                \/ Attached(g, c) /\ ~(g = g0 /\ m = [type |-> "close", client |-> c])
                \/ g = g0 /\ IsLogin(m, c)
        <3>1. CASE RPC_Login(g0, gate0)
            <4>1. m.type = "login"
                BY <3>1 DEF RPC_Login, Delivers
            <4>2. CASE Accept(g0, gate0, m)
                <5> SUFFICES ASSUME NEW g \in GameServices, NEW c \in Clients,
                                    Attached(g, c)', ~(g = g0 /\ c = m.client)
                             PROVE  Attached(g, c)
                    BY <4>1 DEF IsLogin
                <5> DEFINE p == IF Live(g0, m.user) THEN mapPlayer[g0][m.user] ELSE NewPlayer(m)
                <5>1. mapClientPlayer' = [mapClientPlayer EXCEPT
                           ![g0] = [x \in Clients |-> IF x = m.client THEN m.user
                                                      ELSE IF x = p.client THEN NoUser ELSE @[x]]]
                    BY <4>2 DEF Accept, attachConn
                <5> HIDE DEF p
                <5>2. mapClientPlayer'[g][c] \in {mapClientPlayer[g][c], NoUser}
                    BY <5>1 DEF GSTypeOK
                <5> QED BY <5>2 DEF Attached
            <4>3. CASE UNCHANGED mapClientPlayer
                BY <4>1, <4>3 DEF Attached
            <4> QED BY <3>1, <4>2, <4>3 DEF RPC_Login
        <3>2. CASE RpcOnCloseCallBack(g0, gate0)
            BY <3>2 DEF RpcOnCloseCallBack, Detached, Attached, GSTypeOK
        <3>3. CASE RpcOnRecvCallBack(g0, gate0)
            <4>1. m.type = "recv"
                BY <3>3 DEF RpcOnRecvCallBack, Delivers
            <4>2. \A g \in GameServices, c \in Clients : Attached(g, c)' => Attached(g, c)
                <5>1. CASE UNCHANGED mapClientPlayer
                    BY <5>1 DEF Attached
                <5>2. CASE mapClientPlayer' = Detached(g0, m.client)
                    BY <5>2 DEF Detached, Attached, GSTypeOK
                <5> QED BY <3>3, <5>1, <5>2 DEF RpcOnRecvCallBack, Ping, CloseClient
            <4> QED BY <4>1, <4>2
        <3> QED BY <2>1, <3>1, <3>2, <3>3
    <2> QED BY <1>0, <2>2, <2>3, ReceiveKeepsRoute
<1>2. CASE GSPlayer \/ GSReports
    <2>1. UNCHANGED toGS
        BY <1>2 DEF GSPlayer, GSReports, checkPingTimeout, PingGetsOld, OnLoadDBEnd,
            asyncPlayerListTimer, timerUpdateBalance, netVars
    <2>2. \A g \in GameServices, c \in Clients : Attached(g, c)' => Attached(g, c)
        <3>1. CASE \E g \in GameServices, u \in Users : Destroy(g, u)
            BY <3>1 DEF Destroy, CloseClient, Detached, Attached, GSTypeOK
        <3>2. CASE UNCHANGED mapClientPlayer
            BY <3>2 DEF Attached
        <3> QED BY <1>2, <3>1, <3>2 DEF GSPlayer, GSReports, checkPingTimeout, PingGetsOld,
            OnLoadDBEnd, asyncPlayerListTimer, timerUpdateBalance, gsVars
    <2> QED BY <1>0, <2>1, <2>2, QuietKeepsRoute
<1> QED BY <1>1, <1>2 DEF GSStep

\* A restart empties the channels and the table of its GameServices.
LEMMA RestartKeepsRoute == TypeOK /\ RouteInv /\ RestartNode => RouteInv'
<1> SUFFICES ASSUME TypeOK, RouteInv, NEW n \in Nodes, Restart(n), UNCHANGED gateVars
             PROVE  RouteInv'
    BY DEF RestartNode
<1> DEFINE lost == {g \in GameServices : g[1] = n}
<1>1. \A a \in Gates, g \in GameServices :
        toGS'[<<a, g>>] = IF g \in lost THEN <<>> ELSE toGS[<<a, g>>]
    BY DEF Restart
<1>2. \A g \in GameServices, c \in Clients :
        /\ g \in lost => ~Attached(g, c)'
        /\ g \notin lost => (Attached(g, c)' <=> Attached(g, c))
    BY DEF Restart, Attached
<1> HIDE DEF lost
<1>3. OwnGate'
    <2> SUFFICES ASSUME NEW a \in Gates, NEW g \in GameServices,
                        NEW i \in 1..Len(toGS'[<<a, g>>])
                 PROVE  GateOf[toGS'[<<a, g>>][i].client] = a
        BY DEF OwnGate
    <2>1. g \notin lost /\ toGS'[<<a, g>>] = toGS[<<a, g>>]
        BY <1>1
    <2> QED BY <2>1 DEF RouteInv, OwnGate
<1>4. LoginIsRouted'
    <2> SUFFICES ASSUME NEW g \in GameServices, NEW c \in Clients
                 PROVE  /\ Attached(g, c)' => RoutedTo(g, c)' \/ ClosedAfter(g, c, 0)'
                        /\ \A i \in 1..Len(Channel(g, c)') :
                              IsLogin(Channel(g, c)'[i], c) => RoutedTo(g, c)' \/ ClosedAfter(g, c, i)'
        BY DEF LoginIsRouted
    <2>0. GateOf[c] \in Gates
        BY NetAssumption
    <2>1. CASE g \in lost
        <3>1. Channel(g, c)' = <<>>
            BY <1>1, <2>0, <2>1 DEF Channel
        <3> QED BY <1>2, <2>1, <3>1
    <2>2. CASE g \notin lost
        <3>1. Channel(g, c)' = Channel(g, c)
            BY <1>1, <2>0, <2>2 DEF Channel
        <3>2. RoutedTo(g, c)' <=> RoutedTo(g, c)
            BY DEF gateVars, RoutedTo, Routed
        <3> QED BY <1>2, <2>2, <3>1, <3>2 DEF RouteInv, LoginIsRouted, ClosedAfter
    <2> QED BY <2>1, <2>2
<1> QED BY <1>3, <1>4 DEF RouteInv

\* No GameService keeps a client its gate has forgotten, as long as no
\* message is lost: the client is routed there or the notice that it left is
\* under way.  A restart of the GameService does no harm.
THEOREM AttachedAreRouted == ~Lossy /\ Spec => []AttachedIsRouted
<1> SUFFICES ASSUME ~Lossy PROVE Spec => []AttachedIsRouted
    OBVIOUS
<1>1. Init => RouteInv
    <2> SUFFICES ASSUME Init PROVE RouteInv
        OBVIOUS
    <2>1. \A a \in Gates, g \in GameServices : toGS[<<a, g>>] = <<>> /\ Len(toGS[<<a, g>>]) = 0
        BY DEF Init, NetInit
    <2>2. OwnGate
        BY <2>1 DEF OwnGate
    <2>3. \A g \in GameServices, c \in Clients : Len(Channel(g, c)) = 0 /\ ~Attached(g, c)
        BY <2>1, NetAssumption DEF Channel, Init, GSInit, Attached
    <2> QED BY <2>2, <2>3 DEF RouteInv, LoginIsRouted
<1>2. TypeOK /\ RouteInv /\ [Next]_vars => RouteInv'
    <2>1. TypeOK /\ RouteInv /\ CenterStep => RouteInv'
        BY QuietKeepsRoute DEF CenterStep, CenterLogin, CenterReceives, CenterTime, gateVars, gsVars,
            netVars, Attached, RoutedTo, Routed
    <2>2. RouteInv /\ UNCHANGED vars => RouteInv'
        BY QuietKeepsRoute DEF vars, gateVars, gsVars, netVars, Attached, RoutedTo, Routed
    <2> QED BY <2>1, <2>2, GateKeepsRoute, GSKeepsRoute, RestartKeepsRoute DEF Next, Lose
<1>3. RouteInv => AttachedIsRouted
    BY DEF RouteInv, LoginIsRouted, AttachedIsRouted, RoutedTo, ClosedAfter, Channel
<1> QED BY <1>1, <1>2, <1>3, TypeCorrect, PTL DEF Spec

----------------------------------------------------------------------------
(* The services implement CenterService.                                    *)

\* What CenterService accepts: the loads are among Weighs.
CenterMsg == UpdatePlayerStatus \cup UpdatePlayerList \cup [type : {"balance"}, weigh : Weighs]

\* A call that waits at CenterService is that of a login; every message to
\* CenterService is one it accepts.  Neither follows from TypeOK.
CallOfLogin == \A r \in Logins : rpc[r].state = "center" => loginReq[r] # NoLogin
CenterInv ==
    /\ CallOfLogin
    /\ toCenter \in [GameServices -> Seq(CenterMsg)]

LEMMA BalanceIsCenterMsg ==
    ASSUME NEW g \in GameServices PROVE Balance(g) \in CenterMsg
<1>1. LivePlayers(g) \subseteq Users
    BY DEF LivePlayers
<1>2. /\ Cardinality(LivePlayers(g)) \in Nat /\ Cardinality(Users) \in Nat
      /\ Cardinality(LivePlayers(g)) <= Cardinality(Users)
    BY <1>1, SystemAssumption, FS_Subset, FS_CardinalityType
<1>3. Cardinality(LivePlayers(g)) \in 0 .. Cardinality(Users)
    BY <1>2
<1>4. Cardinality(LivePlayers(g)) \in Weighs
    BY <1>3, SystemAssumption
<1> QED BY <1>4 DEF Balance, CenterMsg

\* What is sent to CenterService, and by whom.
LEMMA GSStepSends ==
    ASSUME TypeOK, toCenter \in [GameServices -> Seq(CenterMsg)], GSStep
    PROVE  toCenter' \in [GameServices -> Seq(CenterMsg)]
<1>1. ASSUME NEW g \in GameServices, NEW gate \in Gates, RPC_Login(g, gate)
      PROVE  toCenter' \in [GameServices -> Seq(CenterMsg)]
    <2> DEFINE m == Head(toGS[<<gate, g>>])
    <2>1. m.user \in Users
        BY <1>1, HeadToGS DEF RPC_Login, TypeOK, LoginToGameServiceReq
    <2>2. LoggedIn(m) \in CenterMsg
        BY <2>1 DEF LoggedIn, CenterMsg, UpdatePlayerStatus
    <2>3. toCenter' = toCenter \/ toCenter' = Sent(toCenter, g, LoggedIn(m))
        BY <1>1 DEF RPC_Login, Accept
    <2> HIDE DEF m
    <2> QED BY <2>2, <2>3, SentType
<1>2. ASSUME NEW g \in GameServices, asyncPlayerListTimer(g)
      PROVE  toCenter' \in [GameServices -> Seq(CenterMsg)]
    <2> DEFINE list == [type |-> "list", list |-> LivePlayers(g)]
    <2>1. list \in CenterMsg /\ Balance(g) \in CenterMsg
        BY BalanceIsCenterMsg DEF LivePlayers, CenterMsg, UpdatePlayerList
    <2>2. \/ toCenter' = Sent(Sent(toCenter, g, list), g, Balance(g))
          \/ toCenter' = Sent(toCenter, g, Balance(g))
        BY <1>2 DEF asyncPlayerListTimer
    <2> HIDE DEF list
    <2>3. Sent(toCenter, g, list) \in [GameServices -> Seq(CenterMsg)]
        BY <2>1, SentType
    <2>4. Sent(Sent(toCenter, g, list), g, Balance(g)) \in [GameServices -> Seq(CenterMsg)]
        BY <2>1, <2>3, SentType
    <2>5. Sent(toCenter, g, Balance(g)) \in [GameServices -> Seq(CenterMsg)]
        BY <2>1, SentType
    <2> QED BY <2>2, <2>4, <2>5
<1>3. ASSUME NEW g \in GameServices, timerUpdateBalance(g)
      PROVE  toCenter' \in [GameServices -> Seq(CenterMsg)]
    <2>1. toCenter' = Sent(toCenter, g, Balance(g)) /\ Balance(g) \in CenterMsg
        BY <1>3, BalanceIsCenterMsg DEF timerUpdateBalance
    <2> QED BY <2>1, SentType
<1>4. CASE UNCHANGED toCenter
    BY <1>4
<1>5. CASE GSReceives
    BY <1>1, <1>4, <1>5 DEF GSReceives, RpcOnCloseCallBack, RpcOnRecvCallBack
<1>6. CASE GSPlayer
    BY <1>4, <1>6 DEF GSPlayer, checkPingTimeout, PingGetsOld, OnLoadDBEnd, netVars
<1> QED BY <1>2, <1>3, <1>5, <1>6 DEF GSStep, GSReports

LEMMA StepKeepsMessages ==
    ASSUME TypeOK, CenterInv, [Next]_vars
    PROVE  toCenter' \in [GameServices -> Seq(CenterMsg)]
<1>0. toCenter \in [GameServices -> Seq(CenterMsg)]
    BY DEF CenterInv
<1>1. ASSUME NEW g \in GameServices, toCenter[g] # <<>>, toCenter' = Received(toCenter, g)
      PROVE  toCenter' \in [GameServices -> Seq(CenterMsg)]
    BY <1>0, <1>1, ReceivedType
<1>2. CASE UNCHANGED toCenter
    BY <1>0, <1>2
<1>3. CASE CenterStep
    BY <1>1, <1>2, <1>3 DEF CenterStep, CenterLogin, CenterReceives, CenterTime, Delivers, netVars
<1>4. CASE GateStep
    BY <1>2, <1>4 DEF GateStep, GateLogin, GateClient, GateReceives, Login, DBAnswers, CenterAnswers,
        GSAnswers, CallFails, MalformedLogin, ClientCloses, OnDisconnected, RouterMessage,
        RPC_GSLoginRet, RawCloseClient, netVars
<1>5. CASE GSStep
    BY <1>0, <1>5, GSStepSends
<1>6. CASE Lose
    BY <1>1, <1>2, <1>6 DEF Lose
<1>7. CASE RestartNode
    BY <1>2, <1>7 DEF RestartNode, Restart
<1>8. CASE UNCHANGED vars
    BY <1>2, <1>8 DEF vars, netVars
<1> QED BY <1>3, <1>4, <1>5, <1>6, <1>7, <1>8 DEF Next

\* Only loginToGs waits at CenterService, and it enters its request first.
LEMMA StepKeepsCalls == TypeOK /\ CenterInv /\ [Next]_vars => CallOfLogin'
<1> SUFFICES ASSUME TypeOK, CallOfLogin, [Next]_vars, NEW r \in Logins,
                    rpc'[r].state = "center"
             PROVE  loginReq'[r] # NoLogin
    BY DEF CenterInv, CallOfLogin
<1>0. rpc \in [Logins -> Call] /\ loginReq \in [Logins -> LoginReq \cup {NoLogin}]
    BY DEF TypeOK, NetTypeOK, GateTypeOK
<1>1. ASSUME UNCHANGED <<rpc, loginReq>> PROVE loginReq'[r] # NoLogin
    BY <1>1 DEF CallOfLogin
\* A request is entered or goes on; it is never withdrawn.
<1>2. ASSUME NEW q \in Logins, NEW req \in LoginReq,
             loginReq' = [loginReq EXCEPT ![q] = req],
             UNCHANGED rpc \/ \E st : CallState(q, st)
      PROVE  loginReq'[r] # NoLogin
    <2>1. req # NoLogin
        BY GateAssumption DEF LoginReq
    <2>2. CASE r = q
        BY <1>0, <1>2, <2>1, <2>2
    <2>3. CASE r # q
        BY <1>0, <1>2, <2>3 DEF CallState, CallOfLogin
    <2> QED BY <2>2, <2>3
<1>3. ASSUME UNCHANGED loginReq, NEW q \in Logins, NEW st \in {"gsOk", "gsErr"}, CallState(q, st)
      PROVE  loginReq'[r] # NoLogin
    <2>1. r # q
        BY <1>0, <1>3 DEF CallState, Call
    <2> QED BY <1>0, <1>3, <2>1 DEF CallState, CallOfLogin
<1>4. CASE CenterStep
    <2>1. ASSUME NEW q \in Logins, NEW g, rpc' = [rpc EXCEPT ![q] = [state |-> "centerRet", gs |-> g]],
                 UNCHANGED loginReq
          PROVE  loginReq'[r] # NoLogin
        <3>1. r # q
            BY <1>0, <2>1
        <3> QED BY <1>0, <2>1, <3>1 DEF CallOfLogin
    <2>2. UNCHANGED loginReq
        BY <1>4 DEF CenterStep, gateVars
    <2> QED BY <1>1, <1>4, <2>1, <2>2 DEF CenterStep, CenterLogin, CenterReceives, CenterTime, netVars
<1>5. CASE GateStep
    <2>1. ASSUME NEW q \in Logins, NEW req \in LoginReq, Fail(q, req), UNCHANGED rpc
          PROVE  loginReq'[r] # NoLogin
        <3>1. [req EXCEPT !.stage = "done"] \in LoginReq
            BY DEF LoginReq
        <3> QED BY <1>2, <2>1, <3>1 DEF Fail
    <2>2. ASSUME NEW q \in Logins, NEW req \in LoginReq, loginToGs(q, req)
          PROVE  loginReq'[r] # NoLogin
        <3>1. [req EXCEPT !.stage = "center"] \in LoginReq
            BY DEF LoginReq
        <3> QED BY <1>2, <2>1, <2>2, <3>1 DEF loginToGs
    <2>3. ASSUME NEW q \in Logins, NEW c \in Clients, NEW u \in Users, NEW s \in Presented,
                 Login(q, c, u, s)
          PROVE  loginReq'[r] # NoLogin
        <3> DEFINE req == [client |-> c, user |-> u, session |-> s, stage |-> "db"]
        <3>1. req \in LoginReq
            BY GateAssumption DEF LoginReq
        <3>2. loginToGs(q, req) \/ loginToCenter(q, req)
            BY <2>3 DEF Login
        <3> HIDE DEF req
        <3> QED BY <1>2, <2>1, <2>2, <3>1, <3>2 DEF loginToCenter
    <2>4. ASSUME NEW q \in Logins, DBAnswers(q) \/ CenterAnswers(q) \/ GSAnswers(q) \/ CallFails(q)
          PROVE  loginReq'[r] # NoLogin
        <3>1. loginReq[q] \in LoginReq
            BY <2>4, StageType DEF TypeOK, DBAnswers, CenterAnswers, GSAnswers, CallFails
        <3>2. ASSUME NEW st \in {"gs", "done"}, loginReq' = [loginReq EXCEPT ![q].stage = st],
                     UNCHANGED rpc \/ CallState(q, "gs")
              PROVE  loginReq'[r] # NoLogin
            <4>1. [loginReq[q] EXCEPT !.stage = st] \in LoginReq
                BY <3>1 DEF LoginReq
            <4> QED BY <1>2, <3>2, <4>1
        <3> QED BY <2>1, <2>2, <2>4, <3>1, <3>2
            DEF DBAnswers, CenterAnswers, loginOk, GSAnswers, CallFails, netVars
    <2>5. CASE GateClient \/ GateReceives
        BY <1>1, <2>5 DEF GateClient, GateReceives, MalformedLogin, ClientCloses, OnDisconnected,
            RouterMessage, RPC_GSLoginRet, RawCloseClient, netVars
    <2> QED BY <1>5, <2>3, <2>4, <2>5 DEF GateStep, GateLogin
<1>6. CASE GSStep
    <2>1. ASSUME NEW g \in GameServices, NEW gate \in Gates, RPC_Login(g, gate)
          PROVE  loginReq'[r] # NoLogin
        <3>1. Head(toGS[<<gate, g>>]).id \in Logins
            BY <2>1, HeadToGS DEF RPC_Login, TypeOK, LoginToGameServiceReq
        <3> QED BY <1>3, <1>6, <2>1, <3>1 DEF RPC_Login, Accept, GSStep, GSOnly, gateVars
    <2>2. CASE UNCHANGED rpc
        BY <1>1, <1>6, <2>2 DEF GSStep, GSOnly, gateVars
    <2> QED BY <1>6, <2>1, <2>2 DEF GSStep, GSReceives, GSPlayer, GSReports, RpcOnCloseCallBack,
        RpcOnRecvCallBack, checkPingTimeout, PingGetsOld, OnLoadDBEnd, asyncPlayerListTimer,
        timerUpdateBalance, netVars
<1>7. CASE Lose \/ RestartNode \/ UNCHANGED vars
    BY <1>1, <1>7 DEF Lose, RestartNode, Restart, vars, gateVars, netVars
<1> QED BY <1>4, <1>5, <1>6, <1>7 DEF Next

\* Every step of CenterService is one its own specification has, with the
\* arguments the channels deliver.
LEMMA CenterStepIsCenter ==
    ASSUME TypeOK, CenterInv, CenterStep
    PROVE  [CenterService!Next]_(CenterService!vars)
<1>1. ASSUME NEW r \in Logins, CenterLogin(r) PROVE CenterService!Next
    <2>1. loginReq[r].user \in Users
        BY <1>1 DEF CenterLogin, CenterInv, CallOfLogin, TypeOK, GateTypeOK, LoginReq
    <2>2. PICK g \in GameServices \cup {NoGS} : CenterService!RPC_Login(loginReq[r].user, g)
        BY <1>1 DEF CenterLogin
    <2> QED BY <2>1, <2>2 DEF CenterService!Next
<1>2. ASSUME NEW g \in GameServices, CenterReceives(g) PROVE CenterService!Next
    <2> DEFINE m == Head(toCenter[g])
    <2>1. toCenter[g] # <<>> /\ toCenter \in [GameServices -> Seq(CenterMsg)]
        BY <1>2 DEF CenterReceives, Delivers, CenterInv
    <2>2. m \in CenterMsg
        BY <2>1, ReceivedType
    <2>3. CASE m.type = "status" /\ CenterService!RPC_UpdateStatus(m.user, m.status, g)
        <3>1. m.user \in Users /\ m.status \in Reports
            BY <2>2, <2>3, SystemAssumption DEF CenterMsg, UpdatePlayerStatus, UpdatePlayerList
        <3> QED BY <2>3, <3>1 DEF CenterService!Next
    <2>4. CASE m.type = "list" /\ CenterService!RPC_UpdateUserList(g, m.list)
        <3>1. m.list \in SUBSET Users
            BY <2>2, <2>4 DEF CenterMsg, UpdatePlayerStatus, UpdatePlayerList
        <3> QED BY <2>4, <3>1 DEF CenterService!Next
    <2>5. CASE m.type = "balance" /\ CenterService!RPC_UpdateBalance(g, m.weigh)
        <3>1. m.weigh \in Weighs
            BY <2>2, <2>5 DEF CenterMsg, UpdatePlayerStatus, UpdatePlayerList
        <3> QED BY <2>5, <3>1 DEF CenterService!Next
    <2> QED BY <1>2, <2>3, <2>4, <2>5 DEF CenterReceives, Delivers
<1>3. CASE CenterTime
    BY <1>3 DEF CenterTime, CenterService!Next
<1> QED BY <1>1, <1>2, <1>3 DEF CenterStep

\* What gates, GameServices, losses and restarts do to CenterService, with
\* the messages as they travel, its own specification allows: the theorems
\* about CenterService hold for it as a part of the system.
THEOREM CenterIsImplemented == Spec => ImplementsCenter
<1>1. Init => CenterService!Init /\ CenterInv
    <2> SUFFICES ASSUME Init PROVE CenterInv
        BY DEF Init
    <2>1. CallOfLogin
        BY DEF Init, NetInit, CallOfLogin
    <2>2. toCenter \in [GameServices -> Seq(CenterMsg)]
        BY DEF Init, NetInit
    <2> QED BY <2>1, <2>2 DEF CenterInv
<1>2. TypeOK /\ CenterInv /\ [Next]_vars => CenterInv'
    BY StepKeepsMessages, StepKeepsCalls DEF CenterInv
<1>3. TypeOK /\ CenterInv /\ [Next]_vars => [CenterService!Next]_(CenterService!vars)
    <2>1. CASE CenterStep
        BY <2>1, CenterStepIsCenter
    <2>2. CASE GateStep \/ GSStep \/ Lose \/ RestartNode \/ UNCHANGED vars
        BY <2>2 DEF GateStep, GateOnly, GSStep, GSOnly, Lose, RestartNode, vars, centerVars,
            CenterService!vars, CenterService!centerVars
    <2> QED BY <2>1, <2>2 DEF Next
<1> QED BY <1>1, <1>2, <1>3, TypeCorrect, PTL
    DEF Spec, ImplementsCenter, CenterService!Spec

----------------------------------------------------------------------------
(* What CenterProofs shows of CenterService holds of it in the system.       *)

Proved == INSTANCE CenterProofs

\* Both are instances of Center with the same constants and variables, hence
\* equal, operator by operator.
LEMMA SameSize ==
    \A S : Proved!Cardinality(S) = CenterService!Cardinality(S)
BY DEF Proved!Cardinality, CenterService!Cardinality

LEMMA SameFinite ==
    \A S : Proved!IsFiniteSet(S) = CenterService!IsFiniteSet(S)
BY DEF Proved!IsFiniteSet, CenterService!IsFiniteSet

LEMMA SameFreed ==
    \A D : Proved!Freed(D) = CenterService!Freed(D)
BY SameSize DEF Proved!Freed, CenterService!Freed

LEMMA SameTests ==
    /\ \A u : Proved!Known(u) = CenterService!Known(u)
    /\ \A g : Proved!Usable(g) = CenterService!Usable(g)
    /\ \A g, h : Proved!Better(g, h) = CenterService!Better(g, h)
    /\ \A g : Proved!Registered(g) = CenterService!Registered(g)
BY DEF
    Proved!Known, CenterService!Known, Proved!Usable, CenterService!Usable, Proved!Better,
    CenterService!Better, Proved!Registered, CenterService!Registered

LEMMA SameMaps ==
    /\ \A b, d : Proved!refreshBalance(b, d) = CenterService!refreshBalance(b, d)
    /\ \A h, n : Proved!Charged(h, n) = CenterService!Charged(h, n)
    /\ \A u, st, g : Proved!addUserInfo(u, st, g) = CenterService!addUserInfo(u, st, g)
    /\ \A D : Proved!delUserInfo(D) = CenterService!delUserInfo(D)
    /\ \A b, D : Proved!RemoveBalance(b, D) = CenterService!RemoveBalance(b, D)
BY DEF
    Proved!refreshBalance, CenterService!refreshBalance, Proved!Charged,
    CenterService!Charged, Proved!addUserInfo, CenterService!addUserInfo,
    Proved!delUserInfo, CenterService!delUserInfo, Proved!RemoveBalance,
    CenterService!RemoveBalance

LEMMA SameUsers ==
    /\ \A n : Proved!UsersOfNode(n) = CenterService!UsersOfNode(n)
    /\ Proved!LoginingTimedOut = CenterService!LoginingTimedOut
    /\ Proved!OutingTimedOut = CenterService!OutingTimedOut
BY DEF
    Proved!UsersOfNode, CenterService!UsersOfNode, Proved!LoginingTimedOut,
    CenterService!LoginingTimedOut, Proved!OutingTimedOut, CenterService!OutingTimedOut,
    Proved!Known, CenterService!Known, Proved!HasStatus, CenterService!HasStatus

LEMMA SameBest ==
    Proved!BestUsable = CenterService!BestUsable
BY DEF
    Proved!BestUsable, CenterService!BestUsable, Proved!Usable, CenterService!Usable,
    Proved!Better, CenterService!Better

LEMMA SameAnswer ==
    \A g, D : Proved!getBestGameServiceNodeId(g, D) = CenterService!getBestGameServiceNodeId(g, D)
BY SameTests, SameBest, SameSize
    DEF Proved!getBestGameServiceNodeId, CenterService!getBestGameServiceNodeId

LEMMA SameEntered ==
    \A g, l, D : Proved!EnterList(g, l, D) = CenterService!EnterList(g, l, D)
BY SameMaps, SameFreed, SameSize DEF Proved!EnterList, CenterService!EnterList

LEMMA SameKnown ==
    \A u, g : Proved!LoginKnown(u, g) = CenterService!LoginKnown(u, g)
BY SameMaps, SameTests DEF Proved!LoginKnown, CenterService!LoginKnown

LEMMA SameNew ==
    \A u, g : Proved!LoginNew(u, g) = CenterService!LoginNew(u, g)
BY SameMaps, SameTests, SameAnswer DEF Proved!LoginNew, CenterService!LoginNew

LEMMA SameNext == Proved!Next <=> CenterService!Next
<1>1. \A u, g : Proved!RPC_Login(u, g) <=> CenterService!RPC_Login(u, g)
    BY SameKnown, SameNew DEF Proved!RPC_Login, CenterService!RPC_Login
<1>2. \A u, st, g : Proved!RPC_UpdateStatus(u, st, g) <=> CenterService!RPC_UpdateStatus(u, st, g)
    BY SameTests, SameMaps, SameFreed
        DEF Proved!RPC_UpdateStatus, CenterService!RPC_UpdateStatus, Proved!LogOuted,
        CenterService!LogOuted, Proved!StoreStatus, CenterService!StoreStatus
<1>3. \A g, w : Proved!RPC_UpdateBalance(g, w) <=> CenterService!RPC_UpdateBalance(g, w)
    BY SameTests DEF Proved!RPC_UpdateBalance, CenterService!RPC_UpdateBalance
<1>4. \A g, l : Proved!RPC_UpdateUserList(g, l) <=> CenterService!RPC_UpdateUserList(g, l)
    BY SameEntered, SameUsers
        DEF Proved!RPC_UpdateUserList, CenterService!RPC_UpdateUserList
<1>5. Proved!CheckLoginTimeout <=> CenterService!CheckLoginTimeout
    BY SameUsers, SameMaps, SameFreed
        DEF Proved!CheckLoginTimeout, CenterService!CheckLoginTimeout
<1>6. \A u : Proved!LoginingExpires(u) <=> CenterService!LoginingExpires(u)
    BY DEF Proved!LoginingExpires, CenterService!LoginingExpires
<1>7. \A u : Proved!OutingExpires(u) <=> CenterService!OutingExpires(u)
    BY DEF Proved!OutingExpires, CenterService!OutingExpires
<1>8. \A g : Proved!BalanceExpires(g) <=> CenterService!BalanceExpires(g)
    BY DEF
        Proved!BalanceExpires, CenterService!BalanceExpires, Proved!Registered,
        CenterService!Registered
<1>9. Proved!ClusterChange <=> CenterService!ClusterChange
    BY DEF
        Proved!ClusterChange, CenterService!ClusterChange, Proved!centerVars,
        CenterService!centerVars
<1> QED BY <1>1, <1>2, <1>3, <1>4, <1>5, <1>6, <1>7, <1>8, <1>9
    DEF Proved!Next, CenterService!Next

\* The constants of the system are those CenterService expects.
LEMMA SystemExpects == Proved!CenterAssumption
<1>1. CenterService!CenterAssumption
    BY CenterExpects
<1> QED BY <1>1, SameFinite
    DEF Proved!CenterAssumption, CenterService!CenterAssumption,
        Proved!ReportStatus, CenterService!ReportStatus, Proved!Status, CenterService!Status,
        Proved!UserInfo, CenterService!UserInfo, Proved!BalanceInfo, CenterService!BalanceInfo

LEMMA SystemIsCenter == Spec => Proved!Spec
<1>1. Proved!Init <=> CenterService!Init
    BY DEF Proved!Init, CenterService!Init
<1>2. [CenterService!Next]_(CenterService!vars) => [Proved!Next]_(Proved!vars)
    BY SameNext
    DEF Proved!vars, CenterService!vars, Proved!centerVars, CenterService!centerVars
<1> QED BY <1>1, <1>2, CenterIsImplemented, PTL
    DEF Proved!Spec, CenterService!Spec, ImplementsCenter

\* In the whole system, whatever gates and GameServices do and the network
\* loses: each login that CenterService has not seen confirmed has a running
\* timer, and the balance queue holds exactly the registered GameServices.
THEOREM CenterStaysSound ==
    Spec => [](CenterService!LoginingIsTimed /\ CenterService!QueueIsBalance)
<1>1. Proved!Spec => []Proved!LoginingIsTimed
    BY SystemExpects, Proved!LoginsAreTimed DEF Proved!LoginsAreTimed
<1>2. Proved!Spec => []Proved!QueueIsBalance
    BY SystemExpects, Proved!QueueCorrect DEF Proved!QueueCorrect
<1>3. Proved!LoginingIsTimed => CenterService!LoginingIsTimed
    BY SameTests DEF Proved!LoginingIsTimed, CenterService!LoginingIsTimed,
        Proved!HasStatus, CenterService!HasStatus
<1>4. Proved!QueueIsBalance => CenterService!QueueIsBalance
    BY SameTests DEF Proved!QueueIsBalance, CenterService!QueueIsBalance
<1> QED BY <1>1, <1>2, <1>3, <1>4, SystemIsCenter, PTL

\* No login timer outlives its user, as long as no GameService reports a
\* logout in progress.
THEOREM SystemTimersHaveUsers ==
    "LoginOuting" \notin Reports /\ Spec => []CenterService!TimerHasUser
<1> SUFFICES ASSUME "LoginOuting" \notin Reports PROVE Spec => []CenterService!TimerHasUser
    OBVIOUS
<1>1. Proved!Spec => []Proved!TimerHasUser
    BY SystemExpects, Proved!TimersHaveUsers DEF Proved!TimersHaveUsers
<1>2. Proved!TimerHasUser => CenterService!TimerHasUser
    BY SameTests DEF Proved!TimerHasUser, CenterService!TimerHasUser
<1> QED BY <1>1, <1>2, SystemIsCenter, PTL

\* However many gates a user logs in through at the same time, no login takes
\* it away from the GameService that CenterService has for it.
THEOREM SystemLoginsAreSticky == Spec => CenterService!AssignmentSticky
<1>1. Proved!Spec => Proved!AssignmentSticky
    BY SystemExpects, Proved!LoginsAreSticky DEF Proved!LoginsAreSticky
<1>2. [\A u \in Users :
         (Proved!Known(u) /\ Proved!Known(u)' /\ mapUserInfo[u].gs # mapUserInfo'[u].gs)
            => mapUserInfo'[u].status # "Logining"]_(Proved!vars)
      => [\A u \in Users :
            (CenterService!Known(u) /\ CenterService!Known(u)'
             /\ mapUserInfo[u].gs # mapUserInfo'[u].gs)
               => mapUserInfo'[u].status # "Logining"]_(CenterService!vars)
    BY DEF Proved!Known, CenterService!Known, Proved!vars, CenterService!vars,
        Proved!centerVars, CenterService!centerVars
<1> QED BY <1>1, <1>2, SystemIsCenter, PTL
    DEF Proved!AssignmentSticky, CenterService!AssignmentSticky
=============================================================================
