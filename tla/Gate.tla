-------------------------------- MODULE Gate --------------------------------
(***************************************************************************)
(* GateService and its MsgRouter: client connections, the route of each    *)
(* client to a GameService, and the login sequence                         *)
(* LoginReq -> AreaDB -> CenterService -> GameService.                     *)
(*                                                                         *)
(* Every handler and callback of a gate is one action.  A login attempt is *)
(* one LoginReq with the closures waiting for its answers; its client can  *)
(* disconnect between any two of them.  Tokens, message bodies, addresses  *)
(* and performance counters are left out, and so is whether a call fails   *)
(* at once or later: each may fail.                                        *)
(***************************************************************************)
EXTENDS LoginNet

CONSTANTS
    NoRoute, NoLogin,
    Presented,      \* the sessions clients present
    Talking         \* the clients that send messages besides LoginReq

ASSUME GateAssumption ==
    /\ Presented \subseteq Session
    /\ Talking \subseteq Clients
    /\ NoRoute \notin [gs : GameServices, status : {"Logging", "Logined"}]
    /\ NoLogin \notin [client : Clients, user : Users, session : Session,
                       stage : {"db", "center", "gs", "done"}]

VARIABLES
    conn,           \* client -> "open", "closed" (not yet handled), "gone"
    mapRouterCache, \* client -> its GameService and status
    loginReq,       \* login attempt -> its request and the answer it awaits
    answered        \* history: the login attempts that were sent a LoginRes

gateVars == <<conn, mapRouterCache, loginReq, answered>>

nodeInfo == [gs : GameServices, status : {"Logging", "Logined"}]
LoginReq == [client : Clients, user : Users, session : Session,
             stage : {"db", "center", "gs", "done"}]

GateTypeOK ==
    /\ conn \in [Clients -> {"open", "closed", "gone"}]
    /\ mapRouterCache \in [Clients -> nodeInfo \cup {NoRoute}]
    /\ loginReq \in [Logins -> LoginReq \cup {NoLogin}]
    /\ answered \in SUBSET Logins

GateInit ==
    /\ conn = [c \in Clients |-> "open"]
    /\ mapRouterCache = [c \in Clients |-> NoRoute]
    /\ loginReq = [r \in Logins |-> NoLogin]
    /\ answered = {}

Routed(c) == mapRouterCache[c] # NoRoute
AtStage(r, st) == loginReq[r] # NoLogin /\ loginReq[r].stage = st

SendLoginRes(r, c) ==
    answered' = IF conn[c] = "open" THEN answered \cup {r} ELSE answered

\* netModule.Close: the disconnect event follows.
Close(c) == conn' = [conn EXCEPT ![c] = IF @ = "open" THEN "closed" ELSE @]

----------------------------------------------------------------------------
(* The login sequence of one attempt.                                       *)

Fail(r, req) ==
    /\ loginReq' = [loginReq EXCEPT ![r] = [req EXCEPT !.stage = "done"]]
    /\ SendLoginRes(r, req.client)

loginToGs(r, req) ==
    \/ /\ loginReq' = [loginReq EXCEPT ![r] = [req EXCEPT !.stage = "center"]]
       /\ CallState(r, "center")
       /\ UNCHANGED answered
    \/ Fail(r, req) /\ UNCHANGED rpc

loginToCenter(r, req) ==
    \/ loginReq' = [loginReq EXCEPT ![r] = req] /\ UNCHANGED <<answered, rpc>>
    \/ Fail(r, req) /\ UNCHANGED rpc

\* LoginReq of client c; a client that has no session shows its token.
Login(r, c, u, s) ==
    LET req == [client |-> c, user |-> u, session |-> s, stage |-> "db"] IN
    /\ loginReq[r] = NoLogin /\ conn[c] # "gone"
    /\ IF s = NoSession THEN loginToCenter(r, req) ELSE loginToGs(r, req)
    /\ UNCHANGED <<conn, mapRouterCache, toGS, toGate, toCenter>>

\* A LoginReq that cannot be decoded or names no area.
MalformedLogin(c) ==
    /\ conn[c] # "gone"
    /\ Close(c)
    /\ UNCHANGED <<mapRouterCache, loginReq, answered, netVars>>

\* The callback of loginToDB.
DBAnswers(r) ==
    /\ AtStage(r, "db")
    /\ loginToGs(r, loginReq[r])
    /\ UNCHANGED <<conn, mapRouterCache, toGS, toGate, toCenter>>

\* BUG variant: the check for a repeated login is missing.
Mut_loginOk(r, g) ==
    LET req == loginReq[r] IN
    /\ mapRouterCache' = [mapRouterCache EXCEPT ![req.client] =
                             [gs |-> g, status |-> "Logging"]]
    /\ loginReq' = [loginReq EXCEPT ![r].stage = "gs"]
    /\ CallState(r, "gs")
    /\ toGS' = Sent(toGS, <<GateOf[req.client], g>>,
                    [type |-> "login", id |-> r, client |-> req.client,
                     user |-> req.user, session |-> req.session])
    /\ UNCHANGED answered

\* The route is entered before the GameService is called, and stays if that
\* call fails.
loginOk(r, g) ==
    LET req == loginReq[r] IN
    IF Routed(req.client)
    THEN Fail(r, req) /\ UNCHANGED <<mapRouterCache, rpc, toGS>>
    ELSE
      /\ mapRouterCache' = [mapRouterCache EXCEPT ![req.client] =
                               [gs |-> g, status |-> "Logging"]]
      /\ \/ /\ loginReq' = [loginReq EXCEPT ![r].stage = "gs"]
            /\ CallState(r, "gs")
            /\ toGS' = Sent(toGS, <<GateOf[req.client], g>>,
                            [type |-> "login", id |-> r, client |-> req.client,
                             user |-> req.user, session |-> req.session])
            /\ UNCHANGED answered
         \/ Fail(r, req) /\ UNCHANGED <<rpc, toGS>>

\* The callback of loginToGs; no GameService means that the server is full.
CenterAnswers(r) ==
    /\ AtStage(r, "center") /\ rpc[r].state = "centerRet"
    /\ IF rpc[r].gs = NoGS
       THEN Fail(r, loginReq[r]) /\ UNCHANGED <<mapRouterCache, rpc, toGS>>
       ELSE loginOk(r, rpc[r].gs)
    /\ UNCHANGED <<conn, toGate, toCenter>>

\* The callback of loginOk: success is told by RPC_GSLoginRet.
GSAnswers(r) ==
    /\ AtStage(r, "gs") /\ rpc[r].state \in {"gsOk", "gsErr"}
    /\ IF rpc[r].state = "gsErr" THEN Fail(r, loginReq[r])
       ELSE loginReq' = [loginReq EXCEPT ![r].stage = "done"] /\ UNCHANGED answered
    /\ UNCHANGED <<conn, mapRouterCache, netVars>>

\* BUG variant: a timed-out call is dropped without an answer.
Mut_CallFails(r) ==
    /\ \E st \in {"db", "center", "gs"} : AtStage(r, st)
    /\ loginReq' = [loginReq EXCEPT ![r].stage = "done"]
    /\ UNCHANGED <<conn, answered, mapRouterCache, netVars>>

\* The callback of a call that times out or whose node is lost: an error.
CallFails(r) ==
    /\ \E st \in {"db", "center", "gs"} : AtStage(r, st)
    /\ Fail(r, loginReq[r])
    /\ UNCHANGED <<conn, mapRouterCache, netVars>>

----------------------------------------------------------------------------
(* Connections and messages.                                                *)

ClientCloses(c) ==
    /\ conn[c] = "open"
    /\ Close(c)
    /\ UNCHANGED <<mapRouterCache, loginReq, answered, netVars>>

\* BUG variant: a login that is still under way is not closed.
Mut_OnDisconnected(c) ==
    /\ conn[c] = "closed"
    /\ conn' = [conn EXCEPT ![c] = "gone"]
    /\ mapRouterCache' = [mapRouterCache EXCEPT ![c] = NoRoute]
    /\ IF Routed(c) /\ mapRouterCache[c].status = "Logined"
       THEN toGS' = Sent(toGS, <<GateOf[c], mapRouterCache[c].gs>>,
                         [type |-> "close", client |-> c])
       ELSE UNCHANGED toGS
    /\ UNCHANGED <<loginReq, answered, toGate, toCenter, rpc>>

OnDisconnected(c) ==
    /\ conn[c] = "closed"
    /\ conn' = [conn EXCEPT ![c] = "gone"]
    /\ mapRouterCache' = [mapRouterCache EXCEPT ![c] = NoRoute]
    /\ IF Routed(c)
       THEN toGS' = Sent(toGS, <<GateOf[c], mapRouterCache[c].gs>>,
                         [type |-> "close", client |-> c])
       ELSE UNCHANGED toGS
    /\ UNCHANGED <<loginReq, answered, toGate, toCenter, rpc>>

\* A message other than LoginReq; it is forwarded whatever the route's status.
RouterMessage(c) ==
    /\ c \in Talking /\ conn[c] # "gone"
    /\ \/ /\ Routed(c)
          /\ toGS' = Sent(toGS, <<GateOf[c], mapRouterCache[c].gs>>,
                          [type |-> "recv", client |-> c])
          /\ UNCHANGED conn
       \/ Close(c) /\ UNCHANGED toGS
    /\ UNCHANGED <<mapRouterCache, loginReq, answered, toGate, toCenter, rpc>>

----------------------------------------------------------------------------
(* Calls of the GameServices.                                               *)

\* BUG variant: the check that the client is still routed is missing.
Mut_RPC_GSLoginRet(g, gate) ==
    LET m == Head(toGate[<<g, gate>>]) IN
    /\ Delivers(toGate, <<g, gate>>, "loginRet")
    /\ toGate' = Received(toGate, <<g, gate>>)
    /\ mapRouterCache' = [mapRouterCache EXCEPT ![m.client] =
                             [gs |-> NoGS, status |-> "Logined"]]
    /\ SendLoginRes(m.id, m.client)
    /\ UNCHANGED <<conn, loginReq, toGS, toCenter, rpc>>

RPC_GSLoginRet(g, gate) ==
    LET m == Head(toGate[<<g, gate>>]) IN
    /\ Delivers(toGate, <<g, gate>>, "loginRet")
    /\ toGate' = Received(toGate, <<g, gate>>)
    /\ IF Routed(m.client)
       THEN /\ mapRouterCache' = [mapRouterCache EXCEPT ![m.client].status = "Logined"]
            /\ SendLoginRes(m.id, m.client)
       ELSE UNCHANGED <<mapRouterCache, answered>>
    /\ UNCHANGED <<conn, loginReq, toGS, toCenter, rpc>>

RawCloseClient(g, gate) ==
    LET m == Head(toGate[<<g, gate>>]) IN
    /\ Delivers(toGate, <<g, gate>>, "close")
    /\ toGate' = Received(toGate, <<g, gate>>)
    /\ Close(m.client)
    /\ UNCHANGED <<mapRouterCache, loginReq, answered, toGS, toCenter, rpc>>
=============================================================================
