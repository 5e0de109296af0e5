---------------------------- MODULE LoginSystem ----------------------------
(***************************************************************************)
(* The gates, the GameServices and the CenterService together.  Every step *)
(* is a step of one service that takes its input from a channel and leaves *)
(* its output in one; CenterService is the module Center, unchanged.       *)
(*                                                                         *)
(* Cluster changes, stale loads and logouts are left to Center's own runs  *)
(* (no service of the repository reports a logout).                        *)
(***************************************************************************)
EXTENDS Gate, GameService

CONSTANTS
    Nodes, GSNames, MaxUsers, Weighs, Reports, NoBalance,   \* see Center
    Lossy,          \* whether one-way messages can be lost
    MaxRestarts,    \* bound: restarts of GameService nodes
    MaxQueue        \* bound: messages of talking clients in one channel

\* The last two say that Center expects what the GameServices report.
ASSUME SystemAssumption ==
    /\ Lossy \in BOOLEAN
    /\ MaxRestarts \in Nat
    /\ MaxQueue \in Nat \ {0}
    /\ IsFiniteSet(Users)
    /\ "Logined" \in Reports /\ 0 .. Cardinality(Users) \subseteq Weighs

VARIABLES
    mapUserInfo, mapLogining, mapOuting, mapBalance, priorityQueue, reachable,
    restarts

centerVars == <<mapUserInfo, mapLogining, mapOuting, mapBalance, priorityQueue, reachable>>
vars == <<gateVars, gsVars, netVars, centerVars, restarts>>

CenterService == INSTANCE Center

\* The constants are those Center expects.
ASSUME CenterExpects == CenterService!CenterAssumption

TypeOK ==
    /\ NetTypeOK
    /\ GateTypeOK
    /\ GSTypeOK
    /\ restarts \in 0..MaxRestarts

Init ==
    /\ NetInit
    /\ GateInit
    /\ GSInit
    /\ CenterService!Init
    /\ restarts = 0

----------------------------------------------------------------------------
(* CenterService takes its calls from the channels.                         *)

CenterLogin(r) ==
    /\ rpc[r].state = "center"
    /\ \E g \in GameServices \cup {NoGS} :
         /\ CenterService!RPC_Login(loginReq[r].user, g)
         /\ rpc' = [rpc EXCEPT ![r] = [state |-> "centerRet", gs |-> g]]
    /\ UNCHANGED <<toGS, toGate, toCenter>>

CenterReceives(g) ==
    /\ \/ /\ Delivers(toCenter, g, "status")
          /\ CenterService!RPC_UpdateStatus(Head(toCenter[g]).user,
                                            Head(toCenter[g]).status, g)
       \/ /\ Delivers(toCenter, g, "list")
          /\ CenterService!RPC_UpdateUserList(g, Head(toCenter[g]).list)
       \/ /\ Delivers(toCenter, g, "balance")
          /\ CenterService!RPC_UpdateBalance(g, Head(toCenter[g]).weigh)
    /\ toCenter' = Received(toCenter, g)
    /\ UNCHANGED <<toGS, toGate, rpc>>

CenterTime ==
    /\ \/ CenterService!CheckLoginTimeout
       \/ \E u \in Users : CenterService!LoginingExpires(u)
    /\ UNCHANGED netVars

CenterStep ==
    /\ \/ \E r \in Logins : CenterLogin(r)
       \/ \E g \in GameServices : CenterReceives(g)
       \/ CenterTime
    /\ UNCHANGED <<gateVars, gsVars, restarts>>

----------------------------------------------------------------------------
(* The gates.                                                               *)

GateOnly == UNCHANGED <<gsVars, centerVars, restarts>>

GateLogin ==
    \E r \in Logins :
        \/ \E c \in Clients, u \in Users, s \in Presented : Login(r, c, u, s)
        \/ DBAnswers(r)
        \/ CenterAnswers(r)
        \/ GSAnswers(r)
        \/ CallFails(r)

\* Bound: a client sends no message into a channel that holds MaxQueue.
Talkative(c) == \A g \in GameServices : Len(toGS[<<GateOf[c], g>>]) < MaxQueue

GateClient ==
    \E c \in Clients :
        \/ MalformedLogin(c)
        \/ ClientCloses(c)
        \/ OnDisconnected(c)
        \/ RouterMessage(c) /\ Talkative(c)

GateReceives ==
    \E g \in GameServices, gate \in Gates :
        RPC_GSLoginRet(g, gate) \/ RawCloseClient(g, gate)

GateStep ==
    /\ GateLogin \/ GateClient \/ GateReceives
    /\ GateOnly

----------------------------------------------------------------------------
(* The GameServices.  A load report is taken only where it has an effect:    *)
(* loads do not get stale here, so it must enter the GameService again.     *)

GSOnly == UNCHANGED <<gateVars, centerVars, restarts>>

GSReceives ==
    \E g \in GameServices, gate \in Gates :
        RPC_Login(g, gate) \/ RpcOnCloseCallBack(g, gate) \/ RpcOnRecvCallBack(g, gate)

GSPlayer ==
    \E g \in GameServices, u \in Users :
        \/ checkPingTimeout(g, u)
        \/ PingGetsOld(g, u)
        \/ \E ok \in BOOLEAN : OnLoadDBEnd(g, u, ok)

GSReports ==
    \E g \in GameServices :
        \/ asyncPlayerListTimer(g)
        \/ /\ toCenter[g] = <<>> /\ ~CenterService!Registered(g)
           /\ timerUpdateBalance(g)

GSStep ==
    /\ GSReceives \/ GSPlayer \/ GSReports
    /\ GSOnly

----------------------------------------------------------------------------
(* Failures.                                                                *)

\* A broken connection loses a one-way message.
Lose ==
    /\ Lossy
    /\ \/ /\ \E k \in Gates \X GameServices :
               toGS[k] # <<>> /\ toGS' = Received(toGS, k)
          /\ UNCHANGED <<toGate, toCenter>>
       \/ /\ \E k \in GameServices \X Gates :
               toGate[k] # <<>> /\ toGate' = Received(toGate, k)
          /\ UNCHANGED <<toGS, toCenter>>
       \/ /\ \E g \in GameServices :
               toCenter[g] # <<>> /\ toCenter' = Received(toCenter, g)
          /\ UNCHANGED <<toGS, toGate>>
    /\ UNCHANGED <<rpc, gateVars, gsVars, centerVars, restarts>>

RestartNode ==
    /\ restarts < MaxRestarts
    /\ restarts' = restarts + 1
    /\ \E n \in Nodes : Restart(n)
    /\ UNCHANGED <<gateVars, centerVars>>

Next == CenterStep \/ GateStep \/ GSStep \/ Lose \/ RestartNode

Spec == Init /\ [][Next]_vars

\* The services keep running: calls are answered or time out, channels are
\* read, tickers fire, time passes.  Clients, restarts and losses are free.
Fairness ==
    /\ \A r \in Logins :
         /\ WF_vars(CallFails(r) /\ GateOnly)
         /\ WF_vars((DBAnswers(r) \/ CenterAnswers(r) \/ GSAnswers(r)) /\ GateOnly)
    /\ \A c \in Clients : WF_vars(OnDisconnected(c) /\ GateOnly)
    /\ \A g \in GameServices, gate \in Gates :
         /\ WF_vars((RPC_GSLoginRet(g, gate) \/ RawCloseClient(g, gate)) /\ GateOnly)
         /\ WF_vars((RPC_Login(g, gate) \/ RpcOnCloseCallBack(g, gate)
                       \/ RpcOnRecvCallBack(g, gate)) /\ GSOnly)
    /\ \A g \in GameServices, u \in Users :
         /\ WF_vars(checkPingTimeout(g, u) /\ GSOnly)
         /\ WF_vars(PingGetsOld(g, u) /\ GSOnly)

FairSpec == Spec /\ Fairness
----------------------------------------------------------------------------
(* Properties.                                                              *)

\* An entry of mapClientPlayer points to a live Player that has that client:
\* a Player goes back to the pool and is used for another user, so a leftover
\* entry would deliver one user's messages to another (attachConn 107-111,
\* DestroyPlayer 213-217, ReleasePlayer 53-55).
ClientPlayerLive ==
    \A g \in GameServices, c \in Clients :
        Attached(g, c) =>
            /\ Live(g, mapClientPlayer[g][c])
            /\ mapPlayer[g][mapClientPlayer[g][c]].client = c

\* A client attached to a GameService is routed to it, or the notice that it
\* is closed is on its way: no GameService keeps a client its gate has
\* forgotten (loginOk 406-415, OnDisconnected 94-111).
AttachedIsRouted ==
    \A g \in GameServices, c \in Clients :
        Attached(g, c) =>
            \/ Routed(c) /\ mapRouterCache[c].gs = g
            \/ \E i \in 1..Len(toGS[<<GateOf[c], g>>]) :
                 toGS[<<GateOf[c], g>>][i] = [type |-> "close", client |-> c]

\* What the services do to CenterService is what its specification allows,
\* with "Logined" as the only status reported.
ImplementsCenter == CenterService!Spec

\* Every LoginReq is answered, each attempt by a LoginRes of its own, unless
\* its client leaves first (MsgRouter 158-473, GateService.RPC_GSLoginRet).
LoginAnswered ==
    \A r \in Logins, c \in Clients :
        (loginReq[r] # NoLogin /\ loginReq[r].client = c)
            ~> (r \in answered \/ conn[c] # "open")

\* A Player whose client is gone is taken over by another client or released:
\* the ping timeout does its work even when the close notice was lost.
OrphanReleased ==
    \A g \in GameServices, u \in Users, c \in Clients :
        (Live(g, u) /\ mapPlayer[g][u].client = c /\ conn[c] = "gone")
            ~> ~(Live(g, u) /\ mapPlayer[g][u].client = c)

----------------------------------------------------------------------------
(* What comments and log messages of the code say; each is refuted by a run.  *)

\* CenterService is told when a Player object is released
\* (comment of RPC_UpdateStatus, CenterService.go 373).
ReleaseIsReported ==
    [][\A g \in GameServices, u \in Users :
         (Live(g, u) /\ ~Live(g, u)') => toCenter' # toCenter]_vars
=============================================================================
