---------------------------- MODULE GameService ----------------------------
(***************************************************************************)
(* GameService with its Player objects: who is logged in, over which       *)
(* client, and what CenterService is told about it.                        *)
(*                                                                         *)
(* Each GameService is one goroutine and each handler, timer and callback  *)
(* one action.  Time is abstracted to what checkPingTimeout tests: the     *)
(* last ping is "fresh" or "old" (300 seconds).  The messages of a player  *)
(* do nothing here but renew the ping or close the client.  bCloseStatus   *)
(* is never set in the repository, so a login is never refused for it.     *)
(***************************************************************************)
EXTENDS LoginNet

CONSTANT NoPlayer

ASSUME PlayerAssumption ==
    NoPlayer \notin [client : Clients, session : Session,
                     ping : {"fresh", "old"}, load : {"loading", "loaded"}]

VARIABLES
    mapPlayer,          \* GameService -> user -> Player object
    mapClientPlayer,    \* GameService -> client -> the user it is attached to
    listed              \* the GameServices that sent their player list

gsVars == <<mapPlayer, mapClientPlayer, listed>>

Player == [client : Clients, session : Session,
           ping : {"fresh", "old"}, load : {"loading", "loaded"}]

GSTypeOK ==
    /\ mapPlayer \in [GameServices -> [Users -> Player \cup {NoPlayer}]]
    /\ mapClientPlayer \in [GameServices -> [Clients -> Users \cup {NoUser}]]
    /\ listed \in SUBSET GameServices

GSInit ==
    /\ mapPlayer = [g \in GameServices |-> [u \in Users |-> NoPlayer]]
    /\ mapClientPlayer = [g \in GameServices |-> [c \in Clients |-> NoUser]]
    /\ listed = {}

Live(g, u)     == mapPlayer[g][u] # NoPlayer
Attached(g, c) == mapClientPlayer[g][c] # NoUser
LivePlayers(g) == {u \in Users : Live(g, u)}

----------------------------------------------------------------------------
(* Logging in.                                                              *)

\* No player, or one with another session: a session cannot be resumed.
SessionInvalid(g, m) ==
    /\ m.session # NoSession
    /\ Live(g, m.user) => m.session # mapPlayer[g][m.user].session

\* NewPlayer and LoadFromDB; its GenSessionId gives the session m.id.
NewPlayer(m) == [client |-> m.client, session |-> m.id,
                 ping |-> "fresh", load |-> "loading"]

\* BUG variant: the old connection of the player stays.
Mut_attachConn(g, m, p) ==
    /\ mapPlayer' = [mapPlayer EXCEPT ![g][m.user] =
           [p EXCEPT !.client = m.client, !.session = m.session, !.ping = "fresh"]]
    /\ mapClientPlayer' = [mapClientPlayer EXCEPT ![g][m.client] = m.user]

\* The new connection replaces the old one; the session becomes the request's.
attachConn(g, m, p) ==
    /\ mapPlayer' = [mapPlayer EXCEPT ![g][m.user] =
           [p EXCEPT !.client = m.client, !.session = m.session, !.ping = "fresh"]]
    /\ mapClientPlayer' = [mapClientPlayer EXCEPT
           ![g] = [c \in Clients |-> IF c = m.client THEN m.user
                                     ELSE IF c = p.client THEN NoUser
                                     ELSE @[c]]]

\* BUG variant: the wrong status is reported.
Mut_LoggedIn(m) == [type |-> "status", user |-> m.user, status |-> "LoginOuting"]

LoggedIn(m) == [type |-> "status", user |-> m.user, status |-> "Logined"]

Accept(g, gate, m) ==
    LET p == IF Live(g, m.user) THEN mapPlayer[g][m.user] ELSE NewPlayer(m) IN
    /\ toCenter' = Sent(toCenter, g, LoggedIn(m))
    /\ attachConn(g, m, p)
    /\ \/ /\ toGate' = Sent(toGate, <<g, gate>>,
                            [type |-> "loginRet", id |-> m.id, client |-> m.client,
                             user |-> m.user, session |-> m.session])
          /\ CallState(m.id, "gsOk")
       \/ UNCHANGED toGate /\ CallState(m.id, "gsErr")

RPC_Login(g, gate) ==
    LET m == Head(toGS[<<gate, g>>]) IN
    /\ Delivers(toGS, <<gate, g>>, "login")
    /\ toGS' = Received(toGS, <<gate, g>>)
    /\ \/ ~SessionInvalid(g, m) /\ Accept(g, gate, m)
       \/ /\ CallState(m.id, "gsErr")   \* invalid, or CenterService not reached
          /\ UNCHANGED <<mapPlayer, mapClientPlayer, toGate, toCenter>>
    /\ UNCHANGED listed

----------------------------------------------------------------------------
(* Clients and players that leave.                                          *)

\* closeClient: the player stays, without a connection.
Detached(g, c) == [mapClientPlayer EXCEPT ![g][c] = NoUser]

RpcOnCloseCallBack(g, gate) ==
    LET c == Head(toGS[<<gate, g>>]).client IN
    /\ Delivers(toGS, <<gate, g>>, "close")
    /\ toGS' = Received(toGS, <<gate, g>>)
    /\ mapClientPlayer' = Detached(g, c)
    /\ UNCHANGED <<mapPlayer, listed, toGate, toCenter, rpc>>

\* CloseClient: the gate is asked to close a client that is attached (the
\* gate of any other client is unknown), and the client is detached.
CloseClient(g, c) ==
    /\ toGate' = IF Attached(g, c)
                 THEN Sent(toGate, <<g, GateOf[c]>>, [type |-> "close", client |-> c])
                 ELSE toGate
    /\ mapClientPlayer' = Detached(g, c)

Ping(g, c) ==
    /\ mapPlayer' = [mapPlayer EXCEPT ![g][mapClientPlayer[g][c]].ping = "fresh"]
    /\ UNCHANGED <<mapClientPlayer, toGate>>

\* A message: a ping, one of no registered type (the client is closed), or one
\* without effect: a GM command, one that comes before the player's data is
\* loaded, or one of a client that is not attached (GetClientPlayer returns a
\* non-nil interface then, and the handler panics on the nil player in it).
RpcOnRecvCallBack(g, gate) ==
    LET c == Head(toGS[<<gate, g>>]).client IN
    /\ Delivers(toGS, <<gate, g>>, "recv")
    /\ toGS' = Received(toGS, <<gate, g>>)
    /\ \/ Attached(g, c) /\ Ping(g, c)
       \/ CloseClient(g, c) /\ UNCHANGED mapPlayer
       \/ UNCHANGED <<mapPlayer, mapClientPlayer, toGate>>
    /\ UNCHANGED <<listed, toCenter, rpc>>

\* BUG variant: the player is released and its connection stays attached.
Mut_Destroy(g, u) ==
    /\ UNCHANGED <<toGate, mapClientPlayer>>
    /\ mapPlayer' = [mapPlayer EXCEPT ![g][u] = NoPlayer]

\* Player.Destroy: CenterService is not told.
Destroy(g, u) ==
    /\ CloseClient(g, mapPlayer[g][u].client)
    /\ mapPlayer' = [mapPlayer EXCEPT ![g][u] = NoPlayer]

\* BUG variant: only a player that is connected is released.
Mut_checkPingTimeout(g, u) ==
    /\ Live(g, u) /\ mapPlayer[g][u].ping = "old"
    /\ Attached(g, mapPlayer[g][u].client)
    /\ Destroy(g, u)
    /\ UNCHANGED <<listed, toGS, toCenter, rpc>>

checkPingTimeout(g, u) ==
    /\ Live(g, u) /\ mapPlayer[g][u].ping = "old"
    /\ Destroy(g, u)
    /\ UNCHANGED <<listed, toGS, toCenter, rpc>>

PingGetsOld(g, u) ==
    /\ Live(g, u) /\ mapPlayer[g][u].ping = "fresh"
    /\ mapPlayer' = [mapPlayer EXCEPT ![g][u].ping = "old"]
    /\ UNCHANGED <<mapClientPlayer, listed, netVars>>

\* The player's data is loaded, or could not be.  The load may also never end.
OnLoadDBEnd(g, u, ok) ==
    /\ Live(g, u) /\ mapPlayer[g][u].load = "loading"
    /\ IF ok THEN /\ mapPlayer' = [mapPlayer EXCEPT ![g][u].load = "loaded"]
                  /\ UNCHANGED <<mapClientPlayer, toGate>>
       ELSE Destroy(g, u)
    /\ UNCHANGED <<listed, toGS, toCenter, rpc>>

----------------------------------------------------------------------------
(* What CenterService is told.                                              *)

Balance(g) == [type |-> "balance", weigh |-> Cardinality(LivePlayers(g))]

\* Once after the start: the list, unless the service is to retire, then the
\* first load.
asyncPlayerListTimer(g) ==
    /\ g \notin listed
    /\ listed' = listed \cup {g}
    /\ \/ toCenter' = Sent(Sent(toCenter, g, [type |-> "list", list |-> LivePlayers(g)]),
                           g, Balance(g))
       \/ toCenter' = Sent(toCenter, g, Balance(g))
    /\ UNCHANGED <<mapPlayer, mapClientPlayer, toGS, toGate, rpc>>

timerUpdateBalance(g) ==
    /\ g \in listed
    /\ toCenter' = Sent(toCenter, g, Balance(g))
    /\ UNCHANGED <<gsVars, toGS, toGate, rpc>>

\* The process of node n is lost and started again, with empty tables.
Restart(n) ==
    LET lost == {g \in GameServices : g[1] = n} IN
    /\ mapPlayer' = [g \in GameServices |->
           IF g \in lost THEN [u \in Users |-> NoPlayer] ELSE mapPlayer[g]]
    /\ mapClientPlayer' = [g \in GameServices |->
           IF g \in lost THEN [c \in Clients |-> NoUser] ELSE mapClientPlayer[g]]
    /\ listed' = listed \ lost
    /\ toGS' = [k \in Gates \X GameServices |->
           IF k[2] \in lost THEN <<>> ELSE toGS[k]]
    /\ UNCHANGED <<toGate, toCenter, rpc>>
=============================================================================
