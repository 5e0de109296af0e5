------------------------------ MODULE LoginNet ------------------------------
(***************************************************************************)
(* What travels between the services while clients log in.                 *)
(*                                                                         *)
(* The origin framework delivers one-way calls (GoNode, RawGoNode) and the *)
(* requests of asynchronous calls (AsyncCallNode) from one node to another *)
(* over one connection: a FIFO queue per direction.  The answer of an      *)
(* asynchronous call takes another way back (rpc) and is not ordered with  *)
(* them.  The framework itself is not part of the repository.              *)
(***************************************************************************)
EXTENDS Integers, Sequences, FiniteSets

CONSTANTS
    Users,          \* user ids
    Clients,        \* client ids: a connection gets a new one, never reused
    Gates,          \* GateService nodes
    GateOf,         \* the gate a client is connected to
    GameServices,   \* <<node, name>> pairs
    Logins,         \* the login attempts, each used once
    NoUser, NoGS, NoSession

ASSUME NetAssumption ==
    /\ GateOf \in [Clients -> Gates]
    /\ NoUser \notin Users
    /\ NoGS \notin GameServices
    /\ NoSession \notin Logins

\* GenSessionId makes a fresh id: the login that created the player names it.
Session == Logins \cup {NoSession}

LoginToGameServiceReq ==
    [type : {"login"}, id : Logins, client : Clients, user : Users, session : Session]
RawInputArgs == [type : {"close", "recv"}, client : Clients]
\* id, the login that is answered, is history: the code does not send it.
GsLoginResult ==
    [type : {"loginRet"}, id : Logins, client : Clients, user : Users, session : Session]
RawCloseArgs == [type : {"close"}, client : Clients]
UpdatePlayerStatus == [type : {"status"}, user : Users, status : {"Logined"}]
UpdatePlayerList == [type : {"list"}, list : SUBSET Users]
GameServiceBalance == [type : {"balance"}, weigh : Nat]

\* The call a login attempt waits for; gs is the answer of CenterService.
Call == [state : {"idle", "center", "centerRet", "gs", "gsOk", "gsErr"},
         gs : GameServices \cup {NoGS}]

VARIABLES
    toGS,       \* <<gate, GameService>> -> logins, closed clients, messages
    toGate,     \* <<GameService, gate>> -> login results, clients to close
    toCenter,   \* GameService -> statuses, player lists, loads
    rpc         \* login attempt -> its outstanding asynchronous call

netVars == <<toGS, toGate, toCenter, rpc>>

NetTypeOK ==
    /\ toGS \in [Gates \X GameServices -> Seq(LoginToGameServiceReq \cup RawInputArgs)]
    /\ toGate \in [GameServices \X Gates -> Seq(GsLoginResult \cup RawCloseArgs)]
    /\ toCenter \in [GameServices ->
                        Seq(UpdatePlayerStatus \cup UpdatePlayerList \cup GameServiceBalance)]
    /\ rpc \in [Logins -> Call]

NetInit ==
    /\ toGS = [k \in Gates \X GameServices |-> <<>>]
    /\ toGate = [k \in GameServices \X Gates |-> <<>>]
    /\ toCenter = [g \in GameServices |-> <<>>]
    /\ rpc = [r \in Logins |-> [state |-> "idle", gs |-> NoGS]]

\* The oldest message of channel k of the queues ch is of type t.
Delivers(ch, k, t) == ch[k] # <<>> /\ Head(ch[k]).type = t
Received(ch, k)    == [ch EXCEPT ![k] = Tail(@)]
Sent(ch, k, m)     == [ch EXCEPT ![k] = Append(@, m)]

CallState(r, st) == rpc' = [rpc EXCEPT ![r].state = st]
=============================================================================
