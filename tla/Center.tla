------------------------------- MODULE Center -------------------------------
(***************************************************************************)
(* CenterService: the registry of online users and of GameServices.        *)
(*                                                                         *)
(* The service runs on one goroutine, so every RPC handler and every timer *)
(* callback is one atomic action.  Wall-clock time is abstracted to what   *)
(* the code tests: an entry of mapLogining or mapOuting is "fresh" or      *)
(* "expired" (older than LoginingTimeout / OutingTimeout), a balance entry *)
(* is "fresh" or "stale" (not refreshed for 30 seconds).  A GameService is *)
(* a pair <<node, gsName>>: one node runs several of them.                 *)
(*                                                                         *)
(* Left out: SelectNum and Weight (statistics that no decision reads), the *)
(* registration counters and the area lists.                               *)
(***************************************************************************)
EXTENDS Integers, FiniteSets

CONSTANTS
    Users,      \* user ids
    Nodes,      \* node ids
    GSNames,    \* names of the GameServices of a node
    GameServices, \* the <<node, name>> pairs the cluster configuration runs
    MaxUsers,   \* GSMaxPlayerNumbersPriority, a positive number (line 126)
    Weighs,     \* the loads a GameService may report
    Reports,    \* the statuses the GameServices report
    NoUser,     \* mapUserInfo has no entry
    NoBalance,  \* mapBalance has no entry
    NoGS        \* the empty NodeId of a refused login

Status       == {"Logining", "Logined", "LoginOuting"}
ReportStatus == {"Logined", "LoginOuting", "LoginOuted"}
UserInfo     == [status : Status, gs : GameServices]
BalanceInfo  == [priority : Int, refresh : {"fresh", "stale"}]
Timer        == {"none", "fresh", "expired"}

ASSUME CenterAssumption ==
    /\ IsFiniteSet(Users)
    /\ GameServices \subseteq Nodes \X GSNames
    /\ MaxUsers \in Nat \ {0}
    /\ Weighs \subseteq Nat
    /\ Reports \subseteq ReportStatus
    /\ NoUser \notin UserInfo
    /\ NoBalance \notin BalanceInfo
    /\ NoGS \notin GameServices

VARIABLES
    mapUserInfo,    \* user -> its status and GameService
    mapLogining,    \* user -> age of its unconfirmed login
    mapOuting,      \* user -> age of its unconfirmed logout
    mapBalance,     \* GameService -> its place in the load balancing
    priorityQueue,  \* the GameServices whose item is in the queue
    reachable       \* the nodes that are connected and not retired

centerVars == <<mapUserInfo, mapLogining, mapOuting, mapBalance, priorityQueue>>
vars == <<centerVars, reachable>>

Known(u)      == mapUserInfo[u] # NoUser
Registered(g) == mapBalance[g] # NoBalance
HasStatus(u, st) == Known(u) /\ mapUserInfo[u].status = st

TypeOK ==
    /\ mapUserInfo \in [Users -> UserInfo \cup {NoUser}]
    /\ mapLogining \in [Users -> Timer]
    /\ mapOuting \in [Users -> Timer]
    /\ mapBalance \in [GameServices -> BalanceInfo \cup {NoBalance}]
    /\ priorityQueue \in SUBSET GameServices
    /\ reachable \in SUBSET Nodes

Init ==
    /\ mapUserInfo = [u \in Users |-> NoUser]
    /\ mapLogining = [u \in Users |-> "none"]
    /\ mapOuting = [u \in Users |-> "none"]
    /\ mapBalance = [g \in GameServices |-> NoBalance]
    /\ priorityQueue = {}
    /\ reachable = Nodes

----------------------------------------------------------------------------
(* Helpers shared by the handlers.                                          *)

\* Add delta[g] to the priority of every registered g; an unregistered
\* GameService is only logged.
refreshBalance(balance, delta) ==
    [g \in GameServices |->
        IF balance[g] = NoBalance THEN NoBalance
        ELSE [balance[g] EXCEPT !.priority = @ + delta[g]]]

\* What deleting the users D gives back to each GameService.
Freed(D) ==
    [g \in GameServices |-> Cardinality({u \in D : mapUserInfo[u].gs = g})]

\* What n new users cost GameService h.
Charged(h, n) == [g \in GameServices |-> IF g = h THEN -n ELSE 0]

addUserInfo(u, st, g) ==
    [mapUserInfo EXCEPT ![u] = [status |-> st, gs |-> g]]

delUserInfo(D) ==
    [u \in Users |-> IF u \in D THEN NoUser ELSE mapUserInfo[u]]

----------------------------------------------------------------------------
(* Choosing a GameService for a user the registry does not know.            *)

Usable(g) == mapBalance[g].refresh = "fresh" /\ g[1] \in reachable

Better(g, h) == mapBalance[g].priority > mapBalance[h].priority

BestUsable ==
    {g \in priorityQueue :
        Usable(g) /\ \A h \in priorityQueue : Usable(h) => ~Better(h, g)}

\* BUG variant: an unusable GameService leaves the queue but stays registered.
Mut_RemoveBalance(balance, dropped) == balance

RemoveBalance(balance, dropped) ==
    [g \in GameServices |-> IF g \in dropped THEN NoBalance ELSE balance[g]]

\* Pop until a usable item comes up, dropping the unusable ones met on the
\* way (those ahead of the answer; the order of equal priorities is the
\* heap's), and push the answer back.
getBestGameServiceNodeId(g, dropped) ==
    LET unusable == {h \in priorityQueue : ~Usable(h)} IN
    IF Cardinality({u \in Users : Known(u)}) >= MaxUsers
    THEN g = NoGS /\ dropped = {}
    ELSE \/ /\ BestUsable = {}
            /\ g = NoGS
            /\ dropped = priorityQueue
         \/ /\ g \in BestUsable
            /\ dropped \subseteq {h \in unusable : ~Better(g, h)}
            /\ {h \in unusable : Better(h, g)} \subseteq dropped

----------------------------------------------------------------------------
(* RPC handlers.                                                            *)

\* BUG variant: the login timer is started for new users only.
Mut_LoginKnown(u, g) ==
    /\ Known(u)
    /\ g = mapUserInfo[u].gs
    /\ mapUserInfo' = addUserInfo(u, "Logining", g)
    /\ UNCHANGED <<mapLogining, mapOuting, mapBalance, priorityQueue, reachable>>

LoginKnown(u, g) ==
    /\ Known(u)
    /\ g = mapUserInfo[u].gs
    /\ mapUserInfo' = addUserInfo(u, "Logining", g)
    /\ mapLogining' = [mapLogining EXCEPT ![u] = "fresh"]
    /\ UNCHANGED <<mapOuting, mapBalance, priorityQueue, reachable>>

LoginNew(u, g) ==
    /\ ~Known(u)
    /\ \E dropped \in SUBSET priorityQueue :
         /\ getBestGameServiceNodeId(g, dropped)
         /\ priorityQueue' = priorityQueue \ dropped
         /\ mapBalance' = refreshBalance(RemoveBalance(mapBalance, dropped),
                                         Charged(g, 1))
    /\ IF g = NoGS
       THEN UNCHANGED <<mapUserInfo, mapLogining>>
       ELSE /\ mapUserInfo' = addUserInfo(u, "Logining", g)
            /\ mapLogining' = [mapLogining EXCEPT ![u] = "fresh"]
    /\ UNCHANGED <<mapOuting, reachable>>

\* BUG variant: the balancer is asked again for a user who is registered.
Mut_RPC_Login(u, g) ==
    \/ LoginNew(u, g)
    \/ /\ Known(u)
       /\ g \in BestUsable
       /\ mapUserInfo' = addUserInfo(u, "Logining", g)
       /\ mapLogining' = [mapLogining EXCEPT ![u] = "fresh"]
       /\ UNCHANGED <<mapOuting, mapBalance, priorityQueue, reachable>>

\* The gate asks where user u must log in; g is the answer.
RPC_Login(u, g) == LoginKnown(u, g) \/ LoginNew(u, g)

LogOuted(u) ==
    /\ mapLogining' = [mapLogining EXCEPT ![u] = "none"]
    /\ mapOuting' = [mapOuting EXCEPT ![u] = "none"]
    /\ mapUserInfo' = delUserInfo({u})
    /\ mapBalance' = IF Known(u) THEN refreshBalance(mapBalance, Freed({u}))
                     ELSE mapBalance
    /\ UNCHANGED <<priorityQueue, reachable>>

StoreStatus(u, st, g) ==
    /\ mapLogining' = [mapLogining EXCEPT ![u] = "none"]
    /\ mapOuting' = [mapOuting EXCEPT
                        ![u] = IF st = "LoginOuting" THEN "fresh" ELSE "none"]
    /\ mapUserInfo' = addUserInfo(u, st, g)
    /\ mapBalance' = IF Known(u) THEN mapBalance
                     ELSE refreshBalance(mapBalance, Charged(g, 1))
    /\ UNCHANGED <<priorityQueue, reachable>>

\* BUG variant: the return after LoginOuted is missing.
Mut_RPC_UpdateStatus(u, st, g) == StoreStatus(u, st, g)

\* GameService g reports status st of user u ("Logining" is rejected).
RPC_UpdateStatus(u, st, g) ==
    IF st = "LoginOuted" THEN LogOuted(u) ELSE StoreStatus(u, st, g)

\* GameService g reports its load.
RPC_UpdateBalance(g, weigh) ==
    /\ mapBalance' = [mapBalance EXCEPT ![g] =
           IF Registered(g) THEN [@ EXCEPT !.refresh = "fresh"]
           ELSE [priority |-> -weigh, refresh |-> "fresh"]]
    /\ priorityQueue' = IF Registered(g) THEN priorityQueue
                        ELSE priorityQueue \cup {g}
    /\ UNCHANGED <<mapUserInfo, mapLogining, mapOuting, reachable>>

\* GameService g, after its start, lists its players: every user of g's NODE
\* is forgotten and the listed ones are entered again.
UsersOfNode(n) == {u \in Users : Known(u) /\ mapUserInfo[u].gs[1] = n}

EnterList(g, list, old) ==
    /\ mapUserInfo' = [u \in Users |->
           IF u \in list THEN [status |-> "Logined", gs |-> g]
           ELSE delUserInfo(old)[u]]
    /\ mapBalance' = refreshBalance(refreshBalance(mapBalance, Freed(old)),
                                    Charged(g, Cardinality(list)))
    /\ UNCHANGED <<mapOuting, priorityQueue, reachable>>

\* BUG variant: the login timers of the forgotten users stay.
Mut_RPC_UpdateUserList(g, list) ==
    /\ EnterList(g, list, UsersOfNode(g[1]))
    /\ UNCHANGED mapLogining

RPC_UpdateUserList(g, list) ==
    LET old == UsersOfNode(g[1]) IN
    /\ EnterList(g, list, old)
    /\ mapLogining' = [u \in Users |-> IF u \in old THEN "none" ELSE mapLogining[u]]

----------------------------------------------------------------------------
(* The one-minute ticker.                                                   *)

\* The users the loop over mapLogining deletes.
LoginingTimedOut ==
    {u \in Users : mapLogining[u] = "expired" /\ Known(u) /\ ~HasStatus(u, "Logined")}

\* The users the loop over mapOuting deletes, after the first loop.
OutingTimedOut ==
    {u \in Users \ LoginingTimedOut :
        mapOuting[u] = "expired" /\ Known(u) /\ ~HasStatus(u, "LoginOuting")}

\* BUG variant: the timeout forgets the timer and keeps the user.
Mut_CheckLoginTimeout ==
    /\ \E u \in Users : "expired" \in {mapLogining[u], mapOuting[u]}
    /\ mapLogining' = [u \in Users |->
           IF mapLogining[u] = "expired" THEN "none" ELSE mapLogining[u]]
    /\ mapOuting' = [u \in Users |->
           IF mapOuting[u] = "expired" THEN "none" ELSE mapOuting[u]]
    /\ UNCHANGED <<mapUserInfo, mapBalance, priorityQueue, reachable>>

CheckLoginTimeout ==
    LET deleted == LoginingTimedOut \cup OutingTimedOut IN
    /\ \E u \in Users : "expired" \in {mapLogining[u], mapOuting[u]}
    /\ mapLogining' = [u \in Users |->
           IF mapLogining[u] = "expired" THEN "none" ELSE mapLogining[u]]
    /\ mapOuting' = [u \in Users |->
           IF mapOuting[u] = "expired" THEN "none" ELSE mapOuting[u]]
    /\ mapUserInfo' = delUserInfo(deleted)
    /\ mapBalance' = refreshBalance(mapBalance, Freed(deleted))
    /\ UNCHANGED <<priorityQueue, reachable>>

----------------------------------------------------------------------------
(* The environment: time and the cluster.                                   *)

LoginingExpires(u) ==
    /\ mapLogining[u] = "fresh"
    /\ mapLogining' = [mapLogining EXCEPT ![u] = "expired"]
    /\ UNCHANGED <<mapUserInfo, mapOuting, mapBalance, priorityQueue, reachable>>

OutingExpires(u) ==
    /\ mapOuting[u] = "fresh"
    /\ mapOuting' = [mapOuting EXCEPT ![u] = "expired"]
    /\ UNCHANGED <<mapUserInfo, mapLogining, mapBalance, priorityQueue, reachable>>

BalanceExpires(g) ==
    /\ Registered(g) /\ mapBalance[g].refresh = "fresh"
    /\ mapBalance' = [mapBalance EXCEPT ![g].refresh = "stale"]
    /\ UNCHANGED <<mapUserInfo, mapLogining, mapOuting, priorityQueue, reachable>>

ClusterChange ==
    /\ \E n \in Nodes : reachable' \in {reachable \cup {n}, reachable \ {n}}
    /\ UNCHANGED centerVars

Next ==
    \/ \E u \in Users, g \in GameServices \cup {NoGS} : RPC_Login(u, g)
    \/ \E u \in Users, st \in Reports, g \in GameServices : RPC_UpdateStatus(u, st, g)
    \/ \E g \in GameServices, w \in Weighs : RPC_UpdateBalance(g, w)
    \/ \E g \in GameServices, list \in SUBSET Users : RPC_UpdateUserList(g, list)
    \/ CheckLoginTimeout
    \/ \E u \in Users : LoginingExpires(u)
    \/ \E u \in Users : OutingExpires(u)
    \/ \E g \in GameServices : BalanceExpires(g)
    \/ ClusterChange

Spec == Init /\ [][Next]_vars

\* The ticker keeps firing and clocks advance; callers owe nothing.
Fairness ==
    /\ WF_vars(CheckLoginTimeout)
    /\ \A u \in Users : WF_vars(LoginingExpires(u)) /\ WF_vars(OutingExpires(u))

FairSpec == Spec /\ Fairness
----------------------------------------------------------------------------
(* Properties.                                                              *)

\* A user whose login is not confirmed always has a running login timer, so
\* that an attempt nobody completes cannot hold its place for ever
\* (RPC_Login 359-360, RPC_UpdateStatus 382, CheckLoginTimeout 196-208).
LoginingIsTimed ==
    \A u \in Users : HasStatus(u, "Logining") => mapLogining[u] # "none"

\* A GameService is registered exactly when its item is in the queue: one
\* that is registered and not queued would be refreshed by RPC_UpdateBalance
\* for ever and never get a user again (getBestGameServiceNodeId 312-337,
\* RPC_UpdateBalance 430-446).
QueueIsBalance == priorityQueue = {g \in GameServices : Registered(g)}

\* With GameServices that report no logout in progress, as those of this
\* repository do, a login timer always belongs to a user of the registry, so
\* CheckLoginTimeout never deletes a user twice (204, 257-259).
TimerHasUser ==
    \A u \in Users : mapLogining[u] # "none" => Known(u)

\* A registered user is sent back to the GameService that has it: only the
\* report of another GameService moves it, never a login (349-352).
AssignmentSticky ==
    [][\A u \in Users :
         (Known(u) /\ Known(u)' /\ mapUserInfo[u].gs # mapUserInfo'[u].gs)
            => mapUserInfo'[u].status # "Logining"]_vars

\* A login may stay unconfirmed for ever only if the client keeps logging in
\* again: otherwise the ticker frees its place (193-208).
StuckOnlyByRetry ==
    \A u \in Users :
        <>[]HasStatus(u, "Logining")
            => []<><<\E g \in GameServices : LoginKnown(u, g)>>_vars
=============================================================================
