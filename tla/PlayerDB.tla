------------------------------ MODULE PlayerDB -------------------------------
(***************************************************************************)
(* The Player objects of one GameService: taken from a pool, loaded from   *)
(* DBService, changed, saved when they are released, and used again.       *)
(*                                                                         *)
(* The document of a user is its owner, the number of its last change and  *)
(* whether it has a NickName, that is, a character.  DBService is the      *)
(* queue it keeps for a user (see RowService): it answers a find with the  *)
(* row and stores what an upset carries, in the order they came in.        *)
(* MultiTables are tables with many rows per user; of them only the        *)
(* loading is modelled.  An object has a new rpcSessionKey in each of its  *)
(* lives, here the number of the life.                                     *)
(***************************************************************************)
EXTENDS Integers, Sequences, FiniteSetsExt

CONSTANTS
    Users, Objs, NoObj,
    MultiTables,
    MaxLives,               \* bound: Player objects initialised
    MaxChanges              \* bound: changes of one user's document

UserInfo == "UserInfo"      \* the table with one row per user
Tables   == {UserInfo} \cup MultiTables
Lives    == 1 .. MaxLives
Data     == [owner : Users, n : 0 .. MaxChanges, named : BOOLEAN]
NoData   == [owner |-> "nobody", n |-> 0, named |-> FALSE]

ASSUME PlayerDBAssumption ==
    /\ IsFiniteSet(MultiTables) /\ UserInfo \notin MultiTables
    /\ IsFiniteSet(Objs) /\ Cardinality(Users) <= Cardinality(Objs)
    /\ NoObj \notin Objs /\ "nobody" \notin Users
    /\ MaxLives \in Nat /\ MaxChanges \in Nat

VARIABLES
    mapPlayer,      \* user -> its Player object
    player,         \* object -> what it holds
    calls,          \* the finds whose callback has not run
    queue,          \* user -> requests DBService has not executed
    row,            \* user -> the stored document
    lives,          \* objects initialised so far
    truth,          \* user -> the number of its last change
    excused         \* users of whom a change may have been lost, see below

vars == <<mapPlayer, player, calls, queue, row, lives, truth, excused>>

totalProgress == Cardinality(Tables)

\* What Reset leaves of an object.
Free == [key |-> 0, id |-> "nobody", loadProgress |-> 0, errProgress |-> 0,
         data |-> NoData, ping |-> "fresh"]

Init ==
    /\ mapPlayer = [u \in Users |-> NoObj]
    /\ player = [o \in Objs |-> Free]
    /\ calls = {}
    /\ queue = [u \in Users |-> <<>>]
    /\ row \in {r \in [Users -> Data] : \A u \in Users : r[u].owner = u /\ r[u].n = 0}
    /\ lives = 0
    /\ truth = [u \in Users |-> 0]
    /\ excused = {}

----------------------------------------------------------------------------
(* DBService, as the callers see it.                                        *)

Find(key) == [op |-> "find", key |-> key]
Upset(d)  == [op |-> "upset", data |-> d]

Upsets(q) == {i \in DOMAIN q : q[i].op = "upset"}

\* What the row will be when the queue is empty.
Stored(u) == LET s == Upsets(queue[u]) IN
             IF s = {} THEN row[u] ELSE queue[u][Max(s)].data

Answered(key, d) ==
    {IF c.key = key /\ c.table = UserInfo /\ c.state = "sent"
     THEN [c EXCEPT !.state = "ok", !.data = d] ELSE c : c \in calls}

\* The documents that may have been saved.
Past(u) == {d \in Data : d.owner = u /\ d.n <= truth[u] /\ d.named}

\* A find answers with the row.  Of a user whose save failed, or whose row was
\* disturbed, the cache may have something else.
MayAnswer(u) == {row[u]} \cup IF u \in excused THEN Past(u) ELSE {}

DBExecutes(u) ==
    LET r == Head(queue[u]) IN
    /\ queue[u] # <<>>
    /\ queue' = [queue EXCEPT ![u] = Tail(@)]
    /\ IF r.op = "find"
       THEN (\E d \in MayAnswer(u) : calls' = Answered(r.key, d)) /\ UNCHANGED row
       ELSE row' = [row EXCEPT ![r.data.owner] = r.data] /\ UNCHANGED calls
    /\ UNCHANGED <<mapPlayer, player, lives, truth, excused>>

\* A request fails; a find that is lost runs into its timeout.
DBLoses(u) ==
    LET r == Head(queue[u]) IN
    /\ queue[u] # <<>>
    /\ queue' = [queue EXCEPT ![u] = Tail(@)]
    /\ excused' = IF r.op = "upset" THEN excused \cup {u} ELSE excused
    /\ UNCHANGED <<mapPlayer, player, calls, row, lives, truth>>

\* DBService starts again, with empty channels.
DBRestarts ==
    /\ queue' = [u \in Users |-> <<>>]
    /\ excused' = excused \cup {u \in Users : Upsets(queue[u]) # {}}
    /\ UNCHANGED <<mapPlayer, player, calls, row, lives, truth>>

\* Another node, which served the user until the list of nodes changed,
\* executes what it still has; or a find with another key, that of a login,
\* fills the cache with a row that is written meanwhile.  Before the first
\* change there is one document only.
Disturb(u) ==
    /\ truth[u] > 0
    /\ \E d \in Past(u) \cup {row[u]} : row' = [row EXCEPT ![u] = d]
    /\ excused' = excused \cup {u}
    /\ UNCHANGED <<mapPlayer, player, calls, queue, lives, truth>>

----------------------------------------------------------------------------
(* Loading and saving.                                                      *)

IsLoadFinish(p) == p.key # 0 /\ p.loadProgress >= totalProgress /\ p.errProgress = 0

\* Unloaded objects are saved as well.
Mut_Savable(p) == TRUE

\* The changes of a user without a character are dropped.
Savable(p) == p.data.named /\ IsLoadFinish(p)

\* Destroy and ReleasePlayer both save the whole document; either request
\* may find no node to go to.
SaveToDB(p) ==
    IF ~Savable(p)
    THEN /\ excused' = IF IsLoadFinish(p) /\ p.data # Stored(p.id)
                       THEN excused \cup {p.id} ELSE excused
         /\ UNCHANGED queue
    ELSE \E sent \in 0..2 :
        /\ queue' = [queue EXCEPT ![p.id] = @ \o [i \in 1..sent |-> Upset(p.data)]]
        /\ excused' = IF sent = 0 THEN excused \cup {p.id} ELSE excused

\* The object goes back to the pool and stays in the map.
Mut_ReleasePlayer(o) == player' = [player EXCEPT ![o] = Free] /\ UNCHANGED mapPlayer

ReleasePlayer(o) ==
    /\ mapPlayer' = [mapPlayer EXCEPT ![player[o].id] = NoObj]
    /\ player' = [player EXCEPT ![o] = Free]

Destroy(o) == SaveToDB(player[o]) /\ ReleasePlayer(o)

\* The find of each table.  Without a node the one of UserInfo is given up
\* and never called back; one of another table is called back at once, with
\* an error.
LoadFromDB(o, key, u) ==
    \E sent \in SUBSET Tables :
        LET failed == Cardinality(MultiTables \ sent) IN
        /\ calls' = calls \cup {[obj |-> o, key |-> key, table |-> t, state |-> "sent",
                                 data |-> NoData] : t \in sent}
        /\ queue' = IF UserInfo \in sent
                    THEN [queue EXCEPT ![u] = Append(@, Find(key))] ELSE queue
        /\ player' = [player EXCEPT ![o] = [Free EXCEPT !.key = key, !.id = u,
                          !.loadProgress = failed, !.errProgress = failed]]

\* The object of a life that is over takes the answer as its own.
Mut_IsLate(c) == FALSE

\* AsyncCallNode compares the keys.
IsLate(c) == player[c.obj].key # c.key

\* A find that failed does not count as progress.
Mut_dbLoadCallBack(p, c, decoded) ==
    IF c.state = "err" THEN [p EXCEPT !.errProgress = @ + 1]
    ELSE [p EXCEPT !.loadProgress = @ + 1,
                   !.errProgress = IF decoded THEN @ ELSE @ + 1,
                   !.data = IF c.table = UserInfo /\ decoded THEN c.data ELSE @]

\* dbLoadCallBack and dbMultiLoadCallBack: the object after an answer.
dbLoadCallBack(p, c, decoded) ==
    [p EXCEPT !.loadProgress = @ + 1,
              !.errProgress = IF c.state = "err" \/ ~decoded THEN @ + 1 ELSE @,
              !.data = IF c.state = "ok" /\ decoded /\ c.table = UserInfo THEN c.data ELSE @]

\* OnLoadDBEnd(FALSE), and then the release of an object that never saves.
LoadFails(p) == p.loadProgress >= totalProgress /\ p.errProgress > 0

CallBack(c, state, decoded) ==
    LET o == c.obj
        p == dbLoadCallBack(player[o], [c EXCEPT !.state = state], decoded) IN
    /\ calls' = calls \ {c}
    /\ CASE IsLate(c)    -> UNCHANGED <<mapPlayer, player>>
         [] ~IsLate(c) /\ LoadFails(p) -> ReleasePlayer(o)
         [] OTHER        -> player' = [player EXCEPT ![o] = p] /\ UNCHANGED mapPlayer
    /\ UNCHANGED <<queue, row, lives, truth, excused>>

Answer(c)     == c.state = "ok" /\ \E decoded \in BOOLEAN : CallBack(c, "ok", decoded)
Fails(c)      == c.state = "sent" /\ CallBack(c, "err", TRUE)
MultiLoads(c) == c.state = "sent" /\ c.table # UserInfo /\ CallBack(c, "ok", TRUE)

----------------------------------------------------------------------------
(* The GameService around them.                                             *)

\* NewPlayer takes any object of the pool; one that is there is kept.
RPC_Login(u) ==
    /\ IF mapPlayer[u] = NoObj
       THEN \E o \in {x \in Objs : player[x].key = 0} :
            /\ lives < MaxLives /\ lives' = lives + 1
            /\ mapPlayer' = [mapPlayer EXCEPT ![u] = o]
            /\ LoadFromDB(o, lives + 1, u)
       ELSE /\ player' = [player EXCEPT ![mapPlayer[u]].ping = "fresh"]
            /\ UNCHANGED <<mapPlayer, calls, queue, lives>>
    /\ UNCHANGED <<row, truth, excused>>

Live(u)    == mapPlayer[u] # NoObj
Object(u)  == player[mapPlayer[u]]
Loaded(u)  == Live(u) /\ IsLoadFinish(Object(u))
Loading(u) == Live(u) /\ ~IsLoadFinish(Object(u))

\* A message other than a ping reaches a loaded Player only.
Change(u) ==
    /\ Loaded(u) /\ truth[u] < MaxChanges
    /\ \E named \in {Object(u).data.named, TRUE} :
        player' = [player EXCEPT ![mapPlayer[u]].data =
                        [owner |-> @.owner, n |-> truth[u] + 1, named |-> named]]
    /\ truth' = [truth EXCEPT ![u] = @ + 1]
    /\ UNCHANGED <<mapPlayer, calls, queue, row, lives, excused>>

Ping(u) ==
    /\ Live(u)
    /\ player' = [player EXCEPT ![mapPlayer[u]].ping = "fresh"]
    /\ UNCHANGED <<mapPlayer, calls, queue, row, lives, truth, excused>>

PingGetsOld(u) ==
    /\ Live(u) /\ Object(u).ping = "fresh"
    /\ player' = [player EXCEPT ![mapPlayer[u]].ping = "old"]
    /\ UNCHANGED <<mapPlayer, calls, queue, row, lives, truth, excused>>

\* Only a Player that was loaded times out.
Mut_checkPingTimeout(u) ==
    /\ Loaded(u) /\ Object(u).ping = "old"
    /\ Destroy(mapPlayer[u])
    /\ UNCHANGED <<calls, row, lives, truth>>

checkPingTimeout(u) ==
    /\ Live(u) /\ Object(u).ping = "old"
    /\ Destroy(mapPlayer[u])
    /\ UNCHANGED <<calls, row, lives, truth>>

\* The process ends, in order or not: OnRelease saves nobody.
Restart ==
    /\ mapPlayer' = [u \in Users |-> NoObj]
    /\ player' = [o \in Objs |-> Free]
    /\ calls' = {}
    /\ excused' = excused \cup {u \in Users : Loaded(u) /\ Object(u).data # Stored(u)}
    /\ UNCHANGED <<queue, row, lives, truth>>

CallBacks(key) == \E c \in {x \in calls : x.key = key} : Answer(c) \/ Fails(c) \/ MultiLoads(c)

Next ==
    \/ \E u \in Users :
        \/ RPC_Login(u) \/ Change(u) \/ Ping(u) \/ PingGetsOld(u) \/ checkPingTimeout(u)
        \/ DBExecutes(u) \/ DBLoses(u) \/ Disturb(u)
    \/ \E key \in Lives : CallBacks(key)
    \/ Restart \/ DBRestarts

Spec == Init /\ [][Next]_vars

\* A call is answered or runs into its timeout; time passes for a client
\* that is silent, and the ticker fires every 30 seconds.
FairSpec ==
    /\ Spec
    /\ \A key \in Lives : WF_vars(CallBacks(key))
    /\ \A u \in Users : WF_vars(PingGetsOld(u)) /\ WF_vars(checkPingTimeout(u))

----------------------------------------------------------------------------
(* Properties.                                                              *)

Call    == [obj : Objs, key : Lives, table : Tables, state : {"sent", "ok"},
            data : Data \cup {NoData}]
Request == [op : {"find"}, key : Lives] \cup [op : {"upset"}, data : Data]

TypeOK ==
    /\ mapPlayer \in [Users -> Objs \cup {NoObj}]
    /\ player \in [Objs -> [key : Lives \cup {0}, id : Users \cup {"nobody"},
                            loadProgress : 0 .. totalProgress, errProgress : 0 .. totalProgress,
                            data : Data \cup {NoData}, ping : {"fresh", "old"}]]
    /\ calls \subseteq Call
    /\ queue \in [Users -> Seq(Request)]
    /\ row \in [Users -> Data]
    /\ lives \in Lives \cup {0}
    /\ truth \in [Users -> 0 .. MaxChanges]
    /\ excused \subseteq Users

\* The map and the objects in use agree: no object serves two users, none
\* that is in the pool is still in the map, and none is lost to both.
MapIsPool ==
    /\ \A u \in Users : Live(u) => Object(u).key # 0 /\ Object(u).id = u
    /\ \A o \in Objs : player[o].key # 0 => mapPlayer[player[o].id] = o

\* Whatever else an object was and will be used for, a load counts the
\* answers of its own tables, each once.
ProgressIsOwn ==
    \A o \in Objs : player[o].key # 0 =>
        player[o].loadProgress + Cardinality({c \in calls : c.key = player[o].key}) <= totalProgress

\* No document is ever loaded from or stored in another user's row, and no
\* change is lost: a Player that is loaded has the last one, and when there
\* is none the row has it, or will have it before any load of a later Player
\* (SaveToDB, LoadFromDB, AsyncCallNode).  Excused from the latter are users
\* whose save found no node or failed, or whose row was disturbed, those with
\* a Player in a process that ended, or a save in a DBService that did, and
\* those who left without a character.
NoLostUpdate ==
    \A u \in Users :
        LET d == IF Loaded(u) THEN Object(u).data ELSE Stored(u) IN
            /\ d.owner = u /\ row[u].owner = u
            /\ u \notin excused => d.n = truth[u]

\* The answers a load has asked for bring it to its end, and each of them
\* may fail.
LoadIsAnswered ==
    \A u \in Users :
        (Loading(u) /\ \E c \in calls : c.table = UserInfo /\ c.key = Object(u).key) ~> ~Loading(u)

\* A load that was given up leaves a Player that drops every message but the
\* ping: it is released once its client is silent.
LoadingEnds ==
    \A u \in Users : []<>(~Loading(u)) \/ []<><<Ping(u)>>_vars
=============================================================================
