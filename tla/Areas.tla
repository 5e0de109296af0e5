-------------------------------- MODULE Areas --------------------------------
(***************************************************************************)
(* The areas players choose from.  Operators edit two tables of the        *)
(* account database: ShowAreaInfo, the areas players see, each on a real   *)
(* area, and RealAreaInfo, with the gates of each.  HttpGateService joins  *)
(* them into the list it hands out at a login; CenterService keeps the     *)
(* number of registered characters in the row of its own area.             *)
(*                                                                         *)
(* Of the fields of a row only the name and the real area of a shown area  *)
(* and the gates of a real one matter here; gate lists are numbered.  A    *)
(* row that cannot be decoded counts as one without a name.                *)
(***************************************************************************)
EXTENDS Naturals, FiniteSets, SequencesExt

CONSTANTS
    RealAreas, ShowAreas,
    AreaId,                 \* the area of the CenterService
    Names, NoName, NoGates, NoRow,
    Requests,               \* HTTP logins
    forbidGuestLogin,       \* of the configuration
    MaxEdits,               \* bound: edits of the tables, also the gate lists
    MaxLoads,               \* bound: loads begun
    MaxCharacters,          \* bound: characters counted, and those reported since
    MaxUnstored             \* bound: counts on their way to the database

ASSUME AreasAssumption ==
    /\ AreaId \in RealAreas /\ NoName \notin Names
    /\ MaxEdits \in Nat /\ MaxLoads \in Nat /\ MaxCharacters \in Nat
    /\ MaxUnstored \in Nat
    /\ forbidGuestLogin \in BOOLEAN
    /\ NoGates \notin Nat /\ NoRow \notin Nat \cup {NoGates}

VARIABLES
    \* the account database
    real,               \* RealAreaInfo: area -> its gates
    show,               \* ShowAreaInfo: area -> [name, real]
    registerCount,      \* the field of the row of AreaId
    edits,              \* edits so far
    \* HttpGateService
    loads,              \* loads of the area list in flight
    loadAreaTimerId,    \* the retry timer runs
    mapAreaGate,        \* the list it hands out: area -> [name, gates]
    startListenCount,   \* 1 when firstLoad is over and gin was started
    began,              \* loads begun so far
    installed, edited,  \* the load installed last; those begun at the last edit
    emptied,            \* a load found no area to show
    login,              \* HTTP login -> where it is, or its answer
    \* CenterService
    count,              \* the query of CountUserInfoBy: "timer", "asked", "done"
    DBCharacterNum, NewCharacterNum, dirtyNewCharacter,
    upserts,            \* counts sent to the account database, oldest first
    countLost           \* history: the last count was not sent, was lost on its
                        \* way, or was stored before an older one

tables     == <<real, show, edits>>
gateVars   == <<loads, loadAreaTimerId, mapAreaGate, startListenCount, began,
                installed, edited, emptied, login>>
centerVars == <<count, DBCharacterNum, NewCharacterNum, dirtyNewCharacter, upserts,
                countLost>>
vars == <<tables, registerCount, gateVars, centerVars>>

AllLoadCount == 1        \* things to load before the web server starts

\* A load that has read nothing yet.
NotRead   == [r \in RealAreas |-> NoRow]
NoneShown == [s \in ShowAreas |-> [name |-> NoName, real |-> AreaId]]

Init ==
    /\ real \in [RealAreas -> {NoRow, 0}]
    /\ show \in [ShowAreas -> [name : Names \cup {NoName}, real : {AreaId}]]
    /\ registerCount = 0 /\ edits = 0
    /\ loads = {} /\ loadAreaTimerId = TRUE
    /\ mapAreaGate = [s \in {} |-> NoRow] /\ startListenCount = 0
    /\ began = 0 /\ installed = 0 /\ edited = 0 /\ emptied = FALSE
    /\ login = [c \in Requests |-> "none"]
    /\ count = "timer"
    /\ DBCharacterNum = 0 /\ NewCharacterNum = 0 /\ dirtyNewCharacter = FALSE
    /\ upserts = <<>> /\ countLost = FALSE

----------------------------------------------------------------------------
(* Operators edit the tables.                                               *)

Edit ==
    /\ edits < MaxEdits /\ edits' = edits + 1
    /\ \/ \E s \in ShowAreas, n \in Names \cup {NoName}, r \in RealAreas :
            show' = [show EXCEPT ![s] = [name |-> n, real |-> r]] /\ UNCHANGED real
       \/ \E r \in RealAreas : real' = [real EXCEPT ![r] = edits'] /\ UNCHANGED show
    /\ edited' = began
    /\ UNCHANGED <<registerCount, loads, loadAreaTimerId, mapAreaGate, startListenCount,
                   began, installed, emptied, login, centerVars>>

----------------------------------------------------------------------------
(* HttpGateService: loading the list.                                       *)

listVars == <<mapAreaGate, startListenCount, installed, emptied>>
othersOfGate == <<tables, registerCount, edited, login, centerVars>>

\* The load asks for the real areas first.
loadAreaInfoFromDB ==
    /\ began < MaxLoads /\ began' = began + 1
    /\ loadAreaTimerId' = FALSE
    /\ loads' = loads \cup
            {[id |-> began', stage |-> "real", real |-> NotRead, show |-> NoneShown]}
    /\ UNCHANGED <<listVars, othersOfGate>>

loadAreaInfo == loadAreaTimerId /\ loadAreaInfoFromDB

\* A timer that runs is cancelled; a load that is in flight is not.
RPC_ReLoadAreaInfo == loadAreaInfoFromDB

\* A failed load is not repeated.
Mut_LoadFails(l) ==
    /\ l.stage \in {"real", "show"}
    /\ loads' = loads \ {l}
    /\ UNCHANGED <<began, loadAreaTimerId, listVars, othersOfGate>>

\* Every load tries again, after five seconds.
LoadFails(l) ==
    /\ l.stage \in {"real", "show"}
    /\ loads' = loads \ {l} /\ loadAreaTimerId' = TRUE
    /\ UNCHANGED <<began, listVars, othersOfGate>>

\* What the database has when it is asked, and queryRealAreaCallBack.
RealAnswers(l) ==
    /\ l.stage = "real"
    /\ loads' = (loads \ {l}) \cup {[l EXCEPT !.stage = "show", !.real = real]}
    /\ UNCHANGED <<began, loadAreaTimerId, listVars, othersOfGate>>

ShowIsRead(l) ==
    /\ l.stage = "show"
    /\ loads' = (loads \ {l}) \cup {[l EXCEPT !.stage = "answer", !.show = show]}
    /\ UNCHANGED <<began, loadAreaTimerId, listVars, othersOfGate>>

\* A shown area on an unknown real one is listed.
Mut_Join(r, s) ==
    [a \in {x \in ShowAreas : s[x].name # NoName} |->
        [name |-> s[a].name, gates |-> r[s[a].real]]]

\* Shown areas without a name are left out, and those on an unknown real one.
Join(r, s) ==
    [a \in {x \in ShowAreas : s[x].name # NoName /\ r[s[x].real] # NoRow} |->
        [name |-> s[a].name, gates |-> r[s[a].real]]]

\* The list that is handed out is filled in, never emptied before.
Mut_Listed(l) ==
    LET new == Join(l.real, l.show) IN
        [a \in DOMAIN new \cup DOMAIN mapAreaGate |->
            IF a \in DOMAIN new THEN new[a] ELSE mapAreaGate[a]]

Listed(l) == Join(l.real, l.show)

\* An empty list is installed like any other.
Mut_queryShowAreaCallBack(l) ==
    /\ l.stage = "answer"
    /\ loads' = loads \ {l}
    /\ mapAreaGate' = Listed(l) /\ installed' = l.id
    /\ startListenCount' = AllLoadCount
    /\ UNCHANGED <<began, loadAreaTimerId, emptied, othersOfGate>>

\* An empty list is not installed, and nothing is tried again.  The first
\* list starts the web server.
queryShowAreaCallBack(l) ==
    /\ l.stage = "answer"
    /\ loads' = loads \ {l}
    /\ IF DOMAIN Listed(l) = {}
       THEN emptied' = TRUE /\ UNCHANGED <<mapAreaGate, startListenCount, installed>>
       ELSE /\ mapAreaGate' = Listed(l) /\ installed' = l.id
            /\ startListenCount' = AllLoadCount
            /\ UNCHANGED emptied
    /\ UNCHANGED <<began, loadAreaTimerId, othersOfGate>>

----------------------------------------------------------------------------
(* LoginModule: an HTTP login.                                              *)

Logged(c, state) ==
    /\ login' = [login EXCEPT ![c] = state]
    /\ UNCHANGED <<tables, registerCount, loads, loadAreaTimerId, mapAreaGate,
                   startListenCount, began, installed, edited, emptied, centerVars>>

\* A login of an unknown kind or without an id is refused, guests and
\* accounts go to the database, the others to AuthService first.
Login(c) ==
    /\ startListenCount = AllLoadCount /\ login[c] = "none"
    /\ \/ Logged(c, "refused")
       \/ ~forbidGuestLogin /\ Logged(c, "db")
       \/ Logged(c, "auth")

\* AuthService has no method of the name that is called.
AuthAnswers(c) == login[c] = "auth" /\ Logged(c, "error")

\* With the token goes the list as it is now.
DBAnswers(c) ==
    /\ login[c] = "db"
    /\ \/ Logged(c, "error")
       \/ Logged(c, IF DOMAIN mapAreaGate = {} THEN "nothing" ELSE "areas")

----------------------------------------------------------------------------
(* CenterService: counting the characters.                                  *)

othersOfCenter == <<tables, gateVars>>

\* No service of the repository calls it: the gate enters a new user in UserInfo
\* (loginToDB) and tells nobody.
RPC_CreateCharacterInfo ==
    /\ NewCharacterNum < MaxCharacters
    /\ NewCharacterNum' = NewCharacterNum + 1
    /\ dirtyNewCharacter' = TRUE
    /\ UNCHANGED <<count, DBCharacterNum, upserts, countLost, registerCount, othersOfCenter>>

\* The timer asks, four seconds after the start and after every failure.
CountUserInfoBy ==
    /\ \/ count = "timer" /\ count' = "asked"
       \/ count = "asked" /\ count' = "timer"
    /\ UNCHANGED <<DBCharacterNum, NewCharacterNum, dirtyNewCharacter, upserts, countLost,
                   registerCount, othersOfCenter>>

\* BUG variant: the number is not marked as new.
Mut_CountAnswers ==
    /\ count = "asked" /\ count' = "done"
    /\ DBCharacterNum' \in 0 .. MaxCharacters
    /\ UNCHANGED <<NewCharacterNum, dirtyNewCharacter, upserts, countLost, registerCount,
                   othersOfCenter>>

CountAnswers ==
    /\ count = "asked" /\ count' = "done"
    /\ DBCharacterNum' \in 0 .. MaxCharacters /\ dirtyNewCharacter' = TRUE
    /\ UNCHANGED <<NewCharacterNum, upserts, countLost, registerCount, othersOfCenter>>

\* The flag is reset before the count is sent, which may fail.
SyncAreaBalance ==
    /\ dirtyNewCharacter /\ dirtyNewCharacter' = FALSE
    /\ Len(upserts) < MaxUnstored
    /\ \/ upserts' = Append(upserts, NewCharacterNum + DBCharacterNum) /\ countLost' = FALSE
       \/ countLost' = TRUE /\ UNCHANGED upserts
    /\ UNCHANGED <<count, DBCharacterNum, NewCharacterNum, registerCount, othersOfCenter>>

\* DBService stores a count, in a new row if the operators have made none.
\* Counts sent to one node keep their order, but the nodes may change.
CountIsStored(i) ==
    /\ upserts' = RemoveAt(upserts, i)
    /\ registerCount' = upserts[i]
    /\ countLost' = (countLost \/ (i = Len(upserts) /\ i > 1))
    /\ real' = [real EXCEPT ![AreaId] = IF @ = NoRow THEN NoGates ELSE @]
    /\ edited' = IF real[AreaId] = NoRow THEN began ELSE edited
    /\ UNCHANGED <<show, edits, loads, loadAreaTimerId, listVars, began, login, count,
                   DBCharacterNum, NewCharacterNum, dirtyNewCharacter>>

\* A count is refused by a full channel, cannot be written, or is lost with its
\* connection or with DBService; CenterService does not hear of it.
CountIsLost(i) ==
    /\ upserts' = RemoveAt(upserts, i)
    /\ countLost' = (countLost \/ i = Len(upserts))
    /\ UNCHANGED <<count, DBCharacterNum, NewCharacterNum, dirtyNewCharacter,
                   registerCount, othersOfCenter>>

\* CenterService starts again and knows no number.
CenterRestarts ==
    /\ count' = "timer"
    /\ DBCharacterNum' = 0 /\ NewCharacterNum' = 0 /\ dirtyNewCharacter' = FALSE
    /\ UNCHANGED <<upserts, countLost, registerCount, othersOfCenter>>

Next ==
    \/ Edit
    \/ loadAreaInfo \/ RPC_ReLoadAreaInfo
    \/ \E l \in loads : LoadFails(l) \/ RealAnswers(l) \/ ShowIsRead(l) \/ queryShowAreaCallBack(l)
    \/ \E c \in Requests : Login(c) \/ AuthAnswers(c) \/ DBAnswers(c)
    \/ RPC_CreateCharacterInfo \/ CountUserInfoBy \/ CountAnswers
    \/ SyncAreaBalance \/ CenterRestarts
    \/ \E i \in DOMAIN upserts : CountIsStored(i) \/ CountIsLost(i)

Spec == Init /\ [][Next]_vars

----------------------------------------------------------------------------
(* Properties.                                                              *)

Load == [id : 1 .. MaxLoads, stage : {"real", "show", "answer"},
         real : [RealAreas -> {NoRow, NoGates} \cup 0 .. MaxEdits],
         show : [ShowAreas -> [name : Names \cup {NoName}, real : RealAreas]]]

FlagsOK ==
    /\ loadAreaTimerId \in BOOLEAN /\ emptied \in BOOLEAN
    /\ dirtyNewCharacter \in BOOLEAN /\ countLost \in BOOLEAN

DataOK ==
    /\ real \in [RealAreas -> {NoRow, NoGates} \cup 0 .. MaxEdits]
    /\ show \in [ShowAreas -> [name : Names \cup {NoName}, real : RealAreas]]
    /\ edits \in 0 .. MaxEdits
    /\ loads \subseteq Load
    /\ startListenCount \in 0 .. AllLoadCount
    /\ began \in 0 .. MaxLoads /\ installed \in 0 .. MaxLoads /\ edited \in 0 .. MaxLoads
    /\ DOMAIN mapAreaGate \subseteq ShowAreas
    /\ \A a \in DOMAIN mapAreaGate :
            mapAreaGate[a] \in [name : Names, gates : {NoGates} \cup 0 .. MaxEdits]
    /\ login \in [Requests -> {"none", "auth", "db", "refused", "error", "areas", "nothing"}]
    /\ registerCount \in Nat /\ DBCharacterNum \in Nat /\ NewCharacterNum \in Nat
    /\ upserts \in Seq(Nat)
    /\ count \in {"timer", "asked", "done"}

TypeOK == FlagsOK /\ DataOK

\* Whoever logs in is given areas: gin starts with the first list, and no
\* reload, however it fails or whatever it overlaps, takes the list away.
LoginHasAreas ==
    /\ startListenCount > 0 => DOMAIN mapAreaGate # {}
    /\ \A c \in Requests : login[c] # "nothing"

\* Until the first list is there, a load or the timer of the next is under
\* way, unless a load has found nothing to show.
KeepsTrying == startListenCount = 0 /\ ~emptied => loadAreaTimerId \/ loads # {}

\* A load begun after the last edit shows that edit, and nothing that is
\* gone; only an older load that ends after it may bring the past back.
ReloadTakesEffect ==
    installed > edited => mapAreaGate = Join(real, show)

\* Once the database has counted, the row of the area has the number CenterService
\* knows, or will have it when the last count is stored, as long as the counts
\* get there and in their order: the flag that is reset before the count is sent
\* loses no change, whatever overlaps, retries or restarts (SyncAreaBalance
\* 266-293).  What is lost on the way is not sent again (countLost).
CountIsSynced ==
    count = "done" /\ ~dirtyNewCharacter /\ ~countLost =>
        (IF upserts = <<>> THEN registerCount ELSE upserts[Len(upserts)])
            = DBCharacterNum + NewCharacterNum
=============================================================================
