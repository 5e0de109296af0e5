----------------------------- MODULE PlayerRows ------------------------------
(***************************************************************************)
(* The Player objects of PlayerDB over the RowService of each user's row,  *)
(* which DBService is proved to be.  PlayerDB says what DBService does as  *)
(* steps of its own; here RowService decides, and ImplementsPlayerDB is    *)
(* that PlayerDB leaves out nothing that can come of it.                   *)
(*                                                                         *)
(* A user's queue and tickets together are what RowService calls pending,  *)
(* with the session keys that tell whom to answer.                         *)
(***************************************************************************)
EXTENDS PlayerDB, SequencesExt

CONSTANT Tickets            \* bound: the ticket numbers

VARIABLES
    ticket,     \* user -> the tickets of the requests in its queue
    unsure,     \* user -> finds may answer with another document
    answer      \* the last answer of a RowService

rowVars == <<ticket, unsure, answer>>

NoRequest == [op |-> "none"]
Plain(r)  == IF r.op = "find" THEN [op |-> "find"] ELSE [op |-> "upset", val |-> r.data]

Pending(u) ==
    [i \in Tickets |-> LET P == {n \in DOMAIN queue[u] : ticket[u][n] = i} IN
                       IF P = {} THEN NoRequest ELSE Plain(queue[u][CHOOSE n \in P : TRUE])]

\* Players write whole documents only.
Update(d, r) == r.val

Documents(u) == {d \in Data : d.owner = u}

Row(u) == INSTANCE RowService WITH
    Rows <- Documents(u), Vals <- Documents(u), Empty <- NoData, NoField <- NoData, NoRow <- NoData,
    row <- row[u], pending <- Pending(u), unsure <- unsure[u]

RowsInit ==
    /\ Init
    /\ ticket = [u \in Users |-> <<>>]
    /\ unsure = [u \in Users |-> FALSE]
    /\ answer = [how |-> "ok", row |-> NoData]

\* Each request draws the number after those that wait (RowService!Submit).
Drawn(u) ==
    LET last == IF ticket[u] = <<>> THEN 0 ELSE Last(ticket[u]) IN
    [n \in 1 .. Len(queue'[u]) - Len(queue[u]) |-> last + n]

\* Whatever the GameService does, with the requests it makes of DBService.
GameServiceSteps ==
    /\ \/ \E u \in Users : RPC_Login(u) \/ Change(u) \/ Ping(u) \/ PingGetsOld(u) \/ checkPingTimeout(u)
       \/ \E key \in Lives : CallBacks(key)
       \/ Restart
    /\ ticket' = [u \in Users |-> ticket[u] \o Drawn(u)]
    /\ \A u \in Users : ToSet(ticket'[u]) \subseteq Tickets
    /\ UNCHANGED <<unsure, answer>>

\* The RowService of the user serves the request with a ticket: the find is
\* answered to whoever made it, a change that fails is lost.  What finds
\* answer is a document that the user has or had.
Serves(u, i) ==
    /\ \E n \in DOMAIN queue[u] :
        /\ ticket[u][n] = i
        /\ queue' = [queue EXCEPT ![u] = RemoveAt(@, n)]
        /\ ticket' = [ticket EXCEPT ![u] = RemoveAt(@, n)]
        /\ \E d \in Documents(u), b \in BOOLEAN :
            row' = [row EXCEPT ![u] = d] /\ unsure' = [unsure EXCEPT ![u] = b]
        /\ \/ \E d \in Past(u) \cup {row[u]} :
                /\ answer' = [how |-> "ok", row |-> d]
                /\ Row(u)!Find(i)
                /\ calls' = Answered(queue[u][n].key, d) /\ UNCHANGED excused
           \/ /\ answer' = [how |-> "ok", row |-> NoData]
              /\ Row(u)!Change(i)
              /\ UNCHANGED <<calls, excused>>
           \/ /\ answer' = [how |-> "error", row |-> NoData]
              /\ Row(u)!Fail(i)
              /\ excused' = IF queue[u][n].op = "upset" THEN excused \cup {u} ELSE excused
              /\ UNCHANGED calls
    /\ UNCHANGED <<mapPlayer, player, lives, truth>>

\* DBService starts again: the rows of all users at once.
Restarts ==
    /\ queue' = [u \in Users |-> <<>>] /\ ticket' = [u \in Users |-> <<>>]
    /\ unsure' = [u \in Users |-> FALSE]
    /\ excused' = excused \cup {u \in Users : Upsets(queue[u]) # {}}
    /\ UNCHANGED <<mapPlayer, player, calls, row, lives, truth, answer>>
    /\ \A u \in Users : Row(u)!Restart

\* Somebody else writes the row, or makes the cache differ from it.
IsDisturbed(u) ==
    /\ truth[u] > 0
    /\ \E d \in Past(u) \cup {row[u]} : row' = [row EXCEPT ![u] = d]
    /\ unsure' = [unsure EXCEPT ![u] = TRUE]
    /\ excused' = excused \cup {u}
    /\ UNCHANGED <<mapPlayer, player, calls, queue, lives, truth, ticket, answer>>
    /\ Row(u)!Disturb

RowsNext ==
    \/ GameServiceSteps
    \/ \E u \in Users : IsDisturbed(u) \/ \E i \in Tickets : Serves(u, i)
    \/ Restarts

RowsSpec == RowsInit /\ [][RowsNext]_<<vars, rowVars>>

\* Every step is one of PlayerDB: what it is proved of, the Players over
\* their RowServices have too.
ImplementsPlayerDB == Spec
=============================================================================
