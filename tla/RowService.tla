----------------------------- MODULE RowService ------------------------------
(***************************************************************************)
(* What a player may expect of the database service about one row: its     *)
(* requests take effect one at a time in the order they were accepted, a   *)
(* find answers with the row as the requests before it left it, and every  *)
(* request may fail.  After a failed write, or when somebody else wrote    *)
(* the row, finds may answer with any row until the service starts again.  *)
(*                                                                         *)
(* A request draws a ticket with a higher number than those that wait, and *)
(* the lowest number is served next.                                       *)
(***************************************************************************)
EXTENDS Naturals

CONSTANTS
    Tickets,                \* the ticket numbers
    NoRequest,              \* a ticket nobody waits with
    Rows, Vals,
    Empty, NoField, NoRow,
    Update(_, _)            \* what a request to change a field makes of a row

VARIABLES
    row,        \* the stored row
    pending,    \* ticket -> the request that waits with it, or NoRequest
    unsure,     \* finds may answer with another row
    answer      \* the last answer of the service

vars == <<row, pending, unsure, answer>>

Changes == {"upset", "set", "inc"}
Stored(r) == IF r.op = "upset" THEN r.val ELSE Update(row, r)

Waits(i) == pending[i] # NoRequest
None     == [i \in Tickets |-> NoRequest]

Init == row \in Rows /\ pending = None /\ unsure = FALSE /\ answer.row = NoRow

Submit(i, r) ==
    /\ row # Empty
    /\ \A j \in Tickets : Waits(j) => j < i
    /\ pending' = [pending EXCEPT ![i] = r]
    /\ UNCHANGED <<row, unsure, answer>>

Finish(i) ==
    /\ Waits(i) /\ \A j \in Tickets : Waits(j) => i <= j
    /\ pending' = [pending EXCEPT ![i] = NoRequest]

Find(i) ==
    /\ Finish(i) /\ pending[i].op = "find"
    /\ answer'.how = "ok"
    /\ unsure \/ answer'.row = row
    /\ UNCHANGED <<row, unsure>>

Change(i) ==
    /\ Finish(i) /\ pending[i].op \in Changes
    /\ row' = Stored(pending[i])
    /\ answer'.row = NoRow
    /\ UNCHANGED unsure

\* The request had no effect, or only on what finds answer.
Fail(i) ==
    /\ Finish(i)
    /\ answer'.how = "error"
    /\ unsure' \in {unsure, pending[i].op \in Changes}
    /\ UNCHANGED row

Restart ==
    /\ pending' = None /\ unsure' = FALSE
    /\ UNCHANGED row

\* The login makes the row; others fill it in or write it.
Create == row = Empty /\ row' \in Vals /\ UNCHANGED <<pending, unsure>>
Disturb == unsure' = TRUE /\ row' \in Rows /\ UNCHANGED pending

\* Answers to requests about other rows.
Elsewhere == UNCHANGED <<row, pending, unsure>>

Next ==
    \/ Elsewhere
    \/ \E i \in Tickets :
         \/ Find(i) \/ Change(i) \/ Fail(i)
         \/ Submit(i, [op |-> "find"])
         \/ \E v \in Vals, op \in Changes : Submit(i, [op |-> op, val |-> v])
    \/ Restart \/ Create \/ Disturb

Spec == Init /\ [][Next]_vars
=============================================================================
