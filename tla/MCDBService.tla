----------------------------- MODULE MCDBService -----------------------------
(***************************************************************************)
(* Two cached rows, served by two goroutines, and an uncached one.  The    *)
(* login of the first row's user is keyed by the platform id and runs on   *)
(* the other goroutine.                                                    *)
(***************************************************************************)
EXTENDS DBService, TLC

CONSTANTS k1, k2, p1

MCHash     == (k1 :> 0) @@ (k2 :> 1) @@ (p1 :> 1)
MCPlatHash == (k1 :> 1) @@ (k2 :> 0)

\* One user is new or has a row of an older version, the other is up to date.
MCStock == {(k1 :> first) @@ (k2 :> 0) @@ (p1 :> Empty) : first \in {Empty, NoField}}

\* The requests of the first player, those of another goroutine that meet
\* its row, and one of each kind to the uncached table.
MCRequests ==
    {r \in Request :
        CASE r.key = k1 -> r.op \notin {"findMany", "set"}
          [] r.key = k2 -> r.op \in {"findMany", "set"}
          [] OTHER      -> TRUE}
=============================================================================
