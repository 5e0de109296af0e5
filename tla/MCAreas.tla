------------------------------- MODULE MCAreas -------------------------------
(***************************************************************************)
(* Two shown areas on two real ones, in any state the operators may have   *)
(* left them before, and edited once more while the services run.          *)
(***************************************************************************)
EXTENDS Areas, TLC

\* Bound: reported characters and a second count under way only before the
\* first load; the loads and the counts meet in the row of AreaId alone.
CountsOrLoads == began > 0 => Len(upserts) <= 1 /\ NewCharacterNum = 0

Symmetry == Permutations(ShowAreas)
=============================================================================
