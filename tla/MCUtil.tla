-------------------------------- MODULE MCUtil --------------------------------
(***************************************************************************)
(* Days of two hours and months of eight or nine days: enough for each     *)
(* weekday, the beginning and the end of an hour and of a month.           *)
(***************************************************************************)
EXTENDS Util

MCHorizon == [refresh |-> 72, cooldown |-> 9]
MCFirstOf == <<0, 9, 17, 26, 34>>
MCWeights == UNION {[1..n -> 1..3] : n \in 0..3}
MCSlices  == UNION {[1..n -> {"a", "b", "c"}] : n \in 0..4}
=============================================================================
