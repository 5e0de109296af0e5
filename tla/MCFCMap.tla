------------------------------ MODULE MCFCMap ------------------------------
(* Small instances of FCMap. *)
EXTENDS FCMap

FCMapSymmetry == Permutations(Keys) \cup Permutations(Elements) \cup Permutations(Rows)
=============================================================================
