----------------------------- MODULE MCPlayerDB ------------------------------
(***************************************************************************)
(* Two users who share two pooled objects; one table with many rows, the   *)
(* mail of CollectionType.go, next to the user table.                      *)
(***************************************************************************)
EXTENDS PlayerDB
=============================================================================
