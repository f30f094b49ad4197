-------------------------------- MODULE MCStage --------------------------------
(***************************************************************************)
(* A host and two members of one room.                                     *)
(***************************************************************************)
EXTENDS Stage, TLC

Alike == Permutations(Members)
================================================================================
