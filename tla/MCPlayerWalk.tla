---------------------------- MODULE MCPlayerWalk ----------------------------
(***************************************************************************)
(* Instances of PlayerWalk for TLC: event ids are alike.                   *)
(***************************************************************************)
EXTENDS PlayerWalk

Symmetry == Permutations(EventIds)
=============================================================================
