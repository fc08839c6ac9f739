---------------------------- MODULE MCTaskSystem ----------------------------
(***************************************************************************)
(* Instances of TaskSystem for TLC. Tasks and threads are interchangeable. *)
(***************************************************************************)
EXTENDS TaskSystem, TLC

Symmetry == Permutations(Tasks) \cup Permutations(Threads)
=============================================================================
