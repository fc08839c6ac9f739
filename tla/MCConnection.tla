---------------------------- MODULE MCConnection ----------------------------
(***************************************************************************)
(* Instances of Connection for TLC. The messages of the pool are alike.    *)
(***************************************************************************)
EXTENDS Connection

Symmetry == Permutations(Messages)

\* Nothing is sent once the connection is closing: the order of the writes is
\* settled while it is open, and it is kept only as long as there was no overflow.
StillOrdered == connectionState = "OPEN" /\ overflow = "no"
=============================================================================
