------------------------------ MODULE MCTrade ------------------------------
(***************************************************************************)
(* Instances of Trade for TLC: the players are alike, and so are the items *)
(* that are containers and those that are not.                             *)
(***************************************************************************)
EXTENDS Trade, TLC

Symmetry ==
    {f @@ g @@ h : f \in Permutations(Players), g \in Permutations(Containers),
                   h \in Permutations(Items \ Containers)}
=============================================================================
