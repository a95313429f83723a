----------------------------- MODULE MCPackSync -----------------------------
(* Instances of PackSync for TLC.                                           *)
EXTENDS PackSyncProperties, TLC

Symmetry == Permutations(Instances) \cup Permutations(Clients)
            \cup Permutations(Workers)
=============================================================================
