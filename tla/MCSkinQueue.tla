----------------------------- MODULE MCSkinQueue -----------------------------
(* Instances of SkinQueue for TLC.                                          *)
EXTENDS SkinQueueProperties, TLC

Symmetry == Permutations(Tasks) \cup Permutations(Profiles)
=============================================================================
