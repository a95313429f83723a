--------------------------- MODULE MCSkinWardrobe ---------------------------
(* Instances of SkinWardrobe for TLC.                                       *)
EXTENDS SkinWardrobeProperties, TLC

Symmetry == Permutations(Uploads)
=============================================================================
