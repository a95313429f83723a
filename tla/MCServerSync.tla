---------------------------- MODULE MCServerSync ----------------------------
(***************************************************************************)
(* Instances of ServerSync for model checking.                             *)
(***************************************************************************)
EXTENDS ServerSyncProperties, TLC

\* Servers may be renamed: the model never orders them.
ServerSymmetry == Permutations(Servers)
=============================================================================
