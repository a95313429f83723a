--------------------------- MODULE MCGameSessions ---------------------------
(* Instances of GameSessions for TLC.                                       *)
EXTENDS GameSessionsProperties, TLC

Symmetry == Permutations(Games) \cup Permutations(Pids)
            \cup Permutations(Accounts)
=============================================================================
