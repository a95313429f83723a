--------------------------- MODULE MCInstallJobs ---------------------------
(* Instances of InstallJobs for TLC.  Ids are model values; jobs, task      *)
(* slots and fresh instance ids are interchangeable.                        *)
EXTENDS InstallJobsProperties, TLC

Symmetry == Permutations(Jobs) \cup Permutations(Tasks) \cup Permutations(Fresh)
=============================================================================
