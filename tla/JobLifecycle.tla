---------------------------- MODULE JobLifecycle ----------------------------
(***************************************************************************)
(* What a client of the install API may rely on: the life of a job as the  *)
(* statuses it is told.  A job is queued, may run, and ends once; success  *)
(* and cancellation are final, a failed or interrupted job may be queued   *)
(* again.  InstallJobs implements this (see InstallJobsProperties).        *)
(***************************************************************************)
CONSTANT Jobs
VARIABLE status

Active == {"queued", "running"}
Retriable == {"failed", "interrupted"}

Init == status = [j \in Jobs |-> "absent"]

Become(j, s) == status' = [status EXCEPT ![j] = s]

Submit(j) == status[j] = "absent" /\ Become(j, "queued")

Take(j) == status[j] = "queued" /\ Become(j, "running")

\* Only a running job succeeds; a queued one can fail, be canceled or be
\* interrupted by the end of the process.
End(j) ==
    \/ status[j] \in Active
       /\ \E s \in Retriable \cup {"canceled"} : Become(j, s)
    \/ status[j] = "running" /\ Become(j, "succeeded")

Resubmit(j) == status[j] \in Retriable /\ Become(j, "queued")

Next == \E j \in Jobs : Submit(j) \/ Take(j) \/ End(j) \/ Resubmit(j)

\* Every job that is submitted ends.
Spec == Init /\ [][Next]_status /\ \A j \in Jobs : WF_status(End(j))
=============================================================================
