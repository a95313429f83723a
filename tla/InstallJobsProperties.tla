----------------------- MODULE InstallJobsProperties -----------------------
(***************************************************************************)
(* What the install job runner promises, about the states and steps of     *)
(* InstallJobs.  Some promises hold however the client overlaps its        *)
(* commands; the others need a client that issues one command at a time    *)
(* per job and instance (Serial), and say so.                              *)
(***************************************************************************)
EXTENDS InstallJobs

\* A task that acts on a job names it, one that puts a rollback back knows
\* the stage to go back to, and so does one that installs.
WellFormed(x) ==
    /\ x.pc \notin {"idle", "list", "next"} => x.job \in Jobs
    /\ x.pc = "restoring" => x.js.rb # None
    /\ x.pc \in {"backup", "save", "install"} => x.prev # None

\* Every variable has the shape the code gives it, and no task gets to a
\* point where it would use an id or a stage it does not have.
TypeOK ==
    /\ row \in [Jobs -> Row]
    /\ dismissed \subseteq Jobs
    /\ inst \in [Instances -> Stages \cup {"unborn", "gone"}]
    /\ content \in [Instances -> {"clean", "mixed"}]
    /\ backup \in [Jobs -> {"none", "clean", "mixed"}]
    /\ task \in [Tasks -> Task]
    /\ \A t \in Tasks : WellFormed(task[t])
    /\ app \in {"up", "down", "recovering"}
    /\ crashes \in 0..MaxCrashes
    /\ retries \in 0..MaxRetries

\* At most MAX_CONCURRENT_INSTALL_JOBS run_job tasks are past the semaphore,
\* whether they claim, work, roll back or clean up.
PermitBound == Cardinality(Holders) <= MaxPermits

\* The jobs somebody will still bring to an end.
Responsible(j) == \E t \in Tasks :
    task[t].role \in {"setup", "run", "stranded", "cancel"} /\ task[t].job = j

\* While the app is up no job is left queued or running without a task that
\* will finish it: every early return and every error path of run_job,
\* start, retry_job and cancel_job leaves a finished row or another task
\* behind.  Needs Serial: see Hazards in the README.
ActiveIsBacked == app = "up" => \A j \in Jobs : IsActive(j) => Responsible(j)

\* While a run_job task changes an instance, its stage keeps launch_minecraft
\* from starting it.  Needs Serial.
LaunchBlockedWhileInstalling ==
    \A t \in Tasks :
        task[t].role = "run" /\ task[t].pc \in {"backup", "save", "install"}
        /\ Exists(task[t].js.id) => inst[task[t].js.id] = "installing"

FailedRollback(i) == \E j \in Jobs : row[j].js.rberr /\ row[j].js.id = i

\* An instance that exists but is not installed is being worked on, or is
\* named by a job whose rollback failed and can be retried: no job ends and
\* leaves an instance behind that nobody will finish or remove.  Needs
\* Serial and deletions that do not fail halfway, and holds until the app has
\* been closed once: an instance may be created and its id not be saved yet.
\* And it holds until the second retry: of two jobs of one instance whose
\* rollbacks have both failed, the later one restores what the first has left
\* behind, so retrying the first and then the second locks the instance again.
NoOrphanInstance ==
    crashes = 0 /\ retries <= 1 => \A i \in Instances :
        Exists(i) /\ inst[i] # "installed" => Busy(i) \/ FailedRollback(i)

\* The same for the lock alone, which a crash cannot leave behind either: an
\* instance is shown as installing only while somebody is at work on it.
\* Holds until the second retry, like NoOrphanInstance.
NoOrphanLock ==
    retries <= 1 => \A i \in Instances :
        inst[i] = "installing" => Busy(i) \/ FailedRollback(i)

HasSavedBackup(j) == row[j].kind = "update" /\ row[j].js.staging
                     /\ Exists(row[j].js.id)

\* The directory a rollback will read is there as long as the saved row of an
\* unfinished shared-instance update names it, wherever the app is closed.
BackupKept ==
    \A j \in Jobs : IsActive(j) /\ HasSavedBackup(j) => backup[j] # "none"

\* A rollback that failed can be repeated: its backup is still there, except
\* while the retry that has just applied it puts the job back to the queue.
\* Holds until the app has been closed once, which may be at that very point.
FailedRollbackRepeatable ==
    crashes = 0 => \A j \in Jobs :
        row[j].js.rberr /\ HasSavedBackup(j) =>
            \/ backup[j] # "none"
            \/ \E t \in Tasks : At(t, "retry", "requeue") /\ task[t].job = j

\* The files of an instance are partly changed only while an update is at
\* work, will be rolled back, or waits for a retry of its rollback.  Holds
\* until the second retry, like NoOrphanInstance.
UpdateIsAtomic ==
    retries <= 1 => \A i \in Instances :
        content[i] = "mixed" => Busy(i) \/ FailedRollback(i)

\* A failed rollback stays on record: the job can be retried, and nothing but
\* the user takes it off the list.
RollbackErrorRetriable ==
    \A j \in Jobs : row[j].js.rberr =>
        row[j].status \in {"failed", "interrupted"} /\ j \notin dismissed

\* A finished job changes its status only by a retry or by the last statement
\* of a cancel that had claimed it: a late progress update, rollback or
\* completion of a worker never revives or overwrites it.  Holds however
\* commands overlap.
LateWorkerLeavesFinishedJob ==
    [][\A j \in Jobs :
          row[j].status \in Finished /\ row'[j].status # row[j].status =>
              \E t \in Tasks : task[t].job = j
                  /\ (At(t, "retry", "requeue") \/ At(t, "cancel", "finish"))]_vars

\* "Only failed or interrupted install jobs can be retried" (retry_job).
OnlyFailedJobsAreRetried ==
    [][\A j \in Jobs :
          row[j].status \notin {"absent", "queued"}
          /\ row'[j].status = "queued"
              => row[j].status \in {"failed", "interrupted"}]_vars

\* The statuses of the rows live the life JobLifecycle describes.  Needs
\* Serial.
Lifecycle == INSTANCE JobLifecycle WITH status <- [j \in Jobs |-> row[j].status]

ImplementsLifecycle == Lifecycle!Spec
=============================================================================
