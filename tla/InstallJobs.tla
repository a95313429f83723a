---------------------------- MODULE InstallJobs ----------------------------
(***************************************************************************)
(* The install job runner of the launcher core                             *)
(* (packages/app-lib/src/install: runner.rs, store.rs, recovery.rs).       *)
(*                                                                         *)
(* A job is a row of the install_jobs table.  Commands of the app (start,  *)
(* retry, cancel, dismiss, delete the instance) and the spawned run_job    *)
(* tasks all work on private copies of the row's state between awaits, so  *)
(* each of them is a task whose every database or file-system await is a   *)
(* step of its own.  The app may be closed between any two steps; on the   *)
(* next start recover_interrupted_jobs works through the active rows.      *)
(*                                                                         *)
(* Abstractions.  An install stage is not_installed, installing (both the  *)
(* pack and the Minecraft stage) or installed.  The files and content rows *)
(* of an instance are clean or mixed (partly changed).  Requests fall in   *)
(* four kinds: create (the five requests for a new instance), existing     *)
(* (InstallExistingInstance), pack (InstallPackToExistingInstance) and     *)
(* update (UpdateSharedInstance).  A SQL statement fails only for a reason *)
(* the schema or its WHERE clause gives; Faults names the other failures.  *)
(***************************************************************************)
EXTENDS Naturals, FiniteSets

CONSTANTS
    Jobs,        \* job ids
    Tasks,       \* slots for the async tasks alive at once
    Existing,    \* instances installed before the app was opened
    Fresh,       \* ids for the instances that jobs create
    None,        \* the Option::None of ids and stages
    MaxPermits,  \* MAX_CONCURRENT_INSTALL_JOBS
    MaxCrashes,  \* how often the app is closed: a bound
    MaxRetries,  \* how many retry commands are issued: a bound
    Kinds,       \* the kinds of request issued
    Commands,    \* the commands issued besides start
    Faults,      \* what else may fail
    Serial       \* TRUE: the client issues one command at a time per target

AllKinds == {"create", "existing", "pack", "update"}
AllCommands == {"retry", "cancel", "delete", "dismiss"}
\* Where a failure is possible: the preparation, the lock after it, the work
\* itself, a clean-up before it changed anything, the removal of a directory
\* whose instance row is already deleted, the deletion of an instance by the
\* user, and the statements by which run_job takes a job, reads it again and
\* marks it succeeded.
AllFaults == {"prepare", "lock", "work", "cleanup", "directory", "delete",
              "statement"}

ASSUME ConstantsAssumption ==
    /\ MaxPermits \in Nat \ {0}
    /\ MaxCrashes \in Nat
    /\ MaxRetries \in Nat
    /\ Kinds \subseteq AllKinds
    /\ Commands \subseteq AllCommands
    /\ Faults \subseteq AllFaults
    /\ Serial \in BOOLEAN
    /\ Existing \cap Fresh = {}
    /\ None \notin Existing \cup Fresh \cup Jobs

ASSUME StagesAssumption ==
    None \notin {"not_installed", "installing", "installed"}

ASSUME TasksFinite == IsFiniteSet(Tasks)

VARIABLES
    row,        \* install_jobs: status, kind, instance_id column, state
    dismissed,  \* the jobs whose dismissed column is set
    inst,       \* instances: their install stage, or unborn / gone
    content,    \* the instance's files: clean or mixed
    backup,     \* install_job_backups/<job id>: none, clean or mixed
    task,       \* the async tasks
    app,        \* up, down, or recovering
    crashes, retries

vars == <<row, dismissed, inst, content, backup, task, app, crashes, retries>>

Instances == Existing \cup Fresh
Stages == {"not_installed", "installing", "installed"}
Active == {"queued", "running"}
Finished == {"succeeded", "failed", "interrupted", "canceled"}
Roles == {"idle", "retry", "setup", "run", "stranded", "cancel", "delete",
          "recover"}
Pcs == {"idle", "cleanup", "restoring", "requeue", "prepare", "persist",
        "lock", "finish", "clear", "read", "acquire", "claim", "work",
        "backup", "save", "install", "ended_ok", "ended_err", "succeed",
        "check", "list", "next"}

(***************************************************************************)
(* The part of InstallJobState that control depends on.  The id in target  *)
(* and the id in cleanup are always set and cleared together.              *)
(***************************************************************************)
JobState == [id : Instances \cup {None}, rb : Stages \cup {None},
             staging : BOOLEAN, rberr : BOOLEAN]

NewState(id) == [id |-> id, rb |-> None, staging |-> FALSE, rberr |-> FALSE]

Row == [status : Active \cup Finished \cup {"absent"}, kind : AllKinds,
        col : Instances \cup {None}, js : JobState]

Task == [role : Roles, pc : Pcs, job : Jobs \cup {None}, js : JobState,
         prev : Stages \cup {None}, left : SUBSET Jobs]

IdleTask == [role |-> "idle", pc |-> "idle", job |-> None,
             js |-> NewState(None), prev |-> None, left |-> {}]

Init ==
    /\ row = [j \in Jobs |-> [status |-> "absent", kind |-> "create",
                              col |-> None, js |-> NewState(None)]]
    /\ dismissed = {}
    /\ inst = [i \in Instances |-> IF i \in Existing THEN "installed"
                                                     ELSE "unborn"]
    /\ content = [i \in Instances |-> "clean"]
    /\ backup = [j \in Jobs |-> "none"]
    /\ task = [t \in Tasks |-> IdleTask]
    /\ app = "up"
    /\ crashes = 0
    /\ retries = 0

----------------------------------------------------------------------------
(* The instances table and the job store. *)

Exists(i) == i \in Instances /\ inst[i] \in Stages

\* The foreign key of install_jobs.instance_id, checked by every statement
\* that binds the id directly.
FkOk(id) == id = None \/ Exists(id)

\* (SELECT id FROM instances WHERE id = ?)
Selected(id) == IF Exists(id) THEN id ELSE None

IsActive(j) == row[j].status \in Active

\* The statements of the store, as the row they leave behind.
Updated(j, js) == [row EXCEPT ![j].js = js, ![j].col = Selected(js.id)]

WithStatus(j, status, js) ==
    [row EXCEPT ![j].status = status, ![j].js = js, ![j].col = js.id]

\* Mutants: finish_active without its WHERE clause, or with half of it.
FinishAny(j, status, js) ==
    [row EXCEPT ![j].status = status, ![j].js = js, ![j].col = Selected(js.id)]

FinishRunning(j, status, js) ==
    IF row[j].status = "running" THEN FinishAny(j, status, js) ELSE row

FinishActive(j, status, js) ==
    IF IsActive(j)
    THEN [row EXCEPT ![j].status = status, ![j].js = js,
                     ![j].col = Selected(js.id)]
    ELSE row

\* UPDATE instances SET install_stage = ? WHERE id = ?
WithStage(id, stage) ==
    IF Exists(id) THEN [inst EXCEPT ![id] = stage] ELSE inst

\* DELETE of the instance row; the foreign key sets the jobs' column to NULL.
DropInstance(i) ==
    /\ inst' = [inst EXCEPT ![i] = "gone"]
    /\ content' = [content EXCEPT ![i] = "clean"]
    /\ row' = [j \in Jobs |-> IF row[j].col = i
                              THEN [row[j] EXCEPT !.col = None]
                              ELSE row[j]]

At(t, role, pc) == task[t].role = role /\ task[t].pc = pc

Goto(t, pc) == task' = [task EXCEPT ![t].pc = pc]

GotoWith(t, pc, js) == task' = [task EXCEPT ![t].pc = pc, ![t].js = js]

Return(t) == task' = [task EXCEPT ![t] = IdleTask]

Outcome(fault) == IF fault \in Faults THEN BOOLEAN ELSE {TRUE}

----------------------------------------------------------------------------
(* What a client that waits for its commands can see. *)

CommandRoles == {"retry", "setup", "cancel", "delete"}

CommandOn(j) == \E t \in Tasks : task[t].role \in CommandRoles
                                  /\ task[t].job = j

CommandAt(i) == \E t \in Tasks : task[t].role \in CommandRoles
                                  /\ task[t].js.id = i

\* Somebody is at work on instance i, or is about to be.
Busy(i) == \/ \E j \in Jobs : IsActive(j) /\ row[j].js.id = i
           \/ \E t \in Tasks : task[t].role # "idle" /\ task[t].js.id = i

MayStart(i) == Serial => ~Busy(i)

MayRetry(j) == Serial =>
    /\ \A t \in Tasks : task[t].job # j /\ j \notin task[t].left
    /\ row[j].js.id # None => ~Busy(row[j].js.id)

MayCancel(j) == Serial =>
    /\ ~CommandOn(j)
    /\ row[j].js.id # None => ~CommandAt(row[j].js.id)

MayDelete(i) == Serial => ~CommandAt(i)

----------------------------------------------------------------------------
(* start and retry_job. *)

\* start: store::insert of a queued row with the state of the request.
Start(t, j, kind, id) ==
    /\ app = "up" /\ task[t].role = "idle" /\ row[j].status = "absent"
    /\ IF kind = "create" THEN id = None ELSE Exists(id) /\ MayStart(id)
    /\ row' = [row EXCEPT ![j] = [status |-> "queued", kind |-> kind,
                                  col |-> id, js |-> NewState(id)]]
    /\ task' = [task EXCEPT ![t] = [IdleTask EXCEPT !.role = "setup",
                    !.pc = "prepare", !.job = j, !.js = NewState(id)]]
    /\ UNCHANGED <<dismissed, inst, content, backup, app, crashes, retries>>

\* retry_job up to its first await: the row is read, its status checked, and
\* a rollback that failed before is applied again.
Retry(t, j) ==
    /\ "retry" \in Commands /\ retries < MaxRetries
    /\ app = "up" /\ task[t].role = "idle" /\ MayRetry(j)
    /\ row[j].status \in {"failed", "interrupted"}
    /\ retries' = retries + 1
    /\ task' = [task EXCEPT ![t] = [IdleTask EXCEPT !.role = "retry",
                    !.pc = IF row[j].js.rberr THEN "cleanup" ELSE "requeue",
                    !.job = j, !.js = row[j].js]]
    /\ UNCHANGED <<row, dismissed, inst, content, backup, app, crashes>>

\* retry_job: the state is reset and the row put back to queued, whatever its
\* status is by now.  If the instance is gone the statement breaks the foreign
\* key and the command fails; its clean-up then has nothing left to undo.
Requeue(t) ==
    LET j == task[t].job
        js == NewState(IF row[j].kind = "create" THEN None ELSE task[t].js.id)
    IN  /\ At(t, "retry", "requeue")
        /\ \/ /\ FkOk(js.id)
              /\ row' = WithStatus(j, "queued", js)
              /\ task' = [task EXCEPT ![t].role = "setup",
                                      ![t].pc = "prepare", ![t].js = js]
           \/ ~FkOk(js.id) /\ Return(t) /\ UNCHANGED row
        /\ UNCHANGED <<dismissed, inst, content, backup, app, crashes, retries>>

\* Mutant: set_instance_id comes after attach_pending_shared_instance.
PrepareNewLateId(t) ==
    /\ At(t, "setup", "prepare") /\ row[task[t].job].kind = "create"
    /\ \E i \in Fresh, ok \in Outcome("prepare") :
         /\ inst[i] = "unborn"
         /\ inst' = [inst EXCEPT ![i] = "not_installed"]
         /\ IF ok THEN GotoWith(t, "persist", [task[t].js EXCEPT !.id = i])
                  ELSE Goto(t, "cleanup")
    /\ UNCHANGED <<row, dismissed, content, backup, app, crashes, retries>>

\* prepare_initial_instance for a new instance.  The instance is created in
\* the database before the job row knows its id.  (Ids never run out in the
\* program; in a model that has used up Fresh the creation fails.)
PrepareNew(t) ==
    LET j == task[t].job
    IN  /\ At(t, "setup", "prepare") /\ row[j].kind = "create"
        /\ \/ \E i \in Fresh, ok \in Outcome("prepare") :
                /\ inst[i] = "unborn"
                /\ inst' = [inst EXCEPT ![i] = "not_installed"]
                /\ GotoWith(t, IF ok THEN "persist" ELSE "cleanup",
                            [task[t].js EXCEPT !.id = i])
           \/ /\ FALSE \in Outcome("prepare")
                 \/ \A i \in Fresh : inst[i] # "unborn"
              /\ Goto(t, "cleanup")
              /\ UNCHANGED inst
        /\ UNCHANGED <<row, dismissed, content, backup, app, crashes, retries>>

\* prepare_existing_rollback: the stage to go back to is whatever stage the
\* instance has now.  An unknown or quarantined instance is an error.
PrepareExisting(t) ==
    LET id == task[t].js.id
    IN  /\ At(t, "setup", "prepare") /\ row[task[t].job].kind # "create"
        /\ \/ Exists(id)
              /\ GotoWith(t, "persist", [task[t].js EXCEPT !.rb = inst[id]])
           \/ (~Exists(id) \/ FALSE \in Outcome("prepare"))
              /\ Goto(t, "cleanup")
        /\ UNCHANGED <<row, dismissed, inst, content, backup, app, crashes,
                       retries>>

\* Mutant: the instance is locked before the row knows the rollback state.
PersistForgotten(t) ==
    /\ At(t, "setup", "persist")
    /\ Goto(t, "lock")
    /\ UNCHANGED <<row, dismissed, inst, content, backup, app, crashes, retries>>

\* store::update_state after the preparation: an error once the job has left
\* the active statuses.
Persist(t) ==
    LET j == task[t].job
    IN  /\ At(t, "setup", "persist")
        /\ \/ IsActive(j) /\ row' = Updated(j, task[t].js) /\ Goto(t, "lock")
           \/ ~IsActive(j) /\ Goto(t, "cleanup") /\ UNCHANGED row
        /\ UNCHANGED <<dismissed, inst, content, backup, app, crashes, retries>>

\* lock_install_target, then spawn_job: the command returns and its slot goes
\* on as the spawned run_job task.  The lock can fail before it is set, or
\* with its event after it.
LockAndSpawn(t) ==
    /\ At(t, "setup", "lock")
    /\ \/ /\ inst' = WithStage(task[t].js.id, "installing")
          /\ task' = [task EXCEPT ![t] = [IdleTask EXCEPT !.role = "run",
                          !.pc = "read", !.job = task[t].job]]
       \/ /\ FALSE \in Outcome("lock")
          /\ inst' \in {inst, WithStage(task[t].js.id, "installing")}
          /\ Goto(t, "cleanup")
    /\ UNCHANGED <<row, dismissed, content, backup, app, crashes, retries>>

----------------------------------------------------------------------------
(* run_job. *)

\* run_job: a task whose job is no longer queued has nothing to do.
RunRead(t) ==
    /\ At(t, "run", "read")
    /\ IF row[task[t].job].status = "queued" THEN Goto(t, "acquire")
                                             ELSE Return(t)
    /\ UNCHANGED <<row, dismissed, inst, content, backup, app, crashes, retries>>

PermitPcs == {"claim", "work", "backup", "save", "install", "ended_ok",
              "ended_err", "succeed", "cleanup", "restoring", "finish", "clear"}

HasPermit(t) == task[t].role = "run" /\ task[t].pc \in PermitPcs

Holders == {t \in Tasks : HasPermit(t)}

\* Mutant: the semaphore is not asked.
AcquireFreely(t) ==
    /\ At(t, "run", "acquire")
    /\ IF row[task[t].job].status = "queued"
       THEN GotoWith(t, "claim", row[task[t].job].js)
       ELSE Return(t)
    /\ UNCHANGED <<row, dismissed, inst, content, backup, app, crashes, retries>>

\* install_job_semaphore.acquire, then the second look at the row.
Acquire(t) ==
    /\ At(t, "run", "acquire")
    /\ Cardinality(Holders) < MaxPermits
    /\ IF row[task[t].job].status = "queued"
       THEN GotoWith(t, "claim", row[task[t].job].js)
       ELSE Return(t)
    /\ UNCHANGED <<row, dismissed, inst, content, backup, app, crashes, retries>>

\* run_job returned an error: the permit is gone, and spawn_job hands the job
\* to terminalize_stranded_job.
Strand(t) == task' = [task EXCEPT ![t].role = "stranded", ![t].pc = "check"]

\* update_status_if(Queued, Running): the task that wins owns the run.
Claim(t) ==
    LET j == task[t].job
        js == task[t].js
        queued == row[j].status = "queued"
    IN  /\ At(t, "run", "claim")
        /\ \/ /\ queued /\ FkOk(js.id)
              /\ row' = WithStatus(j, "running", js)
              /\ Goto(t, "work")
           \/ /\ queued /\ (~FkOk(js.id) \/ "statement" \in Faults)
              /\ Strand(t) /\ UNCHANGED row
           \/ ~queued /\ Return(t) /\ UNCHANGED row
        /\ UNCHANGED <<dismissed, inst, content, backup, app, crashes, retries>>

\* run_request for a new instance, up to the installation: progress is saved
\* and install_minecraft_with_reporter marks the instance as installing.
WorkNew(t) ==
    LET js == task[t].js
    IN  /\ At(t, "run", "work") /\ row[task[t].job].kind = "create"
        /\ \/ /\ Exists(js.id) /\ IsActive(task[t].job)
              /\ inst' = WithStage(js.id, "installing")
              /\ task' = [task EXCEPT ![t].pc = "install",
                                      ![t].prev = inst[js.id]]
           \/ ~(Exists(js.id) /\ IsActive(task[t].job))
              /\ Goto(t, "ended_err") /\ UNCHANGED inst
        /\ UNCHANGED <<row, dismissed, content, backup, app, crashes, retries>>

\* Mutant: the lock does not tell which stage the instance had.
WorkExistingBlind(t) ==
    /\ At(t, "run", "work") /\ row[task[t].job].kind # "create"
    /\ Exists(task[t].js.id)
    /\ inst' = WithStage(task[t].js.id, "installing")
    /\ Goto(t, IF row[task[t].job].kind = "update" THEN "backup" ELSE "install")
    /\ UNCHANGED <<row, dismissed, content, backup, app, crashes, retries>>

\* run_request for an existing instance: prepare_existing_rollback (which
\* keeps a rollback that is already there), lock_instance, and for a pack the
\* removal of the old pack's content.
WorkExisting(t) ==
    LET j == task[t].job
        id == task[t].js.id
        js == [task[t].js EXCEPT !.rb = IF @ = None THEN inst[id] ELSE @]
    IN  /\ At(t, "run", "work") /\ row[j].kind # "create"
        /\ \/ /\ Exists(id)
              /\ inst' = WithStage(id, "installing")
              /\ task' = [task EXCEPT
                     ![t].pc = IF row[j].kind = "update" THEN "backup"
                               ELSE IF IsActive(j) THEN "install"
                               ELSE "ended_err",
                     ![t].js = js, ![t].prev = "installing"]
              /\ row' = IF IsActive(j) /\ row[j].kind # "update"
                        THEN Updated(j, js) ELSE row
              /\ content' = IF row[j].kind = "pack"
                            THEN [content EXCEPT ![id] = "mixed"]
                            ELSE content
           \/ ~Exists(id) /\ Goto(t, "ended_err")
              /\ UNCHANGED <<row, inst, content>>
        /\ UNCHANGED <<dismissed, backup, app, crashes, retries>>

\* prepare_shared_instance_update_backup: a copy under the job's own id; a
\* copy that fails is removed again.
Backup(t) ==
    LET j == task[t].job
    IN  /\ At(t, "run", "backup")
        /\ \/ /\ Exists(task[t].js.id)
              /\ backup' = [backup EXCEPT ![j] = content[task[t].js.id]]
              /\ GotoWith(t, "save", [task[t].js EXCEPT !.staging = TRUE])
           \/ /\ ~Exists(task[t].js.id) \/ FALSE \in Outcome("work")
              /\ backup' = [backup EXCEPT ![j] = "none"]
              /\ Goto(t, "ended_err")
        /\ UNCHANGED <<row, dismissed, inst, content, app, crashes, retries>>

\* Mutant: the update begins without saving the staging directory.
SaveBackupForgotten(t) ==
    LET id == task[t].js.id
    IN  /\ At(t, "run", "save")
        /\ content' = IF Exists(id) THEN [content EXCEPT ![id] = "mixed"]
                                    ELSE content
        /\ Goto(t, "install")
        /\ UNCHANGED <<row, dismissed, inst, backup, app, crashes, retries>>

\* store::update_state with the staging directory, then the update begins to
\* change the instance.
SaveBackup(t) ==
    LET j == task[t].job
        id == task[t].js.id
    IN  /\ At(t, "run", "save")
        /\ \/ /\ IsActive(j)
              /\ row' = Updated(j, task[t].js)
              /\ content' = IF Exists(id) THEN [content EXCEPT ![id] = "mixed"]
                                          ELSE content
              /\ Goto(t, "install")
           \/ ~IsActive(j) /\ Goto(t, "ended_err") /\ UNCHANGED <<row, content>>
        /\ UNCHANGED <<dismissed, inst, backup, app, crashes, retries>>

\* The installation ends.  An error, or a progress update refused because the
\* job is no longer active, puts the stage back to what the installer found.
Install(t) ==
    LET id == task[t].js.id
    IN  /\ At(t, "run", "install")
        /\ \/ /\ Goto(t, "ended_ok")
              /\ content' = IF Exists(id) /\ row[task[t].job].kind # "existing"
                            THEN [content EXCEPT ![id] = "clean"]
                            ELSE content
              /\ UNCHANGED inst
           \/ /\ FALSE \in Outcome("work") \/ ~IsActive(task[t].job)
              /\ Goto(t, "ended_err")
              /\ inst' = WithStage(id, task[t].prev)
              /\ UNCHANGED content
        /\ UNCHANGED <<row, dismissed, backup, app, crashes, retries>>

\* run_job after run_request: the row is read again and wins over the local
\* copy; a job that somebody else finished is left alone.  A read that fails is
\* passed over, and the local copy stands.
Reread(t) ==
    LET r == row[task[t].job]
        next == IF task[t].pc = "ended_ok" THEN "succeed" ELSE "cleanup"
    IN  /\ task[t].role = "run" /\ task[t].pc \in {"ended_ok", "ended_err"}
        /\ \/ r.status # "running" /\ Return(t)
           \/ r.status = "running" /\ task[t].pc = "ended_ok"
              /\ GotoWith(t, "succeed", [r.js EXCEPT !.id = task[t].js.id])
           \/ r.status = "running" /\ task[t].pc = "ended_err"
              /\ GotoWith(t, "cleanup", r.js)
           \/ "statement" \in Faults /\ Goto(t, next)
        /\ UNCHANGED <<row, dismissed, inst, content, backup, app, crashes,
                       retries>>

\* Mutant: the backup is cleared although the rollback failed.
AfterFinishAlways(t, js) ==
    IF js.staging
    THEN task' = [task EXCEPT ![t].pc = "clear", ![t].js = js]
    ELSE IF task[t].role = "recover"
    THEN task' = [task EXCEPT ![t].pc = "next", ![t].job = None,
                              ![t].js = NewState(None)]
    ELSE Return(t)

\* The staging directory goes last, when there is one to remove.
AfterFinish(t, js) ==
    IF js.staging /\ ~js.rberr
    THEN task' = [task EXCEPT ![t].pc = "clear", ![t].js = js]
    ELSE IF task[t].role = "recover"
    THEN task' = [task EXCEPT ![t].pc = "next", ![t].job = None,
                              ![t].js = NewState(None)]
    ELSE Return(t)

\* Mutant: complete_success without AND status = 'running'.
SucceedAnyway(t) ==
    LET js == task[t].js
    IN  /\ At(t, "run", "succeed")
        /\ row' = WithStatus(task[t].job, "succeeded", js)
        /\ inst' = WithStage(js.id, "installed")
        /\ AfterFinish(t, js)
        /\ UNCHANGED <<dismissed, content, backup, app, crashes, retries>>

\* store::complete_success: one transaction marks the job succeeded and the
\* instance installed, or neither.
Succeed(t) ==
    LET j == task[t].job
        js == [task[t].js EXCEPT !.rberr = FALSE]
    IN  /\ At(t, "run", "succeed")
        /\ \/ /\ row[j].status = "running" /\ Exists(js.id)
              /\ row' = WithStatus(j, "succeeded", js)
              /\ inst' = WithStage(js.id, "installed")
              /\ AfterFinish(t, js)
           \/ /\ row[j].status = "running"
              /\ ~Exists(js.id) \/ "statement" \in Faults
              /\ Strand(t) /\ UNCHANGED <<row, inst>>
           \/ row[j].status # "running" /\ Return(t) /\ UNCHANGED <<row, inst>>
        /\ UNCHANGED <<dismissed, content, backup, app, crashes, retries>>

\* terminalize_stranded_job: only a job that is still active is rolled back.
CheckStranded(t) ==
    LET r == row[task[t].job]
    IN  /\ At(t, "stranded", "check")
        /\ IF r.status \in Active THEN GotoWith(t, "cleanup", r.js)
                                  ELSE Return(t)
        /\ UNCHANGED <<row, dismissed, inst, content, backup, app, crashes,
                       retries>>

----------------------------------------------------------------------------
(* apply_cleanup and what its callers do with its result. *)

\* clear_deleted_new_instance_id
ClearId(j, js) == IF row[j].kind = "create" THEN [js EXCEPT !.id = None] ELSE js

\* The state apply_cleanup's callers write.  Only terminalize_failed_job
\* clears an older rollback error; recovery and cancel_job meet none.
Undone(t, ok) ==
    LET old == task[t].role \in {"recover", "cancel"} /\ task[t].js.rberr
        js == [task[t].js EXCEPT !.rberr = IF ok THEN old ELSE TRUE]
    IN  IF ok THEN ClearId(task[t].job, js) ELSE js

\* Mutant: the backup is cleared as soon as the rollback is done, before the
\* row is finished.
CleanedUpEarly(t, ok) ==
    LET j == task[t].job
        js == Undone(t, ok)
    IN  /\ IF task[t].role # "retry" THEN GotoWith(t, "finish", js)
           ELSE IF ok THEN Goto(t, "requeue") ELSE Return(t)
        /\ backup' = IF ok THEN [backup EXCEPT ![j] = "none"] ELSE backup

\* apply_cleanup returned.  retry_job goes on (after clearing the staging
\* directory) or gives up; everybody else records the outcome.
CleanedUp(t, ok) ==
    LET j == task[t].job
        js == Undone(t, ok)
    IN  IF task[t].role # "retry"
        THEN GotoWith(t, "finish", js) /\ UNCHANGED backup
        ELSE IF ok
        THEN /\ Goto(t, "requeue")
             /\ backup' = IF task[t].js.staging
                          THEN [backup EXCEPT ![j] = "none"] ELSE backup
        ELSE Return(t) /\ UNCHANGED backup

Undoes(t, kinds) == task[t].pc = "cleanup" /\ row[task[t].job].kind \in kinds

HasBackup(t) == row[task[t].job].kind = "update" /\ task[t].js.staging

\* DeleteNewInstance with an id: remove_instance deletes the row, then the
\* directory, and can fail before the first or between the two.
RemoveNewInstance(t) ==
    LET id == task[t].js.id
    IN  /\ Undoes(t, {"create"}) /\ Exists(id)
        /\ \/ \E ok \in Outcome("directory") :
                DropInstance(id) /\ CleanedUp(t, ok)
           \/ /\ FALSE \in Outcome("cleanup") /\ CleanedUp(t, FALSE)
              /\ UNCHANGED <<row, inst, content>>
        /\ UNCHANGED <<dismissed, app, crashes, retries>>

\* No id, no instance under that id, or no rollback state: nothing to undo.
NothingToUndo(t) ==
    /\ \/ Undoes(t, {"create"}) /\ ~Exists(task[t].js.id)
       \/ Undoes(t, AllKinds \ {"create"}) /\ task[t].js.rb = None
    /\ CleanedUp(t, TRUE)
    /\ UNCHANGED <<row, dismissed, inst, content, app, crashes, retries>>

\* RestoreExistingInstance: the stage, and only the stage.
RestoreStage(t) ==
    LET js == task[t].js
    IN  /\ Undoes(t, AllKinds \ {"create"}) /\ js.rb # None /\ ~HasBackup(t)
        /\ inst' = WithStage(js.id, js.rb)
        /\ CleanedUp(t, TRUE)
        /\ UNCHANGED <<row, dismissed, content, app, crashes, retries>>

\* restore_shared_instance_update first reads the backup, which fails when it
\* is gone, then removes the instance's directory ...
BeginRestore(t) ==
    LET js == task[t].js
        j == task[t].job
    IN  /\ Undoes(t, {"update"}) /\ js.rb # None /\ HasBackup(t)
        /\ \/ /\ backup[j] # "none"
              /\ Goto(t, "restoring")
              /\ content' = IF Exists(js.id)
                            THEN [content EXCEPT ![js.id] = "mixed"]
                            ELSE content
              /\ UNCHANGED backup
           \/ /\ backup[j] = "none" \/ FALSE \in Outcome("cleanup")
              /\ CleanedUp(t, FALSE)
              /\ UNCHANGED content
        /\ UNCHANGED <<row, dismissed, inst, app, crashes, retries>>

\* ... and copies the backup in its place, with the rows and the stage.
EndRestore(t) ==
    LET js == task[t].js
        j == task[t].job
    IN  /\ task[t].pc = "restoring"
        /\ \/ /\ Exists(js.id) /\ backup[j] # "none"
              /\ content' = [content EXCEPT ![js.id] = backup[j]]
              /\ inst' = WithStage(js.id, js.rb)
              /\ CleanedUp(t, TRUE)
           \/ /\ ~Exists(js.id) \/ backup[j] = "none"
                 \/ FALSE \in Outcome("cleanup")
              /\ CleanedUp(t, FALSE)
              /\ UNCHANGED <<content, inst>>
        /\ UNCHANGED <<row, dismissed, app, crashes, retries>>

\* The end of terminalize_failed_job and of recover_interrupted_job: the job
\* is finished only if it is still active.
Terminalize(t, status) ==
    LET j == task[t].job
        js == task[t].js
    IN  /\ row' = FinishActive(j, status, js)
        /\ IF IsActive(j) THEN AfterFinish(t, js)
                          ELSE AfterFinish(t, NewState(None))
        /\ UNCHANGED <<dismissed, inst, content, backup, app, crashes, retries>>

FailJob(t) ==
    /\ task[t].role \in {"setup", "run", "stranded"} /\ task[t].pc = "finish"
    /\ Terminalize(t, "failed")

InterruptJob(t) == At(t, "recover", "finish") /\ Terminalize(t, "interrupted")

\* clear_staging_dir
ClearStaging(t) ==
    /\ task[t].pc = "clear"
    /\ backup' = [backup EXCEPT ![task[t].job] = "none"]
    /\ AfterFinish(t, NewState(None))
    /\ UNCHANGED <<row, dismissed, inst, content, app, crashes, retries>>

----------------------------------------------------------------------------
(* cancel_job, dismiss_job and the deletion of an instance. *)

\* cancel_job up to its first await: only a queued job, with the state it
\* has at this moment.
Cancel(t, j) ==
    /\ "cancel" \in Commands
    /\ app = "up" /\ task[t].role = "idle" /\ MayCancel(j)
    /\ row[j].status = "queued"
    /\ task' = [task EXCEPT ![t] = [IdleTask EXCEPT !.role = "cancel",
                    !.pc = "claim", !.job = j, !.js = row[j].js]]
    /\ UNCHANGED <<row, dismissed, inst, content, backup, app, crashes, retries>>

\* Mutant: the status is not compared again.
ClaimCancelAnyway(t) ==
    /\ At(t, "cancel", "claim") /\ FkOk(task[t].js.id)
    /\ row' = WithStatus(task[t].job, "running", task[t].js)
    /\ Goto(t, "cleanup")
    /\ UNCHANGED <<dismissed, inst, content, backup, app, crashes, retries>>

\* cancel_job takes the job from the run queue by marking it running.
ClaimCancel(t) ==
    LET j == task[t].job
        js == task[t].js
    IN  /\ At(t, "cancel", "claim")
        /\ \/ /\ row[j].status = "queued" /\ FkOk(js.id)
              /\ row' = WithStatus(j, "running", js)
              /\ Goto(t, "cleanup")
           \/ /\ row[j].status # "queued" \/ ~FkOk(js.id)
              /\ Return(t) /\ UNCHANGED row
        /\ UNCHANGED <<dismissed, inst, content, backup, app, crashes, retries>>

\* Mutant: the outcome of the clean-up is ignored.
FinishCancelBlind(t) ==
    /\ At(t, "cancel", "finish") /\ FkOk(task[t].js.id)
    /\ row' = WithStatus(task[t].job, "canceled", task[t].js)
    /\ AfterFinish(t, task[t].js)
    /\ UNCHANGED <<dismissed, inst, content, backup, app, crashes, retries>>

\* cancel_job writes its final status whatever the status is by now.
FinishCancel(t) ==
    LET j == task[t].job
        js == task[t].js
    IN  /\ At(t, "cancel", "finish")
        /\ \/ /\ FkOk(js.id)
              /\ row' = WithStatus(j, IF js.rberr THEN "failed"
                                      ELSE "canceled", js)
              /\ AfterFinish(t, js)
           \/ ~FkOk(js.id) /\ Return(t) /\ UNCHANGED row
        /\ UNCHANGED <<dismissed, inst, content, backup, app, crashes, retries>>

Dismiss(j) ==
    /\ "dismiss" \in Commands /\ app = "up" /\ row[j].status # "absent"
    /\ dismissed' = dismissed \cup {j}
    /\ UNCHANGED <<row, inst, content, backup, task, app, crashes, retries>>

\* instance::remove: cancel_jobs_for_instance_deletion lists the active jobs
\* whose instance_id column names the instance.
Delete(t, i) ==
    /\ "delete" \in Commands
    /\ app = "up" /\ task[t].role = "idle" /\ Exists(i) /\ MayDelete(i)
    /\ task' = [task EXCEPT ![t] = [IdleTask EXCEPT !.role = "delete",
                    !.pc = "list", !.js = NewState(i),
                    !.left = {j \in Jobs : IsActive(j) /\ row[j].col = i}]]
    /\ UNCHANGED <<row, dismissed, inst, content, backup, app, crashes, retries>>

\* Each of them is finished as canceled and dismissed, if it is still active.
\* (The state written with it is never read again.)
CancelForDeletion(t, j) ==
    /\ At(t, "delete", "list") /\ j \in task[t].left
    /\ row' = FinishActive(j, "canceled", row[j].js)
    /\ dismissed' = IF IsActive(j) THEN dismissed \cup {j} ELSE dismissed
    /\ task' = [task EXCEPT ![t].left = @ \ {j}]
    /\ UNCHANGED <<inst, content, backup, app, crashes, retries>>

\* remove_instance
RemoveInstance(t) ==
    LET i == task[t].js.id
    IN  /\ At(t, "delete", "list") /\ task[t].left = {}
        /\ \/ Exists(i) /\ DropInstance(i)
           \/ /\ ~Exists(i) \/ FALSE \in Outcome("delete")
              /\ UNCHANGED <<row, inst, content>>
        /\ Return(t)
        /\ UNCHANGED <<dismissed, backup, app, crashes, retries>>

----------------------------------------------------------------------------
(* Closing the app, and recover_interrupted_jobs on the next start. *)

Crash ==
    /\ app # "down" /\ crashes < MaxCrashes
    /\ app' = "down"
    /\ crashes' = crashes + 1
    /\ task' = [t \in Tasks |-> IdleTask]
    /\ UNCHANGED <<row, dismissed, inst, content, backup, retries>>

\* State::init: recovery runs before the client gets to issue a command.
Boot(t) ==
    /\ app = "down"
    /\ app' = "recovering"
    /\ task' = [task EXCEPT ![t] = [IdleTask EXCEPT !.role = "recover",
                    !.pc = "next", !.left = {j \in Jobs : IsActive(j)}]]
    /\ UNCHANGED <<row, dismissed, inst, content, backup, crashes, retries>>

\* recover_interrupted_job: roll the job back ...
Recover(t, j) ==
    LET js == row[j].js
    IN  /\ At(t, "recover", "next") /\ j \in task[t].left
        /\ FkOk(js.id)
        /\ task' = [task EXCEPT ![t].left = @ \ {j}, ![t].pc = "cleanup",
                                ![t].job = j, ![t].js = js]
        /\ UNCHANGED <<row, dismissed, inst, content, backup, app, crashes,
                       retries>>

\* ... unless the instance it names is gone: then it counts as canceled.
RecoverDeleted(t, j) ==
    LET js == row[j].js
    IN  /\ At(t, "recover", "next") /\ j \in task[t].left
        /\ ~FkOk(js.id)
        /\ row' = FinishActive(j, "canceled", js)
        /\ dismissed' = dismissed \cup {j}
        /\ backup' = IF js.staging THEN [backup EXCEPT ![j] = "none"] ELSE backup
        /\ task' = [task EXCEPT ![t].left = @ \ {j}]
        /\ UNCHANGED <<inst, content, app, crashes, retries>>

Recovered(t) ==
    /\ At(t, "recover", "next") /\ task[t].left = {}
    /\ app' = "up"
    /\ Return(t)
    /\ UNCHANGED <<row, dismissed, inst, content, backup, crashes, retries>>

----------------------------------------------------------------------------

Setup(t) == Requeue(t) \/ PrepareNew(t) \/ PrepareExisting(t) \/ Persist(t)
            \/ LockAndSpawn(t)

Run(t) == \/ RunRead(t) \/ Acquire(t) \/ Claim(t) \/ WorkNew(t)
          \/ WorkExisting(t) \/ Backup(t) \/ SaveBackup(t) \/ Install(t)
          \/ Reread(t) \/ Succeed(t) \/ CheckStranded(t)

Undo(t) == \/ RemoveNewInstance(t) \/ NothingToUndo(t) \/ RestoreStage(t)
           \/ BeginRestore(t) \/ EndRestore(t) \/ FailJob(t)
           \/ InterruptJob(t) \/ ClearStaging(t)

Removal(t) == \/ ClaimCancel(t) \/ FinishCancel(t) \/ RemoveInstance(t)
              \/ \E j \in Jobs : CancelForDeletion(t, j)

Recovery(t) == \/ Recovered(t)
               \/ \E j \in Jobs : Recover(t, j) \/ RecoverDeleted(t, j)

\* What a task does by itself, once a command or a restart has begun it.
Step(t) == Setup(t) \/ Run(t) \/ Undo(t) \/ Removal(t) \/ Recovery(t)

Command(t) ==
    \/ \E j \in Jobs, k \in Kinds, id \in Instances \cup {None} :
          Start(t, j, k, id)
    \/ \E j \in Jobs : Retry(t, j) \/ Cancel(t, j)
    \/ \E i \in Instances : Delete(t, i)

Next == \/ \E t \in Tasks : Step(t) \/ Command(t) \/ Boot(t)
        \/ \E j \in Jobs : Dismiss(j)
        \/ Crash

Spec == Init /\ [][Next]_vars

\* Tokio runs every task that can go on, the semaphore serves its waiters in
\* turn, and a closed app is opened again.  Commands and crashes are not fair.
FairSpec == /\ Spec
            /\ \A t \in Tasks : WF_vars(Step(t)) /\ SF_vars(Acquire(t))
            /\ WF_vars(\E t \in Tasks : Boot(t))
=============================================================================
