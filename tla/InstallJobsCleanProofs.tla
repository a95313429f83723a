----------------------- MODULE InstallJobsCleanProofs -----------------------
(***************************************************************************)
(* Theorems about what the jobs leave behind, for a client that issues one *)
(* command at a time per job and instance (Serial): a rollback that failed *)
(* can be repeated, and an instance that is locked, not installed or       *)
(* partly changed is being worked on or is named by such a rollback.       *)
(***************************************************************************)
EXTENDS InstallJobsLifeProofs

----------------------------------------------------------------------------
(* A rollback that failed can be repeated.                                 *)

Requeues(x, j) == x.role = "retry" /\ x.pc = "requeue" /\ x.job = j

\* What a step leaves to the retry of a rollback that failed.
Repeats(t, j) ==
    row'[j].js.rberr /\ HasSavedBackup(j)' =>
        \/ backup'[j] # "none"
        \/ Requeues(task'[t], j)
        \/ /\ row[j].js.rberr /\ HasSavedBackup(j) /\ backup'[j] = backup[j]
           /\ ~Requeues(task[t], j)

RepeatGood(t) == \A j \in Jobs : Repeats(t, j)

LEMMA StepKeepsRepeatable ==
    ASSUME FailedRollbackRepeatable, NEW t \in Tasks, Others(t), RepeatGood(t),
           crashes' = crashes
    PROVE  FailedRollbackRepeatable'
<1> SUFFICES ASSUME crashes = 0, NEW j \in Jobs, row'[j].js.rberr,
                    HasSavedBackup(j)', backup'[j] = "none"
             PROVE  \E s \in Tasks : Requeues(task'[s], j)
  BY DEF FailedRollbackRepeatable, Requeues, At
<1>1. Repeats(t, j)
  BY DEF RepeatGood
<1>2. CASE Requeues(task'[t], j)
  BY <1>2
<1>3. CASE /\ row[j].js.rberr /\ HasSavedBackup(j) /\ backup'[j] = backup[j]
           /\ ~Requeues(task[t], j)
  <2>1. PICK s \in Tasks : Requeues(task[s], j)
    BY <1>3 DEF FailedRollbackRepeatable, Requeues, At
  <2> QED
    BY <1>3, <2>1 DEF Others
<1> QED
  BY <1>1, <1>2, <1>3 DEF Repeats

\* A row left alone still names the instance it did.
LEMMA KeptRepeats ==
    ASSUME SerialInv, NEW t \in Tasks, Polite(t), NEW j \in Jobs,
           row'[j].js = row[j].js, row'[j].kind = row[j].kind,
           \/ ~row[j].js.rberr
           \/ backup'[j] = backup[j] /\ ~Requeues(task[t], j)
           \/ Requeues(task'[t], j)
    PROVE  Repeats(t, j)
<1>1. row[j].js.id \in Instances \cup {None}
  BY DEF SerialInv, TypeOK, Row, JobState
<1>2. row[j].js.id # None /\ ~Exists(row[j].js.id) =>
        inst'[row[j].js.id] = inst[row[j].js.id]
  BY <1>1, GoneIsGone DEF SerialInv, Separate, IdsBorn
<1>3. None \notin Instances
  BY ConstantsAssumption DEF Instances
<1>4. HasSavedBackup(j)' => HasSavedBackup(j)
  BY <1>1, <1>2, <1>3 DEF HasSavedBackup, Exists
<1> QED
  BY <1>4 DEF Repeats

LEMMA RowsKeptRepeats ==
    ASSUME SerialInv, NEW t \in Tasks, Polite(t), RowsKept, UNCHANGED backup,
           task[t].pc # "requeue"
    PROVE  RepeatGood(t)
BY KeptRepeats DEF RowsKept, RepeatGood, Requeues

\* A statement on the row of the task's job.
LEMMA WriteRepeats ==
    ASSUME SerialInv, NEW t \in Tasks, Polite(t), NEW j \in Jobs,
           NEW status, NEW js, Writes(j, status, js), task[t].job \in {j, None},
           \A k \in Jobs \ {j} : backup'[k] = backup[k],
           \/ ~js.rberr
           \/ row[j].kind # "update"
           \/ ~js.staging
           \/ backup'[j] # "none"
    PROVE  RepeatGood(t)
<1> SUFFICES ASSUME NEW k \in Jobs PROVE Repeats(t, k)
  BY DEF RepeatGood
<1>1. CASE k = j
  BY <1>1 DEF Writes, Repeats, HasSavedBackup
<1>2. CASE k # j
  <2>1. /\ row'[k] = row[k] /\ backup'[k] = backup[k]
        /\ (task[t].job # k)
    BY <1>2, ConstantsAssumption DEF Writes
  <2>2. row'[k].js = row[k].js /\ row'[k].kind = row[k].kind
    BY <2>1
  <2>3. ~Requeues(task[t], k)
    BY <2>1 DEF Requeues
  <2> QED
    BY <2>1, <2>2, <2>3, KeptRepeats
<1> QED
  BY <1>1, <1>2

\* A row whose instance is gone has no backup to keep.
LEMMA GoneRepeats ==
    ASSUME SerialInv, NEW t \in Tasks, Polite(t), NEW j \in Jobs,
           task[t].job = j, UNCHANGED <<inst, backup>>,
           \A k \in Jobs \ {j} : row'[k] = row[k],
           NEW js, row'[j].js = js, ~Exists(js.id)
    PROVE  RepeatGood(t)
<1>1. ~HasSavedBackup(j)'
  BY DEF HasSavedBackup, Exists
<1>2. ASSUME NEW k \in Jobs, k # j PROVE Repeats(t, k)
  BY <1>2, KeptRepeats DEF Requeues
<1> QED
  BY <1>1, <1>2 DEF RepeatGood, Repeats

\* Steps on the job's backup alone.
LEMMA BackupRepeats ==
    ASSUME SerialInv, NEW t \in Tasks, Polite(t), RowsKept,
           task[t].pc # "requeue", task[t].job \in Jobs,
           \A k \in Jobs \ {task[t].job} : backup'[k] = backup[k],
           ~row[task[t].job].js.rberr \/ Requeues(task'[t], task[t].job)
    PROVE  RepeatGood(t)
<1> SUFFICES ASSUME NEW k \in Jobs PROVE Repeats(t, k)
  BY DEF RepeatGood
<1>1. ~Requeues(task[t], k)
  BY DEF Requeues
<1> QED
  BY <1>1, KeptRepeats DEF RowsKept

LEMMA CleanedRepeats ==
    ASSUME SerialInv, NEW t \in Tasks, Polite(t), RowsKept,
           task[t].pc \in {"cleanup", "restoring"}, NEW ok, CleanedTo(t, ok)
    PROVE  RepeatGood(t)
<1>1. CASE UNCHANGED backup
  BY <1>1, RowsKeptRepeats
<1>2. CASE /\ Moves(t, "retry", "requeue", task[t].js)
           /\ \A k \in Jobs \ {task[t].job} : backup'[k] = backup[k]
  <2>1. task[t].job \in Jobs
    BY Acting
  <2>2. Requeues(task'[t], task[t].job)
    BY <1>2 DEF Moves, Requeues
  <2> QED
    BY <1>2, <2>1, <2>2, BackupRepeats
<1> QED
  BY <1>1, <1>2 DEF CleanedTo

LEMMA SetupRepeats ==
    ASSUME SerialInv, IdsInv, ErrorInv, CopyInv, NEW t \in Tasks, Polite(t),
           Setup(t)
    PROVE  RepeatGood(t)
<1>1. CASE Requeue(t)
  <2>1. /\ task[t].role = "retry" /\ task[t].pc = "requeue"
        /\ UNCHANGED <<inst, backup>>
    BY <1>1, RequeueDoes
  <2>2. task[t].job \in Jobs /\ task[t].js = row[task[t].job].js
    BY <2>1, Acting, Copying DEF Copied
  <2>3. CASE UNCHANGED row /\ ~Exists(task[t].js.id)
    <3>1. row'[task[t].job].js = task[t].js
      BY <2>2, <2>3
    <3> QED
      BY <2>1, <2>2, <2>3, <3>1, GoneRepeats
  <2>4. ASSUME NEW js, Writes(task[t].job, "queued", js), js = NewState(js.id)
        PROVE  RepeatGood(t)
    <3>1. ~js.rberr
      BY <2>4 DEF NewState
    <3> QED
      BY <2>1, <2>2, <2>4, <3>1, WriteRepeats
  <2> QED
    BY <1>1, <2>3, <2>4, RequeueDoes
<1>2. CASE PrepareNew(t) \/ PrepareExisting(t) \/ LockAndSpawn(t)
  BY <1>2, PrepareNewDoes, PrepareExistingDoes, LockAndSpawnDoes,
     RowsKeptRepeats DEF RowsKept
<1>3. CASE Persist(t)
  <2>1. task[t].job \in Jobs /\ ~task[t].js.staging
    BY <1>3, PersistDoes, Acting DEF RowFits
  <2>2. CASE UNCHANGED row
    BY <1>3, <2>2, PersistDoes, RowsKeptRepeats DEF RowsKept
  <2> QED
    BY <1>3, <2>1, <2>2, PersistDoes, WriteRepeats
<1> QED
  BY <1>1, <1>2, <1>3 DEF Setup

LEMMA RunRepeats ==
    ASSUME SerialInv, IdsInv, ErrorInv, CopyInv, NEW t \in Tasks, Polite(t),
           Run(t)
    PROVE  RepeatGood(t)
<1>1. CASE \/ RunRead(t) \/ Acquire(t) \/ WorkNew(t) \/ Install(t) \/ Reread(t)
           \/ CheckStranded(t)
  BY <1>1, AcquireDoes, WorkNewDoes, InstallDoes, RereadDoes, CheckStrandedDoes,
     RowsKeptRepeats DEF RowsKept
<1>2. CASE Claim(t)
  <2>1. /\ task[t].role = "run" /\ task[t].pc = "claim" /\ UNCHANGED backup
        /\ UNCHANGED row \/ Writes(task[t].job, "running", task[t].js)
    BY <1>2, ClaimDoes
  <2>2. task[t].job \in Jobs /\ ~task[t].js.staging
    BY <2>1, Acting DEF RowFits
  <2> QED
    BY <2>1, <2>2, RowsKeptRepeats, WriteRepeats DEF RowsKept
<1>3. CASE WorkExisting(t)
  <2>1. /\ task[t].role = "run" /\ task[t].pc = "work" /\ UNCHANGED backup
    BY <1>3, WorkExistingDoes
  <2>2. task[t].job \in Jobs /\ ~task[t].js.staging
    BY <2>1, Acting DEF RowFits
  <2>3. CASE UNCHANGED row
    BY <2>1, <2>3, RowsKeptRepeats DEF RowsKept
  <2>4. ASSUME NEW pc, NEW js, WorkGoesOn(t, pc, js) PROVE RepeatGood(t)
    <3>1. /\ ~js.staging
          /\ UNCHANGED row \/ Writes(task[t].job, row[task[t].job].status, js)
      BY <2>2, <2>4 DEF WorkGoesOn, SameButRb
    <3> QED
      BY <2>1, <2>2, <2>3, <3>1, WriteRepeats
  <2> QED
    BY <1>3, <2>3, <2>4, WorkExistingDoes
<1>4. CASE Backup(t)
  <2>1. /\ task[t].role = "run" /\ task[t].pc = "backup" /\ UNCHANGED row
        /\ \A k \in Jobs \ {task[t].job} : backup'[k] = backup[k]
    BY <1>4, BackupDoes
  <2>2. task[t].job \in Jobs /\ row[task[t].job].status \notin Retriable
    BY <2>1, Acting, Copying DEF Copied, Past, Waiting
  <2>3. ~row[task[t].job].js.rberr
    BY <2>2 DEF ErrorInv, ErrorsRetriable
  <2> QED
    BY <2>1, <2>2, <2>3, BackupRepeats DEF RowsKept
<1>5. CASE SaveBackup(t)
  <2>1. /\ task[t].pc = "save" /\ UNCHANGED backup
        /\ \/ UNCHANGED row
           \/ Writes(task[t].job, row[task[t].job].status, task[t].js)
    BY <1>5, SaveBackupDoes
  <2>2. task[t].job \in Jobs /\ backup[task[t].job] # "none"
    BY <2>1, Acting DEF RowFits
  <2> QED
    BY <2>1, <2>2, RowsKeptRepeats, WriteRepeats DEF RowsKept
<1>6. CASE Succeed(t)
  <2>1. task[t].pc = "succeed" /\ UNCHANGED backup
    BY <1>6, SucceedDoes
  <2>2. task[t].job \in Jobs
    BY <2>1, Acting
  <2>3. CASE UNCHANGED row
    BY <2>1, <2>3, RowsKeptRepeats DEF RowsKept
  <2> QED
    BY <1>6, <2>1, <2>2, <2>3, SucceedDoes, WriteRepeats
<1> QED
  BY <1>1, <1>2, <1>3, <1>4, <1>5, <1>6 DEF Run

LEMMA TerminalizeRepeats ==
    ASSUME SerialInv, IdsInv, ErrorInv, CopyInv, NEW t \in Tasks, Polite(t),
           FailJob(t) \/ InterruptJob(t)
    PROVE  RepeatGood(t)
<1> DEFINE j == task[t].job
<1>1. task[t].pc = "finish" /\ UNCHANGED <<inst, backup>>
  BY TerminalizeDoes
<1>2. CASE UNCHANGED row
  BY <1>1, <1>2, RowsKeptRepeats DEF RowsKept
<1>3. CASE IsActive(j) /\ \E status \in Retriable : Writes(j, status, task[t].js)
  <2>1. PICK status \in Retriable : Writes(j, status, task[t].js)
    BY <1>3
  <2>2. j \in Jobs /\ task[t].role # "retry" /\ Copied(task[t])
        /\ Agrees(task[t], row[j])
    BY <1>1, <1>3, Acting, Copying DEF Copied, IsActive, Placed
  <2>3. /\ task[t].js.staging <=> row[j].js.staging
        /\ row[j].kind = "update" /\ task[t].js.id # None =>
              task[t].js.id = row[j].js.id
    BY <1>1, <2>2 DEF Agrees, Staging
  <2>4. CASE Exists(task[t].js.id)
    <3>1. row[j].kind = "update" /\ task[t].js.staging => HasSavedBackup(j)
      BY <2>3, <2>4, ConstantsAssumption DEF HasSavedBackup, Exists, Instances
    <3>2. row[j].kind = "update" /\ task[t].js.staging => backup[j] # "none"
      BY <1>3, <2>2, <3>1 DEF SerialInv, BackupKept
    <3> QED
      BY <1>1, <2>1, <2>2, <3>2, WriteRepeats
  <2>5. CASE ~Exists(task[t].js.id)
    <3>1. row'[j].js = task[t].js
      BY <2>1 DEF Writes
    <3> QED
      BY <1>1, <2>1, <2>2, <2>5, <3>1, GoneRepeats DEF Writes
  <2> QED
    BY <2>4, <2>5
<1> QED
  BY <1>2, <1>3, TerminalizeDoes

LEMMA UndoRepeats ==
    ASSUME SerialInv, IdsInv, ErrorInv, CopyInv, NEW t \in Tasks, Polite(t),
           Undo(t)
    PROVE  RepeatGood(t)
<1>1. CASE RemoveNewInstance(t)
  <2>1. RowsKept
    BY <1>1, RemoveNewInstanceDoes DEF Drops, RowsKept
  <2> QED
    BY <1>1, <2>1, RemoveNewInstanceDoes, CleanedRepeats
<1>2. CASE NothingToUndo(t)
  BY <1>2, NothingToUndoDoes, CleanedRepeats DEF RowsKept
<1>3. CASE RestoreStage(t)
  BY <1>3, RestoreStageDoes, CleanedRepeats DEF RowsKept
<1>4. CASE BeginRestore(t)
  BY <1>4, BeginRestoreDoes, CleanedRepeats, RowsKeptRepeats DEF RowsKept
<1>5. CASE EndRestore(t)
  BY <1>5, EndRestoreDoes, CleanedRepeats DEF RowsKept
<1>6. CASE ClearStaging(t)
  <2>1. /\ task[t].pc = "clear" /\ UNCHANGED row
        /\ \A k \in Jobs \ {task[t].job} : backup'[k] = backup[k]
    BY <1>6, ClearStagingDoes
  <2>2. task[t].job \in Jobs /\ ~row[task[t].job].js.rberr
    BY <2>1, Acting, Copying DEF Copied
  <2> QED
    BY <2>1, <2>2, BackupRepeats DEF RowsKept
<1> QED
  BY <1>1, <1>2, <1>3, <1>4, <1>5, <1>6, TerminalizeRepeats DEF Undo

LEMMA RemovalRepeats ==
    ASSUME SerialInv, IdsInv, ErrorInv, CopyInv, NEW t \in Tasks, Polite(t),
           Removal(t) \/ \E j \in Jobs : RecoverDeleted(t, j)
    PROVE  RepeatGood(t)
<1>1. CASE ClaimCancel(t) \/ FinishCancel(t)
  <2>1. /\ task[t].role = "cancel" /\ task[t].pc \in {"claim", "finish"}
        /\ UNCHANGED backup
        /\ UNCHANGED row \/ \E status : Writes(task[t].job, status, task[t].js)
    BY <1>1, ClaimCancelDoes, FinishCancelDoes
  <2>2. task[t].job \in Jobs /\ ~task[t].js.staging
    BY <2>1, Acting DEF RowFits
  <2>3. CASE UNCHANGED row
    BY <2>1, <2>3, RowsKeptRepeats DEF RowsKept
  <2> QED
    BY <2>1, <2>2, <2>3, WriteRepeats
<1>2. CASE RemoveInstance(t)
  <2>1. RowsKept /\ UNCHANGED backup /\ task[t].pc # "requeue"
    BY <1>2, RemoveInstanceDoes DEF RowsKept, Drops, RemoveInstance, At
  <2> QED
    BY <2>1, RowsKeptRepeats
<1>3. ASSUME NEW j \in Jobs, CancelForDeletion(t, j) \/ RecoverDeleted(t, j)
      PROVE  RepeatGood(t)
  <2>1. /\ task[t].job = None /\ task[t].pc # "requeue"
        /\ \A k \in Jobs \ {j} : backup'[k] = backup[k]
    BY <1>3, ListedDoes DEF CancelForDeletion, RecoverDeleted, At
  <2>2. CASE UNCHANGED <<row, backup>>
    BY <2>1, <2>2, RowsKeptRepeats DEF RowsKept
  <2>3. CASE IsActive(j) /\ Writes(j, "canceled", row[j].js)
    <3>1. ~row[j].js.rberr
      BY <2>3 DEF ErrorInv, ErrorsRetriable, Retriable, IsActive, Active
    <3> QED
      BY <2>1, <2>3, <3>1, WriteRepeats
  <2> QED
    BY <1>3, <2>2, <2>3, ListedDoes
<1> QED
  BY <1>1, <1>2, <1>3 DEF Removal

LEMMA StepKeepsCrashes ==
    ASSUME NEW t \in Tasks, Step(t)
    PROVE  UNCHANGED <<crashes, retries>>
<1>1. Setup(t) => UNCHANGED <<crashes, retries>>
  BY DEF Setup, Requeue, PrepareNew, PrepareExisting, Persist, LockAndSpawn
<1>2. Run(t) => UNCHANGED <<crashes, retries>>
  BY DEF Run, RunRead, Acquire, Claim, WorkNew, WorkExisting, Backup, SaveBackup,
         Install, Reread, Succeed, CheckStranded
<1>3. Undo(t) => UNCHANGED <<crashes, retries>>
  BY DEF Undo, RemoveNewInstance, NothingToUndo, RestoreStage, BeginRestore,
         EndRestore, FailJob, InterruptJob, Terminalize, ClearStaging
<1>4. Removal(t) \/ Recovery(t) => UNCHANGED <<crashes, retries>>
  BY DEF Removal, ClaimCancel, FinishCancel, RemoveInstance, CancelForDeletion,
         Recovery, Recovered, Recover, RecoverDeleted
<1> QED
  BY <1>1, <1>2, <1>3, <1>4 DEF Step

LEMMA StepRepeats ==
    ASSUME SerialInv, IdsInv, ErrorInv, CopyInv, NEW t \in Tasks, Polite(t),
           Step(t)
    PROVE  RepeatGood(t) \/ Recovered(t) \/ \E j \in Jobs : Recover(t, j)
BY SetupRepeats, RunRepeats, UndoRepeats, RemovalRepeats DEF Step, Recovery

LEMMA IdlingRepeats ==
    ASSUME FailedRollbackRepeatable, crashes' = crashes,
           UNCHANGED <<inst, backup>>,
           \A k \in Jobs : \/ row'[k] = row[k]
                           \/ ~row'[k].js.rberr,
           \A s \in Tasks : task'[s] = task[s] \/ task[s].pc # "requeue"
    PROVE  FailedRollbackRepeatable'
<1> SUFFICES ASSUME crashes = 0, NEW j \in Jobs, row'[j].js.rberr,
                    HasSavedBackup(j)', backup'[j] = "none"
             PROVE  \E s \in Tasks : Requeues(task'[s], j)
  BY DEF FailedRollbackRepeatable, Requeues, At
<1>1. row'[j] = row[j]
  OBVIOUS
<1>2. HasSavedBackup(j) /\ row[j].js.rberr
  BY <1>1 DEF HasSavedBackup, Exists
<1> QED
  BY <1>1, <1>2 DEF FailedRollbackRepeatable, Requeues, At

LEMMA CommandRepeats ==
    ASSUME SerialInv, FailedRollbackRepeatable, NEW t \in Tasks, Command(t)
    PROVE  FailedRollbackRepeatable'
<1>1. /\ task[t].role = "idle" /\ Others(t) /\ UNCHANGED <<inst, backup, crashes>>
  BY DEF Command, Start, Retry, Cancel, Delete, SerialInv, TypeOK, Others
<1>2. \A k \in Jobs : row'[k] = row[k] \/ ~row'[k].js.rberr
  <2>1. ASSUME NEW j \in Jobs, NEW kind, NEW id, Start(t, j, kind, id)
        PROVE  /\ \A k \in Jobs \ {j} : row'[k] = row[k]
               /\ ~row'[j].js.rberr
    BY <2>1 DEF Start, SerialInv, TypeOK, NewState
  <2> QED
    BY <2>1 DEF Command, Retry, Cancel, Delete
<1>3. \A s \in Tasks : task'[s] = task[s] \/ task[s].pc # "requeue"
  <2>1. task[t].pc # "requeue"
    BY <1>1, IdleFacts, ConstantsAssumption DEF SerialInv, TypeOK, WellFormed
  <2> QED
    BY <1>1, <2>1 DEF Others
<1> QED
  BY <1>1, <1>2, <1>3, IdlingRepeats

LEMMA RepeatNext ==
    ASSUME Serial, SerialInv, SerialInv', IdsInv, ErrorInv, CopyInv,
           FailedRollbackRepeatable, [Next]_vars
    PROVE  FailedRollbackRepeatable'
<1>1. CASE UNCHANGED vars
  BY <1>1, IdlingRepeats DEF vars
<1>2. CASE Crash
  <2>1. crashes' # 0
    BY <1>2 DEF Crash, SerialInv, TypeOK
  <2> QED
    BY <2>1 DEF FailedRollbackRepeatable
<1>3. ASSUME NEW j \in Jobs, Dismiss(j) PROVE FailedRollbackRepeatable'
  BY <1>3, IdlingRepeats DEF Dismiss
<1>4. ASSUME NEW t \in Tasks, Boot(t) PROVE FailedRollbackRepeatable'
  <2>1. /\ Others(t) /\ UNCHANGED <<row, inst, backup, crashes>>
        /\ app = "down"
    BY <1>4 DEF Boot, SerialInv, TypeOK, Others
  <2>2. task[t].role \in {"idle", "recover"}
    BY <2>1 DEF SerialInv, RolesFitApp
  <2>3. task[t].pc # "requeue"
    BY <2>2, ConstantsAssumption
    DEF SerialInv, TypeOK, WellFormed, TasksPlaced, Placed, Undoing
  <2> QED
    BY <2>1, <2>3, IdlingRepeats DEF Others
<1>5. ASSUME NEW t \in Tasks, Command(t) PROVE FailedRollbackRepeatable'
  BY <1>5, CommandRepeats
<1>6. ASSUME NEW t \in Tasks, Step(t) PROVE FailedRollbackRepeatable'
  <2>1. CASE Recovered(t) \/ \E j \in Jobs : Recover(t, j)
    <3>1. /\ Others(t) /\ UNCHANGED <<row, inst, backup, crashes>>
          /\ task[t].pc # "requeue"
      BY <2>1 DEF Recovered, Recover, Return, At, SerialInv, TypeOK, Others
    <3> QED
      BY <3>1, IdlingRepeats DEF Others
  <2>2. CASE Good(t) /\ RepeatGood(t)
    <3>1. crashes' = crashes
      BY <1>6, StepKeepsCrashes
    <3> QED
      BY <2>2, <3>1, StepKeepsRepeatable DEF Good, Tame
  <2> QED
    BY <1>6, <2>1, <2>2, StepGood, StepRepeats DEF Good
<1> QED
  BY <1>1, <1>2, <1>3, <1>4, <1>5, <1>6 DEF Next

\* A rollback that failed can be repeated: as long as the app has not been
\* closed, the directory the retry will restore from is there, except while
\* a retry that has just applied it puts its job back to the queue.  No other
\* job, no late worker and no deletion removes it.  (Here and below the lock
\* that follows a preparation is taken not to fail.)
THEOREM FailedRollbacksAreRepeatable ==
    ASSUME Serial, "lock" \notin Faults
    PROVE  Spec => []FailedRollbackRepeatable
<1> USE Serial
<1>1. Init => SerialInv /\ IdsInv /\ ErrorInv /\ CopyInv
  BY SerialInit, IdsInit, ErrorInit, CopyInit
<1>2. Init => FailedRollbackRepeatable
  BY DEF Init, FailedRollbackRepeatable, NewState
<1>3. SerialInv /\ IdsInv /\ ErrorInv /\ CopyInv /\ FailedRollbackRepeatable
      /\ [Next]_vars
        => (SerialInv /\ IdsInv /\ ErrorInv /\ CopyInv /\ FailedRollbackRepeatable)'
  BY SerialNext, IdsNext, ErrorNext, CopyNext, RepeatNext
<1> QED
  BY <1>1, <1>2, <1>3, PTL DEF Spec

----------------------------------------------------------------------------
(* Who works on what, as long as no instance is deleted: the command that   *)
(* prepares a job finds it queued, the worker at it finds it running, and  *)
(* whoever ends it names the instance that its row names.                  *)

Sole(x) ==
    /\ x.role = "setup" => row[x.job].status = "queued"
    /\ x.role = "setup" /\ x.pc = "prepare" /\ row[x.job].kind = "create" =>
          x.js.id = None
    /\ x.role = "run" /\ Past(x) /\ x.pc # "clear" =>
          row[x.job].status = "running"
    /\ x.role \in {"stranded", "recover"} /\ x.pc \in {"cleanup", "restoring"}
       /\ x.js.staging => row[x.job].status \in Active
    /\ x.role = "cancel" /\ Past(x) /\ Exists(row[x.job].js.id) =>
          x.js.id = row[x.job].js.id
    /\ x.pc = "finish" /\ x.js.rberr /\ row[x.job].status \in Active
       /\ row[x.job].js.id # None => x.js.id = row[x.job].js.id

SoleInv ==
    /\ \A t \in Tasks : /\ task[t].role # "delete"
                        /\ retries = 0 => task[t].role # "retry"
                        /\ task[t].job # None => Sole(task[t])
    /\ \A j \in Jobs : row[j].status # "absent" => row[j].kind \in Kinds

SoleGood(t) ==
    /\ task'[t].job # None => Sole(task[t])'
    /\ task[t].role = "stranded" =>
          row'[task[t].job].js.id \in {None, row[task[t].job].js.id}

\* What a task at work knows.
Grounds == SerialInv /\ IdsInv /\ ErrorInv /\ CopyInv

LEMMA Grounded ==
    ASSUME Grounds, SoleInv, NEW t \in Tasks,
           task[t].pc \notin {"idle", "list", "next"}
    PROVE  /\ SerialInv /\ Copied(task[t]) /\ SameId(task[t]) /\ Sole(task[t])
           /\ Unerred(task[t]) /\ RowShaped(task[t].job)
           /\ row[task[t].job].status \in Active => ~row[task[t].job].js.rberr
           /\ row[task[t].job].status = "queued" => ~row[task[t].job].js.staging
           /\ task[t].job \in Jobs /\ task[t].job # None
           /\ task[t].js.id \in Instances \cup {None}
           /\ None \notin Jobs \cup Instances
           /\ RowFits(task[t]) /\ Placed(task[t])
           /\ (task[t].js.id # None => inst[task[t].js.id] # "unborn")
BY Acting, Copying DEF Grounds, SoleInv

\* No other task but a cancel or a worker beside it looks at the job of a task.
LEMMA SoleKept ==
    ASSUME NEW s \in Tasks, NEW j, task[s].job = j, Sole(task[s]),
           task'[s] = task[s], row'[j].kind = row[j].kind,
           \A i \in Instances : i = row[j].js.id /\ inst'[i] \in Stages => Exists(i),
           task[s].role = "setup" => row'[j].status = row[j].status,
           task[s].role = "run" /\ Past(task[s]) /\ task[s].pc # "clear" =>
              row'[j].status = row[j].status,
           task[s].role \in {"stranded", "recover"}
           /\ task[s].pc \in {"cleanup", "restoring"} /\ task[s].js.staging =>
              row'[j].status = row[j].status,
           task[s].role = "cancel" /\ Past(task[s]) =>
              row'[j].js.id \in {None, row[j].js.id},
           None \notin Instances,
           task[s].pc = "finish" /\ row'[j].status \in Active =>
              row[j].status \in Active /\ row'[j].js.id = row[j].js.id
    PROVE  Sole(task[s])'
<1>1. task[s].role = "cancel" /\ Past(task[s]) /\ row'[j].js.id \in Instances
      /\ inst'[row'[j].js.id] \in Stages => task[s].js.id = row'[j].js.id
  BY DEF Sole, Exists
<1> QED
  BY <1>1 DEF Sole, Past, Waiting, Exists

LEMMA StepKeepsSole ==
    ASSUME "delete" \notin Commands, Grounds, SoleInv, NEW t \in Tasks,
           retries' = retries, Good(t), CopyGood(t), SoleGood(t)
    PROVE  SoleInv'
<1> USE DEF Good
<1>1. /\ \A s \in Tasks \ {t} : task'[s] = task[s]
      /\ None \notin Jobs \cup Instances /\ SerialInv /\ CopyInv
      /\ \A s \in Tasks : task[s].job \in Jobs \cup {None}
      /\ \A j \in Jobs : row[j].js.id \in Instances \cup {None}
  BY ConstantsAssumption
  DEF Tame, Others, Grounds, SerialInv, TypeOK, Task, Row, JobState, Instances
<1>2. ASSUME NEW s \in Tasks \ {t}, NEW j \in Jobs, task[s].job = j
      PROVE  Sole(task[s])'
  <2>1. /\ task'[s] = task[s] /\ Sole(task[s]) /\ RowFits(task[s])
        /\ Copied(task[s])
    BY <1>1, <1>2 DEF SoleInv, CopyInv, SerialInv, RowsFit
  <2>2. \A i \in Instances : i = row[j].js.id /\ inst'[i] \in Stages => Exists(i)
    <3>1. \A i \in Instances : i = row[j].js.id => inst[i] # "unborn"
      BY <1>1 DEF SerialInv, Separate, IdsBorn
    <3> QED
      BY <3>1, GoneIsGone DEF Exists
  <2>3. CASE j # task[t].job
    <3>1. task[t].role # "recover" /\ task[t].role # "delete"
      BY <1>1, <1>2, RecoveryAlone DEF SoleInv
    <3>2. /\ row'[j].js = row[j].js /\ row'[j].kind = row[j].kind
          /\ row'[j].status = row[j].status
      BY <2>3, <3>1 DEF Polite, PoliteToJobs, TouchesOther
    <3> QED
      BY <1>1, <1>2, <2>1, <2>2, <3>2, SoleKept
  <2>4. CASE j = task[t].job
    <3>1. Paired(task[s], task[t])
      BY <1>1, <1>2, <2>4 DEF SerialInv, Separate, Company
    <3>2. OwnKept(t, j) /\ Copied(task[t]) /\ RowFits(task[t])
      BY <1>1, <2>4 DEF CopyGood, CopyInv, SerialInv, RowsFit
    <3>3. task[s].role \in {"run", "stranded", "cancel"}
          /\ task[t].role \in {"run", "stranded", "cancel"}
      BY <3>1 DEF Paired
    <3>4. CASE row'[j].js = row[j].js /\ row'[j].status = row[j].status
      BY <1>1, <1>2, <2>1, <2>2, <3>2, <3>4, SoleKept DEF OwnKept
    <3>5. CASE task[s].role = "cancel" /\ task[t].role = "stranded"
      <4>1. row'[j].js.id \in {None, row[j].js.id}
        BY <2>4, <3>5 DEF SoleGood
      <4> QED
        BY <1>1, <1>2, <2>1, <2>2, <3>2, <3>5, <4>1, SoleKept DEF OwnKept
    <3>6. CASE task[s].role = "cancel" /\ task[t].role = "run"
      <4>1. CASE Past(task[s])
        <5>1. ~Past(task[t]) /\ row[j].status # "queued"
          BY <1>2, <2>1, <3>1, <4>1 DEF Paired, RowFits
        <5> QED
          BY <3>2, <3>4, <3>6, <5>1 DEF OwnKept
      <4>2. CASE ~Past(task[s])
        BY <1>1, <1>2, <2>1, <2>2, <3>2, <3>6, <4>2, SoleKept DEF OwnKept, Past
      <4> QED
        BY <4>1, <4>2
    <3>7. CASE task[s].role \in {"run", "stranded"} /\ task[t].role = "cancel"
      <4>1. CASE ~Past(task[t]) /\ row[j].status # "queued"
        BY <3>2, <3>4, <3>7, <4>1 DEF OwnKept
      <4>2. CASE task[s].role = "run" /\ Past(task[s])
        <5>1. ~Past(task[t]) /\ row[j].status # "queued"
          BY <1>2, <2>1, <3>1, <4>2 DEF Paired, RowFits
        <5> QED
          BY <4>1, <5>1
      <4>3. CASE /\ ~(task[s].role = "run" /\ Past(task[s]))
                 /\ Past(task[t]) \/ row[j].status = "queued"
        <5>1. ~row[j].js.staging
          BY <1>1, <2>4, <3>2, <3>7, <4>3
          DEF Copied, SerialInv, QueuedUnstaged
        <5>2. ~(task[s].role = "stranded"
                /\ task[s].pc \in {"cleanup", "restoring"} /\ task[s].js.staging)
          BY <1>2, <2>1, <5>1 DEF Sole, Copied, Agrees, Staging
        <5> QED
          BY <1>1, <1>2, <2>1, <2>2, <3>2, <3>7, <4>3, <5>2, SoleKept
          DEF OwnKept
      <4> QED
        BY <4>1, <4>2, <4>3
    <3> QED
      BY <3>1, <3>5, <3>6, <3>7 DEF Paired
  <2> QED
    BY <2>3, <2>4
<1>3. \A s \in Tasks : task'[s].job # None => Sole(task[s])'
  BY <1>1, <1>2 DEF SoleGood
<1>4. \A s \in Tasks : /\ task'[s].role # "delete"
                       /\ retries' = 0 => task'[s].role # "retry"
  <2>1. /\ task'[t].role # "delete"
        /\ task'[t].role = "retry" => task[t].role = "retry"
    BY DEF Tame, SoleInv
  <2> QED
    BY <1>1, <2>1 DEF SoleInv
<1>5. \A j \in Jobs : row'[j].status # "absent" => row'[j].kind \in Kinds
  <2> SUFFICES ASSUME NEW j \in Jobs, row'[j].status # "absent"
               PROVE  row'[j].kind \in Kinds
    OBVIOUS
  <2>1. row'[j].kind = row[j].kind
    BY DEF Polite, PoliteToJobs, TouchesOwn, TouchesOther
  <2>2. CASE j = task[t].job
    BY <1>1, <2>1, <2>2 DEF SerialInv, RowsFit, RowFits, SoleInv
  <2>3. CASE j # task[t].job
    BY <2>1, <2>3 DEF Polite, PoliteToJobs, TouchesOther, IsActive, Active, SoleInv
  <2> QED
    BY <2>2, <2>3
<1> QED
  BY <1>3, <1>4, <1>5 DEF SoleInv

\* Where a task goes, and what its row then says.
LEMMA MovesSole ==
    ASSUME NEW t \in Tasks, NEW role, NEW pc, NEW js, NEW j, task[t].job = j,
           Moves(t, role, pc, js),
           role = "setup" => row'[j].status = "queued",
           role = "setup" /\ pc = "prepare" /\ row'[j].kind = "create" =>
              js.id = None,
           role = "run" /\ pc \notin {"read", "acquire", "claim", "clear"} =>
              row'[j].status = "running",
           role \in {"stranded", "recover"} /\ pc \in {"cleanup", "restoring"}
           /\ js.staging => row'[j].status \in Active,
           role = "cancel" /\ pc # "claim" /\ row'[j].js.id \in Instances
           /\ inst'[row'[j].js.id] \in Stages => js.id = row'[j].js.id,
           pc = "finish" /\ js.rberr /\ row'[j].status \in Active
           /\ row'[j].js.id # None => js.id = row'[j].js.id
    PROVE  Sole(task[t])'
<1>1. /\ task'[t].role = role /\ task'[t].pc = pc /\ task'[t].js = js
      /\ task'[t].job = j
  BY DEF Moves
<1> QED
  BY <1>1 DEF Sole, Past, Waiting, Exists

\* The task is done with its job, whatever it has written.
LEMMA LeavesSole ==
    ASSUME NEW t \in Tasks, Leaves(t) \/ Idles(t),
           task[t].role = "stranded" =>
              row'[task[t].job].js.id \in {None, row[task[t].job].js.id}
    PROVE  SoleGood(t)
BY DEF Leaves, Idles, Proceeds, SoleGood

LEMMA SetupSole ==
    ASSUME Grounds, SoleInv, NEW t \in Tasks, Setup(t)
    PROVE  SoleGood(t)
<1> USE Grounded
<1>1. CASE Requeue(t)
  <2>1. task[t].role = "retry" /\ task[t].pc = "requeue"
    BY <1>1, RequeueDoes DEF Grounds
  <2>2. CASE Idles(t)
    BY <2>1, <2>2, LeavesSole
  <2>3. ASSUME NEW js, Moves(t, "setup", "prepare", js),
               Writes(task[t].job, "queued", js), js = NewState(js.id),
               js.id = IF row[task[t].job].kind = "create"
                       THEN None ELSE task[t].js.id
        PROVE  SoleGood(t)
    <3>1. /\ row'[task[t].job].status = "queued"
          /\ row'[task[t].job].kind = row[task[t].job].kind
      BY <2>3 DEF Writes
    <3>2. Sole(task[t])'
      BY <2>1, <2>3, <3>1, MovesSole
    <3> QED
      BY <2>1, <3>2 DEF SoleGood
  <2> QED
    BY <1>1, <2>2, <2>3, RequeueDoes DEF Grounds
<1>2. ASSUME task[t].role = "setup", NEW pc \in {"persist", "lock", "cleanup"},
             NEW js, Moves(t, "setup", pc, js),
             row'[task[t].job].status = row[task[t].job].status
      PROVE  SoleGood(t)
  <2>1. task[t].pc \notin {"idle", "list", "next"}
    BY <1>2 DEF Grounds, SerialInv, TasksPlaced, Placed, Undoing
  <2>2. row[task[t].job].status = "queued"
    BY <1>2, <2>1 DEF Sole
  <2>3. Sole(task[t])'
    BY <1>2, <2>1, <2>2, MovesSole
  <2> QED
    BY <1>2, <2>3 DEF SoleGood
<1>3. CASE PrepareNew(t)
  BY <1>2, <1>3, PrepareNewDoes DEF Grounds
<1>4. CASE PrepareExisting(t)
  BY <1>2, <1>4, PrepareExistingDoes DEF Grounds
<1>5. CASE Persist(t)
  BY <1>2, <1>5, PersistDoes DEF Grounds, Writes
<1>6. CASE LockAndSpawn(t)
  <2>1. /\ task[t].role = "setup" /\ task'[t].role = "run" /\ task'[t].pc = "read"
    BY <1>6, LockSpawns DEF Grounds
  <2> QED
    BY <2>1 DEF SoleGood, Sole, Past, Waiting
<1> QED
  BY <1>1, <1>3, <1>4, <1>5, <1>6 DEF Setup

LEMMA RunSole ==
    ASSUME Grounds, SoleInv, NEW t \in Tasks, Run(t)
    PROVE  SoleGood(t)
<1> USE Grounded
<1>1. CASE RunRead(t) \/ Acquire(t)
  <2>1. /\ task[t].role = "run" /\ task[t].pc \in {"read", "acquire"}
        /\ \/ Idles(t)
           \/ \E pc \in {"acquire", "claim"} : \E js : Moves(t, "run", pc, js)
    BY <1>1, AcquireDoes DEF Grounds
  <2>2. ASSUME NEW pc \in {"acquire", "claim"}, NEW js, Moves(t, "run", pc, js)
        PROVE  SoleGood(t)
    BY <2>1, <2>2, MovesSole DEF SoleGood
  <2> QED
    BY <2>1, <2>2, LeavesSole
<1>2. CASE Claim(t)
  <2>1. task[t].role = "run" /\ task[t].pc = "claim"
    BY <1>2, ClaimDoes DEF Grounds
  <2>2. CASE Idles(t)
    BY <2>1, <2>2, LeavesSole
  <2>3. CASE Moves(t, "stranded", "check", task[t].js)
    BY <2>1, <2>3, MovesSole DEF SoleGood
  <2>4. CASE /\ Writes(task[t].job, "running", task[t].js)
             /\ Moves(t, "run", "work", task[t].js)
    <3>1. row'[task[t].job].status = "running"
      BY <2>4 DEF Writes
    <3> QED
      BY <2>1, <2>4, <3>1, MovesSole DEF SoleGood
  <2> QED
    BY <1>2, <2>2, <2>3, <2>4, ClaimDoes DEF Grounds
<1>3. ASSUME task[t].role = "run",
             task[t].pc \in {"work", "backup", "save", "install", "ended_ok",
                             "ended_err"},
             NEW pc \in {"backup", "save", "install", "ended_ok", "ended_err",
                         "succeed", "cleanup"},
             NEW js, Moves(t, "run", pc, js),
             row'[task[t].job].status = row[task[t].job].status
      PROVE  SoleGood(t)
  <2>1. row[task[t].job].status = "running"
    BY <1>3 DEF Sole, Past, Waiting
  <2>2. Sole(task[t])'
    BY <1>3, <2>1, MovesSole
  <2> QED
    BY <1>3, <2>2 DEF SoleGood
<1>4. CASE WorkNew(t)
  BY <1>3, <1>4, WorkNewDoes DEF Grounds
<1>5. CASE WorkExisting(t)
  <2>1. /\ task[t].role = "run" /\ task[t].pc = "work"
    BY <1>5, WorkExistingDoes DEF Grounds
  <2>2. ASSUME NEW pc, NEW js, WorkGoesOn(t, pc, js) PROVE SoleGood(t)
    <3>1. /\ Moves(t, "run", pc, js) /\ pc \in {"backup", "install", "ended_err"}
          /\ row'[task[t].job].status = row[task[t].job].status
      BY <2>2 DEF WorkGoesOn, Writes
    <3> QED
      BY <1>3, <2>1, <3>1
  <2> QED
    BY <1>3, <1>5, <2>1, <2>2, WorkExistingDoes DEF Grounds
<1>6. CASE Backup(t)
  BY <1>3, <1>6, BackupDoes DEF Grounds
<1>7. CASE SaveBackup(t)
  BY <1>3, <1>7, SaveBackupDoes DEF Grounds, Writes
<1>8. CASE Install(t)
  BY <1>3, <1>8, InstallDoes DEF Grounds
<1>9. CASE Reread(t)
  <2>1. /\ task[t].role = "run" /\ task[t].pc \in {"ended_ok", "ended_err"}
    BY <1>9, RereadDoes DEF Grounds
  <2>2. CASE Idles(t)
    BY <2>1, <2>2, LeavesSole
  <2> QED
    BY <1>3, <1>9, <2>1, <2>2, RereadDoes DEF Grounds
<1>10. CASE Succeed(t)
  <2>1. task[t].role = "run" /\ task[t].pc = "succeed"
    BY <1>10, SucceedDoes DEF Grounds
  <2>2. CASE Idles(t)
    BY <2>1, <2>2, LeavesSole
  <2>3. CASE Moves(t, "stranded", "check", task[t].js)
    BY <2>1, <2>3, MovesSole DEF SoleGood
  <2>4. ASSUME NEW js, Moves(t, "run", "clear", js) PROVE SoleGood(t)
    BY <2>1, <2>4, MovesSole DEF SoleGood
  <2> QED
    BY <1>10, <2>2, <2>3, <2>4, SucceedDoes DEF Grounds
<1>11. CASE CheckStranded(t)
  <2>1. task[t].role = "stranded" /\ task[t].pc = "check" /\ UNCHANGED row
    BY <1>11, CheckStrandedDoes DEF Grounds
  <2>2. CASE Idles(t)
    BY <2>1, <2>2, LeavesSole
  <2>3. CASE /\ IsActive(task[t].job)
             /\ Moves(t, "stranded", "cleanup", row[task[t].job].js)
    BY <2>1, <2>3, MovesSole DEF SoleGood, IsActive
  <2> QED
    BY <1>11, <2>2, <2>3, CheckStrandedDoes DEF Grounds
<1> QED
  BY <1>1, <1>2, <1>4, <1>5, <1>6, <1>7, <1>8, <1>9, <1>10, <1>11 DEF Run

\* A clean-up knows the instance that the row names.
LEMMA CleansOwn ==
    ASSUME Grounds, SoleInv, NEW t \in Tasks,
           task[t].pc \in {"cleanup", "restoring"}, task[t].role # "retry",
           row[task[t].job].status \in Active, row[task[t].job].js.id # None
    PROVE  task[t].js.id = row[task[t].job].js.id
<1> USE Grounded
<1>1. task[t].role \in {"setup", "run", "stranded", "cancel", "recover"}
  BY DEF Placed, SerialInv, TypeOK, Task, Roles
<1> QED
  BY <1>1 DEF Copied, Agrees, SameId

LEMMA CleanedSole ==
    ASSUME Grounds, SoleInv, NEW t \in Tasks, Polite(t), RowsKept,
           task[t].pc \in {"cleanup", "restoring"}, NEW ok \in BOOLEAN,
           CleanedTo(t, ok),
           ok /\ row[task[t].job].kind = "create" =>
              \A i \in Instances : i = task[t].js.id => inst'[i] \notin Stages
    PROVE  SoleGood(t)
<1> USE Grounded
<1> DEFINE j == task[t].job
<1>1. /\ row'[j].js = row[j].js /\ row'[j].status = row[j].status
      /\ row'[j].kind = row[j].kind
  BY DEF RowsKept
<1>2. CASE Idles(t) \/ Moves(t, "retry", "requeue", task[t].js)
  BY <1>1, <1>2, LeavesSole, MovesSole DEF SoleGood
<1>3. ASSUME NEW js, task[t].role # "retry", Moves(t, task[t].role, "finish", js),
             js.id = IF ok /\ row[j].kind = "create" THEN None ELSE task[t].js.id,
             ok /\ ~task[t].js.rberr => ~js.rberr
      PROVE  SoleGood(t)
  <2>1. ~task[t].js.rberr
    BY <1>3 DEF Copied
  <2>2. js.rberr /\ row'[j].status \in Active /\ row'[j].js.id # None =>
          js.id = row'[j].js.id
    BY <1>1, <1>3, <2>1, CleansOwn
  <2>3. ASSUME task[t].role = "cancel", NEW i \in Instances, i = row[j].js.id,
               inst'[i] \in Stages
        PROVE  js.id = i
    <3>1. inst[i] # "unborn"
      BY <2>3 DEF SerialInv, Separate, IdsBorn
    <3>2. Exists(row[j].js.id)
      BY <2>3, <3>1, GoneIsGone DEF Exists
    <3>3. task[t].js.id = row[j].js.id
      BY <2>3, <3>2 DEF Sole, Past
    <3> QED
      BY <1>3, <2>3, <3>3
  <2>4. /\ task[t].role = "setup" => row'[j].status = "queued"
        /\ task[t].role = "run" => row'[j].status = "running"
    BY <1>1 DEF Sole, Past, Waiting
  <2>5. Sole(task[t])'
    BY <1>1, <1>3, <2>2, <2>3, <2>4, MovesSole
  <2> QED
    BY <1>1, <2>5 DEF SoleGood
<1> QED
  BY <1>2, <1>3 DEF CleanedTo

LEMMA UndoSole ==
    ASSUME Grounds, SoleInv, NEW t \in Tasks, Polite(t), Undo(t)
    PROVE  SoleGood(t)
<1> USE Grounded
<1>1. CASE RemoveNewInstance(t)
  <2>1. /\ task[t].pc = "cleanup" /\ Exists(task[t].js.id)
    BY <1>1, RemoveNewInstanceDoes DEF Grounds
  <2>2. PICK ok \in BOOLEAN : /\ CleanedTo(t, ok)
                              /\ \/ Drops(task[t].js.id)
                                 \/ ~ok /\ UNCHANGED <<row, inst, content>>
    BY <1>1, RemoveNewInstanceDoes DEF Grounds
  <2>3. RowsKept /\ (ok => inst'[task[t].js.id] \notin Stages)
    BY <2>2 DEF RowsKept, Drops, Stages
  <2> QED
    BY <2>1, <2>2, <2>3, CleanedSole
<1>2. CASE NothingToUndo(t)
  <2>1. /\ task[t].pc = "cleanup" /\ CleanedTo(t, TRUE)
        /\ UNCHANGED <<row, inst>>
        /\ row[task[t].job].kind = "create" => ~Exists(task[t].js.id)
    BY <1>2, NothingToUndoDoes DEF Grounds
  <2> QED
    BY <2>1, CleanedSole DEF RowsKept, Exists
<1>3. CASE RestoreStage(t)
  BY <1>3, RestoreStageDoes, CleanedSole DEF Grounds, RowsKept
<1>4. CASE BeginRestore(t)
  <2>1. /\ task[t].pc = "cleanup" /\ UNCHANGED <<row, inst>>
        /\ row[task[t].job].kind = "update"
    BY <1>4, BeginRestoreDoes DEF Grounds
  <2>2. CASE CleanedTo(t, FALSE)
    BY <2>1, <2>2, CleanedSole DEF RowsKept
  <2>3. CASE Moves(t, task[t].role, "restoring", task[t].js)
    <3>1. /\ task[t].role = "setup" => row'[task[t].job].status = "queued"
          /\ task[t].role = "run" => row'[task[t].job].status = "running"
          /\ task[t].role \in {"stranded", "recover"} /\ task[t].js.staging =>
                row'[task[t].job].status \in Active
          /\ task[t].role = "cancel" /\ Exists(row[task[t].job].js.id) =>
                task[t].js.id = row[task[t].job].js.id
      BY <2>1 DEF Sole, Past, Waiting
    <3>2. Sole(task[t])'
      BY <2>1, <2>3, <3>1, MovesSole DEF Exists
    <3> QED
      BY <2>1, <3>2 DEF SoleGood
  <2> QED
    BY <1>4, <2>2, <2>3, BeginRestoreDoes DEF Grounds
<1>5. CASE EndRestore(t)
  <2>1. /\ task[t].pc = "restoring" /\ UNCHANGED row
        /\ CleanedTo(t, TRUE) \/ CleanedTo(t, FALSE)
    BY <1>5, EndRestoreDoes DEF Grounds
  <2>2. row[task[t].job].kind # "create"
    BY <2>1 DEF Copied, Shaped
  <2> QED
    BY <2>1, <2>2, CleanedSole DEF RowsKept
<1>6. CASE FailJob(t) \/ InterruptJob(t)
  <2>1. task[t].pc = "finish"
        /\ task[t].role \in {"setup", "run", "stranded", "recover"}
    BY <1>6, TerminalizeDoes DEF Grounds
  <2>2. CASE UNCHANGED row /\ Leaves(t)
    BY <2>1, <2>2, LeavesSole
  <2>3. ASSUME IsActive(task[t].job), NEW status,
               Writes(task[t].job, status, task[t].js),
               \/ Leaves(t)
               \/ task[t].js.staging /\ Moves(t, task[t].role, "clear", task[t].js)
        PROVE  SoleGood(t)
    <3>1. task[t].role = "stranded" =>
            row'[task[t].job].js.id \in {None, row[task[t].job].js.id}
      BY <2>1, <2>3 DEF Writes, Copied, Agrees, IsActive
    <3>2. CASE Leaves(t)
      BY <3>1, <3>2, LeavesSole
    <3>3. CASE task[t].js.staging /\ Moves(t, task[t].role, "clear", task[t].js)
      <4>1. task[t].role # "setup"
        BY <2>1, <3>3 DEF RowFits
      <4>2. task[t].role # "cancel"
        BY <2>1
      <4>3. Sole(task[t])'
        BY <2>1, <3>3, <4>1, <4>2, MovesSole
      <4> QED
        BY <3>1, <4>3 DEF SoleGood
    <3> QED
      BY <2>3, <3>2, <3>3
  <2> QED
    BY <1>6, <2>2, <2>3, TerminalizeDoes DEF Grounds
<1>7. CASE ClearStaging(t)
  BY <1>7, ClearStagingDoes, LeavesSole DEF Grounds
<1> QED
  BY <1>1, <1>2, <1>3, <1>4, <1>5, <1>6, <1>7 DEF Undo

LEMMA RemovalSole ==
    ASSUME Grounds, SoleInv, NEW t \in Tasks,
           Removal(t) \/ \E j \in Jobs : RecoverDeleted(t, j)
    PROVE  SoleGood(t)
<1> USE Grounded
<1>1. CASE ClaimCancel(t)
  <2>1. task[t].role = "cancel" /\ task[t].pc = "claim"
    BY <1>1, ClaimCancelDoes DEF Grounds
  <2>2. CASE Idles(t)
    BY <2>1, <2>2, LeavesSole
  <2>3. CASE /\ Writes(task[t].job, "running", task[t].js)
             /\ Moves(t, "cancel", "cleanup", task[t].js)
    <3>1. row'[task[t].job].js = task[t].js
      BY <2>3 DEF Writes
    <3> QED
      BY <2>1, <2>3, <3>1, MovesSole DEF SoleGood
  <2> QED
    BY <1>1, <2>2, <2>3, ClaimCancelDoes DEF Grounds
<1>2. CASE FinishCancel(t)
  BY <1>2, FinishCancelDoes, LeavesSole DEF Grounds
<1>3. CASE RemoveInstance(t)
  BY <1>3, RemoveInstanceDoes, LeavesSole DEF Grounds
<1>4. ASSUME NEW j \in Jobs, CancelForDeletion(t, j) \/ RecoverDeleted(t, j)
      PROVE  SoleGood(t)
  <2>1. task'[t].job = None /\ task[t].role # "stranded"
    BY <1>4, ListedDoes DEF Grounds, CancelForDeletion, RecoverDeleted, At
  <2> QED
    BY <2>1 DEF SoleGood
<1> QED
  BY <1>1, <1>2, <1>3, <1>4 DEF Removal

LEMMA StepSole ==
    ASSUME Grounds, SoleInv, NEW t \in Tasks, Polite(t), Step(t)
    PROVE  SoleGood(t) \/ Recovered(t) \/ \E j \in Jobs : Recover(t, j)
BY SetupSole, RunSole, UndoSole, RemovalSole DEF Step, Recovery

\* A command begins, or recovery goes on to the next job.
LEMMA BeginSole ==
    ASSUME SerialInv, SoleInv, NEW t \in Tasks, Others(t), UNCHANGED inst,
           \A k \in Jobs :
               \/ row'[k] = row[k]
               \/ row[k].status = "absent" /\ row'[k].kind \in Kinds,
           task'[t].role # "delete",
           task'[t].role = "retry" => retries' # 0,
           retries' = 0 => retries = 0,
           task'[t].job # None => Sole(task[t])'
    PROVE  SoleInv'
<1>1. ASSUME NEW s \in Tasks \ {t}, task[s].job # None
      PROVE  Sole(task[s])'
  <2>1. /\ task[s].job \in Jobs /\ row[task[s].job].status # "absent"
        /\ Sole(task[s]) /\ task'[s] = task[s]
    BY <1>1, WaitsOrNot DEF Others, SoleInv
  <2>2. row'[task[s].job] = row[task[s].job]
    BY <2>1
  <2> QED
    BY <2>1, <2>2 DEF Sole, Exists
<1>2. \A s \in Tasks : task'[s].job # None => Sole(task[s])'
  BY <1>1 DEF Others
<1> QED
  BY <1>2 DEF SoleInv, Others

LEMMA IdlingSole ==
    ASSUME SoleInv, UNCHANGED <<row, inst>>, retries' = retries,
           \A s \in Tasks : task'[s] \in {task[s], IdleTask}
    PROVE  SoleInv'
<1>1. ASSUME NEW s \in Tasks, task'[s].job # None
      PROVE  Sole(task[s])'
  <2>1. task'[s] = task[s]
    BY <1>1 DEF IdleTask
  <2> QED
    BY <1>1, <2>1 DEF SoleInv, Sole, Exists
<1>2. \A s \in Tasks : task'[s].role \in {task[s].role, "idle"}
  BY DEF IdleTask
<1> QED
  BY <1>1, <1>2 DEF SoleInv

LEMMA CommandSole ==
    ASSUME "delete" \notin Commands, SerialInv, SoleInv, NEW t \in Tasks, Command(t)
    PROVE  SoleInv'
<1>1. ASSUME NEW j \in Jobs, NEW kind \in Kinds, NEW id \in Instances \cup {None},
             Start(t, j, kind, id)
      PROVE  SoleInv'
  <2>1. /\ row[j].status = "absent" /\ row'[j].kind = kind
        /\ row'[j].status = "queued" /\ UNCHANGED <<inst, retries>>
        /\ \A k \in Jobs \ {j} : row'[k] = row[k]
        /\ kind = "create" => id = None
    BY <1>1 DEF Start, SerialInv, TypeOK
  <2>2. /\ Others(t) /\ task'[t].role = "setup" /\ task'[t].pc = "prepare"
        /\ task'[t].job = j /\ task'[t].js = NewState(id)
    BY <1>1 DEF Start, SerialInv, TypeOK, Others, IdleTask, Task
  <2>3. NewState(id).id = id
    BY DEF NewState
  <2>4. Sole(task[t])'
    BY <2>1, <2>2, <2>3 DEF Sole
  <2> QED
    BY <2>1, <2>2, <2>4, BeginSole
<1>2. ASSUME NEW j \in Jobs, Retry(t, j) PROVE SoleInv'
  <2>1. /\ Others(t) /\ task'[t].role = "retry"
        /\ task'[t].pc \in {"cleanup", "requeue"}
        /\ UNCHANGED <<row, inst>> /\ retries' = retries + 1 /\ retries \in Nat
    BY <1>2 DEF Retry, SerialInv, TypeOK, Others, IdleTask, Task
  <2>2. Sole(task[t])'
    BY <2>1 DEF Sole
  <2> QED
    BY <2>1, <2>2, BeginSole
<1>3. ASSUME NEW j \in Jobs, Cancel(t, j) PROVE SoleInv'
  <2>1. /\ Others(t) /\ task'[t].role = "cancel" /\ task'[t].pc = "claim"
        /\ UNCHANGED <<row, inst, retries>>
    BY <1>3 DEF Cancel, SerialInv, TypeOK, Others, IdleTask, Task
  <2>2. Sole(task[t])'
    BY <2>1 DEF Sole, Past
  <2> QED
    BY <2>1, <2>2, BeginSole
<1> QED
  BY <1>1, <1>2, <1>3 DEF Command, Delete

LEMMA SoleNext ==
    ASSUME "delete" \notin Commands, Grounds, SoleInv, [Next]_vars
    PROVE  SoleInv'
<1> SerialInv
  BY DEF Grounds
<1>1. CASE UNCHANGED vars
  BY <1>1, IdlingSole DEF vars
<1>2. CASE Crash
  BY <1>2, IdlingSole DEF Crash
<1>3. ASSUME NEW j \in Jobs, Dismiss(j) PROVE SoleInv'
  BY <1>3, IdlingSole DEF Dismiss
<1>4. ASSUME NEW t \in Tasks, Boot(t) PROVE SoleInv'
  <2>1. /\ Others(t) /\ task'[t].job = None /\ UNCHANGED <<row, inst, retries>>
        /\ task'[t].role = "recover"
    BY <1>4 DEF Boot, SerialInv, TypeOK, Others, IdleTask, Task
  <2> QED
    BY <2>1, BeginSole
<1>5. ASSUME NEW t \in Tasks, Command(t) PROVE SoleInv'
  BY <1>5, CommandSole
<1>6. ASSUME NEW t \in Tasks, Step(t) PROVE SoleInv'
  <2>1. CASE Recovered(t)
    BY <2>1, IdlingSole DEF Recovered, Return, SerialInv, TypeOK
  <2>2. ASSUME NEW j \in Jobs, Recover(t, j) PROVE SoleInv'
    <3>1. /\ Others(t) /\ task'[t].role = "recover" /\ task'[t].pc = "cleanup"
          /\ task'[t].job = j /\ UNCHANGED <<row, inst, retries>>
          /\ task[t].role = "recover" /\ j \in task[t].left
      BY <2>2 DEF Recover, At, SerialInv, TypeOK, Others, Task
    <3>2. IsActive(j)
      BY <3>1 DEF SerialInv, LeftToRecover
    <3>3. Sole(task[t])'
      BY <3>1, <3>2 DEF Sole, IsActive
    <3> QED
      BY <3>1, <3>3, BeginSole
  <2>3. CASE Good(t) /\ SoleGood(t)
    <3>1. Recovered(t) \/ (\E j \in Jobs : Recover(t, j)) \/ CopyGood(t)
      BY <1>6, StepCopies DEF Grounds
    <3>2. retries' = retries
      BY <1>6, StepKeepsCrashes
    <3> QED
      BY <2>1, <2>2, <2>3, <3>1, <3>2, StepKeepsSole
  <2> QED
    BY <1>6, <2>1, <2>2, <2>3, StepGood, StepSole DEF Good
<1> QED
  BY <1>1, <1>2, <1>3, <1>4, <1>5, <1>6 DEF Next

LEMMA SoleInit == Init => SoleInv
BY DEF Init, SoleInv, IdleTask

----------------------------------------------------------------------------
(* The mess that a job may leave: the lock on its instance, a stage other   *)
(* than installed, or files that are partly changed.                       *)

Messy(m, stage, files) ==
    \/ m = "lock" /\ stage = "installing"
    \/ m = "stage" /\ stage \in {"installing", "not_installed"}
    \/ m = "files" /\ files = "mixed"

Dirty(m, i) == Messy(m, inst[i], content[i])

\* A rollback with this state and this backup leaves a mess, or tidies up.
Bad(m, js, files) ==
    IF m = "files" THEN js.staging /\ files = "mixed" ELSE Messy(m, js.rb, files)

Tidies(m, kind, js, files) ==
    /\ ~Bad(m, js, files)
    /\ IF m = "files" THEN js.staging ELSE kind = "create" \/ js.rb # None

RowBad(m, j) == Bad(m, row[j].js, backup[j])

RowTidies(m, j) == Tidies(m, row[j].kind, row[j].js, backup[j])

\* Somebody answers for the mess: a failed rollback, an active job that will
\* tidy up, or the command that has just created the instance.
Blames(j, i) == row[j].js.rberr /\ row[j].js.id = i

WillTidy(m, j, i) == IsActive(j) /\ row[j].js.id = i /\ RowTidies(m, j)

Creates(t, i) == /\ task[t].role = "setup" /\ row[task[t].job].kind = "create"
                 /\ task[t].js.id = i

Covered(m, i) == /\ Exists(i)
                 /\ \/ FailedRollback(i)
                    \/ \E j \in Jobs : WillTidy(m, j, i)
                    \/ m = "stage" /\ \E t \in Tasks : Creates(t, i)

MessCovered(m) == \A i \in Instances : Dirty(m, i) => Covered(m, i)

\* A failed rollback that was not itself to restore a mess.
Root(m, i) == \E j \in Jobs : Blames(j, i) /\ ~RowBad(m, j)

OfOther(i, j) == \E k \in Jobs \ {j} : Blames(k, i)

\* Nobody restores a mess but one that a failed rollback answers for; only the
\* second retry may be of a rollback that answers for it itself.
MessFits(m, x) ==
    /\ x.role # "retry" /\ Exists(x.js.id) /\ Bad(m, x.js, backup[x.job]) =>
          FailedRollback(x.js.id)
    /\ x.role = "retry" /\ x.pc # "requeue" /\ Exists(x.js.id)
       /\ Bad(m, x.js, backup[x.job]) => Root(m, x.js.id)
    /\ x.role = "retry" /\ x.pc = "requeue" /\ Exists(x.js.id) =>
          row[x.job].kind # "create" /\ (Dirty(m, x.js.id) => OfOther(x.js.id, x.job))
    /\ x.pc = "finish" /\ ~x.js.rberr /\ row[x.job].status \in Active
       /\ Exists(row[x.job].js.id) =>
          /\ row[x.job].kind # "create"
          /\ Dirty(m, row[x.job].js.id) => FailedRollback(row[x.job].js.id)
    /\ m = "files" /\ x.role = "run" /\ x.pc \in {"ended_ok", "succeed"}
       /\ Exists(x.js.id) /\ Dirty(m, x.js.id) => FailedRollback(x.js.id)
    /\ x.pc = "save" => x.js.staging

RowMess(m, j) == Exists(row[j].js.id) /\ RowBad(m, j) =>
    /\ IsActive(j) => FailedRollback(row[j].js.id)
    /\ retries = 0 /\ row[j].js.rberr => Root(m, row[j].js.id)

MessInv(m) ==
    /\ MessCovered(m)
    /\ \A t \in Tasks : task[t].job # None => MessFits(m, task[t])
    /\ \A j \in Jobs : RowMess(m, j)

\* Nobody beside the task has taken its job or is about to record its end.
Quiet(t) == \A s \in Tasks \ {t} :
    task[s].job = task[t].job => ~Past(task[s]) /\ task[s].pc # "finish"

MessGood(m, t) ==
    /\ \A k \in Jobs : k = task[t].job =>
          /\ \A i \in Instances : Blames(k, i) /\ inst'[i] \in Stages =>
                \/ Blames(k, i)' /\ (~RowBad(m, k) => ~RowBad(m, k)')
                \/ At(t, "retry", "requeue")
          /\ RowMess(m, k)'
    /\ \A k \in Jobs : \/ backup'[k] \in {backup[k], "none"}
                       \/ At(t, "run", "backup") /\ k = task[t].job
    /\ \A i \in Instances : Dirty(m, i)' =>
          \/ Dirty(m, i) \/ inst[i] = "unborn"
          \/ i = task[t].js.id /\ (Quiet(t) \/ FailedRollback(i)')
    /\ MessCovered(m)'
    /\ task'[t].job # None => MessFits(m, task[t])'

LEMMA BlamesFail ==
    ASSUME NEW i
    PROVE  /\ FailedRollback(i) <=> \E j \in Jobs : Blames(j, i)
           /\ FailedRollback(i)' <=> \E j \in Jobs : Blames(j, i)'
BY DEF FailedRollback, Blames

\* What a step leaves of the answers and the mess, as the other tasks and the
\* other rows see it.
LEMMA StepBlames ==
    ASSUME Grounds, SoleInv, NEW m, NEW t \in Tasks, Good(t), MessGood(m, t),
           NEW k \in Jobs, NEW i \in Instances, Blames(k, i), inst'[i] \in Stages
    PROVE  \/ Blames(k, i)' /\ (~RowBad(m, k) => ~RowBad(m, k)')
           \/ /\ At(t, "retry", "requeue") /\ k = task[t].job
              /\ i = task[t].js.id
<1>1. CASE k = task[t].job /\ At(t, "retry", "requeue")
  <2>1. task[t].js = row[k].js
    BY <1>1, Grounded DEF At, Copied
  <2> QED
    BY <1>1, <2>1 DEF Blames
<1>2. CASE k = task[t].job /\ ~At(t, "retry", "requeue")
  BY <1>2 DEF MessGood
<1>3. CASE k # task[t].job
  <2>1. row'[k].js = row[k].js
    BY <1>3 DEF Good, Polite, PoliteToJobs, TouchesOther
  <2>2. backup'[k] \in {backup[k], "none"}
    BY <1>3 DEF MessGood
  <2> QED
    BY <2>1, <2>2 DEF Blames, RowBad, Bad, Messy
<1> QED
  BY <1>1, <1>2, <1>3

\* A step comes upon no instance that another task is at.
LEMMA OtherInstance ==
    ASSUME Grounds, NEW t \in Tasks, Good(t), NEW s \in Tasks \ {t},
           task[s].job # None, NEW i \in Instances, i = task[s].js.id,
           inst'[i] \in Stages
    PROVE  /\ Exists(i)
           /\ i = task[t].js.id /\ task[t].job # None =>
                 task[t].job = task[s].job /\ Paired(task[s], task[t])
<1>1. SerialInv /\ inst[i] # "unborn" /\ i # None
  BY ConstantsAssumption DEF Grounds, SerialInv, Separate, IdsBorn, Instances
<1>2. Exists(i)
  BY <1>1, GoneIsGone DEF Exists, Good
<1>3. i = task[t].js.id /\ task[t].job # None => task[t].job = task[s].job
  BY <1>1 DEF SerialInv, Separate, TasksApart
<1> QED
  BY <1>1, <1>2, <1>3 DEF SerialInv, Separate, Company

LEMMA OtherRow ==
    ASSUME Grounds, NEW t \in Tasks, Good(t), NEW k \in Jobs,
           NEW i \in Instances, i = row[k].js.id, inst'[i] \in Stages
    PROVE  /\ Exists(i)
           /\ i = task[t].js.id /\ task[t].job # None /\ IsActive(k) =>
                 task[t].job = k
<1>1. SerialInv /\ inst[i] # "unborn" /\ i # None
  BY ConstantsAssumption DEF Grounds, SerialInv, Separate, IdsBorn, Instances
<1>2. Exists(i)
  BY <1>1, GoneIsGone DEF Exists, Good
<1> QED
  BY <1>1, <1>2 DEF SerialInv, Separate, TaskRowApart

LEMMA StepKeepsFits ==
    ASSUME Grounds, SoleInv, NEW m, MessInv(m), NEW t \in Tasks, Good(t),
           CopyGood(t), MessGood(m, t), NEW s \in Tasks \ {t}, NEW j \in Jobs,
           task[s].job = j
    PROVE  MessFits(m, task[s])'
<1> USE DEF Good
<1>1. /\ SerialInv /\ None \notin Jobs \cup Instances
      /\ task'[s] = task[s] /\ MessFits(m, task[s]) /\ RowFits(task[s])
      /\ Copied(task[s]) /\ Placed(task[s]) /\ Sole(task[s])
      /\ task[t].job \in Jobs \cup {None}
  BY WaitsOrNot, ConstantsAssumption
  DEF Tame, Others, Grounds, SerialInv, TypeOK, Task, MessInv, CopyInv, SoleInv
<1>2. task[s].role # "idle" /\ task[s].role # "delete" /\ task[t].role # "recover"
  BY <1>1, RecoveryAlone DEF Placed, SoleInv
<1>3. At(t, "retry", "requeue") => task[t].job # None
  BY <1>1, Acting DEF At
<1> DEFINE id == task[s].js.id
<1> DEFINE rid == row[j].js.id
\* the instance of the task
<1>4. ASSUME NEW i \in Instances, i = id, inst'[i] \in Stages
      PROVE  /\ Exists(i)
             /\ FailedRollback(i) => FailedRollback(i)'
             /\ Root(m, i) => Root(m, i)'
             /\ OfOther(i, j) => OfOther(i, j)'
             /\ task[s].role = "retry" \/ (task[s].role = "run" /\ Past(task[s])) =>
                   (Dirty(m, i)' => Dirty(m, i) \/ FailedRollback(i)')
             /\ task[s].role = "retry" => (Dirty(m, i)' => Dirty(m, i))
  <2>1. /\ Exists(i)
        /\ i = task[t].js.id /\ task[t].job # None =>
              task[t].job = j /\ Paired(task[s], task[t])
    BY <1>1, <1>4, OtherInstance
  <2>2. ~(At(t, "retry", "requeue") /\ i = task[t].js.id)
    BY <1>3, <2>1 DEF At, Paired
  <2>3. \A k \in Jobs : Blames(k, i) =>
            Blames(k, i)' /\ (~RowBad(m, k) => ~RowBad(m, k)')
    BY <1>4, <2>2, StepBlames
  <2>4. task[t].job # None \/ task[t].js.id = None \/ task[t].role = "delete"
    BY <1>1, <1>2
    DEF SerialInv, TypeOK, TasksPlaced, Placed, WellFormed, Task, Roles,
        Undoing, PermitPcs, Tame
  <2>5. task[t].role # "delete"
    BY DEF SoleInv
  <2>6. i = task[t].js.id => task[t].job = j /\ Paired(task[s], task[t])
    BY <1>1, <2>1, <2>4, <2>5
  <2>7. task[s].role = "retry" \/ (task[s].role = "run" /\ Past(task[s])) =>
            (Dirty(m, i)' => Dirty(m, i) \/ FailedRollback(i)')
    BY <1>1, <2>1, <2>6 DEF MessGood, Quiet, Exists, Stages, Paired
  <2>8. task[s].role = "retry" => (Dirty(m, i)' => Dirty(m, i))
    <3>1. task[s].role = "retry" => i # task[t].js.id
      BY <2>6 DEF Paired
    <3> QED
      BY <1>1, <2>1, <3>1 DEF MessGood, Exists, Stages
  <2> QED
    BY <2>1, <2>3, <2>7, <2>8, BlamesFail DEF Root, OfOther
\* the rollback it will apply
<1>5. Bad(m, task[s].js, backup'[j]) => Bad(m, task[s].js, backup[j])
  <2>1. CASE backup'[j] \in {backup[j], "none"}
    BY <2>1 DEF Bad, Messy
  <2>2. CASE At(t, "run", "backup") /\ j = task[t].job
    <3>1. Paired(task[s], task[t])
      BY <1>1, <2>2 DEF SerialInv, Separate, Company
    <3>2. ~task[s].js.staging
      BY <1>1, <2>2, <3>1 DEF Paired, At, RowFits
    <3> QED
      BY <3>2 DEF Bad, Messy
  <2> QED
    BY <2>1, <2>2 DEF MessGood
\* the instance of its row
<1>6. ASSUME task[s].pc = "finish", row'[j].status \in Active,
             NEW i \in Instances, i = row'[j].js.id, inst'[i] \in Stages
      PROVE  /\ row[j].status \in Active /\ i = rid /\ Exists(i)
             /\ row'[j].kind = row[j].kind
             /\ FailedRollback(i) => FailedRollback(i)'
             /\ Dirty(m, i)' => Dirty(m, i) \/ FailedRollback(i)'
  <2>1. /\ row[j].status \in Active /\ i = rid /\ row'[j].kind = row[j].kind
        /\ i = task[t].js.id /\ task[t].job # None => task[t].job = j
        /\ task[t].job = j => ~Quiet(t) /\ task[t].role # "retry"
    <3>1. CASE task[t].job = j
      <4>1. Paired(task[s], task[t])
        BY <1>1, <3>1 DEF SerialInv, Separate, Company
      <4>2. OwnKept(t, j)
        BY <1>1, <3>1 DEF CopyGood
      <4>3. ~Quiet(t)
        BY <1>1, <1>6, <3>1 DEF Quiet
      <4> QED
        BY <1>6, <3>1, <4>1, <4>2, <4>3 DEF Paired, OwnKept
    <3>2. CASE task[t].job # j
      <4>1. /\ row'[j].js = row[j].js /\ row'[j].kind = row[j].kind
            /\ row'[j].status \in Active => row[j].status \in Active
        BY <1>2, <3>2 DEF Polite, PoliteToJobs, TouchesOther, Active
      <4>2. i = rid /\ row[j].status \in Active
        BY <1>6, <4>1
      <4>3. i = task[t].js.id /\ task[t].job # None => task[t].job = j
        BY <1>6, <4>2, OtherRow DEF IsActive
      <4> QED
        BY <3>2, <4>1, <4>2, <4>3
    <3> QED
      BY <3>1, <3>2
  <2>2. Exists(i)
    BY <1>6, <2>1, OtherRow
  <2>3. ~(At(t, "retry", "requeue") /\ i = task[t].js.id)
    BY <1>3, <2>1 DEF At
  <2>4. FailedRollback(i) => FailedRollback(i)'
    BY <1>6, <2>3, StepBlames, BlamesFail
  <2>5. task[t].job # None \/ task[t].js.id = None
    BY <1>1, <1>2
    DEF SerialInv, TypeOK, TasksPlaced, Placed, WellFormed, Task, Roles,
        Undoing, PermitPcs, Tame, SoleInv
  <2>6. Dirty(m, i)' => Dirty(m, i) \/ FailedRollback(i)'
    BY <1>1, <2>1, <2>2, <2>5 DEF MessGood, Exists, Stages
  <2> QED
    BY <2>1, <2>2, <2>4, <2>6
<1>7. /\ Exists(id)' => id \in Instances /\ inst'[id] \in Stages
      /\ Exists(rid)' => row'[j].js.id \in Instances
                         /\ inst'[row'[j].js.id] \in Stages
  BY <1>1 DEF Exists
<1>8. (task[s].role # "retry" /\ Exists(id)' /\ Bad(m, task[s].js, backup'[j]))
         => FailedRollback(id)'
  BY <1>1, <1>4, <1>5, <1>7 DEF MessFits
<1>9. (task[s].role = "retry" /\ task[s].pc # "requeue" /\ Exists(id)'
       /\ Bad(m, task[s].js, backup'[j])) => Root(m, id)'
  BY <1>1, <1>4, <1>5, <1>7 DEF MessFits
<1>10. (task[s].role = "retry" /\ task[s].pc = "requeue" /\ Exists(id)')
         => row'[j].kind # "create" /\ (Dirty(m, id)' => OfOther(id, j)')
  <2>1. row'[j].kind = row[j].kind
    BY DEF Polite, PoliteToJobs, TouchesOwn, TouchesOther
  <2> QED
    BY <1>1, <1>4, <1>7, <2>1 DEF MessFits
<1>11. (task[s].pc = "finish" /\ ~task[s].js.rberr /\ row'[j].status \in Active
        /\ Exists(rid)') =>
         /\ row'[j].kind # "create"
         /\ (Dirty(m, rid)' => FailedRollback(rid)')
  BY <1>1, <1>6, <1>7 DEF MessFits
<1>12. (m = "files" /\ task[s].role = "run"
        /\ task[s].pc \in {"ended_ok", "succeed"} /\ Exists(id)'
        /\ Dirty(m, id)') => FailedRollback(id)'
  <2>1. task[s].role = "run" /\ task[s].pc \in {"ended_ok", "succeed"} =>
          Past(task[s])
    BY DEF Past, Waiting
  <2> QED
    BY <1>1, <1>4, <1>7, <2>1 DEF MessFits
<1> QED
  BY <1>1, <1>8, <1>9, <1>10, <1>11, <1>12 DEF MessFits

LEMMA StepKeepsRowMess ==
    ASSUME Grounds, SoleInv, NEW m, MessInv(m), NEW t \in Tasks, Good(t),
           MessGood(m, t), retries' = retries, NEW k \in Jobs \ {task[t].job}
    PROVE  RowMess(m, k)'
<1> USE DEF Good
<1>1. /\ row'[k].js = row[k].js
      /\ row'[k].status \in Active => row[k].status \in Active
  BY DEF Polite, PoliteToJobs, TouchesOther, Active
<1>2. RowBad(m, k)' => RowBad(m, k)
  BY <1>1 DEF MessGood, RowBad, Bad, Messy
<1>3. At(t, "retry", "requeue") => task[t].job # None /\ retries # 0
  BY Acting DEF At, SoleInv, Grounds
<1>4. ASSUME NEW i \in Instances, i = row[k].js.id, inst'[i] \in Stages,
             RowBad(m, k)
      PROVE  /\ row[k].status \in Active => FailedRollback(i)'
             /\ retries = 0 /\ row[k].js.rberr => Root(m, i)'
  <2>1. /\ Exists(i)
        /\ i = task[t].js.id /\ task[t].job # None /\ IsActive(k) =>
              task[t].job = k
    BY <1>4, OtherRow
  <2>2. \A l \in Jobs : Blames(l, i) =>
           \/ Blames(l, i)' /\ (~RowBad(m, l) => ~RowBad(m, l)')
           \/ At(t, "retry", "requeue") /\ i = task[t].js.id
    BY <1>4, StepBlames
  <2>3. row[k].status \in Active => FailedRollback(i)
    BY <1>4, <2>1 DEF MessInv, RowMess, IsActive
  <2>4. row[k].status \in Active => FailedRollback(i)'
    BY <1>3, <2>1, <2>2, <2>3, BlamesFail DEF IsActive
  <2>5. retries = 0 /\ row[k].js.rberr => Root(m, i)
    BY <1>4, <2>1 DEF MessInv, RowMess
  <2>6. retries = 0 /\ row[k].js.rberr => Root(m, i)'
    BY <1>3, <2>2, <2>5 DEF Root
  <2> QED
    BY <2>4, <2>6
<1> QED
  BY <1>1, <1>2, <1>4 DEF RowMess, IsActive, Exists

LEMMA StepKeepsMess ==
    ASSUME Grounds, SoleInv, NEW m, MessInv(m), NEW t \in Tasks,
           retries' = retries, Good(t), CopyGood(t), MessGood(m, t)
    PROVE  MessInv(m)'
<1>1. MessCovered(m)'
  BY DEF MessGood
<1>2. ASSUME NEW s \in Tasks, task'[s].job # None
      PROVE  MessFits(m, task[s])'
  <2>1. CASE s = t
    BY <1>2, <2>1 DEF MessGood
  <2>2. CASE s # t
    <3>1. task'[s] = task[s]
      BY <2>2 DEF Good, Tame, Others
    <3>2. task[s].job \in Jobs
      BY <1>2, <3>1, WaitsOrNot DEF Grounds
    <3> QED
      BY <2>2, <3>2, StepKeepsFits
  <2> QED
    BY <2>1, <2>2
<1>3. ASSUME NEW k \in Jobs PROVE RowMess(m, k)'
  <2>1. CASE k = task[t].job
    BY <2>1 DEF MessGood
  <2>2. CASE k # task[t].job
    BY <2>2, StepKeepsRowMess
  <2> QED
    BY <2>1, <2>2
<1> QED
  BY <1>1, <1>2, <1>3 DEF MessInv

\* The rows of other jobs than the task's, as a step leaves them.
RestKept(t) == \A k \in Jobs \ {task[t].job} :
    row'[k].js = row[k].js /\ row'[k].kind = row[k].kind
    /\ row'[k].status = row[k].status

LEMMA RestIsKept ==
    ASSUME NEW t \in Tasks, RowsKept \/ \E status, js : Writes(task[t].job, status, js)
    PROVE  RestKept(t)
BY DEF RestKept, RowsKept, Writes

LEMMA FailedStays ==
    ASSUME NEW t \in Tasks, RestKept(t), NEW i,
           \A j \in Jobs : j = task[t].job /\ Blames(j, i) => Blames(j, i)'
    PROVE  FailedRollback(i) => FailedRollback(i)'
<1>1. \A j \in Jobs : Blames(j, i) => Blames(j, i)'
  BY DEF Blames, RestKept
<1> QED
  BY <1>1, BlamesFail

\* Whoever answered for a mess still does, but perhaps the task itself.
LEMMA CoverKept ==
    ASSUME SerialInv, NEW m, NEW t \in Tasks, Good(t), task[t].job \in Jobs, RestKept(t),
           NEW i \in Instances, Covered(m, i), inst'[i] \in Stages,
           \A j \in Jobs : j = task[t].job /\ (Blames(j, i) \/ WillTidy(m, j, i)) =>
               Covered(m, i)',
           m = "stage" /\ Creates(t, i) => Covered(m, i)'
    PROVE  Covered(m, i)'
<1> USE DEF Good
<1>1. Exists(i)'
  BY DEF Exists
<1>2. CASE FailedRollback(i)
  <2>1. PICK j \in Jobs : Blames(j, i)
    BY <1>2, BlamesFail
  <2>2. j # task[t].job => Blames(j, i)'
    BY <2>1 DEF Blames, RestKept
  <2> QED
    BY <1>1, <2>1, <2>2, BlamesFail DEF Covered
<1>3. ASSUME NEW j \in Jobs, WillTidy(m, j, i)
      PROVE  Covered(m, i)'
  <2>1. CASE j # task[t].job
    <3>1. /\ row'[j].js = row[j].js /\ row'[j].kind = row[j].kind
          /\ row'[j].status = row[j].status /\ row[j].status \in Active
      BY <1>3, <2>1 DEF RestKept, WillTidy, IsActive
    <3>2. backup'[j] = backup[j]
      BY <2>1, <3>1 DEF Polite, PoliteToJobs, TouchesOther
    <3>3. WillTidy(m, j, i)'
      BY <1>3, <3>1, <3>2 DEF WillTidy, RowTidies, Tidies, Bad, Messy, IsActive
    <3> QED
      BY <1>1, <3>3 DEF Covered
  <2> QED
    BY <1>3, <2>1
<1>4. ASSUME m = "stage", NEW s \in Tasks, Creates(s, i)
      PROVE  Covered(m, i)'
  <2>1. CASE s # t
    <3>1. task'[s] = task[s]
      BY <2>1 DEF Tame, Others
    <3>2. CASE task[s].job \in Jobs
      <4>1. row'[task[s].job].kind = row[task[s].job].kind
        BY <3>2 DEF Polite, PoliteToJobs, TouchesOwn, TouchesOther
      <4>2. Creates(s, i)'
        BY <1>4, <3>1, <4>1 DEF Creates
      <4> QED
        BY <1>1, <1>4, <4>2 DEF Covered
    <3>3. task[s].pc \notin {"idle", "list", "next"}
      BY <1>4 DEF Creates, SerialInv, TasksPlaced, Placed, Undoing
    <3> QED
      BY <3>2, <3>3, Acting
  <2> QED
    BY <1>4, <2>1
<1> QED
  BY <1>2, <1>3, <1>4 DEF Covered

\* What a step that leaves the rows alone may do to the instances.
DirtKept(m, t, i) == Dirty(m, i)' =>
    /\ inst'[i] \in Stages
    /\ \/ Dirty(m, i)
       \/ i = task[t].js.id
          /\ (FailedRollback(i) \/ (Quiet(t) /\ WillTidy(m, task[t].job, i)))
       \/ m = "stage" /\ Creates(t, i)' /\ inst[i] = "unborn"
    /\ m = "stage" /\ Creates(t, i) =>
          FailedRollback(i) \/ WillTidy(m, task[t].job, i) \/ Creates(t, i)'

LEMMA RowsStayMess ==
    ASSUME Grounds, SoleInv, NEW m, MessInv(m), NEW t \in Tasks, Good(t),
           RowsKept, retries' = retries, task[t].job \in Jobs,
           \A k \in Jobs : \/ backup'[k] \in {backup[k], "none"}
                           \/ At(t, "run", "backup") /\ k = task[t].job,
           \A i \in Instances : DirtKept(m, t, i),
           task'[t].job # None => MessFits(m, task[t])'
    PROVE  MessGood(m, t)
<1> USE DEF Good
<1>1. \A k \in Jobs : /\ row'[k].js = row[k].js /\ row'[k].kind = row[k].kind
                      /\ row'[k].status = row[k].status
  BY DEF RowsKept
<1>2. \A k \in Jobs : RowBad(m, k)' => RowBad(m, k)
  <2>1. At(t, "run", "backup") => ~row[task[t].job].js.staging
    <3>1. SerialInv /\ task[t].job # None
      BY ConstantsAssumption DEF Grounds
    <3> QED
      BY <3>1 DEF At, SerialInv, RowsFit, RowFits
  <2> QED
    BY <1>1, <2>1 DEF RowBad, Bad, Messy
<1>3. \A k \in Jobs, i \in Instances : Blames(k, i) => Blames(k, i)'
  BY <1>1 DEF Blames
<1>4. \A i \in Instances : /\ FailedRollback(i) => FailedRollback(i)'
                           /\ Root(m, i) => Root(m, i)'
  BY <1>2, <1>3, BlamesFail DEF Root
<1>5. \A k \in Jobs : RowMess(m, k)'
  <2> SUFFICES ASSUME NEW k \in Jobs PROVE RowMess(m, k)'
    OBVIOUS
  <2>1. \A i \in Instances : i = row[k].js.id /\ inst'[i] \in Stages => Exists(i)
    BY OtherRow
  <2>2. Exists(row[k].js.id)' => Exists(row[k].js.id) /\ row[k].js.id \in Instances
    BY <1>1, <2>1 DEF Exists
  <2>3. row'[k].js = row[k].js /\ (IsActive(k)' <=> IsActive(k))
    BY <1>1 DEF IsActive
  <2>4. RowMess(m, k)
    BY DEF MessInv
  <2> QED
    BY <1>2, <1>4, <2>2, <2>3, <2>4 DEF RowMess
<1>6. ASSUME NEW i \in Instances, Dirty(m, i)' PROVE Covered(m, i)'
  <2>1. inst'[i] \in Stages /\ Exists(i)'
    BY <1>6 DEF DirtKept, Exists
  <2>2. FailedRollback(i) \/ (m = "stage" /\ Creates(t, i)') => Covered(m, i)'
    BY <1>4, <2>1 DEF Covered
  <2>3. \A j \in Jobs : WillTidy(m, j, i) => WillTidy(m, j, i)'
    BY <1>1, <1>2 DEF WillTidy, RowTidies, Tidies, RowBad, IsActive
  <2>4. \A j \in Jobs : Blames(j, i) \/ WillTidy(m, j, i) => Covered(m, i)'
    BY <2>1, <2>2, <2>3, BlamesFail DEF Covered
  <2>5. m = "stage" /\ Creates(t, i) => Covered(m, i)'
    BY <1>6, <2>2, <2>4 DEF DirtKept
  <2>6. CASE Dirty(m, i)
    <3>1. Covered(m, i)
      BY <2>6 DEF MessInv, MessCovered
    <3> QED
      BY <2>1, <2>4, <2>5, <3>1, RestIsKept, CoverKept DEF Grounds
  <2> QED
    BY <1>6, <2>2, <2>4, <2>6 DEF DirtKept
<1>7. \A i \in Instances : Dirty(m, i)' =>
          \/ Dirty(m, i) \/ inst[i] = "unborn"
          \/ i = task[t].js.id /\ (Quiet(t) \/ FailedRollback(i)')
  BY <1>4 DEF DirtKept
<1> QED
  BY <1>2, <1>3, <1>5, <1>6, <1>7 DEF MessGood, MessCovered

\* Only the task goes on.
LEMMA StayMess ==
    ASSUME Grounds, SoleInv, NEW m, MessInv(m), NEW t \in Tasks, Good(t),
           UNCHANGED <<row, inst, content, backup>>, retries' = retries,
           task[t].job \in Jobs,
           \/ task[t].role # "setup"
           \/ /\ task'[t].role = "setup" /\ task'[t].job = task[t].job
              /\ task'[t].js.id = task[t].js.id
           \/ \A i \in Instances : i = task[t].js.id => FailedRollback(i),
           task'[t].job # None => MessFits(m, task[t])'
    PROVE  MessGood(m, t)
<1>1. RowsKept
  BY DEF RowsKept
<1>2. \A i \in Instances : Dirty(m, i)' => Dirty(m, i) /\ Exists(i)
  BY DEF MessInv, MessCovered, Covered, Dirty
<1>3. \A i \in Instances : Creates(t, i) => FailedRollback(i) \/ Creates(t, i)'
  BY DEF Creates
<1>4. \A i \in Instances : DirtKept(m, t, i)
  BY <1>2, <1>3 DEF DirtKept, Exists
<1> QED
  BY <1>1, <1>4, RowsStayMess

\* What the step leaves of the failed rollbacks when it writes its own row.
LEMMA AnswersKept ==
    ASSUME NEW m, NEW t \in Tasks, RestKept(t), UNCHANGED backup, NEW i,
           \A j \in Jobs : j = task[t].job /\ Blames(j, i) =>
               Blames(j, i)' /\ (RowBad(m, j)' => RowBad(m, j))
    PROVE  /\ FailedRollback(i) => FailedRollback(i)'
           /\ Root(m, i) => Root(m, i)'
<1>1. \A j \in Jobs : Blames(j, i) =>
          Blames(j, i)' /\ (RowBad(m, j)' => RowBad(m, j))
  <2>1. \A j \in Jobs \ {task[t].job} : row'[j].js = row[j].js
    BY DEF RestKept
  <2> QED
    BY <2>1 DEF Blames, RowBad
<1> QED
  BY <1>1, BlamesFail DEF Root

\* Before the first retry a failed rollback that was to restore a mess has
\* found one before it.
LEMMA BlameHasRoot ==
    ASSUME NEW m, MessInv(m), retries = 0, NEW i, Exists(i), FailedRollback(i)
    PROVE  Root(m, i)
<1>1. PICK j \in Jobs : Blames(j, i)
  BY BlamesFail
<1>2. RowMess(m, j)
  BY DEF MessInv
<1> QED
  BY <1>1, <1>2 DEF RowMess, Root, Blames

LEMMA WritesMess ==
    ASSUME Grounds, SoleInv, NEW m, MessInv(m), NEW t \in Tasks, Good(t),
           NEW status, NEW js, NEW j \in Jobs, j = task[t].job,
           Writes(j, status, js), UNCHANGED backup, retries' = retries,
           \A i \in Instances : Blames(j, i) /\ inst'[i] \in Stages =>
              \/ At(t, "retry", "requeue")
              \/ js.rberr /\ js.id = i
                 /\ (Bad(m, js, backup[j]) => RowBad(m, j)),
           \A i \in Instances :
              i = js.id /\ inst'[i] \in Stages /\ Bad(m, js, backup[j]) =>
                 /\ status \in Active => FailedRollback(i)'
                 /\ retries = 0 /\ js.rberr => Root(m, i)',
           \A i \in Instances : Dirty(m, i)' =>
              /\ inst'[i] \in Stages
              /\ ~Dirty(m, i) =>
                    Covered(m, i)' /\ i = task[t].js.id /\ Quiet(t)
              /\ \/ Blames(j, i) \/ WillTidy(m, j, i)
                 \/ m = "stage" /\ Creates(t, i)
                 => Covered(m, i)',
           task'[t].job # None => MessFits(m, task[t])'
    PROVE  MessGood(m, t)
<1>1. /\ row'[j].js = js /\ row'[j].status = status /\ backup'[j] = backup[j]
      /\ RestKept(t)
  BY RestIsKept DEF Writes
<1>2. RowBad(m, j)' <=> Bad(m, js, backup[j])
  BY <1>1 DEF RowBad
<1>3. \A i \in Instances : Blames(j, i) /\ inst'[i] \in Stages =>
          \/ Blames(j, i)' /\ (~RowBad(m, j) => ~RowBad(m, j)')
          \/ At(t, "retry", "requeue")
  BY <1>1, <1>2 DEF Blames
<1>4. RowMess(m, j)'
  BY <1>1, <1>2 DEF RowMess, IsActive, Exists
<1>5. ASSUME NEW i \in Instances, Dirty(m, i)' PROVE Covered(m, i)'
  <2>1. CASE ~Dirty(m, i)
    BY <1>5, <2>1
  <2>2. CASE Dirty(m, i)
    <3>1. Covered(m, i) /\ SerialInv
      BY <2>2 DEF MessInv, MessCovered, Grounds
    <3> QED
      BY <1>1, <1>5, <3>1, CoverKept
  <2> QED
    BY <2>1, <2>2
<1>6. \A i \in Instances : Dirty(m, i)' =>
          \/ Dirty(m, i)
          \/ i = task[t].js.id /\ Quiet(t)
  OBVIOUS
<1> QED
  BY <1>3, <1>4, <1>5, <1>6 DEF MessGood, MessCovered

\* What this rollback of the task would restore, a failed one answers for.
Answered(m, t, js) == \A i \in Instances :
    i = js.id /\ inst'[i] \in Stages /\ Bad(m, js, backup'[task[t].job]) =>
        FailedRollback(i)'

\* A task that moves on with this state fits, unless it is about to end.
LEMMA MovesFit ==
    ASSUME NEW m, NEW t \in Tasks, NEW role, NEW pc, NEW js,
           Moves(t, role, pc, js), role # "retry",
           pc \notin {"finish", "ended_ok", "succeed"}, Answered(m, t, js),
           pc = "save" => js.staging
    PROVE  MessFits(m, task[t])'
<1>1. /\ task'[t].role = role /\ task'[t].pc = pc /\ task'[t].js = js
      /\ task'[t].job = task[t].job
  BY DEF Moves
<1>2. Exists(task[t].js.id)' /\ Bad(m, task[t].js, backup[task[t].job])' =>
          FailedRollback(task[t].js.id)'
  BY <1>1 DEF Answered, Exists
<1> QED
  BY <1>1, <1>2 DEF MessFits

LEMMA DirtExists ==
    ASSUME NEW m, MessInv(m), NEW i \in Instances, Dirty(m, i)
    PROVE  Exists(i) /\ Covered(m, i)
BY DEF MessInv, MessCovered, Covered

LEMMA RequeueMess ==
    ASSUME Grounds, SoleInv, NEW m, MessInv(m), NEW t \in Tasks, Good(t),
           retries' = retries, Requeue(t)
    PROVE  MessGood(m, t)
<1> USE Grounded
<1> DEFINE j == task[t].job
<1>1. /\ task[t].role = "retry" /\ task[t].pc = "requeue"
      /\ UNCHANGED <<inst, content, backup>> /\ j \in Jobs
      /\ MessFits(m, task[t]) /\ task[t].js = row[j].js
      /\ row[j].status \notin Active
  <2>1. task[t].role = "retry" /\ task[t].pc = "requeue"
        /\ UNCHANGED <<inst, content, backup>>
    BY RequeueDoes DEF Grounds
  <2> QED
    BY <2>1 DEF MessInv, Copied, RowFits, Active
<1>2. CASE Idles(t) /\ UNCHANGED row
  BY <1>1, <1>2, StayMess DEF Idles
<1>3. ASSUME NEW js, Moves(t, "setup", "prepare", js), Writes(j, "queued", js),
             js = NewState(js.id)
      PROVE  MessGood(m, t)
  <2>1. js.rb = None /\ ~js.staging /\ ~js.rberr
    BY <1>3 DEF NewState
  <2>2. ~Bad(m, js, backup[j]) /\ ~Bad(m, js, backup'[j])
    BY <2>1, StagesAssumption DEF Bad, Messy
  <2>3. At(t, "retry", "requeue")
    BY <1>1 DEF At
  <2>4. ASSUME NEW i \in Instances, Dirty(m, i)'
        PROVE  /\ Dirty(m, i) /\ inst'[i] \in Stages
               /\ Blames(j, i) => Covered(m, i)'
               /\ ~WillTidy(m, j, i) /\ ~Creates(t, i)
    <3>1. Dirty(m, i) /\ Exists(i) /\ Exists(i)'
      BY <1>1, <2>4, DirtExists DEF Dirty, Exists
    <3>2. ASSUME Blames(j, i) PROVE Covered(m, i)'
      <4>1. OfOther(i, j)
        BY <1>1, <3>1, <3>2 DEF MessFits, Blames
      <4>2. PICK k \in Jobs \ {j} : Blames(k, i)
        BY <4>1 DEF OfOther
      <4>3. Blames(k, i)'
        BY <1>3, <4>2 DEF Writes, Blames
      <4> QED
        BY <3>1, <4>3, BlamesFail DEF Covered
    <3> QED
      BY <1>1, <3>1, <3>2 DEF Exists, WillTidy, IsActive, Creates
  <2>5. MessFits(m, task[t])'
    <3>1. Answered(m, t, js)
      BY <1>3, <2>2 DEF Answered
    <3> QED
      BY <1>3, <2>2, <3>1, MovesFit
  <2> HIDE DEF j
  <2> QED
    BY <1>1, <1>3, <2>2, <2>3, <2>4, <2>5, WritesMess DEF j
<1> QED
  BY <1>2, <1>3, RequeueDoes DEF Grounds

LEMMA PrepareNewMess ==
    ASSUME Grounds, SoleInv, NEW m, MessInv(m), NEW t \in Tasks, Good(t),
           retries' = retries, PrepareNew(t)
    PROVE  MessGood(m, t)
<1> USE Grounded
<1> DEFINE j == task[t].job
<1>1. /\ task[t].role = "setup" /\ task[t].pc = "prepare"
      /\ row[j].kind = "create" /\ UNCHANGED <<row, content, backup>>
  BY PrepareNewDoes DEF Grounds
<1>2. /\ j \in Jobs /\ RowsKept /\ task[t].js.id = None
      /\ task[t].js.rb = None /\ ~task[t].js.staging
  BY <1>1 DEF RowsKept, Sole, Copied, Agrees, RowFits, Active
<1>3. \A files : ~Bad(m, task[t].js, files)
  BY <1>2, StagesAssumption DEF Bad, Messy
<1>4. CASE Moves(t, "setup", "cleanup", task[t].js) /\ UNCHANGED inst
  <2>1. MessFits(m, task[t])'
    <3>1. Answered(m, t, task[t].js)
      BY <1>3, <1>4 DEF Answered
    <3> QED
      BY <1>3, <1>4, <3>1, MovesFit
  <2> QED
    BY <1>1, <1>2, <1>4, <2>1, StayMess DEF Moves
<1>5. ASSUME NEW i \in Instances, NEW pc \in {"persist", "cleanup"}, NEW js,
             Moves(t, "setup", pc, js), SameButId(js, task[t].js), js.id = i,
             inst[i] = "unborn", StageTo(i, "not_installed")
      PROVE  MessGood(m, t)
  <2>1. ~Bad(m, js, backup'[j])
    BY <1>2, <1>5, StagesAssumption DEF Bad, Messy, SameButId
  <2>2. MessFits(m, task[t])'
    <3>1. Answered(m, t, js)
      BY <1>5, <2>1 DEF Answered
    <3> QED
      BY <1>5, <2>1, <3>1, MovesFit
  <2>3. \A k \in Instances : DirtKept(m, t, k)
    <3> SUFFICES ASSUME NEW k \in Instances, Dirty(m, k)'
                 PROVE  /\ inst'[k] \in Stages
                        /\ Dirty(m, k) \/ (m = "stage" /\ Creates(t, k)'
                                           /\ inst[k] = "unborn")
                        /\ ~Creates(t, k)
      BY DEF DirtKept
    <3>1. ~Creates(t, k)
      BY <1>1, <1>2 DEF Creates
    <3>2. CASE k = i
      <4>1. ~Dirty(m, k)
        BY <1>5, <3>2, DirtExists DEF Exists, Stages
      <4>2. m = "stage"
        BY <1>1, <1>5, <3>2, <4>1 DEF Dirty, Messy, StageTo
      <4>3. task'[t].role = "setup" /\ task'[t].js.id = i /\ task'[t].job = j
        BY <1>5 DEF Moves
      <4>4. Creates(t, k)'
        BY <1>1, <3>2, <4>3 DEF Creates
      <4> QED
        BY <1>5, <3>1, <3>2, <4>2, <4>4 DEF StageTo, Stages
    <3>3. CASE k # i
      BY <1>1, <1>5, <3>1, <3>3, DirtExists DEF StageTo, Dirty, Exists
    <3> QED
      BY <3>2, <3>3
  <2> QED
    BY <1>1, <1>2, <2>2, <2>3, RowsStayMess
<1> QED
  BY <1>4, <1>5, PrepareNewDoes DEF Grounds

LEMMA PrepareExistingMess ==
    ASSUME Grounds, SoleInv, NEW m, MessInv(m), NEW t \in Tasks, Good(t),
           retries' = retries, PrepareExisting(t)
    PROVE  MessGood(m, t)
<1> USE Grounded
<1> DEFINE j == task[t].job
<1>1. /\ task[t].role = "setup" /\ task[t].pc = "prepare"
      /\ row[j].kind # "create" /\ UNCHANGED <<row, inst, content, backup>>
  BY PrepareExistingDoes DEF Grounds
<1>2. /\ j \in Jobs /\ task[t].js.rb = None /\ ~task[t].js.staging
      /\ row[j].status = "queued" /\ row[j].js.rb = None /\ ~row[j].js.staging
  BY <1>1 DEF Sole, Copied, Agrees, RowFits, Active
<1>3. CASE Moves(t, "setup", "cleanup", task[t].js)
  <2>1. \A files : ~Bad(m, task[t].js, files)
    BY <1>2, StagesAssumption DEF Bad, Messy
  <2>2. MessFits(m, task[t])'
    <3>1. Answered(m, t, task[t].js)
      BY <1>3, <2>1 DEF Answered
    <3> QED
      BY <1>3, <2>1, <3>1, MovesFit
  <2> QED
    BY <1>1, <1>2, <1>3, <2>2, StayMess DEF Moves
<1>4. ASSUME NEW js, Moves(t, "setup", "persist", js), SameButRb(js, task[t].js),
             Exists(js.id), js.rb = inst[js.id]
      PROVE  MessGood(m, t)
  <2>1. /\ ~js.staging /\ js.id = task[t].js.id
    BY <1>2, <1>4 DEF SameButRb
  <2>2. ASSUME Bad(m, js, backup'[j]) PROVE FailedRollback(js.id)
    <3>1. js.id \in Instances /\ m # "files" /\ Dirty(m, js.id)
      BY <1>4, <2>1, <2>2 DEF Bad, Messy, Dirty, Exists
    <3>2. Covered(m, js.id)
      BY <3>1, DirtExists
    <3>3. ASSUME NEW k \in Jobs, WillTidy(m, k, js.id) PROVE FALSE
      <4>1. IsActive(k) /\ row[k].js.id = js.id /\ RowTidies(m, k)
        BY <3>3 DEF WillTidy
      <4>2. k = j
        BY <1>1, <2>1, <3>1, <4>1 DEF SerialInv, Separate, TaskRowApart
      <4> QED
        BY <1>1, <1>2, <3>1, <4>1, <4>2 DEF RowTidies, Tidies
    <3>4. ASSUME NEW s \in Tasks, Creates(s, js.id) PROVE FALSE
      <4>1. task[s].pc \notin {"idle", "list", "next"}
        BY <3>4 DEF Creates, SerialInv, TasksPlaced, Placed, Undoing, Grounds
      <4>2. task[s].job # None /\ task[s].js.id = js.id
        BY <3>4, <4>1 DEF Creates
      <4>3. task[s].job = j
        BY <1>1, <2>1, <3>1, <4>2 DEF SerialInv, Separate, TasksApart
      <4> QED
        BY <1>1, <3>4, <4>3 DEF Creates
    <3> QED
      BY <3>2, <3>3, <3>4 DEF Covered
  <2>3. FailedRollback(js.id) => FailedRollback(js.id)'
    BY <1>1 DEF FailedRollback
  <2>4. MessFits(m, task[t])'
    <3>1. Answered(m, t, js)
      BY <1>4, <2>2, <2>3 DEF Answered
    <3> QED
      BY <1>4, <2>2, <2>3, <3>1, MovesFit
  <2> QED
    BY <1>1, <1>2, <1>4, <2>1, <2>4, StayMess DEF Moves
<1> QED
  BY <1>3, <1>4, PrepareExistingDoes DEF Grounds

LEMMA PersistMess ==
    ASSUME Grounds, SoleInv, NEW m, MessInv(m), NEW t \in Tasks, Good(t),
           retries' = retries, Persist(t)
    PROVE  MessGood(m, t)
<1>1. /\ task[t].role = "setup" /\ task[t].pc = "persist"
      /\ UNCHANGED <<inst, content, backup>>
  BY PersistDoes DEF Grounds
<1> PICK j \in Jobs : j = task[t].job
  BY <1>1, Grounded
<1> PICK js : js = task[t].js
  OBVIOUS
<1>2. /\ row[j].status = "queued" /\ ~row[j].js.staging
      /\ ~row[j].js.rberr /\ row[j].js.rb = None
      /\ row[j].kind = "create" => row[j].js.id = None
      /\ MessFits(m, task[t]) /\ None \notin Instances
  BY <1>1, Grounded DEF Sole, Copied, Agrees, SameId, Active, MessInv
<1>3. /\ Writes(j, row[j].status, js) /\ Moves(t, "setup", "lock", js)
      /\ RestKept(t)
  BY <1>2, PersistDoes, RestIsKept DEF Grounds, IsActive, Active
<1>4. \A i : ~Blames(j, i)
  BY <1>2 DEF Blames
<1>5. \A i \in Instances : ~WillTidy(m, j, i)
  BY <1>2 DEF WillTidy, RowTidies, Tidies
<1>6. \A i : (FailedRollback(i) => FailedRollback(i)')
             /\ (Root(m, i) => Root(m, i)')
  BY <1>1, <1>3, <1>4, AnswersKept
<1>7. ASSUME NEW i \in Instances, i = js.id, inst'[i] \in Stages,
             Bad(m, js, backup[j])
      PROVE  FailedRollback(i)' /\ (retries = 0 => Root(m, i)')
  <2>1. FailedRollback(i) /\ Exists(i)
    BY <1>1, <1>2, <1>7 DEF MessFits, Exists
  <2> QED
    BY <1>6, <2>1, BlameHasRoot
<1>8. MessFits(m, task[t])'
  <2>1. Answered(m, t, js)
    BY <1>1, <1>7 DEF Answered
  <2> QED
    BY <1>3, <2>1, MovesFit
<1>9. ASSUME NEW i \in Instances, Dirty(m, i)'
      PROVE  /\ inst'[i] \in Stages /\ Dirty(m, i)
             /\ m = "stage" /\ Creates(t, i) => Covered(m, i)'
  <2>1. Dirty(m, i) /\ Exists(i) /\ Exists(i)' /\ inst'[i] \in Stages
    BY <1>1, <1>9, DirtExists DEF Dirty, Exists
  <2>2. /\ task'[t].role = "setup" /\ task'[t].js = js /\ task'[t].job = j
        /\ row'[j].kind = row[j].kind
    BY <1>3 DEF Moves, Writes
  <2>3. Creates(t, i) => Creates(t, i)'
    BY <2>2 DEF Creates
  <2> QED
    BY <2>1, <2>3 DEF Covered
<1> QED
  BY <1>1, <1>2, <1>3, <1>4, <1>5, <1>7, <1>8, <1>9, WritesMess

LEMMA LockAndSpawnMess ==
    ASSUME Grounds, SoleInv, NEW m, MessInv(m), NEW t \in Tasks, Good(t),
           retries' = retries, LockAndSpawn(t)
    PROVE  MessGood(m, t)
<1> USE Grounded
<1> DEFINE j == task[t].job
           id == task[t].js.id
<1>1. /\ task[t].role = "setup" /\ task[t].pc = "lock"
      /\ UNCHANGED <<row, content, backup>>
      /\ task'[t].role = "run" /\ task'[t].pc = "read"
      /\ task'[t].js = NewState(None)
      /\ IF Exists(id) THEN StageTo(id, "installing") ELSE UNCHANGED inst
  BY LockSpawns DEF Grounds
<1>2. /\ j \in Jobs /\ RowsKept /\ row[j].status = "queued"
      /\ id = row[j].js.id /\ None \notin Instances
      /\ row[j].kind # "create" => row[j].js.rb # None
      /\ SerialInv /\ j # None
  BY <1>1 DEF Sole, Copied, Agrees, SameId, Active, RowsKept
<1>3. MessFits(m, task[t])'
  BY <1>1, <1>2 DEF MessFits, NewState, Exists
<1>4. Quiet(t)
  BY <1>1, <1>2 DEF Quiet, Separate, Company, Paired, SerialInv
<1>5. Exists(id) /\ m # "files" => FailedRollback(id) \/ WillTidy(m, j, id)
  BY <1>2 DEF MessInv, RowMess, WillTidy, RowTidies, Tidies, RowBad, IsActive, Active
<1>6. ASSUME NEW i \in Instances PROVE DirtKept(m, t, i)
  <2> SUFFICES ASSUME Dirty(m, i)'
               PROVE  /\ inst'[i] \in Stages
                      /\ \/ Dirty(m, i)
                         \/ i = id /\ (FailedRollback(i) \/ WillTidy(m, j, i))
                      /\ m = "stage" /\ Creates(t, i) =>
                            FailedRollback(i) \/ WillTidy(m, j, i)
    BY <1>4 DEF DirtKept
  <2>1. CASE i = id /\ Exists(i)
    <3>1. inst'[i] = "installing"
      BY <1>1, <2>1 DEF StageTo
    <3>2. m = "files" => Dirty(m, i)
      BY <1>1 DEF Dirty, Messy
    <3> QED
      BY <1>5, <2>1, <3>1, <3>2 DEF Stages
  <2>2. CASE i # id \/ ~Exists(i)
    <3>1. inst'[i] = inst[i]
      BY <1>1, <2>2 DEF StageTo
    <3>2. Dirty(m, i) /\ Exists(i)
      BY <1>1, <3>1, DirtExists DEF Dirty
    <3> QED
      BY <2>2, <3>1, <3>2 DEF Exists, Creates
  <2> QED
    BY <2>1, <2>2
<1> QED
  BY <1>1, <1>2, <1>3, <1>6, RowsStayMess

\* What the task and its active row would restore is answered for, and so
\* it is after a step that leaves them alone.
LEMMA OwnAnswered ==
    ASSUME Grounds, SoleInv, NEW m, MessInv(m), NEW t \in Tasks, Good(t), RowsKept,
           task[t].pc \notin {"idle", "list", "next"},
           backup'[task[t].job] \in {backup[task[t].job], "none"}
    PROVE  /\ task[t].role # "retry" => Answered(m, t, task[t].js)
           /\ IsActive(task[t].job) => Answered(m, t, row[task[t].job].js)
<1>1. /\ task[t].job \in Jobs /\ task[t].job # None /\ SerialInv
      /\ MessFits(m, task[t]) /\ RowMess(m, task[t].job)
      /\ task[t].js.id # None => inst[task[t].js.id] # "unborn"
      /\ None \notin Instances
  BY Grounded DEF MessInv
<1>2. \A i \in Instances : FailedRollback(i) => FailedRollback(i)'
  BY RestIsKept, FailedStays DEF RowsKept, Blames
<1>3. \A js : Bad(m, js, backup'[task[t].job]) => Bad(m, js, backup[task[t].job])
  BY DEF Bad, Messy
<1>4. ASSUME task[t].role # "retry" PROVE Answered(m, t, task[t].js)
  <2> SUFFICES ASSUME NEW i \in Instances, i = task[t].js.id, inst'[i] \in Stages,
                      Bad(m, task[t].js, backup'[task[t].job])
               PROVE  FailedRollback(i)'
    BY DEF Answered
  <2>1. Exists(i)
    BY <1>1, GoneIsGone DEF Exists, Good
  <2> QED
    BY <1>1, <1>2, <1>3, <1>4, <2>1 DEF MessFits
<1>5. ASSUME IsActive(task[t].job) PROVE Answered(m, t, row[task[t].job].js)
  <2> SUFFICES ASSUME NEW i \in Instances, i = row[task[t].job].js.id,
                      inst'[i] \in Stages,
                      Bad(m, row[task[t].job].js, backup'[task[t].job])
               PROVE  FailedRollback(i)'
    BY DEF Answered
  <2>1. Exists(i)
    BY <1>1, OtherRow
  <2> QED
    BY <1>1, <1>2, <1>3, <1>5, <2>1 DEF RowMess, RowBad
<1> QED
  BY <1>4, <1>5

\* A task that moves on and changes nothing else.
LEMMA MoveMess ==
    ASSUME Grounds, SoleInv, NEW m, MessInv(m), NEW t \in Tasks, Good(t),
           task[t].pc \notin {"idle", "list", "next"}, retries' = retries,
           UNCHANGED <<row, inst, content, backup>>, task[t].role # "setup",
           \/ Idles(t)
           \/ \E role, pc, js :
                 /\ Moves(t, role, pc, js) /\ role # "retry"
                 /\ pc \notin {"finish", "ended_ok", "succeed", "save"}
                 /\ \/ task[t].role # "retry" /\ js = task[t].js
                    \/ IsActive(task[t].job) /\ js = row[task[t].job].js
    PROVE  MessGood(m, t)
<1>1. RowsKept /\ task[t].job \in Jobs
  BY Grounded DEF RowsKept
<1>2. task'[t].job # None => MessFits(m, task[t])'
  <2>1. CASE Idles(t)
    BY <2>1 DEF Idles
  <2>2. ASSUME NEW role, NEW pc, NEW js, Moves(t, role, pc, js), role # "retry",
               pc \notin {"finish", "ended_ok", "succeed", "save"},
               \/ task[t].role # "retry" /\ js = task[t].js
               \/ IsActive(task[t].job) /\ js = row[task[t].job].js
        PROVE  MessFits(m, task[t])'
    <3>1. Answered(m, t, js)
      BY <1>1, <2>2, OwnAnswered
    <3> QED
      BY <2>2, <3>1, MovesFit
  <2> QED
    BY <2>1, <2>2
<1> QED
  BY <1>1, <1>2, StayMess

\* An active row is written and stays active, for the same instance: what it
\* restores now is answered for, and it still tidies what it did.
LEMMA ActiveWriteMess ==
    ASSUME Grounds, SoleInv, NEW m, MessInv(m), NEW t \in Tasks, Good(t),
           NEW status \in Active, NEW js, NEW j \in Jobs, j = task[t].job,
           Writes(j, status, js), UNCHANGED backup, retries' = retries,
           row[j].status \in Active, ~row[j].js.rberr, row[j].js.id = js.id,
           task[t].role # "setup",
           NEW role, NEW pc, Moves(t, role, pc, js), role # "retry",
           pc \notin {"finish", "ended_ok", "succeed", "save"},
           Exists(js.id) /\ Bad(m, js, backup[j]) => FailedRollback(js.id),
           RowTidies(m, j) =>
               Bad(m, js, backup[j]) \/ Tidies(m, row[j].kind, js, backup[j]),
           \A i \in Instances : Dirty(m, i)' =>
               \/ Dirty(m, i)
               \/ /\ i = js.id /\ i = task[t].js.id /\ Quiet(t) /\ Exists(i)
                  /\ \/ Bad(m, js, backup[j])
                     \/ Tidies(m, row[j].kind, js, backup[j]),
           \A i \in Instances : Dirty(m, i)' /\ Exists(i) => inst'[i] \in Stages
    PROVE  MessGood(m, t)
<1>1. /\ row'[j].js = js /\ row'[j].status = status /\ backup'[j] = backup[j]
      /\ RestKept(t) /\ row'[j].kind = row[j].kind
  BY RestIsKept DEF Writes
<1>2. \A i : ~Blames(j, i)
  BY DEF Blames
<1>3. \A i : (FailedRollback(i) => FailedRollback(i)')
             /\ (Root(m, i) => Root(m, i)')
  BY <1>1, <1>2, AnswersKept
<1>4. ASSUME NEW i \in Instances, i = js.id, inst'[i] \in Stages,
             Bad(m, js, backup[j])
      PROVE  FailedRollback(i)' /\ (retries = 0 => Root(m, i)')
  <2>1. Exists(i)
    BY <1>4, OtherRow
  <2>2. FailedRollback(i)
    BY <1>4, <2>1
  <2> QED
    BY <1>3, <2>1, <2>2, BlameHasRoot
<1>5. MessFits(m, task[t])'
  <2>1. Answered(m, t, js)
    BY <1>1, <1>4 DEF Answered
  <2> QED
    BY <2>1, MovesFit
<1>6. ASSUME NEW i \in Instances, i = js.id, inst'[i] \in Stages,
             Bad(m, js, backup[j]) \/ Tidies(m, row[j].kind, js, backup[j])
      PROVE  Covered(m, i)'
  <2>1. Exists(i)'
    BY <1>6 DEF Exists
  <2>2. CASE Bad(m, js, backup[j])
    BY <1>4, <1>6, <2>1, <2>2 DEF Covered
  <2>3. CASE Tidies(m, row[j].kind, js, backup[j])
    <3>1. WillTidy(m, j, i)'
      BY <1>1, <1>6, <2>3 DEF WillTidy, RowTidies, IsActive
    <3> QED
      BY <2>1, <3>1 DEF Covered
  <2> QED
    BY <1>6, <2>2, <2>3
<1>7. ASSUME NEW i \in Instances, Dirty(m, i)'
      PROVE  /\ inst'[i] \in Stages
             /\ ~Dirty(m, i) =>
                   Covered(m, i)' /\ i = task[t].js.id /\ Quiet(t)
             /\ WillTidy(m, j, i) => Covered(m, i)'
  <2>1. inst'[i] \in Stages
    BY <1>7, DirtExists
  <2>2. ~Dirty(m, i) => Covered(m, i)' /\ i = task[t].js.id /\ Quiet(t)
    BY <1>6, <1>7, <2>1
  <2>3. WillTidy(m, j, i) => Covered(m, i)'
    BY <1>6, <2>1 DEF WillTidy
  <2> QED
    BY <2>1, <2>2, <2>3
<1>8. \A i : ~Creates(t, i)
  BY DEF Creates
<1> QED
  BY <1>2, <1>4, <1>5, <1>7, <1>8, WritesMess

\* A run_job task that has taken the job is not disturbed.
LEMMA RunQuiet ==
    ASSUME SerialInv, NEW t \in Tasks, task[t].role = "run", Past(task[t])
    PROVE  Quiet(t)
<1>1. /\ task[t].job # None
      /\ task[t].pc \notin {"read", "acquire", "claim"}
  BY Acting DEF SerialInv, TasksPlaced, Placed, Past, Waiting, PermitPcs
<1>2. ASSUME NEW s \in Tasks \ {t}, task[s].job = task[t].job
      PROVE  ~Past(task[s]) /\ task[s].pc # "finish"
  <2>1. Paired(task[s], task[t])
    BY <1>1, <1>2 DEF SerialInv, Separate, Company
  <2> QED
    BY <2>1 DEF Paired, Past
<1> QED
  BY <1>2 DEF Quiet

\* An active row tidies up what it puts back to a stage, or what it puts back
\* is answered for.
LEMMA OwnCovers ==
    ASSUME NEW m, MessInv(m), NEW j \in Jobs, NEW i, IsActive(j), row[j].js.id = i,
           Exists(i), m # "files", row[j].kind = "create" \/ row[j].js.rb # None
    PROVE  FailedRollback(i) \/ WillTidy(m, j, i)
BY DEF MessInv, RowMess, WillTidy, RowTidies, Tidies, RowBad

LEMMA AcquireMess ==
    ASSUME Grounds, SoleInv, NEW m, MessInv(m), NEW t \in Tasks, Good(t),
           retries' = retries, RunRead(t) \/ Acquire(t)
    PROVE  MessGood(m, t)
<1>1. /\ task[t].role = "run" /\ task[t].pc \in {"read", "acquire"}
      /\ UNCHANGED <<row, inst, content, backup>>
  BY AcquireDoes DEF Grounds
<1>2. \/ Idles(t)
      \/ \E role, pc, js :
            /\ Moves(t, role, pc, js) /\ role # "retry"
            /\ pc \notin {"finish", "ended_ok", "succeed", "save"}
            /\ \/ task[t].role # "retry" /\ js = task[t].js
               \/ IsActive(task[t].job) /\ js = row[task[t].job].js
  BY <1>1, AcquireDoes DEF Grounds, IsActive, Active
<1> QED
  BY <1>1, <1>2, MoveMess

LEMMA ClaimMess ==
    ASSUME Grounds, SoleInv, NEW m, MessInv(m), NEW t \in Tasks, Good(t),
           retries' = retries, Claim(t)
    PROVE  MessGood(m, t)
<1>1. /\ task[t].role = "run" /\ task[t].pc = "claim"
      /\ UNCHANGED <<inst, content, backup>>
  BY ClaimDoes DEF Grounds
<1>2. CASE /\ UNCHANGED row
           /\ Idles(t) \/ Moves(t, "stranded", "check", task[t].js)
  BY <1>1, <1>2, MoveMess
<1>3. CASE /\ row[task[t].job].status = "queued"
           /\ Writes(task[t].job, "running", task[t].js)
           /\ Moves(t, "run", "work", task[t].js)
  <2> PICK j \in Jobs : j = task[t].job
    BY <1>1, Grounded
  <2> PICK js : js = task[t].js
    OBVIOUS
  <2>1. /\ row[j].status \in Active /\ ~row[j].js.rberr /\ js.id = row[j].js.id
        /\ js.rb = row[j].js.rb /\ ~js.staging /\ ~row[j].js.staging
    BY <1>1, <1>3, Grounded
    DEF SameId, Copied, Agrees, Holding, RowFits, Active
  <2>2. \A files : Bad(m, js, files) <=> Bad(m, row[j].js, files)
    BY <2>1 DEF Bad, Messy
  <2>3. RowMess(m, j)
    BY DEF MessInv
  <2>4. Exists(js.id) /\ Bad(m, js, backup[j]) => FailedRollback(js.id)
    BY <2>1, <2>2, <2>3 DEF RowMess, RowBad, IsActive
  <2>5. RowTidies(m, j) => Tidies(m, row[j].kind, js, backup[j])
    BY <2>1, <2>2 DEF RowTidies, Tidies
  <2>6. \A i \in Instances : /\ Dirty(m, i)' => Dirty(m, i)
                             /\ Exists(i) => inst'[i] \in Stages
    BY <1>1 DEF Dirty, Exists
  <2> QED
    BY <1>1, <1>3, <2>1, <2>4, <2>5, <2>6, ActiveWriteMess DEF Active
<1> QED
  BY <1>2, <1>3, ClaimDoes DEF Grounds

LEMMA WorkNewMess ==
    ASSUME Grounds, SoleInv, NEW m, MessInv(m), NEW t \in Tasks, Good(t),
           retries' = retries, WorkNew(t)
    PROVE  MessGood(m, t)
<1>1. /\ task[t].role = "run" /\ task[t].pc = "work"
      /\ row[task[t].job].kind = "create" /\ UNCHANGED <<row, content, backup>>
  BY WorkNewDoes DEF Grounds
<1>2. CASE Moves(t, "run", "ended_err", task[t].js) /\ UNCHANGED inst
  BY <1>1, <1>2, MoveMess
<1>3. CASE /\ Exists(task[t].js.id) /\ IsActive(task[t].job)
           /\ StageTo(task[t].js.id, "installing")
           /\ Moves(t, "run", "install", task[t].js)
  <2>1. /\ RowsKept /\ Quiet(t) /\ task[t].job \in Jobs
        /\ row[task[t].job].js.id = task[t].js.id
    BY <1>1, <1>3, Grounded, RunQuiet
    DEF RowsKept, SameId, IsActive, Past, Waiting, Grounds
  <2>2. MessFits(m, task[t])'
    <3>1. Answered(m, t, task[t].js)
      BY <1>1, <2>1, OwnAnswered
    <3> QED
      BY <1>3, <3>1, MovesFit
  <2>3. ASSUME NEW i \in Instances, Dirty(m, i)'
        PROVE  /\ inst'[i] \in Stages
               /\ \/ Dirty(m, i)
                  \/ /\ i = task[t].js.id
                     /\ FailedRollback(i) \/ WillTidy(m, task[t].job, i)
    <3>1. CASE i = task[t].js.id
      <4>1. m = "files" => Dirty(m, i)
        BY <1>1, <2>3 DEF Dirty, Messy
      <4>2. m # "files" => FailedRollback(i) \/ WillTidy(m, task[t].job, i)
        BY <1>1, <1>3, <2>1, <3>1, OwnCovers
      <4> QED
        BY <1>3, <3>1, <4>1, <4>2 DEF StageTo, Stages
    <3>2. CASE i # task[t].js.id
      <4>1. Dirty(m, i) /\ inst'[i] = inst[i]
        BY <1>1, <1>3, <2>3, <3>2 DEF Dirty, StageTo
      <4> QED
        BY <4>1, DirtExists DEF Exists
    <3> QED
      BY <3>1, <3>2
  <2>4. \A i \in Instances : DirtKept(m, t, i)
    BY <1>1, <2>1, <2>3 DEF DirtKept, Creates
  <2> QED
    BY <1>1, <2>1, <2>2, <2>4, RowsStayMess
<1> QED
  BY <1>1, <1>2, <1>3, WorkNewDoes DEF Grounds

LEMMA WorkExistingMess ==
    ASSUME Grounds, SoleInv, NEW m, MessInv(m), NEW t \in Tasks, Good(t),
           m = "files" => "pack" \notin Kinds,
           retries' = retries, WorkExisting(t)
    PROVE  MessGood(m, t)
<1>1. /\ task[t].role = "run" /\ task[t].pc = "work" /\ UNCHANGED backup
      /\ row[task[t].job].kind # "create"
      /\ row[task[t].job].kind # "pack" => UNCHANGED content
  BY WorkExistingDoes DEF Grounds
<1>2. CASE /\ UNCHANGED <<row, inst, content>>
           /\ Moves(t, "run", "ended_err", task[t].js)
  BY <1>1, <1>2, MoveMess
<1>3. ASSUME NEW pc, NEW js, WorkGoesOn(t, pc, js)
      PROVE  MessGood(m, t)
  <2> PICK j \in Jobs : j = task[t].job
    BY <1>1, Grounded
  <2>1. /\ row[j].status = "running" /\ ~row[j].js.rberr /\ Quiet(t)
        /\ row[j].js.rb # None /\ task[t].js.id = row[j].js.id
        /\ task[t].js.rb = row[j].js.rb /\ ~task[t].js.staging
        /\ ~row[j].js.staging /\ row[j].kind \in Kinds
    BY <1>1, Grounded, RunQuiet
    DEF Sole, SameId, Copied, Agrees, Holding, RowFits, Active, Past, Waiting,
        Grounds, SoleInv
  <2>2. /\ js.id = row[j].js.id /\ js.rb = row[j].js.rb /\ ~js.staging
        /\ js.id = task[t].js.id /\ Exists(js.id) /\ js.id \in Instances
        /\ StageTo(js.id, "installing") /\ Moves(t, "run", pc, js)
    BY <1>3, <2>1 DEF WorkGoesOn, SameButRb, Exists
  <2>3. \A files : Bad(m, js, files) <=> Bad(m, row[j].js, files)
    BY <2>1, <2>2 DEF Bad, Messy
  <2>4. Bad(m, js, backup[j]) => FailedRollback(js.id)
    <3>1. RowMess(m, j)
      BY DEF MessInv
    <3> QED
      BY <2>1, <2>2, <2>3, <3>1 DEF RowMess, RowBad, IsActive, Active
  <2>5. m # "files" =>
          Bad(m, js, backup[j]) \/ Tidies(m, row[j].kind, js, backup[j])
    BY <2>1, <2>2 DEF Tidies
  <2>6. ASSUME NEW i \in Instances, Dirty(m, i)'
        PROVE  /\ Exists(i) => inst'[i] \in Stages
               /\ Dirty(m, i) \/ (m # "files" /\ i = js.id)
    <3>1. m = "files" => content' = content
      BY <1>1, <2>1
    <3> QED
      BY <2>2, <2>6, <3>1 DEF StageTo, Dirty, Messy, Stages, Exists
  <2>7. CASE pc = "backup" /\ UNCHANGED row /\ row[j].kind = "update"
    <3>1. RowsKept
      BY <2>7 DEF RowsKept
    <3>2. \A i \in Instances : i = js.id /\ m # "files" =>
             FailedRollback(i) \/ WillTidy(m, j, i)
      BY <2>1, <2>2, OwnCovers DEF IsActive, Active
    <3>3. \A i \in Instances : DirtKept(m, t, i)
      BY <1>1, <2>1, <2>2, <2>6, <3>2, DirtExists DEF DirtKept, Creates
    <3>4. MessFits(m, task[t])'
      <4>1. FailedRollback(js.id) => FailedRollback(js.id)'
        BY <3>1, RestIsKept, FailedStays DEF RowsKept, Blames
      <4>2. Answered(m, t, js)
        BY <1>1, <2>4, <4>1 DEF Answered
      <4> QED
        BY <2>2, <2>7, <4>2, MovesFit
    <3> QED
      BY <1>1, <3>1, <3>3, <3>4, RowsStayMess
  <2>8. CASE pc = "install" /\ Writes(j, row[j].status, js)
    <3>1. RowTidies(m, j) => Tidies(m, row[j].kind, js, backup[j])
      BY <2>1, <2>2, <2>3 DEF RowTidies, Tidies
    <3> QED
      BY <1>1, <2>1, <2>2, <2>4, <2>5, <2>6, <2>8, <3>1, ActiveWriteMess DEF Active
  <2> QED
    BY <1>3, <2>1, <2>7, <2>8 DEF WorkGoesOn, IsActive, Active
<1> QED
  BY <1>1, <1>2, <1>3, WorkExistingDoes DEF Grounds

\* Whatever covers the instance of a task is its own row, or a failed rollback.
LEMMA CoveredByOwn ==
    ASSUME Grounds, SoleInv, NEW m, NEW t \in Tasks, m # "stage",
           task[t].pc \notin {"idle", "list", "next"},
           NEW i \in Instances, i = task[t].js.id, Covered(m, i),
           NEW j \in Jobs, j = task[t].job
    PROVE  FailedRollback(i) \/ WillTidy(m, j, i)
<1>1. ASSUME NEW k \in Jobs, WillTidy(m, k, i) PROVE k = j
  <2>1. IsActive(k) /\ row[k].js.id = i
    BY <1>1 DEF WillTidy
  <2>2. SerialInv /\ task[t].job # None /\ None \notin Instances
    BY Grounded
  <2> QED
    BY <2>1, <2>2 DEF SerialInv, Separate, TaskRowApart
<1> QED
  BY <1>1 DEF Covered

LEMMA BackupMess ==
    ASSUME Grounds, SoleInv, NEW m, MessInv(m), NEW t \in Tasks, Good(t),
           retries' = retries, Backup(t)
    PROVE  MessGood(m, t)
<1>1. /\ task[t].role = "run" /\ task[t].pc = "backup"
      /\ UNCHANGED <<row, inst, content>>
      /\ \A k \in Jobs \ {task[t].job} : backup'[k] = backup[k]
  BY BackupDoes DEF Grounds
<1> PICK j \in Jobs : j = task[t].job
  BY <1>1, Grounded
<1>2. /\ RowsKept /\ MessFits(m, task[t]) /\ ~task[t].js.staging
      /\ ~row[j].js.staging
  BY <1>1, Grounded DEF RowsKept, MessInv, RowFits
<1>3. \A i \in Instances : FailedRollback(i) => FailedRollback(i)'
  BY <1>2, RestIsKept, FailedStays DEF RowsKept, Blames
<1>4. ASSUME m # "files", NEW js, js.id = task[t].js.id, js.rb = task[t].js.rb
      PROVE  Answered(m, t, js)
  <2>1. \A files : Bad(m, js, files) => Bad(m, task[t].js, backup[task[t].job])
    BY <1>4 DEF Bad, Messy
  <2>2. \A i \in Instances : i = js.id /\ inst'[i] \in Stages => Exists(task[t].js.id)
    BY <1>1, <1>4 DEF Exists
  <2> QED
    BY <1>1, <1>2, <1>3, <1>4, <2>1, <2>2 DEF Answered, MessFits
<1>5. task'[t].job # None => MessFits(m, task[t])'
  <2>1. CASE Moves(t, "run", "ended_err", task[t].js)
    <3>1. Answered(m, t, task[t].js)
      BY <1>2, <1>4 DEF Answered, Bad
    <3> QED
      BY <2>1, <3>1, MovesFit
  <2>2. ASSUME NEW js, Moves(t, "run", "save", js), js.id = task[t].js.id,
               js.rb = task[t].js.rb, js.staging, Exists(js.id),
               backup'[j] = content[js.id]
        PROVE  MessFits(m, task[t])'
    <3>1. ASSUME m = "files", Bad(m, js, backup'[j]) PROVE FailedRollback(js.id)
      <4>1. Dirty(m, js.id) /\ js.id \in Instances
        BY <2>2, <3>1 DEF Bad, Dirty, Messy, Exists
      <4>2. ~WillTidy(m, j, js.id)
        BY <1>2, <3>1 DEF WillTidy, RowTidies, Tidies
      <4>3. Covered(m, js.id)
        BY <4>1, DirtExists
      <4> QED
        BY <1>1, <2>2, <3>1, <4>1, <4>2, <4>3, CoveredByOwn
    <3>2. Answered(m, t, js)
      BY <1>3, <1>4, <2>2, <3>1 DEF Answered
    <3> QED
      BY <2>2, <3>2, MovesFit
  <2> QED
    BY <2>1, <2>2, BackupDoes DEF Grounds
<1>6. \A k \in Jobs : \/ backup'[k] \in {backup[k], "none"}
                      \/ At(t, "run", "backup") /\ k = task[t].job
  BY <1>1 DEF At
<1>7. \A i \in Instances : DirtKept(m, t, i)
  <2>1. \A i \in Instances : Dirty(m, i)' => Dirty(m, i)
    BY <1>1 DEF Dirty
  <2> QED
    BY <1>1, <2>1, DirtExists DEF DirtKept, Creates, Exists
<1> QED
  BY <1>2, <1>5, <1>6, <1>7, RowsStayMess

LEMMA SaveBackupMess ==
    ASSUME Grounds, SoleInv, NEW m, MessInv(m), NEW t \in Tasks, Good(t),
           retries' = retries, SaveBackup(t)
    PROVE  MessGood(m, t)
<1>1. /\ task[t].role = "run" /\ task[t].pc = "save" /\ UNCHANGED <<inst, backup>>
  BY SaveBackupDoes DEF Grounds
<1>2. CASE UNCHANGED <<row, content>> /\ Moves(t, "run", "ended_err", task[t].js)
  BY <1>1, <1>2, MoveMess
<1>3. CASE /\ Writes(task[t].job, row[task[t].job].status, task[t].js)
           /\ Moves(t, "run", "install", task[t].js)
           /\ IF Exists(task[t].js.id) THEN FilesTo(task[t].js.id, "mixed")
                                       ELSE UNCHANGED content
  <2> PICK j \in Jobs : j = task[t].job
    BY <1>1, Grounded
  <2> PICK js : js = task[t].js
    OBVIOUS
  <2>1. /\ row[j].status = "running" /\ ~row[j].js.rberr /\ Quiet(t)
        /\ row[j].js.rb # None /\ js.id = row[j].js.id
        /\ js.rb = row[j].js.rb /\ js.staging /\ MessFits(m, task[t])
        /\ row[j].kind = "update"
    BY <1>1, Grounded, RunQuiet
    DEF Sole, SameId, Copied, Agrees, Holding, Active, Past, Waiting,
        Grounds, MessInv, MessFits
  <2>2. Exists(js.id) /\ Bad(m, js, backup[j]) => FailedRollback(js.id)
    BY <1>1, <2>1 DEF MessFits
  <2>3. Bad(m, js, backup[j]) \/ Tidies(m, row[j].kind, js, backup[j])
    BY <2>1 DEF Tidies
  <2>4. \A i \in Instances :
           /\ Exists(i) => inst'[i] \in Stages
           /\ Dirty(m, i)' => Dirty(m, i) \/ (i = js.id /\ Exists(i))
    BY <1>1, <1>3 DEF FilesTo, Dirty, Exists
  <2> QED
    BY <1>1, <1>3, <2>1, <2>2, <2>3, <2>4, ActiveWriteMess DEF Active
<1> QED
  BY <1>2, <1>3, SaveBackupDoes DEF Grounds

LEMMA InstallMess ==
    ASSUME Grounds, SoleInv, NEW m, MessInv(m), NEW t \in Tasks, Good(t),
           retries' = retries, Install(t)
    PROVE  MessGood(m, t)
<1>1. /\ task[t].role = "run" /\ task[t].pc = "install"
      /\ UNCHANGED <<row, backup>>
  BY InstallDoes DEF Grounds
<1> PICK j \in Jobs : j = task[t].job
  BY <1>1, Grounded
<1>2. /\ RowsKept /\ Answered(m, t, task[t].js)
  BY <1>1, OwnAnswered DEF RowsKept
<1>3. ASSUME \A i \in Instances : /\ Dirty(m, i)' => Dirty(m, i)
                                  /\ Dirty(m, i)' /\ Exists(i) => inst'[i] \in Stages,
             MessFits(m, task[t])'
      PROVE  MessGood(m, t)
  <2>1. \A i \in Instances : DirtKept(m, t, i)
    BY <1>1, <1>3, DirtExists DEF DirtKept, Creates
  <2> QED
    BY <1>1, <1>2, <1>3, <2>1, RowsStayMess
<1>4. CASE /\ Moves(t, "run", "ended_ok", task[t].js) /\ UNCHANGED inst
           /\ IF Exists(task[t].js.id) /\ row[j].kind # "existing"
              THEN FilesTo(task[t].js.id, "clean") ELSE UNCHANGED content
  <2>1. \A i \in Instances : /\ Dirty(m, i)' => Dirty(m, i)
                             /\ Exists(i) => inst'[i] \in Stages
    BY <1>4 DEF FilesTo, Dirty, Messy, Exists
  <2>2. /\ task'[t].role = "run" /\ task'[t].pc = "ended_ok"
        /\ task'[t].js = task[t].js /\ task'[t].job = j
    BY <1>4 DEF Moves
  <2>3. Exists(task[t].js.id)' /\ Bad(m, task[t].js, backup[task[t].job])' =>
          FailedRollback(task[t].js.id)'
    BY <1>2, <2>2 DEF Answered, Exists
  <2>4. ASSUME m = "files", NEW i \in Instances, i = task[t].js.id,
               inst'[i] \in Stages, Dirty(m, i)'
        PROVE  FailedRollback(i)'
    <3>1. Dirty(m, i) /\ Exists(i)
      BY <2>1, <2>4, DirtExists
    <3>2. row[j].kind = "existing"
      BY <1>4, <2>4, <3>1 DEF FilesTo, Dirty, Messy
    <3>3. ~row[j].js.staging
      BY <1>1, <3>2, Grounded DEF RowShaped, Shaped
    <3>4. ~WillTidy(m, j, i)
      BY <2>4, <3>3 DEF WillTidy, RowTidies, Tidies
    <3>5. FailedRollback(i)
      BY <1>1, <2>4, <3>1, <3>4, DirtExists, CoveredByOwn
    <3> QED
      BY <1>1, <3>5 DEF FailedRollback
  <2>5. m = "files" /\ Exists(task[t].js.id)' /\ Dirty(m, task[t].js.id)' =>
           FailedRollback(task[t].js.id)'
    BY <2>2, <2>4 DEF Exists
  <2>6. MessFits(m, task[t])'
    BY <2>2, <2>3, <2>5 DEF MessFits
  <2> QED
    BY <1>3, <2>1, <2>6
<1>5. CASE /\ Moves(t, "run", "ended_err", task[t].js) /\ UNCHANGED content
           /\ IF Exists(task[t].js.id) THEN StageTo(task[t].js.id, task[t].prev)
                                       ELSE UNCHANGED inst
  <2>1. Exists(task[t].js.id) =>
           inst[task[t].js.id] = "installing" /\ task[t].prev \in Stages
    BY <1>1 DEF Grounds, SerialInv, LaunchBlockedWhileInstalling, TypeOK,
       WellFormed, Task, Stages
  <2>2. \A i \in Instances : /\ Dirty(m, i)' => Dirty(m, i)
                             /\ Exists(i) => inst'[i] \in Stages
    BY <1>5, <2>1 DEF StageTo, Dirty, Messy, Exists
  <2>3. MessFits(m, task[t])'
    BY <1>2, <1>5, MovesFit
  <2> QED
    BY <1>3, <2>2, <2>3
<1> QED
  BY <1>4, <1>5, InstallDoes DEF Grounds

LEMMA RereadMess ==
    ASSUME Grounds, SoleInv, NEW m, MessInv(m), NEW t \in Tasks, Good(t),
           retries' = retries, Reread(t)
    PROVE  MessGood(m, t)
<1>1. /\ task[t].role = "run" /\ task[t].pc \in {"ended_ok", "ended_err"}
      /\ UNCHANGED <<row, inst, content, backup>>
  BY RereadDoes DEF Grounds
<1> PICK j \in Jobs : j = task[t].job
  BY <1>1, Grounded
<1>2. CASE \/ Idles(t)
           \/ row[j].status = "running" /\ Moves(t, "run", "cleanup", row[j].js)
           \/ Moves(t, "run", "cleanup", task[t].js)
  BY <1>1, <1>2, MoveMess DEF IsActive, Active
<1>3. ASSUME row[j].status = "running", task[t].pc = "ended_ok", NEW js,
             Moves(t, "run", "succeed", js), js.id = task[t].js.id,
             SameButId(js, row[j].js)
      PROVE  MessGood(m, t)
  <2>1. /\ RowsKept /\ js.id = row[j].js.id /\ MessFits(m, task[t])
        /\ IsActive(j)
    BY <1>1, <1>3, Grounded DEF SameId, RowsKept, MessInv, IsActive, Active
  <2>2. Answered(m, t, row[j].js)
    BY <1>1, <2>1, OwnAnswered
  <2>3. Answered(m, t, js)
    BY <1>3, <2>1, <2>2 DEF Answered, SameButId, Bad, Messy
  <2>4. /\ task'[t].role = "run" /\ task'[t].pc = "succeed"
        /\ task'[t].js = js /\ task'[t].job = j
    BY <1>3 DEF Moves
  <2>5. Exists(task[t].js.id)' /\ Bad(m, task[t].js, backup[task[t].job])' =>
          FailedRollback(task[t].js.id)'
    BY <2>3, <2>4 DEF Answered, Exists
  <2>6. m = "files" /\ Exists(js.id) /\ Dirty(m, js.id) => FailedRollback(js.id)
    BY <1>1, <1>3, <2>1 DEF MessFits
  <2>7. m = "files" /\ Exists(js.id)' /\ Dirty(m, js.id)' => FailedRollback(js.id)'
    BY <1>1, <2>6 DEF Exists, Dirty, FailedRollback
  <2>8. MessFits(m, task[t])'
    BY <2>4, <2>5, <2>7 DEF MessFits
  <2> QED
    BY <1>1, <2>8, StayMess
<1>4. CASE task[t].pc = "ended_ok" /\ Moves(t, "run", "succeed", task[t].js)
  <2>1. /\ RowsKept /\ MessFits(m, task[t])
        /\ task'[t].role = "run" /\ task'[t].pc = "succeed"
        /\ task'[t].js = task[t].js /\ task'[t].job = j
    BY <1>1, <1>4, Grounded DEF RowsKept, MessInv, Moves
  <2>2. MessFits(m, task[t])'
    BY <1>1, <1>4, <2>1
    DEF MessFits, Exists, Dirty, FailedRollback
  <2> QED
    BY <1>1, <2>2, StayMess
<1> QED
  BY <1>1, <1>2, <1>3, <1>4, RereadDoes DEF Grounds

LEMMA SucceedMess ==
    ASSUME Grounds, SoleInv, NEW m, MessInv(m), NEW t \in Tasks, Good(t),
           retries' = retries, Succeed(t)
    PROVE  MessGood(m, t)
<1>1. /\ task[t].role = "run" /\ task[t].pc = "succeed"
      /\ UNCHANGED <<content, backup>>
  BY SucceedDoes DEF Grounds
<1> PICK j \in Jobs : j = task[t].job
  BY <1>1, Grounded
<1>2. CASE /\ UNCHANGED <<row, inst>>
           /\ Idles(t) \/ Moves(t, "stranded", "check", task[t].js)
  BY <1>1, <1>2, MoveMess
<1>3. ASSUME NEW js, row[j].status = "running", Exists(js.id),
             js.id = task[t].js.id, js.rb = task[t].js.rb, ~js.rberr,
             js.staging = task[t].js.staging, Writes(j, "succeeded", js),
             StageTo(js.id, "installed"),
             Idles(t) \/ (js.staging /\ Moves(t, "run", "clear", js))
      PROVE  MessGood(m, t)
  <2>1. /\ js.id = row[j].js.id /\ MessFits(m, task[t]) /\ ~row[j].js.rberr
        /\ RestKept(t) /\ js.id \in Instances
    BY <1>1, <1>3, Grounded, RestIsKept DEF SameId, MessInv, Active, Exists
  <2>2. \A i : ~Blames(j, i)
    BY <2>1 DEF Blames
  <2>3. \A i : FailedRollback(i) => FailedRollback(i)'
    BY <2>1, <2>2, FailedStays
  <2>4. Answered(m, t, js)
    BY <1>1, <1>3, <2>1, <2>3 DEF Answered, MessFits, Bad, Messy
  <2>5. task'[t].job # None => MessFits(m, task[t])'
    BY <1>3, <2>4, MovesFit DEF Idles
  <2>6. ASSUME NEW i \in Instances, Dirty(m, i)'
        PROVE  /\ inst'[i] \in Stages /\ Dirty(m, i)
               /\ WillTidy(m, j, i) => Covered(m, i)'
    <3>1. CASE i = js.id
      <4>1. m = "files" /\ inst'[i] = "installed" /\ Dirty(m, i)
        BY <1>1, <1>3, <2>6, <3>1 DEF StageTo, Dirty, Messy
      <4>2. FailedRollback(i)'
        BY <1>1, <1>3, <2>1, <2>3, <3>1, <4>1 DEF MessFits
      <4> QED
        BY <4>1, <4>2 DEF Covered, Exists, Stages
    <3>2. CASE i # js.id
      <4>1. Dirty(m, i) /\ inst'[i] = inst[i]
        BY <1>1, <1>3, <2>6, <3>2 DEF StageTo, Dirty
      <4> QED
        BY <2>1, <3>2, <4>1, DirtExists DEF Exists, WillTidy
    <3> QED
      BY <3>1, <3>2
  <2>7. \A i : ~Creates(t, i)
    BY <1>1 DEF Creates
  <2>8. "succeeded" \notin Active
    BY DEF Active
  <2>9. UNCHANGED backup /\ ~js.rberr
    BY <1>1, <1>3
  <2>10. Writes(j, "succeeded", js)
    BY <1>3
  <2> HIDE <1>1, <1>3
  <2> QED
    BY <2>2, <2>5, <2>6, <2>7, <2>8, <2>9, <2>10, WritesMess
<1> QED
  BY <1>2, <1>3, SucceedDoes DEF Grounds

LEMMA CheckStrandedMess ==
    ASSUME Grounds, SoleInv, NEW m, MessInv(m), NEW t \in Tasks, Good(t),
           retries' = retries, CheckStranded(t)
    PROVE  MessGood(m, t)
<1>1. /\ task[t].role = "stranded" /\ task[t].pc = "check"
      /\ UNCHANGED <<row, inst, content, backup>>
      /\ \/ Idles(t)
         \/ /\ IsActive(task[t].job)
            /\ Moves(t, "stranded", "cleanup", row[task[t].job].js)
  BY CheckStrandedDoes DEF Grounds
<1> QED
  BY <1>1, MoveMess

LEMMA SetupMess ==
    ASSUME Grounds, SoleInv, NEW m, MessInv(m), NEW t \in Tasks, Good(t),
           retries' = retries, Setup(t)
    PROVE  MessGood(m, t)
BY RequeueMess, PrepareNewMess, PrepareExistingMess, PersistMess,
   LockAndSpawnMess DEF Setup

LEMMA RunMess ==
    ASSUME Grounds, SoleInv, NEW m, MessInv(m), NEW t \in Tasks, Good(t),
           m = "files" => "pack" \notin Kinds,
           retries' = retries, Run(t)
    PROVE  MessGood(m, t)
BY AcquireMess, ClaimMess, WorkNewMess, WorkExistingMess, BackupMess,
   SaveBackupMess, InstallMess, RereadMess, SucceedMess, CheckStrandedMess
DEF Run

LEMMA UndoBackups ==
    ASSUME SerialInv, NEW t \in Tasks, Undo(t)
    PROVE  \A k \in Jobs : backup'[k] \in {backup[k], "none"}
<1> SerialInv => backup \in [Jobs -> {"none", "clean", "mixed"}]
  BY DEF SerialInv, TypeOK
<1>1. ASSUME NEW ok, CleanedUp(t, ok)
      PROVE  \A k \in Jobs : backup'[k] \in {backup[k], "none"}
  BY <1>1 DEF CleanedUp
<1>2. CASE RemoveNewInstance(t)
  BY <1>1, <1>2 DEF RemoveNewInstance
<1>3. CASE NothingToUndo(t) \/ RestoreStage(t)
  BY <1>1, <1>3 DEF NothingToUndo, RestoreStage
<1>4. CASE BeginRestore(t) \/ EndRestore(t)
  BY <1>1, <1>4 DEF BeginRestore, EndRestore
<1>5. CASE FailJob(t) \/ InterruptJob(t)
  BY <1>5 DEF FailJob, InterruptJob, Terminalize
<1>6. CASE ClearStaging(t)
  BY <1>6 DEF ClearStaging
<1> QED
  BY <1>2, <1>3, <1>4, <1>5, <1>6 DEF Undo

\* The same for any mess, unless the instance may have been created just now.
LEMMA CoveredHere ==
    ASSUME Grounds, SoleInv, NEW m, MessInv(m), NEW t \in Tasks,
           task[t].pc \notin {"idle", "list", "next"},
           NEW i \in Instances, i = task[t].js.id, Dirty(m, i),
           NEW j \in Jobs, j = task[t].job, row[j].kind # "create"
    PROVE  FailedRollback(i) \/ WillTidy(m, j, i)
<1>1. SerialInv /\ task[t].job # None /\ None \notin Instances
  BY Grounded
<1>2. ASSUME NEW k \in Jobs, WillTidy(m, k, i) PROVE k = j
  <2>1. IsActive(k) /\ row[k].js.id = i
    BY <1>2 DEF WillTidy
  <2> QED
    BY <1>1, <2>1 DEF SerialInv, Separate, TaskRowApart
<1>3. ASSUME NEW s \in Tasks, Creates(s, i) PROVE FALSE
  <2>1. task[s].pc \notin {"idle", "list", "next"}
    BY <1>3 DEF Creates, SerialInv, TasksPlaced, Placed, Undoing, Grounds
  <2>2. task[s].job # None /\ task[s].js.id = i
    BY <1>3, <2>1, Grounded DEF Creates
  <2>3. task[s].job = j
    BY <1>1, <2>2 DEF SerialInv, Separate, TasksApart
  <2> QED
    BY <1>3, <2>3 DEF Creates
<1> QED
  BY <1>2, <1>3, DirtExists DEF Covered

\* A clean-up has returned.  What it has not restored, a failed rollback
\* answers for, and the retry of this one is not the only answer left.
LEMMA CleanedMess ==
    ASSUME Grounds, SoleInv, NEW m, MessInv(m), NEW t \in Tasks, Good(t),
           RowsKept, retries' = retries,
           task[t].pc \in {"cleanup", "restoring"}, NEW ok, CleanedTo(t, ok),
           \A k \in Jobs : backup'[k] \in {backup[k], "none"},
           \A i \in Instances : DirtKept(m, t, i),
           NEW j \in Jobs, j = task[t].job,
           ok /\ IsActive(j) => \A i \in Instances :
              i = row[j].js.id /\ inst'[i] \in Stages =>
                 row[j].kind # "create" /\ (Dirty(m, i)' => FailedRollback(i)),
           ok /\ task[t].role = "retry" => \A i \in Instances :
              i = task[t].js.id /\ inst'[i] \in Stages =>
                 row[j].kind # "create" /\ (Dirty(m, i)' => OfOther(i, j))
    PROVE  MessGood(m, t)
<1>1. /\ row'[j].kind = row[j].kind /\ row'[j].js = row[j].js
      /\ row'[j].status = row[j].status /\ RestKept(t)
      /\ \A k \in Jobs : row'[k].js = row[k].js
  BY RestIsKept DEF RowsKept
<1>2. \A i : /\ FailedRollback(i) => FailedRollback(i)'
             /\ OfOther(i, j) => OfOther(i, j)'
  BY <1>1, FailedStays DEF Blames, OfOther
<1>3. task[t].role # "retry" => Answered(m, t, task[t].js)
  BY OwnAnswered
<1>4. CASE Idles(t)
  BY <1>4, RowsStayMess DEF Idles
<1>5. ASSUME task[t].role # "retry", NEW js, Moves(t, task[t].role, "finish", js),
             js.rb = task[t].js.rb, js.staging = task[t].js.staging,
             js.id \in {None, task[t].js.id}, ~ok => js.rberr
      PROVE  MessGood(m, t)
  <2>1. /\ task'[t].role = task[t].role /\ task'[t].pc = "finish"
        /\ task'[t].js = js /\ task'[t].job = j
    BY <1>5 DEF Moves
  <2>2. Exists(js.id)' /\ Bad(m, js, backup'[j]) => FailedRollback(js.id)'
    <3>1. None \notin Instances
      BY ConstantsAssumption DEF Instances
    <3>2. Bad(m, js, backup'[j]) => Bad(m, task[t].js, backup'[j])
      BY <1>5 DEF Bad, Messy
    <3> QED
      BY <1>3, <1>5, <3>1, <3>2 DEF Answered, Exists
  <2>3. ~js.rberr /\ IsActive(j) /\ Exists(row[j].js.id)' =>
          row[j].kind # "create"
          /\ (Dirty(m, row[j].js.id)' => FailedRollback(row[j].js.id)')
    <3>1. ASSUME ~js.rberr, IsActive(j), NEW i \in Instances, i = row[j].js.id,
                 inst'[i] \in Stages
          PROVE  row[j].kind # "create" /\ (Dirty(m, i)' => FailedRollback(i)')
      BY <1>2, <1>5, <3>1
    <3> QED
      BY <1>1, <3>1 DEF Exists
  <2>4. MessFits(m, task[t])'
    BY <1>1, <1>5, <2>1, <2>2, <2>3 DEF MessFits, IsActive
  <2> QED
    BY <2>4, RowsStayMess
<1>6. ASSUME ok, task[t].role = "retry", Moves(t, "retry", "requeue", task[t].js)
      PROVE  MessGood(m, t)
  <2> PICK js : js = task[t].js
    OBVIOUS
  <2>1. /\ task'[t].role = "retry" /\ task'[t].pc = "requeue"
        /\ task'[t].js = js /\ task'[t].job = j
    BY <1>6 DEF Moves
  <2>2. Exists(js.id)' =>
          row[j].kind # "create" /\ (Dirty(m, js.id)' => OfOther(js.id, j)')
    <3>1. ASSUME NEW i \in Instances, i = js.id, inst'[i] \in Stages
          PROVE  row[j].kind # "create" /\ (Dirty(m, i)' => OfOther(i, j)')
      BY <1>2, <1>6, <3>1
    <3> QED
      BY <3>1 DEF Exists
  <2>3. MessFits(m, task[t])'
    BY <1>1, <2>1, <2>2 DEF MessFits
  <2> QED
    BY <2>3, RowsStayMess
<1> QED
  BY <1>4, <1>5, <1>6 DEF CleanedTo

LEMMA RemoveNewInstanceMess ==
    ASSUME Grounds, SoleInv, NEW m, MessInv(m), NEW t \in Tasks, Good(t),
           retries' = retries, RemoveNewInstance(t)
    PROVE  MessGood(m, t)
<1>1. /\ task[t].pc = "cleanup" /\ row[task[t].job].kind = "create"
      /\ Exists(task[t].js.id)
      /\ \A k \in Jobs : backup'[k] \in {backup[k], "none"}
  BY RemoveNewInstanceDoes, UndoBackups DEF Grounds, Undo
<1> PICK j \in Jobs : j = task[t].job
  BY <1>1, Grounded
<1> PICK id \in Instances : id = task[t].js.id
  BY <1>1 DEF Exists
<1>2. PICK ok \in BOOLEAN : /\ CleanedTo(t, ok)
                            /\ Drops(id) \/ (~ok /\ UNCHANGED <<row, inst, content>>)
  BY RemoveNewInstanceDoes DEF Grounds
<1>3. RowsKept /\ (Drops(id) => inst'[id] \notin Stages)
  BY <1>2 DEF RowsKept, Drops, Stages
<1>4. ASSUME NEW i \in Instances, Dirty(m, i)'
      PROVE  Dirty(m, i) /\ inst'[i] \in Stages /\ (i = id => ~Drops(id))
  <2>1. i = id => ~Drops(id)
    BY <1>4 DEF Drops, Dirty, Messy
  <2>2. inst'[i] = inst[i] /\ content'[i] = content[i]
    BY <1>2, <2>1 DEF Drops
  <2>3. Dirty(m, i)
    BY <1>4, <2>2 DEF Dirty
  <2> QED
    BY <2>1, <2>2, <2>3, DirtExists DEF Exists
<1>5. ASSUME NEW i \in Instances, Creates(t, i), Dirty(m, i)'
      PROVE  Creates(t, i)'
  <2>1. task[t].role = "setup" /\ i = id /\ ~ok
    BY <1>2, <1>4, <1>5 DEF Creates
  <2>2. PICK js : Moves(t, "setup", "finish", js) /\ js.id = id
    BY <1>2, <2>1 DEF CleanedTo
  <2>3. /\ task'[t].role = "setup" /\ task'[t].job = j /\ task'[t].js = js
        /\ row'[j].kind = "create"
    BY <1>1, <1>3, <2>2 DEF Moves, RowsKept
  <2> QED
    BY <2>1, <2>2, <2>3 DEF Creates
<1>6. \A i \in Instances : DirtKept(m, t, i)
  BY <1>4, <1>5 DEF DirtKept
<1>7. ok => \A i \in Instances :
         IsActive(j) /\ i = row[j].js.id /\ inst'[i] \in Stages => FALSE
  <2> SUFFICES ASSUME ok, NEW i \in Instances, IsActive(j), i = row[j].js.id,
                      inst'[i] \in Stages
               PROVE  FALSE
    OBVIOUS
  <2>1. task[t].role # "retry" /\ i # None
    BY <1>1, Grounded DEF RowFits, IsActive, Active
  <2>2. id = i
    BY <1>1, <2>1, CleansOwn DEF IsActive
  <2> QED
    BY <1>2, <1>3, <2>2
<1>8. ok => \A i \in Instances : i = task[t].js.id => inst'[i] \notin Stages
  BY <1>2, <1>3
<1>9. /\ ok /\ IsActive(j) => \A i \in Instances :
            i = row[j].js.id /\ inst'[i] \in Stages =>
               row[j].kind # "create" /\ (Dirty(m, i)' => FailedRollback(i))
      /\ ok /\ task[t].role = "retry" => \A i \in Instances :
            i = task[t].js.id /\ inst'[i] \in Stages =>
               row[j].kind # "create" /\ (Dirty(m, i)' => OfOther(i, j))
  BY <1>7, <1>8
<1> QED
  BY <1>1, <1>2, <1>3, <1>6, <1>9, CleanedMess

LEMMA NothingToUndoMess ==
    ASSUME Grounds, SoleInv, NEW m, MessInv(m), NEW t \in Tasks, Good(t),
           retries' = retries, NothingToUndo(t)
    PROVE  MessGood(m, t)
<1>1. /\ task[t].pc = "cleanup" /\ UNCHANGED <<row, inst, content>>
      /\ CleanedTo(t, TRUE)
      /\ \A k \in Jobs : backup'[k] \in {backup[k], "none"}
      /\ \/ row[task[t].job].kind = "create" /\ ~Exists(task[t].js.id)
         \/ row[task[t].job].kind # "create" /\ task[t].js.rb = None
  BY NothingToUndoDoes, UndoBackups DEF Grounds, Undo
<1> PICK j \in Jobs : j = task[t].job
  BY <1>1, Grounded
<1> PICK js : js = task[t].js
  OBVIOUS
<1>2. RowsKept /\ Shaped(row[j].kind, js)
  BY <1>1, Grounded DEF RowsKept, Copied
<1>3. \A i \in Instances : Dirty(m, i)' => Dirty(m, i) /\ Exists(i)
  BY <1>1, DirtExists DEF Dirty
<1>4. \A i \in Instances : DirtKept(m, t, i)
  <2>1. \A i \in Instances : Creates(t, i) => ~Exists(i)
    BY <1>1 DEF Creates
  <2> QED
    BY <1>1, <1>3, <2>1 DEF DirtKept, Exists
<1>5. ASSUME IsActive(j), NEW i \in Instances, i = row[j].js.id, inst'[i] \in Stages
      PROVE  row[j].kind # "create" /\ (Dirty(m, i)' => FailedRollback(i))
  <2>1. task[t].role # "retry" /\ i # None
    BY <1>1, <1>5, Grounded DEF RowFits, IsActive, Active
  <2>2. js.id = i
    BY <1>1, <1>5, <2>1, CleansOwn DEF IsActive
  <2>3. row[j].kind # "create" /\ js.rb = None
    BY <1>1, <1>5, <2>2 DEF Exists
  <2>4. ~row[j].js.staging /\ row[j].js.rb = None
    <3>1. task[t].role \in {"setup", "run", "cancel", "stranded", "recover"}
      BY <1>1, <2>1, Grounded DEF Placed, SerialInv, TypeOK, Task, Roles
    <3>2. Agrees(task[t], row[j])
      BY <1>1, <1>5, Grounded DEF Copied, IsActive
    <3> QED
      BY <1>1, <1>2, <2>1, <2>3, <3>1, <3>2 DEF Agrees, Staging, Holding, Shaped
  <2>5. ~WillTidy(m, j, i)
    BY <2>3, <2>4 DEF WillTidy, RowTidies, Tidies
  <2> QED
    BY <1>1, <1>3, <2>2, <2>3, <2>5, CoveredHere
<1>6. task[t].role = "retry" => \A i \in Instances :
         i = task[t].js.id => inst'[i] \notin Stages
  <2>1. task[t].role = "retry" => js.rberr
    BY <1>1, Grounded DEF Copied
  <2> QED
    BY <1>1, <1>2, <2>1 DEF Shaped, Exists
<1>7. /\ IsActive(j) => \A i \in Instances :
            i = row[j].js.id /\ inst'[i] \in Stages =>
               row[j].kind # "create" /\ (Dirty(m, i)' => FailedRollback(i))
      /\ task[t].role = "retry" => \A i \in Instances :
            i = task[t].js.id /\ inst'[i] \in Stages =>
               row[j].kind # "create" /\ (Dirty(m, i)' => OfOther(i, j))
  BY <1>5, <1>6
<1> QED
  BY <1>1, <1>2, <1>4, <1>7, CleanedMess

LEMMA RestoreStageMess ==
    ASSUME Grounds, SoleInv, NEW m, MessInv(m), NEW t \in Tasks, Good(t),
           retries' = retries, RestoreStage(t)
    PROVE  MessGood(m, t)
<1>1. /\ task[t].pc = "cleanup" /\ UNCHANGED <<row, content>>
      /\ CleanedTo(t, TRUE)
      /\ \A k \in Jobs : backup'[k] \in {backup[k], "none"}
      /\ row[task[t].job].kind # "create"
  BY RestoreStageDoes, UndoBackups DEF Grounds, Undo
<1> PICK j \in Jobs : j = task[t].job
  BY <1>1, Grounded
<1> PICK js : js = task[t].js
  OBVIOUS
<1>2. /\ RowsKept /\ ~js.staging /\ task[t].role # "retry"
      /\ js.rb \in Stages
      /\ IF Exists(js.id) THEN StageTo(js.id, js.rb) ELSE UNCHANGED inst
  BY <1>1, RestoreStageDoes, Grounded
  DEF RowsKept, Copied, Shaped, Grounds, SerialInv, TypeOK, Task, JobState
<1>3. ASSUME NEW i \in Instances, Dirty(m, i)'
      PROVE  /\ inst'[i] \in Stages
             /\ Dirty(m, i) \/ (i = js.id /\ FailedRollback(i))
             /\ i = js.id => \/ FailedRollback(i)
                             \/ m = "files" /\ Dirty(m, i)
  <2>1. CASE i = js.id /\ Exists(i)
    <3>1. inst'[i] = js.rb
      BY <1>2, <2>1 DEF StageTo
    <3>2. m = "files" => Dirty(m, i)
      BY <1>1, <1>3 DEF Dirty, Messy
    <3>3. m # "files" => Bad(m, js, backup[j])
      BY <1>3, <3>1 DEF Dirty, Messy, Bad
    <3>4. m # "files" => FailedRollback(i)
      <4>1. MessFits(m, task[t])
        BY <1>1, Grounded DEF MessInv
      <4> QED
        BY <1>2, <2>1, <3>3, <4>1 DEF MessFits
    <3>5. m = "files" \/ FailedRollback(i)
      BY <3>4
    <3> QED
      BY <1>2, <2>1, <3>1, <3>2, <3>5
  <2>2. CASE ~(i = js.id /\ Exists(i))
    <3>1. inst'[i] = inst[i] /\ content'[i] = content[i]
      BY <1>1, <1>2, <2>2 DEF StageTo
    <3>2. Dirty(m, i) /\ Exists(i)
      BY <1>3, <3>1, DirtExists DEF Dirty
    <3> QED
      BY <2>2, <3>1, <3>2 DEF Exists
  <2> QED
    BY <2>1, <2>2
<1>4. \A i \in Instances : DirtKept(m, t, i)
  BY <1>1, <1>3 DEF DirtKept, Creates
<1>5. ASSUME IsActive(j), NEW i \in Instances, i = row[j].js.id, inst'[i] \in Stages,
             Dirty(m, i)'
      PROVE  FailedRollback(i)
  <2>1. js.id = i
    BY <1>1, <1>2, <1>5, Grounded, CleansOwn DEF IsActive
  <2>2. ~row[j].js.staging
    BY <1>1, <1>2, <1>5, Grounded DEF Copied, Agrees, Staging, IsActive
  <2>3. m = "files" => ~WillTidy(m, j, i)
    BY <2>2 DEF WillTidy, RowTidies, Tidies
  <2>4. CASE m = "files" /\ Dirty(m, i)
    BY <1>1, <2>1, <2>3, <2>4, CoveredHere
  <2> QED
    BY <1>3, <1>5, <2>1, <2>4
<1>6. IsActive(j) => \A i \in Instances :
            i = row[j].js.id /\ inst'[i] \in Stages =>
               row[j].kind # "create" /\ (Dirty(m, i)' => FailedRollback(i))
  BY <1>1, <1>5
<1> QED
  BY <1>1, <1>2, <1>4, <1>6, CleanedMess

\* Before a restore begins to change the files, they are answered for: by the
\* active row of the job, which nobody beside the task is about to finish, or
\* by the rollback that is retried.
LEMMA RestoreAnswers ==
    ASSUME Grounds, SoleInv, NEW m, MessInv(m), NEW t \in Tasks,
           task[t].pc = "cleanup", task[t].js.staging,
           NEW i \in Instances, i = task[t].js.id, Exists(i), m = "files",
           NEW j \in Jobs, j = task[t].job
    PROVE  FailedRollback(i) \/ (Quiet(t) /\ WillTidy(m, j, i))
<1> PICK js : js = task[t].js
  OBVIOUS
<1>1. CASE task[t].role = "retry"
  <2>1. js = row[j].js /\ js.rberr
    BY <1>1, Grounded DEF Copied
  <2>2. Blames(j, i)
    BY <2>1 DEF Blames
  <2> QED
    BY <2>2, BlamesFail
<1>2. CASE task[t].role # "retry"
  <2>1. task[t].role \in {"run", "stranded", "recover"}
    BY <1>2, Grounded DEF RowFits, Placed, Grounds, SerialInv, TypeOK, Task, Roles
  <2>2. row[j].status \in Active
    BY <2>1, Grounded DEF Sole, Past, Waiting, Active
  <2>3. row[j].js.id = i /\ row[j].js.staging
    BY <2>1, <2>2, Grounded DEF SameId, Copied, Agrees, Staging
  <2>4. Quiet(t)
    <3>1. CASE task[t].role = "run"
      BY <3>1, RunQuiet DEF Grounds, Past, Waiting
    <3>2. CASE task[t].role \in {"stranded", "recover"}
      <4> SUFFICES ASSUME NEW s \in Tasks \ {t}, task[s].job = j
                   PROVE  ~Past(task[s]) /\ task[s].pc # "finish"
        BY DEF Quiet
      <4>1. SerialInv /\ j # None
        BY Grounded
      <4>2. Paired(task[s], task[t])
        BY <4>1 DEF SerialInv, Separate, Company
      <4>3. task[s].role = "cancel"
        BY <3>2, <4>2 DEF Paired
      <4>4. Copied(task[s])
        BY <4>1 DEF Grounds, CopyInv
      <4> QED
        BY <2>3, <4>3, <4>4 DEF Copied, Past
    <3> QED
      BY <2>1, <3>1, <3>2
  <2>5. MessFits(m, task[t])
    BY Grounded DEF MessInv
  <2>6. RowBad(m, j) => FailedRollback(i)
    BY <1>2, <2>3, <2>5 DEF MessFits, RowBad, Bad
  <2>7. ~RowBad(m, j) => WillTidy(m, j, i)
    BY <2>2, <2>3 DEF WillTidy, RowTidies, Tidies, RowBad, IsActive
  <2> QED
    BY <2>4, <2>6, <2>7
<1> QED
  BY <1>1, <1>2

LEMMA BeginRestoreMess ==
    ASSUME Grounds, SoleInv, NEW m, MessInv(m), NEW t \in Tasks, Good(t),
           retries' = retries, BeginRestore(t)
    PROVE  MessGood(m, t)
<1>1. /\ task[t].pc = "cleanup" /\ row[task[t].job].kind = "update"
      /\ task[t].js.staging /\ UNCHANGED <<row, inst>>
      /\ \A k \in Jobs : backup'[k] \in {backup[k], "none"}
  BY BeginRestoreDoes, UndoBackups DEF Grounds, Undo
<1> PICK j \in Jobs : j = task[t].job
  BY <1>1, Grounded
<1> PICK js : js = task[t].js
  OBVIOUS
<1>2. /\ RowsKept /\ MessFits(m, task[t])
  BY <1>1, Grounded DEF RowsKept, MessInv
<1>3. CASE CleanedTo(t, FALSE) /\ UNCHANGED content
  <2>1. \A i \in Instances : DirtKept(m, t, i)
    BY <1>1, <1>3, DirtExists DEF DirtKept, Creates, Dirty, Exists
  <2> QED
    BY <1>1, <1>2, <1>3, <2>1, CleanedMess
<1>4. CASE /\ Moves(t, task[t].role, "restoring", js) /\ UNCHANGED backup
           /\ IF Exists(js.id) THEN FilesTo(js.id, "mixed") ELSE UNCHANGED content
  <2>1. \A i \in Instances : DirtKept(m, t, i)
    <3> SUFFICES ASSUME NEW i \in Instances, Dirty(m, i)'
                 PROVE  /\ inst'[i] \in Stages
                        /\ \/ Dirty(m, i)
                           \/ /\ i = js.id
                              /\ FailedRollback(i) \/ (Quiet(t) /\ WillTidy(m, j, i))
      BY <1>1 DEF DirtKept, Creates
    <3>1. CASE m = "files" /\ i = js.id /\ Exists(i)
      BY <1>1, <3>1, RestoreAnswers DEF Exists
    <3>2. CASE m # "files" \/ ~(i = js.id /\ Exists(i))
      <4>1. m = "files" => content'[i] = content[i]
        BY <1>4, <3>2 DEF FilesTo
      <4>2. Dirty(m, i)
        BY <1>1, <4>1 DEF Dirty, Messy
      <4> QED
        BY <1>1, <4>2, DirtExists DEF Exists
    <3> QED
      BY <3>1, <3>2
  <2>2. MessFits(m, task[t])'
    <3>1. CASE task[t].role # "retry"
      <4>1. Answered(m, t, task[t].js)
        BY <1>1, <1>2, <3>1, OwnAnswered
      <4> QED
        BY <1>4, <3>1, <4>1, MovesFit
    <3>2. CASE task[t].role = "retry"
      <4>1. /\ task'[t].role = "retry" /\ task'[t].pc = "restoring"
            /\ task'[t].js = js /\ task'[t].job = j
        BY <1>4, <3>2 DEF Moves
      <4>2. Exists(js.id)' /\ Bad(m, js, backup'[j]) => Root(m, js.id)'
        <5>1. \A k \in Jobs : row'[k].js = row[k].js
          BY <1>1
        <5>2. Root(m, js.id) => Root(m, js.id)'
          BY <1>4, <5>1 DEF Root, Blames, RowBad
        <5>3. Exists(js.id)' => Exists(js.id)
          BY <1>1 DEF Exists
        <5> QED
          BY <1>1, <1>2, <1>4, <3>2, <5>2, <5>3 DEF MessFits
      <4> QED
        BY <4>1, <4>2 DEF MessFits
    <3> QED
      BY <3>1, <3>2
  <2> QED
    BY <1>1, <1>2, <2>1, <2>2, RowsStayMess
<1> QED
  BY <1>3, <1>4, BeginRestoreDoes DEF Grounds

LEMMA EndRestoreMess ==
    ASSUME Grounds, SoleInv, NEW m, MessInv(m), NEW t \in Tasks, Good(t),
           retries' = retries, EndRestore(t)
    PROVE  MessGood(m, t)
<1>1. /\ task[t].pc = "restoring" /\ UNCHANGED row
      /\ \A k \in Jobs : backup'[k] \in {backup[k], "none"}
  BY EndRestoreDoes, UndoBackups DEF Grounds, Undo
<1> PICK j \in Jobs : j = task[t].job
  BY <1>1, Grounded
<1> PICK js : js = task[t].js
  OBVIOUS
<1>2. /\ RowsKept /\ MessFits(m, task[t]) /\ js.staging
      /\ row[j].kind # "create" /\ js.rb \in Stages
  BY <1>1, Grounded
  DEF RowsKept, MessInv, Copied, Shaped, Grounds, SerialInv, TypeOK, Task,
      JobState, WellFormed
<1>3. CASE CleanedTo(t, FALSE) /\ UNCHANGED <<inst, content>>
  <2>1. \A i \in Instances : DirtKept(m, t, i)
    BY <1>2, <1>3, DirtExists DEF DirtKept, Creates, Dirty, Exists
  <2> QED
    BY <1>1, <1>2, <1>3, <2>1, CleanedMess
<1>4. CASE /\ CleanedTo(t, TRUE) /\ Exists(js.id)
           /\ FilesTo(js.id, backup[j]) /\ StageTo(js.id, js.rb)
  <2>1. ASSUME NEW i \in Instances, i = js.id, Dirty(m, i)'
        PROVE  /\ FailedRollback(i)
               /\ task[t].role = "retry" => OfOther(i, j)
    <3>1. inst'[i] = js.rb /\ content'[i] = backup[j]
      BY <1>4, <2>1 DEF FilesTo, StageTo
    <3>2. Bad(m, js, backup[j])
      BY <1>2, <2>1, <3>1 DEF Dirty, Messy, Bad
    <3>3. CASE task[t].role # "retry"
      BY <1>2, <1>4, <2>1, <3>2, <3>3 DEF MessFits
    <3>4. CASE task[t].role = "retry"
      <4>1. Root(m, i)
        BY <1>1, <1>2, <1>4, <2>1, <3>2, <3>4 DEF MessFits
      <4>2. PICK k \in Jobs : Blames(k, i) /\ ~RowBad(m, k)
        BY <4>1 DEF Root
      <4>3. RowBad(m, j)
        BY <1>1, <3>2, <3>4, Grounded DEF Copied, RowBad
      <4> QED
        BY <4>2, <4>3, BlamesFail DEF OfOther
    <3> QED
      BY <3>3, <3>4
  <2>2. ASSUME NEW i \in Instances, Dirty(m, i)'
        PROVE  /\ inst'[i] \in Stages
               /\ Dirty(m, i) \/ (i = js.id /\ FailedRollback(i))
    <3>1. CASE i = js.id
      BY <1>2, <1>4, <2>1, <2>2, <3>1 DEF StageTo
    <3>2. CASE i # js.id
      <4>1. inst'[i] = inst[i] /\ content'[i] = content[i]
        BY <1>4, <3>2 DEF FilesTo, StageTo
      <4>2. Dirty(m, i)
        BY <2>2, <4>1 DEF Dirty
      <4> QED
        BY <4>1, <4>2, DirtExists DEF Exists
    <3> QED
      BY <3>1, <3>2
  <2>3. \A i \in Instances : DirtKept(m, t, i)
    BY <1>2, <2>2 DEF DirtKept, Creates
  <2>4. IsActive(j) => \A i \in Instances :
            i = row[j].js.id /\ inst'[i] \in Stages =>
               row[j].kind # "create" /\ (Dirty(m, i)' => FailedRollback(i))
    <3> SUFFICES ASSUME IsActive(j), NEW i \in Instances, i = row[j].js.id,
                        Dirty(m, i)'
                 PROVE  FailedRollback(i)
      BY <1>2
    <3>1. js.id = i
      <4>1. task[t].role # "retry" /\ i # None
        BY <1>1, Grounded DEF RowFits, IsActive, Active
      <4> QED
        BY <1>1, <4>1, CleansOwn DEF IsActive
    <3> QED
      BY <2>1, <3>1
  <2>5. task[t].role = "retry" => \A i \in Instances :
            i = task[t].js.id /\ inst'[i] \in Stages =>
               row[j].kind # "create" /\ (Dirty(m, i)' => OfOther(i, j))
    BY <1>2, <2>1
  <2> QED
    BY <1>1, <1>2, <1>4, <2>3, <2>4, <2>5, CleanedMess
<1> QED
  BY <1>3, <1>4, EndRestoreDoes DEF Grounds

\* The last statement on a row.  The error it writes answers for what the
\* rollback has left; without one there is nothing left.
LEMMA FinishMess ==
    ASSUME Grounds, SoleInv, NEW m, MessInv(m), NEW t \in Tasks, Good(t),
           retries' = retries, task[t].pc = "finish", task[t].role # "retry",
           UNCHANGED <<inst, content, backup>>,
           NEW j \in Jobs, j = task[t].job, IsActive(j) \/ task[t].role = "cancel",
           NEW status, status \notin Active, NEW js, js = task[t].js,
           Writes(j, status, js),
           \/ task'[t].job = None
           \/ \E role : role # "retry" /\ Moves(t, role, "clear", js)
    PROVE  MessGood(m, t)
<1>1. /\ row'[j].js = js /\ RestKept(t) /\ MessFits(m, task[t])
      /\ None \notin Instances
  BY Grounded, RestIsKept DEF Writes, MessInv
<1>2. \A i \in Instances : Exists(i) <=> inst'[i] \in Stages
  BY DEF Exists
<1>3. ASSUME NEW i \in Instances, Blames(j, i), Exists(i)
      PROVE  js.rberr /\ js.id = i /\ \A files : ~Bad(m, js, files)
  <2>1. ~IsActive(j) /\ task[t].role = "cancel"
    BY <1>3, Grounded DEF Blames, IsActive
  <2>2. /\ ~row[j].js.staging /\ row[j].kind = "create" /\ js.id = i
    BY <1>3, <2>1, Grounded DEF Blames, Copied, RowShaped, Shaped, Sole, Past
  <2>3. js.rberr /\ ~js.staging /\ js.rb = None
    BY <1>1, <2>1, <2>2, Grounded DEF Copied, Shaped, RowFits
  <2> QED
    BY <2>2, <2>3, StagesAssumption DEF Bad, Messy
<1>4. ASSUME NEW i \in Instances, Exists(i)
      PROVE  /\ FailedRollback(i) => FailedRollback(i)'
             /\ Root(m, i) => Root(m, i)'
  <2>1. \A k \in Jobs : k = task[t].job /\ Blames(k, i) =>
            Blames(k, i)' /\ (RowBad(m, k)' => RowBad(m, k))
    <3> SUFFICES ASSUME Blames(j, i) PROVE Blames(j, i)' /\ ~RowBad(m, j)'
      OBVIOUS
    <3>1. js.rberr /\ js.id = i /\ ~Bad(m, js, backup'[j])
      BY <1>3, <1>4
    <3> QED
      BY <1>1, <3>1 DEF Blames, RowBad
  <2> QED
    BY <1>1, <2>1, AnswersKept
<1>5. ASSUME NEW i \in Instances, i = js.id, Exists(i), Bad(m, js, backup[j])
      PROVE  FailedRollback(i)' /\ (retries = 0 => Root(m, i)')
  <2>1. FailedRollback(i)
    BY <1>1, <1>5 DEF MessFits
  <2> QED
    BY <1>4, <1>5, <2>1, BlameHasRoot
<1>6. task'[t].job # None => MessFits(m, task[t])'
  <2>1. Answered(m, t, js)
    BY <1>2, <1>5 DEF Answered
  <2> QED
    BY <2>1, MovesFit
<1>7. ASSUME NEW i \in Instances, js.rberr, js.id = i, Exists(i)
      PROVE  Covered(m, i)'
  <2>1. Blames(j, i)' /\ Exists(i)'
    BY <1>1, <1>7 DEF Blames, Exists
  <2> QED
    BY <2>1, BlamesFail DEF Covered
<1>8. ASSUME NEW i \in Instances, Dirty(m, i)'
      PROVE  /\ inst'[i] \in Stages /\ Dirty(m, i)
             /\ \/ Blames(j, i) \/ WillTidy(m, j, i)
                \/ m = "stage" /\ Creates(t, i)
                => Covered(m, i)'
  <2>1. Dirty(m, i) /\ Exists(i)
    BY <1>8, DirtExists DEF Dirty
  <2>2. Blames(j, i) => Covered(m, i)'
    BY <1>3, <1>7, <2>1
  <2>3. ASSUME WillTidy(m, j, i) PROVE Covered(m, i)'
    <3>1. IsActive(j) /\ row[j].js.id = i
      BY <2>3 DEF WillTidy
    <3>2. CASE js.rberr
      <4>1. js.id = i
        BY <1>1, <3>1, <3>2, Grounded DEF Sole, IsActive
      <4> QED
        BY <1>7, <2>1, <3>2, <4>1
    <3>3. CASE ~js.rberr
      <4>1. FailedRollback(i)
        BY <1>1, <2>1, <3>1, <3>3 DEF MessFits, IsActive
      <4> QED
        BY <1>2, <1>4, <2>1, <4>1 DEF Covered, Exists
    <3> QED
      BY <3>2, <3>3
  <2>4. ASSUME Creates(t, i) PROVE Covered(m, i)'
    <3>1. js.rberr /\ js.id = i
      BY <1>1, <2>4, Grounded DEF Creates, Copied
    <3> QED
      BY <1>7, <2>1, <3>1
  <2> QED
    BY <1>2, <2>1, <2>2, <2>3, <2>4
<1>9. \A i \in Instances : Blames(j, i) /\ inst'[i] \in Stages =>
         js.rberr /\ js.id = i /\ (Bad(m, js, backup[j]) => RowBad(m, j))
  BY <1>2, <1>3
<1>10. \A i \in Instances :
          i = js.id /\ inst'[i] \in Stages /\ Bad(m, js, backup[j]) =>
             /\ status \in Active => FailedRollback(i)'
             /\ retries = 0 /\ js.rberr => Root(m, i)'
  BY <1>2, <1>5
<1> QED
  BY <1>6, <1>8, <1>9, <1>10, WritesMess

LEMMA TerminalizeMess ==
    ASSUME Grounds, SoleInv, NEW m, MessInv(m), NEW t \in Tasks, Good(t),
           retries' = retries, FailJob(t) \/ InterruptJob(t)
    PROVE  MessGood(m, t)
<1>1. /\ task[t].pc = "finish" /\ UNCHANGED <<inst, content, backup>>
      /\ task[t].role \in {"setup", "run", "stranded", "recover"}
  BY TerminalizeDoes DEF Grounds
<1> PICK j \in Jobs : j = task[t].job
  BY <1>1, Grounded
<1>2. Leaves(t) => task'[t].job = None
  BY DEF Leaves, Idles, Proceeds
<1>3. CASE ~IsActive(j) /\ UNCHANGED row /\ Leaves(t)
  <2>1. task[t].role # "setup"
    BY <1>1, <1>3, Grounded DEF Sole, IsActive, Active
  <2> QED
    BY <1>1, <1>2, <1>3, <2>1, StayMess
<1>4. ASSUME IsActive(j), NEW status \in Retriable, Writes(j, status, task[t].js),
             \/ Leaves(t)
             \/ Moves(t, task[t].role, "clear", task[t].js)
      PROVE  MessGood(m, t)
  <2>1. status \notin Active
    BY DEF Retriable, Active
  <2>2. \/ task'[t].job = None
        \/ \E role : role # "retry" /\ Moves(t, role, "clear", task[t].js)
    BY <1>1, <1>2, <1>4
  <2> HIDE DEF Retriable
  <2> QED
    BY <1>1, <1>4, <2>1, <2>2, FinishMess
<1> QED
  BY <1>3, <1>4, TerminalizeDoes DEF Grounds

LEMMA ClearStagingMess ==
    ASSUME Grounds, SoleInv, NEW m, MessInv(m), NEW t \in Tasks, Good(t),
           retries' = retries, ClearStaging(t)
    PROVE  MessGood(m, t)
<1>1. /\ task[t].pc = "clear" /\ UNCHANGED <<row, inst, content>>
      /\ task'[t].job = None
      /\ \A k \in Jobs : backup'[k] \in {backup[k], "none"}
  BY ClearStagingDoes, UndoBackups DEF Grounds, Undo, Leaves, Idles, Proceeds
<1>2. RowsKept /\ task[t].role # "setup" /\ task[t].job \in Jobs
  BY <1>1, Grounded DEF RowsKept, RowFits, Sole, IsActive, Active
<1>3. \A i \in Instances : DirtKept(m, t, i)
  BY <1>1, <1>2, DirtExists DEF DirtKept, Creates, Dirty, Exists
<1> QED
  BY <1>1, <1>2, <1>3, RowsStayMess

LEMMA UndoMess ==
    ASSUME Grounds, SoleInv, NEW m, MessInv(m), NEW t \in Tasks, Good(t),
           retries' = retries, Undo(t)
    PROVE  MessGood(m, t)
BY RemoveNewInstanceMess, NothingToUndoMess, RestoreStageMess, BeginRestoreMess,
   EndRestoreMess, TerminalizeMess, ClearStagingMess DEF Undo

LEMMA ClaimCancelMess ==
    ASSUME Grounds, SoleInv, NEW m, MessInv(m), NEW t \in Tasks, Good(t),
           retries' = retries, ClaimCancel(t)
    PROVE  MessGood(m, t)
<1>1. /\ task[t].role = "cancel" /\ task[t].pc = "claim"
      /\ UNCHANGED <<inst, content, backup>>
  BY ClaimCancelDoes DEF Grounds
<1>2. CASE Idles(t) /\ UNCHANGED row
  BY <1>1, <1>2, MoveMess
<1>3. CASE /\ row[task[t].job].status = "queued"
           /\ Writes(task[t].job, "running", task[t].js)
           /\ Moves(t, "cancel", "cleanup", task[t].js)
  <2> PICK j \in Jobs : j = task[t].job
    BY <1>1, Grounded
  <2> PICK js : js = task[t].js
    OBVIOUS
  <2>1. /\ row[j].status \in Active /\ ~row[j].js.rberr /\ js.id = row[j].js.id
        /\ js.rb = row[j].js.rb /\ ~js.staging /\ ~row[j].js.staging
    BY <1>1, <1>3, Grounded
    DEF SameId, Copied, Agrees, Holding, RowFits, Active
  <2>2. \A files : Bad(m, js, files) <=> Bad(m, row[j].js, files)
    BY <2>1 DEF Bad, Messy
  <2>3. RowMess(m, j)
    BY DEF MessInv
  <2>4. Exists(js.id) /\ Bad(m, js, backup[j]) => FailedRollback(js.id)
    BY <2>1, <2>2, <2>3 DEF RowMess, RowBad, IsActive
  <2>5. RowTidies(m, j) => Tidies(m, row[j].kind, js, backup[j])
    BY <2>1, <2>2 DEF RowTidies, Tidies
  <2>6. \A i \in Instances : /\ Dirty(m, i)' => Dirty(m, i)
                             /\ Exists(i) => inst'[i] \in Stages
    BY <1>1 DEF Dirty, Exists
  <2> QED
    BY <1>1, <1>3, <2>1, <2>4, <2>5, <2>6, ActiveWriteMess DEF Active
<1> QED
  BY <1>2, <1>3, ClaimCancelDoes DEF Grounds

LEMMA FinishCancelMess ==
    ASSUME Grounds, SoleInv, NEW m, MessInv(m), NEW t \in Tasks, Good(t),
           retries' = retries, FinishCancel(t)
    PROVE  MessGood(m, t)
<1>1. /\ task[t].role = "cancel" /\ task[t].pc = "finish" /\ Idles(t)
      /\ UNCHANGED <<inst, content, backup>>
  BY FinishCancelDoes DEF Grounds
<1> PICK j \in Jobs : j = task[t].job
  BY <1>1, Grounded
<1>2. CASE UNCHANGED row
  BY <1>1, <1>2, MoveMess
<1>3. ASSUME NEW status \in {"failed", "canceled"}, Writes(j, status, task[t].js)
      PROVE  MessGood(m, t)
  <2>1. status \notin Active /\ task'[t].job = None
    BY <1>1 DEF Active, Idles
  <2> QED
    BY <1>1, <1>3, <2>1, FinishMess
<1> QED
  BY <1>2, <1>3, FinishCancelDoes DEF Grounds

\* The job of a deleted instance answered for nothing.
LEMMA RecoverDeletedMess ==
    ASSUME Grounds, SoleInv, NEW m, MessInv(m), NEW t \in Tasks, Good(t),
           NEW j \in Jobs, RecoverDeleted(t, j)
    PROVE  MessGood(m, t)
<1>0. /\ SerialInv /\ None \notin Jobs \cup Instances /\ ~FkOk(row[j].js.id)
      /\ task[t].role = "recover"
  BY ConstantsAssumption DEF Grounds, RecoverDeleted, At, Instances
<1>1. /\ UNCHANGED <<inst, content>> /\ task[t].job = None
      /\ task'[t].job = None
      /\ \A k \in Jobs : row'[k].js = row[k].js
      /\ \A k \in Jobs \ {j} : row'[k] = row[k] /\ backup'[k] = backup[k]
  <2>1. /\ UNCHANGED <<inst, content>> /\ task'[t].job = task[t].job
        /\ task[t].job = None /\ \A k \in Jobs \ {j} : backup'[k] = backup[k]
        /\ \/ IsActive(j) /\ Writes(j, "canceled", row[j].js)
           \/ ~IsActive(j) /\ UNCHANGED <<row, backup>>
    BY <1>0, ListedDoes
  <2>2. /\ \A k \in Jobs : row'[k].js = row[k].js
        /\ \A k \in Jobs \ {j} : row'[k] = row[k]
    BY <2>1 DEF Writes
  <2> QED
    BY <2>1, <2>2
<1>2. \A k \in Jobs : backup'[k] \in {backup[k], "none"}
  BY <1>0 DEF RecoverDeleted, SerialInv, TypeOK
<1>3. ASSUME NEW i \in Instances, Dirty(m, i)'
      PROVE  Dirty(m, i) /\ Covered(m, i)'
  <2>1. Dirty(m, i) /\ Exists(i) /\ Covered(m, i)
    BY <1>1, <1>3, DirtExists DEF Dirty
  <2>2. Exists(i)'
    BY <1>1, <2>1 DEF Exists
  <2>3. FailedRollback(i) => FailedRollback(i)'
    BY <1>1 DEF FailedRollback
  <2>4. ASSUME NEW k \in Jobs, WillTidy(m, k, i) PROVE WillTidy(m, k, i)'
    <3>1. k # j
      BY <1>0, <2>1, <2>4 DEF WillTidy, FkOk
    <3> QED
      BY <1>1, <2>4, <3>1 DEF WillTidy, RowTidies, IsActive
  <2>5. \A s \in Tasks : ~Creates(s, i)
    BY <1>0, RecoveryAlone DEF Creates
  <2> QED
    BY <2>1, <2>2, <2>3, <2>4, <2>5 DEF Covered
<1> QED
  BY <1>0, <1>1, <1>2, <1>3 DEF MessGood, MessCovered

\* Every step of a task's own leaves each mess to somebody.
LEMMA StepMess ==
    ASSUME Grounds, SoleInv, NEW m, MessInv(m), NEW t \in Tasks, Good(t),
           m = "files" => "pack" \notin Kinds,
           retries' = retries, Step(t)
    PROVE  MessGood(m, t) \/ Recovered(t) \/ \E j \in Jobs : Recover(t, j)
<1>1. CASE Removal(t)
  <2>1. ASSUME NEW j \in Jobs, CancelForDeletion(t, j) PROVE FALSE
    BY <2>1 DEF CancelForDeletion, At, SoleInv
  <2>2. ~RemoveInstance(t)
    BY DEF RemoveInstance, At, SoleInv
  <2> QED
    BY <1>1, <2>1, <2>2, ClaimCancelMess, FinishCancelMess DEF Removal
<1> QED
  BY <1>1, SetupMess, RunMess, UndoMess, RecoverDeletedMess DEF Step, Recovery

\* A command begins, or recovery goes on to the next job.
LEMMA BeginMess ==
    ASSUME SerialInv, ErrorInv, NEW m, MessInv(m), NEW t \in Tasks, Others(t),
           task[t].role # "setup", UNCHANGED <<inst, content, backup>>,
           retries' = 0 => retries = 0,
           \A k \in Jobs :
               \/ row'[k] = row[k]
               \/ /\ row[k].status = "absent" /\ row'[k].js.rb = None
                  /\ ~row'[k].js.staging /\ ~row'[k].js.rberr,
           task'[t].job # None => MessFits(m, task[t])'
    PROVE  MessInv(m)'
<1>1. \A k \in Jobs : row[k].status = "absent" => ~row[k].js.rberr /\ ~IsActive(k)
  BY DEF ErrorInv, ErrorsRetriable, Retriable, IsActive, Active
<1>2. \A k \in Jobs : row'[k] = row[k] => (RowBad(m, k)' <=> RowBad(m, k))
  BY DEF RowBad, Bad, Messy
<1>3. \A k \in Jobs : row'[k] = row[k] \/ ~RowBad(m, k)'
  BY StagesAssumption DEF RowBad, Bad, Messy
<1>4. \A i \in Instances : /\ Exists(i)' <=> Exists(i)
                           /\ Dirty(m, i)' <=> Dirty(m, i)
  BY DEF Exists, Dirty, Messy
<1>5. \A i : \A k \in Jobs : Blames(k, i) => Blames(k, i)' /\ row'[k] = row[k]
  BY <1>1 DEF Blames
<1>6. \A i : /\ FailedRollback(i) => FailedRollback(i)'
             /\ Root(m, i) => Root(m, i)'
             /\ \A j : OfOther(i, j) => OfOther(i, j)'
  BY <1>2, <1>5, BlamesFail DEF Root, OfOther
<1>7. ASSUME NEW s \in Tasks \ {t}, task[s].job # None
      PROVE  /\ task'[s] = task[s] /\ task[s].job \in Jobs
             /\ row'[task[s].job] = row[task[s].job]
  <2>1. /\ task'[s] = task[s] /\ task[s].job \in Jobs
        /\ row[task[s].job].status # "absent" 
    BY <1>7, WaitsOrNot DEF Others
  <2> QED
    BY <2>1
<1>8. MessCovered(m)'
  <2>1. ASSUME NEW i \in Instances, NEW s \in Tasks, Creates(s, i)
        PROVE  Creates(s, i)'
    <3>1. s # t /\ task[s].role = "setup"
      BY <2>1 DEF Creates
    <3>2. task[s].job # None
      BY <3>1, ConstantsAssumption
      DEF SerialInv, TypeOK, TasksPlaced, Placed, WellFormed, Undoing
    <3> QED
      BY <1>7, <2>1, <3>1, <3>2 DEF Creates
  <2>2. ASSUME NEW i \in Instances, NEW k \in Jobs, WillTidy(m, k, i)
        PROVE  WillTidy(m, k, i)'
    <3>1. row'[k] = row[k]
      BY <1>1, <2>2 DEF WillTidy
    <3> QED
      BY <2>2, <3>1 DEF WillTidy, IsActive, RowTidies, Tidies, Bad, Messy
  <2> QED
    BY <1>4, <1>6, <2>1, <2>2 DEF MessCovered, Covered, MessInv
<1>9. ASSUME NEW s \in Tasks, task'[s].job # None
      PROVE  MessFits(m, task[s])'
  <2>1. CASE s = t
    BY <1>9, <2>1
  <2>2. CASE s # t
    <3>1. /\ task'[s] = task[s] /\ task[s].job # None
      BY <1>9, <2>2 DEF Others
    <3>2. /\ row'[task[s].job] = row[task[s].job] /\ MessFits(m, task[s])
      BY <1>7, <2>2, <3>1 DEF MessInv
    <3> QED
      BY <1>4, <1>6, <3>1, <3>2 DEF MessFits, Exists, Dirty, Messy
  <2> QED
    BY <2>1, <2>2
<1>10. ASSUME NEW k \in Jobs PROVE RowMess(m, k)'
  <2>1. CASE row'[k] = row[k]
    <3>1. RowMess(m, k)
      BY DEF MessInv
    <3> QED
      BY <1>2, <1>6, <2>1, <3>1 DEF RowMess, Exists, IsActive
  <2> QED
    BY <1>3, <2>1 DEF RowMess
<1> QED
  BY <1>8, <1>9, <1>10 DEF MessInv

LEMMA IdlingMess ==
    ASSUME NEW m, MessInv(m), UNCHANGED <<row, inst, content, backup, retries>>,
           \A s \in Tasks : task'[s] \in {task[s], IdleTask},
           m = "stage" => \A s \in Tasks :
               task[s].role = "setup" => task'[s] = task[s]
    PROVE  MessInv(m)'
<1>1. ASSUME NEW s \in Tasks, task'[s].job # None
      PROVE  MessFits(m, task[s])'
  <2>1. task'[s] = task[s]
    BY <1>1 DEF IdleTask
  <2>2. MessFits(m, task[s])
    BY <1>1, <2>1 DEF MessInv
  <2> QED
    BY <2>1, <2>2 DEF MessFits, Exists, Bad, Dirty, Messy, FailedRollback, Root,
       OfOther, Blames, RowBad
<1>2. MessCovered(m)'
  <2>1. \A i \in Instances : \A s \in Tasks :
            m = "stage" /\ Creates(s, i) => Creates(s, i)'
    BY DEF Creates
  <2> QED
    BY <2>1 DEF MessInv, MessCovered, Covered, Exists, Dirty, Messy,
       FailedRollback, WillTidy, IsActive, RowTidies, Tidies, Bad
<1>3. \A j \in Jobs : RowMess(m, j)'
  BY DEF MessInv, RowMess, Exists, RowBad, Bad, Messy, FailedRollback, Root,
     Blames, IsActive
<1> QED
  BY <1>1, <1>2, <1>3 DEF MessInv

\* A cancel or a recovery takes over the rollback of an active row.
LEMMA RollbackFits ==
    ASSUME NEW m, MessInv(m), NEW t \in Tasks, NEW j \in Jobs,
           UNCHANGED <<row, inst, backup>>, IsActive(j),
           task'[t].role \in {"cancel", "recover"},
           task'[t].pc \in {"claim", "cleanup"},
           task'[t].job = j, task'[t].js = row[j].js
    PROVE  MessFits(m, task[t])'
<1>1. Exists(row[j].js.id) /\ RowBad(m, j) => FailedRollback(row[j].js.id)
  BY DEF MessInv, RowMess
<1>2. Bad(m, row[j].js, backup[j])' => RowBad(m, j)
  BY DEF RowBad, Bad, Messy
<1> QED
  BY <1>1, <1>2 DEF MessFits, Exists, FailedRollback

LEMMA CommandMess ==
    ASSUME Serial, "delete" \notin Commands, Grounds, NEW m, MessInv(m),
           NEW t \in Tasks, Command(t), retries' <= 1
    PROVE  MessInv(m)'
<1> SerialInv /\ ErrorInv
  BY DEF Grounds
<1>1. ASSUME NEW j \in Jobs, NEW kind \in Kinds, NEW id \in Instances \cup {None},
             Start(t, j, kind, id)
      PROVE  MessInv(m)'
  <2>1. /\ row[j].status = "absent" /\ row'[j].js = NewState(id)
        /\ UNCHANGED <<inst, content, backup, retries>>
        /\ \A k \in Jobs \ {j} : row'[k] = row[k]
    BY <1>1 DEF Start, SerialInv, TypeOK
  <2>2. /\ Others(t) /\ task[t].role = "idle" /\ task'[t].role = "setup"
        /\ task'[t].pc = "prepare" /\ task'[t].js = NewState(id)
    BY <1>1 DEF Start, SerialInv, TypeOK, Others, IdleTask, Task
  <2>3. NewState(id).rb = None /\ ~NewState(id).staging /\ ~NewState(id).rberr
    BY DEF NewState
  <2>4. MessFits(m, task[t])'
    BY <2>2, <2>3, StagesAssumption DEF MessFits, Bad, Messy
  <2> QED
    BY <2>1, <2>2, <2>3, <2>4, BeginMess
<1>2. ASSUME NEW j \in Jobs, Retry(t, j) PROVE MessInv(m)'
  <2>1. /\ Others(t) /\ task[t].role = "idle" /\ task'[t].role = "retry"
        /\ task'[t].job = j /\ task'[t].js = row[j].js
        /\ task'[t].pc = (IF row[j].js.rberr THEN "cleanup" ELSE "requeue")
        /\ UNCHANGED <<row, inst, content, backup>> /\ MayRetry(j)
        /\ retries' = retries + 1 /\ retries \in Nat
        /\ row[j].status \in {"failed", "interrupted"}
    BY <1>2 DEF Retry, SerialInv, TypeOK, Others, IdleTask, Task
  <2>2. retries = 0
    BY <2>1
  <2>3. row[j].js.rberr /\ Exists(row[j].js.id) /\ RowBad(m, j) =>
            Root(m, row[j].js.id)
    BY <2>2 DEF MessInv, RowMess
  <2>4. CASE row[j].js.rberr
    <3>1. Root(m, row[j].js.id) => Root(m, row[j].js.id)'
      BY <2>1 DEF Root, Blames, RowBad, Bad, Messy
    <3>2. Bad(m, row[j].js, backup[j])' => RowBad(m, j)
      BY <2>1 DEF RowBad, Bad, Messy
    <3>3. MessFits(m, task[t])'
      BY <2>1, <2>3, <2>4, <3>1, <3>2 DEF MessFits, Exists
    <3> QED
      BY <2>1, <3>3, BeginMess
  <2>5. CASE ~row[j].js.rberr
    <3>1. ASSUME Exists(row[j].js.id)
          PROVE  /\ row[j].kind # "create"
                 /\ Dirty(m, row[j].js.id) => OfOther(row[j].js.id, j)
      <4>1. row[j].js.id \in Instances /\ row[j].js.id # None
        BY <3>1, ConstantsAssumption DEF Exists, Instances
      <4>2. row[j].kind # "create"
        BY <2>1, <2>5, <4>1
        DEF Grounds, CopyInv, RowsShaped, RowShaped, Retriable
      <4>3. ~Busy(row[j].js.id)
        BY <2>1, <4>1 DEF MayRetry
      <4>4. Dirty(m, row[j].js.id) => FailedRollback(row[j].js.id)
        BY <4>1, <4>3
        DEF MessInv, MessCovered, Covered, WillTidy, Creates, Busy
      <4> QED
        BY <2>5, <4>2, <4>4 DEF FailedRollback, OfOther, Blames
    <3>2. MessFits(m, task[t])'
      BY <2>1, <2>5, <3>1 DEF MessFits, Exists, Dirty, Messy, OfOther, Blames
    <3> QED
      BY <2>1, <3>2, BeginMess
  <2> QED
    BY <2>4, <2>5
<1>3. ASSUME NEW j \in Jobs, Cancel(t, j) PROVE MessInv(m)'
  <2>1. /\ Others(t) /\ task[t].role = "idle" /\ task'[t].role = "cancel"
        /\ task'[t].pc = "claim" /\ task'[t].job = j /\ task'[t].js = row[j].js
        /\ UNCHANGED <<row, inst, content, backup, retries>>
        /\ row[j].status = "queued"
    BY <1>3 DEF Cancel, SerialInv, TypeOK, Others, IdleTask, Task
  <2>2. MessFits(m, task[t])'
    BY <2>1, RollbackFits DEF IsActive, Active
  <2> QED
    BY <2>1, <2>2, BeginMess
<1> QED
  BY <1>1, <1>2, <1>3 DEF Command, Delete

LEMMA RecoverMess ==
    ASSUME Grounds, NEW m, MessInv(m), NEW t \in Tasks, NEW j \in Jobs,
           Recover(t, j)
    PROVE  MessInv(m)'
<1> SerialInv /\ ErrorInv
  BY DEF Grounds
<1>1. /\ Others(t) /\ task[t].role = "recover" /\ task'[t].role = "recover"
      /\ task'[t].pc = "cleanup" /\ task'[t].job = j /\ task'[t].js = row[j].js
      /\ UNCHANGED <<row, inst, content, backup, retries>>
      /\ j \in task[t].left
  BY DEF Recover, At, SerialInv, TypeOK, Others, Task
<1>2. IsActive(j)
  BY <1>1 DEF SerialInv, LeftToRecover
<1>3. MessFits(m, task[t])'
  BY <1>1, <1>2, RollbackFits
<1> QED
  BY <1>1, <1>3, BeginMess

\* Until the second retry, and for the stages until the app is closed.
Tidy(m) == retries <= 1 /\ (m = "stage" => crashes = 0) => MessInv(m)

LEMMA TidyInit == ASSUME NEW m PROVE Init => Tidy(m)
<1> SUFFICES ASSUME Init PROVE MessInv(m)
  BY DEF Tidy
<1>1. \A i \in Instances : ~Dirty(m, i) \/ ~Exists(i)
  BY DEF Init, Dirty, Messy, Exists, Stages
<1>2. \A i \in Instances : ~Dirty(m, i)
  BY DEF Init, Dirty, Messy
<1>3. \A j \in Jobs : row[j].js.id \notin Instances
  BY ConstantsAssumption DEF Init, NewState, Instances
<1> QED
  BY <1>2, <1>3 DEF Init, MessInv, MessCovered, RowMess, Exists, IdleTask

LEMMA TidyNext ==
    ASSUME Serial, "delete" \notin Commands, NEW m,
           m = "files" => "pack" \notin Kinds,
           Grounds, SoleInv, Tidy(m), [Next]_vars
    PROVE  Tidy(m)'
<1> SUFFICES ASSUME retries' <= 1, m = "stage" => crashes' = 0
             PROVE  MessInv(m)'
  BY DEF Tidy
<1> SerialInv /\ ErrorInv
  BY DEF Grounds
<1>1. /\ retries <= retries' /\ retries \in Nat /\ retries' \in Nat
      /\ crashes' = 0 => crashes = 0
  <2>1. retries \in Nat /\ crashes \in Nat
    BY ConstantsAssumption DEF SerialInv, TypeOK
  <2>2. \A t \in Tasks : Step(t) => UNCHANGED <<crashes, retries>>
    BY StepKeepsCrashes
  <2>3. \A t \in Tasks : Command(t) =>
            crashes' = crashes /\ retries' \in {retries, retries + 1}
    BY DEF Command, Start, Retry, Cancel, Delete
  <2>4. Crash => retries' = retries /\ crashes' = crashes + 1
    BY DEF Crash
  <2>5. UNCHANGED vars => UNCHANGED <<crashes, retries>>
    BY DEF vars
  <2>6. \A t \in Tasks : Boot(t) => UNCHANGED <<crashes, retries>>
    BY DEF Boot
  <2>7. \A j \in Jobs : Dismiss(j) => UNCHANGED <<crashes, retries>>
    BY DEF Dismiss
  <2>8. /\ crashes' = crashes \/ crashes' = crashes + 1
        /\ retries' = retries \/ retries' = retries + 1
    BY <2>2, <2>3, <2>4, <2>5, <2>6, <2>7 DEF Next
  <2> QED
    BY <2>1, <2>8
<1>2. MessInv(m)
  BY <1>1 DEF Tidy
<1>3. CASE UNCHANGED vars
  BY <1>2, <1>3, IdlingMess DEF vars
<1>4. CASE Crash
  <2>1. m # "stage"
    BY <1>4, ConstantsAssumption DEF Crash, SerialInv, TypeOK
  <2> QED
    BY <1>2, <1>4, <2>1, IdlingMess DEF Crash
<1>5. ASSUME NEW j \in Jobs, Dismiss(j) PROVE MessInv(m)'
  BY <1>2, <1>5, IdlingMess DEF Dismiss
<1>6. ASSUME NEW t \in Tasks, Boot(t) PROVE MessInv(m)'
  <2>1. /\ Others(t) /\ task'[t].job = None /\ app = "down"
        /\ UNCHANGED <<row, inst, content, backup, retries>>
    BY <1>6 DEF Boot, SerialInv, TypeOK, Others, IdleTask, Task
  <2>2. task[t].role # "setup"
    BY <2>1 DEF SerialInv, RolesFitApp
  <2> QED
    BY <1>2, <2>1, <2>2, BeginMess
<1>7. ASSUME NEW t \in Tasks, Command(t) PROVE MessInv(m)'
  BY <1>2, <1>7, CommandMess
<1>8. ASSUME NEW t \in Tasks, Step(t) PROVE MessInv(m)'
  <2>1. CASE Recovered(t)
    <3>1. /\ Others(t) /\ task'[t] \in {task[t], IdleTask}
          /\ task[t].role = "recover"
          /\ UNCHANGED <<row, inst, content, backup, retries>>
      BY <2>1 DEF Recovered, Return, At, SerialInv, TypeOK, Others
    <3> QED
      BY <1>2, <3>1, IdlingMess DEF Others
  <2>2. ASSUME NEW j \in Jobs, Recover(t, j) PROVE MessInv(m)'
    BY <1>2, <2>2, RecoverMess
  <2>3. CASE Good(t) /\ MessGood(m, t)
    <3>1. Recovered(t) \/ (\E j \in Jobs : Recover(t, j)) \/ CopyGood(t)
      BY <1>8, StepCopies DEF Grounds
    <3>2. retries' = retries
      BY <1>8, StepKeepsCrashes
    <3> QED
      BY <1>2, <2>1, <2>2, <2>3, <3>1, <3>2, StepKeepsMess
  <2>4. CASE Good(t)
    <3>1. retries' = retries
      BY <1>8, StepKeepsCrashes
    <3> QED
      BY <1>2, <1>8, <2>1, <2>2, <2>3, <2>4, <3>1, StepMess
  <2> QED
    BY <1>8, <2>1, <2>2, <2>4, StepGood
<1> QED
  BY <1>3, <1>4, <1>5, <1>6, <1>7, <1>8 DEF Next

\* Who answers for a mess works on the instance or has failed to restore it.
LEMMA CoveredAnswers ==
    ASSUME SerialInv, NEW m, NEW i \in Instances, Covered(m, i)
    PROVE  Busy(i) \/ FailedRollback(i)
BY DEF Covered, WillTidy, Creates, Busy

TidyInv(m) == Grounds /\ SoleInv /\ Tidy(m)

LEMMA TidyInvInit ==
    ASSUME "lock" \notin Faults, NEW m
    PROVE  Init => TidyInv(m)
BY SerialInit, IdsInit, ErrorInit, CopyInit, SoleInit, TidyInit
DEF TidyInv, Grounds

LEMMA TidyInvNext ==
    ASSUME Serial, "delete" \notin Commands, NEW m,
           m = "files" => "pack" \notin Kinds,
           TidyInv(m), [Next]_vars
    PROVE  TidyInv(m)'
<1>1. /\ SerialInv /\ IdsInv /\ ErrorInv /\ CopyInv /\ SoleInv /\ Tidy(m)
      /\ Grounds
  BY DEF TidyInv, Grounds
<1>2. SerialInv' /\ IdsInv' /\ ErrorInv'
  BY <1>1, SerialNext, IdsNext, ErrorNext
<1>3. CopyInv'
  BY <1>1, <1>2, CopyNext
<1>4. SoleInv' /\ Tidy(m)'
  BY <1>1, SoleNext, TidyNext
<1> QED
  BY <1>2, <1>3, <1>4 DEF TidyInv, Grounds

\* No job leaves the lock on an instance behind: wherever the app is closed,
\* however workers, cancels and recovery interleave, an instance is shown as
\* installing only while somebody is at work on it or a failed rollback that
\* can be retried names it, until the second retry.
THEOREM LocksAreAnswered ==
    ASSUME Serial, "lock" \notin Faults, "delete" \notin Commands
    PROVE  Spec => []NoOrphanLock
<1>1. TidyInv("lock") => NoOrphanLock
  <2> SUFFICES ASSUME TidyInv("lock"), retries <= 1,
                      NEW i \in Instances, inst[i] = "installing"
               PROVE  Busy(i) \/ FailedRollback(i)
    BY DEF NoOrphanLock
  <2>1. Dirty("lock", i) /\ MessInv("lock") /\ SerialInv
    BY DEF Dirty, Messy, TidyInv, Grounds, Tidy
  <2> QED
    BY <2>1, CoveredAnswers DEF MessInv, MessCovered
<1>2. Init => TidyInv("lock")
  BY TidyInvInit
<1>3. TidyInv("lock") /\ [Next]_vars => TidyInv("lock")'
  BY TidyInvNext
<1> QED
  BY <1>1, <1>2, <1>3, PTL DEF Spec

\* No job ends and leaves an instance behind that is not installed and that
\* nobody will finish or remove, as long as the app is not closed between the
\* creation of an instance and the statement that saves its id.
THEOREM InstancesAreAnswered ==
    ASSUME Serial, "lock" \notin Faults, "delete" \notin Commands
    PROVE  Spec => []NoOrphanInstance
<1>1. TidyInv("stage") => NoOrphanInstance
  <2> SUFFICES ASSUME TidyInv("stage"), retries <= 1, crashes = 0,
                      NEW i \in Instances, Exists(i), inst[i] # "installed"
               PROVE  Busy(i) \/ FailedRollback(i)
    BY DEF NoOrphanInstance
  <2>1. Dirty("stage", i) /\ MessInv("stage") /\ SerialInv
    BY DEF Dirty, Messy, TidyInv, Grounds, Tidy, Exists, Stages
  <2> QED
    BY <2>1, CoveredAnswers DEF MessInv, MessCovered
<1>2. Init => TidyInv("stage")
  BY TidyInvInit
<1>3. TidyInv("stage") /\ [Next]_vars => TidyInv("stage")'
  BY TidyInvNext
<1> QED
  BY <1>1, <1>2, <1>3, PTL DEF Spec

\* The update of a shared instance is all or nothing, wherever the app is
\* closed: files that are partly changed are being worked on, will be rolled
\* back, or wait for the retry of a rollback that failed.  (A modpack that is
\* installed into an instance keeps no copy to go back to.)
THEOREM UpdatesAreAtomic ==
    ASSUME Serial, "lock" \notin Faults, "delete" \notin Commands,
           "pack" \notin Kinds
    PROVE  Spec => []UpdateIsAtomic
<1>1. TidyInv("files") => UpdateIsAtomic
  <2> SUFFICES ASSUME TidyInv("files"), retries <= 1,
                      NEW i \in Instances, content[i] = "mixed"
               PROVE  Busy(i) \/ FailedRollback(i)
    BY DEF UpdateIsAtomic
  <2>1. Dirty("files", i) /\ MessInv("files") /\ SerialInv
    BY DEF Dirty, Messy, TidyInv, Grounds, Tidy
  <2> QED
    BY <2>1, CoveredAnswers DEF MessInv, MessCovered
<1>2. Init => TidyInv("files")
  BY TidyInvInit
<1>3. TidyInv("files") /\ [Next]_vars => TidyInv("files")'
  BY TidyInvNext
<1> QED
  BY <1>1, <1>2, <1>3, PTL DEF Spec
=============================================================================
