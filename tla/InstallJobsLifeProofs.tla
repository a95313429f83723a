----------------------- MODULE InstallJobsLifeProofs -----------------------
(***************************************************************************)
(* Theorems about the life of a job, for a client that issues one command  *)
(* at a time per job and instance (Serial): the statuses of the rows       *)
(* implement JobLifecycle, the error of a rollback that failed stays with  *)
(* a job that can be retried, and no job is left active with nobody to     *)
(* finish it.  The last section, for the module that builds on this one,   *)
(* says how the copies of a job that tasks carry agree with its row.       *)
(***************************************************************************)
EXTENDS InstallJobsProofs


----------------------------------------------------------------------------
(* What a task knows of its instance is what the row of its job says, and   *)
(* a deletion cancels the jobs of no other instance and of no command.      *)

SameId(x) ==
    /\ x.pc = "restoring" => row[x.job].kind = "update"
    /\ row[x.job].status \in Active =>
          /\ \/ x.role \in {"run", "cancel"}
                /\ x.pc \notin {"read", "acquire", "finish", "clear"}
             \/ x.role = "stranded" /\ x.pc \in {"cleanup", "restoring"}
             \/ x.role = "setup" /\ x.pc = "lock"
             \/ x.role = "setup" /\ row[x.job].kind # "create"
             => x.js.id = row[x.job].js.id
          /\ x.role = "setup" /\ row[x.job].kind = "create" /\ x.pc # "lock" =>
                row[x.job].js.id = None
          /\ x.role = "cancel" /\ x.pc = "finish" /\ row[x.job].js.id # None =>
                x.js.id = row[x.job].js.id \/ ~Exists(row[x.job].js.id)

IdsKnown == \A t \in Tasks : task[t].job # None => SameId(task[t])

ColumnsOK == \A j \in Jobs : row[j].col \in {None, row[j].js.id}

\* A job that a deletion has listed still names the deleted instance as long
\* as it is active, and no command is at work on it.
ListsOK ==
    \A d \in Tasks : task[d].role = "delete" => \A j \in task[d].left :
        /\ row[j].status # "absent"
        /\ IsActive(j) => row[j].js.id = task[d].js.id
        /\ \A t \in Tasks : task[t].role \in CommandRoles => task[t].job # j

\* All of this counts on the lock that follows a preparation not to fail: a
\* command that clears up after that has an id in its row already.
LocksHold == "lock" \notin Faults

IdsInv == IdsKnown /\ ColumnsOK /\ ListsOK /\ LocksHold

\* A step leaves the id of an active row alone, but for the preparation or
\* the retry of the job.
KeepsIds(t) ==
    \A j \in Jobs :
        \/ row'[j].js.id = row[j].js.id
        \/ row'[j].status \notin Active
        \/ j = task[t].job /\ task[t].role \in {"retry", "setup"}

IdsGood(t) == /\ KeepsIds(t) /\ ColumnsOK'
              /\ task'[t].job # None => SameId(task[t])'

\* A deleted instance does not come back.
LEMMA GoneIsGone ==
    ASSUME NEW t \in Tasks, Polite(t), NEW i \in Instances,
           inst[i] # "unborn", ~Exists(i)
    PROVE  inst'[i] = inst[i]
BY DEF Polite, PoliteToInstances, Exists

\* What a task knows of its row outlives the step of another that leaves the
\* row's id alone.
LEMMA SameIdKept ==
    ASSUME NEW s \in Tasks, SameId(task[s]), task'[s] = task[s],
           row'[task[s].job].kind = row[task[s].job].kind,
           row'[task[s].job].status \in Active =>
               /\ row[task[s].job].status \in Active
               /\ row'[task[s].job].js.id = row[task[s].job].js.id
               /\ row[task[s].job].js.id # None
                  /\ ~Exists(row[task[s].job].js.id) =>
                      ~Exists(row[task[s].job].js.id)'
    PROVE  SameId(task[s])'
BY DEF SameId

LEMMA StepKeepsIds ==
    ASSUME SerialInv, IdsInv, SerialInv', NEW t \in Tasks, Good(t), IdsGood(t)
    PROVE  IdsInv'
<1> USE DEF Good
<1>1. /\ \A s \in Tasks \ {t} : task'[s] = task[s]
      /\ None \notin Jobs \cup Instances
      /\ task'[t].job \in {None, task[t].job}
      /\ \A s \in Tasks : task[s].job \in Jobs \cup {None}
  BY ConstantsAssumption DEF Tame, Others, SerialInv, TypeOK, Task, Instances
<1>2. ASSUME NEW s \in Tasks \ {t}, NEW j \in Jobs, task[s].job = j
      PROVE  SameId(task[s])'
  <2>1. /\ row'[j].kind = row[j].kind
        /\ row'[j].status \in Active => row[j].status \in Active
    <3>1. CASE j = task[t].job
      <4>1. task[t].role # "retry"
        BY <1>1, <1>2, <3>1 DEF SerialInv, Separate, Company, Paired
      <4> QED
        BY <3>1, <4>1 DEF Polite, PoliteToJobs, TouchesOwn, IsActive
    <3>2. CASE j # task[t].job
      BY <3>2 DEF Polite, PoliteToJobs, TouchesOther, Active
    <3> QED
      BY <3>1, <3>2
  <2>2. row'[j].status \in Active => row'[j].js.id = row[j].js.id
    <3>1. j = task[t].job => task[t].role \notin {"retry", "setup"}
      BY <1>1, <1>2 DEF SerialInv, Separate, Company, Paired
    <3> QED
      BY <3>1 DEF IdsGood, KeepsIds
  <2>3. row[j].js.id \in Instances \cup {None}
    BY DEF SerialInv, TypeOK, Row, JobState
  <2>4. row[j].js.id # None /\ ~Exists(row[j].js.id) =>
          inst'[row[j].js.id] = inst[row[j].js.id]
    BY <2>3, GoneIsGone DEF SerialInv, Separate, IdsBorn
  <2>5. row'[j].status \in Active =>
          (row[j].js.id # None /\ ~Exists(row[j].js.id) => ~Exists(row[j].js.id)')
    BY <2>2, <2>4 DEF Exists
  <2>6. SameId(task[s]) /\ task'[s] = task[s]
    BY <1>1, <1>2 DEF IdsInv, IdsKnown
  <2> QED
    BY <1>2, <2>1, <2>2, <2>5, <2>6, SameIdKept
<1>3. IdsKnown'
  BY <1>1, <1>2 DEF IdsKnown, IdsGood
<1>4. ListsOK'
  <2> SUFFICES ASSUME NEW d \in Tasks, task'[d].role = "delete",
                      NEW j \in Jobs, j \in task'[d].left
               PROVE  /\ row'[j].status # "absent"
                      /\ row'[j].status \in Active => row'[j].js.id = task'[d].js.id
                      /\ \A s \in Tasks : task'[s].role \in CommandRoles =>
                            task'[s].job # j
    BY DEF ListsOK, IsActive, SerialInv, TypeOK, Task
  <2>1. /\ task[d].role = "delete" /\ j \in task[d].left
        /\ task[d].job = None /\ task[d].js.id # None
    BY <1>1 DEF Tame, SerialInv, TasksPlaced, Placed
  <2>2. task'[d].js.id = task[d].js.id
    <3>1. d = t => task'[d].job = None
      BY <1>1, <2>1
    <3> QED
      BY <1>1, <2>1, <3>1 DEF Tame
  <2>3. /\ row[j].status # "absent"
        /\ IsActive(j) => row[j].js.id = task[d].js.id
        /\ \A s \in Tasks : task[s].role \in CommandRoles => task[s].job # j
    BY <2>1 DEF IdsInv, ListsOK
  <2>4. j = task[t].job => task[t].role \notin {"retry", "setup"}
    BY <2>3 DEF CommandRoles
  <2>5. /\ row'[j].status # "absent"
        /\ row'[j].status \in Active => IsActive(j)
    <3>1. CASE j = task[t].job
      BY <2>4, <3>1 DEF Polite, PoliteToJobs, TouchesOwn
    <3>2. CASE j # task[t].job
      BY <2>3, <3>2 DEF Polite, PoliteToJobs, TouchesOther, IsActive, Active
    <3> QED
      BY <3>1, <3>2
  <2>6. row'[j].status \in Active => row'[j].js.id = row[j].js.id
    BY <2>4 DEF IdsGood, KeepsIds
  <2>7. ASSUME NEW s \in Tasks, task'[s].role \in CommandRoles
        PROVE  task'[s].job # j
    <3>1. CASE s # t
      BY <1>1, <2>3, <2>7, <3>1
    <3>2. CASE s = t /\ task'[t].job # None
      <4>1. task[t].role \in CommandRoles
        BY <2>7, <3>2 DEF Tame, CommandRoles
      <4> QED
        BY <1>1, <2>3, <3>2, <4>1
    <3>3. CASE s = t /\ task'[t].job = None
      BY <1>1, <3>3
    <3> QED
      BY <3>1, <3>2, <3>3
  <2> QED
    BY <2>2, <2>3, <2>5, <2>6, <2>7
<1> QED
  BY <1>3, <1>4 DEF IdsInv, IdsGood

\* Steps that leave ids and columns alone.
LEMMA RowsKeepIds ==
    ASSUME IdsInv, NEW t \in Tasks, RowsKept,
           \A j \in Jobs : row'[j].col \in {None, row[j].col}
    PROVE  KeepsIds(t) /\ ColumnsOK'
BY DEF RowsKept, KeepsIds, IdsInv, ColumnsOK

LEMMA WriteKeepsIds ==
    ASSUME IdsInv, NEW t \in Tasks, NEW j \in Jobs, NEW status, NEW js,
           Writes(j, status, js),
           \/ js.id = row[j].js.id
           \/ status \notin Active
           \/ j = task[t].job /\ task[t].role \in {"retry", "setup"}
    PROVE  KeepsIds(t) /\ ColumnsOK'
BY DEF Writes, KeepsIds, IdsInv, ColumnsOK

LEMMA SameRowKeepsIds ==
    ASSUME IdsInv, NEW t \in Tasks, UNCHANGED row
    PROVE  KeepsIds(t) /\ ColumnsOK' /\ RowsKept
BY DEF RowsKept, KeepsIds, IdsInv, ColumnsOK

LEMMA DropKeepsIds ==
    ASSUME IdsInv, NEW t \in Tasks, NEW i, Drops(i)
    PROVE  KeepsIds(t) /\ ColumnsOK' /\ RowsKept
BY RowsKeepIds DEF Drops, RowsKept

LEMMA IdlesIds ==
    ASSUME NEW t \in Tasks, Idles(t) \/ Proceeds(t), KeepsIds(t), ColumnsOK'
    PROVE  IdsGood(t)
BY DEF Idles, Proceeds, IdsGood

\* A task that is done with its row, or does not act on an active one.
LEMMA MoveIds ==
    ASSUME SerialInv, NEW t \in Tasks, NEW role, NEW pc, NEW js,
           Moves(t, role, pc, js), KeepsIds(t), ColumnsOK',
           pc # "restoring",
           \/ row'[task[t].job].status \notin Active
           \/ role \in {"retry", "recover", "delete"}
           \/ role = "run" /\ pc \in {"read", "acquire", "finish", "clear"}
           \/ role = "stranded" /\ pc \notin {"cleanup", "restoring"}
           \/ role # "setup" /\ js.id = row'[task[t].job].js.id
    PROVE  IdsGood(t)
BY DEF Moves, IdsGood, SameId

\* The facts about the task that an action starts from.
LEMMA Knowing ==
    ASSUME SerialInv, IdsInv, NEW t \in Tasks,
           task[t].pc \notin {"idle", "list", "next"}
    PROVE  SameId(task[t])
BY Acting DEF IdsInv, IdsKnown

LEMMA RequeueIds ==
    ASSUME SerialInv, IdsInv, NEW t \in Tasks, Requeue(t)
    PROVE  IdsGood(t)
<1> DEFINE id == IF row[task[t].job].kind = "create" THEN None ELSE task[t].js.id
<1>1. At(t, "retry", "requeue")
  BY DEF Requeue
<1> USE Acting DEF At
<1>2. CASE Return(t) /\ UNCHANGED row
  BY <1>1, <1>2, ReturnIdles, SameRowKeepsIds, IdlesIds
<1>3. CASE /\ row' = WithStatus(task[t].job, "queued", NewState(id))
           /\ task' = [task EXCEPT ![t].role = "setup", ![t].pc = "prepare",
                                   ![t].js = NewState(id)]
  <2> HIDE DEF id
  <2>1. Moves(t, "setup", "prepare", NewState(id))
    BY <1>1, <1>3 DEF Moves, Others, TypeOK, Task
  <2>2. Writes(task[t].job, "queued", NewState(id))
    BY <1>1, <1>3, WithStatusWrites
  <2>3. KeepsIds(t) /\ ColumnsOK'
    BY <1>1, <2>2, WriteKeepsIds
  <2>4. row[task[t].job].kind = "create" => id = None
    BY DEF id
  <2>5. SameId(task[t])'
    BY <1>1, <2>1, <2>2, <2>4 DEF SameId, Moves, Writes, NewState
  <2> QED
    BY <2>3, <2>5 DEF IdsGood
<1> QED
  BY <1>1, <1>2, <1>3 DEF Requeue

LEMMA PrepareNewIds ==
    ASSUME SerialInv, IdsInv, NEW t \in Tasks, PrepareNew(t)
    PROVE  IdsGood(t)
<1>1. At(t, "setup", "prepare") /\ UNCHANGED row /\ row[task[t].job].kind = "create"
  BY DEF PrepareNew
<1> USE Acting DEF At
<1>2. PICK pc, js : pc \in {"persist", "cleanup"} /\ Moves(t, "setup", pc, js)
  <2>1. ASSUME NEW i, NEW ok, GotoWith(t, IF ok THEN "persist" ELSE "cleanup",
                                       [task[t].js EXCEPT !.id = i])
        PROVE  Moves(t, "setup", IF ok THEN "persist" ELSE "cleanup",
                     [task[t].js EXCEPT !.id = i])
    BY <1>1, <2>1, GotoWithMoves
  <2>2. CASE Goto(t, "cleanup")
    BY <1>1, <2>2, GotoMoves
  <2>3. \/ \E i, ok : GotoWith(t, IF ok THEN "persist" ELSE "cleanup",
                               [task[t].js EXCEPT !.id = i])
        \/ Goto(t, "cleanup")
    BY DEF PrepareNew
  <2>4. CASE \E i, ok : GotoWith(t, IF ok THEN "persist" ELSE "cleanup",
                                 [task[t].js EXCEPT !.id = i])
    <3>1. PICK i, ok : GotoWith(t, IF ok THEN "persist" ELSE "cleanup",
                                [task[t].js EXCEPT !.id = i])
      BY <2>4
    <3>2. Moves(t, "setup", IF ok THEN "persist" ELSE "cleanup",
                [task[t].js EXCEPT !.id = i])
      BY <2>1, <3>1
    <3>3. (IF ok THEN "persist" ELSE "cleanup") \in {"persist", "cleanup"}
      OBVIOUS
    <3> QED
      BY <3>2, <3>3
  <2> QED
    BY <2>2, <2>3, <2>4
<1>3. SameId(task[t])
  BY <1>1, Knowing
<1>4. SameId(task[t])'
  BY <1>1, <1>2, <1>3 DEF SameId, Moves
<1> QED
  BY <1>1, <1>4, SameRowKeepsIds DEF IdsGood

LEMMA PrepareExistingIds ==
    ASSUME SerialInv, IdsInv, NEW t \in Tasks, PrepareExisting(t)
    PROVE  IdsGood(t)
<1>1. At(t, "setup", "prepare") /\ UNCHANGED row /\ row[task[t].job].kind # "create"
  BY DEF PrepareExisting
<1> USE Acting DEF At
<1>2. PICK pc, js : pc \in {"persist", "cleanup"} /\ Moves(t, "setup", pc, js)
          /\ js.id = task[t].js.id
  <2>1. CASE GotoWith(t, "persist", [task[t].js EXCEPT !.rb = inst[task[t].js.id]])
    <3>1. [task[t].js EXCEPT !.rb = inst[task[t].js.id]].id = task[t].js.id
      BY <1>1 DEF TypeOK, Task, JobState
    <3>2. Moves(t, "setup", "persist", [task[t].js EXCEPT !.rb = inst[task[t].js.id]])
      BY <1>1, <2>1, GotoWithMoves
    <3> QED
      BY <3>1, <3>2
  <2>2. CASE Goto(t, "cleanup")
    BY <1>1, <2>2, GotoMoves
  <2> QED
    BY <2>1, <2>2 DEF PrepareExisting
<1>3. SameId(task[t])
  BY <1>1, Knowing
<1>4. SameId(task[t])'
  BY <1>1, <1>2, <1>3 DEF SameId, Moves
<1> QED
  BY <1>1, <1>4, SameRowKeepsIds DEF IdsGood

LEMMA PersistIds ==
    ASSUME SerialInv, IdsInv, NEW t \in Tasks, Persist(t)
    PROVE  IdsGood(t)
<1>1. At(t, "setup", "persist")
  BY DEF Persist
<1> USE Acting DEF At
<1>2. CASE ~IsActive(task[t].job) /\ Goto(t, "cleanup") /\ UNCHANGED row
  <2>1. Moves(t, "setup", "cleanup", task[t].js)
    BY <1>1, <1>2, GotoMoves
  <2> QED
    BY <1>1, <1>2, <2>1, MoveIds, SameRowKeepsIds DEF IsActive
<1>3. CASE IsActive(task[t].job) /\ Goto(t, "lock") /\ row' = Updated(task[t].job, task[t].js)
  <2>1. Moves(t, "setup", "lock", task[t].js)
    BY <1>1, <1>3, GotoMoves
  <2>2. Writes(task[t].job, row[task[t].job].status, task[t].js)
    BY <1>1, <1>3, UpdatedWrites
  <2>3. KeepsIds(t) /\ ColumnsOK'
    BY <1>1, <2>2, WriteKeepsIds
  <2>4. SameId(task[t])'
    BY <1>1, <2>1, <2>2 DEF SameId, Moves, Writes
  <2> QED
    BY <2>3, <2>4 DEF IdsGood
<1> QED
  BY <1>2, <1>3 DEF Persist

\* A lock that holds spawns the worker.
LEMMA LockSpawns ==
    ASSUME SerialInv, IdsInv, NEW t \in Tasks, LockAndSpawn(t)
    PROVE  /\ task[t].role = "setup" /\ task[t].pc = "lock"
           /\ UNCHANGED <<row, content, backup>>
           /\ Others(t) /\ task'[t].role = "run" /\ task'[t].pc = "read"
           /\ task'[t].job = task[t].job /\ task'[t].js = NewState(None)
           /\ IF Exists(task[t].js.id) THEN StageTo(task[t].js.id, "installing")
                                       ELSE UNCHANGED inst
<1>1. /\ task[t].role = "setup" /\ task[t].pc = "lock"
      /\ UNCHANGED <<row, content, backup>>
      /\ inst' = WithStage(task[t].js.id, "installing")
      /\ task' = [task EXCEPT ![t] = [IdleTask EXCEPT !.role = "run",
                      !.pc = "read", !.job = task[t].job]]
  BY DEF LockAndSpawn, At, IdsInv, LocksHold, Outcome
<1>2. IF Exists(task[t].js.id) THEN StageTo(task[t].js.id, "installing")
                               ELSE UNCHANGED inst
  BY <1>1, StagedTo DEF SerialInv
<1> QED
  BY <1>1, <1>2, Acting DEF IdleTask, TypeOK, Task, Others

LEMMA LockAndSpawnIds ==
    ASSUME SerialInv, IdsInv, NEW t \in Tasks, LockAndSpawn(t)
    PROVE  IdsGood(t)
<1>1. At(t, "setup", "lock") /\ UNCHANGED row /\ TypeOK
  BY LockSpawns DEF At, SerialInv
<1>2. task'[t].role = "run" /\ task'[t].pc = "read"
  BY LockSpawns
<1> QED
  BY <1>1, <1>2, SameRowKeepsIds DEF IdsGood, SameId

\* A run that goes on with the id it has, or with the one of its row.
LEMMA RunMoveIds ==
    ASSUME SerialInv, IdsInv, NEW t \in Tasks, task[t].role = "run",
           task[t].pc \in {"claim", "work", "backup", "save", "install",
                           "ended_ok", "ended_err", "succeed"},
           NEW pc, pc # "restoring", NEW js, Moves(t, "run", pc, js),
           js.id = task[t].js.id,
           \/ UNCHANGED row
           \/ IsActive(task[t].job) /\ \E status : Writes(task[t].job, status, js)
    PROVE  IdsGood(t)
<1> USE Acting
<1>1. row[task[t].job].status \in Active => task[t].js.id = row[task[t].job].js.id
  BY Knowing DEF SameId
<1>2. CASE UNCHANGED row
  BY <1>1, <1>2, SameRowKeepsIds, MoveIds
<1>3. CASE IsActive(task[t].job) /\ \E status : Writes(task[t].job, status, js)
  <2>1. PICK status : Writes(task[t].job, status, js)
    BY <1>3
  <2>2. KeepsIds(t) /\ ColumnsOK'
    BY <1>1, <1>3, <2>1, WriteKeepsIds DEF IsActive
  <2> QED
    BY <2>1, <2>2, MoveIds DEF Writes
<1> QED
  BY <1>2, <1>3

LEMMA RunIds ==
    ASSUME SerialInv, IdsInv, NEW t \in Tasks, Run(t)
    PROVE  IdsGood(t)
<1> USE Acting DEF At
<1>1. CASE RunRead(t)
  <2>1. task[t].role = "run" /\ task[t].pc = "read" /\ UNCHANGED row
    BY <1>1 DEF RunRead
  <2>2. Idles(t) \/ Moves(t, "run", "acquire", task[t].js)
    BY <1>1, <2>1, ReturnIdles, GotoMoves DEF RunRead
  <2> QED
    BY <2>1, <2>2, SameRowKeepsIds, MoveIds, IdlesIds
<1>2. CASE Acquire(t)
  <2>1. task[t].role = "run" /\ task[t].pc = "acquire" /\ UNCHANGED row
    BY <1>2 DEF Acquire
  <2>2. Idles(t) \/ Moves(t, "run", "claim", row[task[t].job].js)
    BY <1>2, <2>1, ReturnIdles, GotoWithMoves DEF Acquire
  <2> QED
    BY <2>1, <2>2, SameRowKeepsIds, MoveIds, IdlesIds
<1>3. CASE Claim(t)
  <2>1. task[t].role = "run" /\ task[t].pc = "claim"
    BY <1>3 DEF Claim
  <2>2. CASE Return(t) /\ UNCHANGED row
    BY <2>1, <2>2, ReturnIdles, SameRowKeepsIds, IdlesIds
  <2>3. CASE Strand(t) /\ UNCHANGED row
    BY <2>1, <2>3, StrandMoves, SameRowKeepsIds, MoveIds
  <2>4. CASE /\ row[task[t].job].status = "queued"
             /\ row' = WithStatus(task[t].job, "running", task[t].js)
             /\ Goto(t, "work")
    <3>1. Moves(t, "run", "work", task[t].js)
      BY <2>1, <2>4, GotoMoves
    <3>2. Writes(task[t].job, "running", task[t].js)
      BY <2>1, <2>4, WithStatusWrites
    <3> QED
      BY <2>1, <2>4, <3>1, <3>2, RunMoveIds DEF IsActive, Active
  <2> QED
    BY <1>3, <2>2, <2>3, <2>4 DEF Claim
<1>4. CASE WorkNew(t)
  <2>1. task[t].role = "run" /\ task[t].pc = "work" /\ UNCHANGED row
    BY <1>4 DEF WorkNew
  <2>2. Moves(t, "run", "install", task[t].js) \/ Moves(t, "run", "ended_err", task[t].js)
    <3>1. CASE Goto(t, "ended_err")
      BY <2>1, <3>1, GotoMoves
    <3>2. CASE task' = [task EXCEPT ![t].pc = "install", ![t].prev = inst[task[t].js.id]]
      BY <2>1, <3>2 DEF Moves, Others, TypeOK, Task
    <3> QED
      BY <1>4, <3>1, <3>2 DEF WorkNew
  <2> QED
    BY <2>1, <2>2, RunMoveIds
<1>5. CASE WorkExisting(t)
  <2>1. task[t].role = "run" /\ task[t].pc = "work"
    BY <1>5 DEF WorkExisting
  <2>2. CASE Goto(t, "ended_err") /\ UNCHANGED row
    BY <2>1, <2>2, GotoMoves, RunMoveIds
  <2>3. CASE Exists(task[t].js.id)
    <3> DEFINE js == [task[t].js EXCEPT
                         !.rb = IF @ = None THEN inst[task[t].js.id] ELSE @]
               pc == IF row[task[t].job].kind = "update" THEN "backup"
                     ELSE IF IsActive(task[t].job) THEN "install"
                     ELSE "ended_err"
    <3>1. /\ task' = [task EXCEPT ![t].pc = pc, ![t].js = js,
                                  ![t].prev = "installing"]
          /\ row' = IF IsActive(task[t].job) /\ row[task[t].job].kind # "update"
                    THEN Updated(task[t].job, js) ELSE row
      BY <1>5, <2>3 DEF WorkExisting
    <3>2. pc # "restoring"
      OBVIOUS
    <3>3. js.id = task[t].js.id
      BY <2>1 DEF TypeOK, Task, JobState
    <3> HIDE DEF pc, js
    <3>4. Moves(t, "run", pc, js)
      BY <2>1, <3>1 DEF Moves, Others, TypeOK, Task
    <3>5. \/ UNCHANGED row
          \/ /\ IsActive(task[t].job)
             /\ Writes(task[t].job, row[task[t].job].status, js)
      BY <2>1, <3>1, UpdatedWrites
    <3> QED
      BY <2>1, <3>2, <3>3, <3>4, <3>5, RunMoveIds
  <2> QED
    BY <1>5, <2>2, <2>3 DEF WorkExisting
<1>6. CASE Backup(t)
  <2>1. task[t].role = "run" /\ task[t].pc = "backup" /\ UNCHANGED row
    BY <1>6 DEF Backup
  <2>2. [task[t].js EXCEPT !.staging = TRUE].id = task[t].js.id
    BY <2>1 DEF TypeOK, Task, JobState
  <2>3. \/ Moves(t, "run", "ended_err", task[t].js)
        \/ Moves(t, "run", "save", [task[t].js EXCEPT !.staging = TRUE])
    <3>1. CASE Goto(t, "ended_err")
      BY <2>1, <3>1, GotoMoves
    <3>2. CASE GotoWith(t, "save", [task[t].js EXCEPT !.staging = TRUE])
      BY <2>1, <3>2, GotoWithMoves
    <3> QED
      BY <1>6, <3>1, <3>2 DEF Backup
  <2> QED
    BY <2>1, <2>2, <2>3, RunMoveIds
<1>7. CASE SaveBackup(t)
  <2>1. task[t].role = "run" /\ task[t].pc = "save"
    BY <1>7 DEF SaveBackup
  <2>2. PICK pc \in {"install", "ended_err"} : Moves(t, "run", pc, task[t].js)
    BY <1>7, <2>1, GotoMoves DEF SaveBackup
  <2>3. \/ UNCHANGED row
        \/ /\ IsActive(task[t].job)
           /\ Writes(task[t].job, row[task[t].job].status, task[t].js)
    BY <1>7, <2>1, UpdatedWrites DEF SaveBackup
  <2> QED
    BY <2>1, <2>2, <2>3, RunMoveIds
<1>8. CASE Install(t)
  <2>1. task[t].role = "run" /\ task[t].pc = "install" /\ UNCHANGED row
    BY <1>8 DEF Install
  <2>2. PICK pc \in {"ended_ok", "ended_err"} : Moves(t, "run", pc, task[t].js)
    BY <1>8, <2>1, GotoMoves DEF Install
  <2> QED
    BY <2>1, <2>2, RunMoveIds
<1>9. CASE Reread(t)
  <2>1. task[t].role = "run" /\ task[t].pc \in {"ended_ok", "ended_err"} /\ UNCHANGED row
    BY <1>9 DEF Reread
  <2>2. CASE Return(t)
    BY <2>1, <2>2, ReturnIdles, SameRowKeepsIds, IdlesIds
  <2>3. CASE GotoWith(t, "succeed", [row[task[t].job].js EXCEPT !.id = task[t].js.id])
    <3>1. [row[task[t].job].js EXCEPT !.id = task[t].js.id].id = task[t].js.id
      BY <2>1 DEF TypeOK, Row, JobState
    <3>2. Moves(t, "run", "succeed", [row[task[t].job].js EXCEPT !.id = task[t].js.id])
      BY <2>1, <2>3, GotoWithMoves
    <3> QED
      BY <2>1, <3>1, <3>2, RunMoveIds
  <2>4. CASE GotoWith(t, "cleanup", row[task[t].job].js)
    BY <2>1, <2>4, GotoWithMoves, SameRowKeepsIds, MoveIds
  <2>5. ASSUME NEW pc \in {"succeed", "cleanup"}, Goto(t, pc)
        PROVE  IdsGood(t)
    BY <2>1, <2>5, GotoMoves, RunMoveIds
  <2> QED
    BY <1>9, <2>2, <2>3, <2>4, <2>5 DEF Reread
<1>10. CASE Succeed(t)
  <2> DEFINE js == [task[t].js EXCEPT !.rberr = FALSE]
  <2>1. task[t].role = "run" /\ task[t].pc = "succeed"
    BY <1>10 DEF Succeed
  <2>2. CASE Return(t) /\ UNCHANGED row
    BY <2>1, <2>2, ReturnIdles, SameRowKeepsIds, IdlesIds
  <2>3. CASE Strand(t) /\ UNCHANGED row
    BY <2>1, <2>3, StrandMoves, SameRowKeepsIds, MoveIds
  <2>4. CASE row' = WithStatus(task[t].job, "succeeded", js) /\ AfterFinish(t, js)
    <3> HIDE DEF js
    <3>1. Writes(task[t].job, "succeeded", js)
      BY <2>1, <2>4, WithStatusWrites
    <3>2. KeepsIds(t) /\ ColumnsOK'
      BY <2>1, <3>1, WriteKeepsIds DEF Active
    <3> QED
      BY <2>1, <2>4, <3>2, AfterFinishMoves, MoveIds, IdlesIds
  <2> QED
    BY <1>10, <2>2, <2>3, <2>4 DEF Succeed
<1>11. CASE CheckStranded(t)
  <2>1. task[t].role = "stranded" /\ task[t].pc = "check" /\ UNCHANGED row
    BY <1>11 DEF CheckStranded
  <2>2. Idles(t) \/ Moves(t, "stranded", "cleanup", row[task[t].job].js)
    BY <1>11, <2>1, ReturnIdles, GotoWithMoves DEF CheckStranded
  <2> QED
    BY <2>1, <2>2, SameRowKeepsIds, MoveIds, IdlesIds
<1> QED
  BY <1>1, <1>2, <1>3, <1>4, <1>5, <1>6, <1>7, <1>8, <1>9, <1>10, <1>11 DEF Run

\* A clean-up that has returned and left the rows' ids alone.
LEMMA CleanedUpIds ==
    ASSUME SerialInv, IdsInv, NEW t \in Tasks, NEW ok \in BOOLEAN,
           task[t].pc \in {"cleanup", "restoring"}, CleanedUp(t, ok),
           RowsKept, KeepsIds(t), ColumnsOK',
           \/ ~ok
           \/ row[task[t].job].kind # "create"
           \/ \A i \in Instances : i = task[t].js.id => ~Exists(i)'
    PROVE  IdsGood(t)
<1> USE Acting
<1>1. SameId(task[t])
  BY Knowing
<1>2. /\ row'[task[t].job].status = row[task[t].job].status
      /\ row'[task[t].job].js = row[task[t].job].js
      /\ row'[task[t].job].kind = row[task[t].job].kind
  BY DEF RowsKept
<1>3. CASE Idles(t)
  BY <1>3, IdlesIds
<1>4. CASE task[t].role = "retry" /\ Moves(t, "retry", "requeue", task[t].js)
  BY <1>4, MoveIds
<1>5. CASE task[t].role # "retry" /\ Moves(t, task[t].role, "finish", Undone(t, ok))
  <2>1. ok /\ row[task[t].job].kind = "create" /\ task[t].js.id \in Instances =>
          inst'[task[t].js.id] \notin Stages
    BY DEF Exists
  <2>2. PICK js : /\ js = task'[t].js
                  /\ \/ js.id = task[t].js.id
                     \/ /\ js.id = None /\ ok
                        /\ row[task[t].job].kind = "create"
    BY <1>5, UndoneState DEF Moves
  <2>3. task'[t].pc = "finish" /\ task'[t].role = task[t].role /\ task'[t].job = task[t].job
    BY <1>5 DEF Moves
  <2>4. row[task[t].job].status \in Active =>
          /\ task[t].role = "cancel" => task[t].js.id = row[task[t].job].js.id
          /\ task[t].role = "setup" /\ row[task[t].job].kind # "create" =>
                task[t].js.id = row[task[t].job].js.id
          /\ task[t].role = "setup" /\ row[task[t].job].kind = "create" =>
                row[task[t].job].js.id = None
    BY <1>1 DEF SameId
  <2>5. SameId(task[t])'
    BY <1>2, <2>1, <2>2, <2>3, <2>4 DEF SameId, Exists
  <2> QED
    BY <2>5 DEF IdsGood
<1>6. CleanedUp(t, ok) /\ SerialInv
  OBVIOUS
<1> QED
  BY <1>3, <1>4, <1>5, <1>6, CleanedUpMoves

LEMMA RemoveNewInstanceIds ==
    ASSUME SerialInv, IdsInv, NEW t \in Tasks, RemoveNewInstance(t)
    PROVE  IdsGood(t)
<1>1. task[t].pc = "cleanup" /\ Exists(task[t].js.id) /\ task[t].js.id \in Instances
  BY DEF RemoveNewInstance, Undoes, Exists
<1>2. ASSUME NEW ok \in Outcome("directory"), DropInstance(task[t].js.id), CleanedUp(t, ok)
      PROVE  IdsGood(t)
  <2>1. ok \in BOOLEAN
    BY DEF Outcome
  <2>2. Drops(task[t].js.id)
    BY <1>1, <1>2, DropDrops DEF SerialInv
  <2>3. \A i \in Instances : i = task[t].js.id => ~Exists(i)'
    BY <2>2 DEF Drops, Exists, Stages
  <2> QED
    BY <1>1, <1>2, <2>1, <2>2, <2>3, DropKeepsIds, CleanedUpIds
<1>3. CASE CleanedUp(t, FALSE) /\ UNCHANGED row
  BY <1>1, <1>3, SameRowKeepsIds, CleanedUpIds
<1> QED
  BY <1>2, <1>3 DEF RemoveNewInstance

LEMMA NothingToUndoIds ==
    ASSUME SerialInv, IdsInv, NEW t \in Tasks, NothingToUndo(t)
    PROVE  IdsGood(t)
<1>1. /\ task[t].pc = "cleanup" /\ CleanedUp(t, TRUE) /\ UNCHANGED <<row, inst>>
      /\ row[task[t].job].kind # "create" \/ ~Exists(task[t].js.id)
  BY DEF NothingToUndo, Undoes
<1>2. \/ row[task[t].job].kind # "create"
      \/ \A i \in Instances : i = task[t].js.id => ~Exists(i)'
  BY <1>1 DEF Exists
<1> QED
  BY <1>1, <1>2, SameRowKeepsIds, CleanedUpIds

LEMMA RestoreStageIds ==
    ASSUME SerialInv, IdsInv, NEW t \in Tasks, RestoreStage(t)
    PROVE  IdsGood(t)
<1>1. /\ task[t].pc = "cleanup" /\ CleanedUp(t, TRUE) /\ UNCHANGED row
      /\ row[task[t].job].kind # "create"
  BY DEF RestoreStage, Undoes
<1> QED
  BY <1>1, SameRowKeepsIds, CleanedUpIds

LEMMA BeginRestoreIds ==
    ASSUME SerialInv, IdsInv, NEW t \in Tasks, BeginRestore(t)
    PROVE  IdsGood(t)
<1>1. /\ task[t].pc = "cleanup" /\ UNCHANGED row
      /\ row[task[t].job].kind = "update"
  BY DEF BeginRestore, Undoes
<1> USE Acting
<1>2. CASE CleanedUp(t, FALSE)
  BY <1>1, <1>2, SameRowKeepsIds, CleanedUpIds
<1>3. CASE Goto(t, "restoring")
  <2>1. Moves(t, task[t].role, "restoring", task[t].js)
    BY <1>1, <1>3, GotoMoves
  <2>2. SameId(task[t])
    BY <1>1, Knowing
  <2>3. SameId(task[t])'
    BY <1>1, <2>1, <2>2 DEF SameId, Moves
  <2> QED
    BY <1>1, <2>3, SameRowKeepsIds DEF IdsGood
<1> QED
  BY <1>2, <1>3 DEF BeginRestore

LEMMA EndRestoreIds ==
    ASSUME SerialInv, IdsInv, NEW t \in Tasks, EndRestore(t)
    PROVE  IdsGood(t)
<1>1. task[t].pc = "restoring" /\ UNCHANGED row
  BY DEF EndRestore
<1>2. row[task[t].job].kind = "update"
  BY <1>1, Knowing DEF SameId
<1>3. PICK ok \in BOOLEAN : CleanedUp(t, ok)
  BY DEF EndRestore
<1> QED
  BY <1>1, <1>2, <1>3, SameRowKeepsIds, CleanedUpIds

\* A job that is finished is of no interest any more.
LEMMA FinishIds ==
    ASSUME SerialInv, IdsInv, NEW t \in Tasks, NEW js, AfterFinish(t, js),
           TypeOK, task[t].job \in Jobs, KeepsIds(t), ColumnsOK',
           row'[task[t].job].status \notin Active
    PROVE  IdsGood(t)
BY AfterFinishMoves, MoveIds, IdlesIds

LEMMA TerminalizeIds ==
    ASSUME SerialInv, IdsInv, NEW t \in Tasks, NEW status \in Finished,
           task[t].pc = "finish", Terminalize(t, status)
    PROVE  IdsGood(t)
<1> USE Acting
<1>1. CASE IsActive(task[t].job) /\ Writes(task[t].job, status, task[t].js)
  <2>1. KeepsIds(t) /\ ColumnsOK'
    BY <1>1, WriteKeepsIds DEF Finished, Active
  <2>2. row'[task[t].job].status \notin Active
    BY <1>1 DEF Writes, Finished, Active
  <2>3. AfterFinish(t, task[t].js)
    BY <1>1 DEF Terminalize
  <2> QED
    BY <2>1, <2>2, <2>3, FinishIds
<1>2. CASE ~IsActive(task[t].job) /\ UNCHANGED row
  <2>1. KeepsIds(t) /\ ColumnsOK' /\ row'[task[t].job].status \notin Active
    BY <1>2, SameRowKeepsIds DEF IsActive
  <2>2. AfterFinish(t, NewState(None))
    BY <1>2 DEF Terminalize
  <2> QED
    BY <2>1, <2>2, FinishIds
<1> QED
  BY <1>1, <1>2, FinishActiveWrites DEF Terminalize

LEMMA ClearStagingIds ==
    ASSUME SerialInv, IdsInv, NEW t \in Tasks, ClearStaging(t)
    PROVE  IdsGood(t)
<1> USE Acting
<1>1. task[t].pc = "clear" /\ UNCHANGED row /\ AfterFinish(t, NewState(None))
  BY DEF ClearStaging
<1>2. row'[task[t].job].status \notin Active
  BY <1>1 DEF RowFits, IsActive
<1> QED
  BY <1>1, <1>2, SameRowKeepsIds, FinishIds

LEMMA ClaimCancelIds ==
    ASSUME SerialInv, IdsInv, NEW t \in Tasks, ClaimCancel(t)
    PROVE  IdsGood(t)
<1> USE Acting
<1>1. task[t].role = "cancel" /\ task[t].pc = "claim"
  BY DEF ClaimCancel, At
<1>2. CASE Return(t) /\ UNCHANGED row
  BY <1>1, <1>2, ReturnIdles, SameRowKeepsIds, IdlesIds
<1>3. CASE /\ row[task[t].job].status = "queued"
           /\ row' = WithStatus(task[t].job, "running", task[t].js)
           /\ Goto(t, "cleanup")
  <2>1. Moves(t, "cancel", "cleanup", task[t].js)
    BY <1>1, <1>3, GotoMoves
  <2>2. Writes(task[t].job, "running", task[t].js)
    BY <1>1, <1>3, WithStatusWrites
  <2>3. task[t].js.id = row[task[t].job].js.id
    BY <1>1, <1>3, Knowing DEF SameId, Active
  <2>4. KeepsIds(t) /\ ColumnsOK'
    BY <1>1, <2>2, <2>3, WriteKeepsIds
  <2> QED
    BY <1>1, <2>1, <2>2, <2>4, MoveIds DEF Writes
<1> QED
  BY <1>2, <1>3 DEF ClaimCancel

LEMMA FinishCancelIds ==
    ASSUME SerialInv, IdsInv, NEW t \in Tasks, FinishCancel(t)
    PROVE  IdsGood(t)
<1> USE Acting
<1>1. task[t].role = "cancel" /\ task[t].pc = "finish"
  BY DEF FinishCancel, At
<1>2. CASE Return(t) /\ UNCHANGED row
  BY <1>1, <1>2, ReturnIdles, SameRowKeepsIds, IdlesIds
<1>3. ASSUME NEW status \in {"failed", "canceled"},
             row' = WithStatus(task[t].job, status, task[t].js),
             AfterFinish(t, task[t].js)
      PROVE  IdsGood(t)
  <2>1. Writes(task[t].job, status, task[t].js)
    BY <1>1, <1>3, WithStatusWrites
  <2>2. row'[task[t].job].status \notin Active
    BY <2>1 DEF Writes, Active
  <2>3. KeepsIds(t) /\ ColumnsOK'
    BY <1>1, <2>1, WriteKeepsIds DEF Active
  <2> QED
    BY <1>1, <1>3, <2>2, <2>3, FinishIds
<1> QED
  BY <1>2, <1>3 DEF FinishCancel

\* A task that holds no job.
LEMMA JoblessIds ==
    ASSUME NEW t \in Tasks, task'[t].job = None, KeepsIds(t), ColumnsOK'
    PROVE  IdsGood(t)
BY DEF IdsGood

LEMMA FinishedKeepsIds ==
    ASSUME SerialInv, IdsInv, NEW t \in Tasks, NEW j \in Jobs, NEW status \in Finished,
           NEW js, row' = FinishActive(j, status, js)
    PROVE  KeepsIds(t) /\ ColumnsOK'
BY FinishActiveWrites, WriteKeepsIds, SameRowKeepsIds
   DEF SerialInv, Finished, Active

LEMMA CancelForDeletionIds ==
    ASSUME SerialInv, IdsInv, NEW t \in Tasks, NEW j \in Jobs, CancelForDeletion(t, j)
    PROVE  IdsGood(t)
<1>1. task'[t].job = None
  BY DEF CancelForDeletion, At, SerialInv, TypeOK, Task, TasksPlaced, Placed
<1>2. row' = FinishActive(j, "canceled", row[j].js)
  BY DEF CancelForDeletion
<1> QED
  BY <1>1, <1>2, FinishedKeepsIds, JoblessIds DEF Finished

LEMMA RecoverDeletedIds ==
    ASSUME SerialInv, IdsInv, NEW t \in Tasks, NEW j \in Jobs, RecoverDeleted(t, j)
    PROVE  IdsGood(t)
<1>1. task'[t].job = None
  BY
  DEF RecoverDeleted, At, SerialInv, TypeOK, Task, TasksPlaced, Placed, Undoing
<1>2. row' = FinishActive(j, "canceled", row[j].js)
  BY DEF RecoverDeleted
<1> QED
  BY <1>1, <1>2, FinishedKeepsIds, JoblessIds DEF Finished

LEMMA RemoveInstanceIds ==
    ASSUME SerialInv, IdsInv, NEW t \in Tasks, RemoveInstance(t)
    PROVE  IdsGood(t)
<1>1. task'[t].job = None
  BY DEF RemoveInstance, SerialInv, TypeOK, Return, IdleTask
<1>2. KeepsIds(t) /\ ColumnsOK'
  <2>1. CASE UNCHANGED row
    BY <2>1, SameRowKeepsIds
  <2>2. CASE Exists(task[t].js.id) /\ DropInstance(task[t].js.id)
    BY <2>2, DropDrops, DropKeepsIds DEF SerialInv, Exists
  <2> QED
    BY <2>1, <2>2 DEF RemoveInstance
<1> QED
  BY <1>1, <1>2, JoblessIds

\* Every step of a task's own, but for the two that concern recovery as such.
LEMMA StepIds ==
    ASSUME SerialInv, IdsInv, NEW t \in Tasks, Step(t)
    PROVE  IdsGood(t) \/ Recovered(t) \/ \E j \in Jobs : Recover(t, j)
<1>1. CASE Setup(t)
  BY <1>1, RequeueIds, PrepareNewIds, PrepareExistingIds, PersistIds,
     LockAndSpawnIds DEF Setup
<1>2. CASE Run(t)
  BY <1>2, RunIds
<1>3. CASE Undo(t)
  <2>1. CASE FailJob(t)
    BY <2>1, TerminalizeIds DEF FailJob, Finished
  <2>2. CASE InterruptJob(t)
    BY <2>2, TerminalizeIds DEF InterruptJob, At, Finished
  <2> QED
    BY <1>3, <2>1, <2>2, RemoveNewInstanceIds, NothingToUndoIds,
       RestoreStageIds, BeginRestoreIds, EndRestoreIds, ClearStagingIds
       DEF Undo
<1>4. CASE Removal(t)
  BY <1>4, ClaimCancelIds, FinishCancelIds, RemoveInstanceIds,
     CancelForDeletionIds DEF Removal
<1>5. CASE Recovery(t)
  BY <1>5, RecoverDeletedIds DEF Recovery
<1> QED
  BY <1>1, <1>2, <1>3, <1>4, <1>5 DEF Step

LEMMA IdlingIds ==
    ASSUME IdsInv, UNCHANGED <<row, inst>>,
           \A s \in Tasks : task'[s] \in {task[s], IdleTask}
    PROVE  IdsInv'
<1>1. \A s \in Tasks : \/ task'[s] = task[s]
                       \/ task'[s].job = None /\ task'[s].role = "idle"
  <2>1. IdleTask.job = None /\ IdleTask.role = "idle"
    BY DEF IdleTask
  <2> QED
    BY <2>1
<1>2. ASSUME NEW s \in Tasks, SameId(task[s]), task'[s] = task[s]
      PROVE  SameId(task[s])'
  BY <1>2 DEF SameId, Exists
<1>3. IdsKnown' /\ ColumnsOK'
  BY <1>1, <1>2 DEF IdsInv, IdsKnown, ColumnsOK
<1>4. ListsOK'
  BY <1>1 DEF IdsInv, ListsOK, IsActive, CommandRoles
<1> QED
  BY <1>3, <1>4 DEF IdsInv

\* A command begins, or recovery goes on to the next job.
LEMMA BeginIds ==
    ASSUME SerialInv, IdsInv, NEW t \in Tasks, Others(t), UNCHANGED inst,
           \A k \in Jobs :
               \/ row'[k] = row[k]
               \/ /\ k = task'[t].job /\ row[k].status = "absent"
                  /\ row'[k].col \in {None, row'[k].js.id},
           task'[t].job # None => SameId(task[t])',
           task'[t].role = "delete" =>
               /\ row' = row
               /\ \A j \in task'[t].left :
                      /\ IsActive(j) /\ row[j].js.id = task'[t].js.id
                      /\ j # task'[t].job
                      /\ \A s \in Tasks : task[s].role \in CommandRoles =>
                             task[s].job # j,
           task'[t].role \in CommandRoles =>
               \A d \in Tasks : task[d].role = "delete" =>
                   task'[t].job \notin task[d].left
    PROVE  IdsInv'
<1> USE DEF Others
<1>1. \A s \in Tasks : /\ task[s].job \in Jobs \cup {None}
                        /\ task[s].left \subseteq Jobs
  BY DEF SerialInv, TypeOK, Task
<1>0. None \notin Jobs
  BY ConstantsAssumption
<1>2. ASSUME NEW s \in Tasks \ {t}, task[s].job # None
      PROVE  SameId(task[s])'
  <2>1. SameId(task[s]) /\ task'[s] = task[s]
    BY <1>2 DEF IdsInv, IdsKnown
  <2>2. row'[task[s].job] = row[task[s].job]
    BY <1>1, <1>2 DEF SerialInv, RowsFit, RowFits
  <2> QED
    BY <2>1, <2>2 DEF SameId, Exists
<1>3. IdsKnown'
  BY <1>2 DEF IdsKnown
<1>4. ColumnsOK'
  BY DEF IdsInv, ColumnsOK
<1>5. ASSUME NEW d \in Tasks \ {t}, task'[d].role = "delete",
             NEW j \in task'[d].left
      PROVE  /\ row'[j].status # "absent"
             /\ row'[j].status \in Active => row'[j].js.id = task'[d].js.id
             /\ \A s \in Tasks : task'[s].role \in CommandRoles =>
                    task'[s].job # j
  <2>1. j \in task[d].left /\ task[d].role = "delete" /\ j \in Jobs
    BY <1>1, <1>5
  <2>2. /\ row[j].status # "absent"
        /\ IsActive(j) => row[j].js.id = task[d].js.id
        /\ \A s \in Tasks : task[s].role \in CommandRoles => task[s].job # j
    BY <2>1 DEF IdsInv, ListsOK
  <2>3. row'[j] = row[j]
    BY <2>1, <2>2
  <2> QED
    BY <2>1, <2>2, <2>3 DEF IsActive
<1>6. ASSUME task'[t].role = "delete", NEW j \in task'[t].left
      PROVE  /\ row'[j].status # "absent"
             /\ row'[j].status \in Active => row'[j].js.id = task'[t].js.id
             /\ \A s \in Tasks : task'[s].role \in CommandRoles =>
                    task'[s].job # j
  BY <1>6 DEF IsActive, Active
<1>7. ListsOK'
  BY <1>5, <1>6 DEF ListsOK, IsActive
<1> QED
  BY <1>3, <1>4, <1>7 DEF IdsInv

LEMMA StartIds ==
    ASSUME SerialInv, IdsInv, NEW t \in Tasks, NEW j \in Jobs,
           NEW kind \in Kinds, NEW id \in Instances \cup {None}, Start(t, j, kind, id)
    PROVE  IdsInv'
<1>1. /\ row[j].status = "absent"
      /\ row'[j].kind = kind /\ row'[j].js = NewState(id) /\ row'[j].col = id
      /\ \A k \in Jobs \ {j} : row'[k] = row[k]
      /\ kind = "create" => id = None
      /\ UNCHANGED inst
  BY DEF Start, SerialInv, TypeOK
<1>2. /\ Others(t) /\ task'[t].role = "setup" /\ task'[t].pc = "prepare"
      /\ task'[t].job = j /\ task'[t].js = NewState(id)
  BY DEF Start, SerialInv, TypeOK, Others, IdleTask, Task
<1>3. SameId(task[t])'
  BY <1>1, <1>2 DEF SameId, NewState
<1>4. \A d \in Tasks : task[d].role = "delete" => j \notin task[d].left
  BY <1>1 DEF IdsInv, ListsOK
<1> QED
  BY <1>1, <1>2, <1>3, <1>4, BeginIds DEF NewState

LEMMA RetryIds ==
    ASSUME Serial, SerialInv, IdsInv, NEW t \in Tasks, NEW j \in Jobs, Retry(t, j)
    PROVE  IdsInv'
<1>1. /\ Others(t) /\ task'[t].role = "retry" /\ task'[t].pc \in {"cleanup", "requeue"}
      /\ task'[t].job = j
  BY DEF Retry, SerialInv, TypeOK, Others, IdleTask, Task
<1>2. SameId(task[t])'
  BY <1>1 DEF SameId
<1>3. \A d \in Tasks : j \notin task[d].left
  BY DEF Retry, MayRetry
<1> QED
  BY <1>1, <1>2, <1>3, BeginIds DEF Retry

LEMMA CancelIds ==
    ASSUME Serial, SerialInv, IdsInv, NEW t \in Tasks, NEW j \in Jobs, Cancel(t, j)
    PROVE  IdsInv'
<1>1. /\ Others(t) /\ task'[t].role = "cancel" /\ task'[t].pc = "claim"
      /\ task'[t].job = j /\ task'[t].js = row[j].js
      /\ UNCHANGED <<row, inst>>
  BY DEF Cancel, SerialInv, TypeOK, Others, IdleTask, Task
<1>2. SameId(task[t])'
  BY <1>1 DEF SameId
<1>3. ASSUME NEW d \in Tasks, task[d].role = "delete", j \in task[d].left
      PROVE  FALSE
  <2>1. IsActive(j) /\ row[j].js.id = task[d].js.id
    BY <1>3 DEF Cancel, IsActive, Active, IdsInv, ListsOK
  <2>2. task[d].js.id # None
    BY <1>3 DEF SerialInv, TasksPlaced, Placed
  <2> QED
    BY <1>3, <2>1, <2>2 DEF Cancel, MayCancel, CommandAt, CommandRoles
<1> QED
  BY <1>1, <1>2, <1>3, BeginIds

\* The jobs that a deletion lists are those of the instance, and no command
\* is at work on any of them.
LEMMA DeleteIds ==
    ASSUME Serial, SerialInv, IdsInv, NEW t \in Tasks, NEW i \in Instances, Delete(t, i)
    PROVE  IdsInv'
<1>1. /\ Others(t) /\ task'[t].role = "delete" /\ task'[t].job = None
      /\ task'[t].js.id = i
      /\ task'[t].left = {j \in Jobs : IsActive(j) /\ row[j].col = i}
      /\ UNCHANGED <<row, inst>>
  BY DEF Delete, SerialInv, TypeOK, Others, IdleTask, Task, NewState
<1>2. None \notin Jobs \cup Instances
  BY ConstantsAssumption DEF Instances
<1>3. ASSUME NEW j \in task'[t].left
      PROVE  /\ j \in Jobs /\ IsActive(j) /\ row[j].js.id = i
             /\ \A s \in Tasks : task[s].role \in CommandRoles => task[s].job # j
  <2>1. j \in Jobs /\ IsActive(j) /\ row[j].col = i
    BY <1>1, <1>3
  <2>2. row[j].js.id = i
    BY <1>2, <2>1 DEF IdsInv, ColumnsOK
  <2>3. ASSUME NEW s \in Tasks, task[s].role \in CommandRoles, task[s].job = j
        PROVE  FALSE
    <3>1. /\ SameId(task[s]) /\ RowFits(task[s]) /\ Placed(task[s])
      BY <1>2, <2>1, <2>3 DEF IdsInv, IdsKnown, SerialInv, RowsFit, TasksPlaced
    <3>2. task[s].js.id # i /\ Exists(i)
      BY <2>3 DEF Delete, MayDelete, CommandAt
    <3>3. task[s].role # "retry"
      BY <2>1, <2>3, <3>1 DEF RowFits, IsActive, Active
    <3>4. task[s].role # "setup"
      BY <1>2, <2>1, <2>2, <2>3, <3>1, <3>2 DEF SameId, IsActive
    <3>5. task[s].role # "delete"
      BY <1>2, <2>1, <2>3, <3>1 DEF Placed
    <3>6. task[s].role # "cancel"
      <4>1. task[s].pc # "clear"
        BY <2>1, <2>3, <3>1 DEF RowFits
      <4>2. CASE task[s].pc = "finish"
        BY <1>2, <2>1, <2>2, <2>3, <3>1, <3>2, <4>2 DEF SameId, IsActive
      <4>3. CASE task[s].pc # "finish"
        BY <2>1, <2>2, <2>3, <3>1, <3>2, <4>1, <4>3
        DEF SameId, IsActive, Placed, Undoing
      <4> QED
        BY <4>2, <4>3
    <3> QED
      BY <2>3, <3>3, <3>4, <3>5, <3>6 DEF CommandRoles
  <2> QED
    BY <2>1, <2>2, <2>3
<1>4. \A d \in Tasks : None \notin task[d].left
  BY <1>2 DEF SerialInv, TypeOK, Task
<1> QED
  BY <1>1, <1>2, <1>3, <1>4, BeginIds

LEMMA BootIds ==
    ASSUME SerialInv, IdsInv, NEW t \in Tasks, Boot(t)
    PROVE  IdsInv'
<1>1. /\ Others(t) /\ task'[t].role = "recover" /\ task'[t].job = None
      /\ UNCHANGED <<row, inst>>
  BY DEF Boot, SerialInv, TypeOK, Others, IdleTask, Task
<1> QED
  BY <1>1, BeginIds DEF CommandRoles

LEMMA RecoverIds ==
    ASSUME SerialInv, IdsInv, NEW t \in Tasks, NEW j \in Jobs, Recover(t, j)
    PROVE  IdsInv'
<1>1. /\ Others(t) /\ task'[t].role = "recover" /\ task'[t].pc = "cleanup"
      /\ UNCHANGED <<row, inst>>
  BY DEF Recover, At, SerialInv, TypeOK, Others, Task
<1>2. SameId(task[t])'
  BY <1>1 DEF SameId
<1> QED
  BY <1>1, <1>2, BeginIds DEF CommandRoles

LEMMA IdsNext ==
    ASSUME Serial, SerialInv, SerialInv', IdsInv, [Next]_vars
    PROVE  IdsInv'
<1>1. CASE UNCHANGED vars
  BY <1>1, IdlingIds DEF vars
<1>2. CASE Crash
  BY <1>2, IdlingIds DEF Crash
<1>3. ASSUME NEW j \in Jobs, Dismiss(j) PROVE IdsInv'
  BY <1>3, IdlingIds DEF Dismiss
<1>4. ASSUME NEW t \in Tasks, Boot(t) PROVE IdsInv'
  BY <1>4, BootIds
<1>5. ASSUME NEW t \in Tasks, Command(t) PROVE IdsInv'
  BY <1>5, StartIds, RetryIds, CancelIds, DeleteIds DEF Command
<1>6. ASSUME NEW t \in Tasks, Step(t) PROVE IdsInv'
  <2>1. CASE Recovered(t)
    BY <2>1, IdlingIds DEF Recovered, Return, SerialInv, TypeOK
  <2>2. CASE \E j \in Jobs : Recover(t, j)
    BY <2>2, RecoverIds
  <2>3. CASE Good(t) /\ IdsGood(t)
    BY <2>3, StepKeepsIds
  <2> QED
    BY <1>6, <2>1, <2>2, <2>3, StepGood, StepIds
<1> QED
  BY <1>1, <1>2, <1>3, <1>4, <1>5, <1>6 DEF Next

LEMMA IdsInit ==
    ASSUME "lock" \notin Faults
    PROVE  Init => IdsInv
BY DEF Init, IdsInv, LocksHold, IdsKnown, ColumnsOK, ListsOK, IdleTask, NewState

LEMMA IdsHold ==
    ASSUME Serial, "lock" \notin Faults
    PROVE  Spec => [](SerialInv /\ IdsInv)
<1> USE Serial
<1>1. Init => SerialInv /\ IdsInv
  BY SerialInit, IdsInit
<1>2. SerialInv /\ IdsInv /\ [Next]_vars => (SerialInv /\ IdsInv)'
  BY SerialNext, IdsNext
<1> QED
  BY <1>1, <1>2, PTL DEF Spec

----------------------------------------------------------------------------
(* The statements of run_job fail only for the reasons the schema gives: a  *)
(* cancel that has taken its job stays alone with it, and the statuses of   *)
(* the rows live the life of JobLifecycle.                                  *)

Lives(old, new) ==
    \/ new = old
    \/ old = "absent" /\ new = "queued"
    \/ old = "queued" /\ new = "running"
    \/ old \in Active /\ new \in {"failed", "interrupted", "canceled"}
    \/ old = "running" /\ new = "succeeded"
    \/ old \in {"failed", "interrupted"} /\ new = "queued"

Canceling(x) == x.role = "cancel" /\ Past(x)

LifeFits(x) ==
    /\ Canceling(x) /\ x.pc # "clear" => row[x.job].status = "running"
    /\ x.role = "stranded" /\ row[x.job].status = "queued" =>
          ~FkOk(row[x.job].js.id)

CancelsAlone == \A s, t \in Tasks :
    task[s].job # None /\ task[s].job = task[t].job /\ Canceling(task[s])
        => task[t].role # "stranded"

LifeInv == /\ \A t \in Tasks : task[t].job # None => LifeFits(task[t])
           /\ CancelsAlone

\* A step changes the status of one job, which is the task's own or one it
\* still has to finish.
OneLives(t) ==
    \/ \A k \in Jobs : row'[k].status = row[k].status
    \/ \E j \in Jobs :
          /\ \/ j = task[t].job
             \/ task[t].role \in {"delete", "recover"} /\ j \in task[t].left
          /\ \A k \in Jobs \ {j} : row'[k].status = row[k].status
          /\ Lives(row[j].status, row'[j].status)

Broken(t) == row[task[t].job].status = "queued" /\ ~FkOk(row[task[t].job].js.id)

LifeGood(t) ==
    /\ OneLives(t)
    /\ task[t].job # None /\ Waiting(task[t]) /\ row[task[t].job].status # "queued" =>
          row'[task[t].job].status = row[task[t].job].status
    /\ task'[t].job # None /\ task'[t].role = "cancel" /\ Past(task'[t]) =>
          /\ task'[t].pc # "clear" => row'[task[t].job].status = "running"
          /\ Past(task[t]) \/ (row[task[t].job].status = "queued" /\ ~Broken(t))
    /\ task'[t].job # None /\ task'[t].role = "stranded" =>
          \/ task[t].role = "stranded" \/ Past(task[t])
          \/ Broken(t) /\ UNCHANGED <<row, inst>>

\* An id that names no instance never will.
LEMMA BrokenStays ==
    ASSUME SerialInv, NEW t \in Tasks, Polite(t), NEW j \in Jobs,
           ~FkOk(row[j].js.id), row'[j].js.id = row[j].js.id
    PROVE  ~FkOk(row[j].js.id)'
<1>1. /\ row[j].js.id \in Instances /\ row[j].js.id # None
      /\ ~Exists(row[j].js.id) /\ inst[row[j].js.id] # "unborn"
  BY DEF FkOk, SerialInv, TypeOK, Row, JobState, Separate, IdsBorn
<1>2. inst'[row[j].js.id] = inst[row[j].js.id]
  BY <1>1, GoneIsGone
<1> QED
  BY <1>1, <1>2 DEF FkOk, Exists

LEMMA StepKeepsLife ==
    ASSUME SerialInv, IdsInv, LifeInv, NEW t \in Tasks, Good(t), IdsGood(t),
           LifeGood(t)
    PROVE  LifeInv'
<1> USE DEF Good
<1>1. /\ \A s \in Tasks \ {t} : task'[s] = task[s]
      /\ None \notin Jobs \cup Instances
      /\ task'[t].job \in {None, task[t].job}
      /\ \A s \in Tasks : task[s].job \in Jobs \cup {None}
  BY ConstantsAssumption DEF Tame, Others, SerialInv, TypeOK, Task, Instances
\* A stranded task's job goes on being broken.
<1>2. ASSUME NEW s \in Tasks, NEW j \in Jobs, task[s].job = j,
             task[s].role = "stranded", row'[j].status = "queued"
      PROVE  ~FkOk(row[j].js.id)'
  <2>1. j = task[t].job => task[t].role \notin {"retry", "setup"}
    BY <1>1, <1>2 DEF SerialInv, Separate, Company, Paired
  <2>2. row[j].status = "queued"
    <3>1. CASE j = task[t].job
      BY <1>2, <2>1, <3>1 DEF Polite, PoliteToJobs, TouchesOwn
    <3>2. CASE j # task[t].job
      BY <1>2, <3>2 DEF Polite, PoliteToJobs, TouchesOther
    <3> QED
      BY <3>1, <3>2
  <2>3. row'[j].js.id = row[j].js.id
    BY <1>2, <2>1 DEF IdsGood, KeepsIds, Active
  <2>4. ~FkOk(row[j].js.id)
    BY <1>1, <1>2, <2>2 DEF LifeInv, LifeFits
  <2> QED
    BY <2>3, <2>4, BrokenStays
\* A cancel keeps its job running while others take their steps.
<1>3. ASSUME NEW s \in Tasks \ {t}, task[s].job # None, Canceling(task[s]),
             task[s].pc # "clear"
      PROVE  row'[task[s].job].status = "running"
  <2>1. row[task[s].job].status = "running" /\ task[s].job \in Jobs
    BY <1>1, <1>3 DEF LifeInv, LifeFits
  <2>2. CASE task[s].job = task[t].job
    <3>1. task[t].role # "stranded"
      BY <1>3, <2>2 DEF LifeInv, CancelsAlone
    <3>2. Waiting(task[t])
      BY <1>3, <2>2, <3>1
      DEF SerialInv, Separate, Company, Paired, Canceling, Past
    <3> QED
      BY <1>3, <2>1, <2>2, <3>2 DEF LifeGood
  <2>3. CASE task[s].job # task[t].job
    <3>1. CASE task[t].role = "recover"
      BY <1>3, <3>1, RecoveryAlone DEF Canceling
    <3>2. CASE task[t].role # "recover"
      <4>1. task[t].role = "delete" => task[s].job \notin task[t].left
        BY <1>3 DEF IdsInv, ListsOK, Canceling, CommandRoles
      <4> QED
        BY <2>1, <2>3, <3>2, <4>1 DEF LifeGood, OneLives
    <3> QED
      BY <3>1, <3>2
  <2> QED
    BY <2>2, <2>3
<1>4. ASSUME NEW j \in Jobs, task'[t].job = j
      PROVE  LifeFits(task[t])'
  <2>1. task[t].job = j /\ j # None
    BY <1>1, <1>4
  <2>2. Canceling(task'[t]) /\ task'[t].pc # "clear" => row'[j].status = "running"
    BY <1>4, <2>1 DEF LifeGood, Canceling
  <2>3. ASSUME task'[t].role = "stranded", row'[j].status = "queued"
        PROVE  ~FkOk(row[j].js.id)'
    <3>1. CASE task[t].role = "stranded"
      BY <1>2, <2>1, <2>3, <3>1
    <3>2. CASE Past(task[t])
      <4>1. row[j].status # "queued"
        BY <2>1, <3>2 DEF SerialInv, RowsFit, RowFits
      <4>2. task[t].role # "retry"
        BY <3>2 DEF Past
      <4> QED
        BY <1>1, <2>1, <2>3, <4>1, <4>2 DEF Polite, PoliteToJobs, TouchesOwn
    <3>3. CASE Broken(t) /\ UNCHANGED <<row, inst>>
      BY <2>1, <3>3 DEF Broken, FkOk, Exists
    <3> QED
      BY <1>4, <2>1, <2>3, <3>1, <3>2, <3>3 DEF LifeGood
  <2> QED
    BY <1>4, <2>1, <2>2, <2>3 DEF LifeFits, Canceling, Past, Waiting
<1>5. ASSUME NEW s \in Tasks \ {t}, NEW j \in Jobs, task[s].job = j
      PROVE  LifeFits(task[s])'
  <2>1. task'[s] = task[s]
    BY <1>1
  <2>2. task[s].role = "stranded" /\ row'[j].status = "queued" => ~FkOk(row[j].js.id)'
    BY <1>2, <1>5
  <2>3. Canceling(task[s]) /\ task[s].pc # "clear" => row'[j].status = "running"
    BY <1>1, <1>3, <1>5
  <2> QED
    BY <1>5, <2>1, <2>2, <2>3 DEF LifeFits, Canceling, Past, Waiting
<1>6. ASSUME NEW r \in Tasks, NEW s \in Tasks, task'[r].job # None,
             task'[r].job = task'[s].job, Canceling(task'[r]),
             task'[s].role = "stranded"
      PROVE  FALSE
  <2>1. r # s
    BY <1>6 DEF Canceling
  <2>2. CASE s # t /\ r # t
    BY <1>1, <1>6, <2>2 DEF LifeInv, CancelsAlone
  <2>3. CASE r = t
    <3>1. /\ task'[s] = task[s] /\ task[t].job = task[s].job
          /\ task[t].job # None /\ task[t].role = "cancel"
      BY <1>1, <1>6, <2>1, <2>3 DEF Canceling, Tame
    <3>2. ~Past(task[t])
      BY <1>6, <3>1 DEF LifeInv, CancelsAlone, Canceling
    <3>3. row[task[t].job].status = "queued" /\ ~Broken(t)
      BY <1>6, <2>3, <3>2 DEF LifeGood, Canceling
    <3> QED
      BY <1>6, <3>1, <3>3 DEF LifeInv, LifeFits, Broken
  <2>4. CASE s = t
    <3>1. /\ task'[r] = task[r] /\ task[t].job = task[r].job
          /\ task[t].job # None /\ Canceling(task[r])
      BY <1>1, <1>6, <2>1, <2>4
    <3>2. task[t].role # "stranded"
      BY <3>1 DEF LifeInv, CancelsAlone
    <3>3. ~Past(task[t])
      BY <2>1, <2>4, <3>1 DEF SerialInv, Separate, Company, Paired, Canceling
    <3>4. row[task[t].job].status = "queued"
      BY <1>6, <2>4, <3>2, <3>3 DEF LifeGood, Broken
    <3>5. row[task[r].job].status # "queued"
      BY <3>1 DEF SerialInv, RowsFit, RowFits, Canceling
    <3> QED
      BY <3>1, <3>4, <3>5
  <2> QED
    BY <2>2, <2>3, <2>4
<1>7. CancelsAlone'
  BY <1>6 DEF CancelsAlone, Canceling, Past, Waiting
<1>8. \A s \in Tasks : task'[s].job # None => task'[s].job \in Jobs
  BY <1>1
<1>9. \A s \in Tasks : task'[s].job # None => LifeFits(task[s])'
  <2>1. \A s \in Tasks \ {t} : task'[s].job # None => LifeFits(task[s])'
    BY <1>1, <1>5
  <2> QED
    BY <1>4, <1>8, <2>1
<1> QED
  BY <1>7, <1>9 DEF LifeInv

\* A step that changes no status and makes no task a cancel or stranded.
LEMMA QuietLife ==
    ASSUME NEW t \in Tasks, StatusesKept, task[t].job \in Jobs \cup {None},
           \/ task'[t].job = None
           \/ task'[t].role \notin {"cancel", "stranded"}
    PROVE  LifeGood(t)
BY DEF LifeGood, OneLives, StatusesKept

LEMMA MoveLife ==
    ASSUME NEW t \in Tasks, StatusesKept, task[t].job \in Jobs,
           NEW role, NEW pc, NEW js,
           role \notin {"cancel", "stranded"},
           Idles(t) \/ Proceeds(t) \/ Moves(t, role, pc, js)
    PROVE  LifeGood(t)
BY QuietLife DEF Idles, Proceeds, Moves

\* A step that changes the status of the task's own job.
LEMMA WriteLife ==
    ASSUME NEW t \in Tasks, task[t].job \in Jobs, task[t].job # None,
           NEW status, NEW js, Writes(task[t].job, status, js),
           Lives(row[task[t].job].status, status),
           Waiting(task[t]) => row[task[t].job].status = "queued",
           NEW role, NEW pc, NEW js2,
           Idles(t) \/ Proceeds(t) \/ Moves(t, role, pc, js2),
           role = "cancel" => \/ pc = "clear" /\ Past(task[t])
                              \/ status = "running"
                                 /\ row[task[t].job].status = "queued"
                                 /\ ~Broken(t),
           role = "stranded" => task[t].role = "stranded"
    PROVE  LifeGood(t)
<1>1. OneLives(t)
  BY DEF OneLives, Writes
<1>2. CASE Idles(t) \/ Proceeds(t)
  BY <1>1, <1>2 DEF LifeGood, Idles, Proceeds
<1>3. CASE Moves(t, role, pc, js2)
  <2>1. /\ task'[t].role = role /\ task'[t].pc = pc /\ task'[t].job = task[t].job
        /\ row'[task[t].job].status = status
    BY <1>3 DEF Moves, Writes
  <2>2. task'[t].role = "cancel" =>
          /\ task'[t].pc # "clear" => row'[task[t].job].status = "running"
          /\ Past(task[t]) \/ (row[task[t].job].status = "queued" /\ ~Broken(t))
    BY <2>1
  <2> QED
    BY <1>1, <2>1, <2>2 DEF LifeGood
<1> QED
  BY <1>2, <1>3

LEMMA SetupLife ==
    ASSUME SerialInv, IdsInv, LifeInv, NEW t \in Tasks, Setup(t)
    PROVE  LifeGood(t)
<1> USE Acting DEF At
<1>1. CASE Requeue(t)
  <2> DEFINE id == IF row[task[t].job].kind = "create" THEN None ELSE task[t].js.id
  <2>1. task[t].role = "retry" /\ task[t].pc = "requeue"
    BY <1>1 DEF Requeue
  <2>2. CASE Return(t) /\ UNCHANGED row
    BY <2>1, <2>2, ReturnIdles, MoveLife DEF StatusesKept
  <2>3. CASE /\ row' = WithStatus(task[t].job, "queued", NewState(id))
             /\ task' = [task EXCEPT ![t].role = "setup", ![t].pc = "prepare",
                                     ![t].js = NewState(id)]
    <3> HIDE DEF id
    <3>1. Moves(t, "setup", "prepare", NewState(id))
      BY <2>1, <2>3 DEF Moves, Others, TypeOK, Task
    <3>2. Writes(task[t].job, "queued", NewState(id))
      BY <2>1, <2>3, WithStatusWrites
    <3>3. row[task[t].job].status \in {"failed", "interrupted"}
      BY <2>1 DEF RowFits
    <3>4. Lives(row[task[t].job].status, "queued") /\ ~Waiting(task[t])
      BY <2>1, <3>3 DEF Lives, Waiting
    <3>5. task[t].job \in Jobs /\ task[t].job # None
      BY <2>1
    <3>6. OneLives(t)
      BY <3>2, <3>4, <3>5 DEF OneLives, Writes
    <3>7. task'[t].role = "setup" /\ task'[t].pc = "prepare"
      BY <3>1 DEF Moves
    <3> QED
      BY <3>4, <3>6, <3>7 DEF LifeGood
  <2> QED
    BY <1>1, <2>2, <2>3 DEF Requeue
<1>2. CASE PrepareNew(t)
  <2>1. task[t].role = "setup" /\ task[t].pc = "prepare" /\ UNCHANGED row
    BY <1>2 DEF PrepareNew
  <2>2. ASSUME NEW i, NEW ok, GotoWith(t, IF ok THEN "persist" ELSE "cleanup",
                                       [task[t].js EXCEPT !.id = i])
        PROVE  LifeGood(t)
    BY <2>1, <2>2, GotoWithMoves, MoveLife DEF StatusesKept
  <2>3. CASE Goto(t, "cleanup")
    BY <2>1, <2>3, GotoMoves, MoveLife DEF StatusesKept
  <2> QED
    BY <1>2, <2>2, <2>3 DEF PrepareNew
<1>3. CASE PrepareExisting(t)
  <2>1. task[t].role = "setup" /\ task[t].pc = "prepare" /\ UNCHANGED row
    BY <1>3 DEF PrepareExisting
  <2>2. CASE GotoWith(t, "persist", [task[t].js EXCEPT !.rb = inst[task[t].js.id]])
    BY <2>1, <2>2, GotoWithMoves, MoveLife DEF StatusesKept
  <2>3. CASE Goto(t, "cleanup")
    BY <2>1, <2>3, GotoMoves, MoveLife DEF StatusesKept
  <2> QED
    BY <1>3, <2>2, <2>3 DEF PrepareExisting
<1>4. CASE Persist(t)
  <2>1. task[t].role = "setup" /\ task[t].pc = "persist"
    BY <1>4 DEF Persist
  <2>2. PICK pc \in {"lock", "cleanup"} : Moves(t, "setup", pc, task[t].js)
    BY <1>4, <2>1, GotoMoves DEF Persist
  <2>3. \/ UNCHANGED row
        \/ Writes(task[t].job, row[task[t].job].status, task[t].js)
    BY <1>4, <2>1, UpdatedWrites DEF Persist
  <2>4. StatusesKept
    BY <2>3 DEF StatusesKept, Writes
  <2> QED
    BY <2>1, <2>2, <2>4, MoveLife
<1>5. CASE LockAndSpawn(t)
  <2>1. task[t].role = "setup" /\ task[t].pc = "lock" /\ UNCHANGED row
    BY <1>5 DEF LockAndSpawn
  <2>2. task'[t].role \in {"run", "setup"}
    BY <1>5, <2>1, LockAndSpawnDoes DEF Moves
  <2> QED
    BY <2>1, <2>2, QuietLife DEF StatusesKept
<1> QED
  BY <1>1, <1>2, <1>3, <1>4, <1>5 DEF Setup

LEMMA ClaimLife ==
    ASSUME "statement" \notin Faults, SerialInv, IdsInv, LifeInv,
           NEW t \in Tasks, Claim(t)
    PROVE  LifeGood(t)
<1> USE Acting DEF At
<1>1. task[t].role = "run" /\ task[t].pc = "claim" /\ UNCHANGED inst
  BY DEF Claim
<1>2. CASE Return(t) /\ UNCHANGED row
  BY <1>1, <1>2, ReturnIdles, MoveLife DEF StatusesKept
<1>3. CASE /\ row[task[t].job].status = "queued" /\ ~FkOk(task[t].js.id)
           /\ Strand(t) /\ UNCHANGED row
  <2>1. task[t].js.id = row[task[t].job].js.id
    BY <1>1, <1>3, Knowing DEF SameId, Active
  <2>2. Broken(t)
    BY <1>3, <2>1 DEF Broken
  <2>3. task'[t].role = "stranded" /\ task'[t].job = task[t].job
    BY <1>1, <1>3, StrandMoves DEF Moves
  <2> QED
    BY <1>1, <1>3, <2>2, <2>3 DEF LifeGood, OneLives
<1>4. CASE /\ row[task[t].job].status = "queued"
           /\ row' = WithStatus(task[t].job, "running", task[t].js)
           /\ Goto(t, "work")
  <2>1. Moves(t, "run", "work", task[t].js)
    BY <1>1, <1>4, GotoMoves
  <2>2. Writes(task[t].job, "running", task[t].js)
    BY <1>1, <1>4, WithStatusWrites
  <2> QED
    BY <1>1, <1>4, <2>1, <2>2, WriteLife DEF Lives
<1> QED
  BY <1>2, <1>3, <1>4 DEF Claim

LEMMA SucceedLife ==
    ASSUME "statement" \notin Faults, SerialInv, IdsInv, LifeInv,
           NEW t \in Tasks, Succeed(t)
    PROVE  LifeGood(t)
<1> USE Acting DEF At
<1> DEFINE js == [task[t].js EXCEPT !.rberr = FALSE]
<1>1. /\ task[t].role = "run" /\ task[t].pc = "succeed"
      /\ Past(task[t]) /\ ~Waiting(task[t])
  BY DEF Succeed, Past, Waiting
<1>2. CASE Return(t) /\ UNCHANGED row
  BY <1>1, <1>2, ReturnIdles, MoveLife DEF StatusesKept
<1>3. CASE Strand(t) /\ UNCHANGED row
  <2>1. task'[t].role = "stranded" /\ task'[t].job = task[t].job
    BY <1>1, <1>3, StrandMoves DEF Moves
  <2> QED
    BY <1>1, <1>3, <2>1 DEF LifeGood, OneLives
<1>4. CASE /\ row[task[t].job].status = "running"
           /\ row' = WithStatus(task[t].job, "succeeded", js) /\ AfterFinish(t, js)
  <2> HIDE DEF js
  <2>1. Writes(task[t].job, "succeeded", js)
    BY <1>1, <1>4, WithStatusWrites
  <2>2. Idles(t) \/ Proceeds(t) \/ Moves(t, "run", "clear", js)
    BY <1>1, <1>4, AfterFinishMoves
  <2> QED
    BY <1>1, <1>4, <2>1, <2>2, WriteLife DEF Lives
<1> QED
  BY <1>2, <1>3, <1>4 DEF Succeed

LEMMA RunLife ==
    ASSUME "statement" \notin Faults, SerialInv, IdsInv, LifeInv,
           NEW t \in Tasks, Run(t)
    PROVE  LifeGood(t)
<1> USE Acting DEF At
<1>1. CASE RunRead(t)
  BY <1>1, ReturnIdles, GotoMoves, MoveLife DEF RunRead, StatusesKept
<1>2. CASE Acquire(t)
  BY <1>2, ReturnIdles, GotoWithMoves, MoveLife DEF Acquire, StatusesKept
<1>3. CASE WorkNew(t)
  <2>1. task[t].role = "run" /\ task[t].pc = "work" /\ UNCHANGED row
    BY <1>3 DEF WorkNew
  <2>2. CASE Goto(t, "ended_err")
    BY <2>1, <2>2, GotoMoves, MoveLife DEF StatusesKept
  <2>3. CASE task' = [task EXCEPT ![t].pc = "install", ![t].prev = inst[task[t].js.id]]
    <3>1. task'[t].role = "run"
      BY <2>1, <2>3 DEF TypeOK, Task
    <3> QED
      BY <2>1, <3>1, QuietLife DEF StatusesKept
  <2> QED
    BY <1>3, <2>2, <2>3 DEF WorkNew
<1>4. CASE WorkExisting(t)
  <2>1. task[t].role = "run" /\ task[t].pc = "work"
    BY <1>4 DEF WorkExisting
  <2>2. task'[t].role = "run"
    BY <1>4, <2>1 DEF WorkExisting, Goto, TypeOK, Task
  <2>3. \/ UNCHANGED row
        \/ \E js : row' = Updated(task[t].job, js)
    BY <1>4 DEF WorkExisting
  <2>4. StatusesKept
    BY <2>1, <2>3, UpdatedWrites DEF StatusesKept, Writes
  <2> QED
    BY <2>1, <2>2, <2>4, QuietLife
<1>5. CASE Backup(t)
  <2>1. task[t].role = "run" /\ task[t].pc = "backup" /\ UNCHANGED row
    BY <1>5 DEF Backup
  <2>2. CASE Goto(t, "ended_err")
    BY <2>1, <2>2, GotoMoves, MoveLife DEF StatusesKept
  <2>3. CASE GotoWith(t, "save", [task[t].js EXCEPT !.staging = TRUE])
    BY <2>1, <2>3, GotoWithMoves, MoveLife DEF StatusesKept
  <2> QED
    BY <1>5, <2>2, <2>3 DEF Backup
<1>6. CASE SaveBackup(t)
  <2>1. task[t].role = "run" /\ task[t].pc = "save"
    BY <1>6 DEF SaveBackup
  <2>2. PICK pc \in {"install", "ended_err"} : Moves(t, "run", pc, task[t].js)
    BY <1>6, <2>1, GotoMoves DEF SaveBackup
  <2>3. StatusesKept
    BY <1>6, <2>1, UpdatedWrites DEF SaveBackup, StatusesKept, Writes
  <2> QED
    BY <2>1, <2>2, <2>3, MoveLife
<1>7. CASE Install(t)
  <2>1. task[t].role = "run" /\ task[t].pc = "install" /\ UNCHANGED row
    BY <1>7 DEF Install
  <2>2. PICK pc \in {"ended_ok", "ended_err"} : Moves(t, "run", pc, task[t].js)
    BY <1>7, <2>1, GotoMoves DEF Install
  <2> QED
    BY <2>1, <2>2, MoveLife DEF StatusesKept
<1>8. CASE Reread(t)
  <2>1. task[t].role = "run" /\ task[t].pc \in {"ended_ok", "ended_err"} /\ UNCHANGED row
    BY <1>8 DEF Reread
  <2>2. CASE Return(t)
    BY <2>1, <2>2, ReturnIdles, MoveLife DEF StatusesKept
  <2>3. ASSUME NEW pc, NEW js, GotoWith(t, pc, js)
        PROVE  LifeGood(t)
    BY <2>1, <2>3, GotoWithMoves, MoveLife DEF StatusesKept
  <2>4. ASSUME NEW pc, Goto(t, pc)
        PROVE  LifeGood(t)
    BY <2>1, <2>4, GotoMoves, MoveLife DEF StatusesKept
  <2> QED
    BY <1>8, <2>2, <2>3, <2>4 DEF Reread
<1>9. CASE CheckStranded(t)
  <2>1. task[t].role = "stranded" /\ task[t].pc = "check" /\ UNCHANGED row
    BY <1>9 DEF CheckStranded
  <2>2. Idles(t) \/ Moves(t, "stranded", "cleanup", row[task[t].job].js)
    BY <1>9, <2>1, ReturnIdles, GotoWithMoves DEF CheckStranded
  <2> QED
    BY <2>1, <2>2 DEF LifeGood, OneLives, Waiting, Idles, Moves
<1> QED
  BY <1>1, <1>2, <1>3, <1>4, <1>5, <1>6, <1>7, <1>8, <1>9, ClaimLife,
     SucceedLife DEF Run

LEMMA UndoingLife ==
    ASSUME SerialInv, LifeInv, NEW t \in Tasks, StatusesKept,
           task[t].pc \in {"cleanup", "restoring"},
           NEW pc \in {"finish", "requeue", "restoring"}, NEW js,
           Idles(t) \/ Moves(t, task[t].role, pc, js)
    PROVE  LifeGood(t)
<1> USE Acting
<1>1. CASE Idles(t)
  BY <1>1, QuietLife DEF Idles
<1>2. CASE Moves(t, task[t].role, pc, js)
  <2>1. ~Waiting(task[t]) /\ OneLives(t)
    BY DEF Waiting, OneLives, StatusesKept
  <2>2. /\ task'[t].role = task[t].role
        /\ row'[task[t].job].status = row[task[t].job].status
    BY <1>2 DEF Moves, StatusesKept
  <2>3. task[t].role = "cancel" =>
            Past(task[t]) /\ row[task[t].job].status = "running"
    BY DEF LifeInv, LifeFits, Canceling, Past
  <2> QED
    BY <2>1, <2>2, <2>3 DEF LifeGood
<1> QED
  BY <1>1, <1>2

LEMMA CleanedUpLife ==
    ASSUME SerialInv, LifeInv, NEW t \in Tasks, NEW ok \in BOOLEAN, StatusesKept,
           task[t].pc \in {"cleanup", "restoring"}, CleanedUp(t, ok)
    PROVE  LifeGood(t)
BY CleanedUpMoves, UndoingLife

LEMMA TerminalizeLife ==
    ASSUME SerialInv, NEW t \in Tasks, NEW status \in {"failed", "interrupted"},
           task[t].pc = "finish", task[t].role # "cancel",
           Terminalize(t, status)
    PROVE  LifeGood(t)
<1> USE Acting
<1>1. ~Waiting(task[t])
  BY DEF Waiting
<1>2. CASE IsActive(task[t].job) /\ Writes(task[t].job, status, task[t].js)
  <2>1. OneLives(t)
    BY <1>2 DEF OneLives, Lives, Writes, IsActive
  <2>2. task'[t].job = None \/ task'[t].role = task[t].role
    BY <1>2, AfterFinishMoves DEF Terminalize, Moves, Idles, Proceeds
  <2> QED
    BY <1>1, <2>1, <2>2 DEF LifeGood
<1>3. CASE ~IsActive(task[t].job) /\ UNCHANGED row
  <2>1. OneLives(t)
    BY <1>3 DEF OneLives
  <2>2. task'[t].job = None \/ task'[t].role = task[t].role
    BY <1>3, AfterFinishMoves DEF Terminalize, Moves, Idles, Proceeds
  <2> QED
    BY <1>1, <2>1, <2>2 DEF LifeGood
<1> QED
  BY <1>2, <1>3, FinishActiveWrites DEF Terminalize

LEMMA UndoLife ==
    ASSUME SerialInv, LifeInv, NEW t \in Tasks, Undo(t)
    PROVE  LifeGood(t)
<1> USE Acting
<1>1. CASE RemoveNewInstance(t)
  <2>1. task[t].pc = "cleanup" /\ task[t].js.id \in Instances
    BY <1>1 DEF RemoveNewInstance, Undoes, Exists
  <2>2. PICK ok \in BOOLEAN :
            CleanedUp(t, ok) /\ (UNCHANGED row \/ DropInstance(task[t].js.id))
    BY <1>1 DEF RemoveNewInstance, Outcome
  <2>3. StatusesKept
    BY <2>1, <2>2, DropDrops DEF StatusesKept, Drops
  <2> QED
    BY <2>1, <2>2, <2>3, CleanedUpLife
<1>2. CASE NothingToUndo(t)
  BY <1>2, CleanedUpLife DEF NothingToUndo, Undoes, StatusesKept
<1>3. CASE RestoreStage(t)
  BY <1>3, CleanedUpLife DEF RestoreStage, Undoes, StatusesKept
<1>4. CASE BeginRestore(t)
  <2>1. task[t].pc = "cleanup" /\ StatusesKept
    BY <1>4 DEF BeginRestore, Undoes, StatusesKept
  <2>2. CleanedUp(t, FALSE) \/ Moves(t, task[t].role, "restoring", task[t].js)
    BY <1>4, <2>1, GotoMoves DEF BeginRestore
  <2> QED
    BY <2>1, <2>2, CleanedUpLife, UndoingLife
<1>5. CASE EndRestore(t)
  BY <1>5, CleanedUpLife DEF EndRestore, StatusesKept
<1>6. CASE FailJob(t)
  BY <1>6, TerminalizeLife DEF FailJob
<1>7. CASE InterruptJob(t)
  BY <1>7, TerminalizeLife DEF InterruptJob, At
<1>8. CASE ClearStaging(t)
  <2>1. task[t].pc = "clear" /\ StatusesKept /\ AfterFinish(t, NewState(None))
    BY <1>8 DEF ClearStaging, StatusesKept
  <2>2. task'[t].job = None
    BY <2>1, AfterFinishMoves DEF NewState, Idles, Proceeds
  <2> QED
    BY <2>1, <2>2, QuietLife
<1> QED
  BY <1>1, <1>2, <1>3, <1>4, <1>5, <1>6, <1>7, <1>8 DEF Undo

LEMMA ClaimCancelLife ==
    ASSUME SerialInv, IdsInv, NEW t \in Tasks, ClaimCancel(t)
    PROVE  LifeGood(t)
<1> USE Acting DEF At
<1>1. task[t].role = "cancel" /\ task[t].pc = "claim"
  BY DEF ClaimCancel
<1>2. CASE Return(t) /\ UNCHANGED row
  BY <1>1, <1>2, ReturnIdles, QuietLife DEF StatusesKept, Idles
<1>3. CASE /\ row[task[t].job].status = "queued" /\ FkOk(task[t].js.id)
           /\ row' = WithStatus(task[t].job, "running", task[t].js)
           /\ Goto(t, "cleanup")
  <2>1. Moves(t, "cancel", "cleanup", task[t].js)
    BY <1>1, <1>3, GotoMoves
  <2>2. Writes(task[t].job, "running", task[t].js)
    BY <1>1, <1>3, WithStatusWrites
  <2>3. ~Broken(t)
    BY <1>1, <1>3, Knowing DEF SameId, Active, Broken
  <2>4. OneLives(t)
    BY <1>1, <1>3, <2>2 DEF OneLives, Writes, Lives
  <2>5. task'[t].role = "cancel" /\ row'[task[t].job].status = "running"
    BY <2>1, <2>2 DEF Moves, Writes
  <2> QED
    BY <1>1, <1>3, <2>3, <2>4, <2>5 DEF LifeGood
<1> QED
  BY <1>2, <1>3 DEF ClaimCancel

LEMMA FinishCancelLife ==
    ASSUME SerialInv, LifeInv, NEW t \in Tasks, FinishCancel(t)
    PROVE  LifeGood(t)
<1> USE Acting DEF At
<1>1. task[t].role = "cancel" /\ task[t].pc = "finish"
  BY DEF FinishCancel
<1>2. CASE Return(t) /\ UNCHANGED row
  BY <1>1, <1>2, ReturnIdles, QuietLife DEF StatusesKept, Idles
<1>3. ASSUME NEW status \in {"failed", "canceled"},
             row' = WithStatus(task[t].job, status, task[t].js),
             AfterFinish(t, task[t].js)
      PROVE  LifeGood(t)
  <2>1. Writes(task[t].job, status, task[t].js)
    BY <1>1, <1>3, WithStatusWrites
  <2>2. row[task[t].job].status = "running" /\ Past(task[t]) /\ ~Waiting(task[t])
    BY <1>1 DEF LifeInv, LifeFits, Canceling, Past, Waiting
  <2>3. OneLives(t)
    BY <1>1, <2>1, <2>2 DEF OneLives, Writes, Lives, Active
  <2>4. \/ task'[t].job = None
        \/ task'[t].role = "cancel" /\ task'[t].pc = "clear"
    BY <1>1, <1>3, AfterFinishMoves DEF Moves, Idles, Proceeds
  <2> QED
    BY <2>2, <2>3, <2>4 DEF LifeGood
<1> QED
  BY <1>2, <1>3 DEF FinishCancel

\* A job that a deletion, or recovery, finishes.
LEMMA ListedLife ==
    ASSUME SerialInv, NEW t \in Tasks, NEW j \in Jobs, NEW js,
           task[t].role \in {"delete", "recover"}, j \in task[t].left,
           row' = FinishActive(j, "canceled", js),
           task[t].job = None, task'[t].job = None
    PROVE  LifeGood(t)
<1>1. OneLives(t)
  <2>1. CASE IsActive(j) /\ Writes(j, "canceled", js)
    BY <2>1 DEF OneLives, Writes, Lives, IsActive
  <2>2. CASE UNCHANGED row
    BY <2>2 DEF OneLives
  <2> QED
    BY <2>1, <2>2, FinishActiveWrites DEF SerialInv
<1> QED
  BY <1>1 DEF LifeGood

LEMMA RemovalLife ==
    ASSUME SerialInv, IdsInv, LifeInv, NEW t \in Tasks, Removal(t)
    PROVE  LifeGood(t)
<1>1. ASSUME NEW j \in Jobs, CancelForDeletion(t, j)
      PROVE  LifeGood(t)
  <2>1. task[t].job = None /\ task'[t].job = None
    BY <1>1
    DEF CancelForDeletion, At, SerialInv, TypeOK, Task, TasksPlaced, Placed
  <2> QED
    BY <1>1, <2>1, ListedLife DEF CancelForDeletion, At
<1>2. CASE RemoveInstance(t)
  <2>1. task'[t].job = None /\ task[t].job = None
    BY <1>2
    DEF RemoveInstance, SerialInv, TypeOK, Return, IdleTask, At, TasksPlaced,
        Placed
  <2>2. StatusesKept
    <3>1. CASE UNCHANGED row
      BY <3>1 DEF StatusesKept
    <3>2. CASE Exists(task[t].js.id) /\ DropInstance(task[t].js.id)
      BY <3>2, DropDrops DEF SerialInv, Exists, StatusesKept, Drops
    <3> QED
      BY <1>2, <3>1, <3>2 DEF RemoveInstance
  <2> QED
    BY <2>1, <2>2, QuietLife
<1> QED
  BY <1>1, <1>2, ClaimCancelLife, FinishCancelLife DEF Removal

LEMMA StepLife ==
    ASSUME "statement" \notin Faults, SerialInv, IdsInv, LifeInv,
           NEW t \in Tasks, Step(t)
    PROVE  LifeGood(t) \/ Recovered(t) \/ \E j \in Jobs : Recover(t, j)
<1>1. ASSUME NEW j \in Jobs, RecoverDeleted(t, j)
      PROVE  LifeGood(t)
  <2>1. task[t].job = None /\ task'[t].job = None
    BY <1>1
    DEF RecoverDeleted, At, SerialInv, TypeOK, Task, TasksPlaced, Placed,
        Undoing
  <2> QED
    BY <1>1, <2>1, ListedLife DEF RecoverDeleted, At
<1> QED
  BY <1>1, SetupLife, RunLife, UndoLife, RemovalLife DEF Step, Recovery

LEMMA IdlingLife ==
    ASSUME LifeInv, UNCHANGED <<row, inst>>,
           \A s \in Tasks : task'[s] \in {task[s], IdleTask}
    PROVE  LifeInv'
<1>1. \A s \in Tasks : \/ task'[s] = task[s]
                       \/ task'[s].job = None /\ task'[s].role = "idle"
  <2>1. IdleTask.job = None /\ IdleTask.role = "idle"
    BY DEF IdleTask
  <2> QED
    BY <2>1
<1>2. ASSUME NEW s \in Tasks, LifeFits(task[s]), task'[s] = task[s]
      PROVE  LifeFits(task[s])'
  BY <1>2 DEF LifeFits, Canceling, Past, Waiting, FkOk, Exists
<1>3. CancelsAlone'
  BY <1>1 DEF LifeInv, CancelsAlone, Canceling, Past, Waiting
<1> QED
  BY <1>1, <1>2, <1>3 DEF LifeInv

\* A command begins, or recovery goes on to the next job.
LEMMA BeginLife ==
    ASSUME SerialInv, LifeInv, NEW t \in Tasks, Others(t), UNCHANGED inst,
           \A k \in Jobs : \/ row'[k] = row[k]
                           \/ k = task'[t].job /\ row[k].status = "absent",
           task'[t].role # "stranded",
           task'[t].role = "cancel" => task'[t].pc = "claim"
    PROVE  LifeInv'
<1> USE DEF Others
<1>1. \A s \in Tasks : task[s].job \in Jobs \cup {None}
  BY DEF SerialInv, TypeOK, Task
<1>2. ASSUME NEW s \in Tasks \ {t}, task[s].job # None
      PROVE  LifeFits(task[s])'
  <2>1. LifeFits(task[s]) /\ task'[s] = task[s]
    BY <1>2 DEF LifeInv
  <2>2. row'[task[s].job] = row[task[s].job]
    BY <1>1, <1>2 DEF SerialInv, RowsFit, RowFits
  <2> QED
    BY <2>1, <2>2 DEF LifeFits, Canceling, Past, Waiting, FkOk, Exists
<1>3. LifeFits(task[t])' /\ ~Canceling(task'[t])
  BY DEF LifeFits, Canceling, Past, Waiting
<1>4. CancelsAlone'
  BY <1>3 DEF LifeInv, CancelsAlone, Canceling, Past, Waiting
<1> QED
  BY <1>2, <1>3, <1>4 DEF LifeInv

LEMMA CommandLife ==
    ASSUME SerialInv, LifeInv, NEW t \in Tasks, Command(t)
    PROVE  LifeInv'
<1>1. ASSUME NEW j \in Jobs, NEW kind \in Kinds, NEW id \in Instances \cup {None},
             Start(t, j, kind, id)
      PROVE  LifeInv'
  <2>1. /\ row[j].status = "absent"
        /\ \A k \in Jobs \ {j} : row'[k] = row[k]
        /\ UNCHANGED inst
    BY <1>1 DEF Start, SerialInv, TypeOK
  <2>2. Others(t) /\ task'[t].role = "setup" /\ task'[t].job = j
    BY <1>1 DEF Start, SerialInv, TypeOK, Others, IdleTask, Task
  <2> QED
    BY <2>1, <2>2, BeginLife
<1>2. ASSUME NEW j \in Jobs, Retry(t, j) PROVE LifeInv'
  <2>1. Others(t) /\ task'[t].role = "retry"
    BY <1>2 DEF Retry, SerialInv, TypeOK, Others, IdleTask, Task
  <2> QED
    BY <1>2, <2>1, BeginLife DEF Retry
<1>3. ASSUME NEW j \in Jobs, Cancel(t, j) PROVE LifeInv'
  <2>1. Others(t) /\ task'[t].role = "cancel" /\ task'[t].pc = "claim"
    BY <1>3 DEF Cancel, SerialInv, TypeOK, Others, IdleTask, Task
  <2> QED
    BY <1>3, <2>1, BeginLife DEF Cancel
<1>4. ASSUME NEW i \in Instances, Delete(t, i) PROVE LifeInv'
  <2>1. Others(t) /\ task'[t].role = "delete"
    BY <1>4 DEF Delete, SerialInv, TypeOK, Others, IdleTask, Task
  <2> QED
    BY <1>4, <2>1, BeginLife DEF Delete
<1> QED
  BY <1>1, <1>2, <1>3, <1>4 DEF Command

LEMMA LifeNext ==
    ASSUME Serial, "statement" \notin Faults, SerialInv, IdsInv, LifeInv,
           [Next]_vars
    PROVE  LifeInv'
<1>1. CASE UNCHANGED vars
  BY <1>1, IdlingLife DEF vars
<1>2. CASE Crash
  BY <1>2, IdlingLife DEF Crash
<1>3. ASSUME NEW j \in Jobs, Dismiss(j) PROVE LifeInv'
  BY <1>3, IdlingLife DEF Dismiss
<1>4. ASSUME NEW t \in Tasks, Boot(t) PROVE LifeInv'
  <2>1. Others(t) /\ task'[t].role = "recover"
    BY <1>4 DEF Boot, SerialInv, TypeOK, Others, IdleTask, Task
  <2> QED
    BY <1>4, <2>1, BeginLife DEF Boot
<1>5. ASSUME NEW t \in Tasks, Command(t) PROVE LifeInv'
  BY <1>5, CommandLife
<1>6. ASSUME NEW t \in Tasks, Step(t) PROVE LifeInv'
  <2>1. CASE Recovered(t)
    BY <2>1, IdlingLife DEF Recovered, Return, SerialInv, TypeOK
  <2>2. ASSUME NEW j \in Jobs, Recover(t, j) PROVE LifeInv'
    <3>1. Others(t) /\ task'[t].role = "recover"
      BY <2>2 DEF Recover, At, SerialInv, TypeOK, Others, Task
    <3> QED
      BY <2>2, <3>1, BeginLife DEF Recover
  <2>3. CASE Good(t) /\ IdsGood(t) /\ LifeGood(t)
    BY <2>3, StepKeepsLife
  <2> QED
    BY <1>6, <2>1, <2>2, <2>3, StepGood, StepIds, StepLife
<1> QED
  BY <1>1, <1>2, <1>3, <1>4, <1>5, <1>6 DEF Next

LEMMA LifeInit == Init => LifeInv
BY DEF Init, LifeInv, CancelsAlone, Canceling, IdleTask

Statuses == [j \in Jobs |-> row[j].status]

\* A change of one status is a step of JobLifecycle.
LEMMA LivesIsStep ==
    ASSUME NEW j \in Jobs, \A k \in Jobs \ {j} : row'[k].status = row[k].status,
           Lives(row[j].status, row'[j].status)
    PROVE  [Lifecycle!Next]_Statuses
<1> DEFINE new == row'[j].status
<1>1. Statuses' = [Statuses EXCEPT ![j] = new]
  BY DEF Statuses
<1>2. CASE new = row[j].status
  BY <1>1, <1>2 DEF Statuses
<1>3. Statuses = [k \in Jobs |-> row[k].status] /\ Statuses[j] = row[j].status
  BY DEF Statuses
<1>4. ASSUME NEW s, s = new
      PROVE  Lifecycle!Become(j, s)
  BY <1>1, <1>3, <1>4 DEF Lifecycle!Become, Statuses
<1> HIDE DEF new
<1>5. CASE row[j].status = "absent" /\ new = "queued"
  <2>1. Lifecycle!Submit(j)
    BY <1>3, <1>4, <1>5 DEF Lifecycle!Submit
  <2> QED
    BY <2>1 DEF Lifecycle!Next
<1>6. CASE row[j].status = "queued" /\ new = "running"
  <2>1. Lifecycle!Take(j)
    BY <1>3, <1>4, <1>6 DEF Lifecycle!Take
  <2> QED
    BY <2>1 DEF Lifecycle!Next
<1>7. CASE row[j].status \in Active /\ new \in {"failed", "interrupted", "canceled"}
  <2>1. Lifecycle!End(j)
    BY <1>3, <1>4, <1>7
    DEF Lifecycle!End, Lifecycle!Retriable, Lifecycle!Active, Active
  <2> QED
    BY <2>1 DEF Lifecycle!Next
<1>8. CASE row[j].status = "running" /\ new = "succeeded"
  <2>1. Lifecycle!End(j)
    BY <1>3, <1>4, <1>8 DEF Lifecycle!End
  <2> QED
    BY <2>1 DEF Lifecycle!Next
<1>9. CASE row[j].status \in {"failed", "interrupted"} /\ new = "queued"
  <2>1. Lifecycle!Resubmit(j)
    BY <1>3, <1>4, <1>9 DEF Lifecycle!Resubmit, Lifecycle!Retriable
  <2> QED
    BY <2>1 DEF Lifecycle!Next
<1> QED
  BY <1>2, <1>5, <1>6, <1>7, <1>8, <1>9 DEF Lives, new

LEMMA NextIsStep ==
    ASSUME "statement" \notin Faults, SerialInv, IdsInv, LifeInv, [Next]_vars
    PROVE  [Lifecycle!Next]_Statuses
<1>1. CASE UNCHANGED row
  BY <1>1 DEF Statuses
<1>2. ASSUME NEW t \in Tasks, Command(t), row' # row
      PROVE  [Lifecycle!Next]_Statuses
  <2>1. PICK j \in Jobs, kind \in Kinds, id \in Instances \cup {None} :
            Start(t, j, kind, id)
    BY <1>2 DEF Command, Retry, Cancel, Delete
  <2>2. /\ row[j].status = "absent" /\ row'[j].status = "queued"
        /\ \A k \in Jobs \ {j} : row'[k] = row[k]
    BY <2>1 DEF Start, SerialInv, TypeOK
  <2> QED
    BY <2>2, LivesIsStep DEF Lives
<1>3. ASSUME NEW t \in Tasks, Step(t), row' # row
      PROVE  [Lifecycle!Next]_Statuses
  <2>1. OneLives(t)
    BY <1>3, StepLife DEF Recovered, Recover, LifeGood
  <2>2. CASE \A k \in Jobs : row'[k].status = row[k].status
    BY <2>2 DEF Statuses
  <2>3. task[t].job \in Jobs \cup {None} /\ task[t].left \subseteq Jobs
    BY DEF SerialInv, TypeOK, Task
  <2> QED
    BY <2>1, <2>2, <2>3, LivesIsStep DEF OneLives
<1> QED
  BY <1>1, <1>2, <1>3 DEF Next, vars, Crash, Dismiss, Boot

LEMMA LifeHolds ==
    ASSUME Serial, "statement" \notin Faults, "lock" \notin Faults
    PROVE  Spec => [](SerialInv /\ IdsInv /\ LifeInv)
<1> USE Serial
<1>1. Init => SerialInv /\ IdsInv /\ LifeInv
  BY SerialInit, IdsInit, LifeInit
<1>2. SerialInv /\ IdsInv /\ LifeInv /\ [Next]_vars
        => (SerialInv /\ IdsInv /\ LifeInv)'
  BY SerialNext, IdsNext, LifeNext
<1> QED
  BY <1>1, <1>2, PTL DEF Spec

\* The rows of install_jobs live the life JobLifecycle describes, step by step:
\* a job that ended otherwise than by failure never moves again, and only a job
\* that failed or was interrupted is queued anew. The statements of run_job are
\* taken to fail for the reasons the schema gives, and for no other, and the lock
\* that follows a preparation not to fail.
THEOREM StatusesLiveTheirLife ==
    ASSUME Serial, "statement" \notin Faults, "lock" \notin Faults
    PROVE  Spec => Lifecycle!Init /\ [][Lifecycle!Next]_Statuses
<1>1. Init => Lifecycle!Init
  BY DEF Init, Lifecycle!Init
<1>2. SerialInv /\ IdsInv /\ LifeInv /\ [Next]_vars => [Lifecycle!Next]_Statuses
  BY NextIsStep
<1> QED
  BY <1>1, <1>2, LifeHolds, PTL DEF Spec

----------------------------------------------------------------------------
(* As long as nobody dismisses a job, the error of a rollback that failed    *)
(* stays with a job that can be retried.                                    *)

ErrorsRetriable == \A j \in Jobs : row[j].js.rberr => row[j].status \in Retriable

\* A task that has the work, or the claim, still before it knows no error.
Unerred(x) ==
    \/ x.role = "run" /\ x.pc \in {"claim", "work", "backup", "save", "install",
                                  "ended_ok", "ended_err"}
    \/ x.role = "setup" /\ x.pc \in {"prepare", "persist"}
    \/ x.role = "cancel" /\ x.pc = "claim"
    => ~x.js.rberr

\* Only a deletion dismisses, and only what it has canceled.
DismissedCanceled ==
    \A j \in dismissed :
        /\ row[j].status = "canceled"
        /\ \A t \in Tasks : task[t].role = "cancel" => task[t].job # j

ErrorInv == /\ ErrorsRetriable
            /\ "dismiss" \notin Commands => DismissedCanceled
            /\ \A t \in Tasks : Unerred(task[t])

ErrorGood(t) ==
    /\ ErrorsRetriable' /\ Unerred(task[t])'
    /\ \A j \in dismissed' \ dismissed :
          /\ row'[j].status = "canceled"
          /\ \A s \in Tasks : task[s].role = "cancel" => task[s].job # j

\* A job that was canceled and that no cancel is at work on stays canceled.
LEMMA DismissedStay ==
    ASSUME "dismiss" \notin Commands, SerialInv, ErrorInv, [Next]_vars,
           NEW j \in dismissed
    PROVE  row'[j].status = "canceled"
<1>1. j \in Jobs /\ row[j].status = "canceled"
  BY DEF SerialInv, TypeOK, ErrorInv, DismissedCanceled
<1>2. ASSUME row'[j].status # "canceled" PROVE FALSE
  <2>1. PICK t \in Tasks : /\ task[t].job = j
                           /\ \/ At(t, "retry", "requeue")
                              \/ At(t, "cancel", "finish")
    BY <1>1, <1>2, LateWorkerStep DEF SerialInv, Finished
  <2>2. ~At(t, "cancel", "finish")
    BY <2>1 DEF At, ErrorInv, DismissedCanceled
  <2>3. row[j].status \in {"failed", "interrupted"}
    BY <2>1, <2>2, Acting DEF At, RowFits
  <2> QED
    BY <1>1, <2>3
<1> QED
  BY <1>2

LEMMA StepKeepsErrors ==
    ASSUME SerialInv, SerialInv', ErrorInv, [Next]_vars, NEW t \in Tasks,
           Tame(t), ErrorGood(t)
    PROVE  ErrorInv'
<1>1. \A s \in Tasks \ {t} : task'[s] = task[s]
  BY DEF Tame, Others
<1>2. \A s \in Tasks : Unerred(task[s])'
  BY <1>1 DEF ErrorInv, ErrorGood, Unerred
<1>3. ASSUME "dismiss" \notin Commands, NEW j \in dismissed', NEW s \in Tasks,
             task'[s].role = "cancel", task'[s].job = j
      PROVE  FALSE
  <2>1. j # None
    BY ConstantsAssumption DEF SerialInv, TypeOK
  <2>2. task[s].role = "cancel" /\ task[s].job = j
    <3>1. CASE s = t
      BY <1>3, <2>1, <3>1 DEF Tame
    <3>2. CASE s # t
      BY <1>1, <1>3, <3>2
    <3> QED
      BY <3>1, <3>2
  <2> QED
    BY <1>3, <2>2 DEF ErrorInv, DismissedCanceled, ErrorGood
<1>4. "dismiss" \notin Commands => \A j \in dismissed' : row'[j].status = "canceled"
  BY DismissedStay DEF ErrorGood
<1>5. "dismiss" \notin Commands => DismissedCanceled'
  BY <1>3, <1>4 DEF DismissedCanceled
<1> QED
  BY <1>2, <1>5 DEF ErrorInv, ErrorGood

\* What a row and a task may take on.
LEMMA RowsKeepErrors ==
    ASSUME ErrorInv, RowsKept
    PROVE  ErrorsRetriable'
BY DEF RowsKept, ErrorInv, ErrorsRetriable

LEMMA WriteKeepsErrors ==
    ASSUME ErrorInv, NEW j \in Jobs, NEW status, NEW js, Writes(j, status, js),
           js.rberr => status \in Retriable
    PROVE  ErrorsRetriable'
BY DEF Writes, ErrorInv, ErrorsRetriable

LEMMA QuietErrors ==
    ASSUME NEW t \in Tasks, ErrorsRetriable', UNCHANGED dismissed,
           Idles(t) \/ Proceeds(t)
    PROVE  ErrorGood(t)
BY DEF Idles, Proceeds, NewState, ErrorGood, Unerred

LEMMA MoveErrors ==
    ASSUME NEW t \in Tasks, ErrorsRetriable', UNCHANGED dismissed,
           NEW role, NEW pc, NEW js, Moves(t, role, pc, js),
           \/ ~js.rberr
           \/ role \notin {"run", "setup", "cancel"}
           \/ role = "run" /\ pc \notin {"claim", "work", "backup", "save", "install",
                                        "ended_ok", "ended_err"}
           \/ role = "setup" /\ pc \notin {"prepare", "persist"}
           \/ role = "cancel" /\ pc # "claim"
    PROVE  ErrorGood(t)
BY DEF Moves, ErrorGood, Unerred

LEMMA SetupErrors ==
    ASSUME SerialInv, ErrorInv, NEW t \in Tasks, Setup(t)
    PROVE  ErrorGood(t)
<1> USE Acting DEF At
<1>1. CASE Requeue(t)
  <2> DEFINE id == IF row[task[t].job].kind = "create" THEN None ELSE task[t].js.id
  <2>1. task[t].role = "retry" /\ task[t].pc = "requeue" /\ UNCHANGED dismissed
    BY <1>1 DEF Requeue
  <2>2. CASE Return(t) /\ UNCHANGED row
    BY <2>1, <2>2, ReturnIdles, QuietErrors, RowsKeepErrors DEF RowsKept
  <2>3. CASE /\ row' = WithStatus(task[t].job, "queued", NewState(id))
             /\ task' = [task EXCEPT ![t].role = "setup", ![t].pc = "prepare",
                                     ![t].js = NewState(id)]
    <3> HIDE DEF id
    <3>1. Moves(t, "setup", "prepare", NewState(id))
      BY <2>1, <2>3 DEF Moves, Others, TypeOK, Task
    <3>2. Writes(task[t].job, "queued", NewState(id))
      BY <2>1, <2>3, WithStatusWrites
    <3>3. ~NewState(id).rberr
      BY DEF NewState
    <3>4. ErrorsRetriable'
      BY <2>1, <3>2, <3>3, WriteKeepsErrors
    <3> QED
      BY <2>1, <3>1, <3>3, <3>4, MoveErrors
  <2> QED
    BY <1>1, <2>2, <2>3 DEF Requeue
<1>2. CASE PrepareNew(t)
  <2>1. /\ task[t].role = "setup" /\ task[t].pc = "prepare"
        /\ UNCHANGED <<row, dismissed>>
    BY <1>2 DEF PrepareNew
  <2>2. ErrorsRetriable'
    BY <2>1, RowsKeepErrors DEF RowsKept
  <2>3. ~task[t].js.rberr
    BY <2>1 DEF ErrorInv, Unerred
  <2>4. ASSUME NEW i, NEW ok, GotoWith(t, IF ok THEN "persist" ELSE "cleanup",
                                       [task[t].js EXCEPT !.id = i])
        PROVE  ErrorGood(t)
    <3>1. ~[task[t].js EXCEPT !.id = i].rberr
      BY <2>1, <2>3 DEF TypeOK, Task, JobState
    <3>2. Moves(t, "setup", IF ok THEN "persist" ELSE "cleanup",
                [task[t].js EXCEPT !.id = i])
      BY <2>1, <2>4, GotoWithMoves
    <3> QED
      BY <2>1, <2>2, <3>1, <3>2, MoveErrors
  <2>5. CASE Goto(t, "cleanup")
    BY <2>1, <2>2, <2>3, <2>5, GotoMoves, MoveErrors
  <2> QED
    BY <1>2, <2>4, <2>5 DEF PrepareNew
<1>3. CASE PrepareExisting(t)
  <2>1. /\ task[t].role = "setup" /\ task[t].pc = "prepare"
        /\ UNCHANGED <<row, dismissed>>
    BY <1>3 DEF PrepareExisting
  <2>2. ErrorsRetriable'
    BY <2>1, RowsKeepErrors DEF RowsKept
  <2>3. ~task[t].js.rberr
    BY <2>1 DEF ErrorInv, Unerred
  <2>4. CASE GotoWith(t, "persist", [task[t].js EXCEPT !.rb = inst[task[t].js.id]])
    <3>1. ~[task[t].js EXCEPT !.rb = inst[task[t].js.id]].rberr
      BY <2>1, <2>3 DEF TypeOK, Task, JobState
    <3>2. Moves(t, "setup", "persist", [task[t].js EXCEPT !.rb = inst[task[t].js.id]])
      BY <2>1, <2>4, GotoWithMoves
    <3> QED
      BY <2>1, <2>2, <3>1, <3>2, MoveErrors
  <2>5. CASE Goto(t, "cleanup")
    BY <2>1, <2>2, <2>3, <2>5, GotoMoves, MoveErrors
  <2> QED
    BY <1>3, <2>4, <2>5 DEF PrepareExisting
<1>4. CASE Persist(t)
  <2>1. /\ task[t].role = "setup" /\ task[t].pc = "persist"
        /\ UNCHANGED dismissed
    BY <1>4 DEF Persist
  <2>2. PICK pc \in {"lock", "cleanup"} : Moves(t, "setup", pc, task[t].js)
    BY <1>4, <2>1, GotoMoves DEF Persist
  <2>3. ~task[t].js.rberr
    BY <2>1 DEF ErrorInv, Unerred
  <2>4. \/ UNCHANGED row
        \/ Writes(task[t].job, row[task[t].job].status, task[t].js)
    BY <1>4, <2>1, UpdatedWrites DEF Persist
  <2>5. ErrorsRetriable'
    BY <2>1, <2>3, <2>4, RowsKeepErrors, WriteKeepsErrors DEF RowsKept
  <2> QED
    BY <2>1, <2>2, <2>3, <2>5, MoveErrors
<1>5. CASE LockAndSpawn(t)
  <2>1. task[t].role = "setup" /\ task[t].pc = "lock" /\ UNCHANGED <<row, dismissed>>
    BY <1>5 DEF LockAndSpawn
  <2>2. \/ task'[t].role = "run" /\ task'[t].pc = "read"
        \/ task'[t].role = "setup" /\ task'[t].pc = "cleanup"
    BY <1>5, <2>1, LockAndSpawnDoes DEF Moves
  <2>3. ErrorsRetriable'
    BY <2>1, RowsKeepErrors DEF RowsKept
  <2> QED
    BY <2>1, <2>2, <2>3 DEF ErrorGood, Unerred
<1> QED
  BY <1>1, <1>2, <1>3, <1>4, <1>5 DEF Setup

LEMMA RunErrors ==
    ASSUME SerialInv, ErrorInv, NEW t \in Tasks, Run(t)
    PROVE  ErrorGood(t)
<1> USE Acting DEF At
<1>0. UNCHANGED dismissed
  BY DEF Run, RunRead, Acquire, Claim, WorkNew, WorkExisting, Backup,
         SaveBackup, Install, Reread, Succeed, CheckStranded
<1>a. UNCHANGED row => ErrorsRetriable'
  BY RowsKeepErrors DEF RowsKept
<1>b. task[t].role = "run"
      /\ task[t].pc \in {"claim", "work", "backup", "save", "install"} =>
          ~task[t].js.rberr
  BY DEF ErrorInv, Unerred
<1>1. CASE RunRead(t)
  <2>1. task[t].role = "run" /\ task[t].pc = "read" /\ UNCHANGED row
    BY <1>1 DEF RunRead
  <2>2. Idles(t) \/ Moves(t, "run", "acquire", task[t].js)
    BY <1>1, <2>1, ReturnIdles, GotoMoves DEF RunRead
  <2> QED
    BY <1>0, <1>a, <2>1, <2>2, QuietErrors, MoveErrors
<1>2. CASE Acquire(t)
  <2>1. task[t].role = "run" /\ task[t].pc = "acquire" /\ UNCHANGED row
    BY <1>2 DEF Acquire
  <2>2. \/ Idles(t)
        \/ /\ Moves(t, "run", "claim", row[task[t].job].js)
           /\ row[task[t].job].status = "queued"
    BY <1>2, <2>1, ReturnIdles, GotoWithMoves DEF Acquire
  <2>3. row[task[t].job].status = "queued" => ~row[task[t].job].js.rberr
    BY <2>1 DEF ErrorInv, ErrorsRetriable, Retriable
  <2> QED
    BY <1>0, <1>a, <2>1, <2>2, <2>3, QuietErrors, MoveErrors
<1>3. CASE Claim(t)
  <2>1. task[t].role = "run" /\ task[t].pc = "claim"
    BY <1>3 DEF Claim
  <2>2. CASE Return(t) /\ UNCHANGED row
    BY <1>0, <1>a, <2>1, <2>2, ReturnIdles, QuietErrors
  <2>3. CASE Strand(t) /\ UNCHANGED row
    BY <1>0, <1>a, <2>1, <2>3, StrandMoves, MoveErrors
  <2>4. CASE /\ row' = WithStatus(task[t].job, "running", task[t].js)
             /\ Goto(t, "work")
    <3>1. Moves(t, "run", "work", task[t].js)
      BY <2>1, <2>4, GotoMoves
    <3>2. Writes(task[t].job, "running", task[t].js)
      BY <2>1, <2>4, WithStatusWrites
    <3>3. ErrorsRetriable'
      BY <1>b, <2>1, <3>2, WriteKeepsErrors
    <3> QED
      BY <1>0, <1>b, <2>1, <3>1, <3>3, MoveErrors
  <2> QED
    BY <1>3, <2>2, <2>3, <2>4 DEF Claim
<1>4. CASE WorkNew(t)
  <2>1. task[t].role = "run" /\ task[t].pc = "work" /\ UNCHANGED row
    BY <1>4 DEF WorkNew
  <2>2. CASE Goto(t, "ended_err")
    BY <1>0, <1>a, <1>b, <2>1, <2>2, GotoMoves, MoveErrors
  <2>3. CASE task' = [task EXCEPT ![t].pc = "install", ![t].prev = inst[task[t].js.id]]
    <3>1. Moves(t, "run", "install", task[t].js)
      BY <2>1, <2>3 DEF Moves, Others, TypeOK, Task
    <3> QED
      BY <1>0, <1>a, <1>b, <2>1, <3>1, MoveErrors
  <2> QED
    BY <1>4, <2>2, <2>3 DEF WorkNew
<1>5. CASE WorkExisting(t)
  <2>1. task[t].role = "run" /\ task[t].pc = "work"
    BY <1>5 DEF WorkExisting
  <2>2. CASE Goto(t, "ended_err") /\ UNCHANGED row
    BY <1>0, <1>a, <1>b, <2>1, <2>2, GotoMoves, MoveErrors
  <2>3. CASE Exists(task[t].js.id)
    <3> DEFINE js == [task[t].js EXCEPT
                         !.rb = IF @ = None THEN inst[task[t].js.id] ELSE @]
               pc == IF row[task[t].job].kind = "update" THEN "backup"
                     ELSE IF IsActive(task[t].job) THEN "install"
                     ELSE "ended_err"
    <3>1. /\ task' = [task EXCEPT ![t].pc = pc, ![t].js = js,
                                  ![t].prev = "installing"]
          /\ row' = IF IsActive(task[t].job) /\ row[task[t].job].kind # "update"
                    THEN Updated(task[t].job, js) ELSE row
      BY <1>5, <2>3 DEF WorkExisting
    <3>2. ~js.rberr
      BY <1>b, <2>1 DEF TypeOK, Task, JobState
    <3> HIDE DEF pc, js
    <3>3. Moves(t, "run", pc, js)
      BY <2>1, <3>1 DEF Moves, Others, TypeOK, Task
    <3>4. UNCHANGED row \/ Writes(task[t].job, row[task[t].job].status, js)
      BY <2>1, <3>1, UpdatedWrites
    <3>5. ErrorsRetriable'
      BY <1>a, <2>1, <3>2, <3>4, WriteKeepsErrors
    <3> QED
      BY <1>0, <3>2, <3>3, <3>5, MoveErrors
  <2> QED
    BY <1>5, <2>2, <2>3 DEF WorkExisting
<1>6. CASE Backup(t)
  <2>1. task[t].role = "run" /\ task[t].pc = "backup" /\ UNCHANGED row
    BY <1>6 DEF Backup
  <2>2. ~[task[t].js EXCEPT !.staging = TRUE].rberr
    BY <1>b, <2>1 DEF TypeOK, Task, JobState
  <2>3. CASE Goto(t, "ended_err")
    BY <1>0, <1>a, <1>b, <2>1, <2>3, GotoMoves, MoveErrors
  <2>4. CASE GotoWith(t, "save", [task[t].js EXCEPT !.staging = TRUE])
    <3>1. Moves(t, "run", "save", [task[t].js EXCEPT !.staging = TRUE])
      BY <2>1, <2>4, GotoWithMoves
    <3> QED
      BY <1>0, <1>a, <1>b, <2>1, <2>2, <3>1, MoveErrors
  <2> QED
    BY <1>6, <2>3, <2>4 DEF Backup
<1>7. CASE SaveBackup(t)
  <2>1. task[t].role = "run" /\ task[t].pc = "save"
    BY <1>7 DEF SaveBackup
  <2>2. PICK pc \in {"install", "ended_err"} : Moves(t, "run", pc, task[t].js)
    BY <1>7, <2>1, GotoMoves DEF SaveBackup
  <2>3. UNCHANGED row \/ Writes(task[t].job, row[task[t].job].status, task[t].js)
    BY <1>7, <2>1, UpdatedWrites DEF SaveBackup
  <2>4. ErrorsRetriable'
    BY <1>a, <1>b, <2>1, <2>3, WriteKeepsErrors
  <2> QED
    BY <1>0, <1>b, <2>1, <2>2, <2>4, MoveErrors
<1>8. CASE Install(t)
  <2>1. task[t].role = "run" /\ task[t].pc = "install" /\ UNCHANGED row
    BY <1>8 DEF Install
  <2>2. PICK pc \in {"ended_ok", "ended_err"} : Moves(t, "run", pc, task[t].js)
    BY <1>8, <2>1, GotoMoves DEF Install
  <2> QED
    BY <1>0, <1>a, <1>b, <2>1, <2>2, MoveErrors
<1>9. CASE Reread(t)
  <2>1. task[t].role = "run" /\ task[t].pc \in {"ended_ok", "ended_err"} /\ UNCHANGED row
    BY <1>9 DEF Reread
  <2>2. CASE Return(t)
    BY <1>0, <1>a, <2>1, <2>2, ReturnIdles, QuietErrors
  <2>3. ASSUME NEW pc \in {"succeed", "cleanup"}, NEW js, GotoWith(t, pc, js)
        PROVE  ErrorGood(t)
    <3>1. Moves(t, "run", pc, js)
      BY <2>1, <2>3, GotoWithMoves
    <3> QED
      BY <1>0, <1>a, <2>1, <3>1, MoveErrors
  <2>4. ASSUME NEW pc \in {"succeed", "cleanup"}, Goto(t, pc)
        PROVE  ErrorGood(t)
    <3>1. Moves(t, "run", pc, task[t].js)
      BY <2>1, <2>4, GotoMoves
    <3> QED
      BY <1>0, <1>a, <2>1, <3>1, MoveErrors
  <2> QED
    BY <1>9, <2>2, <2>3, <2>4 DEF Reread
<1>10. CASE Succeed(t)
  <2> DEFINE js == [task[t].js EXCEPT !.rberr = FALSE]
  <2>1. task[t].role = "run" /\ task[t].pc = "succeed"
    BY <1>10 DEF Succeed
  <2>2. CASE Return(t) /\ UNCHANGED row
    BY <1>0, <1>a, <2>1, <2>2, ReturnIdles, QuietErrors
  <2>3. CASE Strand(t) /\ UNCHANGED row
    BY <1>0, <1>a, <2>1, <2>3, StrandMoves, MoveErrors
  <2>4. CASE row' = WithStatus(task[t].job, "succeeded", js) /\ AfterFinish(t, js)
    <3>1. ~js.rberr
      BY <2>1 DEF TypeOK, Task, JobState
    <3> HIDE DEF js
    <3>2. Writes(task[t].job, "succeeded", js)
      BY <2>1, <2>4, WithStatusWrites
    <3>3. ErrorsRetriable'
      BY <2>1, <3>1, <3>2, WriteKeepsErrors
    <3>4. Idles(t) \/ Proceeds(t) \/ Moves(t, "run", "clear", js)
      BY <2>1, <2>4, AfterFinishMoves
    <3> QED
      BY <1>0, <3>1, <3>3, <3>4, QuietErrors, MoveErrors
  <2> QED
    BY <1>10, <2>2, <2>3, <2>4 DEF Succeed
<1>11. CASE CheckStranded(t)
  <2>1. task[t].role = "stranded" /\ task[t].pc = "check" /\ UNCHANGED row
    BY <1>11 DEF CheckStranded
  <2>2. Idles(t) \/ Moves(t, "stranded", "cleanup", row[task[t].job].js)
    BY <1>11, <2>1, ReturnIdles, GotoWithMoves DEF CheckStranded
  <2> QED
    BY <1>0, <1>a, <2>1, <2>2, QuietErrors, MoveErrors
<1> QED
  BY <1>1, <1>2, <1>3, <1>4, <1>5, <1>6, <1>7, <1>8, <1>9, <1>10, <1>11 DEF Run

LEMMA CleanedUpErrors ==
    ASSUME SerialInv, ErrorInv, NEW t \in Tasks, NEW ok \in BOOLEAN, RowsKept,
           task[t].pc \in {"cleanup", "restoring"}, CleanedUp(t, ok),
           UNCHANGED dismissed
    PROVE  ErrorGood(t)
<1>1. ErrorsRetriable'
  BY RowsKeepErrors
<1>2. \/ Idles(t)
      \/ Moves(t, "retry", "requeue", task[t].js)
      \/ Moves(t, task[t].role, "finish", Undone(t, ok))
  BY CleanedUpMoves
<1> QED
  BY <1>1, <1>2, QuietErrors, MoveErrors

\* A job that is finished, whatever error it ends with.
LEMMA FinishErrors ==
    ASSUME SerialInv, ErrorInv, NEW t \in Tasks, task[t].pc \in {"finish", "clear"},
           NEW js, AfterFinish(t, js), ErrorsRetriable', UNCHANGED dismissed
    PROVE  ErrorGood(t)
BY Acting, AfterFinishMoves, QuietErrors, MoveErrors

LEMMA UndoErrors ==
    ASSUME SerialInv, ErrorInv, NEW t \in Tasks, Undo(t)
    PROVE  ErrorGood(t)
<1> USE Acting
<1>0. UNCHANGED dismissed
  BY DEF Undo, RemoveNewInstance, NothingToUndo, RestoreStage, BeginRestore,
         EndRestore, FailJob, InterruptJob, ClearStaging, Terminalize
<1>1. CASE RemoveNewInstance(t)
  <2>1. task[t].pc = "cleanup" /\ task[t].js.id \in Instances
    BY <1>1 DEF RemoveNewInstance, Undoes, Exists
  <2>2. PICK ok \in BOOLEAN :
            CleanedUp(t, ok) /\ (UNCHANGED row \/ DropInstance(task[t].js.id))
    BY <1>1 DEF RemoveNewInstance, Outcome
  <2>3. RowsKept
    BY <2>1, <2>2, DropDrops DEF RowsKept, Drops
  <2> QED
    BY <1>0, <2>1, <2>2, <2>3, CleanedUpErrors
<1>2. CASE NothingToUndo(t)
  BY <1>0, <1>2, CleanedUpErrors DEF NothingToUndo, Undoes, RowsKept
<1>3. CASE RestoreStage(t)
  BY <1>0, <1>3, CleanedUpErrors DEF RestoreStage, Undoes, RowsKept
<1>4. CASE BeginRestore(t)
  <2>1. task[t].pc = "cleanup" /\ RowsKept
    BY <1>4 DEF BeginRestore, Undoes, RowsKept
  <2>2. CASE CleanedUp(t, FALSE)
    BY <1>0, <2>1, <2>2, CleanedUpErrors
  <2>3. CASE Goto(t, "restoring")
    BY <1>0, <2>1, <2>3, GotoMoves, RowsKeepErrors, MoveErrors
  <2> QED
    BY <1>4, <2>2, <2>3 DEF BeginRestore
<1>5. CASE EndRestore(t)
  BY <1>0, <1>5, CleanedUpErrors DEF EndRestore, RowsKept
<1>6. ASSUME NEW status \in Retriable, Terminalize(t, status), task[t].pc = "finish"
      PROVE  ErrorGood(t)
  <2>1. ErrorsRetriable'
    BY <1>6, FinishActiveWrites, WriteKeepsErrors, RowsKeepErrors
       DEF Terminalize, RowsKept
  <2> QED
    BY <1>0, <1>6, <2>1, FinishErrors DEF Terminalize
<1>7. CASE ClearStaging(t)
  BY <1>0, <1>7, RowsKeepErrors, FinishErrors DEF ClearStaging, RowsKept
<1> QED
  BY <1>1, <1>2, <1>3, <1>4, <1>5, <1>6, <1>7
  DEF Undo, FailJob, InterruptJob, At, Retriable

LEMMA ClaimCancelErrors ==
    ASSUME SerialInv, ErrorInv, NEW t \in Tasks, ClaimCancel(t)
    PROVE  ErrorGood(t)
<1> USE Acting DEF At
<1>1. task[t].role = "cancel" /\ task[t].pc = "claim" /\ UNCHANGED dismissed
  BY DEF ClaimCancel
<1>2. CASE Return(t) /\ UNCHANGED row
  BY <1>1, <1>2, ReturnIdles, QuietErrors, RowsKeepErrors DEF RowsKept
<1>3. CASE /\ row' = WithStatus(task[t].job, "running", task[t].js)
           /\ Goto(t, "cleanup")
  <2>1. Moves(t, "cancel", "cleanup", task[t].js)
    BY <1>1, <1>3, GotoMoves
  <2>2. Writes(task[t].job, "running", task[t].js)
    BY <1>1, <1>3, WithStatusWrites
  <2>3. ~task[t].js.rberr
    BY <1>1 DEF ErrorInv, Unerred
  <2>4. ErrorsRetriable'
    BY <1>1, <2>2, <2>3, WriteKeepsErrors
  <2> QED
    BY <1>1, <2>1, <2>3, <2>4, MoveErrors
<1> QED
  BY <1>2, <1>3 DEF ClaimCancel

LEMMA FinishCancelErrors ==
    ASSUME SerialInv, ErrorInv, NEW t \in Tasks, FinishCancel(t)
    PROVE  ErrorGood(t)
<1> USE Acting DEF At
<1>1. task[t].role = "cancel" /\ task[t].pc = "finish" /\ UNCHANGED dismissed
  BY DEF FinishCancel
<1>2. CASE Return(t) /\ UNCHANGED row
  BY <1>1, <1>2, ReturnIdles, QuietErrors, RowsKeepErrors DEF RowsKept
<1>3. ASSUME NEW status, task[t].js.rberr => status = "failed",
             row' = WithStatus(task[t].job, status, task[t].js),
             AfterFinish(t, task[t].js)
      PROVE  ErrorGood(t)
  <2>1. Writes(task[t].job, status, task[t].js)
    BY <1>1, <1>3, WithStatusWrites
  <2>2. ErrorsRetriable'
    BY <1>1, <1>3, <2>1, WriteKeepsErrors DEF Retriable
  <2> QED
    BY <1>1, <1>3, <2>2, FinishErrors
<1> QED
  BY <1>2, <1>3 DEF FinishCancel

\* A job that a deletion, or recovery, cancels and takes off the list.
LEMMA ListedErrors ==
    ASSUME SerialInv, ErrorInv, NEW t \in Tasks, NEW j \in Jobs,
           row' = FinishActive(j, "canceled", row[j].js),
           \/ UNCHANGED dismissed
           \/ /\ dismissed' = dismissed \cup {j} /\ IsActive(j)
              /\ \A s \in Tasks : task[s].role = "cancel" => task[s].job # j,
           Unerred(task[t])'
    PROVE  ErrorGood(t)
<1>1. IsActive(j) => ~row[j].js.rberr
  BY DEF ErrorInv, ErrorsRetriable, Retriable, IsActive, Active
<1>2. ErrorsRetriable'
  BY <1>1, FinishActiveWrites, WriteKeepsErrors, RowsKeepErrors
     DEF SerialInv, RowsKept
<1>3. IsActive(j) => row'[j].status = "canceled"
  BY DEF FinishActive, SerialInv, TypeOK
<1> QED
  BY <1>2, <1>3 DEF ErrorGood

LEMMA RemovalErrors ==
    ASSUME SerialInv, IdsInv, ErrorInv, NEW t \in Tasks, Removal(t)
    PROVE  ErrorGood(t)
<1>1. ASSUME NEW j \in Jobs, CancelForDeletion(t, j)
      PROVE  ErrorGood(t)
  <2>1. \A s \in Tasks : task[s].role = "cancel" => task[s].job # j
    BY <1>1 DEF CancelForDeletion, At, IdsInv, ListsOK, CommandRoles
  <2>2. task'[t].role = "delete"
    BY <1>1 DEF CancelForDeletion, At, SerialInv, TypeOK, Task
  <2> QED
    BY <1>1, <2>1, <2>2, ListedErrors DEF CancelForDeletion, Unerred
<1>2. CASE RemoveInstance(t)
  <2>1. task'[t] = IdleTask /\ UNCHANGED dismissed
    BY <1>2 DEF RemoveInstance, Return, SerialInv, TypeOK
  <2>2. RowsKept
    <3>1. CASE UNCHANGED row
      BY <3>1 DEF RowsKept
    <3>2. CASE Exists(task[t].js.id) /\ DropInstance(task[t].js.id)
      BY <3>2, DropDrops DEF SerialInv, Exists, RowsKept, Drops
    <3> QED
      BY <1>2, <3>1, <3>2 DEF RemoveInstance
  <2> QED
    BY <2>1, <2>2, RowsKeepErrors DEF ErrorGood, Unerred, IdleTask
<1> QED
  BY <1>1, <1>2, ClaimCancelErrors, FinishCancelErrors DEF Removal

LEMMA StepErrors ==
    ASSUME SerialInv, IdsInv, ErrorInv, NEW t \in Tasks, Step(t)
    PROVE  ErrorGood(t) \/ Recovered(t) \/ \E j \in Jobs : Recover(t, j)
<1>1. ASSUME NEW j \in Jobs, RecoverDeleted(t, j)
      PROVE  ErrorGood(t)
  <2>1. task[t].role = "recover" /\ j \in task[t].left
    BY <1>1 DEF RecoverDeleted, At
  <2>2. IsActive(j)
    BY <2>1 DEF SerialInv, LeftToRecover
  <2>3. \A s \in Tasks : task[s].role # "cancel"
    BY <2>1, RecoveryAlone
  <2>4. task'[t].role = "recover"
    BY <1>1 DEF RecoverDeleted, At, SerialInv, TypeOK, Task
  <2> QED
    BY <1>1, <2>2, <2>3, <2>4, ListedErrors DEF RecoverDeleted, Unerred
<1> QED
  BY <1>1, SetupErrors, RunErrors, UndoErrors, RemovalErrors DEF Step, Recovery

LEMMA IdlingErrors ==
    ASSUME ErrorInv, UNCHANGED <<row, dismissed>>,
           \A s \in Tasks : task'[s] \in {task[s], IdleTask}
    PROVE  ErrorInv'
<1>1. IdleTask.role = "idle"
  BY DEF IdleTask
<1> QED
  BY <1>1 DEF ErrorInv, ErrorsRetriable, DismissedCanceled, Unerred

\* A command begins, or recovery goes on to the next job.
LEMMA BeginErrors ==
    ASSUME SerialInv, ErrorInv, NEW t \in Tasks, Others(t), UNCHANGED dismissed,
           \A k \in Jobs :
               \/ row'[k] = row[k]
               \/ row[k].status = "absent" /\ ~row'[k].js.rberr,
           Unerred(task[t])',
           task'[t].role = "cancel" => row[task'[t].job].status = "queued"
    PROVE  ErrorInv'
<1>1. ErrorsRetriable'
  BY DEF ErrorInv, ErrorsRetriable
<1>2. \A s \in Tasks : Unerred(task[s])'
  BY DEF Others, ErrorInv, Unerred
<1>3. "dismiss" \notin Commands =>
        \A j \in dismissed : j \in Jobs /\ row[j].status = "canceled"
  BY DEF SerialInv, TypeOK, ErrorInv, DismissedCanceled
<1>4. "dismiss" \notin Commands => DismissedCanceled'
  BY <1>3 DEF Others, ErrorInv, DismissedCanceled
<1> QED
  BY <1>1, <1>2, <1>4 DEF ErrorInv

LEMMA CommandErrors ==
    ASSUME SerialInv, ErrorInv, NEW t \in Tasks, Command(t)
    PROVE  ErrorInv'
<1>1. ASSUME NEW j \in Jobs, NEW kind \in Kinds, NEW id \in Instances \cup {None},
             Start(t, j, kind, id)
      PROVE  ErrorInv'
  <2>1. /\ row[j].status = "absent" /\ row'[j].js = NewState(id)
        /\ \A k \in Jobs \ {j} : row'[k] = row[k]
        /\ UNCHANGED dismissed
    BY <1>1 DEF Start, SerialInv, TypeOK
  <2>2. Others(t) /\ task'[t].role = "setup" /\ task'[t].js = NewState(id)
    BY <1>1 DEF Start, SerialInv, TypeOK, Others, IdleTask, Task
  <2> QED
    BY <2>1, <2>2, BeginErrors DEF Unerred, NewState
<1>2. ASSUME NEW j \in Jobs, Retry(t, j) PROVE ErrorInv'
  <2>1. Others(t) /\ task'[t].role = "retry"
    BY <1>2 DEF Retry, SerialInv, TypeOK, Others, IdleTask, Task
  <2> QED
    BY <1>2, <2>1, BeginErrors DEF Retry, Unerred
<1>3. ASSUME NEW j \in Jobs, Cancel(t, j) PROVE ErrorInv'
  <2>1. /\ Others(t) /\ task'[t].role = "cancel" /\ task'[t].pc = "claim"
        /\ task'[t].job = j /\ task'[t].js = row[j].js
        /\ UNCHANGED <<row, dismissed>> /\ row[j].status = "queued"
    BY <1>3 DEF Cancel, SerialInv, TypeOK, Others, IdleTask, Task
  <2>2. ~row[j].js.rberr
    BY <2>1 DEF ErrorInv, ErrorsRetriable, Retriable
  <2> QED
    BY <2>1, <2>2, BeginErrors DEF Unerred
<1>4. ASSUME NEW i \in Instances, Delete(t, i) PROVE ErrorInv'
  <2>1. Others(t) /\ task'[t].role = "delete"
    BY <1>4 DEF Delete, SerialInv, TypeOK, Others, IdleTask, Task
  <2> QED
    BY <1>4, <2>1, BeginErrors DEF Delete, Unerred
<1> QED
  BY <1>1, <1>2, <1>3, <1>4 DEF Command

LEMMA ErrorNext ==
    ASSUME Serial, SerialInv, SerialInv', IdsInv, ErrorInv, [Next]_vars
    PROVE  ErrorInv'
<1>1. CASE UNCHANGED vars
  BY <1>1, IdlingErrors DEF vars
<1>2. CASE Crash
  BY <1>2, IdlingErrors DEF Crash
<1>3. ASSUME NEW j \in Jobs, Dismiss(j) PROVE ErrorInv'
  BY <1>3 DEF Dismiss, ErrorInv, ErrorsRetriable, Unerred
<1>4. ASSUME NEW t \in Tasks, Boot(t) PROVE ErrorInv'
  <2>1. Others(t) /\ task'[t].role = "recover"
    BY <1>4 DEF Boot, SerialInv, TypeOK, Others, IdleTask, Task
  <2> QED
    BY <1>4, <2>1, BeginErrors DEF Boot, Unerred
<1>5. ASSUME NEW t \in Tasks, Command(t) PROVE ErrorInv'
  BY <1>5, CommandErrors
<1>6. ASSUME NEW t \in Tasks, Step(t) PROVE ErrorInv'
  <2>1. CASE Recovered(t)
    BY <2>1, IdlingErrors DEF Recovered, Return, SerialInv, TypeOK
  <2>2. ASSUME NEW j \in Jobs, Recover(t, j) PROVE ErrorInv'
    <3>1. Others(t) /\ task'[t].role = "recover"
      BY <2>2 DEF Recover, At, SerialInv, TypeOK, Others, Task
    <3> QED
      BY <2>2, <3>1, BeginErrors DEF Recover, Unerred
  <2>3. CASE Good(t) /\ ErrorGood(t)
    BY <2>3, StepKeepsErrors DEF Good
  <2> QED
    BY <1>6, <2>1, <2>2, <2>3, StepGood, StepErrors
<1> QED
  BY <1>1, <1>2, <1>3, <1>4, <1>5, <1>6 DEF Next

LEMMA ErrorInit == Init => ErrorInv
BY DEF Init, ErrorInv, ErrorsRetriable, DismissedCanceled, Unerred, NewState,
    IdleTask

\* An update whose rollback failed stays with a job that can be retried, so the
\* retry can put the instance back: every command but the dismissal of a job
\* keeps it so, however the tasks interleave and wherever the app is closed, if
\* the lock that follows a preparation does not fail.
THEOREM RollbackErrorsStayRetriable ==
    ASSUME Serial, "lock" \notin Faults, "dismiss" \notin Commands
    PROVE  Spec => []RollbackErrorRetriable
<1> USE Serial
<1>1. Init => SerialInv /\ IdsInv /\ ErrorInv
  BY SerialInit, IdsInit, ErrorInit
<1>2. SerialInv /\ IdsInv /\ ErrorInv /\ [Next]_vars
        => (SerialInv /\ IdsInv /\ ErrorInv)'
  BY SerialNext, IdsNext, ErrorNext
<1>3. ErrorInv => RollbackErrorRetriable
  BY DEF ErrorInv, ErrorsRetriable, DismissedCanceled, Retriable,
         RollbackErrorRetriable
<1> QED
  BY <1>1, <1>2, <1>3, PTL DEF Spec

----------------------------------------------------------------------------
(* Every active job has somebody who will finish it, provided the removal   *)
(* of an instance never fails between its row and its directory.            *)

CancelUndoes(x) == x.role = "cancel" /\ x.pc \in {"cleanup", "finish"}

\* A task that finishes its job before it ends, if the job has this status.
Backs(x, status) ==
    \/ x.role = "stranded" /\ x.pc # "clear"
    \/ status = "queued" /\ x.role = "setup" /\ x.pc # "clear"
    \/ status = "queued" /\ Waiting(x)
    \/ status = "running" /\ x.role = "run" /\ ~Waiting(x) /\ x.pc # "clear"
    \/ status = "running" /\ CancelUndoes(x)

Backed == app = "up" =>
    \A j \in Jobs : IsActive(j) =>
        \E t \in Tasks : task[t].job = j /\ Backs(task[t], row[j].status)

\* Recovery still has the job before it, or is at it.
Recovers(x, j) == /\ x.role = "recover"
                  /\ j \in x.left \/ (x.job = j /\ x.pc # "clear")

RecoveryBacked == app = "recovering" =>
    \A j \in Jobs : IsActive(j) => \E t \in Tasks : Recovers(task[t], j)

\* The last statement of a cancel fails only when the instance that the job
\* created is gone, which takes a stranded worker that will finish the job.
CancelEnds == \A t \in Tasks :
    task[t].job # None /\ CancelUndoes(task[t]) /\ task[t].js.id # None =>
        \/ Exists(task[t].js.id)
        \/ /\ row[task[t].job].kind = "create"
           /\ \/ task[t].pc # "finish"
              \/ ~IsActive(task[t].job)
              \/ \E s \in Tasks : /\ task[s].job = task[t].job
                                  /\ task[s].role = "stranded"
                                  /\ task[s].pc # "clear"

\* A cancel has no backup to restore: its job never got to work.
CancelRestoresNot(x) == x.role = "cancel" => x.pc # "restoring"

BackedInv == /\ Backed /\ RecoveryBacked /\ CancelEnds
             /\ \A t \in Tasks : CancelRestoresNot(task[t])

----------------------------------------------------------------------------
(* What a step does for its job, and to the instances. *)

Answers(t) == \A j \in Jobs :
    row'[j].status \in Active =>
        \/ row'[j].status = row[j].status
        \/ task'[t].job = j /\ Backs(task'[t], row'[j].status)

Carries(t) == \A j \in Jobs :
    task[t].job = j /\ Backs(task[t], row[j].status)
    /\ row'[j].status \in Active =>
        \/ task'[t].job = j /\ Backs(task'[t], row'[j].status)
        \/ /\ At(t, "cancel", "finish") /\ ~FkOk(task[t].js.id)
           /\ UNCHANGED row

GoesOn(t) == \A j \in Jobs :
    Recovers(task[t], j) /\ row'[j].status \in Active => Recovers(task'[t], j)

CancelKnows(t) ==
    task'[t].job # None /\ CancelUndoes(task'[t]) /\ task'[t].js.id # None =>
        \/ Exists(task[t].js.id)'
        \/ row[task[t].job].kind = "create" /\ task'[t].pc # "finish"

RemovesOwn(t) == \A i \in Instances :
    Exists(i) =>
        \/ inst'[i] \in Stages
        \/ i = task[t].js.id /\ task[t].role = "delete"
        \/ /\ i = task[t].js.id /\ task[t].pc = "cleanup"
           /\ row[task[t].job].kind = "create"
           /\ task[t].role = "stranded" =>
                  /\ task'[t].role = "stranded" /\ task'[t].pc = "finish"
                  /\ task'[t].job = task[t].job

BackGood(t) == /\ Answers(t) /\ Carries(t) /\ GoesOn(t)
               /\ CancelKnows(t) /\ RemovesOwn(t)
               /\ CancelRestoresNot(task[t])'

LEMMA StepKeepsBacked ==
    ASSUME SerialInv, TypeOK', BackedInv, NEW t \in Tasks, Good(t), BackGood(t)
    PROVE  BackedInv'
<1> USE DEF Good, BackGood
<1>1. /\ \A s \in Tasks \ {t} : task'[s] = task[s]
      /\ None \notin Jobs \cup Instances
      /\ task'[t].job \in {None, task[t].job}
      /\ \A s \in Tasks : /\ task[s].job \in Jobs \cup {None}
                          /\ task[s].js.id \in Instances \cup {None}
      /\ app' = app
  BY ConstantsAssumption
  DEF Tame, Others, SerialInv, TypeOK, Task, JobState, Instances
<1>2. Backed'
  <2> SUFFICES ASSUME app = "up", NEW j \in Jobs, row'[j].status \in Active
               PROVE  \E s \in Tasks : task'[s].job = j
                                       /\ Backs(task'[s], row'[j].status)
    BY <1>1 DEF Backed, IsActive, Backs, Waiting, CancelUndoes
  <2>1. CASE row'[j].status = row[j].status
    <3>1. PICK s \in Tasks : task[s].job = j /\ Backs(task[s], row[j].status)
      BY <2>1 DEF BackedInv, Backed, IsActive
    <3>2. CASE s # t
      BY <1>1, <2>1, <3>1, <3>2
    <3>3. CASE s = t /\ At(t, "cancel", "finish") /\ ~FkOk(task[t].js.id)
      <4>1. CancelUndoes(task[t]) /\ task[t].js.id # None /\ task[t].pc = "finish"
        BY <3>3 DEF At, CancelUndoes, FkOk
      <4>2. PICK r \in Tasks : /\ task[r].job = j /\ task[r].role = "stranded"
                               /\ task[r].pc # "clear"
        BY <1>1, <2>1, <3>1, <3>3, <4>1
        DEF BackedInv, CancelEnds, FkOk, IsActive
      <4>3. r # t
        BY <3>3, <4>2 DEF At
      <4> QED
        BY <1>1, <4>2, <4>3 DEF Backs
    <3> QED
      BY <3>1, <3>2, <3>3 DEF Carries
  <2>2. CASE row'[j].status # row[j].status
    BY <2>2 DEF Answers
  <2> QED
    BY <2>1, <2>2
<1>3. RecoveryBacked'
  <2> SUFFICES ASSUME app = "recovering", NEW j \in Jobs, row'[j].status \in Active
               PROVE  Recovers(task'[t], j)
    BY <1>1 DEF RecoveryBacked, IsActive, Recovers
  <2>1. task[t].role = "recover"
    BY DEF Tame, SerialInv, RolesFitApp
  <2>2. row'[j].status = row[j].status
    <3>1. task'[t].job = j => task'[t].role = "recover"
      BY <1>1, <2>1 DEF Tame
    <3> QED
      BY <3>1 DEF Answers, Backs, Waiting, CancelUndoes
  <2>3. PICK s \in Tasks : Recovers(task[s], j)
    BY <2>2 DEF BackedInv, RecoveryBacked, IsActive
  <2>4. s = t
    BY <2>1, <2>3 DEF Recovers, SerialInv, RolesFitApp
  <2> QED
    BY <2>3, <2>4 DEF GoesOn
<1>4. CancelEnds'
  <2> SUFFICES ASSUME NEW s \in Tasks, NEW j \in Jobs, task'[s].job = j,
                      CancelUndoes(task'[s]), NEW i \in Instances,
                      task'[s].js.id = i, inst'[i] \notin Stages
               PROVE  /\ row'[j].kind = "create"
                      /\ \/ task'[s].pc # "finish"
                         \/ row'[j].status \notin Active
                         \/ \E r \in Tasks : /\ task'[r].job = j
                                             /\ task'[r].role = "stranded"
                                             /\ task'[r].pc # "clear"
    <3>1. \A s \in Tasks : /\ task'[s].job # None => task'[s].job \in Jobs
                           /\ task'[s].js.id # None => task'[s].js.id \in Instances
      BY DEF TypeOK, Task, JobState, Instances
    <3> QED
      BY <3>1 DEF CancelEnds, Exists, IsActive
  <2>1. row'[j].kind = row[j].kind
    BY DEF Polite, PoliteToJobs, TouchesOwn, TouchesOther
  <2>2. CASE s = t
    <3>1. task[t].job = j /\ j # None /\ i # None
      BY <1>1, <2>2
    <3>2. row[j].kind = "create" /\ task'[t].pc # "finish"
      BY <2>2, <3>1 DEF CancelKnows, Exists
    <3> QED
      BY <2>1, <2>2, <3>2
  <2>3. CASE s # t /\ Exists(i)
    <3>1. /\ task[s].job = j /\ task[s].js.id = i /\ j # None /\ i # None
          /\ task[s].role = "cancel" /\ Past(task[s])
      BY <1>1, <2>3 DEF CancelUndoes, Past
    <3>2. ~(i = task[t].js.id /\ task[t].role = "delete")
      BY <2>3, <3>1 DEF SerialInv, Separate, DeletesAlone, CommandRoles
    <3>3. /\ i = task[t].js.id /\ task[t].pc = "cleanup"
          /\ row[task[t].job].kind = "create"
          /\ task[t].role = "stranded" =>
                 /\ task'[t].role = "stranded" /\ task'[t].pc = "finish"
                 /\ task'[t].job = task[t].job
      BY <2>3, <3>2 DEF RemovesOwn
    <3>4. task[t].job # None
      BY <3>3, Acting
    <3>5. task[t].job = j
      BY <3>1, <3>3, <3>4 DEF SerialInv, Separate, TasksApart
    <3>6. Paired(task[s], task[t])
      BY <2>3, <3>1, <3>5 DEF SerialInv, Separate, Company
    <3>7. task[t].role = "stranded"
      BY <3>1, <3>3, <3>6 DEF Paired, Past, Waiting
    <3> QED
      BY <2>1, <3>3, <3>5, <3>7
  <2>4. CASE s # t /\ ~Exists(i)
    <3>1. /\ task[s].job = j /\ task[s].js.id = i /\ j # None /\ i # None
          /\ task[s].role = "cancel" /\ CancelUndoes(task[s])
          /\ task'[s] = task[s]
      BY <1>1, <2>4 DEF CancelUndoes
    <3>2. /\ row[j].kind = "create"
          /\ \/ task[s].pc # "finish"
             \/ ~IsActive(j)
             \/ \E r \in Tasks : /\ task[r].job = j
                                 /\ task[r].role = "stranded"
                                 /\ task[r].pc # "clear"
      BY <2>4, <3>1 DEF BackedInv, CancelEnds
    <3>3. ASSUME ~IsActive(j) PROVE row'[j].status \notin Active
      <4>1. CASE task[t].job = j
        <5>1. Paired(task[s], task[t])
          BY <2>4, <3>1, <4>1 DEF SerialInv, Separate, Company
        <5>2. task[t].role # "retry"
          BY <5>1 DEF Paired
        <5> QED
          BY <3>3, <4>1, <5>2 DEF Polite, PoliteToJobs, TouchesOwn
      <4>2. CASE task[t].job # j
        BY <3>3, <4>2 DEF Polite, PoliteToJobs, TouchesOther, IsActive
      <4> QED
        BY <4>1, <4>2
    <3>4. ASSUME row'[j].status \in Active, task[t].job = j,
                 task[t].role = "stranded", task[t].pc # "clear"
          PROVE  /\ task'[t].job = j /\ task'[t].role = "stranded"
                 /\ task'[t].pc # "clear"
      <4>1. task'[t].job = j /\ Backs(task'[t], row'[j].status)
        BY <3>4 DEF Carries, Backs, At
      <4>2. task'[t].role = "stranded"
        BY <3>1, <3>4, <4>1 DEF Tame
      <4> QED
        BY <4>1, <4>2 DEF Backs, Waiting, CancelUndoes
    <3> QED
      BY <1>1, <2>1, <3>1, <3>2, <3>3, <3>4
  <2> QED
    BY <2>2, <2>3, <2>4
<1>5. \A s \in Tasks : CancelRestoresNot(task[s])'
  BY <1>1 DEF BackedInv, CancelRestoresNot
<1> QED
  BY <1>2, <1>3, <1>4, <1>5 DEF BackedInv

----------------------------------------------------------------------------
(* The steps, by what they do to the task.  No instance but the task's own   *)
(* goes, and only a job that is taken, put back or finished changes status. *)

ExistsKept == \A i \in Instances : Exists(i) => inst'[i] \in Stages

LEMMA SameExists ==
    ASSUME UNCHANGED inst
    PROVE  ExistsKept
BY DEF ExistsKept, Exists

LEMMA StageExists ==
    ASSUME TypeOK, NEW id, NEW stage \in Stages, inst' = WithStage(id, stage)
    PROVE  ExistsKept
BY StageSet DEF ExistsKept, Exists

\* A setup or a worker goes on, waiting as before or at work as before, or a
\* worker is stranded.
LEMMA StayBack ==
    ASSUME SerialInv, NEW t \in Tasks, task[t].job \in Jobs, StatusesKept,
           ExistsKept, NEW role \in {"setup", "run", "stranded"}, NEW pc, NEW js,
           role = task[t].role \/ (role = "stranded" /\ task[t].role = "run"),
           role = "run" => (Waiting(task[t]) <=> pc \in {"read", "acquire", "claim"}),
           pc # "clear", Moves(t, role, pc, js)
    PROVE  BackGood(t)
<1> USE DEF Moves
<1>1. Answers(t) /\ GoesOn(t)
  BY DEF Answers, GoesOn, Recovers, StatusesKept
<1>2. Carries(t)
  BY DEF Carries, Backs, Waiting, CancelUndoes, StatusesKept
<1>3. CancelKnows(t) /\ RemovesOwn(t) /\ CancelRestoresNot(task[t])'
  BY DEF CancelKnows, CancelUndoes, RemovesOwn, ExistsKept, CancelRestoresNot
<1> QED
  BY <1>1, <1>2, <1>3 DEF BackGood

\* A task leaves a job that it does not back, or that is no longer active.
LEMMA LeaveBack ==
    ASSUME SerialInv, NEW t \in Tasks, NEW j \in Jobs, task[t].job = j,
           StatusesKept, ExistsKept,
           ~IsActive(j) \/ ~Backs(task[t], row[j].status),
           \/ task[t].role # "recover" /\ Idles(t)
           \/ task[t].role = "recover" /\ Proceeds(t) /\ ~IsActive(j)
    PROVE  BackGood(t)
<1>1. None \notin Jobs
  BY ConstantsAssumption
<1>2. Answers(t) /\ Carries(t)
  BY DEF Answers, Carries, StatusesKept, IsActive
<1>3. GoesOn(t)
  BY DEF GoesOn, Recovers, Proceeds, StatusesKept, IsActive
<1>4. CancelKnows(t) /\ RemovesOwn(t) /\ CancelRestoresNot(task[t])'
  BY DEF Idles, Proceeds, CancelKnows, RemovesOwn, ExistsKept,
         CancelRestoresNot
<1> QED
  BY <1>2, <1>3, <1>4 DEF BackGood

\* A task finishes its job.
LEMMA EndBack ==
    ASSUME SerialInv, NEW t \in Tasks, NEW j \in Jobs, task[t].job = j, ExistsKept,
           NEW status \in Finished, NEW js, Writes(j, status, js),
           NEW js2,
           \/ Moves(t, task[t].role, "clear", js2)
           \/ task[t].role = "recover" /\ Proceeds(t)
           \/ task[t].role # "recover" /\ Idles(t)
    PROVE  BackGood(t)
<1>1. /\ row'[j].status \notin Active
      /\ \A k \in Jobs : row'[k].status \in Active =>
            k # j /\ row'[k].status = row[k].status
  BY DEF Writes, Finished, Active
<1>2. Answers(t) /\ Carries(t)
  BY <1>1 DEF Answers, Carries
<1>3. GoesOn(t)
  BY <1>1 DEF GoesOn, Recovers, Moves, Proceeds
<1>4. CancelKnows(t) /\ RemovesOwn(t) /\ CancelRestoresNot(task[t])'
  BY DEF Idles, Proceeds, Moves, CancelKnows, CancelUndoes, RemovesOwn,
         ExistsKept, CancelRestoresNot
<1> QED
  BY <1>2, <1>3, <1>4 DEF BackGood

LEMMA SetupBack ==
    ASSUME SerialInv, NEW t \in Tasks, Setup(t)
    PROVE  BackGood(t)
<1> USE Acting DEF At
<1>1. CASE Requeue(t)
  <2> DEFINE id == IF row[task[t].job].kind = "create" THEN None ELSE task[t].js.id
  <2>1. task[t].role = "retry" /\ task[t].pc = "requeue" /\ UNCHANGED inst
    BY <1>1 DEF Requeue
  <2>2. ~Backs(task[t], row[task[t].job].status)
    BY <2>1 DEF Backs, Waiting, CancelUndoes
  <2>3. CASE Return(t) /\ UNCHANGED row
    BY <2>1, <2>2, <2>3, ReturnIdles, LeaveBack, SameExists DEF StatusesKept
  <2>4. CASE /\ row' = WithStatus(task[t].job, "queued", NewState(id))
             /\ task' = [task EXCEPT ![t].role = "setup", ![t].pc = "prepare",
                                     ![t].js = NewState(id)]
    <3> HIDE DEF id
    <3>1. Moves(t, "setup", "prepare", NewState(id))
      BY <2>1, <2>4 DEF Moves, Others, TypeOK, Task
    <3>2. Writes(task[t].job, "queued", NewState(id))
      BY <2>1, <2>4, WithStatusWrites
    <3>3. Answers(t) /\ Carries(t)
      BY <2>1, <2>2, <3>1, <3>2
      DEF Moves, Writes, Answers, Carries, Backs, Waiting, CancelUndoes
    <3>4. GoesOn(t) /\ CancelKnows(t) /\ RemovesOwn(t)
          /\ CancelRestoresNot(task[t])'
      BY <2>1, <3>1, SameExists
      DEF Moves, GoesOn, Recovers, CancelKnows, CancelUndoes, RemovesOwn,
          ExistsKept, CancelRestoresNot
    <3> QED
      BY <3>3, <3>4 DEF BackGood
  <2> QED
    BY <1>1, <2>3, <2>4 DEF Requeue
<1>2. CASE PrepareNew(t)
  <2>1. task[t].role = "setup" /\ task[t].pc = "prepare" /\ UNCHANGED row
    BY <1>2 DEF PrepareNew
  <2>2. ExistsKept
    BY <1>2, <2>1 DEF PrepareNew, ExistsKept, Exists, TypeOK, Stages, Instances
  <2>3. ASSUME NEW pc \in {"persist", "cleanup"}, NEW js,
               Moves(t, "setup", pc, js)
        PROVE  BackGood(t)
    BY <2>1, <2>2, <2>3, StayBack DEF StatusesKept
  <2>4. ASSUME NEW i, NEW ok, GotoWith(t, IF ok THEN "persist" ELSE "cleanup",
                                       [task[t].js EXCEPT !.id = i])
        PROVE  BackGood(t)
    <3>1. Moves(t, "setup", IF ok THEN "persist" ELSE "cleanup",
                [task[t].js EXCEPT !.id = i])
      BY <2>1, <2>4, GotoWithMoves
    <3> QED
      BY <2>3, <3>1
  <2>5. CASE Goto(t, "cleanup")
    BY <2>1, <2>3, <2>5, GotoMoves
  <2> QED
    BY <1>2, <2>4, <2>5 DEF PrepareNew
<1>3. CASE PrepareExisting(t)
  <2>1. task[t].role = "setup" /\ task[t].pc = "prepare" /\ UNCHANGED <<row, inst>>
    BY <1>3 DEF PrepareExisting
  <2>2. PICK pc \in {"persist", "cleanup"} :
            \E js : Moves(t, "setup", pc, js)
    BY <1>3, <2>1, GotoMoves, GotoWithMoves DEF PrepareExisting
  <2> QED
    BY <2>1, <2>2, SameExists, StayBack DEF StatusesKept
<1>4. CASE Persist(t)
  <2>1. task[t].role = "setup" /\ task[t].pc = "persist" /\ UNCHANGED inst
    BY <1>4 DEF Persist
  <2>2. PICK pc \in {"lock", "cleanup"} : Moves(t, "setup", pc, task[t].js)
    BY <1>4, <2>1, GotoMoves DEF Persist
  <2>3. StatusesKept
    BY <1>4, <2>1, UpdatedWrites, WriteStatuses DEF Persist, StatusesKept
  <2> QED
    BY <2>1, <2>2, <2>3, SameExists, StayBack
<1>5. CASE LockAndSpawn(t)
  <2>1. /\ task[t].role = "setup" /\ task[t].pc = "lock" /\ UNCHANGED row
        /\ inst' \in {inst, WithStage(task[t].js.id, "installing")}
    BY <1>5 DEF LockAndSpawn
  <2>2. ExistsKept
    BY <2>1, SameExists, StageExists DEF Stages
  <2>3. CASE Moves(t, "setup", "cleanup", task[t].js)
    BY <2>1, <2>2, <2>3, StayBack DEF StatusesKept
  <2>4. CASE /\ task'[t].role = "run" /\ task'[t].pc = "read"
             /\ task'[t].job = task[t].job
    <3>1. Answers(t) /\ Carries(t)
      BY <2>1, <2>4 DEF Answers, Carries, Backs, Waiting, CancelUndoes
    <3>2. GoesOn(t) /\ CancelKnows(t) /\ RemovesOwn(t)
          /\ CancelRestoresNot(task[t])'
      BY <2>1, <2>2, <2>4
      DEF GoesOn, Recovers, CancelKnows, CancelUndoes, RemovesOwn,
          ExistsKept, CancelRestoresNot
    <3> QED
      BY <3>1, <3>2 DEF BackGood
  <2> QED
    BY <1>5, <2>3, <2>4, LockAndSpawnDoes
<1> QED
  BY <1>1, <1>2, <1>3, <1>4, <1>5 DEF Setup

LEMMA RunBack ==
    ASSUME SerialInv, NEW t \in Tasks, Run(t)
    PROVE  BackGood(t)
<1> USE Acting DEF At
<1>0. ExistsKept
  <2>1. CASE UNCHANGED inst
    BY <2>1, SameExists
  <2>2. CASE WorkNew(t)
    BY <2>2, StageExists, SameExists DEF WorkNew, Stages
  <2>3. CASE WorkExisting(t)
    BY <2>3, StageExists, SameExists DEF WorkExisting, Stages
  <2>4. CASE Install(t)
    <3>1. task[t].prev \in Stages
      BY <2>4 DEF Install, TypeOK, Task, WellFormed
    <3> QED
      BY <2>4, <3>1, StageExists, SameExists DEF Install
  <2>5. CASE Succeed(t)
    BY <2>5, StageExists, SameExists DEF Succeed, Stages
  <2> QED
    BY <2>1, <2>2, <2>3, <2>4, <2>5
    DEF Run, RunRead, Acquire, Claim, Backup, SaveBackup, Reread, CheckStranded
<1>a. UNCHANGED row => StatusesKept
  BY DEF StatusesKept
<1>e. task[t].role = "run" => task[t].job \in Jobs
  <2>1. task[t].role = "run" => task[t].pc \notin {"idle", "list", "next"}
    BY DEF SerialInv, TasksPlaced, Placed, PermitPcs
  <2> QED
    BY <2>1
<1>b. ASSUME StatusesKept, task[t].role = "run",
             NEW pc \in PermitPcs \cup {"acquire"}, NEW js,
             Waiting(task[t]) <=> pc \in {"acquire", "claim"},
             pc # "clear", Moves(t, "run", pc, js)
      PROVE  BackGood(t)
  <2>1. pc # "read"
    BY DEF PermitPcs
  <2> QED
    BY <1>0, <1>b, <1>e, <2>1, StayBack
<1>c. ASSUME task[t].role = "run", Idles(t), UNCHANGED row,
             \/ Waiting(task[t]) /\ row[task[t].job].status # "queued"
             \/ ~Waiting(task[t]) /\ row[task[t].job].status # "running"
      PROVE  BackGood(t)
  <2>1. ~Backs(task[t], row[task[t].job].status)
    BY <1>c DEF Backs, CancelUndoes
  <2> QED
    BY <1>0, <1>a, <1>c, <1>e, <2>1, LeaveBack
<1>d. ASSUME task[t].role = "run", Strand(t), UNCHANGED row
      PROVE  BackGood(t)
  <2>1. Moves(t, "stranded", "check", task[t].js)
    BY <1>d, StrandMoves DEF SerialInv
  <2> QED
    BY <1>0, <1>a, <1>d, <1>e, <2>1, StayBack
<1>1. CASE RunRead(t)
  <2>1. task[t].role = "run" /\ task[t].pc = "read" /\ UNCHANGED row
    BY <1>1 DEF RunRead
  <2>2. \/ Idles(t) /\ row[task[t].job].status # "queued"
        \/ Moves(t, "run", "acquire", task[t].js)
    BY <1>1, <2>1, ReturnIdles, GotoMoves DEF RunRead
  <2> QED
    BY <1>a, <1>b, <1>c, <2>1, <2>2 DEF Waiting, PermitPcs
<1>2. CASE Acquire(t)
  <2>1. task[t].role = "run" /\ task[t].pc = "acquire" /\ UNCHANGED row
    BY <1>2 DEF Acquire
  <2>2. \/ Idles(t) /\ row[task[t].job].status # "queued"
        \/ Moves(t, "run", "claim", row[task[t].job].js)
    BY <1>2, <2>1, ReturnIdles, GotoWithMoves DEF Acquire
  <2> QED
    BY <1>a, <1>b, <1>c, <2>1, <2>2 DEF Waiting, PermitPcs
<1>3. CASE Claim(t)
  <2>1. task[t].role = "run" /\ task[t].pc = "claim" /\ Waiting(task[t])
    BY <1>3 DEF Claim, Waiting
  <2>2. CASE Return(t) /\ UNCHANGED row /\ row[task[t].job].status # "queued"
    BY <1>c, <2>1, <2>2, ReturnIdles
  <2>3. CASE Strand(t) /\ UNCHANGED row
    BY <1>d, <2>1, <2>3
  <2>4. CASE /\ row' = WithStatus(task[t].job, "running", task[t].js)
             /\ Goto(t, "work")
    <3>1. Moves(t, "run", "work", task[t].js)
      BY <2>1, <2>4, GotoMoves
    <3>2. Writes(task[t].job, "running", task[t].js)
      BY <2>1, <2>4, WithStatusWrites
    <3>3. Answers(t) /\ Carries(t)
      BY <2>1, <3>1, <3>2
      DEF Moves, Writes, Answers, Carries, Backs, Waiting
    <3>4. GoesOn(t) /\ CancelKnows(t) /\ RemovesOwn(t)
          /\ CancelRestoresNot(task[t])'
      BY <1>0, <2>1, <3>1
      DEF Moves, GoesOn, Recovers, CancelKnows, CancelUndoes, RemovesOwn,
          ExistsKept, CancelRestoresNot
    <3> QED
      BY <3>3, <3>4 DEF BackGood
  <2> QED
    BY <1>3, <2>2, <2>3, <2>4 DEF Claim
<1>4. CASE WorkNew(t)
  <2>1. task[t].role = "run" /\ task[t].pc = "work" /\ UNCHANGED row
    BY <1>4 DEF WorkNew
  <2>2. CASE Goto(t, "ended_err")
    BY <1>a, <1>b, <2>1, <2>2, GotoMoves DEF Waiting, PermitPcs
  <2>3. CASE task' = [task EXCEPT ![t].pc = "install", ![t].prev = inst[task[t].js.id]]
    <3>1. Moves(t, "run", "install", task[t].js)
      BY <2>1, <2>3 DEF Moves, Others, TypeOK, Task
    <3> QED
      BY <1>a, <1>b, <2>1, <3>1 DEF Waiting, PermitPcs
  <2> QED
    BY <1>4, <2>2, <2>3 DEF WorkNew
<1>5. CASE WorkExisting(t)
  <2>1. task[t].role = "run" /\ task[t].pc = "work"
    BY <1>5 DEF WorkExisting
  <2>2. CASE Goto(t, "ended_err") /\ UNCHANGED row
    BY <1>a, <1>b, <2>1, <2>2, GotoMoves DEF Waiting, PermitPcs
  <2>3. CASE Exists(task[t].js.id)
    <3> DEFINE js == [task[t].js EXCEPT
                         !.rb = IF @ = None THEN inst[task[t].js.id] ELSE @]
               pc == IF row[task[t].job].kind = "update" THEN "backup"
                     ELSE IF IsActive(task[t].job) THEN "install"
                     ELSE "ended_err"
    <3>1. /\ task' = [task EXCEPT ![t].pc = pc, ![t].js = js,
                                  ![t].prev = "installing"]
          /\ row' = IF IsActive(task[t].job) /\ row[task[t].job].kind # "update"
                    THEN Updated(task[t].job, js) ELSE row
      BY <1>5, <2>3 DEF WorkExisting
    <3>2. pc \in {"backup", "install", "ended_err"}
      OBVIOUS
    <3> HIDE DEF pc, js
    <3>3. Moves(t, "run", pc, js)
      BY <2>1, <3>1 DEF Moves, Others, TypeOK, Task
    <3>4. StatusesKept
      BY <1>a, <2>1, <3>1, UpdatedWrites, WriteStatuses
    <3> QED
      BY <1>b, <2>1, <3>2, <3>3, <3>4 DEF Waiting, PermitPcs
  <2> QED
    BY <1>5, <2>2, <2>3 DEF WorkExisting
<1>6. CASE Backup(t)
  <2>1. task[t].role = "run" /\ task[t].pc = "backup" /\ UNCHANGED row
    BY <1>6 DEF Backup
  <2>2. CASE Goto(t, "ended_err")
    BY <1>a, <1>b, <2>1, <2>2, GotoMoves DEF Waiting, PermitPcs
  <2>3. CASE GotoWith(t, "save", [task[t].js EXCEPT !.staging = TRUE])
    BY <1>a, <1>b, <2>1, <2>3, GotoWithMoves DEF Waiting, PermitPcs
  <2> QED
    BY <1>6, <2>2, <2>3 DEF Backup
<1>7. CASE SaveBackup(t)
  <2>1. task[t].role = "run" /\ task[t].pc = "save"
    BY <1>7 DEF SaveBackup
  <2>2. PICK pc \in {"install", "ended_err"} : Moves(t, "run", pc, task[t].js)
    BY <1>7, <2>1, GotoMoves DEF SaveBackup
  <2>3. StatusesKept
    BY <1>7, <1>a, <2>1, UpdatedWrites, WriteStatuses DEF SaveBackup
  <2> QED
    BY <1>b, <2>1, <2>2, <2>3 DEF Waiting, PermitPcs
<1>8. CASE Install(t)
  <2>1. task[t].role = "run" /\ task[t].pc = "install" /\ UNCHANGED row
    BY <1>8 DEF Install
  <2>2. PICK pc \in {"ended_ok", "ended_err"} : Moves(t, "run", pc, task[t].js)
    BY <1>8, <2>1, GotoMoves DEF Install
  <2> QED
    BY <1>a, <1>b, <2>1, <2>2 DEF Waiting, PermitPcs
<1>9. CASE Reread(t)
  <2>1. /\ task[t].role = "run" /\ task[t].pc \in {"ended_ok", "ended_err"}
        /\ UNCHANGED row /\ ~Waiting(task[t])
    BY <1>9 DEF Reread, Waiting
  <2>2. CASE Return(t) /\ row[task[t].job].status # "running"
    BY <1>c, <2>1, <2>2, ReturnIdles
  <2>3. ASSUME NEW pc \in {"succeed", "cleanup"}, NEW js, GotoWith(t, pc, js)
        PROVE  BackGood(t)
    <3>1. Moves(t, "run", pc, js)
      BY <2>1, <2>3, GotoWithMoves
    <3> QED
      BY <1>a, <1>b, <2>1, <3>1 DEF PermitPcs
  <2>4. ASSUME NEW pc \in {"succeed", "cleanup"}, Goto(t, pc)
        PROVE  BackGood(t)
    <3>1. Moves(t, "run", pc, task[t].js)
      BY <2>1, <2>4, GotoMoves
    <3> QED
      BY <1>a, <1>b, <2>1, <3>1 DEF PermitPcs
  <2> QED
    BY <1>9, <2>2, <2>3, <2>4 DEF Reread
<1>10. CASE Succeed(t)
  <2> DEFINE js == [task[t].js EXCEPT !.rberr = FALSE]
  <2>1. task[t].role = "run" /\ task[t].pc = "succeed" /\ ~Waiting(task[t])
    BY <1>10 DEF Succeed, Waiting
  <2>2. CASE Return(t) /\ UNCHANGED row /\ row[task[t].job].status # "running"
    BY <1>c, <2>1, <2>2, ReturnIdles
  <2>3. CASE Strand(t) /\ UNCHANGED row
    BY <1>d, <2>1, <2>3
  <2>4. CASE row' = WithStatus(task[t].job, "succeeded", js) /\ AfterFinish(t, js)
    <3> HIDE DEF js
    <3>1. Writes(task[t].job, "succeeded", js)
      BY <2>1, <2>4, WithStatusWrites
    <3>2. Idles(t) \/ Moves(t, "run", "clear", js)
      BY <2>1, <2>4, AfterFinishMoves
    <3> QED
      BY <1>0, <2>1, <3>1, <3>2, EndBack DEF Finished
  <2> QED
    BY <1>10, <2>2, <2>3, <2>4 DEF Succeed
<1>11. CASE CheckStranded(t)
  <2>1. task[t].role = "stranded" /\ task[t].pc = "check" /\ UNCHANGED row
    BY <1>11 DEF CheckStranded
  <2>2. CASE Return(t) /\ ~IsActive(task[t].job)
    BY <1>0, <1>a, <2>1, <2>2, ReturnIdles, LeaveBack
  <2>3. CASE GotoWith(t, "cleanup", row[task[t].job].js)
    BY <1>0, <1>a, <2>1, <2>3, GotoWithMoves, StayBack
  <2> QED
    BY <1>11, <2>2, <2>3 DEF CheckStranded, IsActive
<1> QED
  BY <1>1, <1>2, <1>3, <1>4, <1>5, <1>6, <1>7, <1>8, <1>9, <1>10, <1>11 DEF Run

\* A clean-up goes on, or is done: it takes away no instance but that of its
\* own job's creation, and a cancel knows of no instance that is gone.
LEMMA UndoneBack ==
    ASSUME SerialInv, NEW t \in Tasks, task[t].pc \in {"cleanup", "restoring"},
           StatusesKept, NEW pc \in {"restoring", "finish"}, NEW js,
           \A i \in Instances : Exists(i) =>
               \/ inst'[i] \in Stages
               \/ /\ i = task[t].js.id /\ task[t].pc = "cleanup"
                  /\ row[task[t].job].kind = "create" /\ pc = "finish",
           Moves(t, task[t].role, pc, js),
           task[t].role = "cancel" =>
               /\ pc = "finish"
               /\ js.id # None => js.id \in Instances /\ inst'[js.id] \in Stages
    PROVE  BackGood(t)
<1> USE Acting DEF Moves
<1>1. Answers(t) /\ GoesOn(t)
  BY DEF Answers, GoesOn, Recovers, StatusesKept
<1>2. Carries(t)
  BY DEF Carries, Backs, Waiting, CancelUndoes, StatusesKept
<1>3. CancelKnows(t)
  BY DEF CancelKnows, CancelUndoes, Exists
<1>4. RemovesOwn(t)
  BY DEF RemovesOwn
<1> QED
  BY <1>1, <1>2, <1>3, <1>4 DEF BackGood, CancelRestoresNot

LEMMA CleanedUpBack ==
    ASSUME SerialInv, NEW t \in Tasks, NEW ok \in BOOLEAN,
           task[t].pc \in {"cleanup", "restoring"}, CleanedUp(t, ok),
           StatusesKept,
           \A i \in Instances : Exists(i) =>
               \/ inst'[i] \in Stages
               \/ /\ i = task[t].js.id /\ task[t].pc = "cleanup"
                  /\ row[task[t].job].kind = "create",
           task[t].role = "cancel" =>
               \/ Undone(t, ok).id = None
               \/ task[t].js.id \in Instances /\ inst'[task[t].js.id] \in Stages
    PROVE  BackGood(t)
<1> USE Acting
<1>1. Undone(t, ok).id \in {None, task[t].js.id}
  BY UndoneState
<1>2. CASE task[t].role # "retry" /\ Moves(t, task[t].role, "finish", Undone(t, ok))
  BY <1>1, <1>2, UndoneBack
<1>3. CASE task[t].role = "retry"
  <2>1. ~Backs(task[t], row[task[t].job].status)
    BY <1>3 DEF Backs, Waiting, CancelUndoes
  <2>2. Idles(t) \/ Moves(t, "retry", "requeue", task[t].js)
    BY <1>3, CleanedUpMoves
  <2>3. Answers(t) /\ Carries(t) /\ GoesOn(t)
    BY <1>3, <2>1 DEF Answers, Carries, GoesOn, Recovers, StatusesKept
  <2>4. CancelKnows(t) /\ RemovesOwn(t) /\ CancelRestoresNot(task[t])'
    BY <1>3, <2>2 DEF Idles, Moves, CancelKnows, CancelUndoes, RemovesOwn,
                      CancelRestoresNot
  <2> QED
    BY <2>3, <2>4 DEF BackGood
<1> QED
  BY <1>2, <1>3, CleanedUpMoves

\* A cancel of a job that created no instance still has its instance.
LEMMA CancelHasInstance ==
    ASSUME SerialInv, BackedInv, NEW t \in Tasks, task[t].role = "cancel",
           task[t].pc \in {"cleanup", "restoring"}, task[t].js.id # None,
           row[task[t].job].kind # "create"
    PROVE  task[t].pc = "cleanup" /\ Exists(task[t].js.id)
BY Acting DEF BackedInv, CancelRestoresNot, CancelEnds, CancelUndoes

LEMMA CleanupBack ==
    ASSUME SerialInv, BackedInv, "directory" \notin Faults, NEW t \in Tasks,
           \/ RemoveNewInstance(t) \/ NothingToUndo(t) \/ RestoreStage(t)
           \/ BeginRestore(t) \/ EndRestore(t)
    PROVE  BackGood(t)
<1> USE Acting
<1>1. CASE RemoveNewInstance(t)
  <2>1. /\ task[t].pc = "cleanup" /\ task[t].js.id \in Instances
        /\ row[task[t].job].kind = "create" /\ Exists(task[t].js.id)
    BY <1>1 DEF RemoveNewInstance, Undoes, Exists
  <2>2. CASE DropInstance(task[t].js.id) /\ CleanedUp(t, TRUE)
    <3>1. Drops(task[t].js.id)
      BY <2>1, <2>2, DropDrops
    <3>2. StatusesKept /\ \A i \in Instances \ {task[t].js.id} : inst'[i] = inst[i]
      BY <3>1 DEF Drops, StatusesKept
    <3>3. Undone(t, TRUE).id = None
      BY <2>1, UndoneState
    <3> QED
      BY <2>1, <2>2, <3>2, <3>3, CleanedUpBack DEF Exists
  <2>3. CASE UNCHANGED <<row, inst>> /\ CleanedUp(t, FALSE)
    BY <2>1, <2>3, CleanedUpBack DEF Exists, StatusesKept
  <2> QED
    BY <1>1, <2>2, <2>3 DEF RemoveNewInstance, Outcome
<1>2. CASE NothingToUndo(t)
  <2>1. task[t].pc = "cleanup" /\ CleanedUp(t, TRUE) /\ UNCHANGED <<row, inst>>
    BY <1>2 DEF NothingToUndo, Undoes
  <2>2. row[task[t].job].kind = "create" => Undone(t, TRUE).id = None
    BY <2>1, UndoneState
  <2>3. row[task[t].job].kind # "create" => Undone(t, TRUE).id = task[t].js.id
    BY <2>1, UndoneState
  <2>4. task[t].role = "cancel" =>
          Undone(t, TRUE).id = None \/ Exists(task[t].js.id)
    BY <2>1, <2>2, <2>3, CancelHasInstance
  <2> QED
    BY <2>1, <2>4, CleanedUpBack DEF Exists, StatusesKept
<1>3. CASE RestoreStage(t)
  <2>1. /\ task[t].pc = "cleanup" /\ CleanedUp(t, TRUE) /\ UNCHANGED row
        /\ row[task[t].job].kind # "create" /\ task[t].js.rb \in Stages
        /\ inst' = WithStage(task[t].js.id, task[t].js.rb)
    BY <1>3 DEF RestoreStage, Undoes, TypeOK, Task, JobState
  <2>2. ExistsKept
    BY <2>1, StageExists
  <2>3. Undone(t, TRUE).id = task[t].js.id
    BY <2>1, UndoneState
  <2>4. task[t].role = "cancel" =>
          Undone(t, TRUE).id = None \/ Exists(task[t].js.id)
    BY <2>1, <2>3, CancelHasInstance
  <2> QED
    BY <2>1, <2>2, <2>4, CleanedUpBack DEF Exists, ExistsKept, StatusesKept
<1>4. CASE BeginRestore(t)
  <2>1. /\ task[t].pc = "cleanup" /\ UNCHANGED <<row, inst>>
        /\ row[task[t].job].kind = "update" /\ task[t].js.staging
    BY <1>4 DEF BeginRestore, Undoes, HasBackup
  <2>2. task[t].role # "cancel"
    BY <2>1 DEF RowFits
  <2>3. CASE CleanedUp(t, FALSE)
    BY <2>1, <2>2, <2>3, CleanedUpBack DEF Exists, StatusesKept
  <2>4. CASE Goto(t, "restoring")
    BY <2>1, <2>2, <2>4, GotoMoves, UndoneBack DEF Exists, StatusesKept
  <2> QED
    BY <1>4, <2>3, <2>4 DEF BeginRestore
<1>5. CASE EndRestore(t)
  <2>1. task[t].pc = "restoring" /\ UNCHANGED row
    BY <1>5 DEF EndRestore
  <2>2. task[t].role # "cancel"
    BY <2>1 DEF BackedInv, CancelRestoresNot
  <2>3. ExistsKept
    <3>1. task[t].js.rb \in Stages
      BY <2>1 DEF TypeOK, WellFormed, Task, JobState
    <3> QED
      BY <1>5, <3>1, StageExists, SameExists DEF EndRestore
  <2>4. PICK ok \in BOOLEAN : CleanedUp(t, ok)
    BY <1>5 DEF EndRestore
  <2> QED
    BY <2>1, <2>2, <2>3, <2>4, CleanedUpBack DEF ExistsKept, StatusesKept
<1> QED
  BY <1>1, <1>2, <1>3, <1>4, <1>5

LEMMA TerminalizeBack ==
    ASSUME SerialInv, NEW t \in Tasks, NEW status \in Finished,
           task[t].pc = "finish", Terminalize(t, status)
    PROVE  BackGood(t)
<1> USE Acting
<1>1. ExistsKept
  BY SameExists DEF Terminalize
<1>2. CASE IsActive(task[t].job)
  <2>1. Writes(task[t].job, status, task[t].js) /\ AfterFinish(t, task[t].js)
    BY <1>2, FinishActiveWrites DEF Terminalize
  <2> QED
    BY <1>1, <2>1, AfterFinishMoves, EndBack
<1>3. CASE ~IsActive(task[t].job)
  <2>1. UNCHANGED row /\ AfterFinish(t, NewState(None))
    BY <1>3, FinishActiveWrites DEF Terminalize
  <2>2. \/ task[t].role = "recover" /\ Proceeds(t)
        \/ task[t].role # "recover" /\ Idles(t)
    BY <2>1, AfterFinishMoves DEF NewState
  <2> QED
    BY <1>1, <1>3, <2>1, <2>2, LeaveBack DEF StatusesKept
<1> QED
  BY <1>2, <1>3

LEMMA UndoBack ==
    ASSUME SerialInv, BackedInv, "directory" \notin Faults, NEW t \in Tasks,
           Undo(t)
    PROVE  BackGood(t)
<1>1. CASE ClearStaging(t)
  <2> USE Acting
  <2>1. /\ task[t].pc = "clear" /\ UNCHANGED <<row, inst>>
        /\ AfterFinish(t, NewState(None))
    BY <1>1 DEF ClearStaging
  <2>2. \/ task[t].role = "recover" /\ Proceeds(t)
        \/ task[t].role # "recover" /\ Idles(t)
    BY <2>1, AfterFinishMoves DEF NewState
  <2>3. ~IsActive(task[t].job)
    BY <2>1 DEF RowFits
  <2> QED
    BY <2>1, <2>2, <2>3, SameExists, LeaveBack DEF StatusesKept
<1> QED
  BY <1>1, CleanupBack, TerminalizeBack
  DEF Undo, FailJob, InterruptJob, At, Finished

LEMMA CancelBack ==
    ASSUME SerialInv, NEW t \in Tasks, ClaimCancel(t) \/ FinishCancel(t)
    PROVE  BackGood(t)
<1> USE Acting DEF At
<1>0. task[t].role = "cancel" /\ ExistsKept
  BY SameExists DEF ClaimCancel, FinishCancel
<1>1. CASE ClaimCancel(t)
  <2>1. task[t].pc = "claim" /\ UNCHANGED inst
    BY <1>1 DEF ClaimCancel
  <2>2. CASE Return(t) /\ UNCHANGED row
    <3>1. ~Backs(task[t], row[task[t].job].status)
      BY <1>0, <2>1 DEF Backs, Waiting, CancelUndoes
    <3> QED
      BY <1>0, <2>1, <2>2, <3>1, ReturnIdles, LeaveBack DEF StatusesKept
  <2>3. CASE /\ row' = WithStatus(task[t].job, "running", task[t].js)
             /\ Goto(t, "cleanup") /\ FkOk(task[t].js.id)
    <3>1. Moves(t, "cancel", "cleanup", task[t].js)
      BY <1>0, <2>1, <2>3, GotoMoves
    <3>2. Writes(task[t].job, "running", task[t].js)
      BY <2>1, <2>3, WithStatusWrites
    <3>3. Answers(t) /\ Carries(t)
      BY <1>0, <2>1, <3>1, <3>2
      DEF Moves, Writes, Answers, Carries, Backs, CancelUndoes
    <3>4. CancelKnows(t)
      BY <2>1, <2>3, <3>1 DEF Moves, CancelKnows, FkOk, Exists
    <3>5. GoesOn(t) /\ RemovesOwn(t) /\ CancelRestoresNot(task[t])'
      BY <1>0, <3>1
      DEF Moves, GoesOn, Recovers, RemovesOwn, ExistsKept, CancelRestoresNot
    <3> QED
      BY <3>3, <3>4, <3>5 DEF BackGood
  <2> QED
    BY <1>1, <2>2, <2>3 DEF ClaimCancel
<1>2. CASE FinishCancel(t)
  <2>1. task[t].pc = "finish"
    BY <1>2 DEF FinishCancel
  <2>2. CASE ~FkOk(task[t].js.id) /\ Return(t) /\ UNCHANGED row
    <3>1. Idles(t)
      BY <2>1, <2>2, ReturnIdles
    <3>2. Answers(t) /\ Carries(t) /\ GoesOn(t)
      BY <1>0, <2>1, <2>2 DEF Answers, Carries, GoesOn, Recovers
    <3>3. CancelKnows(t) /\ RemovesOwn(t) /\ CancelRestoresNot(task[t])'
      BY <1>0, <3>1 DEF Idles, CancelKnows, RemovesOwn, ExistsKept,
                        CancelRestoresNot
    <3> QED
      BY <3>2, <3>3 DEF BackGood
  <2>3. ASSUME NEW status \in {"failed", "canceled"},
               row' = WithStatus(task[t].job, status, task[t].js),
               AfterFinish(t, task[t].js)
        PROVE  BackGood(t)
    <3>1. Writes(task[t].job, status, task[t].js)
      BY <2>1, <2>3, WithStatusWrites
    <3> QED
      BY <1>0, <2>1, <2>3, <3>1, AfterFinishMoves, EndBack DEF Finished
  <2> QED
    BY <1>2, <2>2, <2>3 DEF FinishCancel
<1> QED
  BY <1>1, <1>2

LEMMA RemovalBack ==
    ASSUME SerialInv, NEW t \in Tasks, Removal(t)
    PROVE  BackGood(t)
<1>1. ASSUME NEW j \in Jobs, CancelForDeletion(t, j)
      PROVE  BackGood(t)
  <2>1. /\ task[t].role = "delete" /\ TypeOK /\ UNCHANGED inst
        /\ row' = FinishActive(j, "canceled", row[j].js)
        /\ task[t].job = None /\ None \notin Jobs
    BY <1>1, ConstantsAssumption
    DEF CancelForDeletion, At, SerialInv, TasksPlaced, Placed
  <2>2. task'[t].role = "delete"
    BY <1>1, <2>1 DEF CancelForDeletion, TypeOK, Task
  <2>3. \A k \in Jobs : row'[k].status \in {row[k].status, "canceled"}
    BY <2>1, FinishActiveWrites DEF Writes
  <2>4. Answers(t) /\ Carries(t) /\ GoesOn(t)
    BY <2>1, <2>3 DEF Answers, Carries, GoesOn, Recovers, Active
  <2>5. CancelKnows(t) /\ RemovesOwn(t) /\ CancelRestoresNot(task[t])'
    BY <2>1, <2>2, SameExists
    DEF CancelKnows, CancelUndoes, RemovesOwn, ExistsKept, CancelRestoresNot
  <2> QED
    BY <2>4, <2>5 DEF BackGood
<1>2. CASE RemoveInstance(t)
  <2>1. /\ task[t].role = "delete" /\ TypeOK
        /\ task[t].job = None /\ None \notin Jobs
    BY <1>2, ConstantsAssumption
    DEF RemoveInstance, At, SerialInv, TasksPlaced, Placed
  <2>2. Idles(t)
    BY <1>2, <2>1, ReturnIdles DEF RemoveInstance
  <2>3. /\ StatusesKept
        /\ \A i \in Instances : Exists(i) =>
               inst'[i] \in Stages \/ i = task[t].js.id
    <3>1. CASE UNCHANGED <<row, inst>>
      BY <3>1 DEF StatusesKept, Exists
    <3>2. CASE Exists(task[t].js.id) /\ DropInstance(task[t].js.id)
      BY <2>1, <3>2, DropDrops DEF Exists, Drops, StatusesKept
    <3> QED
      BY <1>2, <3>1, <3>2 DEF RemoveInstance
  <2>4. Answers(t) /\ Carries(t) /\ GoesOn(t)
    BY <2>1, <2>3 DEF Answers, Carries, GoesOn, Recovers, StatusesKept
  <2>5. CancelKnows(t) /\ RemovesOwn(t) /\ CancelRestoresNot(task[t])'
    BY <2>1, <2>2, <2>3
    DEF Idles, CancelKnows, RemovesOwn, CancelRestoresNot
  <2> QED
    BY <2>4, <2>5 DEF BackGood
<1> QED
  BY <1>1, <1>2, CancelBack DEF Removal

LEMMA RecoverDeletedBack ==
    ASSUME SerialInv, NEW t \in Tasks, NEW j \in Jobs, RecoverDeleted(t, j)
    PROVE  BackGood(t)
<1>1. /\ task[t].role = "recover" /\ j \in task[t].left /\ TypeOK
      /\ row' = FinishActive(j, "canceled", row[j].js) /\ UNCHANGED inst
      /\ task' = [task EXCEPT ![t].left = @ \ {j}]
      /\ task[t].job = None /\ None \notin Jobs
  BY ConstantsAssumption
  DEF RecoverDeleted, At, SerialInv, TasksPlaced, Placed, Undoing
<1>2. /\ task'[t].role = "recover" /\ task'[t].left = task[t].left \ {j}
      /\ task'[t].job = None
  BY <1>1 DEF TypeOK, Task
<1>3. IsActive(j)
  BY <1>1 DEF SerialInv, LeftToRecover
<1>4. Writes(j, "canceled", row[j].js)
  BY <1>1, <1>3, FinishActiveWrites
<1>5. Answers(t) /\ Carries(t) /\ GoesOn(t)
  BY <1>1, <1>2, <1>4
  DEF Writes, Answers, Carries, GoesOn, Recovers, Active
<1>6. CancelKnows(t) /\ RemovesOwn(t) /\ CancelRestoresNot(task[t])'
  BY <1>1, <1>2, SameExists
  DEF CancelKnows, RemovesOwn, ExistsKept, CancelRestoresNot
<1> QED
  BY <1>5, <1>6 DEF BackGood

LEMMA StepBack ==
    ASSUME SerialInv, BackedInv, "directory" \notin Faults, NEW t \in Tasks,
           Step(t)
    PROVE  BackGood(t) \/ Recovered(t) \/ \E j \in Jobs : Recover(t, j)
BY SetupBack, RunBack, UndoBack, RemovalBack, RecoverDeletedBack
DEF Step, Recovery

----------------------------------------------------------------------------
(* Recovery, the commands, and the rest of Next. *)

LEMMA RecoverKeepsBacked ==
    ASSUME SerialInv, BackedInv, NEW t \in Tasks, NEW j \in Jobs, Recover(t, j)
    PROVE  BackedInv'
<1>1. /\ task[t].role = "recover" /\ task[t].pc = "next" /\ TypeOK
      /\ task[t].job = None /\ None \notin Jobs /\ UNCHANGED <<row, app>>
  BY ConstantsAssumption
  DEF Recover, At, SerialInv, TasksPlaced, Placed, Undoing
<1>2. /\ Others(t) /\ task'[t].role = "recover" /\ task'[t].pc = "cleanup"
      /\ task'[t].job = j /\ task'[t].left = task[t].left \ {j}
  BY <1>1 DEF Recover, TypeOK, Task, Others
<1>3. /\ app = "recovering"
      /\ \A s \in Tasks : task'[s].role \in {"idle", "recover"}
      /\ \A s \in Tasks \ {t} : task[s].role = "idle"
  BY <1>1, <1>2, RecoveryAlone DEF Others
<1>4. RecoveryBacked'
  <2> SUFFICES ASSUME NEW k \in Jobs, row'[k].status \in Active
               PROVE  Recovers(task'[t], k)
    BY DEF RecoveryBacked, IsActive, Recovers
  <2>1. PICK s \in Tasks : Recovers(task[s], k)
    BY <1>1, <1>3 DEF BackedInv, RecoveryBacked, IsActive
  <2>2. s = t
    BY <1>3, <2>1 DEF Recovers
  <2> QED
    BY <1>1, <1>2, <2>1, <2>2 DEF Recovers
<1>5. Backed'
  BY <1>1, <1>3 DEF Backed
<1>6. CancelEnds' /\ \A s \in Tasks : CancelRestoresNot(task[s])'
  BY <1>3 DEF CancelEnds, CancelUndoes, CancelRestoresNot
<1> QED
  BY <1>4, <1>5, <1>6 DEF BackedInv

LEMMA RecoveredKeepsBacked ==
    ASSUME SerialInv, BackedInv, NEW t \in Tasks, Recovered(t)
    PROVE  BackedInv'
<1>1. /\ task[t].role = "recover" /\ task[t].left = {} /\ TypeOK
      /\ task[t].job = None /\ None \notin Jobs /\ UNCHANGED row
      /\ app' = "up" /\ Idles(t)
  BY ReturnIdles, ConstantsAssumption
  DEF Recovered, At, SerialInv, TasksPlaced, Placed, Undoing
<1>2. /\ app = "recovering"
      /\ \A s \in Tasks \ {t} : task[s].role = "idle"
  BY <1>1, RecoveryAlone
<1>3. \A j \in Jobs : ~IsActive(j)
  <2> SUFFICES ASSUME NEW j \in Jobs, IsActive(j) PROVE FALSE
    OBVIOUS
  <2>1. PICK s \in Tasks : Recovers(task[s], j)
    BY <1>2 DEF BackedInv, RecoveryBacked
  <2> QED
    BY <1>1, <1>2, <2>1 DEF Recovers
<1>4. \A s \in Tasks : task'[s].role = "idle"
  BY <1>1, <1>2 DEF Idles, Others
<1>5. Backed' /\ RecoveryBacked'
  BY <1>1, <1>3 DEF Backed, RecoveryBacked, IsActive
<1>6. CancelEnds' /\ \A s \in Tasks : CancelRestoresNot(task[s])'
  BY <1>4 DEF CancelEnds, CancelUndoes, CancelRestoresNot
<1> QED
  BY <1>5, <1>6 DEF BackedInv

LEMMA CrashKeepsBacked ==
    ASSUME Crash
    PROVE  BackedInv'
<1>1. /\ app' = "down"
      /\ \A s \in Tasks : task'[s].role = "idle"
  BY DEF Crash, IdleTask
<1> QED
  BY <1>1 DEF BackedInv, Backed, RecoveryBacked, CancelEnds, CancelUndoes,
              CancelRestoresNot

LEMMA BootKeepsBacked ==
    ASSUME SerialInv, NEW t \in Tasks, Boot(t)
    PROVE  BackedInv'
<1>1. /\ app = "down" /\ app' = "recovering" /\ UNCHANGED row /\ TypeOK
  BY DEF Boot, SerialInv
<1>2. /\ Others(t) /\ task'[t].role = "recover"
      /\ task'[t].left = {j \in Jobs : IsActive(j)}
  BY <1>1 DEF Boot, Others, TypeOK, IdleTask
<1>3. \A s \in Tasks : task'[s].role \in {"idle", "recover"}
  BY <1>1, <1>2 DEF SerialInv, RolesFitApp, Others
<1>4. RecoveryBacked'
  BY <1>1, <1>2 DEF RecoveryBacked, Recovers, IsActive
<1>5. Backed' /\ CancelEnds' /\ \A s \in Tasks : CancelRestoresNot(task[s])'
  BY <1>1, <1>3 DEF Backed, CancelEnds, CancelUndoes, CancelRestoresNot
<1> QED
  BY <1>4, <1>5 DEF BackedInv

\* Nothing changes but what the user has put aside.
LEMMA QuietKeepsBacked ==
    ASSUME BackedInv, UNCHANGED <<row, inst, task, app>>
    PROVE  BackedInv'
BY DEF BackedInv, Backed, RecoveryBacked, CancelEnds, CancelRestoresNot,
       IsActive, Exists

\* A command begins.
LEMMA BeginKeepsBacked ==
    ASSUME SerialInv, BackedInv, NEW t \in Tasks, UNCHANGED <<inst, app>>,
           app = "up", task[t].role = "idle", Others(t),
           task'[t].role \in CommandRoles, task'[t].role = "cancel" => task'[t].pc = "claim",
           \A k \in Jobs :
               \/ row'[k] = row[k]
               \/ /\ row[k].status = "absent"
                  /\ task'[t].job = k /\ Backs(task'[t], row'[k].status)
    PROVE  BackedInv'
<1>1. Backed'
  <2> SUFFICES ASSUME NEW j \in Jobs, row'[j].status \in Active
               PROVE  \E s \in Tasks : task'[s].job = j
                                       /\ Backs(task'[s], row'[j].status)
    BY DEF Backed, IsActive, Backs, Waiting, CancelUndoes
  <2>1. CASE row'[j] = row[j]
    <3>1. PICK s \in Tasks : task[s].job = j /\ Backs(task[s], row[j].status)
      BY <2>1 DEF BackedInv, Backed, IsActive
    <3>2. s # t
      BY <3>1 DEF Backs, Waiting, CancelUndoes
    <3> QED
      BY <2>1, <3>1, <3>2 DEF Others
  <2> QED
    BY <2>1
<1>2. CancelEnds'
  <2> SUFFICES ASSUME NEW s \in Tasks, task'[s].job # None,
                      CancelUndoes(task'[s]), task'[s].js.id # None,
                      ~Exists(task'[s].js.id)
               PROVE  /\ row'[task'[s].job].kind = "create"
                      /\ \/ task'[s].pc # "finish"
                         \/ row'[task'[s].job].status \notin Active
                         \/ \E r \in Tasks : /\ task'[r].job = task'[s].job
                                             /\ task'[r].role = "stranded"
                                             /\ task'[r].pc # "clear"
    BY DEF CancelEnds, Exists, IsActive
  <2>1. s # t
    BY DEF CancelUndoes
  <2>2. task'[s] = task[s]
    BY <2>1 DEF Others
  <2>3. /\ row[task[s].job].kind = "create"
        /\ \/ task[s].pc # "finish"
           \/ ~IsActive(task[s].job)
           \/ \E r \in Tasks : /\ task[r].job = task[s].job
                               /\ task[r].role = "stranded"
                               /\ task[r].pc # "clear"
    BY <2>2 DEF BackedInv, CancelEnds
  <2>4. row'[task[s].job] = row[task[s].job]
    BY <2>2, WaitsOrNot
  <2>5. \A r \in Tasks : task[r].role = "stranded" => task'[r] = task[r]
    BY DEF Others
  <2> QED
    BY <2>2, <2>3, <2>4, <2>5 DEF IsActive
<1>3. RecoveryBacked' /\ \A s \in Tasks : CancelRestoresNot(task[s])'
  BY DEF RecoveryBacked, Others, BackedInv, CancelRestoresNot
<1> QED
  BY <1>1, <1>2, <1>3 DEF BackedInv

LEMMA CommandKeepsBacked ==
    ASSUME SerialInv, BackedInv, NEW t \in Tasks, Command(t)
    PROVE  BackedInv'
<1>1. ASSUME NEW j \in Jobs, NEW kind \in Kinds, NEW id \in Instances \cup {None},
             Start(t, j, kind, id)
      PROVE  BackedInv'
  <2>1. /\ row[j].status = "absent" /\ row'[j].status = "queued"
        /\ \A k \in Jobs \ {j} : row'[k] = row[k]
        /\ UNCHANGED <<inst, app>> /\ app = "up" /\ task[t].role = "idle"
    BY <1>1 DEF Start, SerialInv, TypeOK
  <2>2. /\ Others(t) /\ task'[t].role = "setup" /\ task'[t].pc = "prepare"
        /\ task'[t].job = j
    BY <1>1 DEF Start, SerialInv, TypeOK, Others, IdleTask
  <2>3. Backs(task'[t], row'[j].status)
    BY <2>1, <2>2 DEF Backs
  <2> QED
    BY <2>1, <2>2, <2>3, BeginKeepsBacked DEF CommandRoles
<1>2. ASSUME NEW j \in Jobs, Retry(t, j) PROVE BackedInv'
  <2>1. Others(t) /\ task'[t].role = "retry"
    BY <1>2 DEF Retry, SerialInv, TypeOK, Others, IdleTask, Task
  <2> QED
    BY <1>2, <2>1, BeginKeepsBacked DEF Retry, CommandRoles
<1>3. ASSUME NEW j \in Jobs, Cancel(t, j) PROVE BackedInv'
  <2>1. Others(t) /\ task'[t].role = "cancel" /\ task'[t].pc = "claim"
    BY <1>3 DEF Cancel, SerialInv, TypeOK, Others, IdleTask, Task
  <2> QED
    BY <1>3, <2>1, BeginKeepsBacked DEF Cancel, CommandRoles
<1>4. ASSUME NEW i \in Instances, Delete(t, i) PROVE BackedInv'
  <2>1. Others(t) /\ task'[t].role = "delete"
    BY <1>4 DEF Delete, SerialInv, TypeOK, Others, IdleTask, Task
  <2> QED
    BY <1>4, <2>1, BeginKeepsBacked DEF Delete, CommandRoles
<1> QED
  BY <1>1, <1>2, <1>3, <1>4 DEF Command

LEMMA BackedNext ==
    ASSUME "directory" \notin Faults, SerialInv, TypeOK', BackedInv,
           [Next]_vars
    PROVE  BackedInv'
<1>1. ASSUME NEW t \in Tasks, Step(t) PROVE BackedInv'
  BY <1>1, StepGood, StepBack, StepKeepsBacked, RecoverKeepsBacked,
     RecoveredKeepsBacked
<1>2. ASSUME NEW t \in Tasks, Boot(t) PROVE BackedInv'
  BY <1>2, BootKeepsBacked
<1>3. ASSUME NEW j \in Jobs, Dismiss(j) PROVE BackedInv'
  BY <1>3, QuietKeepsBacked DEF Dismiss
<1>4. CASE UNCHANGED vars
  BY <1>4, QuietKeepsBacked DEF vars
<1> QED
  BY <1>1, <1>2, <1>3, <1>4, CommandKeepsBacked, CrashKeepsBacked DEF Next

LEMMA BackedInit == Init => BackedInv
BY DEF Init, BackedInv, Backed, RecoveryBacked, CancelEnds, CancelUndoes,
       CancelRestoresNot, IdleTask, IsActive, Active

\* However the commands of the app and its tasks interleave, and wherever it
\* is closed, no job is left active without a task that will finish it.
THEOREM ActiveJobsAreBacked ==
    ASSUME Serial, "directory" \notin Faults
    PROVE  Spec => []ActiveIsBacked
<1> USE Serial
<1>1. Init => SerialInv /\ BackedInv
  BY SerialInit, BackedInit
<1>2. SerialInv /\ BackedInv /\ [Next]_vars => (SerialInv /\ BackedInv)'
  BY SerialNext, BackedNext DEF SerialInv
<1>3. BackedInv => ActiveIsBacked
  BY DEF BackedInv, Backed, ActiveIsBacked, Backs, Waiting, CancelUndoes,
         Responsible
<1> QED
  BY <1>1, <1>2, <1>3, PTL DEF Spec

----------------------------------------------------------------------------
(* What the states that tasks and rows carry say of a rollback.            *)

\* Only an update has a staging directory, and then a stage to go back to; a
\* rollback fails at the removal of a new instance, or with a directory left.
Shaped(kind, js) ==
    /\ js.staging => kind = "update" /\ js.rb # None
    /\ js.rberr => kind = "create" \/ js.staging
    /\ kind = "create" => js.rb = None

\* A new instance that a failed job has removed is forgotten.
RowShaped(j) ==
    /\ Shaped(row[j].kind, row[j].js)
    /\ row[j].kind = "create" /\ row[j].status \in Retriable
       /\ ~row[j].js.rberr => row[j].js.id = None

RowsShaped == \A j \in Jobs : RowShaped(j)

Holding == {"claim", "work", "backup", "save", "install", "ended_ok",
            "ended_err", "cleanup", "restoring"}

\* Where a task goes by its own note of the staging directory.
Staging == {"install", "ended_ok", "ended_err", "cleanup", "restoring", "finish"}

\* What a task carries is what the active row of its job says.
Agrees(x, r) ==
    /\ x.role # "retry" /\ x.pc \in Staging =>
          (x.js.staging <=> r.js.staging)
    /\ x.role \in {"run", "cancel", "stranded", "recover"}
       /\ x.pc \in Holding => x.js.rb = r.js.rb
    /\ x.role \in {"run", "stranded"} /\ r.kind # "create" => r.js.rb # None
    /\ x.role = "setup" /\ x.pc = "lock" =>
          x.js.rb = r.js.rb /\ (r.kind # "create" => x.js.rb # None)
    /\ x.role = "setup" /\ x.pc # "lock" => r.js.rb = None
    /\ x.role = "setup" /\ x.pc = "persist" /\ r.kind # "create" =>
          x.js.rb # None
    /\ x.role = "setup"
       /\ x.pc \in {"prepare", "cleanup", "restoring", "finish"} =>
          x.js.rb = None
    /\ x.role = "recover" /\ x.pc \in {"cleanup", "restoring"} =>
          x.js.id = r.js.id
    /\ x.pc = "finish" /\ x.js.id # None =>
          \/ x.js.id = r.js.id
          \/ x.role = "setup" /\ r.kind = "create" /\ r.js.id = None

Copied(x) ==
    /\ Shaped(row[x.job].kind, x.js)
    /\ x.role = "retry" => x.js = row[x.job].js
    /\ x.pc \in {"cleanup", "restoring"} => (x.js.rberr <=> x.role = "retry")
    /\ x.pc = "restoring" => x.js.staging
    /\ x.pc = "finish" /\ ~x.js.rberr /\ row[x.job].kind = "create" =>
          x.js.id = None
    /\ x.pc = "clear" => row[x.job].js.staging /\ ~row[x.job].js.rberr
    /\ x.role = "cancel" /\ Past(x) => ~row[x.job].js.staging
    /\ x.role = "run" /\ Past(x) /\ x.pc # "clear" =>
          row[x.job].status \notin Retriable
    /\ x.role = "run" /\ x.pc \in {"backup", "save", "install"}
       /\ row[x.job].kind # "create" => x.js.rb # None
    /\ x.role = "run" /\ x.pc \in {"backup", "save"} =>
          row[x.job].kind = "update"
    /\ row[x.job].status \in Active => Agrees(x, row[x.job])

CopyInv == /\ RowsShaped
           /\ \A t \in Tasks : task[t].job # None => Copied(task[t])

\* What a step leaves alone in the row of its job, for the cancel or the
\* worker that is at it as well.
OwnKept(t, j) ==
    /\ row'[j].kind = row[j].kind
    /\ row'[j].status \in Active /\ task[t].role \notin {"retry", "setup"} =>
          row[j].status \in Active /\ row'[j].js.rb = row[j].js.rb
          /\ row'[j].js.id = row[j].js.id
    /\ task[t].role = "stranded" => (row'[j].js.staging <=> row[j].js.staging)
    /\ task[t].role = "cancel" /\ row'[j].status \in Active =>
          (row'[j].js.staging <=> row[j].js.staging)
    /\ ~Past(task[t]) /\ task[t].role \in {"run", "cancel"}
       /\ row[j].status # "queued" =>
          row'[j].js = row[j].js /\ row'[j].status = row[j].status

CopyGood(t) == /\ RowsShaped'
               /\ task[t].job # None => OwnKept(t, task[t].job)
               /\ task'[t].job # None => Copied(task[t])'

LEMMA CopiedKept ==
    ASSUME NEW s \in Tasks, NEW j, task[s].job = j, Copied(task[s]),
           task'[s] = task[s], row'[j].kind = row[j].kind,
           row'[j].status \in Active =>
              /\ row[j].status \in Active
              /\ row'[j].js.rb = row[j].js.rb /\ row'[j].js.id = row[j].js.id
              /\ \/ (row'[j].js.staging <=> row[j].js.staging)
                 \/ task[s].pc \notin Staging,
           task[s].role = "cancel" /\ Past(task[s]) =>
              (row'[j].js.staging <=> row[j].js.staging),
           task[s].pc = "clear" \/ task[s].role = "retry" =>
              row'[j].js = row[j].js,
           task[s].role = "run" /\ Past(task[s]) =>
              row'[j].status = row[j].status \/ row'[j].status \notin Retriable
    PROVE  Copied(task[s])'
<1> USE DEF Staging
<1>1. Shaped(row'[j].kind, task[s].js)
  BY DEF Copied, Shaped
<1>2. row'[j].status \in Active => Agrees(task'[s], row'[j])
  BY DEF Copied, Agrees
<1> QED
  BY <1>1, <1>2 DEF Copied, Past, Waiting

LEMMA StepKeepsCopies ==
    ASSUME SerialInv, CopyInv, NEW t \in Tasks, Good(t), CopyGood(t)
    PROVE  CopyInv'
<1> USE DEF Good
<1>1. /\ \A s \in Tasks \ {t} : task'[s] = task[s]
      /\ None \notin Jobs
      /\ \A s \in Tasks : task[s].job \in Jobs \cup {None}
  BY ConstantsAssumption DEF Tame, Others, SerialInv, TypeOK, Task
<1>2. ASSUME NEW s \in Tasks \ {t}, NEW j \in Jobs, task[s].job = j
      PROVE  Copied(task[s])'
  <2>1. task'[s] = task[s] /\ Copied(task[s]) /\ RowFits(task[s])
    BY <1>1, <1>2 DEF CopyInv, SerialInv, RowsFit
  <2>2. CASE j # task[t].job
    <3>1. /\ row'[j].js = row[j].js /\ row'[j].kind = row[j].kind
          /\ row'[j].status = row[j].status \/ row'[j].status = "canceled"
      BY <2>2 DEF Polite, PoliteToJobs, TouchesOther
    <3> QED
      BY <1>2, <2>1, <3>1, CopiedKept DEF Active, Retriable
  <2>3. CASE j = task[t].job
    <3>1. Paired(task[s], task[t])
      BY <1>1, <1>2, <2>3 DEF SerialInv, Separate, Company
    <3>2. OwnKept(t, j) /\ Copied(task[t])
      BY <1>1, <2>3 DEF CopyGood, CopyInv
    <3>3. CASE Past(task[s])
      <4>1. ~Past(task[t]) /\ row[j].status # "queued"
        BY <1>2, <2>1, <3>1, <3>3 DEF Paired, RowFits
      <4>2. CASE task[t].role \in {"run", "cancel"}
        <5>1. row'[j].js = row[j].js /\ row'[j].status = row[j].status
              /\ row'[j].kind = row[j].kind
          BY <3>2, <4>1, <4>2 DEF OwnKept
        <5> QED
          BY <1>2, <2>1, <5>1, CopiedKept
      <4>3. CASE task[t].role = "stranded"
        <5>1. task[s].role = "cancel" /\ task[s].pc # "clear"
          BY <1>2, <2>1, <3>1, <4>3 DEF Paired, Past, Copied
        <5> QED
          BY <1>2, <2>1, <3>2, <4>3, <5>1, CopiedKept DEF OwnKept
      <4> QED
        BY <3>1, <4>2, <4>3 DEF Paired
    <3>4. CASE ~Past(task[s])
      <4>1. task[s].role \in {"run", "cancel", "stranded"}
        BY <3>1 DEF Paired
      <4>2. CASE task[s].pc # "clear" /\ (task[t].role \in {"cancel", "stranded"}
                  \/ task[s].pc \notin Staging)
        <5>1. task[t].role \notin {"retry", "setup"}
          BY <3>1 DEF Paired
        <5> QED
          BY <1>2, <2>1, <3>2, <3>4, <4>1, <4>2, <5>1, CopiedKept DEF OwnKept
      <4>3. CASE task[s].pc = "clear"
        <5>1. task[t].role = "cancel" /\ row[j].js.staging /\ row[j].status \notin Active
          BY <1>2, <2>1, <3>1, <3>4, <4>3
          DEF Paired, Past, Waiting, Copied, RowFits, IsActive
        <5>2. ~Past(task[t])
          BY <2>3, <3>2, <5>1 DEF Copied
        <5>3. row'[j].js = row[j].js /\ row'[j].status = row[j].status
              /\ row'[j].kind = row[j].kind
          BY <3>2, <5>1, <5>2 DEF OwnKept, Active
        <5> QED
          BY <1>2, <2>1, <5>3, CopiedKept
      <4>4. task[t].role = "run" => task[s].pc \notin Staging
        BY <3>1, <3>4 DEF Paired, Past, Staging
      <4> QED
        BY <3>1, <4>2, <4>3, <4>4 DEF Paired
    <3> QED
      BY <3>3, <3>4
  <2> QED
    BY <2>2, <2>3
<1>3. \A s \in Tasks : task'[s].job # None => Copied(task[s])'
  BY <1>1, <1>2 DEF CopyGood
<1> QED
  BY <1>3 DEF CopyGood, CopyInv

LEMMA RowsKeptCopies ==
    ASSUME CopyInv, NEW t \in Tasks, RowsKept, task[t].job \in Jobs \cup {None}
    PROVE  /\ RowsShaped'
           /\ task[t].job # None => OwnKept(t, task[t].job)
BY DEF RowsKept, CopyInv, RowsShaped, RowShaped, Shaped, OwnKept

LEMMA WriteShaped ==
    ASSUME CopyInv, NEW j \in Jobs, NEW status, NEW js, Writes(j, status, js),
           Shaped(row[j].kind, js),
           row[j].kind = "create" /\ status \in Retriable /\ ~js.rberr =>
               js.id = None
    PROVE  RowsShaped'
BY DEF Writes, CopyInv, RowsShaped, RowShaped, Shaped

\* The task is done, and its row is as it was.
LEMMA LeavesCopies ==
    ASSUME SerialInv, CopyInv, NEW t \in Tasks, RowsKept, Leaves(t) \/ Idles(t)
    PROVE  CopyGood(t)
BY RowsKeptCopies DEF SerialInv, TypeOK, Task, Leaves, Idles, Proceeds, CopyGood

\* What an action relies on.
LEMMA Copying ==
    ASSUME SerialInv, IdsInv, ErrorInv, CopyInv, NEW t \in Tasks,
           task[t].pc \notin {"idle", "list", "next"}
    PROVE  /\ Copied(task[t]) /\ SameId(task[t]) /\ Unerred(task[t])
           /\ RowShaped(task[t].job)
           /\ row[task[t].job].status \in Active => ~row[task[t].job].js.rberr
           /\ row[task[t].job].status = "queued" => ~row[task[t].job].js.staging
BY Acting, Knowing
DEF CopyInv, RowsShaped, ErrorInv, ErrorsRetriable, Retriable, Active, SerialInv,
    QueuedUnstaged

LEMMA RequeueCopies ==
    ASSUME SerialInv, IdsInv, ErrorInv, CopyInv, NEW t \in Tasks, Requeue(t)
    PROVE  CopyGood(t)
<1>1. task[t].role = "retry" /\ task[t].pc = "requeue"
  BY RequeueDoes
<1> USE Acting
<1>2. CASE Idles(t) /\ UNCHANGED row
  BY <1>2, LeavesCopies DEF RowsKept
<1>3. ASSUME NEW js, Moves(t, "setup", "prepare", js),
             Writes(task[t].job, "queued", js), js = NewState(js.id),
             js.id = IF row[task[t].job].kind = "create" THEN None
                     ELSE task[t].js.id
      PROVE  CopyGood(t)
  <2>1. js.rb = None /\ ~js.staging /\ ~js.rberr
    BY <1>3 DEF NewState
  <2>2. Shaped(row[task[t].job].kind, js)
    BY <1>3, <2>1 DEF Shaped
  <2>3. RowsShaped'
    BY <1>1, <1>3, <2>2, WriteShaped DEF Retriable
  <2>4. Copied(task[t])'
    BY <1>1, <1>3, <2>1, <2>2
    DEF Moves, Writes, Copied, Agrees, Staging, Past, Holding
  <2>5. OwnKept(t, task[t].job)
    BY <1>1, <1>3 DEF OwnKept, Writes
  <2> QED
    BY <2>3, <2>4, <2>5 DEF CopyGood
<1> QED
  BY <1>2, <1>3, RequeueDoes

LEMMA PrepareCopies ==
    ASSUME SerialInv, IdsInv, ErrorInv, CopyInv, NEW t \in Tasks,
           PrepareNew(t) \/ PrepareExisting(t)
    PROVE  CopyGood(t)
<1>1. /\ task[t].role = "setup" /\ task[t].pc = "prepare" /\ UNCHANGED row
  BY PrepareNewDoes, PrepareExistingDoes
<1> USE Acting
<1>2. RowsShaped' /\ OwnKept(t, task[t].job)
  BY <1>1, RowsKeptCopies DEF RowsKept
<1>3. Copied(task[t]) /\ SameId(task[t]) /\ ~task[t].js.rberr /\ ~task[t].js.staging
  BY <1>1, Copying DEF Unerred, RowFits
<1>4. row[task[t].job].status \in Active => Agrees(task[t], row[task[t].job])
  BY <1>3 DEF Copied
<1>5. row[task[t].job].status \in Active /\ row[task[t].job].kind # "create" =>
        task[t].js.id = row[task[t].job].js.id
  BY <1>1, <1>3 DEF SameId
<1>6. row[task[t].job].status \in Active => ~row[task[t].job].js.staging
  <2>1. row[task[t].job].status \in Active => row[task[t].job].js.rb = None
    BY <1>1, <1>4 DEF Agrees, Staging
  <2> QED
    BY <1>1, <2>1, Copying DEF RowShaped, Shaped
<1>7. ASSUME NEW pc \in {"persist", "cleanup"}, NEW js, Moves(t, "setup", pc, js),
             js.staging = task[t].js.staging, js.rberr = task[t].js.rberr,
             \/ js.rb = task[t].js.rb
                /\ (pc = "cleanup" \/ row[task[t].job].kind = "create")
             \/ pc = "persist" /\ js.rb # None /\ row[task[t].job].kind # "create"
      PROVE  CopyGood(t)
  <2>1. Shaped(row[task[t].job].kind, js)
    BY <1>3, <1>7 DEF Copied, Shaped
  <2>2. row[task[t].job].status \in Active => Agrees(task'[t], row[task[t].job])
    <3>1. CASE pc = "persist"
      <4>1. row[task[t].job].kind # "create" => js.rb # None
        BY <1>7, <3>1
      <4>2. row[task[t].job].status \in Active => row[task[t].job].js.rb = None
        BY <1>1, <1>4 DEF Agrees, Staging
      <4>3. task'[t].role = "setup" /\ task'[t].pc = "persist" /\ task'[t].js = js
        BY <1>1, <1>7, <3>1 DEF Moves
      <4> QED
        BY <4>1, <4>2, <4>3 DEF Agrees, Staging
    <3>2. CASE pc = "cleanup"
      BY <1>1, <1>3, <1>4, <1>6, <1>7, <3>2 DEF Moves, Agrees, Staging
    <3> QED
      BY <1>7, <3>1, <3>2
  <2>3. Copied(task[t])'
    BY <1>1, <1>3, <1>7, <2>1, <2>2 DEF Moves, Copied, Past
  <2> QED
    BY <1>1, <1>2, <2>3 DEF CopyGood
<1>8. CASE PrepareNew(t)
  <2>1. row[task[t].job].kind = "create"
    BY <1>8, PrepareNewDoes
  <2>2. CASE Moves(t, "setup", "cleanup", task[t].js)
    BY <1>7, <2>2
  <2>3. ASSUME NEW pc \in {"persist", "cleanup"}, NEW js,
               Moves(t, "setup", pc, js), SameButId(js, task[t].js)
        PROVE  CopyGood(t)
    BY <1>7, <2>1, <2>3 DEF SameButId
  <2> QED
    BY <1>8, <2>2, <2>3, PrepareNewDoes
<1>9. CASE PrepareExisting(t)
  <2>1. row[task[t].job].kind # "create"
    BY <1>9, PrepareExistingDoes
  <2>2. CASE Moves(t, "setup", "cleanup", task[t].js)
    BY <1>7, <2>2
  <2>3. ASSUME NEW js, Moves(t, "setup", "persist", js),
               SameButRb(js, task[t].js), Exists(js.id), js.rb = inst[js.id]
        PROVE  CopyGood(t)
    <3>1. js.rb # None
      BY <2>3, StagesAssumption DEF Exists, Stages
    <3> QED
      BY <1>7, <2>1, <2>3, <3>1 DEF SameButRb
  <2> QED
    BY <1>9, <2>2, <2>3, PrepareExistingDoes
<1> QED
  BY <1>8, <1>9

LEMMA PersistCopies ==
    ASSUME SerialInv, IdsInv, ErrorInv, CopyInv, NEW t \in Tasks, Persist(t)
    PROVE  CopyGood(t)
<1>1. task[t].role = "setup" /\ task[t].pc = "persist"
  BY PersistDoes
<1> USE Acting
<1>2. Copied(task[t]) /\ ~task[t].js.rberr /\ ~task[t].js.staging
  BY <1>1, Copying DEF Unerred, RowFits
<1>3. CASE ~IsActive(task[t].job) /\ UNCHANGED row /\ Moves(t, "setup", "cleanup", task[t].js)
  <2>1. RowsShaped' /\ OwnKept(t, task[t].job)
    BY <1>1, <1>3, RowsKeptCopies DEF RowsKept
  <2>2. Shaped(row[task[t].job].kind, task[t].js)
    BY <1>2 DEF Copied
  <2>3. Copied(task[t])'
    BY <1>1, <1>2, <1>3, <2>2 DEF Moves, Copied, Past, IsActive
  <2> QED
    BY <2>1, <2>3 DEF CopyGood
<1>4. CASE /\ IsActive(task[t].job) /\ Moves(t, "setup", "lock", task[t].js)
           /\ Writes(task[t].job, row[task[t].job].status, task[t].js)
  <2>1. Shaped(row[task[t].job].kind, task[t].js)
    BY <1>2 DEF Copied
  <2>2. RowsShaped'
    BY <1>1, <1>4, <2>1, WriteShaped DEF IsActive, Active, Retriable
  <2>3. Agrees(task[t], row[task[t].job])
    BY <1>2, <1>4 DEF Copied, IsActive
  <2>4. Agrees(task'[t], row'[task'[t].job])
    BY <1>1, <1>4, <2>3 DEF Agrees, Staging, Moves, Writes, Holding
  <2>5. Shaped(row'[task'[t].job].kind, task'[t].js)
    BY <1>4, <2>1 DEF Moves, Writes
  <2>6. task'[t].role = "setup" /\ task'[t].pc = "lock"
    BY <1>4 DEF Moves
  <2>7. Copied(task[t])'
    BY <2>4, <2>5, <2>6 DEF Copied, Past
  <2>8. OwnKept(t, task[t].job)
    BY <1>1, <1>4 DEF OwnKept, Writes
  <2> QED
    BY <2>2, <2>7, <2>8 DEF CopyGood
<1> QED
  BY <1>3, <1>4, PersistDoes

LEMMA LockAndSpawnCopies ==
    ASSUME SerialInv, IdsInv, ErrorInv, CopyInv, NEW t \in Tasks, LockAndSpawn(t)
    PROVE  CopyGood(t)
<1>1. /\ task[t].role = "setup" /\ task[t].pc = "lock" /\ UNCHANGED row
      /\ task'[t].role = "run" /\ task'[t].pc = "read"
      /\ task'[t].job = task[t].job /\ task'[t].js = NewState(None)
  BY LockSpawns
<1> USE Acting
<1>2. RowsShaped' /\ OwnKept(t, task[t].job)
  BY <1>1, RowsKeptCopies DEF RowsKept
<1>3. Shaped(row[task[t].job].kind, NewState(None))
  BY DEF Shaped, NewState
<1>4. row[task[t].job].status \in Active => Agrees(task[t], row[task[t].job])
  BY <1>1, Copying DEF Copied
<1>5. row[task[t].job].status \in Active => Agrees(task'[t], row[task[t].job])
  BY <1>1, <1>4 DEF Agrees, Staging, Holding
<1>6. Copied(task[t])'
  BY <1>1, <1>3, <1>5 DEF Copied, Past, Waiting
<1> QED
  BY <1>2, <1>6 DEF CopyGood

\* A worker that goes on, before it has anything to undo.
LEMMA WorkCopies ==
    ASSUME NEW t \in Tasks, RowsShaped', OwnKept(t, task[t].job),
           NEW pc, NEW js, Moves(t, "run", pc, js),
           pc \notin {"cleanup", "restoring", "finish", "clear"},
           Shaped(row'[task[t].job].kind, js),
           \/ pc \in {"read", "acquire", "claim"}
           \/ row'[task[t].job].status \notin Retriable,
           pc \in {"backup", "save", "install"}
           /\ row'[task[t].job].kind # "create" => js.rb # None,
           pc \in {"backup", "save"} => row'[task[t].job].kind = "update",
           row'[task[t].job].status \in Active =>
              /\ pc \in Holding => js.rb = row'[task[t].job].js.rb
              /\ pc \in Staging =>
                    (js.staging <=> row'[task[t].job].js.staging)
              /\ row'[task[t].job].kind # "create" =>
                    row'[task[t].job].js.rb # None
    PROVE  CopyGood(t)
<1>1. /\ task'[t].role = "run" /\ task'[t].pc = pc /\ task'[t].js = js
      /\ task'[t].job = task[t].job
  BY DEF Moves
<1>2. row'[task[t].job].status \in Active => Agrees(task'[t], row'[task'[t].job])
  BY <1>1 DEF Agrees, Staging
<1>3. Copied(task[t])'
  BY <1>1, <1>2 DEF Copied, Past, Waiting
<1> QED
  BY <1>3 DEF CopyGood

\* A task that is about to roll back what the active row says.
LEMMA UndoCopies ==
    ASSUME SerialInv, IdsInv, ErrorInv, CopyInv, NEW t \in Tasks,
           task[t].pc \notin {"idle", "list", "next"},
           task[t].role \in {"run", "stranded"}, IsActive(task[t].job), RowsKept,
           Moves(t, task[t].role, "cleanup", row[task[t].job].js)
    PROVE  CopyGood(t)
<1> USE Acting
<1>1. /\ task'[t].role = task[t].role /\ task'[t].pc = "cleanup"
      /\ task'[t].js = row[task[t].job].js /\ task'[t].job = task[t].job
  BY DEF Moves
<1>2. /\ row'[task[t].job].js = row[task[t].job].js
      /\ row'[task[t].job].kind = row[task[t].job].kind
      /\ row'[task[t].job].status = row[task[t].job].status
  BY DEF RowsKept
<1>3. RowsShaped' /\ OwnKept(t, task[t].job)
  BY RowsKeptCopies
<1>4. /\ Copied(task[t]) /\ RowShaped(task[t].job)
      /\ row[task[t].job].status \in Active => ~row[task[t].job].js.rberr
  BY Copying
<1>5. Agrees(task[t], row[task[t].job])
  BY <1>4 DEF Copied, IsActive
<1>6. Agrees(task'[t], row'[task'[t].job])
  BY <1>1, <1>2, <1>5 DEF Agrees, Staging
<1>7. Shaped(row'[task'[t].job].kind, task'[t].js)
  BY <1>1, <1>2, <1>4 DEF RowShaped
<1>8. Copied(task[t])'
  BY <1>1, <1>2, <1>4, <1>6, <1>7 DEF Copied, Past, Waiting, IsActive, Active, Retriable
<1> QED
  BY <1>3, <1>8 DEF CopyGood

LEMMA AcquireCopies ==
    ASSUME SerialInv, IdsInv, ErrorInv, CopyInv, NEW t \in Tasks,
           RunRead(t) \/ Acquire(t)
    PROVE  CopyGood(t)
<1>1. /\ task[t].role = "run" /\ task[t].pc \in {"read", "acquire"} /\ UNCHANGED row
  BY AcquireDoes
<1> USE Acting
<1>2. RowsShaped' /\ OwnKept(t, task[t].job) /\ RowsKept
  BY <1>1, RowsKeptCopies DEF RowsKept
<1>3. Copied(task[t]) /\ RowShaped(task[t].job)
  BY <1>1, Copying
<1>4. row[task[t].job].status \in Active => Agrees(task[t], row[task[t].job])
  BY <1>3 DEF Copied
<1>5. row[task[t].job].status \in Active /\ row[task[t].job].kind # "create" =>
        row[task[t].job].js.rb # None
  BY <1>1, <1>4 DEF Agrees, Staging
<1>6. CASE Idles(t)
  BY <1>2, <1>6, LeavesCopies
<1>7. CASE Moves(t, "run", "acquire", task[t].js)
  <2>1. Shaped(row'[task[t].job].kind, task[t].js)
    BY <1>1, <1>3 DEF Copied
  <2> QED
    BY <1>1, <1>2, <1>5, <1>7, <2>1, WorkCopies DEF Holding, Staging
<1>8. CASE Moves(t, "run", "claim", row[task[t].job].js)
  <2>1. Shaped(row'[task[t].job].kind, row[task[t].job].js)
    BY <1>1, <1>3 DEF RowShaped
  <2> QED
    BY <1>1, <1>2, <1>5, <1>8, <2>1, WorkCopies DEF Holding, Staging
<1> QED
  BY <1>6, <1>7, <1>8, AcquireDoes

\* A worker that leaves its job to terminalize_stranded_job.
LEMMA StrandCopies ==
    ASSUME SerialInv, IdsInv, ErrorInv, CopyInv, NEW t \in Tasks,
           task[t].role = "run", task[t].pc \in {"claim", "succeed"}, UNCHANGED row,
           Moves(t, "stranded", "check", task[t].js)
    PROVE  CopyGood(t)
<1> USE Acting
<1>1. /\ task'[t].role = "stranded" /\ task'[t].pc = "check"
      /\ task'[t].js = task[t].js /\ task'[t].job = task[t].job
  BY DEF Moves
<1>2. RowsShaped' /\ OwnKept(t, task[t].job)
  BY RowsKeptCopies DEF RowsKept
<1>3. Copied(task[t])
  BY Copying
<1>4. row[task[t].job].status \in Active => Agrees(task'[t], row[task[t].job])
  BY <1>1, <1>3 DEF Copied, Agrees, Staging, Holding
<1>5. Copied(task[t])'
  BY <1>1, <1>3, <1>4 DEF Copied, Past, Waiting
<1> QED
  BY <1>2, <1>5 DEF CopyGood

LEMMA ClaimCopies ==
    ASSUME SerialInv, IdsInv, ErrorInv, CopyInv, NEW t \in Tasks, Claim(t)
    PROVE  CopyGood(t)
<1>1. task[t].role = "run" /\ task[t].pc = "claim"
  BY ClaimDoes
<1> USE Acting
<1>2. CASE Idles(t) /\ UNCHANGED row
  BY <1>2, LeavesCopies DEF RowsKept
<1>3. CASE Moves(t, "stranded", "check", task[t].js) /\ UNCHANGED row
  BY <1>1, <1>3, StrandCopies
<1>4. CASE /\ row[task[t].job].status = "queued"
           /\ Writes(task[t].job, "running", task[t].js)
           /\ Moves(t, "run", "work", task[t].js)
  <2>1. Copied(task[t]) /\ SameId(task[t])
        /\ ~row[task[t].job].js.staging /\ ~task[t].js.staging
    BY <1>1, <1>4, Copying DEF RowFits
  <2>2. Agrees(task[t], row[task[t].job]) /\ task[t].js.id = row[task[t].job].js.id
    BY <1>1, <1>4, <2>1 DEF Copied, SameId, Active
  <2>3. /\ task[t].js.rb = row[task[t].job].js.rb
        /\ row[task[t].job].kind # "create" => task[t].js.rb # None
    BY <1>1, <2>2 DEF Agrees, Staging, Holding
  <2>4. Shaped(row[task[t].job].kind, task[t].js)
    BY <2>1 DEF Copied
  <2>5. RowsShaped'
    BY <1>1, <1>4, <2>4, WriteShaped DEF Retriable
  <2>6. OwnKept(t, task[t].job)
    BY <1>1, <1>4, <2>2, <2>3 DEF Writes, OwnKept, Active
  <2> QED
    BY <1>1, <1>4, <2>3, <2>4, <2>5, <2>6, WorkCopies DEF Writes, Retriable
<1> QED
  BY <1>2, <1>3, <1>4, ClaimDoes

LEMMA WorkNewCopies ==
    ASSUME SerialInv, IdsInv, ErrorInv, CopyInv, NEW t \in Tasks, WorkNew(t)
    PROVE  CopyGood(t)
<1>1. /\ task[t].role = "run" /\ task[t].pc = "work" /\ UNCHANGED row
      /\ row[task[t].job].kind = "create"
  BY WorkNewDoes
<1>2. \E pc \in {"install", "ended_err"} : Moves(t, "run", pc, task[t].js)
  BY WorkNewDoes
<1> USE Acting
<1>3. RowsShaped' /\ OwnKept(t, task[t].job)
  BY <1>1, RowsKeptCopies DEF RowsKept
<1>4. Copied(task[t])
  BY <1>1, Copying
<1>5. /\ Shaped(row[task[t].job].kind, task[t].js)
      /\ row[task[t].job].status \notin Retriable
      /\ row[task[t].job].status \in Active => Agrees(task[t], row[task[t].job])
  BY <1>1, <1>4 DEF Copied, Past, Waiting
<1>6. row[task[t].job].status \in Active => task[t].js.rb = row[task[t].job].js.rb
  BY <1>1, <1>5 DEF Agrees, Holding
<1>7. ~task[t].js.staging /\ ~row[task[t].job].js.staging
  BY <1>1, <1>4, Copying DEF Copied, RowShaped, Shaped
<1> QED
  BY <1>1, <1>2, <1>3, <1>5, <1>6, <1>7, WorkCopies

LEMMA WorkExistingCopies ==
    ASSUME SerialInv, IdsInv, ErrorInv, CopyInv, NEW t \in Tasks, WorkExisting(t)
    PROVE  CopyGood(t)
<1>1. /\ task[t].role = "run" /\ task[t].pc = "work"
      /\ row[task[t].job].kind # "create"
  BY WorkExistingDoes
<1> USE Acting
<1>2. Copied(task[t]) /\ SameId(task[t]) /\ RowShaped(task[t].job)
      /\ ~task[t].js.staging /\ ~row[task[t].job].js.staging
      /\ ~task[t].js.rberr
  BY <1>1, Copying DEF RowFits, Unerred
<1>3. /\ Shaped(row[task[t].job].kind, task[t].js)
      /\ row[task[t].job].status \notin Retriable
      /\ row[task[t].job].status \in Active => Agrees(task[t], row[task[t].job])
  BY <1>1, <1>2 DEF Copied, Past, Waiting
<1>4. row[task[t].job].status \in Active =>
        /\ task[t].js.rb = row[task[t].job].js.rb /\ task[t].js.rb # None
        /\ task[t].js.id = row[task[t].job].js.id
  BY <1>1, <1>2, <1>3 DEF Agrees, Staging, Holding, SameId
<1>5. UNCHANGED row => RowsShaped' /\ OwnKept(t, task[t].job)
  BY <1>1, RowsKeptCopies DEF RowsKept
<1>6. CASE Moves(t, "run", "ended_err", task[t].js) /\ UNCHANGED row
  BY <1>1, <1>2, <1>3, <1>4, <1>5, <1>6, WorkCopies
<1>7. ASSUME NEW pc, NEW js, WorkGoesOn(t, pc, js)
      PROVE  CopyGood(t)
  <2>1. /\ Exists(task[t].js.id) /\ Moves(t, "run", pc, js)
        /\ SameButRb(js, task[t].js)
        /\ js.rb = IF task[t].js.rb = None THEN inst[task[t].js.id]
                                           ELSE task[t].js.rb
        /\ \/ /\ row[task[t].job].kind = "update" /\ pc = "backup" /\ UNCHANGED row
           \/ /\ ~IsActive(task[t].job) /\ pc = "ended_err" /\ UNCHANGED row
           \/ /\ IsActive(task[t].job) /\ pc = "install"
              /\ Writes(task[t].job, row[task[t].job].status, js)
    BY <1>7 DEF WorkGoesOn
  <2>2. js.rb # None /\ (row[task[t].job].status \in Active => js.rb = task[t].js.rb)
    BY <1>4, <2>1, StagesAssumption DEF Exists, Stages
  <2>3. Shaped(row[task[t].job].kind, js)
    BY <1>1, <1>2, <2>1, <2>2 DEF Shaped, SameButRb
  <2>4. CASE UNCHANGED row /\ pc = "backup" /\ row[task[t].job].kind = "update"
    BY <1>1, <1>3, <1>4, <1>5, <2>1, <2>2, <2>3, <2>4, WorkCopies DEF Staging
  <2>6. CASE UNCHANGED row /\ pc = "ended_err" /\ ~IsActive(task[t].job)
    BY <1>1, <1>3, <1>5, <2>1, <2>2, <2>3, <2>6, WorkCopies DEF IsActive
  <2>5. CASE /\ IsActive(task[t].job) /\ pc = "install"
             /\ Writes(task[t].job, row[task[t].job].status, js)
    <3>1. RowsShaped'
      BY <1>1, <2>3, <2>5, WriteShaped
    <3>2. OwnKept(t, task[t].job)
      BY <1>1, <1>4, <2>1, <2>2, <2>5
      DEF Writes, OwnKept, IsActive, Past, Waiting, SameButRb
    <3> QED
      BY <1>1, <1>3, <2>1, <2>2, <2>3, <2>5, <3>1, <3>2, WorkCopies DEF Writes
  <2> QED
    BY <2>1, <2>4, <2>5, <2>6
<1> QED
  BY <1>6, <1>7, WorkExistingDoes

LEMMA BackupCopies ==
    ASSUME SerialInv, IdsInv, ErrorInv, CopyInv, NEW t \in Tasks,
           Backup(t) \/ SaveBackup(t)
    PROVE  CopyGood(t)
<1>1. task[t].role = "run" /\ task[t].pc \in {"backup", "save"}
  BY BackupDoes, SaveBackupDoes
<1> USE Acting
<1>2. Copied(task[t]) /\ SameId(task[t]) /\ ~task[t].js.rberr
  BY <1>1, Copying DEF Unerred
<1>3. /\ Shaped(row[task[t].job].kind, task[t].js)
      /\ row[task[t].job].status \notin Retriable
      /\ row[task[t].job].status \in Active => Agrees(task[t], row[task[t].job])
      /\ row[task[t].job].kind = "update" /\ task[t].js.rb # None
  BY <1>1, <1>2 DEF Copied, Past, Waiting
<1>4. row[task[t].job].status \in Active =>
        /\ task[t].js.rb = row[task[t].job].js.rb
        /\ task[t].js.id = row[task[t].job].js.id
  BY <1>1, <1>2, <1>3 DEF Agrees, Staging, Holding, SameId
<1>5. UNCHANGED row => RowsShaped' /\ OwnKept(t, task[t].job)
  BY <1>1, RowsKeptCopies DEF RowsKept
<1>6. CASE /\ UNCHANGED row /\ Moves(t, "run", "ended_err", task[t].js)
           /\ \/ ~task[t].js.staging /\ ~row[task[t].job].js.staging
              \/ ~IsActive(task[t].job)
  BY <1>1, <1>3, <1>4, <1>5, <1>6, WorkCopies DEF IsActive
<1>7. ASSUME NEW js, Moves(t, "run", "save", js), UNCHANGED row,
             js.rb = task[t].js.rb, js.staging, js.rberr = task[t].js.rberr
      PROVE  CopyGood(t)
  <2>1. Shaped(row[task[t].job].kind, js)
    BY <1>2, <1>3, <1>7 DEF Shaped
  <2> QED
    BY <1>1, <1>3, <1>4, <1>5, <1>7, <2>1, WorkCopies DEF Staging
<1>8. CASE /\ IsActive(task[t].job)
           /\ Writes(task[t].job, row[task[t].job].status, task[t].js)
           /\ Moves(t, "run", "install", task[t].js)
  <2>1. RowsShaped'
    BY <1>1, <1>3, <1>8, WriteShaped
  <2>2. OwnKept(t, task[t].job)
    BY <1>1, <1>4, <1>8 DEF Writes, OwnKept, IsActive, Past, Waiting
  <2> QED
    BY <1>1, <1>3, <1>8, <2>1, <2>2, WorkCopies DEF Writes
<1>9. task[t].pc = "backup" => ~task[t].js.staging /\ ~row[task[t].job].js.staging
  BY <1>1 DEF RowFits
<1> QED
  BY <1>6, <1>7, <1>8, <1>9, BackupDoes, SaveBackupDoes

LEMMA InstallCopies ==
    ASSUME SerialInv, IdsInv, ErrorInv, CopyInv, NEW t \in Tasks, Install(t)
    PROVE  CopyGood(t)
<1>1. /\ task[t].role = "run" /\ task[t].pc = "install" /\ UNCHANGED row
  BY InstallDoes
<1>2. \E pc \in {"ended_ok", "ended_err"} : Moves(t, "run", pc, task[t].js)
  BY InstallDoes
<1> USE Acting
<1>3. RowsShaped' /\ OwnKept(t, task[t].job)
  BY <1>1, RowsKeptCopies DEF RowsKept
<1>4. Copied(task[t])
  BY <1>1, Copying
<1>5. /\ Shaped(row[task[t].job].kind, task[t].js)
      /\ row[task[t].job].status \notin Retriable
      /\ row[task[t].job].status \in Active => Agrees(task[t], row[task[t].job])
  BY <1>1, <1>4 DEF Copied, Past, Waiting
<1>6. row[task[t].job].status \in Active =>
        /\ task[t].js.rb = row[task[t].job].js.rb
        /\ task[t].js.staging <=> row[task[t].job].js.staging
        /\ row[task[t].job].kind # "create" => row[task[t].job].js.rb # None
  BY <1>1, <1>5 DEF Agrees, Holding, Staging
<1> QED
  BY <1>1, <1>2, <1>3, <1>5, <1>6, WorkCopies

LEMMA RereadCopies ==
    ASSUME SerialInv, IdsInv, ErrorInv, CopyInv, NEW t \in Tasks, Reread(t)
    PROVE  CopyGood(t)
<1>1. /\ task[t].role = "run" /\ task[t].pc \in {"ended_ok", "ended_err"}
      /\ UNCHANGED row
  BY RereadDoes
<1> USE Acting
<1>2. RowsShaped' /\ OwnKept(t, task[t].job) /\ RowsKept
  BY <1>1, RowsKeptCopies DEF RowsKept
<1>3. CASE Idles(t)
  BY <1>2, <1>3, LeavesCopies
<1>4. ASSUME NEW js, row[task[t].job].status = "running",
             Moves(t, "run", "succeed", js), SameButId(js, row[task[t].job].js)
      PROVE  CopyGood(t)
  <2>1. Copied(task[t]) /\ RowShaped(task[t].job)
    BY <1>1, Copying
  <2>2. Agrees(task[t], row[task[t].job])
    BY <1>4, <2>1 DEF Copied, Active
  <2>3. row[task[t].job].kind # "create" => row[task[t].job].js.rb # None
    BY <1>1, <2>2 DEF Agrees, Staging
  <2>4. Shaped(row[task[t].job].kind, js)
    BY <1>4, <2>1 DEF RowShaped, Shaped, SameButId
  <2> QED
    BY <1>1, <1>2, <1>4, <2>3, <2>4, WorkCopies DEF Holding, Staging, Retriable
<1>5. CASE /\ row[task[t].job].status = "running"
           /\ Moves(t, "run", "cleanup", row[task[t].job].js)
  BY <1>1, <1>2, <1>5, UndoCopies DEF IsActive, Active
<1>6. /\ Shaped(row[task[t].job].kind, task[t].js) /\ ~task[t].js.rberr
      /\ row[task[t].job].status \notin Retriable
      /\ row[task[t].job].status \in Active => Agrees(task[t], row[task[t].job])
  BY <1>1, Copying DEF Copied, Past, Waiting, Unerred
<1>7. row[task[t].job].status \in Active =>
        /\ task[t].js.rb = row[task[t].job].js.rb
        /\ task[t].js.staging <=> row[task[t].job].js.staging
        /\ row[task[t].job].kind # "create" => row[task[t].job].js.rb # None
  BY <1>1, <1>6 DEF Agrees, Holding, Staging
<1>8. CASE Moves(t, "run", "succeed", task[t].js)
  BY <1>1, <1>2, <1>6, <1>7, <1>8, WorkCopies DEF Holding, Staging
<1>9. CASE Moves(t, "run", "cleanup", task[t].js)
  <2>1. /\ task'[t].role = "run" /\ task'[t].pc = "cleanup"
        /\ task'[t].js = task[t].js /\ task'[t].job = task[t].job
    BY <1>9 DEF Moves
  <2>2. row[task[t].job].status \in Active => Agrees(task'[t], row[task[t].job])
    BY <1>7, <2>1 DEF Agrees
  <2>3. Copied(task[t])'
    BY <1>1, <1>6, <2>1, <2>2 DEF Copied, Past, Waiting
  <2> QED
    BY <1>1, <1>2, <2>3 DEF CopyGood
<1> QED
  BY <1>3, <1>4, <1>5, <1>8, <1>9, RereadDoes

\* A task that has finished its job with a backup to remove.
LEMMA ClearCopies ==
    ASSUME NEW t \in Tasks, task[t].role # "retry", task[t].role # "cancel",
           RowsShaped', OwnKept(t, task[t].job), NEW js,
           NEW status \in Finished, Writes(task[t].job, status, js),
           Moves(t, task[t].role, "clear", js), Shaped(row[task[t].job].kind, js),
           js.staging, ~js.rberr
    PROVE  CopyGood(t)
<1>1. /\ task'[t].role = task[t].role /\ task'[t].pc = "clear" /\ task'[t].js = js
      /\ task'[t].job = task[t].job
      /\ row'[task[t].job].js = js /\ row'[task[t].job].status = status
      /\ row'[task[t].job].kind = row[task[t].job].kind
  BY DEF Moves, Writes
<1>2. row'[task[t].job].status \notin Active
  BY <1>1 DEF Active, Finished
<1>3. Copied(task[t])'
  BY <1>1, <1>2 DEF Copied
<1> QED
  BY <1>3 DEF CopyGood

LEMMA SucceedCopies ==
    ASSUME SerialInv, IdsInv, ErrorInv, CopyInv, NEW t \in Tasks, Succeed(t)
    PROVE  CopyGood(t)
<1>1. task[t].role = "run" /\ task[t].pc = "succeed"
  BY SucceedDoes
<1> USE Acting
<1>2. CASE Idles(t) /\ UNCHANGED row
  BY <1>2, LeavesCopies DEF RowsKept
<1>3. CASE Moves(t, "stranded", "check", task[t].js) /\ UNCHANGED row
  BY <1>1, <1>3, StrandCopies
<1>4. ASSUME NEW js, js.rb = task[t].js.rb, ~js.rberr,
             js.staging = task[t].js.staging,
             Writes(task[t].job, "succeeded", js),
             Idles(t) \/ (js.staging /\ Moves(t, "run", "clear", js))
      PROVE  CopyGood(t)
  <2>1. Shaped(row[task[t].job].kind, task[t].js)
    BY <1>1, Copying DEF Copied
  <2>2. Shaped(row[task[t].job].kind, js)
    BY <1>4, <2>1 DEF Shaped
  <2>3. RowsShaped'
    BY <1>1, <1>4, <2>2, WriteShaped DEF Retriable
  <2>4. OwnKept(t, task[t].job)
    BY <1>1, <1>4 DEF Writes, OwnKept, Active, Past, Waiting
  <2>5. CASE Idles(t)
    BY <2>3, <2>4, <2>5 DEF Idles, CopyGood
  <2> QED
    BY <1>1, <1>4, <2>2, <2>3, <2>4, <2>5, ClearCopies DEF Finished
<1> QED
  BY <1>2, <1>3, <1>4, SucceedDoes

LEMMA CheckStrandedCopies ==
    ASSUME SerialInv, IdsInv, ErrorInv, CopyInv, NEW t \in Tasks, CheckStranded(t)
    PROVE  CopyGood(t)
<1>1. task[t].role = "stranded" /\ task[t].pc = "check" /\ RowsKept
  BY CheckStrandedDoes DEF RowsKept
<1>2. CASE Idles(t)
  BY <1>1, <1>2, LeavesCopies
<1>3. CASE /\ IsActive(task[t].job)
           /\ Moves(t, "stranded", "cleanup", row[task[t].job].js)
  BY <1>1, <1>3, UndoCopies
<1> QED
  BY <1>2, <1>3, CheckStrandedDoes

LEMMA CleanedCopies ==
    ASSUME SerialInv, IdsInv, ErrorInv, CopyInv, NEW t \in Tasks,
           task[t].pc \in {"cleanup", "restoring"}, RowsKept,
           NEW ok \in BOOLEAN, CleanedTo(t, ok),
           ok \/ row[task[t].job].kind = "create" \/ task[t].js.staging
    PROVE  CopyGood(t)
<1> USE Acting
<1>1. /\ row'[task[t].job].js = row[task[t].job].js
      /\ row'[task[t].job].kind = row[task[t].job].kind
      /\ row'[task[t].job].status = row[task[t].job].status
  BY DEF RowsKept
<1>2. RowsShaped' /\ OwnKept(t, task[t].job)
  BY RowsKeptCopies
<1>3. Copied(task[t]) /\ SameId(task[t])
  BY Copying
<1>4. /\ Shaped(row[task[t].job].kind, task[t].js)
      /\ row[task[t].job].status \in Active => Agrees(task[t], row[task[t].job])
  BY <1>3 DEF Copied
<1>5. CASE Idles(t)
  BY <1>5, LeavesCopies
<1>6. CASE task[t].role = "retry" /\ Moves(t, "retry", "requeue", task[t].js)
  <2>1. /\ task'[t].role = "retry" /\ task'[t].pc = "requeue"
        /\ task'[t].js = task[t].js /\ task'[t].job = task[t].job
    BY <1>6 DEF Moves
  <2>2. row[task[t].job].status \notin Active
    BY <1>6 DEF RowFits, Active
  <2>3. Copied(task[t])'
    BY <1>1, <1>3, <1>4, <1>6, <2>1, <2>2 DEF Copied
  <2> QED
    BY <1>2, <2>3 DEF CopyGood
<1>7. ASSUME NEW js, task[t].role # "retry", Moves(t, task[t].role, "finish", js),
             js.rb = task[t].js.rb, js.staging = task[t].js.staging,
             js.id = IF ok /\ row[task[t].job].kind = "create"
                     THEN None ELSE task[t].js.id,
             ~ok => js.rberr,
             ok /\ ~task[t].js.rberr => ~js.rberr
      PROVE  CopyGood(t)
  <2>1. /\ task'[t].role = task[t].role /\ task'[t].pc = "finish"
        /\ task'[t].js = js /\ task'[t].job = task[t].job
    BY <1>7 DEF Moves
  <2>2. ~task[t].js.rberr
    BY <1>3, <1>7 DEF Copied
  <2>3. Shaped(row[task[t].job].kind, js)
    BY <1>4, <1>7, <2>2 DEF Shaped
  <2>4. task[t].role \in {"setup", "run", "stranded", "cancel", "recover"}
    BY <1>7 DEF Placed, TypeOK, Task, Roles
  <2>5. row[task[t].job].status \in Active /\ js.id # None =>
          \/ js.id = row[task[t].job].js.id
          \/ task[t].role = "setup" /\ row[task[t].job].kind = "create"
             /\ row[task[t].job].js.id = None
    BY <1>3, <1>4, <1>7, <2>4 DEF SameId, Agrees, Staging
  <2>6. row[task[t].job].status \in Active => Agrees(task'[t], row[task[t].job])
    BY <1>4, <1>7, <2>1, <2>5 DEF Agrees, Staging, Holding
  <2>7. row'[task[t].job].status \in Active => Agrees(task'[t], row'[task'[t].job])
    BY <1>1, <2>1, <2>6 DEF Agrees, Staging
  <2>8. Copied(task[t])'
    BY <1>1, <1>3, <1>7, <2>1, <2>2, <2>3, <2>7 DEF Copied, Past, Waiting
  <2> QED
    BY <1>2, <2>8 DEF CopyGood
<1> QED
  BY <1>5, <1>6, <1>7 DEF CleanedTo

LEMMA TerminalizeCopies ==
    ASSUME SerialInv, IdsInv, ErrorInv, CopyInv, NEW t \in Tasks,
           FailJob(t) \/ InterruptJob(t)
    PROVE  CopyGood(t)
<1>1. /\ task[t].pc = "finish"
      /\ task[t].role \in {"setup", "run", "stranded", "recover"}
  BY TerminalizeDoes
<1> USE Acting
<1>2. CASE UNCHANGED row /\ Leaves(t)
  BY <1>2, LeavesCopies DEF RowsKept
<1>3. ASSUME IsActive(task[t].job), NEW status \in Retriable,
             Writes(task[t].job, status, task[t].js),
             \/ Leaves(t)
             \/ /\ task[t].js.staging /\ ~task[t].js.rberr
                /\ Moves(t, task[t].role, "clear", task[t].js)
      PROVE  CopyGood(t)
  <2>1. Copied(task[t])
    BY <1>1, Copying
  <2>2. /\ Shaped(row[task[t].job].kind, task[t].js)
        /\ Agrees(task[t], row[task[t].job])
    BY <1>3, <2>1 DEF Copied, IsActive
  <2>3. RowsShaped'
    BY <1>1, <1>3, <2>1, <2>2, WriteShaped DEF Copied
  <2>4. OwnKept(t, task[t].job)
    BY <1>1, <1>3, <2>2
    DEF Agrees, Staging, OwnKept, Writes, Active, Retriable, Past, Waiting
  <2>5. CASE Leaves(t)
    BY <2>3, <2>4, <2>5 DEF Leaves, Idles, Proceeds, CopyGood
  <2>6. status \in Finished
    BY DEF Retriable, Finished
  <2> QED
    BY <1>1, <1>3, <2>2, <2>3, <2>4, <2>5, <2>6, ClearCopies
<1> QED
  BY <1>2, <1>3, TerminalizeDoes

LEMMA UndoCopied ==
    ASSUME SerialInv, IdsInv, ErrorInv, CopyInv, NEW t \in Tasks, Undo(t)
    PROVE  CopyGood(t)
<1>1. CASE RemoveNewInstance(t)
  <2>1. RowsKept
    BY <1>1, RemoveNewInstanceDoes DEF Drops, RowsKept
  <2> QED
    BY <1>1, <2>1, RemoveNewInstanceDoes, CleanedCopies
<1>2. CASE NothingToUndo(t)
  BY <1>2, NothingToUndoDoes, CleanedCopies DEF RowsKept
<1>3. CASE RestoreStage(t)
  BY <1>3, RestoreStageDoes, CleanedCopies DEF RowsKept
<1>4. CASE BeginRestore(t)
  <2>1. /\ task[t].pc = "cleanup" /\ row[task[t].job].kind = "update"
        /\ task[t].js.rb # None /\ task[t].js.staging /\ UNCHANGED row
    BY <1>4, BeginRestoreDoes
  <2>2. CASE CleanedTo(t, FALSE)
    BY <2>1, <2>2, CleanedCopies DEF RowsKept
  <2>3. CASE Moves(t, task[t].role, "restoring", task[t].js)
    <3>1. /\ task'[t].role = task[t].role /\ task'[t].pc = "restoring"
          /\ task'[t].js = task[t].js /\ task'[t].job = task[t].job
      BY <2>3 DEF Moves
    <3>2. RowsShaped' /\ (task[t].job # None => OwnKept(t, task[t].job))
      BY <2>1, Acting, RowsKeptCopies DEF RowsKept
    <3>3. Copied(task[t])
      BY <2>1, Copying
    <3>4. row[task[t].job].status \in Active => Agrees(task'[t], row[task[t].job])
      BY <2>1, <3>1, <3>3 DEF Copied, Agrees, Staging, Holding
    <3>5. Copied(task[t])'
      BY <2>1, <3>1, <3>3, <3>4 DEF Copied, Past, Waiting
    <3> QED
      BY <3>2, <3>5 DEF CopyGood
  <2> QED
    BY <1>4, <2>2, <2>3, BeginRestoreDoes
<1>5. CASE EndRestore(t)
  <2>1. task[t].js.staging /\ task[t].pc = "restoring"
    BY <1>5, EndRestoreDoes, Copying DEF Copied
  <2> QED
    BY <1>5, <2>1, EndRestoreDoes, CleanedCopies DEF RowsKept
<1>6. CASE FailJob(t) \/ InterruptJob(t)
  BY <1>6, TerminalizeCopies
<1>7. CASE ClearStaging(t)
  BY <1>7, ClearStagingDoes, LeavesCopies DEF RowsKept
<1> QED
  BY <1>1, <1>2, <1>3, <1>4, <1>5, <1>6, <1>7 DEF Undo

LEMMA ClaimCancelCopies ==
    ASSUME SerialInv, IdsInv, ErrorInv, CopyInv, NEW t \in Tasks, ClaimCancel(t)
    PROVE  CopyGood(t)
<1>1. task[t].role = "cancel" /\ task[t].pc = "claim"
  BY ClaimCancelDoes
<1> USE Acting
<1>2. CASE Idles(t) /\ UNCHANGED row
  BY <1>2, LeavesCopies DEF RowsKept
<1>3. CASE /\ row[task[t].job].status = "queued"
           /\ Writes(task[t].job, "running", task[t].js)
           /\ Moves(t, "cancel", "cleanup", task[t].js)
  <2>1. /\ task'[t].role = "cancel" /\ task'[t].pc = "cleanup"
        /\ task'[t].js = task[t].js /\ task'[t].job = task[t].job
        /\ row'[task[t].job].js = task[t].js /\ row'[task[t].job].status = "running"
        /\ row'[task[t].job].kind = row[task[t].job].kind
    BY <1>3 DEF Moves, Writes
  <2>2. /\ Copied(task[t]) /\ SameId(task[t]) /\ ~task[t].js.rberr
        /\ ~row[task[t].job].js.staging /\ ~task[t].js.staging
    BY <1>1, <1>3, Copying DEF RowFits, Unerred
  <2>3. /\ Agrees(task[t], row[task[t].job])
        /\ task[t].js.id = row[task[t].job].js.id
        /\ Shaped(row[task[t].job].kind, task[t].js)
    BY <1>1, <1>3, <2>2 DEF Copied, SameId, Active
  <2>4. task[t].js.rb = row[task[t].job].js.rb
    BY <1>1, <2>3 DEF Agrees, Staging, Holding
  <2>5. RowsShaped'
    BY <1>1, <1>3, <2>3, WriteShaped DEF Retriable
  <2>6. OwnKept(t, task[t].job)
    BY <1>1, <1>3, <2>1, <2>2, <2>3, <2>4 DEF OwnKept, Active
  <2>7. Agrees(task'[t], row'[task'[t].job])
    BY <2>1 DEF Agrees, Staging
  <2>8. Copied(task[t])'
    BY <2>1, <2>2, <2>3, <2>7 DEF Copied
  <2> QED
    BY <2>5, <2>6, <2>8 DEF CopyGood
<1> QED
  BY <1>2, <1>3, ClaimCancelDoes

LEMMA FinishCancelCopies ==
    ASSUME SerialInv, IdsInv, ErrorInv, CopyInv, NEW t \in Tasks, FinishCancel(t)
    PROVE  CopyGood(t)
<1>1. task[t].role = "cancel" /\ task[t].pc = "finish" /\ Idles(t)
  BY FinishCancelDoes
<1> USE Acting
<1>2. CASE UNCHANGED row
  BY <1>1, <1>2, LeavesCopies DEF RowsKept
<1>3. ASSUME NEW status \in {"failed", "canceled"},
             status = "failed" <=> task[t].js.rberr,
             Writes(task[t].job, status, task[t].js)
      PROVE  CopyGood(t)
  <2>1. Shaped(row[task[t].job].kind, task[t].js)
    BY <1>1, Copying DEF Copied
  <2>2. RowsShaped'
    BY <1>1, <1>3, <2>1, WriteShaped DEF Retriable
  <2>3. OwnKept(t, task[t].job)
    BY <1>1, <1>3 DEF Writes, OwnKept, Active, Past
  <2> QED
    BY <1>1, <2>2, <2>3 DEF Idles, CopyGood
<1> QED
  BY <1>2, <1>3, FinishCancelDoes

LEMMA ListedCopies ==
    ASSUME SerialInv, CopyInv, NEW t \in Tasks, NEW j \in Jobs,
           CancelForDeletion(t, j) \/ RecoverDeleted(t, j)
    PROVE  CopyGood(t)
<1>1. task[t].job = None /\ task'[t].job = None
  BY ListedDoes
<1>2. RowsShaped'
  <2>1. CASE UNCHANGED row
    BY <2>1 DEF CopyInv, RowsShaped, RowShaped
  <2>2. CASE Writes(j, "canceled", row[j].js)
    BY <2>2, WriteShaped DEF CopyInv, RowsShaped, RowShaped, Retriable
  <2> QED
    BY <2>1, <2>2, ListedDoes
<1> QED
  BY <1>1, <1>2 DEF CopyGood

LEMMA StepCopies ==
    ASSUME SerialInv, IdsInv, ErrorInv, CopyInv, NEW t \in Tasks, Step(t)
    PROVE  CopyGood(t) \/ Recovered(t) \/ \E j \in Jobs : Recover(t, j)
<1>1. CASE Setup(t)
  BY <1>1, RequeueCopies, PrepareCopies, PersistCopies, LockAndSpawnCopies DEF Setup
<1>2. CASE Run(t)
  BY <1>2, AcquireCopies, ClaimCopies, WorkNewCopies, WorkExistingCopies,
     BackupCopies, InstallCopies, RereadCopies, SucceedCopies,
     CheckStrandedCopies DEF Run
<1>3. CASE Removal(t)
  <2>1. CASE RemoveInstance(t)
    <3>1. RowsKept /\ Idles(t)
      BY <2>1, RemoveInstanceDoes DEF RowsKept, Drops
    <3> QED
      BY <3>1, LeavesCopies
  <2> QED
    BY <1>3, <2>1, ClaimCancelCopies, FinishCancelCopies, ListedCopies DEF Removal
<1>4. CASE Recovery(t)
  BY <1>4, ListedCopies DEF Recovery
<1> QED
  BY <1>1, <1>2, <1>3, <1>4, UndoCopied DEF Step

\* A command begins, or recovery goes on to the next job.
LEMMA BeginCopies ==
    ASSUME SerialInv, CopyInv, NEW t \in Tasks, Others(t),
           \A k \in Jobs :
               \/ row'[k] = row[k]
               \/ row[k].status = "absent" /\ RowShaped(k)',
           task'[t].job # None => Copied(task[t])'
    PROVE  CopyInv'
<1>1. RowsShaped'
  BY DEF CopyInv, RowsShaped, RowShaped
<1>2. ASSUME NEW s \in Tasks \ {t}, task[s].job # None
      PROVE  Copied(task[s])'
  <2>1. /\ task[s].job \in Jobs /\ row[task[s].job].status # "absent"
        /\ Copied(task[s]) /\ task'[s] = task[s]
    BY <1>2, WaitsOrNot DEF Others, CopyInv
  <2>2. row'[task[s].job] = row[task[s].job]
    BY <2>1
  <2> QED
    BY <2>1, <2>2 DEF Copied
<1>3. \A s \in Tasks : task'[s].job # None => Copied(task[s])'
  BY <1>2 DEF Others
<1> QED
  BY <1>1, <1>3 DEF CopyInv

LEMMA IdlingCopies ==
    ASSUME CopyInv, UNCHANGED row,
           \A s \in Tasks : task'[s] \in {task[s], IdleTask}
    PROVE  CopyInv'
<1>1. RowsShaped'
  BY DEF CopyInv, RowsShaped, RowShaped
<1>2. ASSUME NEW s \in Tasks, task'[s].job # None
      PROVE  Copied(task[s])'
  <2>1. task'[s] = task[s]
    BY <1>2 DEF IdleTask
  <2> QED
    BY <1>2, <2>1 DEF CopyInv, Copied
<1> QED
  BY <1>1, <1>2 DEF CopyInv

LEMMA CommandCopies ==
    ASSUME SerialInv, ErrorInv, CopyInv, NEW t \in Tasks, Command(t)
    PROVE  CopyInv'
<1>1. ASSUME NEW j \in Jobs, NEW kind \in Kinds, NEW id \in Instances \cup {None},
             Start(t, j, kind, id)
      PROVE  CopyInv'
  <2>1. /\ row[j].status = "absent" /\ row'[j].js = NewState(id)
        /\ row'[j].status = "queued"
        /\ \A k \in Jobs \ {j} : row'[k] = row[k]
    BY <1>1 DEF Start, SerialInv, TypeOK
  <2>2. /\ Others(t) /\ task'[t].role = "setup" /\ task'[t].pc = "prepare"
        /\ task'[t].job = j /\ task'[t].js = NewState(id)
    BY <1>1 DEF Start, SerialInv, TypeOK, Others, IdleTask, Task
  <2>3. NewState(id).rb = None /\ ~NewState(id).staging /\ ~NewState(id).rberr
    BY DEF NewState
  <2>4. RowShaped(j)'
    BY <2>1, <2>3 DEF RowShaped, Shaped, Retriable
  <2>5. Copied(task[t])'
    BY <2>1, <2>2, <2>3 DEF Copied, Shaped, Agrees, Staging, Past, Holding
  <2> QED
    BY <2>1, <2>2, <2>4, <2>5, BeginCopies
<1>2. ASSUME NEW j \in Jobs, Retry(t, j) PROVE CopyInv'
  <2>1. /\ Others(t) /\ task'[t].role = "retry" /\ task'[t].job = j
        /\ task'[t].pc = IF row[j].js.rberr THEN "cleanup" ELSE "requeue"
        /\ task'[t].js = row[j].js
        /\ UNCHANGED row /\ row[j].status \in {"failed", "interrupted"}
    BY <1>2 DEF Retry, SerialInv, TypeOK, Others, IdleTask, Task
  <2>2. Shaped(row[j].kind, row[j].js)
    BY DEF CopyInv, RowsShaped, RowShaped
  <2>3. Copied(task[t])'
    BY <2>1, <2>2 DEF Copied, Active, Past
  <2> QED
    BY <2>1, <2>3, BeginCopies
<1>3. ASSUME NEW j \in Jobs, Cancel(t, j) PROVE CopyInv'
  <2>1. /\ Others(t) /\ task'[t].role = "cancel" /\ task'[t].pc = "claim"
        /\ task'[t].job = j /\ task'[t].js = row[j].js
        /\ UNCHANGED row /\ row[j].status = "queued"
    BY <1>3 DEF Cancel, SerialInv, TypeOK, Others, IdleTask, Task
  <2>2. Shaped(row[j].kind, row[j].js)
    BY DEF CopyInv, RowsShaped, RowShaped
  <2>3. Agrees(task'[t], row'[j])
    BY <2>1 DEF Agrees, Staging
  <2>4. Copied(task[t])'
    BY <2>1, <2>2, <2>3 DEF Copied, Past, Retriable
  <2> QED
    BY <2>1, <2>4, BeginCopies
<1>4. ASSUME NEW i \in Instances, Delete(t, i) PROVE CopyInv'
  <2>1. Others(t) /\ task'[t].job = None /\ UNCHANGED row
    BY <1>4 DEF Delete, SerialInv, TypeOK, Others, IdleTask, Task
  <2> QED
    BY <2>1, BeginCopies
<1> QED
  BY <1>1, <1>2, <1>3, <1>4 DEF Command

LEMMA CopyNext ==
    ASSUME Serial, SerialInv, SerialInv', IdsInv, ErrorInv, CopyInv, [Next]_vars
    PROVE  CopyInv'
<1>1. CASE UNCHANGED vars
  BY <1>1, IdlingCopies DEF vars
<1>2. CASE Crash
  BY <1>2, IdlingCopies DEF Crash
<1>3. ASSUME NEW j \in Jobs, Dismiss(j) PROVE CopyInv'
  BY <1>3, IdlingCopies DEF Dismiss
<1>4. ASSUME NEW t \in Tasks, Boot(t) PROVE CopyInv'
  <2>1. Others(t) /\ task'[t].job = None /\ UNCHANGED row
    BY <1>4 DEF Boot, SerialInv, TypeOK, Others, IdleTask, Task
  <2> QED
    BY <2>1, BeginCopies
<1>5. ASSUME NEW t \in Tasks, Command(t) PROVE CopyInv'
  BY <1>5, CommandCopies
<1>6. ASSUME NEW t \in Tasks, Step(t) PROVE CopyInv'
  <2>1. CASE Recovered(t)
    BY <2>1, IdlingCopies DEF Recovered, Return, SerialInv, TypeOK
  <2>2. ASSUME NEW j \in Jobs, Recover(t, j) PROVE CopyInv'
    <3>1. /\ Others(t) /\ task'[t].role = "recover" /\ task'[t].pc = "cleanup"
          /\ task'[t].job = j /\ task'[t].js = row[j].js
          /\ UNCHANGED row /\ task[t].role = "recover" /\ j \in task[t].left
      BY <2>2 DEF Recover, At, SerialInv, TypeOK, Others, Task
    <3>2. IsActive(j)
      BY <3>1 DEF SerialInv, LeftToRecover
    <3>3. ~row[j].js.rberr /\ Shaped(row[j].kind, row[j].js)
      BY <3>2 DEF ErrorInv, ErrorsRetriable, Retriable, IsActive, Active,
                  CopyInv, RowsShaped, RowShaped
    <3>4. Agrees(task'[t], row'[j])
      BY <3>1 DEF Agrees, Staging
    <3>5. Copied(task[t])'
      BY <3>1, <3>3, <3>4 DEF Copied, Past
    <3> QED
      BY <3>1, <3>5, BeginCopies
  <2>3. CASE Good(t) /\ CopyGood(t)
    BY <2>3, StepKeepsCopies
  <2> QED
    BY <1>6, <2>1, <2>2, <2>3, StepGood, StepCopies
<1> QED
  BY <1>1, <1>2, <1>3, <1>4, <1>5, <1>6 DEF Next

LEMMA CopyInit == Init => CopyInv
BY DEF Init, CopyInv, RowsShaped, RowShaped, Shaped, NewState, Retriable, IdleTask
=============================================================================
