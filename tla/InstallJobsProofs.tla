------------------------- MODULE InstallJobsProofs -------------------------
(***************************************************************************)
(* Theorems about InstallJobs, for every number of jobs, tasks, instances, *)
(* permits, retries and crashes, and for clients that overlap commands.    *)
(***************************************************************************)
EXTENDS InstallJobsProperties, TLAPS, FiniteSetTheorems

----------------------------------------------------------------------------
(* The statements on the rows and the moves of a task keep their types. *)

TasksOK == task \in [Tasks -> Task] /\ \A t \in Tasks : WellFormed(task[t])

LEMMA StateTyped ==
    ASSUME NEW id \in Instances \cup {None}
    PROVE  NewState(id) \in JobState
BY DEF NewState, JobState

LEMMA SlotTyped ==
    ASSUME TasksOK, NEW t \in Tasks, NEW x \in Task, WellFormed(x),
           task' = [task EXCEPT ![t] = x]
    PROVE  TasksOK'
BY DEF TasksOK

\* What a program counter demands of the job, the rollback and the stage
\* that the task carries.
Allowed(pc, job, js, prev) ==
    /\ pc \in Pcs
    /\ pc \notin {"idle", "list", "next"} => job \in Jobs
    /\ pc = "restoring" => js.rb # None
    /\ pc \in {"backup", "save", "install"} => prev # None

LEMMA GotoTyped ==
    ASSUME TasksOK, NEW t \in Tasks, NEW pc, Goto(t, pc),
           Allowed(pc, task[t].job, task[t].js, task[t].prev)
    PROVE  TasksOK'
<1> DEFINE x == [task[t] EXCEPT !.pc = pc]
<1>1. x \in Task /\ WellFormed(x)
  BY DEF TasksOK, Task, Allowed, WellFormed
<1>2. task' = [task EXCEPT ![t] = x]
  BY DEF Goto
<1> QED
  BY <1>1, <1>2, SlotTyped

LEMMA GotoWithTyped ==
    ASSUME TasksOK, NEW t \in Tasks, NEW pc, NEW js \in JobState,
           GotoWith(t, pc, js), Allowed(pc, task[t].job, js, task[t].prev)
    PROVE  TasksOK'
<1> DEFINE x == [task[t] EXCEPT !.pc = pc, !.js = js]
<1>1. x \in Task /\ WellFormed(x)
  BY DEF TasksOK, Task, Allowed, WellFormed
<1>2. task' = [task EXCEPT ![t] = x]
  BY DEF GotoWith
<1> QED
  BY <1>1, <1>2, SlotTyped

LEMMA ReturnTyped ==
    ASSUME TasksOK, NEW t \in Tasks, Return(t)
    PROVE  TasksOK'
<1>1. IdleTask \in Task /\ WellFormed(IdleTask)
  BY StateTyped DEF IdleTask, Task, WellFormed, Roles, Pcs
<1> QED
  BY <1>1 DEF TasksOK, Return

LEMMA MoveTyped ==
    ASSUME TasksOK, NEW t \in Tasks, NEW pc, NEW js \in JobState,
           NEW role \in Roles, Allowed(pc, task[t].job, js, task[t].prev),
           task' = [task EXCEPT ![t].role = role, ![t].pc = pc, ![t].js = js]
    PROVE  TasksOK'
<1> DEFINE x == [task[t] EXCEPT !.role = role, !.pc = pc, !.js = js]
<1>1. x \in Task /\ WellFormed(x)
  BY DEF TasksOK, Task, Allowed, WellFormed
<1>2. task' = [task EXCEPT ![t] = x]
  OBVIOUS
<1> QED
  BY <1>1, <1>2, SlotTyped

LEMMA MoveJobTyped ==
    ASSUME TasksOK, NEW t \in Tasks, NEW pc, NEW js \in JobState,
           NEW job \in Jobs \cup {None}, Allowed(pc, job, js, task[t].prev),
           task' = [task EXCEPT ![t].pc = pc, ![t].job = job, ![t].js = js]
    PROVE  TasksOK'
<1> DEFINE x == [task[t] EXCEPT !.pc = pc, !.job = job, !.js = js]
<1>1. x \in Task /\ WellFormed(x)
  BY DEF TasksOK, Task, Allowed, WellFormed
<1>2. task' = [task EXCEPT ![t] = x]
  OBVIOUS
<1> QED
  BY <1>1, <1>2, SlotTyped

LEMMA MoveStageTyped ==
    ASSUME TasksOK, NEW t \in Tasks, NEW pc, NEW js \in JobState,
           NEW stage \in Stages, Allowed(pc, task[t].job, js, stage),
           task' = [task EXCEPT ![t].pc = pc, ![t].js = js, ![t].prev = stage]
    PROVE  TasksOK'
<1> DEFINE x == [task[t] EXCEPT !.pc = pc, !.js = js, !.prev = stage]
<1>1. x \in Task /\ WellFormed(x)
  BY DEF TasksOK, Task, Allowed, WellFormed
<1>2. task' = [task EXCEPT ![t] = x]
  OBVIOUS
<1> QED
  BY <1>1, <1>2, SlotTyped

LEMMA LeftTyped ==
    ASSUME TasksOK, NEW t \in Tasks, NEW left \in SUBSET Jobs,
           task' = [task EXCEPT ![t].left = left]
    PROVE  TasksOK'
<1> DEFINE x == [task[t] EXCEPT !.left = left]
<1>1. x \in Task /\ WellFormed(x)
  BY DEF TasksOK, Task, WellFormed
<1>2. task' = [task EXCEPT ![t] = x]
  OBVIOUS
<1> QED
  BY <1>1, <1>2, SlotTyped

LEMMA UpdatedTyped ==
    ASSUME row \in [Jobs -> Row], NEW j \in Jobs, NEW js \in JobState
    PROVE  Updated(j, js) \in [Jobs -> Row]
<1>1. Selected(js.id) \in Instances \cup {None}
  BY DEF JobState, Selected, Exists
<1> QED
  BY <1>1 DEF Updated, Row

LEMMA WithStatusTyped ==
    ASSUME row \in [Jobs -> Row], NEW j \in Jobs, NEW js \in JobState,
           NEW status \in Active \cup Finished
    PROVE  WithStatus(j, status, js) \in [Jobs -> Row]
<1>1. js.id \in Instances \cup {None}
  BY DEF JobState
<1> QED
  BY <1>1 DEF WithStatus, Row

LEMMA FinishActiveTyped ==
    ASSUME row \in [Jobs -> Row], NEW j \in Jobs, NEW js \in JobState,
           NEW status \in Finished
    PROVE  FinishActive(j, status, js) \in [Jobs -> Row]
<1>1. Selected(js.id) \in Instances \cup {None}
  BY DEF JobState, Selected, Exists
<1>2. [row EXCEPT ![j].status = status, ![j].js = js,
                  ![j].col = Selected(js.id)] \in [Jobs -> Row]
  BY <1>1 DEF Row
<1> QED
  BY <1>2 DEF FinishActive

LEMMA StageTyped ==
    ASSUME inst \in [Instances -> Stages \cup {"unborn", "gone"}],
           NEW id, NEW stage \in Stages
    PROVE  WithStage(id, stage) \in [Instances -> Stages \cup {"unborn", "gone"}]
BY DEF WithStage, Exists

LEMMA DropTyped ==
    ASSUME TypeOK, NEW i \in Instances, DropInstance(i)
    PROVE  /\ row' \in [Jobs -> Row]
           /\ inst' \in [Instances -> Stages \cup {"unborn", "gone"}]
           /\ content' \in [Instances -> {"clean", "mixed"}]
BY DEF TypeOK, DropInstance, Row

LEMMA TaskFacts ==
    ASSUME TypeOK, NEW t \in Tasks
    PROVE  /\ TasksOK
           /\ task[t] \in Task
           /\ task[t].js \in JobState
           /\ task[t].js.id \in Instances \cup {None}
           /\ task[t].pc \in Pcs
           /\ task[t].pc \notin {"idle", "list", "next"} =>
                /\ task[t].job \in Jobs
                /\ row[task[t].job] \in Row
                /\ row[task[t].job].js \in JobState
           /\ task[t].pc = "restoring" => task[t].js.rb \in Stages
           /\ task[t].pc \in {"backup", "save", "install"} =>
                task[t].prev \in Stages /\ task[t].prev # None
BY DEF TypeOK, TasksOK, Task, JobState, WellFormed, Row

LEMMA SetupTyped ==
    ASSUME TypeOK, NEW t \in Tasks, Setup(t)
    PROVE  TypeOK'
<1> USE TaskFacts
<1>1. CASE Requeue(t)
  <2> DEFINE j == task[t].job
             js == NewState(IF row[j].kind = "create" THEN None
                            ELSE task[t].js.id)
  <2>1. j \in Jobs /\ js \in JobState
    BY <1>1, StateTyped DEF Requeue, At
  <2>2. row' \in [Jobs -> Row]
    BY <1>1, <2>1, WithStatusTyped DEF Requeue, TypeOK, Active
  <2>3. TasksOK'
    <3>1. CASE Return(t)
      BY <3>1, ReturnTyped
    <3>2. CASE task' = [task EXCEPT ![t].role = "setup",
                                    ![t].pc = "prepare", ![t].js = js]
      <4>1. "setup" \in Roles /\ Allowed("prepare", j, js, task[t].prev)
        BY <2>1 DEF Roles, Allowed, Pcs
      <4> QED
        BY <3>2, <2>1, <4>1, MoveTyped
    <3> QED
      BY <1>1, <3>1, <3>2 DEF Requeue
  <2> QED
    BY <1>1, <2>2, <2>3 DEF Requeue, TypeOK, TasksOK
<1>2. CASE PrepareNew(t)
  <2>1. task[t].job \in Jobs
    BY <1>2 DEF PrepareNew, At
  <2>2. inst' \in [Instances -> Stages \cup {"unborn", "gone"}]
    BY <1>2 DEF PrepareNew, TypeOK, Stages, Instances
  <2>3. TasksOK'
    <3>1. CASE Goto(t, "cleanup")
      BY <3>1, <2>1, GotoTyped DEF Allowed, Pcs
    <3>2. ASSUME NEW i \in Fresh, NEW pc \in {"persist", "cleanup"},
                 GotoWith(t, pc, [task[t].js EXCEPT !.id = i])
          PROVE  TasksOK'
      <4>1. [task[t].js EXCEPT !.id = i] \in JobState
        BY DEF JobState, Instances
      <4> QED
        BY <3>2, <4>1, <2>1, GotoWithTyped DEF Allowed, Pcs
    <3> QED
      BY <1>2, <3>1, <3>2 DEF PrepareNew
  <2> QED
    BY <1>2, <2>2, <2>3 DEF PrepareNew, TypeOK, TasksOK
<1>3. CASE PrepareExisting(t)
  <2>1. task[t].job \in Jobs
    BY <1>3 DEF PrepareExisting, At
  <2>2. TasksOK'
    <3>1. CASE Goto(t, "cleanup")
      BY <3>1, <2>1, GotoTyped DEF Allowed, Pcs
    <3>2. CASE /\ Exists(task[t].js.id)
               /\ GotoWith(t, "persist",
                           [task[t].js EXCEPT !.rb = inst[task[t].js.id]])
      <4>1. [task[t].js EXCEPT !.rb = inst[task[t].js.id]] \in JobState
        BY <3>2 DEF JobState, Exists
      <4> QED
        BY <3>2, <4>1, <2>1, GotoWithTyped DEF Allowed, Pcs
    <3> QED
      BY <1>3, <3>1, <3>2 DEF PrepareExisting
  <2> QED
    BY <1>3, <2>2 DEF PrepareExisting, TypeOK, TasksOK
<1>4. CASE Persist(t)
  <2>1. task[t].job \in Jobs
    BY <1>4 DEF Persist, At
  <2>2. row' \in [Jobs -> Row]
    BY <1>4, <2>1, UpdatedTyped DEF Persist, TypeOK
  <2>3. TasksOK'
    BY <1>4, <2>1, GotoTyped DEF Persist, Allowed, Pcs
  <2> QED
    BY <1>4, <2>2, <2>3 DEF Persist, TypeOK, TasksOK
<1>5. CASE LockAndSpawn(t)
  <2>1. task[t].job \in Jobs
    BY <1>5 DEF LockAndSpawn, At
  <2>2. inst' \in [Instances -> Stages \cup {"unborn", "gone"}]
    <3>1. WithStage(task[t].js.id, "installing")
            \in [Instances -> Stages \cup {"unborn", "gone"}]
      BY StageTyped DEF TypeOK, Stages
    <3> QED
      BY <1>5, <3>1 DEF LockAndSpawn, TypeOK
  <2>3. TasksOK'
    <3>1. CASE Goto(t, "cleanup")
      BY <3>1, <2>1, GotoTyped DEF Allowed, Pcs
    <3>2. CASE task' = [task EXCEPT ![t] = [IdleTask EXCEPT !.role = "run",
                            !.pc = "read", !.job = task[t].job]]
      BY <3>2, <2>1, StateTyped
      DEF TasksOK, IdleTask, Task, WellFormed, Roles, Pcs
    <3> QED
      BY <1>5, <3>1, <3>2 DEF LockAndSpawn
  <2> QED
    BY <1>5, <2>2, <2>3 DEF LockAndSpawn, TypeOK, TasksOK
<1> QED
  BY <1>1, <1>2, <1>3, <1>4, <1>5 DEF Setup

LEMMA StrandTyped ==
    ASSUME TasksOK, NEW t \in Tasks, task[t].job \in Jobs, Strand(t)
    PROVE  TasksOK'
<1>1. "stranded" \in Roles /\ "check" \in Pcs
  BY DEF Roles, Pcs
<1> QED
  BY <1>1 DEF Strand, TasksOK, Task, WellFormed

LEMMA AfterFinishTyped ==
    ASSUME TasksOK, NEW t \in Tasks, task[t].job \in Jobs, NEW js \in JobState,
           AfterFinish(t, js)
    PROVE  TasksOK'
<1>1. "clear" \in Pcs /\ "next" \in Pcs /\ NewState(None) \in JobState
  BY StateTyped DEF Pcs
<1>2. CASE task' = [task EXCEPT ![t].pc = "clear", ![t].js = js]
  BY <1>1, <1>2 DEF TasksOK, Task, WellFormed
<1>3. CASE task' = [task EXCEPT ![t].pc = "next", ![t].job = None,
                                ![t].js = NewState(None)]
  <2>1. Allowed("next", None, NewState(None), task[t].prev)
    BY <1>1 DEF Allowed
  <2> QED
    BY <1>1, <1>3, <2>1, MoveJobTyped
<1> QED
  BY <1>2, <1>3, ReturnTyped DEF AfterFinish

LEMMA RunTyped ==
    ASSUME TypeOK, NEW t \in Tasks, Run(t)
    PROVE  TypeOK'
<1> USE TaskFacts
<1>1. CASE RunRead(t)
  <2>1. TasksOK'
    BY <1>1, GotoTyped, ReturnTyped DEF RunRead, At, Allowed, Pcs
  <2> QED
    BY <1>1, <2>1 DEF RunRead, TypeOK, TasksOK
<1>2. CASE Acquire(t)
  <2>1. task[t].job \in Jobs /\ row[task[t].job].js \in JobState
    BY <1>2 DEF Acquire, At
  <2>2. TasksOK'
    BY <1>2, <2>1, GotoWithTyped, ReturnTyped
    DEF Acquire, Allowed, Pcs
  <2> QED
    BY <1>2, <2>2 DEF Acquire, TypeOK, TasksOK
<1>3. CASE Claim(t)
  <2>1. task[t].job \in Jobs
    BY <1>3 DEF Claim, At
  <2>2. row' \in [Jobs -> Row]
    BY <1>3, <2>1, WithStatusTyped DEF Claim, TypeOK, Active
  <2>3. TasksOK'
    BY <1>3, <2>1, GotoTyped, ReturnTyped, StrandTyped
    DEF Claim, Allowed, Pcs
  <2> QED
    BY <1>3, <2>2, <2>3 DEF Claim, TypeOK, TasksOK
<1>4. CASE WorkNew(t)
  <2>1. task[t].job \in Jobs
    BY <1>4 DEF WorkNew, At
  <2>2. inst' \in [Instances -> Stages \cup {"unborn", "gone"}]
    BY <1>4, StageTyped DEF WorkNew, TypeOK, Stages
  <2>3. TasksOK'
    <3>1. CASE Goto(t, "ended_err")
      BY <3>1, <2>1, GotoTyped DEF Allowed, Pcs
    <3>2. CASE /\ Exists(task[t].js.id)
               /\ task' = [task EXCEPT ![t].pc = "install",
                                       ![t].prev = inst[task[t].js.id]]
      <4>1. inst[task[t].js.id] \in Stages /\ None \notin Stages
        BY <3>2, StagesAssumption DEF Exists, Stages
      <4> QED
        BY <3>2, <4>1, <2>1 DEF TasksOK, Task, WellFormed, Pcs
    <3> QED
      BY <1>4, <3>1, <3>2 DEF WorkNew
  <2> QED
    BY <1>4, <2>2, <2>3 DEF WorkNew, TypeOK, TasksOK
<1>5. CASE WorkExisting(t)
  <2> DEFINE id == task[t].js.id
             js == [task[t].js EXCEPT !.rb = IF @ = None THEN inst[id] ELSE @]
  <2>1. task[t].job \in Jobs
    BY <1>5 DEF WorkExisting, At
  <2>2. CASE ~Exists(id)
    <3>1. TasksOK'
      BY <1>5, <2>1, <2>2, GotoTyped DEF WorkExisting, Allowed, Pcs
    <3> QED
      BY <1>5, <2>2, <3>1 DEF WorkExisting, TypeOK, TasksOK
  <2>3. CASE Exists(id)
    <3>1. js \in JobState
      BY <2>3 DEF Exists, JobState
    <3>2. row' \in [Jobs -> Row]
      BY <1>5, <2>1, <2>3, <3>1, UpdatedTyped DEF WorkExisting, TypeOK
    <3>3. inst' \in [Instances -> Stages \cup {"unborn", "gone"}]
      BY <1>5, <2>3, StageTyped DEF WorkExisting, TypeOK, Stages
    <3>4. content' \in [Instances -> {"clean", "mixed"}]
      BY <1>5, <2>3 DEF WorkExisting, TypeOK
    <3>5. PICK pc \in {"backup", "install", "ended_err"} :
            task' = [task EXCEPT ![t].pc = pc, ![t].js = js,
                                 ![t].prev = "installing"]
      BY <1>5, <2>3 DEF WorkExisting
    <3>6. TasksOK'
      <4>1. /\ pc \in Pcs \ {"idle", "list", "next", "restoring"}
            /\ "installing" \in Stages /\ "installing" # None
        BY StagesAssumption DEF Pcs, Stages
      <4> QED
        BY <2>1, <3>1, <3>5, <4>1, MoveStageTyped DEF Allowed
    <3> QED
      BY <1>5, <2>3, <3>2, <3>3, <3>4, <3>6 DEF WorkExisting, TypeOK, TasksOK
  <2> QED
    BY <2>2, <2>3
<1>6. CASE Backup(t)
  <2>1. task[t].job \in Jobs
    BY <1>6 DEF Backup, At
  <2>2. backup' \in [Jobs -> {"none", "clean", "mixed"}]
    <3>1. Exists(task[t].js.id) =>
            content[task[t].js.id] \in {"none", "clean", "mixed"}
      BY DEF Exists, TypeOK
    <3> QED
      BY <1>6, <2>1, <3>1 DEF Backup, TypeOK
  <2>3. TasksOK'
    <3>1. [task[t].js EXCEPT !.staging = TRUE] \in JobState
      BY DEF JobState
    <3>2. CASE Goto(t, "ended_err")
      BY <3>2, <2>1, GotoTyped DEF Allowed, Pcs
    <3>3. CASE GotoWith(t, "save", [task[t].js EXCEPT !.staging = TRUE])
      <4>1. Allowed("save", task[t].job, [task[t].js EXCEPT !.staging = TRUE],
                    task[t].prev)
        BY <1>6, <2>1 DEF Backup, At, Allowed, Pcs
      <4> QED
        BY <3>3, <3>1, <4>1, GotoWithTyped
    <3> QED
      BY <1>6, <3>2, <3>3 DEF Backup
  <2> QED
    BY <1>6, <2>2, <2>3 DEF Backup, TypeOK, TasksOK
<1>7. CASE SaveBackup(t)
  <2>1. task[t].job \in Jobs
    BY <1>7 DEF SaveBackup, At
  <2>2. row' \in [Jobs -> Row]
    BY <1>7, <2>1, UpdatedTyped DEF SaveBackup, TypeOK
  <2>3. content' \in [Instances -> {"clean", "mixed"}]
    BY <1>7 DEF SaveBackup, TypeOK
  <2>4. TasksOK'
    <3>1. CASE Goto(t, "ended_err")
      BY <3>1, <2>1, GotoTyped DEF Allowed, Pcs
    <3>2. CASE Goto(t, "install")
      BY <1>7, <3>2, <2>1, GotoTyped DEF SaveBackup, At, Allowed, Pcs
    <3> QED
      BY <1>7, <3>1, <3>2 DEF SaveBackup
  <2> QED
    BY <1>7, <2>2, <2>3, <2>4 DEF SaveBackup, TypeOK, TasksOK
<1>8. CASE Install(t)
  <2>1. task[t].job \in Jobs
    BY <1>8 DEF Install, At
  <2>2. inst' \in [Instances -> Stages \cup {"unborn", "gone"}]
    <3>1. task[t].prev \in Stages
      BY <1>8 DEF Install, At
    <3>2. WithStage(task[t].js.id, task[t].prev)
            \in [Instances -> Stages \cup {"unborn", "gone"}]
      BY <3>1, StageTyped DEF TypeOK
    <3> QED
      BY <1>8, <3>2 DEF Install, TypeOK
  <2>3. content' \in [Instances -> {"clean", "mixed"}]
    BY <1>8 DEF Install, TypeOK
  <2>4. TasksOK'
    BY <1>8, <2>1, GotoTyped DEF Install, Allowed, Pcs
  <2> QED
    BY <1>8, <2>2, <2>3, <2>4 DEF Install, TypeOK, TasksOK
<1>9. CASE Reread(t)
  <2>1. /\ task[t].job \in Jobs
        /\ row[task[t].job].js \in JobState
        /\ [row[task[t].job].js EXCEPT !.id = task[t].js.id] \in JobState
    BY <1>9 DEF Reread, JobState
  <2>2. TasksOK'
    <3>1. CASE Return(t)
      BY <3>1, ReturnTyped
    <3>2. ASSUME NEW pc \in {"succeed", "cleanup"}, NEW js \in JobState,
                 GotoWith(t, pc, js)
          PROVE  TasksOK'
      BY <3>2, <2>1, GotoWithTyped DEF Allowed, Pcs
    <3>3. ASSUME NEW pc \in {"succeed", "cleanup"}, Goto(t, pc)
          PROVE  TasksOK'
      BY <3>3, <2>1, GotoTyped DEF Allowed, Pcs
    <3> QED
      BY <1>9, <2>1, <3>1, <3>2, <3>3 DEF Reread
  <2> QED
    BY <1>9, <2>2 DEF Reread, TypeOK, TasksOK
<1>10. CASE Succeed(t)
  <2> DEFINE js == [task[t].js EXCEPT !.rberr = FALSE]
  <2>1. task[t].job \in Jobs /\ js \in JobState
    BY <1>10 DEF Succeed, At, JobState
  <2>2. row' \in [Jobs -> Row]
    BY <1>10, <2>1, WithStatusTyped DEF Succeed, TypeOK, Finished
  <2>3. inst' \in [Instances -> Stages \cup {"unborn", "gone"}]
    BY <1>10, StageTyped DEF Succeed, TypeOK, Stages
  <2>4. TasksOK'
    BY <1>10, <2>1, AfterFinishTyped, ReturnTyped, StrandTyped DEF Succeed
  <2> QED
    BY <1>10, <2>2, <2>3, <2>4 DEF Succeed, TypeOK, TasksOK
<1>11. CASE CheckStranded(t)
  <2>1. task[t].job \in Jobs /\ row[task[t].job].js \in JobState
    BY <1>11 DEF CheckStranded, At
  <2>2. TasksOK'
    BY <1>11, <2>1, GotoWithTyped, ReturnTyped
    DEF CheckStranded, Allowed, Pcs
  <2> QED
    BY <1>11, <2>2 DEF CheckStranded, TypeOK, TasksOK
<1> QED
  BY <1>1, <1>2, <1>3, <1>4, <1>5, <1>6, <1>7, <1>8, <1>9, <1>10, <1>11
  DEF Run

----------------------------------------------------------------------------
(* Roll-back, cancellation, deletion and recovery. *)

LEMMA CleanedUpTyped ==
    ASSUME TypeOK, NEW t \in Tasks, task[t].job \in Jobs, NEW ok \in BOOLEAN,
           CleanedUp(t, ok)
    PROVE  TasksOK' /\ backup' \in [Jobs -> {"none", "clean", "mixed"}]
<1> USE TaskFacts
<1> DEFINE js == Undone(t, ok)
<1>1. js \in JobState
  BY DEF Undone, ClearId, JobState
<1>2. backup' \in [Jobs -> {"none", "clean", "mixed"}]
  BY DEF CleanedUp, TypeOK
<1>3. CASE GotoWith(t, "finish", js)
  BY <1>1, <1>2, <1>3, GotoWithTyped DEF Allowed, Pcs
<1>4. CASE Goto(t, "requeue")
  BY <1>2, <1>4, GotoTyped DEF Allowed, Pcs
<1>5. CASE Return(t)
  BY <1>2, <1>5, ReturnTyped
<1> QED
  BY <1>3, <1>4, <1>5 DEF CleanedUp

LEMMA UndoTyped ==
    ASSUME TypeOK, NEW t \in Tasks, Undo(t)
    PROVE  TypeOK'
<1> USE TaskFacts
<1>1. CASE RemoveNewInstance(t)
  <2>1. task[t].job \in Jobs /\ task[t].js.id \in Instances
    BY <1>1 DEF RemoveNewInstance, Undoes, Exists
  <2>2. TasksOK' /\ backup' \in [Jobs -> {"none", "clean", "mixed"}]
    BY <1>1, <2>1, CleanedUpTyped DEF RemoveNewInstance, Outcome
  <2>3. /\ row' \in [Jobs -> Row]
        /\ inst' \in [Instances -> Stages \cup {"unborn", "gone"}]
        /\ content' \in [Instances -> {"clean", "mixed"}]
    <3>1. CASE DropInstance(task[t].js.id)
      BY <3>1, <2>1, DropTyped
    <3>2. CASE UNCHANGED <<row, inst, content>>
      BY <3>2 DEF TypeOK
    <3> QED
      BY <1>1, <3>1, <3>2 DEF RemoveNewInstance
  <2> QED
    BY <1>1, <2>2, <2>3 DEF RemoveNewInstance, TypeOK, TasksOK
<1>2. CASE NothingToUndo(t)
  <2>1. task[t].job \in Jobs
    BY <1>2 DEF NothingToUndo, Undoes
  <2>2. TasksOK' /\ backup' \in [Jobs -> {"none", "clean", "mixed"}]
    BY <1>2, <2>1, CleanedUpTyped DEF NothingToUndo
  <2> QED
    BY <1>2, <2>2 DEF NothingToUndo, TypeOK, TasksOK
<1>3. CASE RestoreStage(t)
  <2>1. task[t].job \in Jobs /\ task[t].js.rb \in Stages
    BY <1>3 DEF RestoreStage, Undoes, JobState
  <2>2. TasksOK' /\ backup' \in [Jobs -> {"none", "clean", "mixed"}]
    BY <1>3, <2>1, CleanedUpTyped DEF RestoreStage
  <2>3. inst' \in [Instances -> Stages \cup {"unborn", "gone"}]
    <3>1. WithStage(task[t].js.id, task[t].js.rb)
            \in [Instances -> Stages \cup {"unborn", "gone"}]
      BY <2>1, StageTyped DEF TypeOK
    <3> QED
      BY <1>3, <3>1 DEF RestoreStage
  <2> QED
    BY <1>3, <2>2, <2>3 DEF RestoreStage, TypeOK, TasksOK
<1>4. CASE BeginRestore(t)
  <2>1. task[t].job \in Jobs /\ task[t].js.rb # None
    BY <1>4 DEF BeginRestore, Undoes
  <2>2. TasksOK' /\ backup' \in [Jobs -> {"none", "clean", "mixed"}]
    <3>1. CASE Goto(t, "restoring") /\ UNCHANGED backup
      <4>1. Allowed("restoring", task[t].job, task[t].js, task[t].prev)
        BY <2>1 DEF Allowed, Pcs
      <4> QED
        BY <3>1, <4>1, GotoTyped DEF TypeOK
    <3>2. CASE CleanedUp(t, FALSE)
      BY <3>2, <2>1, CleanedUpTyped
    <3> QED
      BY <1>4, <3>1, <3>2 DEF BeginRestore
  <2>3. content' \in [Instances -> {"clean", "mixed"}]
    BY <1>4 DEF BeginRestore, TypeOK
  <2> QED
    BY <1>4, <2>2, <2>3 DEF BeginRestore, TypeOK, TasksOK
<1>5. CASE EndRestore(t)
  <2>1. task[t].job \in Jobs /\ task[t].js.rb \in Stages
    BY <1>5 DEF EndRestore
  <2>2. TasksOK' /\ backup' \in [Jobs -> {"none", "clean", "mixed"}]
    BY <1>5, <2>1, CleanedUpTyped DEF EndRestore
  <2>3. inst' \in [Instances -> Stages \cup {"unborn", "gone"}]
    <3>1. WithStage(task[t].js.id, task[t].js.rb)
            \in [Instances -> Stages \cup {"unborn", "gone"}]
      BY <2>1, StageTyped DEF TypeOK
    <3> QED
      BY <1>5, <3>1 DEF EndRestore, TypeOK
  <2>4. content' \in [Instances -> {"clean", "mixed"}]
    BY <1>5, <2>1 DEF EndRestore, TypeOK
  <2> QED
    BY <1>5, <2>2, <2>3, <2>4 DEF EndRestore, TypeOK, TasksOK
<1>6. ASSUME NEW status \in {"failed", "interrupted"}, task[t].pc = "finish",
             Terminalize(t, status)
      PROVE  TypeOK'
  <2>1. task[t].job \in Jobs /\ status \in Finished
    BY <1>6 DEF Finished
  <2>2. row' \in [Jobs -> Row]
    BY <1>6, <2>1, FinishActiveTyped DEF Terminalize, TypeOK
  <2>3. TasksOK'
    BY <1>6, <2>1, AfterFinishTyped, StateTyped DEF Terminalize
  <2> QED
    BY <1>6, <2>2, <2>3 DEF Terminalize, TypeOK, TasksOK
<1>7. CASE ClearStaging(t)
  <2>1. task[t].job \in Jobs
    BY <1>7 DEF ClearStaging
  <2>2. TasksOK'
    BY <1>7, <2>1, AfterFinishTyped, StateTyped DEF ClearStaging
  <2>3. backup' \in [Jobs -> {"none", "clean", "mixed"}]
    BY <1>7 DEF ClearStaging, TypeOK
  <2> QED
    BY <1>7, <2>2, <2>3 DEF ClearStaging, TypeOK, TasksOK
<1> QED
  BY <1>1, <1>2, <1>3, <1>4, <1>5, <1>6, <1>7
  DEF Undo, FailJob, InterruptJob, At

LEMMA RemovalTyped ==
    ASSUME TypeOK, NEW t \in Tasks, Removal(t)
    PROVE  TypeOK'
<1> USE TaskFacts
<1>1. CASE ClaimCancel(t)
  <2>1. task[t].job \in Jobs
    BY <1>1 DEF ClaimCancel, At
  <2>2. row' \in [Jobs -> Row]
    BY <1>1, <2>1, WithStatusTyped DEF ClaimCancel, TypeOK, Active
  <2>3. TasksOK'
    BY <1>1, <2>1, GotoTyped, ReturnTyped DEF ClaimCancel, Allowed, Pcs
  <2> QED
    BY <1>1, <2>2, <2>3 DEF ClaimCancel, TypeOK, TasksOK
<1>2. CASE FinishCancel(t)
  <2>1. task[t].job \in Jobs
    BY <1>2 DEF FinishCancel, At
  <2>2. row' \in [Jobs -> Row]
    BY <1>2, <2>1, WithStatusTyped DEF FinishCancel, TypeOK, Finished
  <2>3. TasksOK'
    BY <1>2, <2>1, AfterFinishTyped, ReturnTyped DEF FinishCancel
  <2> QED
    BY <1>2, <2>2, <2>3 DEF FinishCancel, TypeOK, TasksOK
<1>3. CASE RemoveInstance(t)
  <2>1. TasksOK'
    BY <1>3, ReturnTyped DEF RemoveInstance
  <2>2. /\ row' \in [Jobs -> Row]
        /\ inst' \in [Instances -> Stages \cup {"unborn", "gone"}]
        /\ content' \in [Instances -> {"clean", "mixed"}]
    <3>1. CASE Exists(task[t].js.id) /\ DropInstance(task[t].js.id)
      BY <3>1, DropTyped DEF Exists
    <3>2. CASE UNCHANGED <<row, inst, content>>
      BY <3>2 DEF TypeOK
    <3> QED
      BY <1>3, <3>1, <3>2 DEF RemoveInstance
  <2> QED
    BY <1>3, <2>1, <2>2 DEF RemoveInstance, TypeOK, TasksOK
<1>4. ASSUME NEW j \in Jobs, CancelForDeletion(t, j)
      PROVE  TypeOK'
  <2>1. row' \in [Jobs -> Row]
    BY <1>4, FinishActiveTyped DEF CancelForDeletion, TypeOK, Finished, Row
  <2>2. dismissed' \subseteq Jobs
    BY <1>4 DEF CancelForDeletion, TypeOK
  <2>3. TasksOK'
    <3>1. task[t].left \ {j} \in SUBSET Jobs
      BY DEF Task
    <3>2. task' = [task EXCEPT ![t].left = task[t].left \ {j}]
      BY <1>4 DEF CancelForDeletion
    <3> QED
      BY <3>1, <3>2, LeftTyped
  <2> QED
    BY <1>4, <2>1, <2>2, <2>3 DEF CancelForDeletion, TypeOK, TasksOK
<1> QED
  BY <1>1, <1>2, <1>3, <1>4 DEF Removal

LEMMA RecoveryTyped ==
    ASSUME TypeOK, NEW t \in Tasks, Recovery(t)
    PROVE  TypeOK'
<1> USE TaskFacts
<1>1. CASE Recovered(t)
  <2>1. TasksOK'
    BY <1>1, ReturnTyped DEF Recovered
  <2> QED
    BY <1>1, <2>1 DEF Recovered, TypeOK, TasksOK
<1>2. ASSUME NEW j \in Jobs, Recover(t, j)
      PROVE  TypeOK'
  <2> DEFINE x == [task[t] EXCEPT !.left = task[t].left \ {j},
                                  !.pc = "cleanup", !.job = j, !.js = row[j].js]
  <2>1. row[j].js \in JobState /\ "cleanup" \in Pcs
    BY DEF TypeOK, Row, Pcs
  <2>2. x \in Task /\ WellFormed(x)
    BY <2>1 DEF Task, WellFormed
  <2>3. task' = [task EXCEPT ![t] = x]
    BY <1>2 DEF Recover
  <2>4. TasksOK'
    BY <2>2, <2>3, SlotTyped
  <2> QED
    BY <1>2, <2>4 DEF Recover, TypeOK, TasksOK
<1>3. ASSUME NEW j \in Jobs, RecoverDeleted(t, j)
      PROVE  TypeOK'
  <2>1. row' \in [Jobs -> Row]
    BY <1>3, FinishActiveTyped DEF RecoverDeleted, TypeOK, Finished, Row
  <2>2. dismissed' \subseteq Jobs
    BY <1>3 DEF RecoverDeleted, TypeOK
  <2>3. backup' \in [Jobs -> {"none", "clean", "mixed"}]
    BY <1>3 DEF RecoverDeleted, TypeOK
  <2>4. TasksOK'
    <3>1. task[t].left \ {j} \in SUBSET Jobs
      BY DEF Task
    <3>2. task' = [task EXCEPT ![t].left = task[t].left \ {j}]
      BY <1>3 DEF RecoverDeleted
    <3> QED
      BY <3>1, <3>2, LeftTyped
  <2> QED
    BY <1>3, <2>1, <2>2, <2>3, <2>4 DEF RecoverDeleted, TypeOK, TasksOK
<1> QED
  BY <1>1, <1>2, <1>3 DEF Recovery

LEMMA IdleTyped == IdleTask \in Task
BY StateTyped DEF IdleTask, Task, Roles, Pcs

LEMMA CommandTyped ==
    ASSUME TypeOK, NEW t \in Tasks, Command(t)
    PROVE  TypeOK'
<1> USE TaskFacts, IdleTyped
<1>1. ASSUME NEW j \in Jobs, NEW kind \in Kinds,
             NEW id \in Instances \cup {None}, Start(t, j, kind, id)
      PROVE  TypeOK'
  <2> DEFINE x == [IdleTask EXCEPT !.role = "setup", !.pc = "prepare",
                                   !.job = j, !.js = NewState(id)]
  <2>1. /\ "setup" \in Roles /\ "prepare" \in Pcs
        /\ NewState(id) \in JobState /\ kind \in AllKinds
    BY StateTyped, ConstantsAssumption DEF Roles, Pcs
  <2>2. x \in Task /\ WellFormed(x)
    BY <2>1 DEF Task, WellFormed
  <2>3. task' = [task EXCEPT ![t] = x]
    BY <1>1 DEF Start
  <2>4. TasksOK'
    BY <2>2, <2>3, SlotTyped
  <2>5. row' \in [Jobs -> Row]
    BY <1>1, <2>1 DEF Start, TypeOK, Row, Active
  <2> QED
    BY <1>1, <2>4, <2>5 DEF Start, TypeOK, TasksOK
<1>2. ASSUME NEW j \in Jobs, Retry(t, j)
      PROVE  TypeOK'
  <2> DEFINE pc == IF row[j].js.rberr THEN "cleanup" ELSE "requeue"
             x == [IdleTask EXCEPT !.role = "retry", !.pc = pc, !.job = j,
                                   !.js = row[j].js]
  <2>1. /\ "retry" \in Roles /\ pc \in Pcs \ {"restoring"}
        /\ pc \notin {"backup", "save", "install"}
        /\ row[j].js \in JobState
    BY DEF TypeOK, Row, Roles, Pcs
  <2>2. x \in Task /\ WellFormed(x)
    BY <2>1 DEF Task, WellFormed
  <2>3. task' = [task EXCEPT ![t] = x]
    BY <1>2 DEF Retry
  <2>4. TasksOK'
    BY <2>2, <2>3, SlotTyped
  <2>5. retries' \in 0..MaxRetries
    BY <1>2, ConstantsAssumption DEF Retry, TypeOK
  <2> QED
    BY <1>2, <2>4, <2>5 DEF Retry, TypeOK, TasksOK
<1>3. ASSUME NEW j \in Jobs, Cancel(t, j)
      PROVE  TypeOK'
  <2> DEFINE x == [IdleTask EXCEPT !.role = "cancel", !.pc = "claim",
                                   !.job = j, !.js = row[j].js]
  <2>1. "cancel" \in Roles /\ "claim" \in Pcs /\ row[j].js \in JobState
    BY DEF TypeOK, Row, Roles, Pcs
  <2>2. x \in Task /\ WellFormed(x)
    BY <2>1 DEF Task, WellFormed
  <2>3. task' = [task EXCEPT ![t] = x]
    BY <1>3 DEF Cancel
  <2>4. TasksOK'
    BY <2>2, <2>3, SlotTyped
  <2> QED
    BY <1>3, <2>4 DEF Cancel, TypeOK, TasksOK
<1>4. ASSUME NEW i \in Instances, Delete(t, i)
      PROVE  TypeOK'
  <2> DEFINE left == {j \in Jobs : IsActive(j) /\ row[j].col = i}
             x == [IdleTask EXCEPT !.role = "delete", !.pc = "list",
                                   !.js = NewState(i), !.left = left]
  <2>1. "delete" \in Roles /\ "list" \in Pcs /\ NewState(i) \in JobState
    BY StateTyped DEF Roles, Pcs
  <2>2. x \in Task /\ WellFormed(x)
    BY <2>1 DEF Task, WellFormed
  <2>3. task' = [task EXCEPT ![t] = x]
    BY <1>4 DEF Delete
  <2>4. TasksOK'
    BY <2>2, <2>3, SlotTyped
  <2> QED
    BY <1>4, <2>4 DEF Delete, TypeOK, TasksOK
<1> QED
  BY <1>1, <1>2, <1>3, <1>4 DEF Command

LEMMA BootTyped ==
    ASSUME TypeOK, NEW t \in Tasks, Boot(t)
    PROVE  TypeOK'
<1> USE TaskFacts, IdleTyped
<1> DEFINE left == {j \in Jobs : IsActive(j)}
           x == [IdleTask EXCEPT !.role = "recover", !.pc = "next",
                                 !.left = left]
<1>1. "recover" \in Roles /\ "next" \in Pcs
  BY DEF Roles, Pcs
<1>2. x \in Task /\ WellFormed(x)
  BY <1>1 DEF Task, WellFormed
<1>3. task' = [task EXCEPT ![t] = x]
  BY DEF Boot
<1>4. TasksOK'
  BY <1>2, <1>3, SlotTyped
<1> QED
  BY <1>4 DEF Boot, TypeOK, TasksOK

LEMMA InitTyped == Init => TypeOK
<1> SUFFICES ASSUME Init PROVE TypeOK
  OBVIOUS
<1>1. row \in [Jobs -> Row]
  BY StateTyped DEF Init, Row, AllKinds
<1>2. task \in [Tasks -> Task] /\ \A t \in Tasks : WellFormed(task[t])
  BY IdleTyped DEF Init, WellFormed, IdleTask
<1>3. /\ inst \in [Instances -> Stages \cup {"unborn", "gone"}]
      /\ content \in [Instances -> {"clean", "mixed"}]
      /\ backup \in [Jobs -> {"none", "clean", "mixed"}]
  BY DEF Init, Stages
<1>4. /\ dismissed \subseteq Jobs
      /\ app \in {"up", "down", "recovering"}
      /\ crashes \in 0..MaxCrashes
      /\ retries \in 0..MaxRetries
  BY ConstantsAssumption DEF Init
<1> QED
  BY <1>1, <1>2, <1>3, <1>4 DEF TypeOK

LEMMA NextTyped == TypeOK /\ [Next]_vars => TypeOK'
<1> SUFFICES ASSUME TypeOK, [Next]_vars PROVE TypeOK'
  OBVIOUS
<1>1. ASSUME NEW t \in Tasks, Step(t) PROVE TypeOK'
  BY <1>1, SetupTyped, RunTyped, UndoTyped, RemovalTyped, RecoveryTyped
  DEF Step
<1>2. ASSUME NEW t \in Tasks, Command(t) PROVE TypeOK'
  BY <1>2, CommandTyped
<1>3. ASSUME NEW t \in Tasks, Boot(t) PROVE TypeOK'
  BY <1>3, BootTyped
<1>4. ASSUME NEW j \in Jobs, Dismiss(j) PROVE TypeOK'
  BY <1>4 DEF Dismiss, TypeOK
<1>5. CASE Crash
  <2>1. TasksOK'
    BY <1>5, IdleTyped DEF Crash, TasksOK, WellFormed, IdleTask
  <2>2. crashes' \in 0..MaxCrashes
    BY <1>5, ConstantsAssumption DEF Crash, TypeOK
  <2> QED
    BY <1>5, <2>1, <2>2 DEF Crash, TypeOK, TasksOK
<1>6. CASE UNCHANGED vars
  BY <1>6 DEF vars, TypeOK
<1> QED
  BY <1>1, <1>2, <1>3, <1>4, <1>5, <1>6 DEF Next

\* The rows, instances, backups and tasks keep their types under every step,
\* and no task is ever where it would use a job, a rollback stage or an
\* installer's stage it does not have.
THEOREM TypeCorrect == Spec => []TypeOK
BY InitTyped, NextTyped, PTL DEF Spec

----------------------------------------------------------------------------
(* The semaphore. *)

\* A task gets a permit only from Acquire: every other step leaves the
\* holders as they are, or takes one away.
LEMMA MoveKeeps ==
    ASSUME NEW t \in Tasks, \A s \in Tasks \ {t} : task'[s] = task[s],
           task'[t].role = "run" /\ task'[t].pc \in PermitPcs => HasPermit(t)
    PROVE  Holders' \subseteq Holders
BY DEF Holders, HasPermit

LEMMA GotoKeeps ==
    ASSUME TasksOK, NEW t \in Tasks, NEW pc, Goto(t, pc),
           task[t].role = "run" /\ pc \in PermitPcs => HasPermit(t)
    PROVE  Holders' \subseteq Holders
<1>1. task'[t].role = task[t].role /\ task'[t].pc = pc
  BY DEF Goto, TasksOK, Task
<1>2. \A s \in Tasks \ {t} : task'[s] = task[s]
  BY DEF Goto, TasksOK
<1> QED
  BY <1>1, <1>2, MoveKeeps

LEMMA GotoWithKeeps ==
    ASSUME TasksOK, NEW t \in Tasks, NEW pc, NEW js, GotoWith(t, pc, js),
           task[t].role = "run" /\ pc \in PermitPcs => HasPermit(t)
    PROVE  Holders' \subseteq Holders
<1>1. task'[t].role = task[t].role /\ task'[t].pc = pc
  BY DEF GotoWith, TasksOK, Task
<1>2. \A s \in Tasks \ {t} : task'[s] = task[s]
  BY DEF GotoWith, TasksOK
<1> QED
  BY <1>1, <1>2, MoveKeeps

LEMMA ReturnKeeps ==
    ASSUME TasksOK, NEW t \in Tasks, Return(t)
    PROVE  Holders' \subseteq Holders
<1>1. task'[t].role = "idle"
  BY DEF Return, TasksOK, IdleTask
<1>2. \A s \in Tasks \ {t} : task'[s] = task[s]
  BY DEF Return, TasksOK
<1> QED
  BY <1>1, <1>2, MoveKeeps

LEMMA StrandKeeps ==
    ASSUME TasksOK, NEW t \in Tasks, Strand(t)
    PROVE  Holders' \subseteq Holders
<1>1. task'[t].role = "stranded"
  BY DEF Strand, TasksOK, Task
<1>2. \A s \in Tasks \ {t} : task'[s] = task[s]
  BY DEF Strand, TasksOK
<1> QED
  BY <1>1, <1>2, MoveKeeps

LEMMA AfterFinishKeeps ==
    ASSUME TasksOK, NEW t \in Tasks, NEW js, AfterFinish(t, js),
           task[t].role = "run" => HasPermit(t)
    PROVE  Holders' \subseteq Holders
<1>1. CASE Return(t)
  BY <1>1, ReturnKeeps
<1>2. CASE task' = [task EXCEPT ![t].pc = "clear", ![t].js = js]
  <2>1. task'[t].role = task[t].role
    BY <1>2 DEF TasksOK, Task
  <2>2. \A s \in Tasks \ {t} : task'[s] = task[s]
    BY <1>2 DEF TasksOK
  <2> QED
    BY <2>1, <2>2, MoveKeeps
<1>3. CASE task' = [task EXCEPT ![t].pc = "next", ![t].job = None,
                                ![t].js = NewState(None)]
  <2>1. task'[t].role = task[t].role
    BY <1>3 DEF TasksOK, Task
  <2>2. \A s \in Tasks \ {t} : task'[s] = task[s]
    BY <1>3 DEF TasksOK
  <2> QED
    BY <2>1, <2>2, MoveKeeps
<1> QED
  BY <1>1, <1>2, <1>3 DEF AfterFinish

LEMMA CleanedUpKeeps ==
    ASSUME TasksOK, NEW t \in Tasks, NEW ok, CleanedUp(t, ok),
           task[t].role = "run" => HasPermit(t)
    PROVE  Holders' \subseteq Holders
BY GotoKeeps, GotoWithKeeps, ReturnKeeps DEF CleanedUp

LEMMA SetupKeeps ==
    ASSUME TypeOK, NEW t \in Tasks, Setup(t)
    PROVE  Holders' \subseteq Holders
<1> USE TaskFacts
<1>1. CASE Requeue(t)
  <2> DEFINE js == NewState(IF row[task[t].job].kind = "create" THEN None
                            ELSE task[t].js.id)
  <2>1. CASE task' = [task EXCEPT ![t].role = "setup",
                                  ![t].pc = "prepare", ![t].js = js]
    <3>1. task'[t].role = "setup"
      BY <2>1 DEF TasksOK, Task
    <3>2. \A s \in Tasks \ {t} : task'[s] = task[s]
      BY <2>1 DEF TasksOK
    <3> QED
      BY <3>1, <3>2, MoveKeeps
  <2> QED
    BY <1>1, <2>1, ReturnKeeps DEF Requeue
<1>2. CASE PrepareNew(t)
  BY <1>2, GotoKeeps, GotoWithKeeps DEF PrepareNew, At
<1>3. CASE PrepareExisting(t)
  BY <1>3, GotoKeeps, GotoWithKeeps DEF PrepareExisting, At
<1>4. CASE Persist(t)
  BY <1>4, GotoKeeps DEF Persist, At
<1>5. CASE LockAndSpawn(t)
  <2>1. CASE Goto(t, "cleanup")
    BY <1>5, <2>1, GotoKeeps DEF LockAndSpawn, At
  <2>2. CASE task' = [task EXCEPT ![t] = [IdleTask EXCEPT !.role = "run",
                          !.pc = "read", !.job = task[t].job]]
    <3>1. task'[t].pc = "read"
      BY <2>2 DEF TasksOK, IdleTask
    <3>2. \A s \in Tasks \ {t} : task'[s] = task[s]
      BY <2>2 DEF TasksOK
    <3> QED
      BY <3>1, <3>2, MoveKeeps DEF PermitPcs
  <2> QED
    BY <1>5, <2>1, <2>2 DEF LockAndSpawn
<1> QED
  BY <1>1, <1>2, <1>3, <1>4, <1>5 DEF Setup

LEMMA RunKeeps ==
    ASSUME TypeOK, NEW t \in Tasks, Run(t), ~Acquire(t)
    PROVE  Holders' \subseteq Holders
<1> USE TaskFacts
<1>1. CASE RunRead(t)
  BY <1>1, GotoKeeps, ReturnKeeps DEF RunRead, PermitPcs
<1>2. CASE Claim(t)
  BY <1>2, GotoKeeps, ReturnKeeps, StrandKeeps
  DEF Claim, At, HasPermit, PermitPcs
<1>3. CASE WorkNew(t)
  <2>1. HasPermit(t)
    BY <1>3 DEF WorkNew, At, HasPermit, PermitPcs
  <2>2. \A s \in Tasks \ {t} : task'[s] = task[s]
    BY <1>3 DEF WorkNew, Goto, TasksOK
  <2> QED
    BY <2>1, <2>2, MoveKeeps
<1>4. CASE WorkExisting(t)
  <2>1. HasPermit(t)
    BY <1>4 DEF WorkExisting, At, HasPermit, PermitPcs
  <2>2. \A s \in Tasks \ {t} : task'[s] = task[s]
    BY <1>4 DEF WorkExisting, Goto, TasksOK
  <2> QED
    BY <2>1, <2>2, MoveKeeps
<1>5. CASE Backup(t) \/ SaveBackup(t) \/ Install(t)
  BY <1>5, GotoKeeps, GotoWithKeeps
  DEF Backup, SaveBackup, Install, At, HasPermit, PermitPcs
<1>6. CASE Reread(t)
  BY <1>6, GotoKeeps, GotoWithKeeps, ReturnKeeps DEF Reread, HasPermit, PermitPcs
<1>7. CASE Succeed(t)
  <2>1. HasPermit(t)
    BY <1>7 DEF Succeed, At, HasPermit, PermitPcs
  <2> QED
    BY <1>7, <2>1, AfterFinishKeeps, ReturnKeeps, StrandKeeps DEF Succeed
<1>8. CASE CheckStranded(t)
  BY <1>8, GotoWithKeeps, ReturnKeeps DEF CheckStranded, At
<1> QED
  BY <1>1, <1>2, <1>3, <1>4, <1>5, <1>6, <1>7, <1>8 DEF Run

LEMMA UndoKeeps ==
    ASSUME TypeOK, NEW t \in Tasks, Undo(t)
    PROVE  Holders' \subseteq Holders
<1> USE TaskFacts
<1>1. task[t].role = "run" => HasPermit(t)
  BY DEF Undo, RemoveNewInstance, NothingToUndo, RestoreStage, BeginRestore,
         EndRestore, FailJob, InterruptJob, ClearStaging, Undoes, At,
         HasPermit, PermitPcs
<1>2. CASE RemoveNewInstance(t) \/ NothingToUndo(t) \/ RestoreStage(t)
           \/ EndRestore(t)
  BY <1>1, <1>2, CleanedUpKeeps
  DEF RemoveNewInstance, NothingToUndo, RestoreStage, EndRestore
<1>3. CASE BeginRestore(t)
  BY <1>1, <1>3, CleanedUpKeeps, GotoKeeps DEF BeginRestore
<1>4. CASE FailJob(t) \/ InterruptJob(t) \/ ClearStaging(t)
  BY <1>1, <1>4, AfterFinishKeeps
  DEF FailJob, InterruptJob, Terminalize, ClearStaging
<1> QED
  BY <1>2, <1>3, <1>4 DEF Undo

LEMMA RemovalKeeps ==
    ASSUME TypeOK, NEW t \in Tasks, Removal(t)
    PROVE  Holders' \subseteq Holders
<1> USE TaskFacts
<1>1. CASE ClaimCancel(t)
  BY <1>1, GotoKeeps, ReturnKeeps DEF ClaimCancel, At
<1>2. CASE FinishCancel(t)
  BY <1>2, AfterFinishKeeps, ReturnKeeps DEF FinishCancel, At
<1>3. CASE RemoveInstance(t)
  BY <1>3, ReturnKeeps DEF RemoveInstance
<1>4. ASSUME NEW j \in Jobs, CancelForDeletion(t, j)
      PROVE  Holders' \subseteq Holders
  <2>1. task'[t].role = "delete"
    BY <1>4 DEF CancelForDeletion, At, TasksOK, Task
  <2>2. \A s \in Tasks \ {t} : task'[s] = task[s]
    BY <1>4 DEF CancelForDeletion, TasksOK
  <2> QED
    BY <2>1, <2>2, MoveKeeps
<1> QED
  BY <1>1, <1>2, <1>3, <1>4 DEF Removal

LEMMA RecoveryKeeps ==
    ASSUME TypeOK, NEW t \in Tasks, Recovery(t)
    PROVE  Holders' \subseteq Holders
<1> USE TaskFacts
<1>1. CASE Recovered(t)
  BY <1>1, ReturnKeeps DEF Recovered
<1>2. ASSUME NEW j \in Jobs, Recover(t, j) \/ RecoverDeleted(t, j)
      PROVE  Holders' \subseteq Holders
  <2>1. task'[t].role = "recover"
    BY <1>2 DEF Recover, RecoverDeleted, At, TasksOK, Task
  <2>2. \A s \in Tasks \ {t} : task'[s] = task[s]
    BY <1>2 DEF Recover, RecoverDeleted, TasksOK
  <2> QED
    BY <2>1, <2>2, MoveKeeps
<1> QED
  BY <1>1, <1>2 DEF Recovery

LEMMA CommandKeeps ==
    ASSUME TypeOK, NEW t \in Tasks, Command(t)
    PROVE  Holders' \subseteq Holders
<1> USE TaskFacts
<1>1. task'[t].role \in {"setup", "retry", "cancel", "delete"}
  <2>1. ASSUME NEW j \in Jobs, NEW kind, NEW id, Start(t, j, kind, id)
        PROVE  task'[t].role = "setup"
    BY <2>1 DEF Start, IdleTask, TasksOK
  <2>2. ASSUME NEW j \in Jobs, Retry(t, j) PROVE task'[t].role = "retry"
    BY <2>2 DEF Retry, IdleTask, TasksOK
  <2>3. ASSUME NEW j \in Jobs, Cancel(t, j) PROVE task'[t].role = "cancel"
    BY <2>3 DEF Cancel, IdleTask, TasksOK
  <2>4. ASSUME NEW i \in Instances, Delete(t, i)
        PROVE  task'[t].role = "delete"
    BY <2>4 DEF Delete, IdleTask, TasksOK
  <2> QED
    BY <2>1, <2>2, <2>3, <2>4 DEF Command
<1>2. \A s \in Tasks \ {t} : task'[s] = task[s]
  BY DEF Command, Start, Retry, Cancel, Delete, TasksOK
<1> QED
  BY <1>1, <1>2, MoveKeeps

LEMMA HoldersFinite ==
    /\ IsFiniteSet(Holders)
    /\ Cardinality(Holders) \in Nat
<1>1. Holders \in SUBSET Tasks
  BY DEF Holders
<1>2. IsFiniteSet(Holders)
  BY <1>1, TasksFinite, FS_Subset
<1> QED
  BY <1>2, FS_CardinalityType

LEMMA AcquireBounded ==
    ASSUME TypeOK, NEW t \in Tasks, Acquire(t)
    PROVE  PermitBound'
<1>1. Holders' \in SUBSET (Holders \cup {t})
  <2> SUFFICES ASSUME NEW s \in Tasks, s # t, HasPermit(s)'
               PROVE  HasPermit(s)
    BY DEF Holders
  <2>1. task'[s] = task[s]
    BY DEF Acquire, GotoWith, Return, TypeOK
  <2> QED
    BY <2>1 DEF HasPermit
<1>2. /\ IsFiniteSet(Holders \cup {t})
      /\ Cardinality(Holders \cup {t}) <= Cardinality(Holders) + 1
  <2>1. /\ IsFiniteSet(Holders \cup {t})
        /\ Cardinality(Holders \cup {t}) =
             IF t \in Holders THEN Cardinality(Holders)
                               ELSE Cardinality(Holders) + 1
    BY HoldersFinite, FS_AddElement, Zenon
  <2> QED
    BY <2>1, HoldersFinite
<1>3. /\ IsFiniteSet(Holders')
      /\ Cardinality(Holders') <= Cardinality(Holders \cup {t})
  BY <1>1, <1>2, FS_Subset
<1>4. Cardinality(Holders) < MaxPermits
  BY DEF Acquire
<1>5. /\ Cardinality(Holders \cup {t}) \in Nat
      /\ Cardinality(Holders') \in Nat
  BY <1>2, <1>3, FS_CardinalityType
<1> QED
  BY <1>2, <1>3, <1>4, <1>5, HoldersFinite, ConstantsAssumption
  DEF PermitBound

LEMMA PermitStep == TypeOK /\ PermitBound /\ [Next]_vars => PermitBound'
<1> SUFFICES ASSUME TypeOK, PermitBound, [Next]_vars PROVE PermitBound'
  OBVIOUS
<1>1. ASSUME Holders' \subseteq Holders PROVE PermitBound'
  <2>1. /\ IsFiniteSet(Holders')
        /\ Cardinality(Holders') <= Cardinality(Holders)
    BY <1>1, HoldersFinite, FS_Subset
  <2>2. Cardinality(Holders') \in Nat
    BY <2>1, FS_CardinalityType
  <2> QED
    BY <2>1, <2>2, HoldersFinite, ConstantsAssumption DEF PermitBound
<1>2. ASSUME NEW t \in Tasks, Step(t) PROVE PermitBound'
  BY <1>1, <1>2, AcquireBounded, SetupKeeps, RunKeeps, UndoKeeps,
     RemovalKeeps, RecoveryKeeps DEF Step
<1>3. ASSUME NEW t \in Tasks, Command(t) PROVE PermitBound'
  BY <1>1, <1>3, CommandKeeps
<1>4. ASSUME NEW t \in Tasks, Boot(t) PROVE PermitBound'
  <2>1. task'[t].role = "recover"
    BY <1>4 DEF Boot, IdleTask, TypeOK
  <2>2. \A s \in Tasks \ {t} : task'[s] = task[s]
    BY <1>4 DEF Boot, TypeOK
  <2> QED
    BY <1>1, <2>1, <2>2, MoveKeeps
<1>5. CASE Crash
  <2>1. Holders' = {}
    BY <1>5 DEF Crash, Holders, HasPermit, IdleTask
  <2> QED
    BY <1>1, <2>1
<1>6. ASSUME UNCHANGED task PROVE PermitBound'
  BY <1>1, <1>6 DEF Holders, HasPermit
<1> QED
  BY <1>2, <1>3, <1>4, <1>5, <1>6 DEF Next, Dismiss, vars

LEMMA PermitInit == Init => PermitBound
<1> SUFFICES ASSUME Init PROVE PermitBound
  OBVIOUS
<1>1. Holders = {}
  BY DEF Init, Holders, HasPermit, IdleTask
<1> QED
  BY <1>1, FS_EmptySet, ConstantsAssumption DEF PermitBound

\* Whatever the number of jobs and however commands overlap, never more than
\* MaxPermits workers are between the semaphore and the end of run_job.
THEOREM PermitsBounded == Spec => []PermitBound
BY PermitInit, PermitStep, TypeCorrect, PTL DEF Spec

----------------------------------------------------------------------------
(* A finished job stays finished. *)

\* A step that leaves the status of every finished job alone.
KeepsFinished == \A k \in Jobs :
    row[k].status \in Finished => row'[k].status = row[k].status

LEMMA UpdatedKeepsFinished ==
    ASSUME TypeOK, NEW j \in Jobs, NEW js, row' = Updated(j, js)
    PROVE  KeepsFinished
BY DEF KeepsFinished, Updated, TypeOK, Row

LEMMA ActiveUpdateKeepsFinished ==
    ASSUME TypeOK, NEW j \in Jobs, NEW status, NEW js,
           row[j].status \in Active, row' = WithStatus(j, status, js)
    PROVE  KeepsFinished
BY DEF KeepsFinished, WithStatus, TypeOK, Row, Active, Finished

LEMMA FinishActiveKeepsFinished ==
    ASSUME TypeOK, NEW j \in Jobs, NEW status, NEW js,
           row' = FinishActive(j, status, js)
    PROVE  KeepsFinished
BY DEF KeepsFinished, FinishActive, IsActive, TypeOK, Row, Active, Finished

LEMMA DropKeepsFinished ==
    ASSUME TypeOK, NEW i, DropInstance(i)
    PROVE  KeepsFinished
BY DEF KeepsFinished, DropInstance, TypeOK, Row

LEMMA SameRowKeepsFinished ==
    ASSUME UNCHANGED row
    PROVE  KeepsFinished
BY DEF KeepsFinished

LEMMA StepKeepsFinished ==
    ASSUME TypeOK, NEW t \in Tasks, Step(t),
           ~Requeue(t), ~FinishCancel(t)
    PROVE  KeepsFinished
<1> USE TaskFacts
<1>1. CASE Setup(t)
  <2>1. CASE Persist(t)
    <3>1. task[t].job \in Jobs
      BY <2>1 DEF Persist, At
    <3> QED
      BY <2>1, <3>1, UpdatedKeepsFinished, SameRowKeepsFinished DEF Persist
  <2> QED
    BY <1>1, <2>1, SameRowKeepsFinished
    DEF Setup, PrepareNew, PrepareExisting, LockAndSpawn
<1>2. CASE Run(t)
  <2>1. CASE Claim(t)
    <3>1. task[t].job \in Jobs
      BY <2>1 DEF Claim, At
    <3> QED
      BY <2>1, <3>1, ActiveUpdateKeepsFinished, SameRowKeepsFinished
      DEF Claim, Active
  <2>2. CASE WorkExisting(t)
    <3>1. task[t].job \in Jobs
      BY <2>2 DEF WorkExisting, At
    <3> QED
      BY <2>2, <3>1, UpdatedKeepsFinished, SameRowKeepsFinished
      DEF WorkExisting
  <2>3. CASE SaveBackup(t)
    <3>1. task[t].job \in Jobs
      BY <2>3 DEF SaveBackup, At
    <3> QED
      BY <2>3, <3>1, UpdatedKeepsFinished, SameRowKeepsFinished
      DEF SaveBackup
  <2>4. CASE Succeed(t)
    <3>1. task[t].job \in Jobs
      BY <2>4 DEF Succeed, At
    <3> QED
      BY <2>4, <3>1, ActiveUpdateKeepsFinished, SameRowKeepsFinished
      DEF Succeed, Active
  <2> QED
    BY <1>2, <2>1, <2>2, <2>3, <2>4, SameRowKeepsFinished
    DEF Run, RunRead, Acquire, WorkNew, Backup, Install, Reread, CheckStranded
<1>3. CASE Undo(t)
  <2>1. CASE RemoveNewInstance(t)
    BY <2>1, DropKeepsFinished, SameRowKeepsFinished DEF RemoveNewInstance
  <2>2. CASE FailJob(t) \/ InterruptJob(t)
    <3>1. task[t].job \in Jobs
      BY <2>2 DEF FailJob, InterruptJob, At
    <3> QED
      BY <2>2, <3>1, FinishActiveKeepsFinished
      DEF FailJob, InterruptJob, Terminalize
  <2> QED
    BY <1>3, <2>1, <2>2, SameRowKeepsFinished
    DEF Undo, NothingToUndo, RestoreStage, BeginRestore, EndRestore,
        ClearStaging
<1>4. CASE Removal(t)
  <2>1. CASE ClaimCancel(t)
    <3>1. task[t].job \in Jobs
      BY <2>1 DEF ClaimCancel, At
    <3> QED
      BY <2>1, <3>1, ActiveUpdateKeepsFinished, SameRowKeepsFinished
      DEF ClaimCancel, Active
  <2>2. CASE RemoveInstance(t)
    BY <2>2, DropKeepsFinished, SameRowKeepsFinished DEF RemoveInstance
  <2>3. ASSUME NEW j \in Jobs, CancelForDeletion(t, j)
        PROVE  KeepsFinished
    BY <2>3, FinishActiveKeepsFinished DEF CancelForDeletion
  <2> QED
    BY <1>4, <2>1, <2>2, <2>3 DEF Removal
<1>5. CASE Recovery(t)
  <2>1. ASSUME NEW j \in Jobs, RecoverDeleted(t, j) PROVE KeepsFinished
    BY <2>1, FinishActiveKeepsFinished DEF RecoverDeleted
  <2>2. ASSUME NEW j \in Jobs, Recover(t, j) PROVE KeepsFinished
    BY <2>2, SameRowKeepsFinished DEF Recover
  <2> QED
    BY <1>5, <2>1, <2>2, SameRowKeepsFinished DEF Recovery, Recovered
<1> QED
  BY <1>1, <1>2, <1>3, <1>4, <1>5 DEF Step

LEMMA RewriteTouchesOneJob ==
    ASSUME TypeOK, NEW t \in Tasks, Requeue(t) \/ FinishCancel(t),
           NEW k \in Jobs, row'[k].status # row[k].status
    PROVE  /\ task[t].job = k
           /\ At(t, "retry", "requeue") \/ At(t, "cancel", "finish")
<1>1. CASE UNCHANGED row
  BY <1>1
<1>2. ASSUME NEW status, NEW js, row' = WithStatus(task[t].job, status, js)
      PROVE  task[t].job = k
  BY <1>2 DEF WithStatus, TypeOK
<1> QED
  BY <1>1, <1>2 DEF Requeue, FinishCancel

LEMMA LateWorkerStep ==
    ASSUME TypeOK, [Next]_vars, NEW j \in Jobs,
           row[j].status \in Finished, row'[j].status # row[j].status
    PROVE  \E t \in Tasks : task[t].job = j
              /\ (At(t, "retry", "requeue") \/ At(t, "cancel", "finish"))
<1>1. ~KeepsFinished
  BY DEF KeepsFinished
<1>2. CASE \E t \in Tasks : Step(t)
  <2>1. PICK t \in Tasks : Requeue(t) \/ FinishCancel(t)
    BY <1>1, <1>2, StepKeepsFinished
  <2> QED
    BY <2>1, RewriteTouchesOneJob
<1>3. CASE \E t \in Tasks : Command(t)
  <2>1. ASSUME NEW t \in Tasks, NEW k \in Jobs, NEW kind, NEW id,
               Start(t, k, kind, id)
        PROVE  FALSE
    BY <2>1 DEF Start, TypeOK, Finished
  <2>2. ASSUME NEW t \in Tasks, Command(t), UNCHANGED row PROVE FALSE
    BY <2>2
  <2> QED
    BY <1>3, <2>1, <2>2 DEF Command, Retry, Cancel, Delete
<1>4. CASE UNCHANGED row
  BY <1>4
<1> QED
  BY <1>2, <1>3, <1>4 DEF Next, Boot, Dismiss, Crash, vars

\* No progress update, rollback, completion, recovery or deletion of however
\* many overlapping tasks changes the status of a finished job: only the
\* statement of a retry, or the last one of a cancel, does.
THEOREM FinishedJobsStay == Spec => LateWorkerLeavesFinishedJob
<1>1. TypeOK /\ [Next]_vars =>
        [\A j \in Jobs :
           row[j].status \in Finished /\ row'[j].status # row[j].status =>
              \E t \in Tasks : task[t].job = j
                  /\ (At(t, "retry", "requeue") \/ At(t, "cancel", "finish"))]_vars
  BY LateWorkerStep
<1> QED
  BY <1>1, TypeCorrect, PTL DEF Spec, LateWorkerLeavesFinishedJob

----------------------------------------------------------------------------
(* From here on for a client that issues one command at a time per job and *)
(* instance (Serial): who may be at work on a job and on an instance at    *)
(* once, and what follows from it for the lock on the instance and for the *)
(* backup of an update.  Then, for the modules that build on it, what each *)
(* action does, field by field.                                            *)


----------------------------------------------------------------------------
(* The inductive invariant. *)

Undoing == {"cleanup", "restoring", "finish", "clear"}

Retriable == {"failed", "interrupted"}

\* A run_job task before the statement that takes the job.
Waiting(x) == x.role = "run" /\ x.pc \in {"read", "acquire", "claim"}

\* A task that has taken the job, as its worker or to cancel it.
Past(x) == \/ x.role = "run" /\ ~Waiting(x)
           \/ x.role = "cancel" /\ x.pc # "claim"

\* What the program counter says about role, job and instance of a task.
Placed(x) ==
    /\ x.role = "idle" => x.job = None /\ x.js.id = None
    /\ x.role = "retry" => x.pc \in {"requeue", "cleanup", "restoring"}
    /\ x.role = "setup" => x.pc \in {"prepare", "persist", "lock"} \cup Undoing
    /\ x.role = "run" => x.pc \in PermitPcs \cup {"read", "acquire"}
    /\ x.role = "stranded" => x.pc \in {"check"} \cup Undoing
    /\ x.role = "cancel" => x.pc \in {"claim"} \cup Undoing
    /\ x.role = "delete" => x.pc = "list" /\ x.job = None /\ x.js.id # None
    /\ x.role = "recover" =>
          \/ x.pc = "next" /\ x.job = None /\ x.js.id = None
          \/ x.pc \in Undoing
    /\ x.role = "run" /\ x.pc \in {"read", "acquire"} => x.js.id = None

TasksPlaced == \A t \in Tasks : Placed(task[t])

\* Recovery runs by itself, between the start of the app and the first
\* command; nothing runs while the app is closed.
RolesFitApp ==
    /\ app # "up" =>
          \A t \in Tasks : task[t].role \in {"idle", "recover"}
    /\ app # "recovering" => \A t \in Tasks : task[t].role # "recover"
    /\ \A s, t \in Tasks :
          task[s].role = "recover" /\ task[t].role = "recover" => s = t

\* The only two tasks that may act on one job are a cancel and a worker, and
\* at most one of them has taken the job.
Paired(x, y) ==
    /\ \/ x.role = "cancel" /\ y.role \in {"run", "stranded"}
       \/ y.role = "cancel" /\ x.role \in {"run", "stranded"}
    /\ ~(Past(x) /\ Past(y))

Company == \A s, t \in Tasks :
    s # t /\ task[s].job = task[t].job /\ task[s].job # None =>
        Paired(task[s], task[t])

\* An instance is the business of one job at a time: of all the tasks and the
\* active rows that name it.
TasksApart == \A s, t \in Tasks :
    task[s].job # None /\ task[t].job # None
    /\ task[s].js.id # None /\ task[s].js.id = task[t].js.id =>
        task[s].job = task[t].job

TaskRowApart == \A t \in Tasks, j \in Jobs :
    IsActive(j) /\ row[j].js.id # None
    /\ task[t].job # None /\ task[t].js.id = row[j].js.id =>
        task[t].job = j

RowsApart == \A j, k \in Jobs :
    IsActive(j) /\ IsActive(k)
    /\ row[j].js.id # None /\ row[j].js.id = row[k].js.id => j = k

\* Nor does a command run beside the deletion of its instance.
DeletesAlone == \A s, t \in Tasks :
    s # t /\ task[s].role = "delete" /\ task[t].role \in CommandRoles =>
        task[s].js.id # task[t].js.id

\* An id is known to rows and tasks only once the instance exists.
IdsBorn ==
    /\ \A t \in Tasks : task[t].js.id # None => inst[task[t].js.id] # "unborn"
    /\ \A j \in Jobs : row[j].js.id # None => inst[row[j].js.id] # "unborn"

Separate == /\ Company /\ TasksApart /\ TaskRowApart /\ RowsApart
            /\ DeletesAlone /\ IdsBorn

\* What a task relies on about its job's row and backup.
RowFits(x) ==
    /\ row[x.job].status # "absent"
    /\ x.role = "retry" => row[x.job].status \in {"failed", "interrupted"}
    /\ Past(x) => row[x.job].status # "queued"
    /\ x.pc = "clear" => ~IsActive(x.job)
    /\ x.role \in {"setup", "cancel"} => ~x.js.staging
    /\ x.role = "run" /\ x.pc \in {"claim", "work", "backup"} =>
          ~x.js.staging
    /\ x.role = "run" /\ x.pc \in {"work", "backup"} =>
          ~row[x.job].js.staging
    /\ x.pc = "save" => backup[x.job] # "none"

RowsFit == \A t \in Tasks : task[t].job # None => RowFits(task[t])

\* What recovery has still to do is what was active when the app was opened.
LeftToRecover ==
    \A t \in Tasks : task[t].role = "recover" =>
        \A j \in task[t].left : IsActive(j) /\ j # task[t].job

QueuedUnstaged ==
    \A j \in Jobs : row[j].status = "queued" => ~row[j].js.staging

SerialInv ==
    /\ TypeOK /\ TasksPlaced /\ RolesFitApp /\ Separate
    /\ RowsFit /\ LeftToRecover /\ QueuedUnstaged
    /\ LaunchBlockedWhileInstalling /\ BackupKept

----------------------------------------------------------------------------
(* The moves of a task and the statements on a row, field by field. *)

Others(t) == \A s \in Tasks \ {t} : task'[s] = task[s]

Moves(t, role, pc, js) ==
    /\ Others(t)
    /\ task'[t].role = role /\ task'[t].pc = pc /\ task'[t].js = js
    /\ task'[t].job = task[t].job /\ task'[t].left = task[t].left

Idles(t) ==
    /\ Others(t)
    /\ task'[t].role = "idle" /\ task'[t].pc = "idle"
    /\ task'[t].job = None /\ task'[t].js = NewState(None)
    /\ task'[t].left = {}

Writes(j, status, js) ==
    /\ \A k \in Jobs \ {j} : row'[k] = row[k]
    /\ row'[j].status = status /\ row'[j].js = js
    /\ row'[j].kind = row[j].kind /\ row'[j].col \in {None, js.id}

LEMMA GotoMoves ==
    ASSUME TypeOK, NEW t \in Tasks, NEW pc, Goto(t, pc)
    PROVE  Moves(t, task[t].role, pc, task[t].js)
BY DEF Goto, Moves, Others, TypeOK, Task

LEMMA GotoWithMoves ==
    ASSUME TypeOK, NEW t \in Tasks, NEW pc, NEW js, GotoWith(t, pc, js)
    PROVE  Moves(t, task[t].role, pc, js)
BY DEF GotoWith, Moves, Others, TypeOK, Task

LEMMA ReturnIdles ==
    ASSUME TypeOK, NEW t \in Tasks, Return(t)
    PROVE  Idles(t)
BY DEF Return, Idles, Others, TypeOK, Task, IdleTask

LEMMA StrandMoves ==
    ASSUME TypeOK, NEW t \in Tasks, Strand(t)
    PROVE  Moves(t, "stranded", "check", task[t].js)
BY DEF Strand, Moves, Others, TypeOK, Task

\* A recovery that is done with a job goes on to the next one.
Proceeds(t) ==
    /\ Others(t)
    /\ task'[t].role = "recover" /\ task'[t].pc = "next"
    /\ task'[t].job = None /\ task'[t].js = NewState(None)
    /\ task'[t].left = task[t].left

LEMMA AfterFinishMoves ==
    ASSUME TypeOK, NEW t \in Tasks, NEW js, AfterFinish(t, js)
    PROVE  \/ js.staging /\ Moves(t, task[t].role, "clear", js)
           \/ task[t].role = "recover" /\ Proceeds(t)
           \/ task[t].role # "recover" /\ Idles(t)
<1>1. CASE task' = [task EXCEPT ![t].pc = "clear", ![t].js = js] /\ js.staging
  BY <1>1 DEF Moves, Others, TypeOK, Task
<1>2. CASE task[t].role = "recover" /\ task' = [task EXCEPT ![t].pc = "next",
                ![t].job = None, ![t].js = NewState(None)]
  BY <1>2 DEF Proceeds, Others, TypeOK, Task
<1> QED
  BY <1>1, <1>2, ReturnIdles DEF AfterFinish

LEMMA UpdatedWrites ==
    ASSUME TypeOK, NEW j \in Jobs, NEW js, row' = Updated(j, js)
    PROVE  Writes(j, row[j].status, js)
BY DEF Updated, Selected, Writes, TypeOK, Row

LEMMA WithStatusWrites ==
    ASSUME TypeOK, NEW j \in Jobs, NEW js, NEW status,
           row' = WithStatus(j, status, js)
    PROVE  Writes(j, status, js)
BY DEF WithStatus, Writes, TypeOK, Row

LEMMA FinishActiveWrites ==
    ASSUME TypeOK, NEW j \in Jobs, NEW js, NEW status,
           row' = FinishActive(j, status, js)
    PROVE  \/ IsActive(j) /\ Writes(j, status, js)
           \/ ~IsActive(j) /\ UNCHANGED row
BY DEF FinishActive, Selected, Writes, TypeOK, Row

\* DropInstance and WithStage, field by field.
Drops(i) ==
    /\ \A j \in Jobs : row'[j].status = row[j].status
                       /\ row'[j].js = row[j].js /\ row'[j].kind = row[j].kind
                       /\ row'[j].col \in {None, row[j].col}
    /\ inst'[i] = "gone" /\ \A k \in Instances \ {i} : inst'[k] = inst[k]
    /\ content'[i] = "clean"
    /\ \A k \in Instances \ {i} : content'[k] = content[k]

LEMMA DropDrops ==
    ASSUME TypeOK, NEW i \in Instances, DropInstance(i)
    PROVE  Drops(i)
BY DEF DropInstance, Drops, TypeOK, Row

LEMMA StageSet ==
    ASSUME TypeOK, NEW id, NEW stage \in Stages
    PROVE  /\ Exists(id) => WithStage(id, stage)[id] = stage
           /\ \A i \in Instances : i # id => WithStage(id, stage)[i] = inst[i]
           /\ \A i \in Instances : ~Exists(i) => WithStage(id, stage)[i] = inst[i]
           /\ \A i \in Instances : inst[i] = "unborn" <=> WithStage(id, stage)[i] = "unborn"
BY DEF WithStage, Exists, TypeOK, Stages

----------------------------------------------------------------------------
(* A step of a task keeps jobs and instances apart. *)

\* What all steps but the first of a command have in common.  A task keeps its
\* job until it is done with it, gets to know no instance but a new one or the
\* one its job's active row names, and takes only a queued job.
TakesId(t, id) ==
    \/ id \in {None, task[t].js.id}
    \/ /\ IsActive(task[t].job) /\ id = row[task[t].job].js.id
       /\ task[t].role \in {"run", "stranded"}
    \/ inst[id] = "unborn" /\ inst'[id] # "unborn"

Tame(t) ==
    /\ Others(t) /\ task[t].role # "idle" /\ UNCHANGED app
    /\ task'[t].left \subseteq task[t].left
    /\ task'[t].job \in {None, task[t].job}
    /\ task'[t].job # None =>
          /\ \/ task'[t].role = task[t].role
             \/ task[t].role = "retry" /\ task'[t].role = "setup"
             \/ task[t].role = "setup" /\ task'[t].role = "run"
             \/ task[t].role = "run" /\ task'[t].role = "stranded"
          /\ TakesId(t, task'[t].js.id)
          /\ Past(task'[t]) =>
                Past(task[t]) \/ row[task[t].job].status = "queued"
    /\ task'[t].job = None =>
          /\ \/ task'[t].role = "idle"
             \/ task'[t].role = task[t].role
                /\ task[t].role \in {"delete", "recover"}
          /\ \/ task'[t].js.id = task[t].js.id
             \/ task'[t].js.id = None /\ task'[t].role # "delete"

\* What a step does to rows, backups and stages: another job than its own it
\* can only cancel; its own it does not put back to the queue, unless it is a
\* retry; and it leaves everything alone until it has the job.
Unclaimed(t) == task[t].role = "cancel" /\ task[t].pc = "claim"
                /\ row[task[t].job].status # "queued"

TouchesOther(t, k) ==
    /\ row'[k].js = row[k].js /\ row'[k].kind = row[k].kind
    /\ \/ row'[k].status = row[k].status
       \/ /\ IsActive(k) /\ row'[k].status = "canceled"
          /\ \/ task[t].role = "delete"
             \/ task[t].role = "recover" /\ k \notin task'[t].left
    /\ \/ backup'[k] = backup[k]
       \/ task[t].role = "recover" /\ row'[k].status \notin Active

TouchesOwn(t, j) ==
    /\ row'[j].kind = row[j].kind /\ row'[j].status # "absent"
    /\ \/ row'[j].js.id \in {None, task[t].js.id}
       \/ row'[j].js.id = row[j].js.id /\ (row'[j].status \in Active => IsActive(j))
    /\ task[t].role # "retry" =>
          /\ row'[j].status \in Active => IsActive(j)
          /\ row'[j].status = "queued" => row[j].status = "queued"
          /\ row'[j].js.staging = row[j].js.staging \/ ~Unclaimed(t)
    /\ row'[j].status = "queued" => ~row'[j].js.staging
    /\ row'[j].status \in Active /\ row'[j].js.staging /\ row[j].kind = "update" =>
          \/ backup'[j] # "none"
          \/ backup'[j] = backup[j] /\ row[j].js.staging /\ IsActive(j)
             /\ row'[j].js.id = row[j].js.id
    /\ Unclaimed(t) => backup'[j] = backup[j]

PoliteToJobs(t) ==
    \A j \in Jobs : IF j = task[t].job THEN TouchesOwn(t, j)
                                      ELSE TouchesOther(t, j)

PoliteToInstances(t) ==
    \A i \in Instances :
        \/ inst'[i] = inst[i]
        \/ Exists(i) /\ inst'[i] \in {"installing", "gone"}
        \/ inst[i] = "unborn" /\ inst'[i] = "not_installed"
        \/ /\ i = task[t].js.id /\ task[t].job # None /\ ~Unclaimed(t)
           /\ Exists(i) /\ inst'[i] \in Stages

Polite(t) == PoliteToJobs(t) /\ PoliteToInstances(t)

Locked(x) ==
    x.role = "run" /\ x.pc \in {"backup", "save", "install"}
    /\ Exists(x.js.id) => inst[x.js.id] = "installing"

LEMMA TameStep ==
    ASSUME TypeOK, TypeOK', TasksPlaced, Separate, RowsFit,
           NEW t \in Tasks, Tame(t), Polite(t)
    PROVE  Separate'
<1> DEFINE RowIds == \A j \in Jobs :
             \/ row'[j].js.id = row[j].js.id /\ (IsActive(j)' => IsActive(j))
             \/ j = task[t].job /\ row'[j].js.id \in {None, task[t].js.id}
           NewId(id) == inst[id] = "unborn" /\ inst'[id] # "unborn"
<1>1. /\ task[t].job \in Jobs \cup {None} /\ None \notin Jobs
      /\ \A s \in Tasks : task[s].js.id \in Instances \cup {None}
      /\ \A s \in Tasks : task'[s].js.id \in Instances \cup {None}
      /\ \A j \in Jobs : row'[j].js.id \in Instances \cup {None}
  BY ConstantsAssumption DEF TypeOK, Task, Row, JobState
<1>2. RowIds
  <2> SUFFICES ASSUME NEW j \in Jobs
               PROVE  \/ /\ row'[j].js.id = row[j].js.id
                         /\ IsActive(j)' => IsActive(j)
                      \/ /\ j = task[t].job
                         /\ row'[j].js.id \in {None, task[t].js.id}
    OBVIOUS
  <2>1. CASE j = task[t].job
    BY <1>1, <2>1
    DEF Polite, PoliteToJobs, PoliteToInstances, TouchesOwn, IsActive
  <2>2. CASE j # task[t].job
    BY <2>2
    DEF Polite, PoliteToJobs, PoliteToInstances, TouchesOther, IsActive, Active
  <2> QED
    BY <2>1, <2>2
<1>3. \A i \in Instances : inst'[i] = "unborn" => inst[i] = "unborn"
  BY DEF Polite, PoliteToJobs, PoliteToInstances, Exists, Stages
<1>4. Others(t)
  BY DEF Tame
<1>5. \/ task'[t].js.id \in {None, task[t].js.id}
      \/ /\ IsActive(task[t].job) /\ task'[t].js.id = row[task[t].job].js.id
         /\ task[t].role \in {"run", "stranded"} /\ task[t].job \in Jobs
      \/ NewId(task'[t].js.id)
  BY <1>1 DEF Tame, TakesId
<1>6. task'[t].job \in {None, task[t].job}
  BY DEF Tame
<1>7. \A s \in Tasks \ {t} : task'[s] = task[s]
  BY <1>4 DEF Others
<1>8. /\ \A s \in Tasks : task[s].js.id # None => ~NewId(task[s].js.id)
      /\ \A j \in Jobs : row[j].js.id # None => ~NewId(row[j].js.id)
  BY DEF IdsBorn, Separate
<1> HIDE DEF NewId
<1>9. Company'
  <2> SUFFICES ASSUME NEW s \in Tasks \ {t}, task[s].job = task'[t].job,
                      task'[t].job # None
               PROVE  Paired(task[s], task'[t]) /\ Paired(task'[t], task[s])
    BY <1>7 DEF Company, Separate
  <2>1. task[t].job = task[s].job
    BY <1>6
  <2>2. Paired(task[s], task[t])
    BY <2>1 DEF Company, Separate
  <2>3. Past(task[s]) => row[task[t].job].status # "queued"
    BY <2>1 DEF RowsFit, RowFits
  <2> QED
    BY <2>1, <2>2, <2>3 DEF Tame, Paired
<1>10. TasksApart'
  <2> SUFFICES ASSUME NEW s \in Tasks \ {t}, task[s].job # None,
                      task'[t].job # None, task[s].js.id # None,
                      task[s].js.id = task'[t].js.id
               PROVE  task[s].job = task'[t].job
    BY <1>7 DEF TasksApart, Separate
  <2> QED
    BY <1>5, <1>6, <1>8 DEF TasksApart, TaskRowApart, Separate
<1>11. TaskRowApart'
  <2> SUFFICES ASSUME NEW s \in Tasks, NEW j \in Jobs, IsActive(j)',
                      row'[j].js.id # None, task'[s].job # None,
                      task'[s].js.id = row'[j].js.id
               PROVE  task'[s].job = j
    BY DEF TaskRowApart
  <2>1. CASE s = t
    BY <1>1, <1>2, <1>5, <1>6, <1>8, <2>1 DEF TaskRowApart, RowsApart, Separate
  <2>2. CASE s # t
    BY <1>1, <1>2, <1>7, <2>2 DEF TasksApart, TaskRowApart, Separate
  <2> QED
    BY <2>1, <2>2
<1>12. RowsApart'
  <2> SUFFICES ASSUME NEW j \in Jobs, NEW k \in Jobs, IsActive(j)',
                      IsActive(k)', row'[j].js.id # None,
                      row'[j].js.id = row'[k].js.id
               PROVE  j = k
    BY DEF RowsApart
  <2> QED
    BY <1>1, <1>2 DEF TaskRowApart, RowsApart, Separate
<1>13. DeletesAlone'
  <2> SUFFICES ASSUME NEW s \in Tasks, NEW u \in Tasks, s # u,
                      task'[s].role = "delete", task'[u].role \in CommandRoles
               PROVE  task'[s].js.id # task'[u].js.id
    BY DEF DeletesAlone
  <2>0. \A r \in Tasks : task[r].role = "delete" =>
            task[r].js.id # None /\ task[r].job = None
    BY DEF TasksPlaced, Placed
  <2>1. task'[t].role = "delete" =>
          task[t].role = "delete" /\ task'[t].js.id = task[t].js.id
    BY <2>0, <1>6 DEF Tame, CommandRoles
  <2>2. task'[t].role \in CommandRoles =>
          /\ task[t].role \in CommandRoles
          /\ \/ task'[t].js.id \in {None, task[t].js.id}
             \/ NewId(task'[t].js.id)
    <3>1. task'[t].role \in CommandRoles => task[t].role \in CommandRoles
      BY <1>6 DEF Tame, CommandRoles
    <3>2. task[t].role \notin {"run", "stranded"} =>
            \/ task'[t].js.id \in {None, task[t].js.id}
            \/ NewId(task'[t].js.id)
      BY <1>5
    <3>3. task[t].role \in CommandRoles => task[t].role \notin {"run", "stranded"}
      BY DEF CommandRoles
    <3> QED
      BY <3>1, <3>2, <3>3
  <2>3. CASE s = t
    BY <1>7, <2>1, <2>3 DEF DeletesAlone, Separate
  <2>4. CASE u = t
    <3>1. task'[s] = task[s] /\ task[s].role = "delete" /\ task[s].js.id # None
      BY <1>7, <2>0, <2>4
    <3>2. CASE task'[t].js.id \in {None, task[t].js.id}
      BY <2>2, <2>4, <3>1, <3>2 DEF DeletesAlone, Separate
    <3>3. CASE NewId(task'[t].js.id)
      BY <1>8, <2>4, <3>1, <3>3
    <3> QED
      BY <2>2, <2>4, <3>2, <3>3
  <2>5. CASE s # t /\ u # t
    BY <1>7, <2>5 DEF DeletesAlone, Separate
  <2> QED
    BY <2>3, <2>4, <2>5
<1>14. IdsBorn'
  <2>1. \A s \in Tasks : task'[s].js.id # None => inst'[task'[s].js.id] # "unborn"
    <3>1. \A s \in Tasks \ {t} : task'[s].js.id # None =>
            inst'[task'[s].js.id] # "unborn"
      BY <1>1, <1>3, <1>7 DEF IdsBorn, Separate
    <3>2. task'[t].js.id # None => inst'[task'[t].js.id] # "unborn"
      BY <1>1, <1>3, <1>5 DEF IdsBorn, Separate, NewId
    <3> QED
      BY <3>1, <3>2
  <2>2. \A j \in Jobs : row'[j].js.id # None => inst'[row'[j].js.id] # "unborn"
    BY <1>1, <1>2, <1>3 DEF IdsBorn, Separate
  <2> QED
    BY <2>1, <2>2 DEF IdsBorn
<1> QED
  BY <1>9, <1>10, <1>11, <1>12, <1>13, <1>14 DEF Separate

Fits(t) == /\ Placed(task[t]) /\ Locked(task[t])
           /\ task[t].job # None => RowFits(task[t])

\* What a task relies on outlives a step of another that leaves this much.
LEMMA RowFitsKept ==
    ASSUME NEW s \in Tasks, RowFits(task[s]), task'[s] = task[s],
           task[s].job \in Jobs,
           row'[task[s].job].status # "absent",
           task[s].role = "retry" =>
               row'[task[s].job].status = row[task[s].job].status,
           row[task[s].job].status # "queued" =>
               row'[task[s].job].status # "queued",
           ~IsActive(task[s].job) => row'[task[s].job].status \notin Active,
           task[s].role = "run" /\ task[s].pc \in {"work", "backup"} =>
               row'[task[s].job].js.staging = row[task[s].job].js.staging,
           task[s].pc = "save" =>
               backup'[task[s].job] = backup[task[s].job]
    PROVE  RowFits(task[s])'
BY DEF RowFits, IsActive, Past, Waiting

LEMMA StepKeepsSerial ==
    ASSUME SerialInv, TypeOK', NEW t \in Tasks, Tame(t), Polite(t), Fits(t)'
    PROVE  SerialInv'
<1> USE ConstantsAssumption DEF SerialInv
<1>1. /\ \A s \in Tasks \ {t} : task'[s] = task[s]
      /\ \A s \in Tasks : task[s].job \in Jobs \cup {None} /\ task[s].js.id \in Instances \cup {None}
      /\ None \notin Jobs \cup Instances
      /\ task'[t].job \in {None, task[t].job}
  BY DEF Tame, Others, TypeOK, Task, JobState, Instances
<1>2. Separate'
  BY TameStep
<1>3. TasksPlaced'
  BY <1>1 DEF Fits, TasksPlaced
<1>4. RolesFitApp'
  <2>1. task'[t].role = "recover" => task[t].role = "recover"
    BY DEF Tame
  <2>2. task'[t].role # "idle" => task[t].role # "idle"
    BY DEF Tame
  <2>3. task[t].role = "recover" => task'[t].role \in {"idle", "recover"}
    BY <1>1 DEF Tame
  <2>4. app' = app
    BY DEF Tame
  <2>5. task[t].role # "idle"
    BY DEF Tame
  <2> QED
    BY <1>1, <2>1, <2>3, <2>4, <2>5 DEF RolesFitApp
<1>5. RowsFit'
  <2> SUFFICES ASSUME NEW s \in Tasks \ {t}, NEW j \in Jobs,
                      task[s].job = j
               PROVE  RowFits(task[s])'
    BY <1>1 DEF Fits, RowsFit
  <2>1. task'[s] = task[s] /\ task[s].job = j /\ RowFits(task[s])
    BY <1>1 DEF RowsFit
  <2>2. CASE task[t].job # j
    <3>1. TouchesOther(t, j)
      BY <2>1, <2>2 DEF Polite, PoliteToJobs, PoliteToInstances
    <3>2. task[t].role = "recover" => task[s].pc # "save"
      <4>1. task[t].role = "recover" => task[s].role \in {"idle", "recover"}
        BY DEF RolesFitApp
      <4> QED
        BY <4>1 DEF TasksPlaced, Placed, Undoing
    <3>3. /\ row'[j].js = row[j].js
          /\ \/ row'[j].status = row[j].status
             \/ IsActive(j) /\ row'[j].status = "canceled"
          /\ task[s].pc = "save" => backup'[j] = backup[j]
      BY <3>1, <3>2 DEF TouchesOther
    <3>4. /\ row[j].status # "absent" => row'[j].status # "absent"
          /\ row[j].status # "queued" => row'[j].status # "queued"
          /\ ~IsActive(j) => row'[j].status = row[j].status
      BY <3>3 DEF IsActive, Active
    <3>5. row[j].status \in {"failed", "interrupted"} \/ ~IsActive(j) =>
            ~IsActive(j)' /\ row'[j].status = row[j].status
      BY <3>4 DEF IsActive, Active
    <3>6. /\ task[s].role = "retry" => row'[j].status = row[j].status
          /\ row[j].status # "absent"
      BY <2>1, <3>5 DEF RowFits
    <3>7. task[s].pc = "save" => backup'[j] = backup[j]
      BY <3>3
    <3>8. ~IsActive(j) => row'[j].status \notin Active
      BY <3>5 DEF IsActive
    <3> QED
      BY <2>1, <3>3, <3>4, <3>6, <3>7, <3>8, RowFitsKept
  <2>3. CASE task[t].job = j
    <3>1. TouchesOwn(t, j)
      BY <2>1, <2>3 DEF Polite, PoliteToJobs, PoliteToInstances
    <3>2. Paired(task[t], task[s])
      BY <2>1, <2>3 DEF Company, Separate
    <3>3. task[t].role # "retry" /\ task[s].role \in {"run", "stranded", "cancel"}
      BY <3>2 DEF Paired
    <3>4. Past(task[s]) /\ task[s].role = "run" => Unclaimed(t)
      BY <2>1, <2>3, <3>2
      DEF Paired, Past, Waiting, RowFits, Unclaimed, TasksPlaced, Placed
    <3>5. task[s].pc \in {"work", "backup", "save"} => Past(task[s]) /\ task[s].role = "run"
      BY <3>3 DEF TasksPlaced, Placed, Past, Waiting, Undoing
    <3> QED
      <4>1. /\ row'[j].status # "absent"
            /\ row[j].status # "queued" => row'[j].status # "queued"
            /\ ~IsActive(j) => ~IsActive(j)'
        BY <3>1, <3>3 DEF TouchesOwn, IsActive
      <4>2. Past(task[s]) /\ task[s].role = "run" =>
              row'[j].js.staging = row[j].js.staging /\ backup'[j] = backup[j]
        BY <3>1, <3>3, <3>4 DEF TouchesOwn
      <4> QED
        BY <2>1, <3>3, <3>5, <4>1, <4>2, RowFitsKept DEF IsActive
  <2> QED
    BY <2>2, <2>3
<1>9. LeftToRecover'
  <2> SUFFICES ASSUME NEW s \in Tasks, task'[s].role = "recover",
                      NEW j \in Jobs, j \in task'[s].left
               PROVE  row'[j].status \in Active /\ j # task'[s].job
    BY DEF LeftToRecover, IsActive, TypeOK, Task
  <2>1. /\ task[s].role = "recover" /\ j \in task[s].left
        /\ task'[s].job \in {None, task[s].job}
    BY <1>1 DEF Tame
  <2>2. IsActive(j) /\ j # task[s].job
    BY <2>1 DEF LeftToRecover
  <2>3. s = t
    BY <2>1 DEF Tame, RolesFitApp
  <2>4. TouchesOther(t, j) /\ task[t].role # "delete"
    BY <2>1, <2>2, <2>3 DEF Polite, PoliteToJobs
  <2>5. row'[j].status = row[j].status
    BY <2>3, <2>4 DEF TouchesOther
  <2> QED
    BY <1>1, <2>1, <2>2, <2>5 DEF IsActive
<1>6. QueuedUnstaged'
  BY DEF Polite, PoliteToJobs, PoliteToInstances, TouchesOther, TouchesOwn,
      QueuedUnstaged
<1>7. BackupKept'
  <2> SUFFICES ASSUME NEW j \in Jobs, IsActive(j)', HasSavedBackup(j)'
               PROVE  backup'[j] # "none"
    BY DEF BackupKept
  <2>1. Exists(row[j].js.id)' /\ row'[j].js.id = row[j].js.id => Exists(row[j].js.id)
    BY <1>1 DEF Exists, Polite, PoliteToInstances, IdsBorn, Separate
  <2>2. IsActive(j) /\ HasSavedBackup(j) => backup[j] # "none"
    BY DEF BackupKept
  <2>3. CASE j = task[t].job
    <3>1. TouchesOwn(t, j)
      BY <2>3 DEF Polite, PoliteToJobs, PoliteToInstances
    <3> QED
      BY <2>1, <2>2, <3>1 DEF TouchesOwn, HasSavedBackup, IsActive
  <2>4. CASE j # task[t].job
    <3>0. row'[j].status # "canceled"
      BY DEF IsActive, Active
    <3>1. TouchesOther(t, j)
      BY <2>4 DEF Polite, PoliteToJobs, PoliteToInstances
    <3> QED
      BY <2>1, <2>2, <3>0, <3>1 DEF TouchesOther, HasSavedBackup, IsActive
  <2> QED
    BY <2>3, <2>4
<1>8. LaunchBlockedWhileInstalling'
  <2> SUFFICES ASSUME NEW s \in Tasks \ {t}, task[s].role = "run",
                      task[s].pc \in {"backup", "save", "install"},
                      Exists(task[s].js.id)'
               PROVE  inst'[task[s].js.id] = "installing"
    BY <1>1 DEF Fits, Locked, LaunchBlockedWhileInstalling
  <2> DEFINE i == task[s].js.id
  <2>1. i \in Instances /\ inst[i] # "unborn" /\ task'[s] = task[s]
    BY <1>1 DEF Exists, IdsBorn, Separate
  <2>2. Exists(i)'
    BY <2>1
  <2>3. Past(task[s]) /\ task[s].job # None
    BY DEF Past, Waiting, TypeOK, WellFormed
  <2>4. ASSUME i = task[t].js.id, task[t].job # None PROVE Unclaimed(t)
    <3>1. task[t].job = task[s].job
      BY <1>1, <2>1, <2>3, <2>4 DEF TasksApart, Separate
    <3>2. Paired(task[t], task[s])
      BY <2>3, <3>1 DEF Company, Separate
    <3> QED
      BY <2>3, <3>1, <3>2
      DEF Paired, Past, Waiting, RowsFit, RowFits, Unclaimed
  <2>5. inst'[i] = inst[i] \/ inst'[i] = "installing"
    BY <2>1, <2>2, <2>4
    DEF Polite, PoliteToJobs, PoliteToInstances, Exists, Stages
  <2> QED
    BY <2>1, <2>2, <2>5 DEF LaunchBlockedWhileInstalling, Exists
<1> QED
  BY <1>2, <1>3, <1>4, <1>5, <1>6, <1>7, <1>8, <1>9

----------------------------------------------------------------------------
(* Every step of a task is tame and polite and leaves the task fit. *)

Good(t) == Tame(t) /\ Polite(t) /\ Fits(t)'

LEMMA WaitsOrNot ==
    ASSUME SerialInv, NEW t \in Tasks, task[t].job # None
    PROVE  /\ task[t].job \in Jobs /\ row[task[t].job].status # "absent"
           /\ task[t].js.id \in Instances \cup {None}
           /\ None \notin Jobs \cup Instances
           /\ RowFits(task[t]) /\ Placed(task[t])
BY ConstantsAssumption
DEF SerialInv, TypeOK, Task, JobState, Instances, RowsFit, RowFits, TasksPlaced

LEMMA SameJobsPolite ==
    ASSUME SerialInv, NEW t \in Tasks, UNCHANGED <<row, backup>>
    PROVE  PoliteToJobs(t)
<1> SUFFICES ASSUME NEW j \in Jobs
             PROVE  IF j = task[t].job THEN TouchesOwn(t, j)
                                       ELSE TouchesOther(t, j)
  BY DEF PoliteToJobs
<1>1. CASE j = task[t].job
  <2>1. row[j].status # "absent"
    BY <1>1, ConstantsAssumption DEF SerialInv, RowsFit, RowFits
  <2>2. row[j].status = "queued" => ~row[j].js.staging
    BY DEF SerialInv, QueuedUnstaged
  <2> QED
    BY <1>1, <2>1, <2>2 DEF TouchesOwn, IsActive
<1>2. CASE j # task[t].job
  BY <1>2 DEF TouchesOther
<1> QED
  BY <1>1, <1>2

\* A statement on the row of the task's own job, and on its backup.
LEMMA OwnJobPolite ==
    ASSUME NEW t \in Tasks, task[t].job \in Jobs, TouchesOwn(t, task[t].job),
           \A k \in Jobs \ {task[t].job} :
               row'[k] = row[k] /\ backup'[k] = backup[k]
    PROVE  PoliteToJobs(t)
BY DEF PoliteToJobs, TouchesOther

LEMMA DropJobsPolite ==
    ASSUME SerialInv, NEW t \in Tasks, NEW i, Drops(i),
           \A k \in Jobs : backup'[k] = backup[k]
    PROVE  PoliteToJobs(t)
<1> SUFFICES ASSUME NEW j \in Jobs
             PROVE  IF j = task[t].job THEN TouchesOwn(t, j)
                                       ELSE TouchesOther(t, j)
  BY DEF PoliteToJobs
<1>1. CASE j = task[t].job
  <2>1. row[j].status # "absent"
    BY <1>1, ConstantsAssumption DEF SerialInv, RowsFit, RowFits
  <2>2. row[j].status = "queued" => ~row[j].js.staging
    BY DEF SerialInv, QueuedUnstaged
  <2> QED
    BY <1>1, <2>1, <2>2 DEF TouchesOwn, IsActive, Drops
<1>2. CASE j # task[t].job
  BY <1>2 DEF TouchesOther, Drops
<1> QED
  BY <1>1, <1>2

LEMMA SameInstancesPolite ==
    ASSUME NEW t \in Tasks, UNCHANGED inst
    PROVE  PoliteToInstances(t)
BY DEF PoliteToInstances

LEMMA StagePolite ==
    ASSUME TypeOK, NEW t \in Tasks, NEW stage \in Stages,
           task[t].job # None, ~Unclaimed(t),
           inst' = WithStage(task[t].js.id, stage)
    PROVE  PoliteToInstances(t)
BY StageSet DEF PoliteToInstances, Exists

LEMMA DropPolite ==
    ASSUME TypeOK, NEW t \in Tasks, NEW i, Exists(i), Drops(i)
    PROVE  PoliteToInstances(t)
BY DEF PoliteToInstances, Drops, Exists

\* A task that is done, or a recovery that goes on to the next job.
LEMMA IdlesGood ==
    ASSUME SerialInv, NEW t \in Tasks, task[t].role # "idle", UNCHANGED app,
           Idles(t)
    PROVE  Tame(t) /\ Fits(t)'
BY ConstantsAssumption
DEF Idles, Tame, Fits, Placed, Locked, NewState, Undoing

LEMMA ProceedsGood ==
    ASSUME SerialInv, NEW t \in Tasks, task[t].role = "recover",
           UNCHANGED app, Proceeds(t)
    PROVE  Tame(t) /\ Fits(t)'
BY ConstantsAssumption
DEF Proceeds, Tame, Fits, Placed, Locked, NewState, Undoing

\* A step that puts no job into another status.
StatusesKept == \A k \in Jobs : row'[k].status = row[k].status

LEMMA WriteStatuses ==
    ASSUME NEW j \in Jobs, NEW js, Writes(j, row[j].status, js)
    PROVE  StatusesKept
BY DEF StatusesKept, Writes

\* The facts about the task that an action starts from.
LEMMA Acting ==
    ASSUME SerialInv, NEW t \in Tasks, task[t].pc \notin {"idle", "list", "next"}
    PROVE  /\ TypeOK /\ task[t].job \in Jobs /\ task[t].job # None
           /\ task[t].role # "idle" /\ task[t].role # "delete"
           /\ row[task[t].job].status # "absent"
           /\ task[t].js.id \in Instances \cup {None}
           /\ None \notin Jobs \cup Instances
           /\ RowFits(task[t]) /\ Placed(task[t])
           /\ (task[t].js.id # None => inst[task[t].js.id] # "unborn")
<1>1. task[t].job \in Jobs /\ task[t].job # None
  BY ConstantsAssumption DEF SerialInv, TypeOK, WellFormed
<1> QED
  BY <1>1, WaitsOrNot DEF SerialInv, Placed, Separate, IdsBorn

LEMMA RequeueGood ==
    ASSUME SerialInv, NEW t \in Tasks, Requeue(t)
    PROVE  Good(t)
<1>1. At(t, "retry", "requeue") /\ UNCHANGED <<inst, backup, app>>
  BY DEF Requeue
<1> USE Acting DEF At
<1>2. CASE Return(t) /\ UNCHANGED row
  BY <1>1, <1>2, ReturnIdles, IdlesGood, SameJobsPolite, SameInstancesPolite
  DEF Good, Polite
<1>3. ASSUME NEW id \in {None, task[t].js.id},
             row' = WithStatus(task[t].job, "queued", NewState(id)),
             task' = [task EXCEPT ![t].role = "setup", ![t].pc = "prepare",
                                  ![t].js = NewState(id)]
      PROVE  Good(t)
  <2>1. Moves(t, "setup", "prepare", NewState(id))
    BY <1>1, <1>3 DEF Moves, Others, TypeOK, Task
  <2>2. Writes(task[t].job, "queued", NewState(id))
    BY <1>1, <1>3, WithStatusWrites
  <2>3. Tame(t)
    BY <1>1, <2>1 DEF Tame, Moves, TakesId, Past, Waiting, NewState
  <2>4. TouchesOwn(t, task[t].job)
    BY <1>1, <2>2 DEF Writes, TouchesOwn, NewState, Unclaimed
  <2>5. Fits(t)'
    BY <1>1, <2>1, <2>2
    DEF Moves, Writes, Fits, Placed, Locked, RowFits, Past, Waiting, NewState
  <2> QED
    BY <1>1, <2>2, <2>3, <2>4, <2>5, OwnJobPolite, SameInstancesPolite
    DEF Good, Polite, Writes
<1> QED
  BY <1>1, <1>2, <1>3 DEF Requeue

\* A task that moves on with what it knows, and changes nothing else.
LEMMA MoveGood ==
    ASSUME SerialInv, NEW t \in Tasks, NEW pc, NEW js,
           task[t].pc \notin {"idle", "list", "next"},
           Moves(t, task[t].role, pc, js), UNCHANGED app,
           TakesId(t, js.id), Placed(task[t])', Locked(task[t])',
           RowFits(task[t])',
           Past(task[t])' => Past(task[t])
                             \/ row[task[t].job].status = "queued"
    PROVE  Tame(t) /\ Fits(t)'
BY Acting DEF Tame, Moves, Fits, Past, Waiting

LEMMA PrepareNewGood ==
    ASSUME SerialInv, NEW t \in Tasks, PrepareNew(t)
    PROVE  Good(t)
<1>1. At(t, "setup", "prepare") /\ UNCHANGED <<row, backup, app>>
  BY DEF PrepareNew
<1> USE Acting DEF At
<1>2. ASSUME NEW pc \in {"persist", "cleanup"}, NEW js, js.staging = task[t].js.staging,
             Moves(t, "setup", pc, js), TakesId(t, js.id)
      PROVE  Tame(t) /\ Fits(t)'
  <2>1. Placed(task[t])' /\ Locked(task[t])' /\ RowFits(task[t])' /\ ~Past(task[t])'
    BY <1>1, <1>2
    DEF Moves, Placed, Locked, RowFits, Past, Waiting, Undoing, IsActive
  <2> QED
    BY <1>1, <1>2, <2>1, MoveGood
<1>3. ASSUME NEW i \in Fresh, inst[i] = "unborn", NEW pc \in {"persist", "cleanup"},
             inst' = [inst EXCEPT ![i] = "not_installed"],
             GotoWith(t, pc, [task[t].js EXCEPT !.id = i])
      PROVE  Good(t)
  <2> DEFINE js == [task[t].js EXCEPT !.id = i]
  <2>1. js.staging = task[t].js.staging /\ js.id = i
    BY <1>1, <1>3 DEF TypeOK, Task, JobState
  <2>2. Moves(t, "setup", pc, js)
    BY <1>1, <1>3, GotoWithMoves
  <2>3. i \in Instances /\ PoliteToInstances(t) /\ inst'[i] = "not_installed"
    BY <1>1, <1>3 DEF PoliteToInstances, Instances, TypeOK
  <2>4. TakesId(t, js.id)
    BY <1>3, <2>1, <2>3 DEF TakesId
  <2> QED
    BY <1>1, <1>2, <2>1, <2>2, <2>3, <2>4, SameJobsPolite DEF Good, Polite
<1>4. CASE Goto(t, "cleanup") /\ UNCHANGED inst
  <2>1. Moves(t, "setup", "cleanup", task[t].js)
    BY <1>1, <1>4, GotoMoves
  <2> QED
    BY <1>1, <1>2, <1>4, <2>1, SameJobsPolite, SameInstancesPolite
    DEF Good, Polite, TakesId
<1> QED
  BY <1>3, <1>4 DEF PrepareNew

\* The preparation and the statement that saves it.
LEMMA PrepareExistingGood ==
    ASSUME SerialInv, NEW t \in Tasks, PrepareExisting(t)
    PROVE  Good(t)
<1>1. At(t, "setup", "prepare") /\ UNCHANGED <<row, inst, backup, app>>
  BY DEF PrepareExisting
<1> USE Acting DEF At
<1>2. PICK pc, js : pc \in {"persist", "cleanup"} /\ Moves(t, "setup", pc, js)
          /\ js.staging = task[t].js.staging /\ js.id = task[t].js.id
  <2>1. CASE GotoWith(t, "persist", [task[t].js EXCEPT !.rb = inst[task[t].js.id]])
    <3> DEFINE js == [task[t].js EXCEPT !.rb = inst[task[t].js.id]]
    <3>1. js.staging = task[t].js.staging /\ js.id = task[t].js.id
      BY <1>1 DEF TypeOK, Task, JobState
    <3>2. Moves(t, "setup", "persist", js)
      BY <1>1, <2>1, GotoWithMoves
    <3> QED
      BY <3>1, <3>2
  <2>2. CASE Goto(t, "cleanup")
    BY <1>1, <2>2, GotoMoves
  <2> QED
    BY <2>1, <2>2 DEF PrepareExisting
<1>3. Placed(task[t])' /\ Locked(task[t])' /\ RowFits(task[t])' /\ ~Past(task[t])'
  BY <1>1, <1>2
  DEF Moves, Placed, Locked, RowFits, Past, Waiting, Undoing, IsActive
<1> QED
  BY <1>1, <1>2, <1>3, MoveGood, SameJobsPolite, SameInstancesPolite
  DEF Good, Polite, TakesId

LEMMA PersistGood ==
    ASSUME SerialInv, NEW t \in Tasks, Persist(t)
    PROVE  Good(t)
<1>1. At(t, "setup", "persist") /\ UNCHANGED <<inst, backup, app>>
  BY DEF Persist
<1> USE Acting DEF At
<1>2. CASE ~IsActive(task[t].job) /\ Goto(t, "cleanup") /\ UNCHANGED row
  <2>1. Moves(t, "setup", "cleanup", task[t].js)
    BY <1>1, <1>2, GotoMoves
  <2>2. Placed(task[t])' /\ Locked(task[t])' /\ RowFits(task[t])' /\ ~Past(task[t])'
    BY <1>1, <1>2, <2>1
    DEF Moves, Placed, Locked, RowFits, Past, Waiting, Undoing, IsActive
  <2> QED
    BY <1>1, <1>2, <2>1, <2>2, MoveGood, SameJobsPolite, SameInstancesPolite
    DEF Good, Polite, TakesId
<1>3. CASE IsActive(task[t].job) /\ Goto(t, "lock") /\ row' = Updated(task[t].job, task[t].js)
  <2>1. Moves(t, "setup", "lock", task[t].js)
    BY <1>1, <1>3, GotoMoves
  <2>2. Writes(task[t].job, row[task[t].job].status, task[t].js)
    BY <1>1, <1>3, UpdatedWrites
  <2>3. /\ Placed(task[t])' /\ Locked(task[t])' /\ ~Past(task[t])'
        /\ RowFits(task[t])'
    <3>1. Placed(task[t])'
      BY <1>1, <2>1 DEF Moves, Placed
    <3>2. Locked(task[t])' /\ ~Past(task[t])'
      BY <1>1, <2>1 DEF Moves, Locked, Past
    <3>3. /\ task'[t].role = "setup" /\ task'[t].pc = "lock"
          /\ task'[t].job = task[t].job /\ ~task'[t].js.staging
          /\ row'[task[t].job].status # "absent"
      BY <1>1, <2>1, <2>2 DEF Moves, Writes, RowFits
    <3>4. RowFits(task[t])'
      BY <3>2, <3>3 DEF RowFits
    <3> QED
      BY <3>1, <3>2, <3>4
  <2>4. TouchesOwn(t, task[t].job)
    BY <1>1, <1>3, <2>2 DEF Writes, TouchesOwn, Unclaimed, IsActive, RowFits
  <2> QED
    BY <1>1, <2>1, <2>2, <2>3, <2>4, MoveGood, OwnJobPolite,
       SameInstancesPolite DEF Good, Polite, Writes, TakesId
<1> QED
  BY <1>2, <1>3 DEF Persist

LEMMA LockAndSpawnGood ==
    ASSUME SerialInv, NEW t \in Tasks, LockAndSpawn(t)
    PROVE  Good(t)
<1>1. At(t, "setup", "lock") /\ UNCHANGED <<row, backup, app>>
      /\ inst' \in {inst, WithStage(task[t].js.id, "installing")}
  BY DEF LockAndSpawn
<1> USE Acting DEF At
<1>2. Polite(t)
  BY <1>1, StagePolite, SameInstancesPolite, SameJobsPolite
  DEF Polite, Unclaimed, Stages
<1>3. CASE Goto(t, "cleanup")
  <2>1. Moves(t, "setup", "cleanup", task[t].js)
    BY <1>1, <1>3, GotoMoves
  <2>2. Placed(task[t])' /\ Locked(task[t])' /\ RowFits(task[t])' /\ ~Past(task[t])'
    BY <1>1, <2>1
    DEF Moves, Placed, Locked, RowFits, Past, Waiting, Undoing, IsActive
  <2> QED
    BY <1>1, <1>2, <2>1, <2>2, MoveGood DEF Good, TakesId
<1>4. CASE task' = [task EXCEPT ![t] = [IdleTask EXCEPT !.role = "run",
                        !.pc = "read", !.job = task[t].job]]
  <2>1. /\ Others(t) /\ task'[t].role = "run" /\ task'[t].pc = "read"
        /\ task'[t].job = task[t].job /\ task'[t].js = NewState(None)
        /\ task'[t].left = {}
    BY <1>1, <1>4 DEF Others, TypeOK, Task, IdleTask
  <2>2. Tame(t)
    BY <1>1, <2>1 DEF Tame, TakesId, Past, Waiting, NewState
  <2>3. Fits(t)'
    BY <1>1, <2>1
    DEF Fits, Placed, Locked, RowFits, Past, Waiting, IsActive, NewState
  <2> QED
    BY <1>2, <2>2, <2>3 DEF Good
<1> QED
  BY <1>3, <1>4 DEF LockAndSpawn

LEMMA RunReadGood ==
    ASSUME SerialInv, NEW t \in Tasks, RunRead(t)
    PROVE  Good(t)
<1>1. At(t, "run", "read") /\ UNCHANGED <<row, inst, backup, app>>
  BY DEF RunRead
<1> USE Acting DEF At
<1>2. CASE Return(t)
  BY <1>1, <1>2, ReturnIdles, IdlesGood, SameJobsPolite, SameInstancesPolite
  DEF Good, Polite
<1>3. CASE Goto(t, "acquire")
  <2>1. Moves(t, "run", "acquire", task[t].js)
    BY <1>1, <1>3, GotoMoves
  <2>2. Placed(task[t])' /\ Locked(task[t])' /\ RowFits(task[t])' /\ ~Past(task[t])'
    BY <1>1, <2>1
    DEF Moves, Placed, Locked, RowFits, Past, Waiting, IsActive, PermitPcs
  <2> QED
    BY <1>1, <2>1, <2>2, MoveGood, SameJobsPolite, SameInstancesPolite
    DEF Good, Polite, TakesId
<1> QED
  BY <1>2, <1>3 DEF RunRead

LEMMA AcquireGood ==
    ASSUME SerialInv, NEW t \in Tasks, Acquire(t)
    PROVE  Good(t)
<1>1. At(t, "run", "acquire") /\ UNCHANGED <<row, inst, backup, app>>
  BY DEF Acquire
<1> USE Acting DEF At
<1>2. CASE Return(t)
  BY <1>1, <1>2, ReturnIdles, IdlesGood, SameJobsPolite, SameInstancesPolite
  DEF Good, Polite
<1>3. CASE /\ row[task[t].job].status = "queued"
           /\ GotoWith(t, "claim", row[task[t].job].js)
  <2>1. Moves(t, "run", "claim", row[task[t].job].js)
    BY <1>1, <1>3, GotoWithMoves
  <2>2. ~row[task[t].job].js.staging
    BY <1>1, <1>3 DEF SerialInv, QueuedUnstaged
  <2>3. Placed(task[t])' /\ Locked(task[t])' /\ RowFits(task[t])' /\ ~Past(task[t])'
    BY <1>1, <2>1, <2>2
    DEF Moves, Placed, Locked, RowFits, Past, Waiting, IsActive, PermitPcs
  <2>4. TakesId(t, row[task[t].job].js.id)
    BY <1>1, <1>3 DEF TakesId, IsActive, Active
  <2> QED
    BY <1>1, <2>1, <2>3, <2>4, MoveGood, SameJobsPolite, SameInstancesPolite
    DEF Good, Polite
<1> QED
  BY <1>2, <1>3 DEF Acquire

\* A run that hands its job to terminalize_stranded_job.
LEMMA StrandGood ==
    ASSUME SerialInv, NEW t \in Tasks, task[t].role = "run",
           task[t].pc \in {"claim", "succeed"}, Strand(t),
           UNCHANGED <<row, inst, backup, app>>
    PROVE  Good(t)
<1> USE Acting
<1>1. Moves(t, "stranded", "check", task[t].js)
  BY StrandMoves
<1>2. Tame(t) /\ Fits(t)'
  BY <1>1
  DEF Tame, Moves, TakesId, Fits, Placed, Locked, RowFits, Past, Waiting,
      IsActive
<1> QED
  BY <1>2, SameJobsPolite, SameInstancesPolite DEF Good, Polite

LEMMA ClaimGood ==
    ASSUME SerialInv, NEW t \in Tasks, Claim(t)
    PROVE  Good(t)
<1>1. At(t, "run", "claim") /\ UNCHANGED <<inst, backup, app>>
  BY DEF Claim
<1> USE Acting DEF At
<1>2. CASE Return(t) /\ UNCHANGED row
  BY <1>1, <1>2, ReturnIdles, IdlesGood, SameJobsPolite, SameInstancesPolite
  DEF Good, Polite
<1>3. CASE Strand(t) /\ UNCHANGED row
  BY <1>1, <1>3, StrandGood
<1>4. CASE /\ row[task[t].job].status = "queued"
           /\ row' = WithStatus(task[t].job, "running", task[t].js)
           /\ Goto(t, "work")
  <2>1. Moves(t, "run", "work", task[t].js)
    BY <1>1, <1>4, GotoMoves
  <2>2. Writes(task[t].job, "running", task[t].js)
    BY <1>1, <1>4, WithStatusWrites
  <2>3. Placed(task[t])' /\ Locked(task[t])' /\ RowFits(task[t])'
    BY <1>1, <2>1, <2>2
    DEF Moves, Writes, Placed, Locked, RowFits, Past, Waiting, PermitPcs
  <2>4. TouchesOwn(t, task[t].job)
    BY <1>1, <1>4, <2>2
    DEF Writes, TouchesOwn, Unclaimed, IsActive, Active, RowFits
  <2> QED
    BY <1>1, <1>4, <2>1, <2>2, <2>3, <2>4, MoveGood, OwnJobPolite,
       SameInstancesPolite DEF Good, Polite, Writes, TakesId
<1> QED
  BY <1>2, <1>3, <1>4 DEF Claim

LEMMA WorkNewGood ==
    ASSUME SerialInv, NEW t \in Tasks, WorkNew(t)
    PROVE  Good(t)
<1>1. At(t, "run", "work") /\ UNCHANGED <<row, backup, app>>
  BY DEF WorkNew
<1> USE Acting DEF At
<1>2. CASE Goto(t, "ended_err") /\ UNCHANGED inst
  <2>1. Moves(t, "run", "ended_err", task[t].js)
    BY <1>1, <1>2, GotoMoves
  <2>2. Placed(task[t])' /\ Locked(task[t])' /\ RowFits(task[t])' /\ Past(task[t])
    BY <1>1, <2>1
    DEF Moves, Placed, Locked, RowFits, Past, Waiting, IsActive, PermitPcs
  <2> QED
    BY <1>1, <1>2, <2>1, <2>2, MoveGood, SameJobsPolite, SameInstancesPolite
    DEF Good, Polite, TakesId
<1>3. CASE /\ inst' = WithStage(task[t].js.id, "installing") /\ Exists(task[t].js.id)
           /\ task' = [task EXCEPT ![t].pc = "install", ![t].prev = inst[task[t].js.id]]
  <2>1. Moves(t, "run", "install", task[t].js)
    BY <1>1, <1>3 DEF Moves, Others, TypeOK, Task
  <2>2. inst'[task[t].js.id] = "installing"
    BY <1>1, <1>3 DEF WithStage, Exists, TypeOK
  <2>3. Placed(task[t])' /\ Locked(task[t])' /\ RowFits(task[t])' /\ Past(task[t])
    BY <1>1, <2>1, <2>2
    DEF Moves, Placed, Locked, RowFits, Past, Waiting, IsActive, PermitPcs
  <2> QED
    BY <1>1, <1>3, <2>1, <2>3, MoveGood, SameJobsPolite, StagePolite
    DEF Good, Polite, TakesId, Unclaimed, Stages
<1> QED
  BY <1>2, <1>3 DEF WorkNew

LEMMA WorkExistingGood ==
    ASSUME SerialInv, NEW t \in Tasks, WorkExisting(t)
    PROVE  Good(t)
<1>1. At(t, "run", "work") /\ UNCHANGED <<backup, app>> /\ Past(task[t])
  BY DEF WorkExisting, Past, At, Waiting
<1> USE Acting DEF At
<1>2. CASE Goto(t, "ended_err") /\ UNCHANGED <<row, inst>>
  <2>1. Moves(t, "run", "ended_err", task[t].js)
    BY <1>1, <1>2, GotoMoves
  <2>2. Placed(task[t])' /\ Locked(task[t])' /\ RowFits(task[t])'
    BY <1>1, <1>2, <2>1
    DEF Moves, Placed, Locked, RowFits, Past, Waiting, IsActive, PermitPcs
  <2> QED
    BY <1>1, <1>2, <2>1, <2>2, MoveGood, SameJobsPolite, SameInstancesPolite
    DEF Good, Polite, TakesId
<1>3. ASSUME NEW pc \in {"backup", "install", "ended_err"},
             NEW js, js = [task[t].js EXCEPT !.rb = IF @ = None THEN inst[task[t].js.id] ELSE @],
             Exists(task[t].js.id),
             inst' = WithStage(task[t].js.id, "installing"),
             task' = [task EXCEPT ![t].pc = pc, ![t].js = js, ![t].prev = "installing"],
             (row' = Updated(task[t].job, js) /\ IsActive(task[t].job)) \/ UNCHANGED row
      PROVE  Good(t)
  <2>1. js.staging = task[t].js.staging /\ js.id = task[t].js.id
    BY <1>1, <1>3 DEF TypeOK, Task, JobState
  <2>2. Moves(t, "run", pc, js)
    <3>1. task' = [task EXCEPT ![t].pc = pc, ![t].js = js,
                               ![t].prev = "installing"]
      BY <1>3
    <3> QED
      BY <1>1, <3>1 DEF Moves, Others, TypeOK, Task
  <2>3. \/ Writes(task[t].job, row[task[t].job].status, js) /\ IsActive(task[t].job)
        \/ UNCHANGED row
    BY <1>1, <1>3, UpdatedWrites
  <2>4. inst'[task[t].js.id] = "installing"
    BY <1>1, <1>3 DEF WithStage, Exists, TypeOK
  <2>5. Placed(task[t])' /\ Locked(task[t])'
    BY <1>1, <2>1, <2>2, <2>4 DEF Moves, Placed, Locked, PermitPcs
  <2>6. RowFits(task[t])'
    <3>1. /\ task'[t].role = "run" /\ task'[t].pc = pc
          /\ task'[t].job = task[t].job /\ ~task'[t].js.staging
      BY <1>1, <2>1, <2>2 DEF Moves, RowFits
    <3>2. /\ row'[task[t].job].status = row[task[t].job].status
          /\ ~row'[task[t].job].js.staging
      BY <1>1, <2>1, <2>3 DEF Writes, RowFits
    <3>3. row[task[t].job].status \notin {"absent", "queued"}
      BY <1>1 DEF RowFits
    <3> QED
      BY <3>1, <3>2, <3>3 DEF RowFits
  <2>7. PoliteToJobs(t)
    <3>1. CASE UNCHANGED row
      BY <1>1, <3>1, SameJobsPolite
    <3>2. CASE Writes(task[t].job, row[task[t].job].status, js) /\ IsActive(task[t].job)
      <4>1. TouchesOwn(t, task[t].job)
        BY <1>1, <2>1, <3>2
        DEF Writes, TouchesOwn, Unclaimed, IsActive, RowFits
      <4> QED
        BY <1>1, <3>2, <4>1, OwnJobPolite DEF Writes
    <3> QED
      BY <2>3, <3>1, <3>2
  <2>8. PoliteToInstances(t)
    BY <1>1, <1>3, StagePolite DEF Unclaimed, Stages
  <2> QED
    BY <1>1, <2>1, <2>2, <2>5, <2>6, <2>7, <2>8, MoveGood
    DEF Good, Polite, TakesId
<1>4. CASE Exists(task[t].js.id)
  <2> DEFINE js == [task[t].js EXCEPT
                       !.rb = IF @ = None THEN inst[task[t].js.id] ELSE @]
             pc == IF row[task[t].job].kind = "update" THEN "backup"
                   ELSE IF IsActive(task[t].job) THEN "install"
                   ELSE "ended_err"
  <2>1. /\ inst' = WithStage(task[t].js.id, "installing")
        /\ task' = [task EXCEPT ![t].pc = pc, ![t].js = js,
                                ![t].prev = "installing"]
        /\ row' = IF IsActive(task[t].job) /\ row[task[t].job].kind # "update"
                  THEN Updated(task[t].job, js) ELSE row
    BY <1>4 DEF WorkExisting
  <2>2. pc \in {"backup", "install", "ended_err"}
    OBVIOUS
  <2> HIDE DEF pc, js
  <2>3. \/ row' = Updated(task[t].job, js) /\ IsActive(task[t].job)
        \/ UNCHANGED row
    BY <2>1
  <2> QED
    BY <1>3, <1>4, <2>1, <2>2, <2>3 DEF js
<1>5. CASE ~Exists(task[t].js.id)
  BY <1>2, <1>5 DEF WorkExisting
<1> QED
  BY <1>4, <1>5

LEMMA BackupGood ==
    ASSUME SerialInv, NEW t \in Tasks, Backup(t)
    PROVE  Good(t)
<1>1. At(t, "run", "backup") /\ UNCHANGED <<row, inst, app>> /\ Past(task[t])
  BY DEF Backup, Past, At, Waiting
<1> USE Acting DEF At
<1>2. ASSUME NEW b, backup' = [backup EXCEPT ![task[t].job] = b]
      PROVE  PoliteToJobs(t) /\ backup'[task[t].job] = b
  <2>1. /\ \A k \in Jobs \ {task[t].job} : backup'[k] = backup[k]
        /\ backup'[task[t].job] = b
    BY <1>1, <1>2 DEF TypeOK
  <2>2. ~row[task[t].job].js.staging
    BY <1>1 DEF RowFits
  <2>3. TouchesOwn(t, task[t].job)
    BY <1>1, <2>2 DEF TouchesOwn, Unclaimed, IsActive
  <2> QED
    BY <1>1, <2>1, <2>3, OwnJobPolite
<1>3. CASE /\ backup' = [backup EXCEPT ![task[t].job] = "none"]
           /\ Goto(t, "ended_err")
  <2>1. Moves(t, "run", "ended_err", task[t].js)
    BY <1>1, <1>3, GotoMoves
  <2>2. Placed(task[t])' /\ Locked(task[t])' /\ RowFits(task[t])'
    BY <1>1, <2>1
    DEF Moves, Placed, Locked, RowFits, Past, Waiting, IsActive, PermitPcs
  <2>3. PoliteToJobs(t)
    BY <1>2, <1>3
  <2> QED
    BY <1>1, <2>1, <2>2, <2>3, MoveGood, SameInstancesPolite
    DEF Good, Polite, TakesId
<1>4. CASE /\ Exists(task[t].js.id)
           /\ backup' = [backup EXCEPT ![task[t].job] = content[task[t].js.id]]
           /\ GotoWith(t, "save", [task[t].js EXCEPT !.staging = TRUE])
  <2> DEFINE js == [task[t].js EXCEPT !.staging = TRUE]
  <2>1. Moves(t, "run", "save", js)
    BY <1>1, <1>4, GotoWithMoves
  <2>2. js.id = task[t].js.id
    BY <1>1 DEF TypeOK, Task, JobState
  <2>3. backup'[task[t].job] # "none"
    BY <1>1, <1>2, <1>4 DEF Exists, TypeOK
  <2>4. Locked(task[t]) => Locked(task[t])'
    BY <1>1, <2>1, <2>2 DEF Moves, Locked, Exists
  <2>5. Locked(task[t])
    BY <1>1 DEF SerialInv, LaunchBlockedWhileInstalling, Locked
  <2>6. Placed(task[t])' /\ RowFits(task[t])'
    BY <1>1, <2>1, <2>3
    DEF Moves, Placed, RowFits, Past, Waiting, IsActive, PermitPcs
  <2>7. PoliteToJobs(t)
    BY <1>2, <1>4
  <2> QED
    BY <1>1, <2>1, <2>2, <2>4, <2>5, <2>6, <2>7, MoveGood, SameInstancesPolite
    DEF Good, Polite, TakesId
<1> QED
  BY <1>3, <1>4 DEF Backup

LEMMA SaveBackupGood ==
    ASSUME SerialInv, NEW t \in Tasks, SaveBackup(t)
    PROVE  Good(t)
<1>1. At(t, "run", "save") /\ UNCHANGED <<inst, backup, app>> /\ Past(task[t])
  BY DEF SaveBackup, Past, At, Waiting
<1> USE Acting DEF At
<1>2. CASE Goto(t, "ended_err") /\ UNCHANGED row
  <2>1. Moves(t, "run", "ended_err", task[t].js)
    BY <1>1, <1>2, GotoMoves
  <2>2. Placed(task[t])' /\ Locked(task[t])' /\ RowFits(task[t])'
    BY <1>1, <1>2, <2>1
    DEF Moves, Placed, Locked, RowFits, Past, Waiting, IsActive, PermitPcs
  <2> QED
    BY <1>1, <1>2, <2>1, <2>2, MoveGood, SameJobsPolite, SameInstancesPolite
    DEF Good, Polite, TakesId
<1>3. CASE /\ IsActive(task[t].job)
           /\ row' = Updated(task[t].job, task[t].js)
           /\ Goto(t, "install")
  <2>1. Moves(t, "run", "install", task[t].js)
    BY <1>1, <1>3, GotoMoves
  <2>2. Writes(task[t].job, row[task[t].job].status, task[t].js)
    BY <1>1, <1>3, UpdatedWrites
  <2>3. Locked(task[t])'
    BY <1>1, <2>1
    DEF Moves, Locked, Exists, SerialInv, LaunchBlockedWhileInstalling
  <2>4. Placed(task[t])'
    BY <1>1, <2>1 DEF Moves, Placed, PermitPcs
  <2>5. RowFits(task[t])'
    <3>1. /\ task'[t].role = "run" /\ task'[t].pc = "install"
          /\ task'[t].job = task[t].job
          /\ row'[task[t].job].status = row[task[t].job].status
      BY <1>1, <2>1, <2>2 DEF Moves, Writes
    <3>2. row[task[t].job].status \notin {"absent", "queued"}
      BY <1>1 DEF RowFits
    <3> QED
      BY <3>1, <3>2 DEF RowFits
  <2>6. TouchesOwn(t, task[t].job)
    <3>1. /\ row'[task[t].job].kind = row[task[t].job].kind
          /\ row'[task[t].job].status = row[task[t].job].status
          /\ row'[task[t].job].js.id = task[t].js.id
      BY <1>1, <2>2 DEF Writes
    <3>2. /\ row[task[t].job].status \notin {"absent", "queued"}
          /\ backup'[task[t].job] # "none"
      BY <1>1 DEF RowFits
    <3> QED
      BY <1>1, <1>3, <3>1, <3>2 DEF TouchesOwn, Unclaimed, IsActive
  <2> QED
    BY <1>1, <2>1, <2>2, <2>3, <2>4, <2>5, <2>6, MoveGood, OwnJobPolite,
       SameInstancesPolite DEF Good, Polite, Writes, TakesId
<1> QED
  BY <1>2, <1>3 DEF SaveBackup

LEMMA InstallGood ==
    ASSUME SerialInv, NEW t \in Tasks, Install(t)
    PROVE  Good(t)
<1>1. At(t, "run", "install") /\ UNCHANGED <<row, backup, app>> /\ Past(task[t])
  BY DEF Install, Past, At, Waiting
<1> USE Acting DEF At
<1>2. PICK pc \in {"ended_ok", "ended_err"} : Moves(t, "run", pc, task[t].js)
  BY <1>1, GotoMoves DEF Install
<1>3. Placed(task[t])' /\ Locked(task[t])' /\ RowFits(task[t])'
  BY <1>1, <1>2
  DEF Moves, Placed, Locked, RowFits, Past, Waiting, IsActive, PermitPcs
<1>4. task[t].prev \in Stages
  BY <1>1 DEF TypeOK, WellFormed, Task
<1>5. PoliteToInstances(t)
  BY <1>1, <1>4, SameInstancesPolite, StagePolite DEF Install, Unclaimed
<1> QED
  BY <1>1, <1>2, <1>3, <1>5, MoveGood, SameJobsPolite DEF Good, Polite, TakesId

LEMMA RereadGood ==
    ASSUME SerialInv, NEW t \in Tasks, Reread(t)
    PROVE  Good(t)
<1>1. /\ task[t].role = "run" /\ task[t].pc \in {"ended_ok", "ended_err"}
      /\ UNCHANGED <<row, inst, backup, app>> /\ Past(task[t])
  BY DEF Reread, Past, Waiting
<1> USE Acting
<1>2. CASE Return(t)
  BY <1>1, <1>2, ReturnIdles, IdlesGood, SameJobsPolite, SameInstancesPolite
  DEF Good, Polite
<1>3. ASSUME NEW pc \in {"succeed", "cleanup"}, NEW js, GotoWith(t, pc, js),
             TakesId(t, js.id)
      PROVE  Good(t)
  <2>1. Moves(t, "run", pc, js)
    BY <1>1, <1>3, GotoWithMoves
  <2>2. Placed(task[t])' /\ Locked(task[t])' /\ RowFits(task[t])'
    BY <1>1, <2>1
    DEF Moves, Placed, Locked, RowFits, Past, Waiting, IsActive, PermitPcs
  <2> QED
    BY <1>1, <1>3, <2>1, <2>2, MoveGood, SameJobsPolite, SameInstancesPolite
    DEF Good, Polite
<1>4. CASE GotoWith(t, "succeed", [row[task[t].job].js EXCEPT !.id = task[t].js.id])
  <2> DEFINE js == [row[task[t].job].js EXCEPT !.id = task[t].js.id]
  <2>1. js.id = task[t].js.id
    BY <1>1 DEF TypeOK, Row, JobState
  <2> QED
    BY <1>3, <1>4, <2>1 DEF TakesId
<1>5. CASE row[task[t].job].status = "running" /\ GotoWith(t, "cleanup", row[task[t].job].js)
  BY <1>1, <1>3, <1>5 DEF TakesId, IsActive, Active
<1>6. ASSUME NEW pc \in {"succeed", "cleanup"}, Goto(t, pc)
      PROVE  Good(t)
  <2>1. Moves(t, "run", pc, task[t].js)
    BY <1>1, <1>6, GotoMoves
  <2>2. Placed(task[t])' /\ Locked(task[t])' /\ RowFits(task[t])'
    BY <1>1, <1>6, <2>1
    DEF Moves, Placed, Locked, RowFits, Past, Waiting, IsActive, PermitPcs
  <2> QED
    BY <1>1, <2>1, <2>2, MoveGood, SameJobsPolite, SameInstancesPolite
    DEF Good, Polite, TakesId
<1> QED
  BY <1>2, <1>4, <1>5, <1>6 DEF Reread

\* The end of a worker, of a cancel and of a recovery: the row is finished or
\* left alone, and the staging directory may be left to clear.
LEMMA FinishGood ==
    ASSUME SerialInv, NEW t \in Tasks, NEW js, NEW status,
           status \in Finished, task[t].pc \in {"succeed", "finish"},
           Past(task[t]) \/ task[t].role \in {"setup", "stranded", "recover"},
           js.id \in {None, task[t].js.id},
           task[t].role \in {"setup", "cancel"} => ~js.staging,
           UNCHANGED <<backup, app>>,
           AfterFinish(t, js), Writes(task[t].job, status, js)
    PROVE  Tame(t) /\ Fits(t)' /\ PoliteToJobs(t)
<1> USE Acting
<1>1. /\ row'[task[t].job].status = status /\ status \notin Active
      /\ status \notin {"queued", "absent"}
  BY DEF Writes, Finished, Active
<1>2. TouchesOwn(t, task[t].job)
  BY <1>1 DEF Writes, TouchesOwn, Unclaimed
<1>3. Tame(t) /\ Fits(t)'
  <2>1. CASE Idles(t)
    BY <2>1, IdlesGood
  <2>2. CASE task[t].role = "recover" /\ Proceeds(t)
    BY <2>2, ProceedsGood
  <2>3. CASE Moves(t, task[t].role, "clear", js)
    <3>1. Placed(task[t])' /\ Locked(task[t])'
      BY <2>3 DEF Moves, Placed, Locked, PermitPcs, Undoing
    <3>2. RowFits(task[t])'
      BY <1>1, <2>3 DEF Moves, RowFits, Past, Waiting, IsActive
    <3>3. Past(task[t])' => Past(task[t])
      BY <2>3 DEF Moves, Past, Waiting
    <3> QED
      BY <2>3, <3>1, <3>2, <3>3, MoveGood DEF TakesId
  <2> QED
    BY <2>1, <2>2, <2>3, AfterFinishMoves
<1> QED
  BY <1>2, <1>3, OwnJobPolite DEF Writes

LEMMA SucceedGood ==
    ASSUME SerialInv, NEW t \in Tasks, Succeed(t)
    PROVE  Good(t)
<1> DEFINE js == [task[t].js EXCEPT !.rberr = FALSE]
<1>1. At(t, "run", "succeed") /\ UNCHANGED <<backup, app>> /\ Past(task[t])
  BY DEF Succeed, Past, At, Waiting
<1> USE Acting DEF At
<1>2. CASE Return(t) /\ UNCHANGED <<row, inst>>
  BY <1>1, <1>2, ReturnIdles, IdlesGood, SameJobsPolite, SameInstancesPolite
  DEF Good, Polite
<1>3. CASE Strand(t) /\ UNCHANGED <<row, inst>>
  BY <1>1, <1>3, StrandGood
<1>4. CASE /\ row' = WithStatus(task[t].job, "succeeded", js)
           /\ inst' = WithStage(js.id, "installed")
           /\ AfterFinish(t, js)
  <2>1. js.id = task[t].js.id
    BY <1>1 DEF TypeOK, Task, JobState
  <2>2. Writes(task[t].job, "succeeded", js)
    BY <1>1, <1>4, WithStatusWrites
  <2> HIDE DEF js
  <2>3. Tame(t) /\ Fits(t)' /\ PoliteToJobs(t)
    BY <1>1, <1>4, <2>1, <2>2, FinishGood DEF Finished
  <2>4. PoliteToInstances(t)
    BY <1>1, <1>4, <2>1, StagePolite DEF Unclaimed, Stages
  <2> QED
    BY <2>3, <2>4 DEF Good, Polite
<1> QED
  BY <1>2, <1>3, <1>4 DEF Succeed

LEMMA CheckStrandedGood ==
    ASSUME SerialInv, NEW t \in Tasks, CheckStranded(t)
    PROVE  Good(t)
<1>1. At(t, "stranded", "check") /\ UNCHANGED <<row, inst, backup, app>>
  BY DEF CheckStranded
<1> USE Acting DEF At
<1>2. CASE Return(t)
  BY <1>1, <1>2, ReturnIdles, IdlesGood, SameJobsPolite, SameInstancesPolite
  DEF Good, Polite
<1>3. CASE /\ row[task[t].job].status \in Active
           /\ GotoWith(t, "cleanup", row[task[t].job].js)
  <2>1. Moves(t, "stranded", "cleanup", row[task[t].job].js)
    BY <1>1, <1>3, GotoWithMoves
  <2>2. Placed(task[t])' /\ Locked(task[t])' /\ RowFits(task[t])' /\ ~Past(task[t])'
    BY <1>1, <2>1
    DEF Moves, Placed, Locked, RowFits, Past, Waiting, IsActive, Undoing
  <2>3. TakesId(t, row[task[t].job].js.id)
    BY <1>1, <1>3 DEF TakesId, IsActive
  <2> QED
    BY <1>1, <2>1, <2>2, <2>3, MoveGood, SameJobsPolite, SameInstancesPolite
    DEF Good, Polite
<1> QED
  BY <1>2, <1>3 DEF CheckStranded

\* A clean-up that has returned, whatever it has done to the instance.
RowsKept == \A j \in Jobs : row'[j].status = row[j].status
                            /\ row'[j].js = row[j].js /\ row'[j].kind = row[j].kind

LEMMA CleanedUpMoves ==
    ASSUME SerialInv, NEW t \in Tasks, NEW ok \in BOOLEAN,
           task[t].pc \in {"cleanup", "restoring"}, CleanedUp(t, ok)
    PROVE  \/ /\ task[t].role # "retry" /\ UNCHANGED backup
              /\ Moves(t, task[t].role, "finish", Undone(t, ok))
           \/ /\ task[t].role = "retry" /\ ok
              /\ Moves(t, "retry", "requeue", task[t].js)
              /\ backup' = IF task[t].js.staging
                           THEN [backup EXCEPT ![task[t].job] = "none"] ELSE backup
           \/ task[t].role = "retry" /\ ~ok /\ Idles(t) /\ UNCHANGED backup
BY Acting, GotoMoves, GotoWithMoves, ReturnIdles DEF CleanedUp

LEMMA UndoneState ==
    ASSUME TypeOK, NEW t \in Tasks, NEW ok \in BOOLEAN
    PROVE  /\ IF ok /\ row[task[t].job].kind = "create"
              THEN Undone(t, ok).id = None
              ELSE Undone(t, ok).id = task[t].js.id
           /\ Undone(t, ok).staging = task[t].js.staging
           /\ Undone(t, ok).rb = task[t].js.rb
           /\ ~ok => Undone(t, ok).rberr
           /\ ok /\ ~(task[t].role \in {"recover", "cancel"} /\ task[t].js.rberr)
              => ~Undone(t, ok).rberr
<1> DEFINE js(err) == [task[t].js EXCEPT !.rberr = err]
           old == task[t].role \in {"recover", "cancel"} /\ task[t].js.rberr
<1>1. \A err : /\ js(err).id = task[t].js.id /\ js(err).staging = task[t].js.staging
                /\ js(err).rb = task[t].js.rb /\ js(err).rberr = err
  BY DEF TypeOK, Task, JobState
<1>2. \A err : LET gone == [js(err) EXCEPT !.id = None]
               IN  /\ gone.id = None /\ gone.staging = task[t].js.staging
                   /\ gone.rb = task[t].js.rb /\ gone.rberr = err
  BY DEF TypeOK, Task, JobState
<1>3. CASE ok
  <2>1. Undone(t, ok) = IF row[task[t].job].kind = "create"
                        THEN [js(old) EXCEPT !.id = None] ELSE js(old)
    BY <1>3 DEF Undone, ClearId
  <2> HIDE DEF js, old
  <2>2. Undone(t, ok).rberr = old
    BY <1>1, <1>2, <2>1
  <2>3. ~old => ~Undone(t, ok).rberr
    BY <2>2
  <2>4. /\ IF row[task[t].job].kind = "create"
           THEN Undone(t, ok).id = None
           ELSE Undone(t, ok).id = task[t].js.id
        /\ Undone(t, ok).staging = task[t].js.staging
        /\ Undone(t, ok).rb = task[t].js.rb
    BY <1>1, <1>2, <2>1
  <2> QED
    BY <1>3, <2>3, <2>4 DEF old
<1>4. CASE ~ok
  <2>1. Undone(t, ok) = js(TRUE)
    BY <1>4 DEF Undone
  <2> QED
    BY <1>1, <1>4, <2>1
<1> QED
  BY <1>3, <1>4

LEMMA CleanedUpGood ==
    ASSUME SerialInv, NEW t \in Tasks, NEW ok \in BOOLEAN,
           task[t].pc \in {"cleanup", "restoring"}, CleanedUp(t, ok),
           UNCHANGED app, RowsKept
    PROVE  Tame(t) /\ Fits(t)' /\ PoliteToJobs(t)
<1> USE Acting
<1>1. /\ \A k \in Jobs \ {task[t].job} : backup'[k] = backup[k]
      /\ task[t].role # "retry" => backup'[task[t].job] = backup[task[t].job]
  BY CleanedUpMoves DEF TypeOK
<1>2. row'[task[t].job].status = row[task[t].job].status
      /\ row'[task[t].job].js = row[task[t].job].js
      /\ row'[task[t].job].kind = row[task[t].job].kind
  BY DEF RowsKept
<1>3. PoliteToJobs(t)
  <2>1. task[t].role = "retry" => row[task[t].job].status \notin Active
    BY DEF RowFits, Active
  <2>2. row[task[t].job].status = "queued" => ~row[task[t].job].js.staging
    BY DEF SerialInv, QueuedUnstaged
  <2>3. TouchesOwn(t, task[t].job)
    BY <1>1, <1>2, <2>1, <2>2 DEF TouchesOwn, Unclaimed, IsActive
  <2> QED
    BY <1>1, <2>3, ConstantsAssumption DEF PoliteToJobs, TouchesOther, RowsKept
<1>4. CASE task[t].role # "retry" /\ Moves(t, task[t].role, "finish", Undone(t, ok))
  <2>1. Placed(task[t])' /\ Locked(task[t])'
    BY <1>4 DEF Moves, Placed, Locked, Undoing, PermitPcs
  <2>2. RowFits(task[t])' /\ (Past(task[t])' => Past(task[t]))
    BY <1>2, <1>4, UndoneState DEF Moves, RowFits, Past, Waiting, IsActive
  <2> QED
    BY <1>3, <1>4, <2>1, <2>2, MoveGood, UndoneState DEF TakesId
<1>5. CASE task[t].role = "retry" /\ Moves(t, "retry", "requeue", task[t].js)
  <2>1. Placed(task[t])' /\ Locked(task[t])' /\ RowFits(task[t])' /\ ~Past(task[t])'
    BY <1>2, <1>5 DEF Moves, Placed, Locked, RowFits, Past, Waiting
  <2> QED
    BY <1>3, <1>5, <2>1, MoveGood DEF TakesId
<1>6. CASE Idles(t)
  BY <1>3, <1>6, IdlesGood
<1> QED
  BY <1>4, <1>5, <1>6, CleanedUpMoves

LEMMA RemoveNewInstanceGood ==
    ASSUME SerialInv, NEW t \in Tasks, RemoveNewInstance(t)
    PROVE  Good(t)
<1>1. /\ task[t].pc = "cleanup" /\ Exists(task[t].js.id) /\ UNCHANGED app
      /\ task[t].js.id \in Instances
  BY DEF RemoveNewInstance, Undoes, Exists
<1> USE Acting
<1>2. CASE \E ok \in Outcome("directory") : DropInstance(task[t].js.id) /\ CleanedUp(t, ok)
  <2>1. Drops(task[t].js.id)
    BY <1>1, <1>2, DropDrops
  <2>2. RowsKept
    BY <2>1 DEF Drops, RowsKept
  <2> QED
    BY <1>1, <1>2, <2>1, <2>2, CleanedUpGood, DropPolite
    DEF Good, Polite, Outcome
<1>3. CASE CleanedUp(t, FALSE) /\ UNCHANGED <<row, inst>>
  BY <1>1, <1>3, CleanedUpGood, SameInstancesPolite DEF RowsKept, Good, Polite
<1> QED
  BY <1>2, <1>3 DEF RemoveNewInstance

LEMMA NothingToUndoGood ==
    ASSUME SerialInv, NEW t \in Tasks, NothingToUndo(t)
    PROVE  Good(t)
BY CleanedUpGood, SameInstancesPolite
DEF NothingToUndo, Undoes, RowsKept, Good, Polite

LEMMA RestoreStageGood ==
    ASSUME SerialInv, NEW t \in Tasks, RestoreStage(t)
    PROVE  Good(t)
<1>1. /\ task[t].pc = "cleanup" /\ UNCHANGED <<row, app>> /\ CleanedUp(t, TRUE)
      /\ inst' = WithStage(task[t].js.id, task[t].js.rb)
      /\ task[t].js.rb # None
  BY DEF RestoreStage, Undoes
<1>2. task[t].js.rb \in Stages
  BY <1>1 DEF SerialInv, TypeOK, Task, JobState
<1> QED
  BY <1>1, <1>2, Acting, CleanedUpGood, StagePolite
  DEF RowsKept, Good, Polite, Unclaimed

LEMMA BeginRestoreGood ==
    ASSUME SerialInv, NEW t \in Tasks, BeginRestore(t)
    PROVE  Good(t)
<1>1. task[t].pc = "cleanup" /\ UNCHANGED <<row, inst, app>>
  BY DEF BeginRestore, Undoes
<1> USE Acting
<1>2. CASE CleanedUp(t, FALSE)
  BY <1>1, <1>2, CleanedUpGood, SameInstancesPolite DEF RowsKept, Good, Polite
<1>3. CASE Goto(t, "restoring") /\ UNCHANGED backup
  <2>1. Moves(t, task[t].role, "restoring", task[t].js)
    BY <1>1, <1>3, GotoMoves
  <2>2. Placed(task[t])' /\ Locked(task[t])' /\ RowFits(task[t])'
        /\ (Past(task[t])' => Past(task[t]))
    BY <1>1, <2>1
    DEF Moves, Placed, Locked, RowFits, Past, Waiting, IsActive, Undoing,
        PermitPcs
  <2> QED
    BY <1>1, <1>3, <2>1, <2>2, MoveGood, SameJobsPolite, SameInstancesPolite
    DEF Good, Polite, TakesId
<1> QED
  BY <1>2, <1>3 DEF BeginRestore

LEMMA EndRestoreGood ==
    ASSUME SerialInv, NEW t \in Tasks, EndRestore(t)
    PROVE  Good(t)
<1>1. task[t].pc = "restoring" /\ UNCHANGED <<row, app>>
  BY DEF EndRestore
<1>2. task[t].js.rb \in Stages
  BY <1>1 DEF SerialInv, TypeOK, Task, JobState, WellFormed
<1>3. PICK ok \in BOOLEAN : CleanedUp(t, ok)
  BY DEF EndRestore
<1>4. PoliteToInstances(t)
  BY <1>1, <1>2, Acting, StagePolite, SameInstancesPolite
  DEF EndRestore, Unclaimed
<1> QED
  BY <1>1, <1>3, <1>4, CleanedUpGood DEF RowsKept, Good, Polite

LEMMA TerminalizeGood ==
    ASSUME SerialInv, NEW t \in Tasks, NEW status \in Finished,
           task[t].pc = "finish",
           task[t].role \in {"setup", "run", "stranded", "recover"},
           Terminalize(t, status)
    PROVE  Good(t)
<1>1. UNCHANGED <<inst, backup, app>>
      /\ (Past(task[t]) \/ task[t].role \in {"setup", "stranded", "recover"})
  BY DEF Terminalize, Past, Waiting
<1> USE Acting
<1>2. CASE IsActive(task[t].job)
  <2>1. Writes(task[t].job, status, task[t].js) /\ AfterFinish(t, task[t].js)
    BY <1>2, FinishActiveWrites DEF Terminalize
  <2>2. task[t].role \in {"setup", "cancel"} => ~task[t].js.staging
    BY DEF RowFits
  <2> QED
    BY <1>1, <2>1, <2>2, FinishGood, SameInstancesPolite DEF Good, Polite
<1>3. CASE ~IsActive(task[t].job)
  <2>1. UNCHANGED row /\ AfterFinish(t, NewState(None))
    BY <1>3, FinishActiveWrites DEF Terminalize
  <2>2. (task[t].role = "recover" /\ Proceeds(t)) \/ Idles(t)
    BY <2>1, AfterFinishMoves DEF NewState
  <2> QED
    BY <1>1, <2>1, <2>2, IdlesGood, ProceedsGood, SameJobsPolite,
       SameInstancesPolite DEF Good, Polite
<1> QED
  BY <1>2, <1>3

LEMMA FailJobGood ==
    ASSUME SerialInv, NEW t \in Tasks, FailJob(t)
    PROVE  Good(t)
BY TerminalizeGood DEF FailJob, Finished

LEMMA InterruptJobGood ==
    ASSUME SerialInv, NEW t \in Tasks, InterruptJob(t)
    PROVE  Good(t)
BY TerminalizeGood DEF InterruptJob, At, Finished

LEMMA ClearStagingGood ==
    ASSUME SerialInv, NEW t \in Tasks, ClearStaging(t)
    PROVE  Good(t)
<1>1. /\ task[t].pc = "clear" /\ UNCHANGED <<row, inst, app>>
      /\ backup' = [backup EXCEPT ![task[t].job] = "none"]
      /\ AfterFinish(t, NewState(None))
  BY DEF ClearStaging
<1> USE Acting
<1>2. (task[t].role = "recover" /\ Proceeds(t)) \/ Idles(t)
  BY <1>1, AfterFinishMoves DEF NewState
<1>3. PoliteToJobs(t)
  <2>1. /\ row[task[t].job].status \notin Active
        /\ row[task[t].job].status = "queued" => ~row[task[t].job].js.staging
    BY <1>1 DEF RowFits, IsActive, SerialInv, QueuedUnstaged
  <2>2. TouchesOwn(t, task[t].job)
    BY <1>1, <2>1 DEF TouchesOwn, Unclaimed, IsActive
  <2>3. \A k \in Jobs \ {task[t].job} : backup'[k] = backup[k]
    BY <1>1 DEF TypeOK
  <2> QED
    BY <1>1, <2>2, <2>3, OwnJobPolite
<1> QED
  BY <1>1, <1>2, <1>3, IdlesGood, ProceedsGood, SameInstancesPolite
  DEF Good, Polite

LEMMA ClaimCancelGood ==
    ASSUME SerialInv, NEW t \in Tasks, ClaimCancel(t)
    PROVE  Good(t)
<1>1. At(t, "cancel", "claim") /\ UNCHANGED <<inst, backup, app>>
  BY DEF ClaimCancel
<1> USE Acting DEF At
<1>2. CASE Return(t) /\ UNCHANGED row
  BY <1>1, <1>2, ReturnIdles, IdlesGood, SameJobsPolite, SameInstancesPolite
  DEF Good, Polite
<1>3. CASE /\ row[task[t].job].status = "queued"
           /\ row' = WithStatus(task[t].job, "running", task[t].js)
           /\ Goto(t, "cleanup")
  <2>1. Moves(t, "cancel", "cleanup", task[t].js)
    BY <1>1, <1>3, GotoMoves
  <2>2. Writes(task[t].job, "running", task[t].js)
    BY <1>1, <1>3, WithStatusWrites
  <2>3. Placed(task[t])' /\ Locked(task[t])' /\ RowFits(task[t])'
    BY <1>1, <2>1, <2>2
    DEF Moves, Writes, Placed, Locked, RowFits, Past, Waiting, Undoing
  <2>4. TouchesOwn(t, task[t].job)
    BY <1>1, <1>3, <2>2
    DEF Writes, TouchesOwn, Unclaimed, IsActive, Active, RowFits
  <2> QED
    BY <1>1, <1>3, <2>1, <2>2, <2>3, <2>4, MoveGood, OwnJobPolite,
       SameInstancesPolite DEF Good, Polite, Writes, TakesId
<1> QED
  BY <1>2, <1>3 DEF ClaimCancel

LEMMA FinishCancelGood ==
    ASSUME SerialInv, NEW t \in Tasks, FinishCancel(t)
    PROVE  Good(t)
<1>1. At(t, "cancel", "finish") /\ UNCHANGED <<inst, backup, app>> /\ Past(task[t])
  BY DEF FinishCancel, At, Past
<1> USE Acting DEF At
<1>2. CASE Return(t) /\ UNCHANGED row
  BY <1>1, <1>2, ReturnIdles, IdlesGood, SameJobsPolite, SameInstancesPolite
  DEF Good, Polite
<1>3. ASSUME NEW status \in {"failed", "canceled"},
             row' = WithStatus(task[t].job, status, task[t].js),
             AfterFinish(t, task[t].js)
      PROVE  Good(t)
  <2>1. Writes(task[t].job, status, task[t].js)
    BY <1>1, <1>3, WithStatusWrites
  <2>2. ~task[t].js.staging
    BY <1>1 DEF RowFits
  <2> QED
    BY <1>1, <1>3, <2>1, <2>2, FinishGood, SameInstancesPolite
    DEF Good, Polite, Finished
<1> QED
  BY <1>2, <1>3 DEF FinishCancel

LEMMA CancelForDeletionGood ==
    ASSUME SerialInv, NEW t \in Tasks, NEW j \in Jobs, CancelForDeletion(t, j)
    PROVE  Good(t)
<1>1. /\ At(t, "delete", "list") /\ UNCHANGED <<inst, backup, app>>
      /\ task' = [task EXCEPT ![t].left = @ \ {j}] /\ TypeOK
  BY DEF CancelForDeletion, SerialInv
<1>2. task[t].job = None /\ task[t].js.id # None /\ None \notin Jobs
  BY <1>1, ConstantsAssumption DEF SerialInv, TasksPlaced, Placed, At
<1>3. /\ Others(t) /\ task'[t].role = "delete" /\ task'[t].pc = "list"
      /\ task'[t].job = None /\ task'[t].js = task[t].js
      /\ task'[t].left = task[t].left \ {j}
  BY <1>1, <1>2 DEF Others, TypeOK, Task, At
<1>4. Tame(t) /\ Fits(t)'
  BY <1>1, <1>2, <1>3 DEF Tame, Fits, Placed, Locked, At
<1>5. \/ IsActive(j) /\ Writes(j, "canceled", row[j].js)
      \/ UNCHANGED row
  BY <1>1, FinishActiveWrites DEF CancelForDeletion
<1>6. PoliteToJobs(t)
  BY <1>1, <1>2, <1>5 DEF PoliteToJobs, TouchesOther, Writes, At
<1> QED
  BY <1>1, <1>4, <1>6, SameInstancesPolite DEF Good, Polite

LEMMA RemoveInstanceGood ==
    ASSUME SerialInv, NEW t \in Tasks, RemoveInstance(t)
    PROVE  Good(t)
<1>1. At(t, "delete", "list") /\ UNCHANGED <<backup, app>> /\ Return(t) /\ TypeOK
  BY DEF RemoveInstance, SerialInv
<1>2. Tame(t) /\ Fits(t)'
  BY <1>1, ReturnIdles, IdlesGood DEF At
<1>3. CASE UNCHANGED <<row, inst>>
  BY <1>1, <1>2, <1>3, SameJobsPolite, SameInstancesPolite DEF Good, Polite
<1>4. CASE Exists(task[t].js.id) /\ DropInstance(task[t].js.id)
  <2>1. Drops(task[t].js.id)
    BY <1>1, <1>4, DropDrops DEF Exists
  <2> QED
    BY <1>1, <1>2, <1>4, <2>1, DropJobsPolite, DropPolite DEF Good, Polite
<1> QED
  BY <1>3, <1>4 DEF RemoveInstance

LEMMA RecoverDeletedGood ==
    ASSUME SerialInv, NEW t \in Tasks, NEW j \in Jobs, RecoverDeleted(t, j)
    PROVE  Good(t)
<1>1. /\ At(t, "recover", "next") /\ UNCHANGED <<inst, app>>
      /\ row' = FinishActive(j, "canceled", row[j].js)
      /\ backup' = IF row[j].js.staging THEN [backup EXCEPT ![j] = "none"] ELSE backup
      /\ task' = [task EXCEPT ![t].left = @ \ {j}] /\ TypeOK
  BY DEF RecoverDeleted, SerialInv
<1>2. task[t].job = None /\ task[t].js.id = None /\ None \notin Jobs
  BY <1>1, ConstantsAssumption DEF SerialInv, TasksPlaced, Placed, At, Undoing
<1>3. /\ Others(t) /\ task'[t].role = "recover" /\ task'[t].pc = "next"
      /\ task'[t].job = None /\ task'[t].js = task[t].js
      /\ task'[t].left = task[t].left \ {j}
  BY <1>1, <1>2 DEF Others, TypeOK, Task, At
<1>4. Tame(t) /\ Fits(t)'
  BY <1>1, <1>2, <1>3 DEF Tame, Fits, Placed, Locked, At
<1>5. \/ IsActive(j) /\ Writes(j, "canceled", row[j].js)
      \/ ~IsActive(j) /\ UNCHANGED row
  BY <1>1, FinishActiveWrites
<1>6. \A k \in Jobs \ {j} : backup'[k] = backup[k]
  BY <1>1 DEF TypeOK
<1>7. PoliteToJobs(t)
  BY <1>1, <1>2, <1>3, <1>5, <1>6
  DEF PoliteToJobs, TouchesOther, Writes, At, IsActive, Active
<1> QED
  BY <1>1, <1>4, <1>7, SameInstancesPolite DEF Good, Polite

LEMMA StepGood ==
    ASSUME SerialInv, NEW t \in Tasks, Step(t)
    PROVE  \/ Good(t) \/ Recovered(t)
           \/ \E j \in Jobs : Recover(t, j)
<1>1. CASE Setup(t)
  BY <1>1, RequeueGood, PrepareNewGood, PrepareExistingGood, PersistGood,
     LockAndSpawnGood DEF Setup
<1>2. CASE Run(t)
  BY <1>2, RunReadGood, AcquireGood, ClaimGood, WorkNewGood, WorkExistingGood,
     BackupGood, SaveBackupGood, InstallGood, RereadGood, SucceedGood,
     CheckStrandedGood DEF Run
<1>3. CASE Undo(t)
  BY <1>3, RemoveNewInstanceGood, NothingToUndoGood, RestoreStageGood,
     BeginRestoreGood, EndRestoreGood, FailJobGood, InterruptJobGood,
     ClearStagingGood DEF Undo
<1>4. CASE Removal(t)
  BY <1>4, ClaimCancelGood, FinishCancelGood, RemoveInstanceGood,
     CancelForDeletionGood DEF Removal
<1>5. CASE Recovery(t)
  BY <1>5, RecoverDeletedGood DEF Recovery
<1> QED
  BY <1>1, <1>2, <1>3, <1>4, <1>5 DEF Step

----------------------------------------------------------------------------
(* The recovery, the commands, and the rest of Next. *)

LEMMA RecoveryAlone ==
    ASSUME SerialInv, NEW t \in Tasks, task[t].role = "recover"
    PROVE  /\ app = "recovering"
           /\ \A s \in Tasks \ {t} : /\ task[s].role = "idle"
                                     /\ task[s].job = None
                                     /\ task[s].js.id = None
BY DEF SerialInv, RolesFitApp, TasksPlaced, Placed

LEMMA IdleFacts ==
    ASSUME SerialInv, NEW t \in Tasks, task[t].role = "idle"
    PROVE  task[t].job = None /\ task[t].js.id = None
BY DEF SerialInv, TasksPlaced, Placed

LEMMA RecoverKeepsSerial ==
    ASSUME SerialInv, TypeOK', NEW t \in Tasks, NEW j \in Jobs, Recover(t, j)
    PROVE  SerialInv'
<1>1. /\ At(t, "recover", "next") /\ j \in task[t].left
      /\ UNCHANGED <<row, inst, backup, app>> /\ TypeOK
  BY DEF Recover, SerialInv
<1>2. /\ Others(t) /\ task'[t].role = "recover" /\ task'[t].pc = "cleanup"
      /\ task'[t].job = j /\ task'[t].js = row[j].js
      /\ task'[t].left = task[t].left \ {j}
  <2>1. task' = [task EXCEPT ![t].left = @ \ {j}, ![t].pc = "cleanup",
                             ![t].job = j, ![t].js = row[j].js]
    BY DEF Recover
  <2> QED
    BY <1>1, <2>1 DEF Others, TypeOK, Task, At
<1>3. /\ app = "recovering" /\ None \notin Jobs
      /\ \A s \in Tasks \ {t} : /\ task'[s] = task[s] /\ task[s].role = "idle"
                                /\ task[s].job = None /\ task[s].js.id = None
  BY <1>1, <1>2, RecoveryAlone, ConstantsAssumption DEF At, Others
<1>4. IsActive(j) /\ \A k \in task[t].left : IsActive(k)
  BY <1>1 DEF SerialInv, LeftToRecover, At
<1>5. TasksPlaced'
  BY <1>2, <1>3 DEF SerialInv, TasksPlaced, Placed, Undoing
<1>6. RolesFitApp'
  <2>1. /\ app' = "recovering"
        /\ \A s \in Tasks : task'[s].role \in {"idle", "recover"}
        /\ \A s \in Tasks : task'[s].role = "recover" => s = t
    BY <1>1, <1>2, <1>3
  <2> QED
    BY <2>1 DEF RolesFitApp
<1>7. Separate'
  <2>1. Company' /\ TasksApart' /\ DeletesAlone'
    BY <1>2, <1>3 DEF Company, TasksApart, DeletesAlone, CommandRoles
  <2>2. RowsApart'
    BY <1>1 DEF SerialInv, Separate, RowsApart, IsActive
  <2>3. TaskRowApart'
    <3> SUFFICES ASSUME NEW s \in Tasks, NEW k \in Jobs,
                        row'[k].status \in Active, row'[k].js.id # None,
                        task'[s].job # None, task'[s].js.id = row'[k].js.id
                 PROVE  task'[s].job = k
      BY DEF TaskRowApart, IsActive
    <3>1. s = t
      BY <1>3
    <3>2. IsActive(k) /\ row[k].js.id # None /\ row[j].js.id = row[k].js.id
      BY <1>1, <1>2, <3>1 DEF IsActive
    <3>3. j = k
      BY <1>4, <3>2 DEF SerialInv, Separate, RowsApart
    <3> QED
      BY <1>2, <3>1, <3>3
  <2>4. IdsBorn'
    <3>1. \A s \in Tasks : task'[s].js.id = None \/ task'[s].js.id = row[j].js.id
      BY <1>2, <1>3
    <3>2. row[j].js.id # None => inst[row[j].js.id] # "unborn"
      BY DEF SerialInv, Separate, IdsBorn
    <3>3. \A s \in Tasks : task'[s].js.id # None => inst'[task'[s].js.id] # "unborn"
      BY <1>1, <3>1, <3>2
    <3> QED
      BY <1>1, <3>3 DEF SerialInv, Separate, IdsBorn
  <2> QED
    BY <2>1, <2>2, <2>3, <2>4 DEF Separate
<1>8. RowsFit'
  <2>1. row[j].status # "absent"
    BY <1>4 DEF IsActive, Active
  <2>2. RowFits(task[t])'
    BY <1>1, <1>2, <2>1 DEF RowFits, Past, Waiting
  <2> QED
    BY <1>3, <2>2 DEF RowsFit
<1>9. LeftToRecover'
  <2>1. \A s \in Tasks : task'[s].role = "recover" => s = t
    BY <1>3
  <2>2. \A k \in task'[t].left : row'[k].status \in Active /\ k # task'[t].job
    BY <1>1, <1>2, <1>4 DEF IsActive
  <2> QED
    BY <2>1, <2>2 DEF LeftToRecover, IsActive
<1>10. QueuedUnstaged' /\ BackupKept'
  BY <1>1
  DEF SerialInv, QueuedUnstaged, BackupKept, IsActive, HasSavedBackup, Exists
<1>11. LaunchBlockedWhileInstalling'
  BY <1>2, <1>3 DEF LaunchBlockedWhileInstalling
<1> QED
  BY <1>5, <1>6, <1>7, <1>8, <1>9, <1>10, <1>11 DEF SerialInv

\* A step by which tasks can only become idle, and nothing else changes but
\* the state of the app and what the user has put aside.
LEMMA IdlingKeepsSerial ==
    ASSUME SerialInv, TypeOK', UNCHANGED <<row, inst, backup>>,
           \A s \in Tasks : task'[s] \in {task[s], IdleTask},
           app' # "up" => \A s \in Tasks : task'[s].role \in {"idle", "recover"},
           app' # "recovering" => \A s \in Tasks : task'[s].role # "recover"
    PROVE  SerialInv'
<1>1. IdleTask.role = "idle" /\ IdleTask.job = None /\ IdleTask.js.id = None
      /\ IdleTask.pc = "idle"
  BY DEF IdleTask, NewState
<1> HIDE DEF IdleTask
<1>2. TasksPlaced'
  BY <1>1 DEF SerialInv, TasksPlaced, Placed
<1>3. RolesFitApp'
  BY <1>1 DEF SerialInv, RolesFitApp
<1>4. Separate'
  <2>1. Company' /\ TasksApart'
    BY <1>1 DEF SerialInv, Separate, Company, TasksApart
  <2>2. DeletesAlone'
    BY <1>1 DEF SerialInv, Separate, DeletesAlone, CommandRoles
  <2>3. RowsApart' /\ TaskRowApart'
    BY <1>1 DEF SerialInv, Separate, RowsApart, TaskRowApart, IsActive
  <2>4. IdsBorn'
    BY <1>1 DEF SerialInv, Separate, IdsBorn
  <2> QED
    BY <2>1, <2>2, <2>3, <2>4 DEF Separate
<1>5. RowsFit'
  BY <1>1 DEF SerialInv, RowsFit, RowFits, IsActive, Past, Waiting
<1>6. LeftToRecover' /\ QueuedUnstaged' /\ BackupKept'
  BY <1>1 DEF SerialInv, LeftToRecover, QueuedUnstaged, BackupKept, IsActive,
              HasSavedBackup, Exists
<1>7. LaunchBlockedWhileInstalling'
  BY <1>1 DEF SerialInv, LaunchBlockedWhileInstalling, Exists
<1> QED
  BY <1>2, <1>3, <1>4, <1>5, <1>6, <1>7 DEF SerialInv

LEMMA RecoveredKeepsSerial ==
    ASSUME SerialInv, TypeOK', NEW t \in Tasks, Recovered(t)
    PROVE  SerialInv'
<1>1. /\ task[t].role = "recover" /\ app' = "up"
      /\ UNCHANGED <<row, inst, backup>> /\ Return(t)
  BY DEF Recovered, At
<1>2. /\ \A s \in Tasks : task'[s] \in {task[s], IdleTask}
      /\ task'[t] = IdleTask /\ Others(t) /\ IdleTask.role = "idle"
  BY <1>1 DEF Return, SerialInv, TypeOK, IdleTask, Others
<1>3. \A s \in Tasks : task'[s].role # "recover"
  BY <1>1, <1>2, RecoveryAlone DEF Others
<1> QED
  BY <1>1, <1>2, <1>3, IdlingKeepsSerial

LEMMA CrashKeepsSerial ==
    ASSUME SerialInv, TypeOK', Crash
    PROVE  SerialInv'
<1>1. /\ \A s \in Tasks : task'[s] = IdleTask
      /\ IdleTask.role = "idle" /\ UNCHANGED <<row, inst, backup>>
  BY DEF Crash, IdleTask
<1> QED
  BY <1>1, IdlingKeepsSerial

LEMMA QuietKeepsSerial ==
    ASSUME SerialInv, TypeOK', UNCHANGED <<row, inst, backup, task, app>>
    PROVE  SerialInv'
BY IdlingKeepsSerial DEF SerialInv, RolesFitApp

LEMMA BootKeepsSerial ==
    ASSUME SerialInv, TypeOK', NEW t \in Tasks, Boot(t)
    PROVE  SerialInv'
<1>1. /\ app = "down" /\ app' = "recovering"
      /\ UNCHANGED <<row, inst, backup>> /\ TypeOK
      /\ task' = [task EXCEPT ![t] = [IdleTask EXCEPT !.role = "recover",
                    !.pc = "next", !.left = {j \in Jobs : IsActive(j)}]]
  BY DEF Boot, SerialInv
<1>2. /\ \A s \in Tasks \ {t} : task'[s] = task[s]
      /\ task'[t].role = "recover" /\ task'[t].pc = "next"
      /\ task'[t].job = None /\ task'[t].js.id = None
      /\ task'[t].left = {j \in Jobs : IsActive(j)}
  BY <1>1 DEF IdleTask, TypeOK, NewState
<1>3. \A s \in Tasks : task[s].role = "idle" /\ task[s].job = None /\ task[s].js.id = None
  BY <1>1 DEF SerialInv, RolesFitApp, TasksPlaced, Placed
<1>4. TasksPlaced' /\ RolesFitApp'
  BY <1>1, <1>2, <1>3 DEF SerialInv, TasksPlaced, Placed, RolesFitApp
<1>5. Separate'
  <2>1. Company' /\ TasksApart' /\ DeletesAlone'
    BY <1>2, <1>3 DEF Company, TasksApart, DeletesAlone, CommandRoles
  <2>2. RowsApart' /\ TaskRowApart' /\ IdsBorn'
    BY <1>1, <1>2, <1>3
    DEF SerialInv, Separate, RowsApart, TaskRowApart, IsActive, IdsBorn
  <2> QED
    BY <2>1, <2>2 DEF Separate
<1>6. RowsFit'
  BY <1>2, <1>3 DEF RowsFit
<1>7. LeftToRecover'
  BY <1>1, <1>2, <1>3, ConstantsAssumption DEF LeftToRecover, IsActive
<1>8. QueuedUnstaged' /\ BackupKept' /\ LaunchBlockedWhileInstalling'
  BY <1>1, <1>2, <1>3 DEF SerialInv, QueuedUnstaged, BackupKept, IsActive,
              HasSavedBackup, Exists, LaunchBlockedWhileInstalling
<1> QED
  BY <1>4, <1>5, <1>6, <1>7, <1>8 DEF SerialInv

\* A command that is issued takes an idle task.
LEMMA BeginKeepsSerial ==
    ASSUME SerialInv, TypeOK', NEW t \in Tasks, UNCHANGED <<row, inst, backup, app>>,
           app = "up", task[t].role = "idle",
           \A s \in Tasks \ {t} : task'[s] = task[s],
           task'[t].role \in CommandRoles, Placed(task[t])',
           task'[t].js.id # None => inst[task'[t].js.id] # "unborn",
           task'[t].job # None =>
               /\ RowFits(task[t])'
               /\ \A s \in Tasks \ {t} : task[s].job = task'[t].job =>
                      Paired(task[s], task'[t]) /\ Paired(task'[t], task[s])
               /\ \A s \in Tasks \ {t} :
                      task'[t].js.id # None /\ task[s].js.id = task'[t].js.id
                      /\ task[s].job # None => task[s].job = task'[t].job
               /\ \A k \in Jobs : IsActive(k) /\ row[k].js.id # None
                      /\ row[k].js.id = task'[t].js.id => task'[t].job = k,
           \A s \in Tasks \ {t} : task[s].role \in CommandRoles =>
               task'[t].js.id = None \/ task[s].js.id # task'[t].js.id
    PROVE  SerialInv'
<1>1. TasksPlaced'
  BY DEF SerialInv, TasksPlaced
<1>2. RolesFitApp'
  BY DEF SerialInv, RolesFitApp, CommandRoles
<1>3. Company'
  BY DEF SerialInv, Separate, Company
<1>4. TasksApart'
  BY DEF SerialInv, Separate, TasksApart
<1>5. TaskRowApart'
  <2> SUFFICES ASSUME NEW s \in Tasks, NEW k \in Jobs, IsActive(k),
                      row[k].js.id # None, task'[s].job # None,
                      task'[s].js.id = row[k].js.id
               PROVE  task'[s].job = k
    BY DEF TaskRowApart, IsActive
  <2> QED
    BY DEF SerialInv, Separate, TaskRowApart
<1>6. RowsApart'
  BY DEF SerialInv, Separate, RowsApart, IsActive
<1>7. DeletesAlone'
  <2>1. \A s \in Tasks : task'[s].role = "delete" => task'[s].js.id # None
    BY <1>1 DEF TasksPlaced, Placed
  <2> SUFFICES ASSUME NEW s \in Tasks, NEW u \in Tasks, s # u,
                      task'[s].role = "delete", task'[u].role \in CommandRoles
               PROVE  task'[s].js.id # task'[u].js.id
    BY DEF DeletesAlone
  <2>2. task'[s].role \in CommandRoles
    BY DEF CommandRoles
  <2>3. CASE s = t
    BY <2>1, <2>3
  <2>4. CASE u = t
    BY <2>1, <2>2, <2>4
  <2>5. CASE s # t /\ u # t
    BY <2>5 DEF SerialInv, Separate, DeletesAlone
  <2> QED
    BY <2>3, <2>4, <2>5
<1>8. IdsBorn'
  BY DEF SerialInv, Separate, IdsBorn
<1>9. RowsFit'
  <2>1. \A s \in Tasks \ {t} : task[s].job # None => RowFits(task[s])
    BY DEF SerialInv, RowsFit
  <2>2. \A s \in Tasks \ {t} : task[s].job # None => RowFits(task[s])'
    BY <2>1 DEF RowFits, IsActive, Past, Waiting
  <2> QED
    BY <2>2 DEF RowsFit
<1>10. LeftToRecover'
  BY DEF SerialInv, RolesFitApp, CommandRoles, LeftToRecover
<1>11. QueuedUnstaged' /\ BackupKept' /\ LaunchBlockedWhileInstalling'
  BY DEF SerialInv, QueuedUnstaged, BackupKept, IsActive, HasSavedBackup,
         Exists, LaunchBlockedWhileInstalling, CommandRoles
<1> QED
  BY <1>1, <1>2, <1>3, <1>4, <1>5, <1>6, <1>7, <1>8, <1>9, <1>10, <1>11
  DEF SerialInv, Separate

LEMMA RetryKeepsSerial ==
    ASSUME Serial, SerialInv, TypeOK', NEW t \in Tasks, NEW j \in Jobs, Retry(t, j)
    PROVE  SerialInv'
<1>1. /\ UNCHANGED <<row, inst, backup, app>> /\ app = "up"
      /\ task[t].role = "idle" /\ TypeOK
      /\ row[j].status \in {"failed", "interrupted"}
      /\ task' = [task EXCEPT ![t] = [IdleTask EXCEPT !.role = "retry",
                    !.pc = IF row[j].js.rberr THEN "cleanup" ELSE "requeue",
                    !.job = j, !.js = row[j].js]]
  BY DEF Retry, SerialInv
<1>2. /\ \A s \in Tasks : task[s].job # j
      /\ row[j].js.id # None => ~Busy(row[j].js.id)
  BY DEF Retry, MayRetry
<1>3. /\ \A s \in Tasks \ {t} : task'[s] = task[s]
      /\ task'[t].role = "retry" /\ task'[t].pc \in {"cleanup", "requeue"}
      /\ task'[t].job = j /\ task'[t].js = row[j].js
  BY <1>1 DEF IdleTask, TypeOK
<1>4. None \notin Jobs
  BY ConstantsAssumption
<1>5. Placed(task[t])' /\ RowFits(task[t])'
  BY <1>1, <1>3, <1>4 DEF Placed, RowFits, Past, Waiting, IsActive, Active
<1>6. row[j].js.id # None => inst[row[j].js.id] # "unborn"
  BY DEF SerialInv, Separate, IdsBorn
<1>7. row[j].js.id # None =>
        /\ \A s \in Tasks : task[s].role # "idle" => task[s].js.id # row[j].js.id
        /\ \A k \in Jobs : IsActive(k) => row[k].js.id # row[j].js.id
  BY <1>2 DEF Busy
<1>8. \A s \in Tasks : task[s].job # None => task[s].role # "idle"
  BY IdleFacts
<1>9. \A s \in Tasks : task[s].role \in CommandRoles => task[s].role # "idle"
  BY DEF CommandRoles
<1>10. task'[t].role \in CommandRoles
  BY <1>3 DEF CommandRoles
<1> QED
  BY <1>1, <1>2, <1>3, <1>4, <1>5, <1>6, <1>7, <1>8, <1>9, <1>10,
     BeginKeepsSerial

LEMMA CancelKeepsSerial ==
    ASSUME Serial, SerialInv, TypeOK', NEW t \in Tasks, NEW j \in Jobs, Cancel(t, j)
    PROVE  SerialInv'
<1>1. /\ UNCHANGED <<row, inst, backup, app>> /\ app = "up"
      /\ task[t].role = "idle" /\ TypeOK
      /\ row[j].status = "queued"
      /\ task' = [task EXCEPT ![t] = [IdleTask EXCEPT !.role = "cancel",
                    !.pc = "claim", !.job = j, !.js = row[j].js]]
  BY DEF Cancel, SerialInv
<1>2. /\ ~CommandOn(j)
      /\ row[j].js.id # None => ~CommandAt(row[j].js.id)
  BY DEF Cancel, MayCancel
<1>3. /\ \A s \in Tasks \ {t} : task'[s] = task[s]
      /\ task'[t].role = "cancel" /\ task'[t].pc = "claim"
      /\ task'[t].job = j /\ task'[t].js = row[j].js
  BY <1>1 DEF IdleTask, TypeOK
<1>4. None \notin Jobs
  BY ConstantsAssumption
<1>5. Placed(task[t])' /\ RowFits(task[t])'
  BY <1>1, <1>3, <1>4
  DEF Placed, RowFits, Past, Waiting, IsActive, Active, SerialInv, QueuedUnstaged
<1>6. row[j].js.id # None => inst[row[j].js.id] # "unborn"
  BY DEF SerialInv, Separate, IdsBorn
<1>7. \A s \in Tasks : task[s].job = j => task[s].role \in {"run", "stranded"}
  <2> SUFFICES ASSUME NEW s \in Tasks, task[s].job = j
               PROVE  task[s].role \in {"run", "stranded"}
    OBVIOUS
  <2>1. task[s].role \in Roles \ {"idle", "recover"}
    BY <1>1, <1>4, IdleFacts DEF SerialInv, RolesFitApp, TypeOK, Task
  <2>2. task[s].role \notin CommandRoles
    BY <1>2 DEF CommandOn
  <2> QED
    BY <2>1, <2>2 DEF Roles, CommandRoles
<1>8. \A s \in Tasks : task[s].job = j =>
        Paired(task[s], task'[t]) /\ Paired(task'[t], task[s])
  BY <1>3, <1>7 DEF Paired, Past
<1>9. IsActive(j)
  BY <1>1 DEF IsActive, Active
<1>10. \A s \in Tasks : row[j].js.id # None /\ task[s].js.id = row[j].js.id
                        /\ task[s].job # None => task[s].job = j
  BY <1>9 DEF SerialInv, Separate, TaskRowApart
<1>11. \A k \in Jobs : IsActive(k) /\ row[k].js.id # None
                       /\ row[k].js.id = row[j].js.id => k = j
  BY <1>9 DEF SerialInv, Separate, RowsApart
<1>12. \A s \in Tasks : task[s].role \in CommandRoles =>
         row[j].js.id = None \/ task[s].js.id # row[j].js.id
  BY <1>2 DEF CommandAt
<1>13. task'[t].role \in CommandRoles
  BY <1>3 DEF CommandRoles
<1> QED
  BY <1>1, <1>3, <1>4, <1>5, <1>6, <1>8, <1>10, <1>11, <1>12, <1>13,
     BeginKeepsSerial

LEMMA DeleteKeepsSerial ==
    ASSUME Serial, SerialInv, TypeOK', NEW t \in Tasks, NEW i \in Instances, Delete(t, i)
    PROVE  SerialInv'
<1>1. /\ UNCHANGED <<row, inst, backup, app>> /\ app = "up"
      /\ task[t].role = "idle" /\ TypeOK /\ Exists(i) /\ ~CommandAt(i)
      /\ task' = [task EXCEPT ![t] = [IdleTask EXCEPT !.role = "delete",
                    !.pc = "list", !.js = NewState(i),
                    !.left = {j \in Jobs : IsActive(j) /\ row[j].col = i}]]
  BY DEF Delete, SerialInv, MayDelete
<1>2. /\ \A s \in Tasks \ {t} : task'[s] = task[s]
      /\ task'[t].role = "delete" /\ task'[t].pc = "list"
      /\ task'[t].job = None /\ task'[t].js.id = i
  BY <1>1 DEF IdleTask, TypeOK, NewState
<1>3. i # None /\ inst[i] # "unborn"
  BY <1>1, ConstantsAssumption DEF Exists, Instances, Stages
<1>4. Placed(task[t])'
  BY <1>2, <1>3 DEF Placed
<1>5. \A s \in Tasks : task[s].role \in CommandRoles => task[s].js.id # i
  BY <1>1 DEF CommandAt
<1>6. task'[t].role \in CommandRoles
  BY <1>2 DEF CommandRoles
<1> QED
  BY <1>1, <1>2, <1>3, <1>4, <1>5, <1>6, BeginKeepsSerial

LEMMA StartKeepsSerial ==
    ASSUME Serial, SerialInv, TypeOK', NEW t \in Tasks, NEW j \in Jobs,
           NEW kind \in Kinds, NEW id \in Instances \cup {None}, Start(t, j, kind, id)
    PROVE  SerialInv'
<1>1. /\ UNCHANGED <<inst, backup, app>> /\ app = "up"
      /\ task[t].role = "idle" /\ TypeOK /\ row[j].status = "absent"
      /\ row' = [row EXCEPT ![j] = [status |-> "queued", kind |-> kind,
                                    col |-> id, js |-> NewState(id)]]
      /\ task' = [task EXCEPT ![t] = [IdleTask EXCEPT !.role = "setup",
                    !.pc = "prepare", !.job = j, !.js = NewState(id)]]
  BY DEF Start, SerialInv
<1>2. id # None => Exists(id) /\ ~Busy(id)
  BY DEF Start, MayStart
<1>3. /\ \A s \in Tasks \ {t} : task'[s] = task[s]
      /\ task'[t].role = "setup" /\ task'[t].pc = "prepare"
      /\ task'[t].job = j /\ task'[t].js = NewState(id)
  BY <1>1 DEF IdleTask, TypeOK
<1>4. /\ \A k \in Jobs \ {j} : row'[k] = row[k]
      /\ row'[j].status = "queued" /\ row'[j].js = NewState(id)
  BY <1>1 DEF TypeOK
<1>5. /\ None \notin Jobs /\ NewState(id).id = id /\ ~NewState(id).staging
      /\ task'[t].js.id = id /\ row'[j].js.id = id
  BY <1>3, <1>4, ConstantsAssumption DEF NewState
<1>6. \A s \in Tasks : task[s].job # j
  BY <1>1, <1>5 DEF SerialInv, RowsFit, RowFits
<1>7. id # None =>
        /\ inst[id] # "unborn"
        /\ \A s \in Tasks : task[s].role # "idle" => task[s].js.id # id
        /\ \A k \in Jobs : IsActive(k) => row[k].js.id # id
  BY <1>2 DEF Busy, Exists, Stages
<1>8. \A s \in Tasks : task[s].job # None => task[s].role # "idle"
  BY IdleFacts
<1>9. TasksPlaced'
  BY <1>3, <1>5 DEF SerialInv, TasksPlaced, Placed
<1>10. RolesFitApp'
  BY <1>1, <1>3 DEF SerialInv, RolesFitApp
<1>11. Company'
  BY <1>3, <1>6 DEF SerialInv, Separate, Company
<1>12. TasksApart'
  BY <1>3, <1>5, <1>7, <1>8 DEF SerialInv, Separate, TasksApart
<1>13. \A k \in Jobs \ {j} : row'[k].status \in Active =>
         IsActive(k) /\ row'[k].js.id = row[k].js.id
  BY <1>4 DEF IsActive
<1>14. TaskRowApart'
  <2> SUFFICES ASSUME NEW s \in Tasks, NEW k \in Jobs,
                      row'[k].status \in Active, row'[k].js.id # None,
                      task'[s].job # None, task'[s].js.id = row'[k].js.id
               PROVE  task'[s].job = k
    BY DEF TaskRowApart, IsActive
  <2>1. CASE s = t /\ k # j
    BY <1>5, <1>7, <1>13, <2>1
  <2>2. CASE s # t /\ k = j
    BY <1>3, <1>5, <1>7, <1>8, <2>2
  <2>3. CASE s # t /\ k # j
    BY <1>3, <1>13, <2>3 DEF SerialInv, Separate, TaskRowApart
  <2>4. CASE s = t /\ k = j
    BY <1>3, <2>4
  <2> QED
    BY <2>1, <2>2, <2>3, <2>4
<1>15. RowsApart'
  <2> SUFFICES ASSUME NEW l \in Jobs, NEW k \in Jobs,
                      row'[l].status \in Active, row'[k].status \in Active,
                      row'[l].js.id # None, row'[l].js.id = row'[k].js.id
               PROVE  l = k
    BY DEF RowsApart, IsActive
  <2> QED
    BY <1>5, <1>7, <1>13 DEF SerialInv, Separate, RowsApart
<1>16. DeletesAlone'
  <2>1. \A s \in Tasks : task[s].role = "delete" => task[s].js.id # None
    BY DEF SerialInv, TasksPlaced, Placed
  <2> QED
    BY <1>3, <1>5, <1>7, <2>1 DEF SerialInv, Separate, DeletesAlone
<1>17. IdsBorn'
  BY <1>1, <1>3, <1>4, <1>5, <1>7 DEF SerialInv, Separate, IdsBorn
<1>18. RowsFit'
  <2>1. RowFits(task[t])'
    BY <1>3, <1>4, <1>5 DEF RowFits, Past, Waiting
  <2>2. \A s \in Tasks \ {t} : task[s].job # None => RowFits(task[s])'
    <3> SUFFICES ASSUME NEW s \in Tasks \ {t}, task[s].job # None
                 PROVE  RowFits(task[s])'
      OBVIOUS
    <3>1. /\ task'[s] = task[s] /\ row'[task[s].job] = row[task[s].job]
          /\ task[s].job \in Jobs /\ RowFits(task[s])
      BY <1>1, <1>3, <1>4, <1>6 DEF SerialInv, RowsFit, TypeOK, Task
    <3> QED
      BY <1>1, <3>1, RowFitsKept DEF RowFits, IsActive
  <2> QED
    BY <1>3, <2>1, <2>2 DEF RowsFit
<1>19. LeftToRecover'
  BY <1>1, <1>3 DEF SerialInv, RolesFitApp, LeftToRecover
<1>20. QueuedUnstaged'
  BY <1>4, <1>5 DEF SerialInv, QueuedUnstaged
<1>21. BackupKept'
  BY <1>1, <1>4, <1>5
  DEF SerialInv, BackupKept, HasSavedBackup, IsActive, Exists
<1>22. LaunchBlockedWhileInstalling'
  BY <1>1, <1>3 DEF SerialInv, LaunchBlockedWhileInstalling, Exists
<1> QED
  BY <1>9, <1>10, <1>11, <1>12, <1>14, <1>15, <1>16, <1>17, <1>18, <1>19,
     <1>20, <1>21, <1>22 DEF SerialInv, Separate

LEMMA SerialNext ==
    ASSUME Serial, SerialInv, [Next]_vars
    PROVE  SerialInv'
<1>1. TypeOK'
  BY NextTyped DEF SerialInv
<1>2. ASSUME NEW t \in Tasks, Step(t)
      PROVE  SerialInv'
  BY <1>1, <1>2, StepGood, StepKeepsSerial, RecoverKeepsSerial,
     RecoveredKeepsSerial DEF Good
<1>3. ASSUME NEW t \in Tasks, Command(t)
      PROVE  SerialInv'
  BY <1>1, <1>3, StartKeepsSerial, RetryKeepsSerial, CancelKeepsSerial,
     DeleteKeepsSerial DEF Command
<1>4. ASSUME NEW t \in Tasks, Boot(t)
      PROVE  SerialInv'
  BY <1>1, <1>4, BootKeepsSerial
<1>5. ASSUME NEW j \in Jobs, Dismiss(j)
      PROVE  SerialInv'
  BY <1>1, <1>5, QuietKeepsSerial DEF Dismiss
<1>6. CASE Crash
  BY <1>1, <1>6, CrashKeepsSerial
<1>7. CASE UNCHANGED vars
  BY <1>1, <1>7, QuietKeepsSerial DEF vars
<1> QED
  BY <1>2, <1>3, <1>4, <1>5, <1>6, <1>7 DEF Next

LEMMA SerialInit == Init => SerialInv
<1> SUFFICES ASSUME Init PROVE SerialInv
  OBVIOUS
<1>1. /\ TypeOK /\ None \notin Jobs
      /\ \A t \in Tasks : /\ task[t].role = "idle" /\ task[t].pc = "idle"
                          /\ task[t].job = None /\ task[t].js.id = None
      /\ \A j \in Jobs : row[j].status = "absent" /\ row[j].js.id = None
  BY InitTyped, ConstantsAssumption DEF Init, IdleTask, NewState
<1>2. app = "up"
  BY DEF Init
<1>3. TasksPlaced /\ RolesFitApp /\ RowsFit /\ LeftToRecover
  BY <1>1, <1>2 DEF TasksPlaced, Placed, RolesFitApp, RowsFit, LeftToRecover
<1>4. Separate
  BY <1>1 DEF Separate, Company, TasksApart, TaskRowApart, RowsApart,
              DeletesAlone, IdsBorn, IsActive, Active
<1>5. QueuedUnstaged /\ BackupKept /\ LaunchBlockedWhileInstalling
  BY <1>1 DEF QueuedUnstaged, BackupKept, IsActive, Active,
              LaunchBlockedWhileInstalling
<1> QED
  BY <1>1, <1>3, <1>4, <1>5 DEF SerialInv

LEMMA SerialHolds ==
    ASSUME Serial
    PROVE  Spec => []SerialInv
<1> USE Serial
<1>1. SerialInv /\ [Next]_vars => SerialInv'
  BY SerialNext
<1> QED
  BY <1>1, SerialInit, PTL DEF Spec

----------------------------------------------------------------------------
(* What follows from it. *)

\* While a run_job task changes the files of an instance, nobody takes the
\* lock away that keeps launch_minecraft from starting it: no cancel, retry,
\* deletion or other job that the client may issue beside it, and no crash.
THEOREM LaunchesAreBlocked ==
    ASSUME Serial PROVE Spec => []LaunchBlockedWhileInstalling
BY SerialHolds, PTL DEF SerialInv

\* As long as the saved row of an unfinished update names a backup, the backup
\* is there, wherever the app is closed and whoever rolls the job back.
THEOREM BackupsAreKept ==
    ASSUME Serial PROVE Spec => []BackupKept
BY SerialHolds, PTL DEF SerialInv

----------------------------------------------------------------------------
(* What each action does to its task, its row and its instance, field by   *)
(* field.                                                                  *)

\* One state with another id, or with another stage to go back to.
SameButId(js, old) ==
    js.rb = old.rb /\ js.staging = old.staging /\ js.rberr = old.rberr

SameButRb(js, old) ==
    js.id = old.id /\ js.staging = old.staging /\ js.rberr = old.rberr

\* One instance changes its stage, or its files.
StageTo(i, stage) ==
    inst'[i] = stage /\ \A k \in Instances \ {i} : inst'[k] = inst[k]

FilesTo(i, files) ==
    content'[i] = files /\ \A k \in Instances \ {i} : content'[k] = content[k]

LEMMA StagedTo ==
    ASSUME TypeOK, NEW id, NEW stage, inst' = WithStage(id, stage)
    PROVE  IF Exists(id) THEN StageTo(id, stage) ELSE UNCHANGED inst
BY DEF WithStage, Exists, StageTo, TypeOK

LEMMA FiledTo ==
    ASSUME TypeOK, NEW id \in Instances, NEW files,
           content' = [content EXCEPT ![id] = files]
    PROVE  FilesTo(id, files)
BY DEF FilesTo, TypeOK

LEMMA RequeueDoes ==
    ASSUME SerialInv, NEW t \in Tasks, Requeue(t)
    PROVE  /\ task[t].role = "retry" /\ task[t].pc = "requeue"
           /\ UNCHANGED <<inst, content, backup>>
           /\ \/ /\ Idles(t) /\ UNCHANGED row
                 /\ row[task[t].job].kind # "create"
                 /\ task[t].js.id # None /\ ~Exists(task[t].js.id)
              \/ \E js : /\ Moves(t, "setup", "prepare", js)
                         /\ Writes(task[t].job, "queued", js)
                         /\ js = NewState(js.id) /\ (js.id = None \/ Exists(js.id))
                         /\ js.id = IF row[task[t].job].kind = "create"
                                    THEN None ELSE task[t].js.id
<1> DEFINE id == IF row[task[t].job].kind = "create" THEN None ELSE task[t].js.id
<1>1. /\ task[t].role = "retry" /\ task[t].pc = "requeue"
      /\ UNCHANGED <<inst, content, backup>>
  BY DEF Requeue, At
<1> USE Acting
<1>2. NewState(id).id = id /\ NewState(id) = NewState(NewState(id).id)
  BY DEF NewState
<1>3. CASE ~FkOk(NewState(id).id) /\ Return(t) /\ UNCHANGED row
  BY <1>1, <1>2, <1>3, ReturnIdles DEF FkOk
<1>4. CASE /\ FkOk(NewState(id).id)
           /\ row' = WithStatus(task[t].job, "queued", NewState(id))
           /\ task' = [task EXCEPT ![t].role = "setup", ![t].pc = "prepare",
                                   ![t].js = NewState(id)]
  <2> HIDE DEF id
  <2>1. Moves(t, "setup", "prepare", NewState(id))
    BY <1>1, <1>4 DEF Moves, Others, TypeOK, Task
  <2>2. Writes(task[t].job, "queued", NewState(id))
    BY <1>1, <1>4, WithStatusWrites
  <2>3. id = None \/ Exists(id)
    BY <1>2, <1>4 DEF FkOk
  <2>4. id = IF row[task[t].job].kind = "create" THEN None ELSE task[t].js.id
    BY DEF id
  <2> QED
    BY <1>1, <1>2, <2>1, <2>2, <2>3, <2>4
<1> QED
  BY <1>1, <1>3, <1>4 DEF Requeue

LEMMA PrepareNewDoes ==
    ASSUME SerialInv, NEW t \in Tasks, PrepareNew(t)
    PROVE  /\ task[t].role = "setup" /\ task[t].pc = "prepare"
           /\ row[task[t].job].kind = "create"
           /\ UNCHANGED <<row, content, backup>>
           /\ \/ Moves(t, "setup", "cleanup", task[t].js) /\ UNCHANGED inst
              \/ \E i \in Instances, pc \in {"persist", "cleanup"} : \E js :
                    /\ Moves(t, "setup", pc, js)
                    /\ SameButId(js, task[t].js) /\ js.id = i
                    /\ inst[i] = "unborn" /\ StageTo(i, "not_installed")
<1>1. /\ task[t].role = "setup" /\ task[t].pc = "prepare"
      /\ row[task[t].job].kind = "create"
      /\ UNCHANGED <<row, content, backup>>
  BY DEF PrepareNew, At
<1> USE Acting
<1>2. CASE Goto(t, "cleanup") /\ UNCHANGED inst
  BY <1>1, <1>2, GotoMoves
<1>3. ASSUME NEW i \in Fresh, NEW ok, inst[i] = "unborn",
             inst' = [inst EXCEPT ![i] = "not_installed"],
             GotoWith(t, IF ok THEN "persist" ELSE "cleanup",
                      [task[t].js EXCEPT !.id = i])
      PROVE  \E k \in Instances, pc \in {"persist", "cleanup"} : \E js :
                    /\ Moves(t, "setup", pc, js)
                    /\ SameButId(js, task[t].js) /\ js.id = k
                    /\ inst[k] = "unborn" /\ StageTo(k, "not_installed")
  <2> DEFINE js == [task[t].js EXCEPT !.id = i]
             pc == IF ok THEN "persist" ELSE "cleanup"
  <2>1. SameButId(js, task[t].js) /\ js.id = i
    BY <1>1 DEF TypeOK, Task, JobState, SameButId
  <2>2. StageTo(i, "not_installed") /\ i \in Instances
    BY <1>1, <1>3 DEF StageTo, TypeOK, Instances
  <2>3. pc \in {"persist", "cleanup"}
    OBVIOUS
  <2>4. Moves(t, "setup", pc, js)
    BY <1>1, <1>3, GotoWithMoves
  <2> HIDE DEF js, pc
  <2> QED
    BY <1>3, <2>1, <2>2, <2>3, <2>4
<1> QED
  BY <1>1, <1>2, <1>3 DEF PrepareNew

LEMMA PrepareExistingDoes ==
    ASSUME SerialInv, NEW t \in Tasks, PrepareExisting(t)
    PROVE  /\ task[t].role = "setup" /\ task[t].pc = "prepare"
           /\ row[task[t].job].kind # "create"
           /\ UNCHANGED <<row, inst, content, backup>>
           /\ \/ Moves(t, "setup", "cleanup", task[t].js)
              \/ \E js : /\ Moves(t, "setup", "persist", js)
                         /\ SameButRb(js, task[t].js)
                         /\ Exists(js.id) /\ js.rb = inst[js.id]
<1>1. /\ task[t].role = "setup" /\ task[t].pc = "prepare"
      /\ row[task[t].job].kind # "create"
      /\ UNCHANGED <<row, inst, content, backup>>
  BY DEF PrepareExisting, At
<1> USE Acting
<1>2. CASE Goto(t, "cleanup")
  BY <1>1, <1>2, GotoMoves
<1>3. CASE /\ Exists(task[t].js.id)
           /\ GotoWith(t, "persist", [task[t].js EXCEPT !.rb = inst[task[t].js.id]])
  <2> DEFINE js == [task[t].js EXCEPT !.rb = inst[task[t].js.id]]
  <2>1. SameButRb(js, task[t].js) /\ js.rb = inst[task[t].js.id]
        /\ js.id = task[t].js.id
    BY <1>1 DEF TypeOK, Task, JobState, SameButRb
  <2>2. Moves(t, "setup", "persist", js)
    BY <1>1, <1>3, GotoWithMoves
  <2> HIDE DEF js
  <2> QED
    BY <1>1, <1>3, <2>1, <2>2
<1> QED
  BY <1>1, <1>2, <1>3 DEF PrepareExisting

LEMMA PersistDoes ==
    ASSUME SerialInv, NEW t \in Tasks, Persist(t)
    PROVE  /\ task[t].role = "setup" /\ task[t].pc = "persist"
           /\ UNCHANGED <<inst, content, backup>>
           /\ \/ /\ IsActive(task[t].job)
                 /\ Writes(task[t].job, row[task[t].job].status, task[t].js)
                 /\ Moves(t, "setup", "lock", task[t].js)
              \/ /\ ~IsActive(task[t].job) /\ UNCHANGED row
                 /\ Moves(t, "setup", "cleanup", task[t].js)
BY Acting, GotoMoves, UpdatedWrites DEF Persist, At

LEMMA LockAndSpawnDoes ==
    ASSUME SerialInv, NEW t \in Tasks, LockAndSpawn(t)
    PROVE  /\ task[t].role = "setup" /\ task[t].pc = "lock"
           /\ UNCHANGED <<row, content, backup>>
           /\ \/ UNCHANGED inst
              \/ Exists(task[t].js.id) /\ StageTo(task[t].js.id, "installing")
           /\ \/ Moves(t, "setup", "cleanup", task[t].js)
              \/ /\ Others(t) /\ task'[t].role = "run" /\ task'[t].pc = "read"
                 /\ task'[t].job = task[t].job /\ task'[t].js = NewState(None)
                 /\ IF Exists(task[t].js.id) THEN StageTo(task[t].js.id, "installing")
                                             ELSE UNCHANGED inst
<1>1. /\ task[t].role = "setup" /\ task[t].pc = "lock"
      /\ UNCHANGED <<row, content, backup>>
      /\ inst' \in {inst, WithStage(task[t].js.id, "installing")}
  BY DEF LockAndSpawn, At
<1>2. ASSUME inst' = WithStage(task[t].js.id, "installing")
      PROVE  IF Exists(task[t].js.id) THEN StageTo(task[t].js.id, "installing")
                                      ELSE UNCHANGED inst
  BY <1>2, StagedTo DEF SerialInv
<1>3. CASE Goto(t, "cleanup")
  BY <1>1, <1>2, <1>3, Acting, GotoMoves
<1>4. CASE /\ inst' = WithStage(task[t].js.id, "installing")
           /\ task' = [task EXCEPT ![t] = [IdleTask EXCEPT !.role = "run",
                            !.pc = "read", !.job = task[t].job]]
  BY <1>1, <1>2, <1>4, Acting DEF IdleTask, TypeOK, Task, Others
<1> QED
  BY <1>3, <1>4 DEF LockAndSpawn

LEMMA AcquireDoes ==
    ASSUME SerialInv, NEW t \in Tasks, RunRead(t) \/ Acquire(t)
    PROVE  /\ task[t].role = "run" /\ task[t].pc \in {"read", "acquire"}
           /\ UNCHANGED <<row, inst, content, backup>>
           /\ \/ Idles(t)
              \/ Moves(t, "run", "acquire", task[t].js)
              \/ /\ row[task[t].job].status = "queued"
                 /\ Moves(t, "run", "claim", row[task[t].job].js)
<1>1. CASE RunRead(t)
  BY <1>1, Acting, GotoMoves, ReturnIdles DEF RunRead, At
<1>2. CASE Acquire(t)
  BY <1>2, Acting, GotoWithMoves, ReturnIdles DEF Acquire, At
<1> QED
  BY <1>1, <1>2

LEMMA ClaimDoes ==
    ASSUME SerialInv, NEW t \in Tasks, Claim(t)
    PROVE  /\ task[t].role = "run" /\ task[t].pc = "claim"
           /\ UNCHANGED <<inst, content, backup>>
           /\ \/ Idles(t) /\ UNCHANGED row
              \/ Moves(t, "stranded", "check", task[t].js) /\ UNCHANGED row
              \/ /\ row[task[t].job].status = "queued"
                 /\ task[t].js.id = None \/ Exists(task[t].js.id)
                 /\ Writes(task[t].job, "running", task[t].js)
                 /\ Moves(t, "run", "work", task[t].js)
BY Acting, GotoMoves, ReturnIdles, StrandMoves, WithStatusWrites
DEF Claim, At, FkOk

LEMMA WorkNewDoes ==
    ASSUME SerialInv, NEW t \in Tasks, WorkNew(t)
    PROVE  /\ task[t].role = "run" /\ task[t].pc = "work"
           /\ row[task[t].job].kind = "create"
           /\ UNCHANGED <<row, content, backup>>
           /\ \/ Moves(t, "run", "ended_err", task[t].js) /\ UNCHANGED inst
              \/ /\ Exists(task[t].js.id) /\ IsActive(task[t].job)
                 /\ StageTo(task[t].js.id, "installing")
                 /\ Moves(t, "run", "install", task[t].js)
                 /\ task'[t].prev = inst[task[t].js.id]
<1>1. /\ task[t].role = "run" /\ task[t].pc = "work"
      /\ row[task[t].job].kind = "create"
      /\ UNCHANGED <<row, content, backup>>
  BY DEF WorkNew, At
<1> USE Acting
<1>2. CASE Goto(t, "ended_err") /\ UNCHANGED inst
  BY <1>1, <1>2, GotoMoves
<1>3. CASE /\ Exists(task[t].js.id) /\ IsActive(task[t].job)
           /\ inst' = WithStage(task[t].js.id, "installing")
           /\ task' = [task EXCEPT ![t].pc = "install",
                                   ![t].prev = inst[task[t].js.id]]
  <2>1. StageTo(task[t].js.id, "installing")
    BY <1>1, <1>3, StagedTo
  <2>2. /\ Moves(t, "run", "install", task[t].js)
        /\ task'[t].prev = inst[task[t].js.id]
    BY <1>1, <1>3 DEF Moves, Others, TypeOK, Task
  <2> QED
    BY <1>1, <1>3, <2>1, <2>2
<1> QED
  BY <1>1, <1>2, <1>3 DEF WorkNew

\* The lock of an instance that is there, and where the work goes on.
WorkGoesOn(t, pc, js) ==
    /\ Exists(task[t].js.id)
    /\ StageTo(task[t].js.id, "installing")
    /\ Moves(t, "run", pc, js)
    /\ SameButRb(js, task[t].js)
    /\ js.rb = IF task[t].js.rb = None THEN inst[task[t].js.id]
                                       ELSE task[t].js.rb
    /\ \/ row[task[t].job].kind = "update" /\ pc = "backup" /\ UNCHANGED row
       \/ /\ row[task[t].job].kind # "update" /\ ~IsActive(task[t].job)
          /\ pc = "ended_err" /\ UNCHANGED row
       \/ /\ row[task[t].job].kind # "update" /\ IsActive(task[t].job)
          /\ pc = "install"
          /\ Writes(task[t].job, row[task[t].job].status, js)

LEMMA WorkExistingDoes ==
    ASSUME SerialInv, NEW t \in Tasks, WorkExisting(t)
    PROVE  /\ task[t].role = "run" /\ task[t].pc = "work"
           /\ row[task[t].job].kind # "create"
           /\ UNCHANGED backup
           /\ row[task[t].job].kind # "pack" => UNCHANGED content
           /\ \/ /\ Moves(t, "run", "ended_err", task[t].js)
                 /\ ~Exists(task[t].js.id) /\ UNCHANGED <<row, inst, content>>
              \/ \E pc, js : /\ WorkGoesOn(t, pc, js)
                             /\ task'[t].prev = "installing"
<1>1. /\ task[t].role = "run" /\ task[t].pc = "work"
      /\ row[task[t].job].kind # "create"
      /\ UNCHANGED backup
  BY DEF WorkExisting, At
<1> USE Acting
<1>2. CASE ~Exists(task[t].js.id)
  BY <1>1, <1>2, GotoMoves DEF WorkExisting
<1>3. CASE Exists(task[t].js.id)
  <2> DEFINE js == [task[t].js EXCEPT
                       !.rb = IF @ = None THEN inst[task[t].js.id] ELSE @]
             pc == IF row[task[t].job].kind = "update" THEN "backup"
                   ELSE IF IsActive(task[t].job) THEN "install"
                   ELSE "ended_err"
  <2>1. /\ task' = [task EXCEPT ![t].pc = pc, ![t].js = js,
                                ![t].prev = "installing"]
        /\ row' = IF IsActive(task[t].job) /\ row[task[t].job].kind # "update"
                  THEN Updated(task[t].job, js) ELSE row
        /\ inst' = WithStage(task[t].js.id, "installing")
        /\ row[task[t].job].kind # "pack" => UNCHANGED content
    BY <1>3 DEF WorkExisting
  <2>2. /\ SameButRb(js, task[t].js)
        /\ js.rb = IF task[t].js.rb = None THEN inst[task[t].js.id]
                                           ELSE task[t].js.rb
    BY <1>1 DEF TypeOK, Task, JobState, SameButRb
  <2>3. pc = IF row[task[t].job].kind = "update" THEN "backup"
             ELSE IF IsActive(task[t].job) THEN "install" ELSE "ended_err"
    OBVIOUS
  <2> HIDE DEF js, pc
  <2>4. Moves(t, "run", pc, js) /\ task'[t].prev = "installing"
    BY <1>1, <2>1 DEF Moves, Others, TypeOK, Task
  <2>5. \/ UNCHANGED row
        \/ Writes(task[t].job, row[task[t].job].status, js)
    BY <1>1, <2>1, UpdatedWrites
  <2>6. /\ row[task[t].job].kind # "update" /\ IsActive(task[t].job) =>
              Writes(task[t].job, row[task[t].job].status, js)
        /\ ~(row[task[t].job].kind # "update" /\ IsActive(task[t].job)) =>
              UNCHANGED row
    BY <1>1, <2>1, UpdatedWrites
  <2>7. StageTo(task[t].js.id, "installing")
    BY <1>1, <1>3, <2>1, StagedTo
  <2>8. WorkGoesOn(t, pc, js)
    BY <1>3, <2>2, <2>3, <2>4, <2>6, <2>7 DEF WorkGoesOn
  <2> QED
    BY <1>1, <2>1, <2>4, <2>8
<1> QED
  BY <1>2, <1>3

LEMMA BackupDoes ==
    ASSUME SerialInv, NEW t \in Tasks, Backup(t)
    PROVE  /\ task[t].role = "run" /\ task[t].pc = "backup"
           /\ UNCHANGED <<row, inst, content>>
           /\ \A k \in Jobs \ {task[t].job} : backup'[k] = backup[k]
           /\ \/ Moves(t, "run", "ended_err", task[t].js)
              \/ \E js : /\ Moves(t, "run", "save", js)
                         /\ js.id = task[t].js.id /\ js.rb = task[t].js.rb
                         /\ js.staging /\ js.rberr = task[t].js.rberr
                         /\ Exists(js.id)
                         /\ backup'[task[t].job] = content[js.id]
<1>1. /\ task[t].role = "run" /\ task[t].pc = "backup"
      /\ UNCHANGED <<row, inst, content>>
  BY DEF Backup, At
<1> USE Acting
<1>2. \A k \in Jobs \ {task[t].job} : backup'[k] = backup[k]
  BY <1>1 DEF Backup, TypeOK
<1>3. CASE Goto(t, "ended_err")
  BY <1>1, <1>2, <1>3, GotoMoves
<1>4. CASE /\ Exists(task[t].js.id)
           /\ backup' = [backup EXCEPT ![task[t].job] = content[task[t].js.id]]
           /\ GotoWith(t, "save", [task[t].js EXCEPT !.staging = TRUE])
  <2> DEFINE js == [task[t].js EXCEPT !.staging = TRUE]
  <2>1. /\ js.id = task[t].js.id /\ js.rb = task[t].js.rb
        /\ js.staging /\ js.rberr = task[t].js.rberr
    BY <1>1 DEF TypeOK, Task, JobState
  <2>2. Moves(t, "run", "save", js)
    BY <1>1, <1>4, GotoWithMoves
  <2> HIDE DEF js
  <2>3. backup'[task[t].job] = content[task[t].js.id]
    BY <1>1, <1>4 DEF TypeOK
  <2> QED
    BY <1>1, <1>2, <1>4, <2>1, <2>2, <2>3
<1> QED
  BY <1>3, <1>4 DEF Backup

LEMMA SaveBackupDoes ==
    ASSUME SerialInv, NEW t \in Tasks, SaveBackup(t)
    PROVE  /\ task[t].role = "run" /\ task[t].pc = "save"
           /\ UNCHANGED <<inst, backup>>
           /\ \/ /\ IsActive(task[t].job)
                 /\ Writes(task[t].job, row[task[t].job].status, task[t].js)
                 /\ Moves(t, "run", "install", task[t].js)
                 /\ IF Exists(task[t].js.id) THEN FilesTo(task[t].js.id, "mixed")
                                             ELSE UNCHANGED content
              \/ /\ ~IsActive(task[t].job) /\ UNCHANGED <<row, content>>
                 /\ Moves(t, "run", "ended_err", task[t].js)
BY Acting, GotoMoves, UpdatedWrites, FiledTo DEF SaveBackup, At, Exists

LEMMA InstallDoes ==
    ASSUME SerialInv, NEW t \in Tasks, Install(t)
    PROVE  /\ task[t].role = "run" /\ task[t].pc = "install"
           /\ UNCHANGED <<row, backup>>
           /\ \/ /\ Moves(t, "run", "ended_ok", task[t].js) /\ UNCHANGED inst
                 /\ IF Exists(task[t].js.id) /\ row[task[t].job].kind # "existing"
                    THEN FilesTo(task[t].js.id, "clean")
                    ELSE UNCHANGED content
              \/ /\ Moves(t, "run", "ended_err", task[t].js) /\ UNCHANGED content
                 /\ IF Exists(task[t].js.id)
                    THEN StageTo(task[t].js.id, task[t].prev)
                    ELSE UNCHANGED inst
BY Acting, GotoMoves, FiledTo, StagedTo DEF Install, At, Exists

LEMMA RereadDoes ==
    ASSUME SerialInv, NEW t \in Tasks, Reread(t)
    PROVE  /\ task[t].role = "run" /\ task[t].pc \in {"ended_ok", "ended_err"}
           /\ UNCHANGED <<row, inst, content, backup>>
           /\ \/ Idles(t)
              \/ /\ row[task[t].job].status = "running" /\ task[t].pc = "ended_ok"
                 /\ \E js : /\ Moves(t, "run", "succeed", js)
                            /\ js.id = task[t].js.id
                            /\ SameButId(js, row[task[t].job].js)
              \/ /\ row[task[t].job].status = "running"
                 /\ Moves(t, "run", "cleanup", row[task[t].job].js)
              \/ /\ task[t].pc = "ended_ok"
                 /\ Moves(t, "run", "succeed", task[t].js)
              \/ /\ task[t].pc = "ended_err"
                 /\ Moves(t, "run", "cleanup", task[t].js)
<1>1. /\ task[t].role = "run" /\ task[t].pc \in {"ended_ok", "ended_err"}
      /\ UNCHANGED <<row, inst, content, backup>>
  BY DEF Reread
<1> USE Acting
<1>2. CASE Return(t)
  BY <1>1, <1>2, ReturnIdles
<1>3. CASE /\ row[task[t].job].status = "running" /\ task[t].pc = "ended_ok"
           /\ GotoWith(t, "succeed", [row[task[t].job].js EXCEPT !.id = task[t].js.id])
  <2> DEFINE js == [row[task[t].job].js EXCEPT !.id = task[t].js.id]
  <2>1. js.id = task[t].js.id /\ SameButId(js, row[task[t].job].js)
    BY <1>1 DEF TypeOK, Row, JobState, SameButId
  <2>2. Moves(t, "run", "succeed", js)
    BY <1>1, <1>3, GotoWithMoves
  <2> HIDE DEF js
  <2> QED
    BY <1>1, <1>3, <2>1, <2>2
<1>4. CASE /\ row[task[t].job].status = "running"
           /\ GotoWith(t, "cleanup", row[task[t].job].js)
  BY <1>1, <1>4, GotoWithMoves
<1>5. ASSUME NEW pc, Goto(t, pc)
      PROVE  Moves(t, "run", pc, task[t].js)
  BY <1>1, <1>5, GotoMoves
<1> QED
  BY <1>1, <1>2, <1>3, <1>4, <1>5 DEF Reread

LEMMA SucceedDoes ==
    ASSUME SerialInv, NEW t \in Tasks, Succeed(t)
    PROVE  /\ task[t].role = "run" /\ task[t].pc = "succeed"
           /\ UNCHANGED <<content, backup>>
           /\ \/ Idles(t) /\ UNCHANGED <<row, inst>>
              \/ Moves(t, "stranded", "check", task[t].js) /\ UNCHANGED <<row, inst>>
              \/ \E js : /\ row[task[t].job].status = "running"
                         /\ Exists(js.id) /\ js.id = task[t].js.id
                         /\ js.rb = task[t].js.rb /\ ~js.rberr
                         /\ js.staging = task[t].js.staging
                         /\ Writes(task[t].job, "succeeded", js)
                         /\ StageTo(js.id, "installed")
                         /\ Idles(t) \/ (js.staging /\ Moves(t, "run", "clear", js))
<1>1. /\ task[t].role = "run" /\ task[t].pc = "succeed"
      /\ UNCHANGED <<content, backup>>
  BY DEF Succeed, At
<1> USE Acting
<1>2. CASE Return(t) /\ UNCHANGED <<row, inst>>
  BY <1>1, <1>2, ReturnIdles
<1>3. CASE Strand(t) /\ UNCHANGED <<row, inst>>
  BY <1>1, <1>3, StrandMoves
<1> DEFINE js == [task[t].js EXCEPT !.rberr = FALSE]
<1>4. CASE /\ row[task[t].job].status = "running" /\ Exists(js.id)
           /\ row' = WithStatus(task[t].job, "succeeded", js)
           /\ inst' = WithStage(js.id, "installed")
           /\ AfterFinish(t, js)
  <2>1. /\ js.id = task[t].js.id /\ js.rb = task[t].js.rb /\ ~js.rberr
        /\ js.staging = task[t].js.staging
    BY <1>1 DEF TypeOK, Task, JobState
  <2> HIDE DEF js
  <2>2. Writes(task[t].job, "succeeded", js)
    BY <1>1, <1>4, WithStatusWrites
  <2>3. StageTo(js.id, "installed")
    BY <1>1, <1>4, StagedTo
  <2>4. Idles(t) \/ (js.staging /\ Moves(t, "run", "clear", js))
    BY <1>1, <1>4, AfterFinishMoves
  <2> QED
    BY <1>1, <1>4, <2>1, <2>2, <2>3, <2>4
<1> QED
  BY <1>2, <1>3, <1>4 DEF Succeed

LEMMA CheckStrandedDoes ==
    ASSUME SerialInv, NEW t \in Tasks, CheckStranded(t)
    PROVE  /\ task[t].role = "stranded" /\ task[t].pc = "check"
           /\ UNCHANGED <<row, inst, content, backup>>
           /\ \/ Idles(t)
              \/ /\ IsActive(task[t].job)
                 /\ Moves(t, "stranded", "cleanup", row[task[t].job].js)
BY Acting, GotoWithMoves, ReturnIdles DEF CheckStranded, At, IsActive

\* A clean-up that has returned: everybody records how it went, but for a
\* retry, which goes on or gives up.
CleanedTo(t, ok) ==
    \/ /\ task[t].role # "retry" /\ UNCHANGED backup
       /\ \E js : /\ Moves(t, task[t].role, "finish", js)
                  /\ js.rb = task[t].js.rb /\ js.staging = task[t].js.staging
                  /\ js.id = IF ok /\ row[task[t].job].kind = "create"
                             THEN None ELSE task[t].js.id
                  /\ ~ok => js.rberr
                  /\ ok /\ ~task[t].js.rberr => ~js.rberr
    \/ /\ task[t].role = "retry" /\ ok
       /\ Moves(t, "retry", "requeue", task[t].js)
       /\ \A k \in Jobs \ {task[t].job} : backup'[k] = backup[k]
    \/ task[t].role = "retry" /\ ~ok /\ Idles(t) /\ UNCHANGED backup

LEMMA CleanedUpDoes ==
    ASSUME SerialInv, NEW t \in Tasks, NEW ok \in BOOLEAN,
           task[t].pc \in {"cleanup", "restoring"}, CleanedUp(t, ok)
    PROVE  CleanedTo(t, ok)
<1> USE Acting
<1>1. CASE /\ task[t].role # "retry" /\ UNCHANGED backup
           /\ Moves(t, task[t].role, "finish", Undone(t, ok))
  <2> DEFINE js == Undone(t, ok)
  <2>1. /\ js.rb = task[t].js.rb /\ js.staging = task[t].js.staging
        /\ js.id = IF ok /\ row[task[t].job].kind = "create"
                   THEN None ELSE task[t].js.id
        /\ ~ok => js.rberr
        /\ ok /\ ~task[t].js.rberr => ~js.rberr
    BY UndoneState
  <2> HIDE DEF js
  <2> QED
    BY <1>1, <2>1 DEF CleanedTo, js
<1>2. CASE /\ task[t].role = "retry" /\ ok
           /\ Moves(t, "retry", "requeue", task[t].js)
           /\ backup' = IF task[t].js.staging
                        THEN [backup EXCEPT ![task[t].job] = "none"] ELSE backup
  <2>1. \A k \in Jobs \ {task[t].job} : backup'[k] = backup[k]
    BY <1>2 DEF TypeOK
  <2> QED
    BY <1>2, <2>1 DEF CleanedTo
<1>3. CASE task[t].role = "retry" /\ ~ok /\ Idles(t) /\ UNCHANGED backup
  BY <1>3 DEF CleanedTo
<1> QED
  BY <1>1, <1>2, <1>3, CleanedUpMoves

LEMMA RemoveNewInstanceDoes ==
    ASSUME SerialInv, NEW t \in Tasks, RemoveNewInstance(t)
    PROVE  /\ task[t].pc = "cleanup" /\ row[task[t].job].kind = "create"
           /\ Exists(task[t].js.id)
           /\ \E ok \in BOOLEAN :
                 /\ CleanedTo(t, ok)
                 /\ \/ Drops(task[t].js.id)
                    \/ ~ok /\ UNCHANGED <<row, inst, content>>
<1>1. /\ task[t].pc = "cleanup" /\ row[task[t].job].kind = "create"
      /\ Exists(task[t].js.id) /\ task[t].js.id \in Instances
  BY DEF RemoveNewInstance, Undoes, Exists
<1>2. ASSUME NEW ok \in Outcome("directory"), DropInstance(task[t].js.id),
             CleanedUp(t, ok)
      PROVE  ok \in BOOLEAN /\ CleanedTo(t, ok) /\ Drops(task[t].js.id)
  BY <1>1, <1>2, CleanedUpDoes, DropDrops DEF Outcome, SerialInv
<1>3. CASE CleanedUp(t, FALSE) /\ UNCHANGED <<row, inst, content>>
  BY <1>1, <1>3, CleanedUpDoes
<1> QED
  BY <1>1, <1>2, <1>3 DEF RemoveNewInstance

LEMMA NothingToUndoDoes ==
    ASSUME SerialInv, NEW t \in Tasks, NothingToUndo(t)
    PROVE  /\ task[t].pc = "cleanup" /\ CleanedTo(t, TRUE)
           /\ UNCHANGED <<row, inst, content>>
           /\ \/ row[task[t].job].kind = "create" /\ ~Exists(task[t].js.id)
              \/ row[task[t].job].kind # "create" /\ task[t].js.rb = None
BY CleanedUpDoes DEF NothingToUndo, Undoes, AllKinds

LEMMA RestoreStageDoes ==
    ASSUME SerialInv, NEW t \in Tasks, RestoreStage(t)
    PROVE  /\ task[t].pc = "cleanup" /\ CleanedTo(t, TRUE)
           /\ row[task[t].job].kind # "create" /\ task[t].js.rb # None
           /\ ~(row[task[t].job].kind = "update" /\ task[t].js.staging)
           /\ UNCHANGED <<row, content>>
           /\ IF Exists(task[t].js.id)
              THEN StageTo(task[t].js.id, task[t].js.rb) ELSE UNCHANGED inst
BY CleanedUpDoes, StagedTo DEF RestoreStage, Undoes, HasBackup, SerialInv

LEMMA BeginRestoreDoes ==
    ASSUME SerialInv, NEW t \in Tasks, BeginRestore(t)
    PROVE  /\ task[t].pc = "cleanup" /\ row[task[t].job].kind = "update"
           /\ task[t].js.rb # None /\ task[t].js.staging
           /\ UNCHANGED <<row, inst>>
           /\ \/ /\ Moves(t, task[t].role, "restoring", task[t].js)
                 /\ UNCHANGED backup
                 /\ IF Exists(task[t].js.id) THEN FilesTo(task[t].js.id, "mixed")
                                             ELSE UNCHANGED content
              \/ CleanedTo(t, FALSE) /\ UNCHANGED content
<1>1. /\ task[t].pc = "cleanup" /\ row[task[t].job].kind = "update"
      /\ task[t].js.rb # None /\ task[t].js.staging
      /\ UNCHANGED <<row, inst>>
  BY DEF BeginRestore, Undoes, HasBackup
<1>2. CASE CleanedUp(t, FALSE) /\ UNCHANGED content
  BY <1>1, <1>2, CleanedUpDoes
<1>3. CASE /\ Goto(t, "restoring") /\ UNCHANGED backup
           /\ content' = IF Exists(task[t].js.id)
                         THEN [content EXCEPT ![task[t].js.id] = "mixed"]
                         ELSE content
  BY <1>1, <1>3, Acting, GotoMoves, FiledTo DEF Exists
<1> QED
  BY <1>1, <1>2, <1>3 DEF BeginRestore

LEMMA EndRestoreDoes ==
    ASSUME SerialInv, NEW t \in Tasks, EndRestore(t)
    PROVE  /\ task[t].pc = "restoring" /\ UNCHANGED row
           /\ \/ /\ CleanedTo(t, TRUE) /\ Exists(task[t].js.id)
                 /\ FilesTo(task[t].js.id, backup[task[t].job])
                 /\ StageTo(task[t].js.id, task[t].js.rb)
              \/ CleanedTo(t, FALSE) /\ UNCHANGED <<inst, content>>
<1>1. task[t].pc = "restoring" /\ UNCHANGED row
  BY DEF EndRestore
<1>2. CASE CleanedUp(t, FALSE) /\ UNCHANGED <<inst, content>>
  BY <1>1, <1>2, CleanedUpDoes
<1>3. CASE /\ Exists(task[t].js.id) /\ CleanedUp(t, TRUE)
           /\ content' = [content EXCEPT ![task[t].js.id] = backup[task[t].job]]
           /\ inst' = WithStage(task[t].js.id, task[t].js.rb)
  BY <1>1, <1>3, CleanedUpDoes, FiledTo, StagedTo DEF SerialInv, Exists
<1> QED
  BY <1>1, <1>2, <1>3 DEF EndRestore

LEMMA AfterFinishDoes ==
    ASSUME TypeOK, NEW t \in Tasks, NEW js, AfterFinish(t, js)
    PROVE  \/ Idles(t) \/ (task[t].role = "recover" /\ Proceeds(t))
           \/ js.staging /\ ~js.rberr /\ Moves(t, task[t].role, "clear", js)
<1>1. CASE ~(js.staging /\ ~js.rberr)
  <2>1. CASE task[t].role = "recover" /\ task' = [task EXCEPT ![t].pc = "next",
                  ![t].job = None, ![t].js = NewState(None)]
    BY <2>1 DEF Proceeds, Others, TypeOK, Task
  <2> QED
    BY <1>1, <2>1, ReturnIdles DEF AfterFinish
<1>2. CASE js.staging /\ ~js.rberr
  <2>1. task' = [task EXCEPT ![t].pc = "clear", ![t].js = js]
    BY <1>2 DEF AfterFinish
  <2> QED
    BY <1>2, <2>1 DEF Moves, Others, TypeOK, Task
<1> QED
  BY <1>1, <1>2

\* The slot is free again, or goes on with the recovery.
Leaves(t) == Idles(t) \/ (task[t].role = "recover" /\ Proceeds(t))

LEMMA TerminalizeDoes ==
    ASSUME SerialInv, NEW t \in Tasks, FailJob(t) \/ InterruptJob(t)
    PROVE  /\ task[t].pc = "finish" /\ UNCHANGED <<inst, content, backup>>
           /\ task[t].role \in {"setup", "run", "stranded", "recover"}
           /\ \/ ~IsActive(task[t].job) /\ UNCHANGED row /\ Leaves(t)
              \/ /\ IsActive(task[t].job)
                 /\ \E status \in Retriable :
                       Writes(task[t].job, status, task[t].js)
                 /\ \/ Leaves(t)
                    \/ /\ task[t].js.staging /\ ~task[t].js.rberr
                       /\ Moves(t, task[t].role, "clear", task[t].js)
<1>1. /\ task[t].pc = "finish" /\ UNCHANGED <<inst, content, backup>>
      /\ task[t].role \in {"setup", "run", "stranded", "recover"}
  BY DEF FailJob, InterruptJob, Terminalize, At
<1>2. PICK status \in Retriable : Terminalize(t, status)
  BY DEF FailJob, InterruptJob, Retriable
<1> USE Acting
<1>3. CASE IsActive(task[t].job)
  <2>1. Writes(task[t].job, status, task[t].js)
    BY <1>1, <1>2, <1>3, FinishActiveWrites DEF Terminalize
  <2>2. AfterFinish(t, task[t].js)
    BY <1>2, <1>3 DEF Terminalize
  <2> QED
    BY <1>1, <1>3, <2>1, <2>2, AfterFinishDoes DEF Leaves
<1>4. CASE ~IsActive(task[t].job)
  <2>1. UNCHANGED row
    BY <1>1, <1>2, <1>4, FinishActiveWrites DEF Terminalize
  <2>2. AfterFinish(t, NewState(None)) /\ ~NewState(None).staging
    BY <1>2, <1>4 DEF Terminalize, NewState
  <2> QED
    BY <1>1, <1>4, <2>1, <2>2, AfterFinishDoes DEF Leaves
<1> QED
  BY <1>3, <1>4

LEMMA ClearStagingDoes ==
    ASSUME SerialInv, NEW t \in Tasks, ClearStaging(t)
    PROVE  /\ task[t].pc = "clear" /\ UNCHANGED <<row, inst, content>> /\ Leaves(t)
           /\ \A k \in Jobs \ {task[t].job} : backup'[k] = backup[k]
<1>1. task[t].pc = "clear" /\ UNCHANGED <<row, inst, content>>
  BY DEF ClearStaging
<1>2. AfterFinish(t, NewState(None)) /\ ~NewState(None).staging
  BY DEF ClearStaging, NewState
<1>3. \A k \in Jobs \ {task[t].job} : backup'[k] = backup[k]
  BY <1>1, Acting DEF ClearStaging, TypeOK
<1> QED
  BY <1>1, <1>2, <1>3, Acting, AfterFinishDoes DEF Leaves

LEMMA ClaimCancelDoes ==
    ASSUME SerialInv, NEW t \in Tasks, ClaimCancel(t)
    PROVE  /\ task[t].role = "cancel" /\ task[t].pc = "claim"
           /\ UNCHANGED <<inst, content, backup>>
           /\ \/ Idles(t) /\ UNCHANGED row
              \/ /\ row[task[t].job].status = "queued"
                 /\ task[t].js.id = None \/ Exists(task[t].js.id)
                 /\ Writes(task[t].job, "running", task[t].js)
                 /\ Moves(t, "cancel", "cleanup", task[t].js)
BY Acting, GotoMoves, ReturnIdles, WithStatusWrites DEF ClaimCancel, At, FkOk

LEMMA FinishCancelDoes ==
    ASSUME SerialInv, NEW t \in Tasks, FinishCancel(t)
    PROVE  /\ task[t].role = "cancel" /\ task[t].pc = "finish" /\ Idles(t)
           /\ UNCHANGED <<inst, content, backup>>
           /\ \/ /\ UNCHANGED row
                 /\ task[t].js.id # None /\ ~Exists(task[t].js.id)
              \/ \E status \in {"failed", "canceled"} :
                    /\ status = "failed" <=> task[t].js.rberr
                    /\ Writes(task[t].job, status, task[t].js)
<1>1. /\ task[t].role = "cancel" /\ task[t].pc = "finish"
      /\ UNCHANGED <<inst, content, backup>>
  BY DEF FinishCancel, At
<1> USE Acting
<1>2. ~task[t].js.staging
  BY <1>1 DEF RowFits
<1>3. Idles(t)
  BY <1>1, <1>2, AfterFinishDoes, ReturnIdles DEF FinishCancel
<1> QED
  BY <1>1, <1>3, WithStatusWrites DEF FinishCancel, FkOk

\* A deletion, or the recovery, takes a job off its list.
LEMMA ListedDoes ==
    ASSUME SerialInv, NEW t \in Tasks, NEW j \in Jobs,
           CancelForDeletion(t, j) \/ RecoverDeleted(t, j)
    PROVE  /\ UNCHANGED <<inst, content>>
           /\ Others(t) /\ task'[t].role = task[t].role /\ task'[t].pc = task[t].pc
           /\ task'[t].job = task[t].job /\ task'[t].js = task[t].js
           /\ task[t].job = None
           /\ \A k \in Jobs \ {j} : backup'[k] = backup[k]
           /\ \/ IsActive(j) /\ Writes(j, "canceled", row[j].js)
              \/ ~IsActive(j) /\ UNCHANGED <<row, backup>>
<1>1. CASE CancelForDeletion(t, j)
  <2>1. /\ UNCHANGED <<inst, content, backup>> /\ task[t].job = None
        /\ row' = FinishActive(j, "canceled", row[j].js)
    BY <1>1 DEF CancelForDeletion, At, SerialInv, TasksPlaced, Placed
  <2>2. /\ Others(t) /\ task'[t].role = task[t].role /\ task'[t].pc = task[t].pc
        /\ task'[t].job = task[t].job /\ task'[t].js = task[t].js
    BY <1>1 DEF CancelForDeletion, SerialInv, TypeOK, Task, Others
  <2> QED
    BY <2>1, <2>2, FinishActiveWrites DEF SerialInv
<1>2. CASE RecoverDeleted(t, j)
  <2>1. /\ UNCHANGED <<inst, content>> /\ task[t].job = None
        /\ row' = FinishActive(j, "canceled", row[j].js)
        /\ task[t].role = "recover" /\ j \in task[t].left
    BY <1>2 DEF RecoverDeleted, At, SerialInv, TasksPlaced, Placed, Undoing
  <2>2. /\ Others(t) /\ task'[t].role = task[t].role /\ task'[t].pc = task[t].pc
        /\ task'[t].job = task[t].job /\ task'[t].js = task[t].js
    BY <1>2 DEF RecoverDeleted, SerialInv, TypeOK, Task, Others
  <2>3. \A k \in Jobs \ {j} : backup'[k] = backup[k]
    BY <1>2 DEF RecoverDeleted, SerialInv, TypeOK
  <2>4. IsActive(j)
    BY <2>1 DEF SerialInv, LeftToRecover
  <2> QED
    BY <2>1, <2>2, <2>3, <2>4, FinishActiveWrites DEF SerialInv
<1> QED
  BY <1>1, <1>2

LEMMA RemoveInstanceDoes ==
    ASSUME SerialInv, NEW t \in Tasks, RemoveInstance(t)
    PROVE  /\ Idles(t) /\ UNCHANGED backup /\ task[t].role = "delete"
           /\ task[t].job = None
           /\ \/ Exists(task[t].js.id) /\ Drops(task[t].js.id)
              \/ UNCHANGED <<row, inst, content>>
BY ReturnIdles, DropDrops
DEF RemoveInstance, At, SerialInv, TasksPlaced, Placed, Exists
=============================================================================
