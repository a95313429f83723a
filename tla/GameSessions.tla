---------------------------- MODULE GameSessions ----------------------------
(***************************************************************************)
(* The games the launcher starts: the bindings of instances to accounts    *)
(* (apps/app/src/bots.rs), one launch at a time from its checks to the     *)
(* process (api/instance/run.rs, launcher/mod.rs), the process manager     *)
(* with a watcher task per game and the rows that outlive the app          *)
(* (state/process.rs), and the play time that is stored and reported.      *)
(*                                                                         *)
(* A launch holds SESSIONS and LAUNCH from its first step to its last, so  *)
(* there is one.  A row holds the pid and the start time of a process; the *)
(* start time tells two processes with the same pid apart, so a row names  *)
(* the game.  Amounts of play time count the updates of a watcher.  A game *)
(* waits for the call "launch" of its launcher before it plays, and waits  *)
(* for ever when the launcher is closed first.                             *)
(*                                                                         *)
(* Bounds: the games in Games, MaxCrashes, and MaxPlayed updates of the    *)
(* play time of an instance.                                               *)
(***************************************************************************)
EXTENDS Naturals

CONSTANTS Instances, Accounts,
          Games,       \* the processes that are ever spawned
          Pids,        \* what the operating system numbers them with
          None,
          MaxCrashes, MaxPlayed

ASSUME NoneIsNobody == None \notin Accounts \cup Games \cup Pids \cup Instances
ASSUME BoundsAreNumbers == MaxCrashes \in Nat /\ MaxPlayed \in Nat

VARIABLES bound,       \* the saved WorkerSessions: the account of an instance
          game,        \* every process of a game
          rows,        \* table processes: the game its pid was given to
          managed,     \* ProcessManager.processes
          watch,       \* the sequential_process_manager of every game
          submit,      \* the task that reports the play time after a game
          launch,      \* the launch that holds SESSIONS and LAUNCH
          recent,      \* recent_time_played
          submitted,   \* submitted_time_played
          crashes,     \* times the app was closed
          dropped,     \* observation: games whose launch has failed
          played,      \* observation: play time that was ever stored
          reported     \* observation: play time the service has accepted

sessions == <<bound, launch>>
processes == <<game, rows, managed, watch, dropped>>
playtime == <<submit, recent, submitted, played, reported>>
vars == <<sessions, processes, playtime, crashes>>

\* bound is an observation: the binding the game was launched under.
Game == [pc : {"none", "waiting", "playing", "ended", "gone"},
         pid : Pids \cup {None}, instance : Instances \cup {None},
         account : Accounts \cup {None}, bound : Accounts \cup {None}]

Launch == [pc : {"idle", "prepare", "check", "recheck", "spawn", "row", "init",
                 "called", "clear", "kill"},
           instance : Instances \cup {None}, account : Accounts \cup {None},
           bound : Accounts \cup {None}, game : Games \cup {None}]

Submit == [pc : {"none", "read", "post", "mark"}, amount : Nat]

Unborn == [pc |-> "none", pid |-> None, instance |-> None, account |-> None,
           bound |-> None]
Idle == [pc |-> "idle", instance |-> None, account |-> None, bound |-> None,
         game |-> None]
NoSubmit == [pc |-> "none", amount |-> 0]

\* validate_sessions: no account is bound twice.
Valid(b) == \A i, j \in Instances : b[i] = b[j] /\ b[i] # None => i = j

Bindings == {b \in [Instances -> Accounts \cup {None}] : Valid(b)}

Init ==
    /\ bound \in Bindings
    /\ game = [g \in Games |-> Unborn]
    /\ rows = [p \in Pids |-> None]
    /\ managed = {}
    /\ watch = [g \in Games |-> "none"]
    /\ submit = [g \in Games |-> NoSubmit]
    /\ launch = Idle
    /\ recent = [i \in Instances |-> 0] /\ submitted = recent
    /\ played = recent /\ reported = recent
    /\ crashes = 0 /\ dropped = {}

-----------------------------------------------------------------------------
(* What the launcher knows of games.                                       *)

\* The operating system has a process for g; an ended one keeps its pid until
\* its parent has waited for it.
Alive(g) == game[g].pc \in {"waiting", "playing", "ended"}

\* get_by_instance_id
IsManaged(i) == \E g \in managed : game[g].instance = i

\* The row of g is that of instance i.
IsRowOf(g, i) == /\ \E p \in Pids : rows[p] = g
                 /\ game[g].instance = i

\* instance_has_running_process
IsRunning(i) == IsManaged(i) \/ \E g \in Games : IsRowOf(g, i) /\ Alive(g)

\* The rows it clears on its way.
WithoutDead(i) ==
    [p \in Pids |->
       IF ~IsManaged(i) /\ rows[p] # None /\ game[rows[p]].instance = i
                        /\ ~Alive(rows[p])
       THEN None ELSE rows[p]]

\* Mutant: a row is deleted by its pid alone.
ClearedByPid(g) == [rows EXCEPT ![game[g].pid] = None]

\* clear_persisted_process
Cleared(g) ==
    [p \in Pids |-> IF p = game[g].pid /\ rows[p] = g THEN None ELSE rows[p]]

\* Whoever reconciles the synced options of i looks whether it runs, and so do
\* the tasks that wait for the games of an earlier run of the app.
Inspect(i) ==
    /\ rows' = WithoutDead(i)
    /\ UNCHANGED <<sessions, game, managed, watch, dropped, playtime, crashes>>

-----------------------------------------------------------------------------
(* Bindings (bots.rs).                                                     *)

\* No game the manager knows of runs under a binding that b changes.
MayBind(b) == \A i \in Instances : b[i] # bound[i] => ~IsManaged(i)

\* Mutant: the bindings are saved without the lock that a launch holds.
SaveUnlocked(b) ==
    /\ MayBind(b)
    /\ bound' = b
    /\ UNCHANGED <<launch, processes, playtime, crashes>>

\* bot_worker_sessions_save
Save(b) ==
    /\ launch.pc = "idle"
    /\ MayBind(b)
    /\ bound' = b
    /\ UNCHANGED <<launch, processes, playtime, crashes>>

-----------------------------------------------------------------------------
(* A launch (launch_instance, run_prepared, launch_minecraft).             *)

At(pc) == launch.pc = pc

\* launch_instance up to the early check of run_prepared: a is the account of
\* the binding, or the one asked for.
Begin(i, a) ==
    /\ At("idle")
    /\ bound[i] \in {None, a}
    /\ ~IsManaged(i)
    /\ launch' = [pc |-> "prepare", instance |-> i, account |-> a,
                  bound |-> bound[i], game |-> None]
    /\ UNCHANGED <<bound, processes, playtime, crashes>>

\* prepare_worker and everything run_credentials does before the launch.
Prepared ==
    /\ At("prepare")
    /\ launch' = [launch EXCEPT !.pc = "check"]
    /\ UNCHANGED <<bound, processes, playtime, crashes>>

\* Credentials, hooks, downloads and the start of the process may fail.
GiveUp ==
    /\ launch.pc \in {"prepare", "check", "recheck", "spawn"}
    /\ launch' = Idle
    /\ UNCHANGED <<bound, processes, playtime, crashes>>

\* The check before the synced packs are brought up to date, and the one after
\* it under the lock of the instance's content.
CheckThen(now, next) ==
    /\ At(now)
    /\ rows' = WithoutDead(launch.instance)
    /\ launch' = IF IsRunning(launch.instance) THEN Idle
                 ELSE [launch EXCEPT !.pc = next]
    /\ UNCHANGED <<bound, game, managed, watch, dropped, playtime, crashes>>

Check == CheckThen("check", "recheck")
Recheck == CheckThen("recheck", "spawn")

\* mc_command.spawn: the pid is any that no process has.
Spawn(g, p) ==
    /\ At("spawn")
    /\ game[g].pc = "none"
    /\ \A h \in Games : game[h].pid = p => ~Alive(h)
    /\ game' = [game EXCEPT ![g] =
                  [pc |-> "waiting", pid |-> p, instance |-> launch.instance,
                   account |-> launch.account, bound |-> launch.bound]]
    /\ launch' = [launch EXCEPT !.pc = "row", !.game = g]
    /\ UNCHANGED <<bound, rows, managed, watch, dropped, playtime, crashes>>

\* The row is inserted, or replaces the one of an older process with this pid.
Persist ==
    /\ At("row")
    /\ rows' = [rows EXCEPT ![game[launch.game].pid] = launch.game]
    /\ launch' = [launch EXCEPT !.pc = "init"]
    /\ UNCHANGED <<bound, game, managed, watch, dropped, playtime, crashes>>

\* Child::kill waits for the process as well.
Killed(g) == game' = [game EXCEPT ![g].pc = "gone"]

PersistFails ==
    /\ At("row")
    /\ Killed(launch.game)
    /\ dropped' = dropped \cup {launch.game}
    /\ launch' = Idle
    /\ UNCHANGED <<bound, rows, managed, watch, playtime, crashes>>

\* post_process_init: the call "launch" reaches the game.
Call ==
    /\ At("init")
    /\ game[launch.game].pc = "waiting"
    /\ game' = [game EXCEPT ![launch.game].pc = "playing"]
    /\ launch' = [launch EXCEPT !.pc = "called"]
    /\ UNCHANGED <<bound, rows, managed, watch, dropped, playtime, crashes>>

\* post_process_init fails, before the call or with its answer.
InitFails ==
    /\ At("init") \/ At("called")
    /\ launch' = [launch EXCEPT !.pc = "clear"]
    /\ dropped' = dropped \cup {launch.game}
    /\ UNCHANGED <<bound, game, rows, managed, watch, playtime, crashes>>

ClearFailed ==
    /\ At("clear")
    /\ rows' = Cleared(launch.game)
    /\ launch' = [launch EXCEPT !.pc = "kill"]
    /\ UNCHANGED <<bound, game, managed, watch, dropped, playtime, crashes>>

KillFailed ==
    /\ At("kill")
    /\ Killed(launch.game)
    /\ launch' = Idle
    /\ UNCHANGED <<bound, rows, managed, watch, dropped, playtime, crashes>>

\* The game enters the manager and gets its watcher.
Insert ==
    /\ At("called")
    /\ managed' = managed \cup {launch.game}
    /\ watch' = [watch EXCEPT ![launch.game] = "watch"]
    /\ launch' = Idle
    /\ UNCHANGED <<bound, game, rows, dropped, playtime, crashes>>

-----------------------------------------------------------------------------
(* A game and its watcher (sequential_process_manager).                    *)

\* The process ends by itself.  Its pid is free at once when its launcher is
\* gone.
Exit(g) ==
    /\ game[g].pc \in {"waiting", "playing"}
    /\ game' = [game EXCEPT ![g].pc =
                  IF g \in managed \cup {launch.game} THEN "ended" ELSE "gone"]
    /\ UNCHANGED <<sessions, rows, managed, watch, dropped, playtime, crashes>>

\* ProcessManager::kill
Kill(g) ==
    /\ g \in managed
    /\ Killed(g)
    /\ UNCHANGED <<sessions, rows, managed, watch, dropped, playtime, crashes>>

\* add_instance_recent_playtime
AddPlayed(i, n) ==
    /\ played[i] + n <= MaxPlayed
    /\ recent' = [recent EXCEPT ![i] = @ + n]
    /\ played' = [played EXCEPT ![i] = @ + n]

Minute(g) ==
    /\ watch[g] = "watch"
    /\ AddPlayed(game[g].instance, 1)
    /\ UNCHANGED <<sessions, processes, submit, submitted, reported, crashes>>

\* try_wait answers that the process has ended, which frees the pid.
Notice(g) ==
    /\ watch[g] = "watch"
    /\ game[g].pc \in {"ended", "gone"}
    /\ Killed(g)
    /\ managed' = managed \ {g}
    /\ watch' = [watch EXCEPT ![g] = "clear"]
    /\ UNCHANGED <<sessions, rows, dropped, playtime, crashes>>

Forget(g) ==
    /\ watch[g] = "clear"
    /\ rows' = Cleared(g)
    /\ watch' = [watch EXCEPT ![g] = "final"]
    /\ UNCHANGED <<sessions, game, managed, dropped, playtime, crashes>>

\* The last update, unless no second has passed, and the task that reports.
Finish(g) ==
    /\ watch[g] = "final"
    /\ \E n \in {0, 1} : AddPlayed(game[g].instance, n)
    /\ watch' = [watch EXCEPT ![g] = "none"]
    /\ submit' = [submit EXCEPT ![g].pc = "read"]
    /\ UNCHANGED <<sessions, game, rows, managed, dropped, submitted, reported,
                   crashes>>

-----------------------------------------------------------------------------
(* Reporting play time (try_update_playtime_by_instance_id).               *)

\* The play time is read; without any there is nothing to do.
ReadPlayed(g) ==
    /\ submit[g].pc = "read"
    /\ LET amount == recent[game[g].instance]
       IN submit' = [submit EXCEPT ![g] =
                       IF amount = 0 THEN NoSubmit
                       ELSE [pc |-> "post", amount |-> amount]]
    /\ UNCHANGED <<sessions, processes, recent, submitted, played, reported,
                   crashes>>

\* The service accepts the report; its answer may be lost.
Report(g) ==
    /\ submit[g].pc = "post"
    /\ reported' = [reported EXCEPT ![game[g].instance] = @ + submit[g].amount]
    /\ \/ submit' = [submit EXCEPT ![g].pc = "mark"]
       \/ submit' = [submit EXCEPT ![g] = NoSubmit]
    /\ UNCHANGED <<sessions, processes, recent, submitted, played, crashes>>

ReportFails(g) ==
    /\ submit[g].pc = "post"
    /\ submit' = [submit EXCEPT ![g] = NoSubmit]
    /\ UNCHANGED <<sessions, processes, recent, submitted, played, reported,
                   crashes>>

\* mark_instance_playtime_submitted
Mark(g) ==
    /\ submit[g].pc = "mark"
    /\ LET i == game[g].instance
       IN /\ submitted' = [submitted EXCEPT ![i] = @ + submit[g].amount]
          /\ recent' = [recent EXCEPT ![i] = 0]
    /\ submit' = [submit EXCEPT ![g] = NoSubmit]
    /\ UNCHANGED <<sessions, processes, played, reported, crashes>>

-----------------------------------------------------------------------------
\* The app is closed and started again.  Games go on without it; those that
\* nobody has waited for are reaped by the operating system.
Crash ==
    /\ crashes < MaxCrashes
    /\ game' = [g \in Games |-> IF game[g].pc = "ended"
                                THEN [game[g] EXCEPT !.pc = "gone"]
                                ELSE game[g]]
    /\ managed' = {}
    /\ watch' = [g \in Games |-> "none"]
    /\ submit' = [g \in Games |-> NoSubmit]
    /\ launch' = Idle
    /\ crashes' = crashes + 1
    /\ UNCHANGED <<bound, rows, recent, submitted, dropped, played, reported>>

LaunchStep ==
    \/ \E i \in Instances, a \in Accounts : Begin(i, a)
    \/ Prepared \/ GiveUp \/ Check \/ Recheck
    \/ \E g \in Games, p \in Pids : Spawn(g, p)
    \/ Persist \/ PersistFails
    \/ Call \/ InitFails \/ ClearFailed \/ KillFailed \/ Insert

GameStep(g) ==
    \/ Exit(g) \/ Kill(g)
    \/ Minute(g) \/ Notice(g) \/ Forget(g) \/ Finish(g)
    \/ ReadPlayed(g) \/ Report(g) \/ ReportFails(g) \/ Mark(g)

Next ==
    \/ \E b \in Bindings : Save(b)
    \/ \E i \in Instances : Inspect(i)
    \/ LaunchStep
    \/ \E g \in Games : GameStep(g)
    \/ Crash

Spec == Init /\ [][Next]_vars
=============================================================================
