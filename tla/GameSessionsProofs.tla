------------------------- MODULE GameSessionsProofs -------------------------
(***************************************************************************)
(* Proofs about GameSessions, for any instances, accounts, games and pids. *)
(***************************************************************************)
EXTENDS GameSessionsProperties, TLAPS

\* The launch has spawned its game.
Launched == launch.pc \in {"row", "init", "called", "clear", "kill"}

\* The launch has found no game of its instance, and has not failed since.
Exclusive == launch.pc \in {"spawn", "row", "init", "called"}

\* The game of a launch is a process the manager does not have yet, with what
\* the launch was asked for.
LaunchKnown ==
    /\ IF Launched
       THEN /\ launch.game \in Games \ managed
            /\ Alive(launch.game)
            /\ game[launch.game].instance = launch.instance
            /\ game[launch.game].account = launch.account
            /\ game[launch.game].bound = launch.bound
       ELSE launch.game = None
    /\ launch.pc \in {"clear", "kill"} => launch.game \in dropped

\* A watcher runs for a managed game, or after one that is gone.
WatchKnown ==
    \A g \in Games : /\ watch[g] = "watch" => g \in managed
                     /\ watch[g] \in {"clear", "final"} => game[g].pc = "gone"

\* Two processes have two pids.
PidsApart ==
    \A g, h \in Games :
       Alive(g) /\ Alive(h) /\ game[g].pid = game[h].pid => g = h

\* A game that plays has its row, and a launch writes it before the call.
OnRecord ==
    /\ \A g \in Games : Plays(g) => rows[game[g].pid] = g
    /\ launch.pc \in {"init", "called"} =>
          rows[game[launch.game].pid] = launch.game

\* What the second check of a launch has found stays true until it ends.
LaunchAlone ==
    Exclusive => \A g \in Games :
       Plays(g) /\ game[g].instance = launch.instance => g = launch.game

\* The strengthening of OneGame that every step preserves.
Recorded == /\ LaunchKnown /\ WatchKnown /\ PidsApart
            /\ OnRecord /\ LaunchAlone /\ OneGame

\* The strengthening of BindingKept: a launch has the binding as it is saved.
Bound == /\ BindingKept
         /\ launch.pc # "idle" =>
              /\ launch.bound = bound[launch.instance]
              /\ launch.bound # None => launch.account = launch.bound
-----------------------------------------------------------------------------
\* The initial state has the shape TypeOK gives.
LEMMA InitTyped == Init => TypeOK
<1>. SUFFICES ASSUME Init PROVE TypeOK
  OBVIOUS
<1>1. ~\E g \in Games : Known(g)
  BY NoneIsNobody DEF Init, Known, Idle, NoSubmit
<1>2. game \in [Games -> Game] /\ \A g \in Games : game[g].pc = "none"
  BY DEF Init, Unborn, Game
<1>3. launch \in Launch /\ launch.pc = "idle"
  BY DEF Init, Idle, Launch
<1>4. submit \in [Games -> Submit]
  BY DEF Init, NoSubmit, Submit
<1>. QED
  BY <1>1, <1>2, <1>3, <1>4 DEF Init, TypeOK

\* A step moves the process of g on to pc, and leaves everything else of it.
Moved(g, pc) ==
    /\ game' \in [Games -> Game]
    /\ game'[g].pc = pc
    /\ \A h \in Games : h # g => game'[h] = game[h]
    /\ \A h \in Games : /\ game'[h].pc = "none" <=> game[h].pc = "none"
                        /\ game'[h].pid = game[h].pid
                        /\ game'[h].instance = game[h].instance
                        /\ game'[h].account = game[h].account
                        /\ game'[h].bound = game[h].bound

\* Which is what an EXCEPT of its pc does.
LEMMA ExceptMoves ==
  ASSUME TypeOK, NEW g \in Games, game[g].pc # "none",
         NEW pc \in {"playing", "ended", "gone"},
         game' = [game EXCEPT ![g].pc = pc]
  PROVE  Moved(g, pc)
BY DEF TypeOK, Game, Moved

\* A step of a launch keeps every variable in its shape.
LEMMA LaunchStepTyped ==
  ASSUME TypeOK, LaunchStep
  PROVE  TypeOK'
<1>. USE NoneIsNobody DEF At
<1>1. ASSUME NEW i \in Instances, NEW a \in Accounts, Begin(i, a)
      PROVE  TypeOK'
  BY <1>1 DEF Begin, TypeOK, Known, Launch, Bindings, processes, playtime
<1>2. CASE Prepared \/ GiveUp
  BY <1>2 DEF Prepared, GiveUp, TypeOK, Known, Launch, Idle, processes, playtime
<1>3. CASE Check \/ Recheck
  BY <1>3 DEF Check, Recheck, CheckThen, WithoutDead, TypeOK, Known, Launch,
              Idle, processes, playtime
<1>4. ASSUME NEW g \in Games, NEW p \in Pids, Spawn(g, p)
      PROVE  TypeOK'
  BY <1>4 DEF Spawn, TypeOK, Known, Launch, Game, processes, playtime
<1>5. CASE Persist
  BY <1>5 DEF Persist, TypeOK, Known, Launch, processes, playtime
<1>6. CASE PersistFails
  <2>1. launch.game \in Games /\ game[launch.game].pc # "none"
    BY <1>6 DEF PersistFails, TypeOK, Known, Launch
  <2>2. Moved(launch.game, "gone")
    BY <1>6, <2>1, ExceptMoves DEF PersistFails, Killed
  <2>. QED
    BY <1>6, <2>1, <2>2 DEF PersistFails, TypeOK, Known, Launch, Idle, Moved,
                            playtime
<1>7. CASE Call
  <2>1. launch.game \in Games /\ game[launch.game].pc # "none"
    BY <1>7 DEF Call, TypeOK, Known, Launch
  <2>2. Moved(launch.game, "playing")
    BY <1>7, <2>1, ExceptMoves DEF Call
  <2>. QED
    BY <1>7, <2>1, <2>2 DEF Call, TypeOK, Known, Launch, Moved, playtime
<1>8. CASE InitFails
  BY <1>8 DEF InitFails, TypeOK, Known, Launch, processes, playtime
<1>9. CASE ClearFailed
  BY <1>9 DEF ClearFailed, Cleared, TypeOK, Known, Launch, processes, playtime
<1>10. CASE KillFailed
  <2>1. launch.game \in Games /\ game[launch.game].pc # "none"
    BY <1>10 DEF KillFailed, TypeOK, Known, Launch
  <2>2. Moved(launch.game, "gone")
    BY <1>10, <2>1, ExceptMoves DEF KillFailed, Killed
  <2>. QED
    BY <1>10, <2>1, <2>2 DEF KillFailed, TypeOK, Known, Launch, Idle, Moved,
                             playtime
<1>11. CASE Insert
  BY <1>11 DEF Insert, TypeOK, Known, Launch, Idle, processes, playtime
<1>. QED
  BY <1>1, <1>2, <1>3, <1>4, <1>5, <1>6, <1>7, <1>8, <1>9, <1>10, <1>11
     DEF LaunchStep

\* So does a step of a game, its watcher or its report.
LEMMA GameStepTyped ==
  ASSUME TypeOK, NEW g \in Games, GameStep(g)
  PROVE  TypeOK'
<1>. USE NoneIsNobody
<1>1. CASE Exit(g)
  <2>1. Moved(g, game'[g].pc)
    <3>1. PICK pc \in {"ended", "gone"} : game' = [game EXCEPT ![g].pc = pc]
      BY <1>1 DEF Exit
    <3>2. Moved(g, pc) /\ game[g].pc # "none"
      BY <1>1, <3>1, ExceptMoves DEF Exit
    <3>. QED
      BY <3>2 DEF Moved
  <2>. QED
    BY <1>1, <2>1 DEF Exit, TypeOK, Known, Moved, sessions, playtime
<1>2. CASE Kill(g)
  <2>1. game[g].pc # "none"
    BY <1>2 DEF Kill, TypeOK, Known
  <2>2. Moved(g, "gone")
    BY <1>2, <2>1, ExceptMoves DEF Kill, Killed
  <2>. QED
    BY <1>2, <2>2 DEF Kill, TypeOK, Known, Moved, sessions, playtime
<1>3. CASE Minute(g)
  <2>1. game[g].instance \in Instances
    BY <1>3 DEF Minute, TypeOK, Known, Game
  <2>. QED
    BY <1>3, <2>1 DEF Minute, AddPlayed, TypeOK, Known, sessions, processes
<1>4. CASE Notice(g)
  <2>1. Moved(g, "gone")
    BY <1>4, ExceptMoves DEF Notice, Killed
  <2>2. \A h \in Games : Known(h)' => Known(h)
    BY <1>4 DEF Notice, TypeOK, Known, sessions, playtime
  <2>3. \A h \in Games : Known(h)' => game'[h].pc # "none"
    BY <2>1, <2>2 DEF TypeOK, Moved
  <2>4. /\ watch' \in [Games -> {"none", "watch", "clear", "final"}]
        /\ managed' \subseteq Games
    BY <1>4 DEF Notice, TypeOK
  <2>. QED
    BY <1>4, <2>1, <2>3, <2>4 DEF Notice, TypeOK, Moved, sessions, playtime
<1>5. CASE Forget(g)
  BY <1>5 DEF Forget, Cleared, TypeOK, Known, sessions, playtime
<1>6. CASE Finish(g)
  <2>1. game[g].instance \in Instances /\ game[g].pc # "none"
    BY <1>6 DEF Finish, TypeOK, Known, Game
  <2>2. recent' \in [Instances -> Nat] /\ played' \in [Instances -> Nat]
    BY <1>6, <2>1 DEF Finish, AddPlayed, TypeOK
  <2>3. submit' \in [Games -> Submit]
        /\ \A h \in Games : h # g => submit'[h] = submit[h]
    BY <1>6 DEF Finish, TypeOK, Submit
  <2>. QED
    BY <1>6, <2>1, <2>2, <2>3 DEF Finish, TypeOK, Known, sessions
<1>7. CASE ReadPlayed(g)
  <2>1. game[g].instance \in Instances /\ game[g].pc # "none"
    BY <1>7 DEF ReadPlayed, TypeOK, Known, Game
  <2>2. submit' \in [Games -> Submit]
        /\ \A h \in Games : h # g => submit'[h] = submit[h]
    BY <1>7, <2>1 DEF ReadPlayed, TypeOK, Submit, NoSubmit
  <2>. QED
    BY <1>7, <2>1, <2>2 DEF ReadPlayed, TypeOK, Known, sessions, processes
<1>8. CASE Report(g) \/ ReportFails(g)
  <2>1. game[g].instance \in Instances /\ game[g].pc # "none"
    BY <1>8 DEF Report, ReportFails, TypeOK, Known, Game
  <2>2. submit' \in [Games -> Submit]
        /\ \A h \in Games : h # g => submit'[h] = submit[h]
    BY <1>8 DEF Report, ReportFails, TypeOK, Submit, NoSubmit
  <2>3. reported' \in [Instances -> Nat]
    BY <1>8, <2>1 DEF Report, ReportFails, TypeOK, Submit
  <2>. QED
    BY <1>8, <2>1, <2>2, <2>3
       DEF Report, ReportFails, TypeOK, Known, sessions, processes
<1>9. CASE Mark(g)
  <2>1. game[g].instance \in Instances /\ game[g].pc # "none"
    BY <1>9 DEF Mark, TypeOK, Known, Game
  <2>2. submit' \in [Games -> Submit]
        /\ \A h \in Games : h # g => submit'[h] = submit[h]
    BY <1>9 DEF Mark, TypeOK, Submit, NoSubmit
  <2>3. recent' \in [Instances -> Nat] /\ submitted' \in [Instances -> Nat]
    BY <1>9, <2>1 DEF Mark, TypeOK, Submit
  <2>. QED
    BY <1>9, <2>1, <2>2, <2>3 DEF Mark, TypeOK, Known, sessions, processes
<1>. QED
  BY <1>1, <1>2, <1>3, <1>4, <1>5, <1>6, <1>7, <1>8, <1>9 DEF GameStep

\* And so does every step of the system.
LEMMA StepTyped == TypeOK /\ [Next]_vars => TypeOK'
<1>. SUFFICES ASSUME TypeOK, [Next]_vars PROVE TypeOK'
  OBVIOUS
<1>1. ASSUME NEW b \in Bindings, Save(b) PROVE TypeOK'
  BY <1>1 DEF Save, TypeOK, Known, processes, playtime
<1>2. CASE Crash
  <2>1. game' \in [Games -> Game]
        /\ \A g \in Games : /\ game[g].pc # "none" <=> game'[g].pc # "none"
                            /\ game'[g].pid = game[g].pid
                            /\ game'[g].instance = game[g].instance
    BY <1>2 DEF Crash, TypeOK, Game
  <2>2. /\ launch' \in Launch /\ launch'.pc = "idle"
        /\ submit' \in [Games -> Submit]
    BY <1>2 DEF Crash, Idle, Launch, NoSubmit, Submit
  <2>3. \A g \in Games : Known(g)' => Known(g)
    BY <1>2, NoneIsNobody DEF Crash, Known, Idle, NoSubmit
  <2>. QED
    BY <1>2, <2>1, <2>2, <2>3, BoundsAreNumbers DEF Crash, TypeOK
<1>3. CASE UNCHANGED vars
  BY <1>3 DEF TypeOK, Known, vars, sessions, processes, playtime
<1>4. ASSUME NEW i \in Instances, Inspect(i) PROVE TypeOK'
  BY <1>4, NoneIsNobody DEF Inspect, WithoutDead, TypeOK, Known, sessions,
                            playtime
<1>. QED
  BY <1>1, <1>2, <1>3, <1>4, LaunchStepTyped, GameStepTyped DEF Next

\* Every variable keeps its shape, and whatever the launcher keeps of a game is
\* of one that was spawned.
THEOREM TypeCorrect == Spec => []TypeOK
BY InitTyped, StepTyped, PTL DEF Spec
-----------------------------------------------------------------------------
\* At first there are no games.
LEMMA InitRecorded == Init => Recorded /\ Bound
<1>. SUFFICES ASSUME Init PROVE Recorded /\ Bound
  OBVIOUS
<1>1. \A g \in Games : game[g].pc = "none" /\ watch[g] = "none"
  BY DEF Init, Unborn
<1>2. launch.pc = "idle" /\ launch.game = None /\ managed = {}
  BY DEF Init, Idle
<1>. QED
  BY <1>1, <1>2
     DEF Recorded, LaunchKnown, WatchKnown, PidsApart, OnRecord, LaunchAlone,
         OneGame, Launched, Exclusive, Plays, Alive, Bound, BindingKept

\* A launch that goes on, or ends, without touching a game.
LEMMA QuietRecorded ==
  ASSUME TypeOK, Recorded, UNCHANGED processes,
         \/ launch' = Idle
         \/ launch'.pc \in {"prepare", "check"} /\ launch'.game = None
  PROVE  Recorded'
BY DEF Recorded, LaunchKnown, WatchKnown, PidsApart, OnRecord, LaunchAlone,
       OneGame, Launched, Exclusive, Plays, Alive, Idle, processes

\* A check only clears rows of processes that are gone, and finds every game of
\* its instance that plays.
LEMMA CheckRecorded ==
  ASSUME TypeOK, Recorded, Check \/ Recheck
  PROVE  Recorded'
<1>. USE NoneIsNobody
<1>. DEFINE i == launch.instance
<1>1. /\ rows' = WithoutDead(i)
      /\ UNCHANGED <<game, managed, watch, dropped>>
      /\ launch.game = None
      /\ \/ launch' = Idle
         \/ launch' = [launch EXCEPT !.pc = "recheck"]
         \/ launch' = [launch EXCEPT !.pc = "spawn"] /\ ~IsRunning(i)
  BY DEF Check, Recheck, CheckThen, At, Recorded, LaunchKnown, Launched
<1>2. \A g \in Games : Plays(g) => /\ game[g].pid \in Pids
                                  /\ rows[game[g].pid] = g /\ Alive(g)
  BY DEF Recorded, OnRecord, Plays, TypeOK, Game, Alive
<1>3. \A g \in Games : Plays(g) => rows'[game[g].pid] = g
  BY <1>1, <1>2 DEF WithoutDead
<1>4. ~IsRunning(i) => \A g \in Games : Plays(g) => game[g].instance # i
  BY <1>2 DEF IsRunning, IsRowOf
<1>5. /\ launch'.pc \in {"idle", "recheck", "spawn"} /\ launch'.game = None
      /\ launch'.pc = "spawn" => launch'.instance = i /\ ~IsRunning(i)
  BY <1>1 DEF Idle, TypeOK, Launch
<1>. QED
  BY <1>1, <1>3, <1>4, <1>5
     DEF Recorded, LaunchKnown, WatchKnown, PidsApart, OnRecord, LaunchAlone,
         OneGame, Launched, Exclusive, Plays, Alive

\* Nobody who looks at an instance clears the row of a process that lives.
LEMMA InspectRecorded ==
  ASSUME TypeOK, Recorded, NEW i \in Instances, Inspect(i)
  PROVE  Recorded'
<1>1. /\ rows' = WithoutDead(i)
      /\ UNCHANGED <<launch, game, managed, watch, dropped>>
  BY DEF Inspect, sessions
<1>2. ASSUME NEW g \in Games, Alive(g), rows[game[g].pid] = g
      PROVE  rows'[game[g].pid] = g
  BY <1>1, <1>2 DEF WithoutDead, TypeOK, Game, Alive
<1>3. OnRecord'
  BY <1>1, <1>2 DEF Recorded, OnRecord, LaunchKnown, Launched, Plays, Alive
<1>. QED
  BY <1>1, <1>3
     DEF Recorded, LaunchKnown, WatchKnown, PidsApart, LaunchAlone,
         OneGame, Launched, Exclusive, Plays, Alive

\* A new process does not play, and its pid is its own.
LEMMA SpawnRecorded ==
  ASSUME TypeOK, Recorded, NEW g \in Games, NEW p \in Pids, Spawn(g, p)
  PROVE  Recorded'
<1>1. /\ game'[g] = [pc |-> "waiting", pid |-> p, instance |-> launch.instance,
                     account |-> launch.account, bound |-> launch.bound]
      /\ \A h \in Games : h # g => game'[h] = game[h]
      /\ launch.pc = "spawn" /\ game[g].pc = "none"
      /\ \A h \in Games : game[h].pid = p => ~Alive(h)
      /\ UNCHANGED <<rows, managed, watch, dropped>>
  BY DEF Spawn, At, TypeOK
<1>2. /\ launch'.pc = "row" /\ launch'.game = g
      /\ launch'.instance = launch.instance
      /\ launch'.account = launch.account /\ launch'.bound = launch.bound
  BY DEF Spawn, TypeOK, Launch
<1>3. g \notin managed /\ watch[g] = "none"
  BY <1>1 DEF TypeOK, Known
<1>4. launch.game = None
  BY <1>1 DEF Recorded, LaunchKnown, Launched
<1>. QED
  BY <1>1, <1>2, <1>3, <1>4, NoneIsNobody
     DEF Recorded, LaunchKnown, WatchKnown, PidsApart, OnRecord, LaunchAlone,
         OneGame, Launched, Exclusive, Plays, Alive

\* The row of the new process takes none from a game that plays.
LEMMA PersistRecorded ==
  ASSUME TypeOK, Recorded, Persist
  PROVE  Recorded'
<1>. DEFINE g == launch.game
<1>1. g \in Games /\ Alive(g) /\ game[g].pid \in Pids
  BY DEF Persist, At, Recorded, LaunchKnown, Launched, Alive, TypeOK, Game
<1>2. /\ launch'.pc = "init" /\ launch'.game = g /\ launch.pc = "row"
      /\ launch'.instance = launch.instance
      /\ launch'.account = launch.account /\ launch'.bound = launch.bound
      /\ UNCHANGED <<game, managed, watch, dropped>>
  BY DEF Persist, At, TypeOK, Launch
<1>3. rows'[game[g].pid] = g
      /\ \A q \in Pids : q # game[g].pid => rows'[q] = rows[q]
  BY <1>1 DEF Persist, TypeOK
<1>4. \A h \in Games : Plays(h) => rows'[game[h].pid] = h
  BY <1>1, <1>3 DEF Recorded, OnRecord, PidsApart, Plays, Alive, TypeOK, Game
<1>. QED
  BY <1>1, <1>2, <1>3, <1>4
     DEF Recorded, LaunchKnown, WatchKnown, PidsApart, OnRecord, LaunchAlone,
         OneGame, Launched, Exclusive, Plays, Alive

\* The game of a launch starts to play when no other plays its instance.
LEMMA CallRecorded ==
  ASSUME TypeOK, Recorded, Call
  PROVE  Recorded'
<1>. DEFINE g == launch.game
<1>1. g \in Games /\ game[g].pc = "waiting"
  BY DEF Call, At, Recorded, LaunchKnown, Launched
<1>2. Moved(g, "playing")
  BY <1>1, ExceptMoves DEF Call
<1>3. /\ launch'.pc = "called" /\ launch'.game = g /\ launch.pc = "init"
      /\ launch'.instance = launch.instance
      /\ launch'.account = launch.account /\ launch'.bound = launch.bound
      /\ UNCHANGED <<rows, managed, watch, dropped>>
  BY DEF Call, At, TypeOK, Launch
<1>4. LaunchKnown' /\ WatchKnown' /\ PidsApart'
  BY <1>1, <1>2, <1>3
     DEF Moved, Recorded, LaunchKnown, WatchKnown, PidsApart, Launched, Alive
<1>5. OnRecord'
  BY <1>1, <1>2, <1>3 DEF Moved, Recorded, OnRecord, Plays
<1>6. \A h \in Games : Plays(h)' /\ game'[h].instance = launch.instance => h = g
  BY <1>1, <1>2, <1>3 DEF Moved, Recorded, LaunchAlone, Exclusive, Plays
<1>7. game'[g].instance = launch.instance
  BY <1>2, <1>3 DEF Moved, Recorded, LaunchKnown, Launched
<1>8. OneGame'
  BY <1>2, <1>3, <1>6, <1>7 DEF Moved, Recorded, OneGame, Plays
<1>. QED
  BY <1>3, <1>4, <1>5, <1>6, <1>8 DEF Recorded, LaunchAlone, Plays

\* A launch that fails once its game exists drops the game.
LEMMA FailRecorded ==
  ASSUME TypeOK, Recorded, PersistFails \/ InitFails \/ ClearFailed \/ KillFailed
  PROVE  Recorded'
<1>. USE NoneIsNobody
<1>. DEFINE g == launch.game
<1>1. g \in Games \ managed /\ Alive(g)
  BY DEF PersistFails, InitFails, ClearFailed, KillFailed, At, Recorded,
         LaunchKnown, Launched
<1>2. CASE PersistFails \/ KillFailed
  <2>1. Moved(g, "gone")
    BY <1>1, <1>2, ExceptMoves DEF PersistFails, KillFailed, Killed, Alive
  <2>2. /\ launch'.pc = "idle" /\ launch'.game = None
        /\ UNCHANGED <<rows, managed, watch>>
        /\ dropped \subseteq dropped'
    BY <1>2 DEF PersistFails, KillFailed, Idle
  <2>. QED
    BY <1>1, <2>1, <2>2
       DEF Moved, Recorded, LaunchKnown, WatchKnown, PidsApart, OnRecord,
           LaunchAlone, OneGame, Launched, Exclusive, Plays, Alive
<1>3. CASE InitFails
  <2>1. /\ launch'.pc = "clear" /\ launch'.game = g
        /\ launch'.instance = launch.instance
        /\ launch'.account = launch.account /\ launch'.bound = launch.bound
        /\ dropped' = dropped \cup {g}
        /\ UNCHANGED <<game, rows, managed, watch>>
        /\ launch.pc \in {"init", "called"}
    BY <1>3 DEF InitFails, At, TypeOK, Launch
  <2>. QED
    BY <1>1, <2>1
       DEF Recorded, LaunchKnown, WatchKnown, PidsApart, OnRecord,
           LaunchAlone, OneGame, Launched, Exclusive, Plays, Alive
<1>4. CASE ClearFailed
  <2>1. /\ launch'.pc = "kill" /\ launch'.game = g
        /\ launch'.instance = launch.instance
        /\ launch'.account = launch.account /\ launch'.bound = launch.bound
        /\ UNCHANGED <<game, managed, watch, dropped>>
        /\ launch.pc = "clear"
    BY <1>4 DEF ClearFailed, At, TypeOK, Launch
  <2>2. g \in dropped
    BY <2>1 DEF Recorded, LaunchKnown
  <2>3. \A h \in Games : Plays(h) => rows'[game[h].pid] = h
    BY <1>4, <2>2 DEF ClearFailed, Cleared, Recorded, OnRecord, Plays, TypeOK,
                      Game
  <2>. QED
    BY <1>1, <2>1, <2>2, <2>3
       DEF Recorded, LaunchKnown, WatchKnown, PidsApart, OnRecord,
           LaunchAlone, OneGame, Launched, Exclusive, Plays, Alive
<1>. QED
  BY <1>2, <1>3, <1>4

\* The launch hands its game to the manager.
LEMMA InsertRecorded ==
  ASSUME TypeOK, Recorded, Insert
  PROVE  Recorded'
<1>1. launch.game \in Games
  BY DEF Insert, At, Recorded, LaunchKnown, Launched
<1>2. /\ launch'.pc = "idle" /\ launch'.game = None
      /\ managed' = managed \cup {launch.game}
      /\ watch'[launch.game] = "watch"
      /\ \A h \in Games : h # launch.game => watch'[h] = watch[h]
      /\ UNCHANGED <<game, rows, dropped>>
  BY <1>1 DEF Insert, Idle, TypeOK
<1>. QED
  BY <1>1, <1>2
     DEF Recorded, LaunchKnown, WatchKnown, PidsApart, OnRecord, LaunchAlone,
         OneGame, Launched, Exclusive, Plays, Alive
\* A process that ends keeps its pid for as long as a row or a launch needs it.
LEMMA EndRecorded ==
  ASSUME TypeOK, Recorded, NEW g \in Games, Exit(g) \/ Kill(g) \/ Notice(g)
  PROVE  Recorded'
<1>1. game[g].pc # "none"
  BY DEF Exit, Kill, Notice, TypeOK, Known
<1>. DEFINE End(pc) ==
       /\ game' = [game EXCEPT ![g].pc = pc]
       /\ g = launch.game => pc = "ended"
       /\ watch[g] \in {"clear", "final"} => pc = "gone"
       /\ \/ UNCHANGED <<managed, watch>>
          \/ /\ managed' = managed \ {g} /\ watch'[g] = "clear" /\ pc = "gone"
             /\ \A h \in Games : h # g => watch'[h] = watch[h]
       /\ game[g].pc = "playing" \/ pc # "playing"
       /\ Alive(g) \/ pc = "gone"
<1>2. \E pc \in {"ended", "gone"} : End(pc)
  <2>1. CASE Exit(g)
    <3>1. End(IF g \in managed \cup {launch.game} THEN "ended" ELSE "gone")
      BY <2>1 DEF Exit, Alive, Recorded, WatchKnown
    <3>. QED
      BY <3>1
  <2>2. g \in managed => g # launch.game
    BY NoneIsNobody DEF Recorded, LaunchKnown
  <2>3. CASE Kill(g)
    <3>1. End("gone")
      BY <2>2, <2>3 DEF Kill, Killed
    <3>. QED
      BY <3>1
  <2>4. CASE Notice(g)
    <3>1. End("gone")
      BY <2>2, <2>4 DEF Notice, Killed, Recorded, WatchKnown, TypeOK
    <3>. QED
      BY <3>1
  <2>. QED
    BY <2>1, <2>3, <2>4
<1>3. PICK pc \in {"ended", "gone"} : End(pc)
  BY <1>2
<1>4. Moved(g, pc)
  BY <1>1, <1>3, ExceptMoves
<1>5. UNCHANGED <<launch, rows, dropped>>
  BY DEF Exit, Kill, Notice, sessions
<1>8. LaunchKnown'
  BY <1>3, <1>4, <1>5 DEF Moved, Recorded, LaunchKnown, Launched, Alive
<1>9. WatchKnown'
  BY <1>3, <1>4 DEF Moved, Recorded, WatchKnown
<1>10. \A h \in Games : /\ Alive(h)' => Alive(h)
                        /\ Plays(h)' => Plays(h)
  BY <1>3, <1>4, <1>5 DEF Moved, Alive, Plays
<1>. QED
  BY <1>4, <1>5, <1>8, <1>9, <1>10
     DEF Moved, Recorded, PidsApart, OnRecord, LaunchAlone, OneGame, Exclusive,
         Launched, LaunchKnown

\* A watcher forgets the row of its own game alone, which is gone.
LEMMA ForgetRecorded ==
  ASSUME TypeOK, Recorded, NEW g \in Games, Forget(g)
  PROVE  Recorded'
<1>1. game[g].pc = "gone"
  BY DEF Forget, Recorded, WatchKnown
<1>2. /\ UNCHANGED <<launch, game, managed, dropped>>
      /\ rows' = Cleared(g)
      /\ watch'[g] = "final"
      /\ \A h \in Games : h # g => watch'[h] = watch[h]
      /\ watch[g] = "clear"
  BY DEF Forget, sessions, TypeOK
<1>3. \A h \in Games : h # g /\ game[h].pid \in Pids /\ rows[game[h].pid] = h
                       => rows'[game[h].pid] = h
  BY <1>2 DEF Cleared
<1>4. \A h \in Games : Plays(h) => h # g /\ game[h].pid \in Pids
  BY <1>1 DEF Plays, TypeOK, Game
<1>5. Launched => launch.game # g /\ game[launch.game].pid \in Pids
                  /\ launch.game \in Games
  BY <1>1 DEF Recorded, LaunchKnown, Alive, TypeOK, Game
<1>6. OnRecord'
  BY <1>2, <1>3, <1>4, <1>5 DEF Recorded, OnRecord, Plays, Launched
<1>. QED
  BY <1>1, <1>2, <1>6
     DEF Recorded, LaunchKnown, WatchKnown, PidsApart, LaunchAlone, OneGame,
         Exclusive, Launched, Plays, Alive

\* Play time is counted and reported beside the games.
LEMMA TimeRecorded ==
  ASSUME TypeOK, Recorded, NEW g \in Games,
         \/ Minute(g) \/ Finish(g) \/ ReadPlayed(g) \/ Report(g)
         \/ ReportFails(g) \/ Mark(g)
  PROVE  Recorded'
<1>1. UNCHANGED <<launch, game, rows, managed, dropped>>
  BY DEF Minute, Finish, ReadPlayed, Report, ReportFails, Mark, sessions,
         processes
<1>2. \A h \in Games : watch'[h] = watch[h] \/ watch'[h] = "none"
  BY DEF Minute, Finish, ReadPlayed, Report, ReportFails, Mark, processes, TypeOK
<1>. QED
  BY <1>1, <1>2
     DEF Recorded, LaunchKnown, WatchKnown, PidsApart, OnRecord, LaunchAlone,
         OneGame, Exclusive, Launched, Plays, Alive

\* What is on record outlives the app, which keeps nothing else.
LEMMA CrashRecorded ==
  ASSUME TypeOK, Recorded, Crash
  PROVE  Recorded'
<1>1. /\ UNCHANGED <<rows, dropped>>
      /\ launch'.pc = "idle" /\ launch'.game = None
      /\ \A g \in Games : watch'[g] = "none"
  BY DEF Crash, Idle
<1>2. \A g \in Games : /\ game'[g].pid = game[g].pid
                       /\ game'[g].instance = game[g].instance
                       /\ Alive(g)' => Alive(g)
                       /\ Plays(g)' => Plays(g)
  BY DEF Crash, TypeOK, Game, Alive, Plays
<1>. QED
  BY <1>1, <1>2
     DEF Recorded, LaunchKnown, WatchKnown, PidsApart, OnRecord, LaunchAlone,
         OneGame, Exclusive, Launched

\* Recorded is inductive.
LEMMA StepRecorded == TypeOK /\ Recorded /\ [Next]_vars => Recorded'
<1>. SUFFICES ASSUME TypeOK, Recorded, [Next]_vars PROVE Recorded'
  OBVIOUS
<1>1. ASSUME NEW b \in Bindings, Save(b) PROVE Recorded'
  BY <1>1 DEF Save, processes, Recorded, LaunchKnown, WatchKnown, PidsApart,
              OnRecord, LaunchAlone, OneGame, Exclusive, Launched, Plays, Alive
<1>2. CASE LaunchStep
  <2>1. ASSUME NEW i \in Instances, NEW a \in Accounts, Begin(i, a)
        PROVE  Recorded'
    BY <2>1, QuietRecorded DEF Begin
  <2>2. CASE Prepared \/ GiveUp
    <3>1. CASE Prepared
      <4>1. launch.game = None /\ launch \in Launch
        BY <3>1 DEF Prepared, At, Recorded, LaunchKnown, Launched, TypeOK
      <4>. QED
        BY <3>1, <4>1, QuietRecorded DEF Prepared, Launch
    <3>2. CASE GiveUp
      BY <3>2, QuietRecorded DEF GiveUp
    <3>. QED
      BY <2>2, <3>1, <3>2
  <2>. QED
    BY <1>2, <2>1, <2>2, CheckRecorded, SpawnRecorded, PersistRecorded,
       CallRecorded, FailRecorded, InsertRecorded DEF LaunchStep
<1>3. ASSUME NEW g \in Games, GameStep(g) PROVE Recorded'
  BY <1>3, EndRecorded, ForgetRecorded, TimeRecorded DEF GameStep
<1>4. CASE UNCHANGED vars
  BY <1>4 DEF vars, sessions, processes, Recorded, LaunchKnown, WatchKnown,
              PidsApart, OnRecord, LaunchAlone, OneGame, Exclusive, Launched,
              Plays, Alive
<1>. QED
  BY <1>1, <1>2, <1>3, <1>4, InspectRecorded, CrashRecorded DEF Next

\* No instance is ever played twice at a time, however many games, pids and
\* restarts of the launcher there are.
THEOREM OneGameAtATime == Spec => []OneGame
<1>1. Init => Recorded
  BY InitRecorded
<1>2. TypeOK /\ TypeOK' /\ Recorded /\ [Next]_vars => Recorded'
  BY StepRecorded
<1>3. Recorded => OneGame
  BY DEF Recorded
<1>. QED
  BY <1>1, <1>2, <1>3, TypeCorrect, PTL DEF Spec
-----------------------------------------------------------------------------
\* Bindings change only where no launch and no managed game depends on them.
LEMMA SaveBound ==
  ASSUME TypeOK, Bound, NEW b \in Bindings, Save(b)
  PROVE  Bound'
<1>1. /\ bound' = b /\ launch.pc = "idle" /\ UNCHANGED <<launch, game, managed>>
      /\ MayBind(b)
  BY DEF Save, processes
<1>2. ASSUME NEW g \in managed
      PROVE  bound'[game[g].instance] = bound[game[g].instance]
  <2>1. game[g].instance \in Instances
    BY DEF TypeOK, Known, Game
  <2>2. IsManaged(game[g].instance)
    BY DEF IsManaged
  <2>. QED
    BY <1>1, <2>1, <2>2 DEF MayBind
<1>. QED
  BY <1>1, <1>2 DEF Bound, BindingKept

\* A launch that goes on keeps what it was asked for.
LEMMA Forward ==
  ASSUME TypeOK, \/ launch' = Idle
                 \/ launch' = [launch EXCEPT !.pc = launch'.pc]
  PROVE  \/ launch'.pc = "idle"
         \/ /\ launch'.instance = launch.instance
            /\ launch'.account = launch.account
            /\ launch'.bound = launch.bound
BY DEF TypeOK, Launch, Idle

\* A launch keeps the binding it has read, and gives it to its game.
LEMMA LaunchBound ==
  ASSUME TypeOK, Recorded, Bound, LaunchStep
  PROVE  Bound'
<1>1. ASSUME NEW i \in Instances, NEW a \in Accounts, Begin(i, a)
      PROVE  Bound'
  BY <1>1 DEF Begin, processes, Bound, BindingKept
<1>2. CASE Prepared \/ GiveUp \/ Check \/ Recheck
  <2>1. /\ UNCHANGED <<bound, game, managed>>
        /\ launch.pc # "idle"
        /\ \/ launch' = Idle
           \/ launch' = [launch EXCEPT !.pc = launch'.pc]
    <3>1. CASE Prepared \/ GiveUp
      BY <3>1 DEF Prepared, GiveUp, At, processes, TypeOK, Launch
    <3>2. CASE Check \/ Recheck
      BY <3>2 DEF Check, Recheck, CheckThen, At, TypeOK, Launch
    <3>. QED
      BY <1>2, <3>1, <3>2
  <2>. QED
    BY <2>1, Forward DEF Bound, BindingKept
<1>3. ASSUME NEW g \in Games, NEW p \in Pids, Spawn(g, p)
      PROVE  Bound'
  <2>1. g \notin managed
    BY <1>3 DEF Spawn, TypeOK, Known
  <2>2. /\ \A h \in managed : game'[h] = game[h]
        /\ UNCHANGED <<bound, managed>>
        /\ launch.pc # "idle"
        /\ launch'.instance = launch.instance
        /\ launch'.account = launch.account /\ launch'.bound = launch.bound
    BY <1>3, <2>1 DEF Spawn, At, TypeOK, Launch
  <2>. QED
    BY <2>2 DEF Bound, BindingKept
<1>4. CASE Persist \/ InitFails \/ ClearFailed
  <2>1. /\ UNCHANGED <<bound, game, managed>> /\ launch.pc # "idle"
        /\ launch'.instance = launch.instance
        /\ launch'.account = launch.account /\ launch'.bound = launch.bound
    BY <1>4 DEF Persist, InitFails, ClearFailed, At, TypeOK, Launch
  <2>. QED
    BY <2>1 DEF Bound, BindingKept
<1>5. CASE PersistFails \/ Call \/ KillFailed
  <2>1. launch.game \in Games /\ game[launch.game].pc # "none"
    BY <1>5 DEF PersistFails, Call, KillFailed, At, Recorded, LaunchKnown,
                Launched, Alive
  <2>2. PICK pc \in {"playing", "gone"} : Moved(launch.game, pc)
    BY <1>5, <2>1, ExceptMoves DEF PersistFails, Call, KillFailed, Killed
  <2>3. /\ UNCHANGED <<bound, managed>>
        /\ launch.pc # "idle"
        /\ \/ launch' = Idle
           \/ launch' = [launch EXCEPT !.pc = launch'.pc]
    BY <1>5 DEF PersistFails, Call, KillFailed, At, TypeOK, Launch
  <2>. QED
    BY <2>2, <2>3, Forward DEF Moved, Bound, BindingKept, TypeOK
<1>6. CASE Insert
  <2>1. /\ managed' = managed \cup {launch.game} /\ launch'.pc = "idle"
        /\ UNCHANGED <<bound, game>> /\ launch.pc = "called"
    BY <1>6 DEF Insert, At, Idle
  <2>. QED
    BY <2>1 DEF Bound, BindingKept, Recorded, LaunchKnown, Launched
<1>. QED
  BY <1>1, <1>2, <1>3, <1>4, <1>5, <1>6 DEF LaunchStep

\* A game keeps what it was launched with.
LEMMA GameBound ==
  ASSUME TypeOK, Bound, NEW g \in Games, GameStep(g)
  PROVE  Bound'
<1>1. UNCHANGED <<bound, launch>> /\ managed' \subseteq managed
  BY DEF GameStep, Exit, Kill, Minute, Notice, Forget, Finish, ReadPlayed,
         Report, ReportFails, Mark, sessions, processes
<1>2. \A h \in managed : /\ game'[h].instance = game[h].instance
                         /\ game'[h].account = game[h].account
                         /\ game'[h].bound = game[h].bound
  <2>1. CASE Exit(g) \/ Kill(g) \/ Notice(g)
    <3>1. PICK pc \in {"ended", "gone"} : game' = [game EXCEPT ![g].pc = pc]
      BY <2>1 DEF Exit, Kill, Notice, Killed
    <3>. QED
      BY <3>1 DEF TypeOK, Game
  <2>2. CASE ~(Exit(g) \/ Kill(g) \/ Notice(g))
    BY <2>2 DEF GameStep, Minute, Forget, Finish, ReadPlayed, Report,
                ReportFails, Mark, processes
  <2>. QED
    BY <2>1, <2>2
<1>. QED
  BY <1>1, <1>2 DEF Bound, BindingKept

\* Bound is inductive, given what is recorded of the launch's game.
LEMMA StepBound == TypeOK /\ Recorded /\ Bound /\ [Next]_vars => Bound'
<1>. SUFFICES ASSUME TypeOK, Recorded, Bound, [Next]_vars PROVE Bound'
  OBVIOUS
<1>1. CASE Crash
  BY <1>1 DEF Crash, Idle, Bound, BindingKept
<1>2. CASE UNCHANGED vars
  BY <1>2 DEF vars, sessions, processes, Bound, BindingKept
<1>3. ASSUME NEW i \in Instances, Inspect(i) PROVE Bound'
  BY <1>3 DEF Inspect, sessions, Bound, BindingKept
<1>. QED
  BY <1>1, <1>2, <1>3, SaveBound, LaunchBound, GameBound DEF Next

\* A managed game plays under the binding its instance has, with its account.
THEOREM BindingsKept == Spec => []BindingKept
<1>1. Init => Recorded /\ Bound
  BY InitRecorded
<1>2. TypeOK /\ TypeOK' /\ (Recorded /\ Bound) /\ [Next]_vars
        => (Recorded /\ Bound)'
  BY StepRecorded, StepBound
<1>3. Recorded /\ Bound => BindingKept
  BY DEF Bound
<1>. QED
  BY <1>1, <1>2, <1>3, TypeCorrect, PTL DEF Spec
=============================================================================
