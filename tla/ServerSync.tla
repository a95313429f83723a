----------------------------- MODULE ServerSync -----------------------------
(***************************************************************************)
(* The synchronisation of multiplayer server lists between instances       *)
(* (api/instance/synced_servers), with the part of synced options that     *)
(* drives it (api/instance/synced_options).                                *)
(*                                                                         *)
(* All of it runs under the synced-options lock.  todo is what the task    *)
(* that holds the lock still has to do: a sequence of steps, each of which *)
(* ends at a statement or a file operation, so that the app can be closed  *)
(* between any two of them.  Games do not take the lock; they change the   *)
(* file of their instance and outlive the app.                             *)
(***************************************************************************)
EXTENDS ServerMerge, FiniteSets

CONSTANTS
    Instances,
    Commands,         \* what the player does in the launcher
    Overlap,          \* a game may end with edits while others are unread,
                      \* requests wait or somebody holds the lock, a command
                      \* come before edits are read, and rows of an instance
                      \* be changed under its game
    PackWhileSynced,  \* a modpack may be installed in a synced instance
    CloseEarly,       \* the app may be closed before an instance that takes
                      \* part has been given the shared list
    MaxCommands, MaxEdits, MaxCrashes,
    MaxActs           \* commands and edits together; while one is left games
                      \* start and the app may be closed: a bound

\* Some value that is neither an instance nor a revision.
ASSUME NothingElse == None \notin Instances /\ None \notin Nat
ASSUME FinitelyMany == IsFiniteSet(Instances)

VARIABLES
    \* the database
    shared,        \* synced_servers, in the order of their positions
    revision,      \* of synced_server_state, None without that row
    locals,        \* instance_servers
    base,          \* instance_server_projection_entries
    point,         \* instance_sync_checkpoints
    on,            \* sync_feature_settings.globally_enabled
    joined,        \* instance_sync_preferences
    stage,         \* how far the install of a modpack is
    \* files
    file,          \* servers.dat of the instance
    made,          \* servers/generated/<instance>/servers.dat
    pending,       \* pending-changes.json
    \* processes
    game,          \* running games
    app, todo,
    due,           \* instances whose game has ended, not yet reconciled
    \* bounds and observations
    overdue,       \* instances whose own rows were changed by a modpack, or
                   \* just before the app was closed, and not written since
    used,          \* servers that have been added
    commands, edits, crashes

rows == <<shared, revision, locals>>
settings == <<on, joined, pending>>
projection == <<base, point, overdue>>
files == <<file, made>>
counts == <<used, commands, edits, crashes>>
vars == <<rows, settings, projection, files, stage, game, app, todo, due, counts>>

NoFile == [kind |-> "none", data |-> <<>>]
Plain(datas) == [kind |-> "plain", data |-> datas]
Link == [kind |-> "link", data |-> <<>>]

\* What reading servers.dat gives.
Visible(i) == CASE file[i].kind = "plain" -> file[i].data
                [] file[i].kind = "link" -> made[i]
                [] file[i].kind = "none" -> None
List(i) == IF Visible(i) = None THEN <<>> ELSE Visible(i)

Rev == IF revision = None THEN 0 ELSE revision
Shown(i) == Records(shared, locals[i])
IsPending(i) == \E k \in DOMAIN pending : pending[k].instance = i

Participating(i) == joined[i] /\ on /\ ~IsPending(i)
Blocked(i) == stage[i] # "installed" \/ i \in game
Effective(i) == ~Blocked(i) /\ Participating(i)

\* A UUID is a number that is in use nowhere.
UsedIds == IdsOf(shared) \cup UNION {IdsOf(locals[i]) \cup IdsOf(base[i]) :
                                       i \in Instances}
FreshId(n) == CHOOSE id \in 0..(Cardinality(UsedIds) + n) :
    /\ id \notin UsedIds
    /\ Cardinality({x \in 0..id : x \notin UsedIds}) = n
AsShared(datas) ==
    [k \in DOMAIN datas |-> [id |-> FreshId(k), data |-> datas[k]]]

Do(op, i) == [op |-> op, instance |-> i]
Order == SetToSeq(Instances)
Each(op) == [k \in DOMAIN Order |-> Do(op, Order[k])]

New(s) == [server |-> s, addr |-> 0, name |-> 0]

\* An app in which syncing has never been switched on: every instance has a
\* list of its own.
Untouched(lists) ==
    /\ shared = <<>> /\ revision = None /\ on = FALSE
    /\ joined = [i \in Instances |-> TRUE]
    /\ base = [i \in Instances |-> <<>>]
    /\ point = [i \in Instances |-> None] /\ made = [i \in Instances |-> None]
    /\ file = [i \in Instances |-> Plain(lists[i])]

\* An app in which the members share one server and have been given the list,
\* and the others have a list of their own.
SetUp(d, members, lists) ==
    /\ shared = <<[id |-> 0, data |-> d]>> /\ revision = 1 /\ on = TRUE
    /\ joined = [i \in Instances |-> i \in members]
    /\ base = [i \in Instances |->
          IF i \in members THEN Shown(i) ELSE <<>>]
    /\ point = [i \in Instances |-> IF i \notin members THEN None
          ELSE [expected |-> DataOf(Shown(i)), revision |-> 1, status |-> "ready"]]
    /\ made = [i \in Instances |->
          IF i \in members THEN DataOf(Shown(i)) ELSE None]
    /\ file = [i \in Instances |->
          IF i \in members THEN Link ELSE Plain(lists[i])]

\* The members are instances that share a list; of the others, packed have
\* theirs from a modpack.  Instances differ in their order only, so the first
\* is a member when there is one.
Init ==
    /\ \E s \in Servers, owner \in [Instances -> Servers],
          members, packed \in SUBSET Instances :
        LET lists == [i \in Instances |-> <<New(owner[i])>>] IN
        /\ locals = [i \in Instances |-> IF i \in packed
              THEN <<[id |-> 1, source |-> "modpack", excluded |-> None,
                      data |-> New(owner[i]), position |-> 0]>> ELSE <<>>]
        /\ \/ members = {} /\ packed = {} /\ Untouched(lists)
              /\ s = owner[Order[1]]
           \/ members # {} /\ packed \cap members = {}
              /\ SetUp(New(s), members, lists)
        /\ members # {} => Order[1] \in members
        /\ \A i \in members : owner[i] = s
        /\ \A i \in packed : owner[i] # s
        /\ used = {owner[i] : i \in Instances}
    /\ pending = <<>> /\ overdue = {}
    /\ stage = [i \in Instances |-> "installed"] /\ game = {}
    /\ app = "up" /\ todo = <<>> /\ due = {}
    /\ commands = 0 /\ edits = 0 /\ crashes = 0

---------------------------------------------------------------------------
\* Statements.  A transaction that gives two local rows one position fails.
Distinct(ls) == \A j, k \in DOMAIN ls :
    ls[j].position = ls[k].position => j = k

Existing(ls, ids) == [k \in DOMAIN ls |->
    IF ls[k].excluded \in ids THEN ls[k] ELSE [ls[k] EXCEPT !.excluded = None]]

\* commit_server_state: a deleted shared row is forgotten by the local rows
\* that exclude it.
Write(servers, i, ls) ==
    /\ shared' = servers
    /\ locals' = [j \in Instances |->
          Existing(IF j = i THEN ByPosition(ls) ELSE locals[j], IdsOf(servers))]
\* Mutant: the revision is not raised.
CommitQuietly(servers, i, ls) == Write(servers, i, ls) /\ revision' = Rev
Commit(servers, i, ls) ==
    /\ Write(servers, i, ls)
    /\ revision' = IF servers = shared THEN Rev ELSE Rev + 1
CommitShared(servers) == Commit(servers, None, <<>>)
CommitLocals(i, ls) == Write(shared, i, ls) /\ UNCHANGED revision

\* Mutant: the link is made before the file it points to.
ComposeLinkFirst(i) == <<Do("begin", i), Do("link", i), Do("generate", i),
                         Do("finish", i)>>
Compose(i) == <<Do("begin", i), Do("generate", i), Do("link", i),
                Do("finish", i)>>
Regenerate == Each("regenerate")
AfterCommit(i, servers) == IF servers # shared THEN Regenerate ELSE Compose(i)

---------------------------------------------------------------------------
\* The steps of the task that holds the lock.
Now(op, i) == /\ app = "up" /\ todo # <<>>
              /\ Head(todo).op = op /\ Head(todo).instance = i
Then(steps) == /\ todo' = steps \o Tail(todo)
               /\ UNCHANGED <<app, due, stage, game, counts>>
Only(steps) == Then(steps) /\ UNCHANGED <<rows, settings, projection, files>>

\* Mutant: the checkpoint is ready before the file is written.
BeginReady(i) ==
    /\ Now("begin", i)
    /\ base' = [base EXCEPT ![i] = Shown(i)] /\ overdue' = overdue \ {i}
    /\ point' = [point EXCEPT ![i] = [expected |-> DataOf(Shown(i)),
                                      revision |-> Rev, status |-> "ready"]]
    /\ Then(<<>>) /\ UNCHANGED <<rows, settings, files>>
Begin(i) ==
    /\ Now("begin", i)
    /\ base' = [base EXCEPT ![i] = Shown(i)] /\ overdue' = overdue \ {i}
    /\ point' = [point EXCEPT ![i] = [expected |-> DataOf(Shown(i)),
                                      revision |-> Rev, status |-> "pending"]]
    /\ Then(<<>>) /\ UNCHANGED <<rows, settings, files>>

Generate(i) ==
    /\ Now("generate", i)
    /\ made' = [made EXCEPT ![i] = DataOf(Shown(i))]
    /\ Then(<<>>) /\ UNCHANGED <<rows, settings, projection, file>>

\* ensure_link removes another file first.
EnsureLink(i) ==
    /\ Now("link", i)
    /\ IF file[i].kind = "plain"
       THEN file' = [file EXCEPT ![i] = NoFile] /\ Then(<<Do("link", i)>>)
       ELSE file' = [file EXCEPT ![i] = Link] /\ Then(<<>>)
    /\ UNCHANGED <<rows, settings, projection, made>>

Finish(i) ==
    /\ Now("finish", i)
    /\ point' = [point EXCEPT ![i].status = "ready"]
    /\ Then(<<>>) /\ UNCHANGED <<rows, settings, base, overdue, files>>

\* detach_link: the contents are read, the file or link is removed, and they
\* are written to a file.
Detach(i) ==
    /\ Now("detach", i)
    /\ LET contents == IF Visible(i) # None THEN Visible(i) ELSE made[i] IN
       /\ file' = [file EXCEPT ![i] = NoFile]
       /\ Then(IF contents = None THEN <<>>
               ELSE <<[op |-> "put", instance |-> i, data |-> contents]>>)
    /\ UNCHANGED <<rows, settings, projection, made>>

Put(i) ==
    /\ Now("put", i)
    /\ file' = [file EXCEPT ![i] = Plain(Head(todo).data)]
    /\ Then(<<>>) /\ UNCHANGED <<rows, settings, projection, made>>

RegenerateOne(i) ==
    /\ Now("regenerate", i)
    /\ Only(IF Effective(i) THEN Compose(i) ELSE <<>>)

\* reconcile_instance_with_state, for this option.
Reconcile(i) ==
    /\ Now("reconcile", i)
    /\ Only(CASE Blocked(i) \/ IsPending(i) -> <<>>
              [] ~Blocked(i) /\ ~IsPending(i) /\ ~(joined[i] /\ on) ->
                    <<Do("detach", i)>>
              [] OTHER -> <<Do("servers", i)>>)

IsExpected(i) == point[i] # None /\ point[i].expected = Visible(i)

\* reconcile_servers when there is nothing to read back.
RestoreServers(i) ==
    /\ Now("servers", i)
    /\ \/ ~Effective(i) /\ Only(<<>>)
       \/ /\ Effective(i)
          /\ \/ Visible(i) = None
             \/ point[i] # None /\ point[i].status = "pending"
             \/ IsExpected(i) /\ point[i].revision # Rev
          /\ Only(Compose(i))
       \/ /\ Effective(i) /\ IsExpected(i)
          /\ point[i].status = "ready" /\ point[i].revision = Rev
          /\ Only(<<>>)

\* reconcile_servers when the file is not what was written last.  When the
\* transaction fails the instance is left alone.
MergeServers(i) ==
    /\ Now("servers", i)
    /\ Effective(i) /\ Visible(i) # None
    /\ point[i] # None => point[i].status = "ready" /\ ~IsExpected(i)
    /\ LET current == List(i)
           matching == Matching(current, base[i])
           fresh == [k \in DOMAIN current |-> FreshId(k)]
           ls == MergedLocals(locals[i], current, base[i], matching)
           servers == MergedShared(shared, current, base[i], matching, fresh)
       IN IF Distinct(ls)
          THEN Commit(servers, i, ls) /\ Then(AfterCommit(i, servers))
          ELSE Then(<<>>) /\ UNCHANGED rows
    /\ UNCHANGED <<settings, projection, files>>

---------------------------------------------------------------------------
\* Joining and leaving.
Seed(i) ==
    /\ Now("seed", i)
    /\ CommitShared(AsShared(Candidates(List(i), locals[i])))
    /\ Then(Regenerate) /\ UNCHANGED <<settings, projection, files>>

\* prepare_instance_join with the servers of the instance merged in.
Join(i) ==
    /\ Now("join", i)
    /\ IF revision = None THEN Only(<<Do("seed", i)>>)
       ELSE LET new == Unknown(Candidates(List(i), locals[i]), shared)
                servers == shared \o AsShared(new)
            IN  /\ CommitShared(servers)
                /\ Then(IF new # <<>> THEN Regenerate ELSE <<>>)
                /\ UNCHANGED <<settings, projection, files>>

\* A pending checkpoint has the shared list applied, and the file not read.
Deferred == [expected |-> None, revision |-> 0, status |-> "pending"]
Defer(i) ==
    /\ Now("defer", i)
    /\ point' = [point EXCEPT ![i] = Deferred]
    /\ Then(<<>>) /\ UNCHANGED <<rows, settings, base, overdue, files>>

Prefer(i) ==
    /\ Now("prefer", i)
    /\ joined' = [joined EXCEPT ![i] = TRUE]
    /\ Then(<<>>) /\ UNCHANGED <<rows, on, pending, projection, files>>

Enable(i) ==
    /\ Now("enable", i)
    /\ on' = TRUE
    /\ Then(<<>>) /\ UNCHANGED <<rows, joined, pending, projection, files>>

Disable(i) ==
    /\ Now("disable", i)
    /\ on' = FALSE
    /\ Then(<<>>) /\ UNCHANGED <<rows, joined, pending, projection, files>>

Leave(i) ==
    /\ Now("leave", i)
    /\ joined' = [joined EXCEPT ![i] = FALSE]
    /\ Then(<<>>) /\ UNCHANGED <<rows, on, pending, projection, files>>

JoinSteps(i) == <<Do("join", i), Do("defer", i)>>

\* enable_global_option_from_base: everybody gets a file of the old list, the
\* base's becomes the shared one, and then everybody is given it.
SourceSteps(i) ==
    LET retired == [k \in DOMAIN Order |->
            Do(IF Order[k] = i /\ joined[i] THEN "detach" ELSE "retire", Order[k])]
    IN  retired \o (IF joined[i] THEN <<>> ELSE <<Do("detach", i)>>)
            \o <<Do("seed", i), Do("complete", i), Do("prefer", i),
                 Do("enable", i)>> \o Each("ensure")

Retire(i) ==
    /\ Now("retire", i)
    /\ Only(CASE IsPending(i) \/ ~joined[i] -> <<>>
              [] ~IsPending(i) /\ joined[i] /\ Blocked(i) -> <<Do("defer", i)>>
              [] OTHER -> <<Do("detach", i)>>)

Ensure(i) ==
    /\ Now("ensure", i)
    /\ Only(CASE IsPending(i) \/ Blocked(i) -> <<>>
              [] ~IsPending(i) /\ ~Blocked(i) /\ ~joined[i] -> <<Do("detach", i)>>
              [] OTHER -> Compose(i))

\* set_global_option when it switches syncing off, for one instance.
Follow(i) ==
    /\ Now("follow", i)
    /\ Only(IF IsPending(i) \/ Blocked(i) THEN <<>> ELSE <<Do("detach", i)>>)

---------------------------------------------------------------------------
\* Requests that wait for an instance that is installing or running.
Without(i, action) == Retained(pending,
    {k \in DOMAIN pending : pending[k] # [instance |-> i, action |-> action]})
Others(i) ==
    Retained(pending, {k \in DOMAIN pending : pending[k].instance # i})
Saved(i, action) == Append(IF action = "source" THEN <<>> ELSE Others(i),
                           [instance |-> i, action |-> action])
SetPending(changes) ==
    pending' = changes /\ UNCHANGED <<rows, on, joined, projection, files>>

Complete(i) ==
    /\ Now("complete", i)
    /\ SetPending(Without(i, "source")) /\ Then(<<>>)
Joined(i) ==
    /\ Now("joined", i)
    /\ SetPending(Without(i, "join")) /\ Then(<<>>)

\* apply_pending_changes goes through the requests it has read first.
Apply == [k \in DOMAIN pending |-> [op |-> "apply",
    instance |-> pending[k].instance, action |-> pending[k].action]]

ApplyChange(i) ==
    /\ Now("apply", i)
    /\ LET action == Head(todo).action IN
       IF Without(i, action) = pending THEN Only(<<>>)
       ELSE IF ~on \/ ~joined[i]
       THEN SetPending(Without(i, action)) /\ Then(<<>>)
       ELSE IF Blocked(i) THEN Only(<<>>)
       ELSE Only(IF action = "source" THEN SourceSteps(i)
                 ELSE JoinSteps(i) \o <<Do("joined", i)>> \o Compose(i))

---------------------------------------------------------------------------
\* Calls that take the lock.
Free == app = "up" /\ todo = <<>>
Call(steps) == Free /\ todo' = steps /\ UNCHANGED <<app, game>>

\* An instance whose game has ended with changes that were not read back.
Differs(i) == /\ Visible(i) # None /\ ~IsExpected(i)
              /\ point[i] # None => point[i].status = "ready"
Unread == {i \in Instances \ game : Participating(i) /\ Differs(i)}
Quiet == Overlap \/ Unread = {}

MayAct == commands + edits < MaxActs
Command(name) == /\ name \in Commands /\ commands < MaxCommands /\ MayAct
                 /\ Free /\ Quiet /\ commands' = commands + 1
                 /\ UNCHANGED <<due, stage, edits, crashes>>
OnRows(servers) ==
    /\ CommitShared(servers) /\ Call(Regenerate)
    /\ UNCHANGED <<settings, projection, files>>
OnFile(i, datas) ==
    /\ file' = [file EXCEPT ![i] = Plain(datas)]
    /\ Call(<<>>) /\ UNCHANGED <<rows, settings, projection, made>>

Renamed(d) == [d EXCEPT !.name = 1]
Moved(d) == [d EXCEPT !.addr = 1]
Unchanged(d) == d.addr = 0 /\ d.name = 0

AddServer(i) ==
    /\ Command("add")
    /\ \E s \in Servers :
          /\ used' = used \cup {s}
          /\ IF Participating(i)
             THEN OnRows(Append(shared, [id |-> FreshId(1), data |-> New(s)]))
             ELSE OnFile(i, Append(List(i), New(s)))

\* The rows that own row r of the instance's list, and what replaces them.
RowsOf(i, r) == IF r.owner = "synced" THEN shared ELSE locals[i]
OnOwner(i, r, changed) ==
    \/ r.owner = "synced" /\ OnRows(changed)
    \/ /\ r.owner = "instance" /\ (Overlap \/ i \notin game)
       /\ CommitLocals(i, changed)
       /\ Call(Compose(i)) /\ UNCHANGED <<settings, projection, files>>

UpdateServer(i) ==
    /\ Command("update") /\ UNCHANGED used
    /\ \/ /\ Participating(i)
          /\ \E r \in ToSet(Shown(i)) :
                LET rs == RowsOf(i, r)
                IN  /\ Unchanged(r.data)
                    /\ OnOwner(i, r, [j \in DOMAIN rs |->
                          IF rs[j].id = r.id
                          THEN [rs[j] EXCEPT !.data = Renamed(@)] ELSE rs[j]])
       \/ /\ ~Participating(i)
          /\ \E k \in DOMAIN List(i) :
                /\ Unchanged(List(i)[k])
                /\ OnFile(i, [List(i) EXCEPT ![k] = Renamed(@)])

RemoveServer(i) ==
    /\ Command("remove") /\ UNCHANGED used
    /\ \/ /\ Participating(i)
          /\ \E r \in ToSet(Shown(i)) :
                OnOwner(i, r,
                        SelectSeq(RowsOf(i, r), LAMBDA x : x.id # r.id))
       \/ /\ ~Participating(i)
          /\ \E k \in DOMAIN List(i) : OnFile(i, RemoveAt(List(i), k))

\* desync_server: the instance keeps a copy of its own.
Desync(i) ==
    /\ Command("desync") /\ UNCHANGED <<settings, projection, files, used>>
    /\ Participating(i) /\ (Overlap \/ i \notin game)
    /\ \E k \in DOMAIN Shown(i), keep \in BOOLEAN :
        LET r == Shown(i)[k]
            ls == Append(locals[i],
                    [id |-> FreshId(1), source |-> "local_desynced",
                     excluded |-> IF keep THEN r.id ELSE None,
                     data |-> r.data, position |-> k - 1])
            servers == IF keep THEN shared
                       ELSE SelectSeq(shared, LAMBDA x : x.id # r.id)
        IN  /\ r.owner = "synced" /\ Distinct(ls)
            /\ Commit(servers, i, ls)
            /\ Call(AfterCommit(i, servers))

\* The settings page works on the shared list whether it is in use or not.
UpdateSynced ==
    /\ Command("edit_shared") /\ UNCHANGED used
    /\ \E k \in DOMAIN shared :
          /\ Unchanged(shared[k].data)
          /\ OnRows([shared EXCEPT ![k].data = Moved(@)])
RemoveSynced ==
    /\ Command("drop_shared") /\ UNCHANGED used
    /\ \E k \in DOMAIN shared : OnRows(RemoveAt(shared, k))

---------------------------------------------------------------------------
\* Switching.  Each call cancels the requests that wait.
Switch(changes, steps) ==
    /\ pending' = changes /\ Call(steps)
    /\ UNCHANGED <<rows, on, joined, projection, files, used>>

\* Syncing is switched off for all.
SwitchOff(i) ==
    /\ Command("off") /\ on
    /\ Switch(<<>>, <<Do("disable", i)>> \o Each("follow"))

\* And on, which the settings page does with a base.
SetGlobalFromBase(i) ==
    /\ Command("base")
    /\ IF Blocked(i)
       THEN Switch(Saved(i, "source"), <<Do("prefer", i), Do("enable", i)>>)
       ELSE Switch(<<>>, SourceSteps(i))

JoinInstance(i) ==
    /\ Command("join") /\ ~joined[i] /\ on
    /\ IF Blocked(i)
       THEN Switch(Saved(i, "join"), <<Do("prefer", i)>>)
       ELSE Switch(Others(i),
                   JoinSteps(i) \o <<Do("prefer", i)>> \o Compose(i))

LeaveInstance(i) ==
    /\ Command("leave") /\ joined[i]
    /\ Switch(Others(i), <<Do("leave", i)>> \o
              IF Blocked(i) THEN <<>> ELSE <<Do("detach", i)>>)

---------------------------------------------------------------------------
\* The update of a modpack.  The files of the pack are written without the
\* lock.
Stages == {"installed", "locked", "updating", "unpacked", "bare", "captured",
           "last"}
Advance(i, from, to) == stage[i] = from /\ stage' = [stage EXCEPT ![i] = to]
Idle(i) == \A k \in DOMAIN todo : todo[k].instance # i

LockInstance(i) ==
    /\ "pack" \in Commands /\ commands < MaxCommands /\ MayAct
    /\ app = "up" /\ i \notin game /\ Idle(i)
    /\ PackWhileSynced \/ ~joined[i]
    /\ Advance(i, "installed", "locked")
    /\ commands' = commands + 1
    /\ UNCHANGED <<rows, settings, projection, files, game, app, todo, due,
                    used, edits, crashes>>

Update(i, from, to, steps) ==
    /\ Advance(i, from, to) /\ Call(steps)
    /\ UNCHANGED <<settings, base, point, due, counts>>

\* prepare_instance_update
PrepareUpdate(i) ==
    /\ Update(i, "locked", "updating",
              IF joined[i] THEN <<Do("detach", i)>> ELSE <<>>)
    /\ UNCHANGED <<rows, files, overdue>>

Unpack(i) ==
    /\ app = "up" /\ Idle(i)
    /\ \/ /\ Advance(i, "updating", "unpacked")
          /\ \E s \in Servers \ used :
                /\ used' = used \cup {s}
                /\ file' = [file EXCEPT ![i] = Plain(<<New(s)>>)]
       \/ Advance(i, "updating", "bare") /\ UNCHANGED <<file, used>>
    /\ UNCHANGED <<rows, settings, projection, made, game, app, todo, due,
                    commands, edits, crashes>>

\* replace_modpack_servers: the other rows go behind those of the pack.
Replaced(i, datas) ==
    LET kept == SelectSeq(locals[i], LAMBDA l : l.source # "modpack")
        pack == [k \in DOMAIN datas |->
                    [id |-> FreshId(k), source |-> "modpack", excluded |-> None,
                     data |-> datas[k], position |-> k - 1]]
    IN  pack \o [k \in DOMAIN kept |->
                    [kept[k] EXCEPT !.position = Len(pack) + k - 1]]

Capture(i) ==
    /\ \/ /\ Update(i, "unpacked", "captured", <<>>)
          /\ CommitLocals(i, Replaced(i, List(i)))
       \/ /\ Update(i, "bare", "captured", <<>>)
          /\ CommitLocals(i, Replaced(i, <<>>))
    /\ overdue' = overdue \cup {i} /\ UNCHANGED files

\* reconcile_instance_after_pack_update.  The instance is still protected, so
\* reconcile_servers does nothing.
AfterPackUpdate(i) ==
    /\ Update(i, "captured", "last",
              IF IsPending(i) \/ (joined[i] /\ on) THEN <<>>
              ELSE <<Do("detach", i)>>)
    /\ UNCHANGED <<rows, files, overdue>>

FinishInstall(i) ==
    /\ app = "up" /\ Idle(i) /\ Advance(i, "last", "installed")
    /\ due' = due \cup {i}
    /\ UNCHANGED <<rows, settings, projection, files, game, app, todo, counts>>

---------------------------------------------------------------------------
\* Games.  A launch passes through the lock (sync_before_launch) shortly before
\* the game starts, so it waits for whoever holds it.  Assumed: nobody who takes
\* the lock in the short time after that has steps for this instance.
Launch(i) ==
    /\ MayAct /\ app = "up" /\ i \notin game /\ Idle(i)
    /\ stage[i] = "installed"
    /\ game' = game \cup {i}
    /\ UNCHANGED <<rows, settings, projection, files, stage, app, todo, due, counts>>

Edit(i, datas) ==
    /\ file' = [file EXCEPT ![i] = Plain(datas)]
    /\ edits' = edits + 1
    /\ UNCHANGED <<rows, settings, projection, made, stage, game, app, todo,
                    due, commands, crashes>>

MayEdit(i) == i \in game /\ edits < MaxEdits /\ MayAct
AddInGame(i) ==
    /\ MayEdit(i)
    /\ \E s \in Servers \ used :
          used' = used \cup {s} /\ Edit(i, Append(List(i), New(s)))
RemoveInGame(i) ==
    /\ MayEdit(i) /\ UNCHANGED used
    /\ \E k \in DOMAIN List(i) : Edit(i, RemoveAt(List(i), k))
ChangeInGame(i) ==
    /\ MayEdit(i) /\ UNCHANGED used
    /\ \E k \in DOMAIN List(i) :
          /\ Unchanged(List(i)[k])
          /\ \E d \in {Renamed(List(i)[k]), Moved(List(i)[k])} :
                Edit(i, [List(i) EXCEPT ![k] = d])
SwapInGame(i) ==
    /\ MayEdit(i) /\ UNCHANGED used
    /\ \E k \in DOMAIN List(i) \ {1} :
          Edit(i, [List(i) EXCEPT ![k] = List(i)[k - 1],
                                  ![k - 1] = List(i)[k]])

Exit(i) ==
    /\ i \in game /\ game' = game \ {i}
    /\ \/ Overlap \/ ~Participating(i) \/ ~Differs(i)
       \/ todo = <<>> /\ Unread = {} /\ pending = <<>>
    /\ due' = IF app = "up" THEN due \cup {i} ELSE due
    /\ UNCHANGED <<rows, settings, projection, files, stage, app, todo, counts>>

---------------------------------------------------------------------------
\* Reconciliation, after a game, on a change of the file, and at the start.
ReconcileDue(i) ==
    /\ i \in due /\ due' = due \ {i}
    /\ Call(Apply \o <<Do("reconcile", i)>>)
    /\ UNCHANGED <<rows, settings, projection, files, stage, counts>>

Watch(i) ==
    /\ Free /\ Participating(i) /\ Differs(i)
    /\ Call(Apply \o <<Do("servers", i)>>)
    /\ UNCHANGED <<rows, settings, projection, files, stage, due, counts>>

Crash ==
    /\ app = "up" /\ crashes < MaxCrashes /\ MayAct
    /\ \A i \in Instances : stage[i] = "installed"
    /\ CloseEarly \/ \A i \in Instances : ~Participating(i) \/ point[i] # None
    /\ app' = "down" /\ todo' = <<>> /\ due' = {}
    /\ crashes' = crashes + 1
    /\ overdue' = overdue \cup {i \in Instances : Now("begin", i)}
    /\ UNCHANGED <<rows, settings, base, point, files, stage, game, used,
                    commands, edits>>

Boot ==
    /\ app = "down" /\ app' = "up"
    /\ todo' = Apply \o Each("reconcile")
    /\ UNCHANGED <<rows, settings, projection, files, stage, game, due, counts>>

---------------------------------------------------------------------------
Step(i) ==
    \/ Begin(i) \/ Generate(i) \/ EnsureLink(i) \/ Finish(i) \/ Detach(i)
    \/ Put(i) \/ RegenerateOne(i) \/ Reconcile(i) \/ RestoreServers(i)
    \/ MergeServers(i) \/ Seed(i) \/ Join(i) \/ Defer(i) \/ Prefer(i)
    \/ Enable(i) \/ Disable(i) \/ Leave(i) \/ Retire(i) \/ Ensure(i)
    \/ Follow(i) \/ Complete(i) \/ Joined(i) \/ ApplyChange(i)

Player(i) ==
    \/ AddServer(i) \/ UpdateServer(i) \/ RemoveServer(i) \/ Desync(i)
    \/ AddInGame(i) \/ RemoveInGame(i) \/ ChangeInGame(i) \/ SwapInGame(i)
    \/ SwitchOff(i) \/ SetGlobalFromBase(i)
    \/ JoinInstance(i) \/ LeaveInstance(i)
    \/ Launch(i) \/ Exit(i) \/ LockInstance(i)

Next ==
    \/ \E i \in Instances :
          \/ Step(i) \/ Player(i)
          \/ PrepareUpdate(i) \/ Unpack(i) \/ Capture(i) \/ AfterPackUpdate(i)
          \/ FinishInstall(i) \/ ReconcileDue(i) \/ Watch(i)
    \/ UpdateSynced \/ RemoveSynced
    \/ Crash \/ Boot

Spec == Init /\ [][Next]_vars
=============================================================================
