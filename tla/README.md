# Verification of the Monocle launcher core

This directory holds TLA+ models of the launcher's core
(`packages/app-lib/src`, the crate `theseus`), the TLC runs that check them on
small instances, and theorems about them that TLAPS checks for every value of
the constants.  `PROJECT.json` lists the components, the runs, the mutants that
show that a property can fail, the source lines behind each definition, the
hazards and the theorems.

## The system

The launcher is a fork of the Modrinth App: a Vue front end in a Tauri shell
(`apps/app/src`) over a Rust core.  The core keeps its durable state in a SQLite
database and in the files of the instances; everything else lives in one
`State` that all asynchronous tasks of a Tokio runtime share.  Tasks interleave
at every `await`, and the process can end at any of them.

| component | state | operations | what makes it hard | what makes it correct |
|---|---|---|---|---|
| install jobs (`install/`) | `install_jobs` rows, instance rows, instance files, backups, a semaphore | start, retry, cancel, dismiss, delete instance, `run_job`, recovery | each task works on a private copy of the row between awaits; crashes; a roll-back that fails | a job ends once; an instance is installed, being worked on, or rolled back; updates are atomic |
| synced packs (`api/instance/synced_packs`) | a queue behind a mutex, the library file and its revision, placements | `queue_*`, `flush`, the worker, `capture_after_change`, retry timers | the lock is released during downloads; start/stop of the worker; rate limits | no wake-up, waiter or edit is lost; instances catch up |
| skin changes (`api/minecraft_skins.rs`) | a pending change per profile, a cached profile, saved skins | equip, unequip, add, edit, remove, flush, list | debounce timers against flushes and new changes; requests whose answer is lost or overtaken; rows corrected by listings | the last choice wins; no skin of the player's is lost; what is reported as sent is worn |
| processes (`state/process.rs`, `api/instance/run.rs`) | running children, a watcher task each, rows that outlive the app, play time | launch, wait, kill, restart, report | the app is closed while games go on; pids are used again; a report against the next game | an instance is played once at a time; no play time is lost |
| synced servers and options (`api/instance/synced_servers`, `synced_options`) | the shared list, local rows, projections, checkpoints, `servers.dat`, requests that wait | switch, join, leave, read back, merge, write | games change the file at any time; each write is four steps; instances that are blocked are handled later | the shared list is what the players made of it, and everybody is shown it |
| instance content | content rows and files | install, update, remove, sync files | files and rows change separately | rows describe the files |
| fetching (`util/fetch.rs`) and cache | permits, rate-limit windows, fences | request, retry | retries and back-off | limits are respected, nobody waits forever |
| accounts, friends, tunnels, watcher, rpc | tokens, sockets | refresh, connect, forward | reconnects | one live connection |
| bots (`apps/app/src/bots.rs`) | bindings of instances to accounts, worker processes | save, launch, stop | check, then act on processes | a running game keeps its binding |
| libraries, shell, front end | - | - | - | - |

How they interact: the front end calls commands of the shell, which call the
core.  Launching an instance checks its install stage, which install jobs hold
at `*_installing` while they work, and awaits `flush` of the pack worker.  A
job that succeeds, and a command that changes content, queue the instance with
the pack worker.  The pack worker skips instances whose install stage protects
their files, and notices that the stage has changed under it.  The end of a
game, and the end of an install, have the server lists of the instance
reconciled under the synced-options lock; whether an instance is installing or
running decides whether its list may be written.  Deleting an
instance cancels its jobs first; the foreign key of `install_jobs.instance_id`
then sets the column to NULL.

## Modules

| module | what it is |
|---|---|
| `InstallJobs` | the install job runner, its store and its recovery |
| `InstallJobsProperties` | what the runner promises |
| `JobLifecycle` | abstract: the life of a job as the statuses it is told |
| `MCInstallJobs` | symmetry for TLC |
| `InstallJobsProofs` | theorems about `InstallJobs`: types, permits, late workers; for a client that issues one command at a time, who works on what, the launch guard, backups |
| `InstallJobsLifeProofs` | ... the safety part of the refinement of `JobLifecycle`, errors of rollbacks, nobody leaves a job active that no task will finish |
| `InstallJobsCleanProofs` | ... what the jobs leave behind: rollbacks that can be repeated, locks, stages and files that somebody answers for |
| `PackSync` | the pack worker, its queue, timers and optimistic runs |
| `PackSyncProperties` | what the worker promises |
| `LibraryReplication` | abstract: one library and instances that follow it |
| `MCPackSync` | symmetry for TLC |
| `PackSyncProofs` | theorems about `PackSync`: the queue, the worker and the timers; what the runs bring to the instances |
| `PendingSlot` | abstract: one account's pending and running skin change |
| `SkinQueue` | the debounced queue of skin changes, its timers and flushes |
| `SkinQueueProperties` | what the queue promises |
| `MCSkinQueue` | symmetry for TLC |
| `SkinQueueProofs` | theorems about `SkinQueue` |
| `SkinWardrobe` | how one account's change is sent, on top of `PendingSlot` |
| `SkinWardrobeProperties` | what sending and listing promise |
| `MCSkinWardrobe` | symmetry for TLC |
| `SkinWardrobeProofs` | theorems about `SkinWardrobe` |
| `ServerMerge` | server lists as data: what an instance is shown, and how an edited list is matched and merged |
| `ServerSync` | sharing server lists between instances, on top of `ServerMerge` |
| `SharedServers` | abstract: one list of servers that several players change |
| `ServerSyncProperties` | what sharing promises |
| `MCServerSync` | symmetry for TLC |
| `ServerSyncProofs` | theorems about `ServerSync`: checkpoints, what is on disk, lists of running games |
| `GameSessions` | launches, games, watchers, rows, play time and bindings |
| `GameSessionsProperties` | what the launcher promises about games |
| `MCGameSessions` | symmetry for TLC |
| `GameSessionsProofs` | theorems about `GameSessions` |

### InstallJobs

A job is a row: `status`, the kind of request, the `instance_id` column and the
serialized state (`js`), of which the model keeps what control depends on: the
id in target and cleanup, the stage to roll back to, whether a staging
directory and a roll-back error are recorded.  A task slot is one command or
one spawned `run_job`, with the private copy of `js` it works on; each of its
steps ends at a database or file-system `await`.  `role` and `pc` say where it
is:

- `Start`, `Retry`, `Requeue`, `PrepareNew`, `PrepareExisting`, `Persist`,
  `LockAndSpawn`: `start` and `retry_job` up to the spawned task;
- `RunRead`, `Acquire`, `Claim`, `WorkNew`, `WorkExisting`, `Backup`,
  `SaveBackup`, `Install`, `Reread`, `Succeed`: `run_job`; `Strand` and
  `CheckStranded` are `terminalize_stranded_job`;
- `RemoveNewInstance`, `NothingToUndo`, `RestoreStage`, `BeginRestore`,
  `EndRestore`, `FailJob`, `InterruptJob`, `ClearStaging`: `apply_cleanup` and
  what follows it, shared by failure, cancel, retry and recovery;
- `Cancel`, `ClaimCancel`, `FinishCancel`, `Dismiss`, `Delete`,
  `CancelForDeletion`, `RemoveInstance`: the other commands;
- `Crash`, `Boot`, `Recover`, `RecoverDeleted`, `Recovered`: the end of the
  process at any point, and `recover_interrupted_jobs`.

The statements of `store.rs` are operators on the row (`Updated`, `WithStatus`,
`FinishActive`), with their WHERE clauses and with the foreign key: a statement
that binds the id of a deleted instance fails (`FkOk`), one that selects it
writes NULL (`Selected`).  `finish_active` and the `dismiss` that follows it in
`cancel_jobs_for_instance_deletion` and in recovery are one step; no other
task reads `dismissed`.

Bounds of `InstallJobsCrash`: two jobs and three tasks give every pair of a
worker with a command or with another worker; one instance that exists and two
ids for new ones let a retry create a second instance; of two jobs that create
instances, one has to wait for the one permit.  `InstallJobsLifecycle` has one
instance and no job that creates another, so one job lives at a time, with two
tasks.  `MaxCrashes`, `MaxRetries` and the sets `Kinds`, `Commands`, `Faults`
bound what happens in a run.

`Serial` says that the client issues one command at a time per job and
instance, and starts no job for an instance that is being worked on.  The front
end does so with a few exceptions (see the finding).  Without it, and at a few
places even with it, the code can leave something behind:

- a cancel that overlaps `start`, and a crash between the creation of an
  instance and the statement that saves its id, leave an instance behind;
- a crash, or a removal that fails, between the two halves of deleting an
  instance leaves it locked;
- a crash of `retry_job` after it has removed a backup leaves a failed
  roll-back that cannot be repeated;
- a second job for an instance that is "installing" records that stage as the
  one to go back to.  The instance may be so because the first job's roll-back
  failed; if that of the second fails too, retrying the first and then the
  second puts back what the first failure had left (found by TLC with two
  retries).

Each is a hazard in PROJECT.json, and the reason why a property is limited:
`NoOrphanInstance` and `FailedRollbackRepeatable` speak of the time until the
app is closed once (`crashes = 0`), `NoOrphanInstance`, `NoOrphanLock` and
`UpdateIsAtomic` of the time until the second retry (`retries <= 1`; the run has
two, for the other properties), and `InstallJobsCrash`, which checks them, has
no deletions.  `TypeOK`, `PermitBound` and `LateWorkerLeavesFinishedJob` need no
such limit; the theorems about them hold for any overlap of commands.

Four more places are in the code.  A worker whose statement failed checks its
job and then rolls it back; a cancel that claims the job in between is not seen,
and the job is reported as failed and then as canceled.  `InstallJobsCrash` has
such failures and shows that instances come to no harm; `InstallJobsLifecycle`,
in which a job must end once, does not.  The other three are in no run.  An
event for the front end that cannot be sent is an error like any other; the
model has that of the lock after the preparation (`"lock"`).  The one that
follows (runner.rs:248 and 426) returns before the worker is spawned, and leaves the
job queued until the next start.  The
cancel of a create job whose instance row is deleted, but whose directory cannot
be removed, ends in a statement that binds the id of the deleted instance and
fails (runner.rs:319); recovery repeats it.  Progress reporters keep a private
copy of the job state and save all of it (events.rs:131), so the last writer
wins; the fields that control recovery are set through one reporter.

### PackSync

`queue` is `struct Queue`: `instances`, `waiters`, `retry_at`, `all`,
`running`.  Every critical section of its mutex is a step of its own, so
inserting a request and `start` are two, as are the two halves of a timer.
`worker` holds the spawned loops (`Take`, `List`, `Pick`, `Begin`, `Read`,
`Work`, `Apply`, then `Redo`, `Defer` or `Deliver` by result).  `client` holds
tasks of the app: `Flush` (a launch), `Edit` (a command on the library),
`Touch`/`Capture`/`EndCapture` (a change of an instance's content and the
capture that follows it), `Hold`/`Release`/`Request` (an install).  `Elapse`,
`Wake` and `TimerStart` are the retry timers.

The library is a version number `lib` that grows with every edit and capture,
`revision` the counter that `write_library` raises, `content` a fingerprint of
an instance's files, `local` the instances with a change not captured yet,
`applied` the version an instance's packs are at.  `Rounds` is the number of
`Preparation::run` calls in a run; each lets the synced-options lock go, and at
its end (`Valid`) looks at the instance, its stage, the revision and the
fingerprint again.  `excused` is a history variable: it names the instances
whose last run reported an error, and those an install held when it failed.

`RestIsSynced` excuses an instance that an install held: an install that fails
asks for no run (runner.rs:718), so its packs wait for the next request.

What a run does in detail (which packs take part, what is downloaded, where it
is put, what a running game hides) is left out, and so is the BTree order in
which the worker takes instances; that those with waiters come first is kept.

### SkinQueue

`pending` is `PENDING_SKIN_CHANGE`, `holder` the task that holds
`SKIN_CHANGE_FLUSH_LOCK`.  A task is a timer that
`schedule_pending_skin_change_flush` has spawned (`Set`, `Wake`) or a call of
`flush_pending_skin_change`, with or without an account (`Flush`).  Both run
`flush_pending_skin_change_inner`: `Lock`, `Take` by filter, and then `Applied`,
`Failed` or `Settled`.  The generation of an entry is as in the code: one more
than the entry it replaces, and 1 when there is none.

`newest` and `applied` are observations that number the changes of an account;
`owed` belongs to a task: what a flush found waiting.  Sending is one step here.

Bounds: two accounts with two changes each, one skin, three tasks and one failure let
a newer change arrive while an older one is sent, fails and is put back while
timers of both are asleep.  A timer started by a failed flush takes that
flush's task slot; in the code the two overlap only between the last statement
of the one and the first of the other.

### SkinWardrobe

The queue is `PendingSlot`, which `SkinQueue` implements for every account, so
the timers need not be repeated: `Send` takes the change, `Succeed` and `Fail`
end it.  In between, `send.pc` walks through `add_and_equip_custom_skin_now`,
`equip_skin_now` or `unequip_skin_now`: `Profiled`, `Preserve`/`Reread`/`Keep`,
`Upload`, `Answered`/`Confirmed`, `Persist`, `DropOld`, `SyncCape`,
`CapeAnswered`, and `Refreshed` after an error.  `fetch` is the request for the
profile that the flush and a listing may each have under way; between the
answer of Mojang (`Answer`) and the write to `PROFILE_CACHE` (`Store`) anything
may happen.  `rows` are the saved skins: key and cape.  A texture has a key that
the app computes (`Local`) and the one Mojang gives it (`Hosted`).

The player's commands are the row statements and then the queue operation
(`AddAndEquip`/`SetAdded`, `Remove`/`CancelRemoved`, `Replace`/`DropReplaced`,
`Edit`, `Equip`, `Unequip`).  `List` to `ListWrite` are `get_available_skins`.
Mojang is external: `mojang` is the account's profile, and what a request does
to it is taken from how the code uses the answer.

`kept` is an observation: whether a texture of the player's has been saved, is
only worn, or has been removed by the player.  The guard `~Sent(t)` of
`AddAndEquip` and `Replace` is an assumption: the player does not save an image
once more while a change that equips it is being sent.  If he does, the flush
removes the row under the local key that he has just written
(minecraft_skins.rs:669-677), and the skin is saved under neither key.

Bounds: two textures of the player's and one default skin, one cape; two
commands, one listing and two faults.  Two textures make one skin replace
another; two commands let a change be replaced, canceled or removed while the
other is being sent, with a listing that overtakes either.

### ServerMerge and ServerSync

`ServerMerge` is the pure part.  A server is an identity the launcher cannot
see, with an address and a name that a player may change.  `Records` is
`compose_records`: the shared servers, less those a local row stands for, with
the local ones put in at their positions.  `Matching` is
`match_projection_entries`: equal entries first, then those of one address,
then those of one name, each taking the nearest entry that is left.  The
definition says which matching that is instead of building it: since all pairs
are ranked by one order, it is the only one no pair would leave.
`MergedLocals`, `MergedShared` and `Reordered` are the merge that follows,
`Candidates` and `Unknown` what an instance brings when it joins.

In `ServerSync` everything but games runs under the synced-options lock.  `todo`
is what the holder of the lock has still to do: a sequence of steps, each of
which ends at a statement or at a file operation, so the app can be closed
between any two (`Crash`, `Boot`).

- `Begin`, `Generate`, `EnsureLink`, `Finish` are `compose_instance`: the
  projection with a pending checkpoint, the generated file, the link to it
  (which removes another file first), the checkpoint made ready;
- `Reconcile`, `RestoreServers`, `MergeServers` are the reconciliation of one
  instance, which decides by the checkpoint whether there is an edit to read
  back; `Detach`, `Put` give an instance a file of its own;
- `AddServer`, `UpdateServer`, `RemoveServer`, `Desync`, `UpdateSynced`,
  `RemoveSynced` are the commands on servers; `SwitchOff`, `SetGlobalFromBase`,
  `JoinInstance`, `LeaveInstance` those on syncing, with `Seed`, `Join`,
  `Defer`, `Retire`, `Ensure`, `Follow` as their steps, and `pending` with
  `ApplyChange` for what waits until an instance may be written;
- `LockInstance` to `FinishInstall` are the update of a modpack as far as it
  concerns `servers.dat`; `Launch`, the edits in a game and `Exit` are external.

`Init` starts from an app in which syncing was never switched on, or from one in
which some instances share a server and others have a list of their own, or one
from a modpack.

A game does not start while the holder of the lock has a step for its instance
left.  `launch_minecraft` takes the lock itself for the game options just before
the game starts, so it waits for whoever holds it; that nobody takes the lock
for this instance in the moment between is an assumption.

Three constants are assumptions about what happens at once.  Each is FALSE in
`ServerSync`, because without it the code does lose something:

- `Overlap`: a game ends with edits while the edits of another are unread, while
  a request waits to be taken up, or while somebody holds the lock and has steps
  left; a command is given while edits are unread; or rows of an instance are
  changed under its own running game.  A list written then is written over those
  edits: that takes no second game, only a command whose regeneration is still
  under way when the game ends; see the finding.
- `PackWhileSynced`: a modpack is installed into an instance that takes part.
  Its `servers.dat` is taken for an edit of the player's: the pack's servers
  are shared, and those that were shared are taken off.
- `CloseEarly`: the app is closed before an instance that takes part has been
  given the list for the first time.  Its own list is then merged as if it were
  an edit of an empty one.

Besides, the app is not closed in this model while a modpack is being updated
(`Crash` asks that every instance is installed): the update is a job, and what is
left of one that was cut off is the business of `InstallJobs`.

Some gaps the properties name as their exceptions, so that they are exact, and
hold beyond the bounds of the run:

- a commit of an instance's own rows does not raise the revision.  If the app is
  closed before the list is written, or a modpack has just replaced rows, the
  instance is `overdue` (an observation of the model): its old list passes for
  up to date until something writes it (`UpToDateIsComposed`);
- a base that has to wait drops the join requests that wait
  (orchestration.rs:352, pending.rs:49).  The instance that had asked takes
  part all the same, with a projection of another list, so that its file is read
  back as the edit of a list it never had.  Servers of its modpack are shared
  then, and a server may come twice (`ReadStale` in `ShownOnce` and
  `PackServersStayLocal`);
- who keeps a copy of a shared server and took it off the shared list is shown it
  twice once another instance brings the server back (`KeepsCopy`); a server of
  a modpack that is shared as well is shown twice (`OwnRows`); and so is one that
  the player adds although it is shared (`AddServer` in `ShownOnce`).

Smaller gaps, none of which breaks a property as stated: two local rows of one
position fail the transaction, and the list is not read back; taking away the
instance's own copy of a shared server brings that server back (`EditsKept`
leaves it out); leaving with the instance that a switch waits for cancels the
request and leaves syncing on; an instance that does not take part has its file
written anew at every reconciliation.

`SharedServers` is the promise: the set of shared servers, seen with the edits
that were not read back, changes when a player acts, by one server, and in no
other way.  Reading back, writing, closing and starting the app are stutters.
The exceptions are the time in which syncing is being switched, and a server
that one instance adds while another removes it (`contested`).

Bounds: two instances and two servers; two edits in a game, of one list or of
two, or one edit and one command (`MaxActs`); and one closing of the app, before
the second of these, between any two steps but those of the update of a modpack.
A game starts before the second act too: after it, it could only block a
reconciliation, which one that is running already does.  When only one takes
part at first, it is the one that loops over instances reach first.  Every
shortest list with something to move, rename, readdress, add and remove is there,
two of these are done to a list at once, so that the passes of the matching
compete for an entry, and every command meets every edit.  The player may add in
the launcher a server that is shared already, as no address is compared there
(operations.rs:545-552); a game adds new ones only.  One command cannot leave and
join again: that an instance joins with a copy of the shared list is covered by
`Init`, which has one that takes no part and one from a modpack, and what needs two
switches (a base that waits and drops a join request) only by the exceptions that
the properties name.

### GameSessions

`launch` is the one launch that holds `SESSIONS` and `LAUNCH`, with its steps
`Begin`, `Prepared`, `Check`, `Recheck`, `Spawn`, `Persist`, `Call`, `Insert` and
what they do when they fail.  `game` is every process ever spawned, with a pid
that is free again when the process has been waited for.  `rows` is the table
`processes`, by pid: a row also holds a start time, which tells two processes
of one pid apart, so it names the game.  `managed` and `watch` are the manager
and its watchers (`Minute`, `Notice`, `Forget`, `Finish`), `submit` the reports
of play time (`ReadPlayed`, `Report`, `Mark`).  `Crash` closes the app and starts
it again; games go on.  `Inspect` is any look of the launcher at whether an
instance runs, which clears rows of dead processes.

`dropped` is an observation: the games whose launch failed after they may have
started to play.  The launcher kills them next, and `OneGame` leaves them out;
should that kill fail, such a game plays on unrecorded.  A game that still waits
for its launcher's call when the app is closed waits for ever; it is on record
and counts as running.  The look for running games before bindings are saved
asks the manager only, so `BindingKept` says nothing about a game that has
survived a restart.

Bounds: one instance, since launches of different instances share only the lock
and the pids; three games, two pids and two restarts let a watcher clear its row
after the pid went to a later game, with another restart in between; two
accounts let a binding change.  `MaxPlayed` is 1 there, as play time decides
nothing, and 2 in `GameSessionsTime`.

### Properties and runs

| run | states | checks |
|---|---|---|
| `InstallJobsLifecycle` | 473,329 | types; every active job has a task; launches are blocked while an instance changes; late workers leave finished jobs alone; refinement of `JobLifecycle`, with fairness, faults, a crash and deletions |
| `InstallJobsCrash` | 879,613 | two jobs at once, two crashes anywhere, locks and statements of a worker that fail: permits, backups, atomic updates, locks, roll-back errors; until the first, no instance is left behind and failed roll-backs can be repeated |
| `InstallJobsRetryRace` | violation | the documented promise of `retry_job` fails for two overlapping retries |
| `PackSyncQueue` | 389,842 | one worker, no lost wake-up, timers, waiters, fresh answers, no lost edit, a synced rest |
| `PackSyncLive` | 73,362 | every flush is answered; refinement of `LibraryReplication`, with fairness |
| `SkinQueue` | 415,214 | no change is lost, stranded or sent after a newer one; a flush leaves nothing it found; refinement of `PendingSlot` for every account; every change is applied, replaced or canceled |
| `SkinWardrobeSafety` | 3,142,017 | types; no skin is lost and what is reported as sent is worn, through faults and a listing that corrects rows |
| `SkinWardrobeUnequip` | violation | an unequip can leave the cape on |
| `ServerSync` | 820,830 | lists that are taken for up to date are; no step shows a server twice or shares one of a modpack, but for what is said above; edits survive their merge; refinement of `SharedServers` |
| `ServerSyncOverlap` | violation | the edits of one game can be written over after another |
| `GameSessions` | 2,339,580 | an instance is played once at a time; bindings change neither under a game nor under a launch |
| `GameSessionsTime` | violation | play time can be lost to a report under way |

All runs disable TLC's deadlock check: commands are bounded, so the system
rests when they are used up.  That it does not rest too early is what
`ActiveIsBacked`, `RestIsSynced` and the liveness properties say.

PackSync's bounds: two instances and two clients give an edit or capture that
races with a run of another instance, a flush of the same instance during its
run, and a waiter that joins a deferred one; two worker slots let a second
worker start if it could; two changes, two flushes and one fault make every
restart of a run and the timer happen.  `PackSyncLive` uses one instance, one
slot and one flush, so that TLC can explore the fair behaviours, and two
rounds, so that a run can be invalidated in the middle.

Fairness.  Tokio polls every task that can go on, so each task has weak
fairness.  The install semaphore and the Tokio mutex queue their waiters, so
acquiring them has strong fairness.  Timers fire.  Commands, crashes and faults
are never fair.  In `SkinQueue` a send ends, if only by the timeouts of the HTTP
client; that it fails only `MaxFailures` times is the bound.  With crashes,
`Boot` is fair: the app is opened again.  The liveness of `LibraryReplication`
(`WF` of catching up) holds because changes are bounded: as long as edits go on,
an instance may lag behind, in the code as well. `ServerSync` and `GameSessions`
have safety properties only: a list is read back whenever somebody next
reconciles, and a game may go on for ever.

### Findings

`OnlyFailedJobsAreRetried` is violated (`InstallJobsRetryRace`).  `retry_job`
compares the status (runner.rs:145-153) and later writes `queued`
unconditionally (runner.rs:175).  Of two retries that have passed the check,
the second puts a job back to queued that is running for the first, and a
second `run_job` works on it.  The notification's Retry button stays enabled
while the first command is pending.

`UnequipTakesCapeOff` (`SkinWardrobeUnequip`): `unequip_skin_now` compares the
cape with the profile it read first.  An answer that a listing received before
a cape was put on and stored after it makes that profile an old one; the cape
stays on, although the documentation of `unequip_skin` says otherwise.  The same
happens after a failed request falls back on what was cached.
`EquipTakesHold` shows that equipping a skin does not have this problem, because
it goes on with the profile in the answer to its upload.

`AddedServersKept` (`ServerSyncOverlap`): `regenerate_servers`
(synced_servers/operations.rs:909) writes the list of every instance that takes
part without reading back first what its game has left there.  When two games
have ended, reconciling the first takes away the server that was added in the
second.

`TimeKept` (`GameSessionsTime`): `mark_instance_playtime_submitted`
(launch_context.rs:181) sets `recent_time_played` to zero instead of
subtracting what was reported, so play time that the next game stores while
the request is under way is lost.

Smaller gaps of the skin changes have no run of their own.  Generations
restart at 1 once the entry is taken (minecraft_skins.rs:1057), so the timer of
a change that was flushed early sends the next one before its ten seconds are
over.  A listing writes the row it has read earlier, so a skin removed meanwhile
is saved again (minecraft_skins.rs:414).  And the flush removes a row whoever
has written it, as said above.  The first two are in the model, the third is
excluded.

## Proofs

`InstallJobsProofs` (constants arbitrary but for the named assumptions):

- `TypeCorrect`: `Spec => []TypeOK`.  `TypeOK` is inductive because it contains
  `WellFormed`: a task that acts has a job, and one that restores or installs
  has the stage it needs.  One lemma per action.
- `PermitsBounded`: `Spec => []PermitBound`.  Only `Acquire` adds a holder, and
  only below the bound; the lemmas on cardinalities say that a step of one task
  adds at most that task to the finite set of holders.
- `FinishedJobsStay`: `Spec => LateWorkerLeavesFinishedJob`, from `TypeOK`
  alone, because every other statement of the store compares the status.  It
  holds for any overlap of commands, so it does not depend on `Serial`.

The properties that need `Serial` have theorems of the form
`ASSUME Serial PROVE Spec => ...`, with whatever else the property needs as a
further named assumption.  Each of these is necessary: without it TLC finds a
counterexample, which is a way the code can really go.  The same module, under
`Serial`:

- `LaunchesAreBlocked` and `BackupsAreKept`: from `SerialInv`, the invariant
  that says who can be at work at once.  `Company`: two tasks act on one job
  only as a cancel and its worker, and at most one of the two has taken the job.
  `TasksApart`, `TaskRowApart` and `RowsApart`: an instance is the business of
  one job, counting all the tasks and all the active rows that name it; so no
  second job can take the lock away or remove the instance.  `DeletesAlone` is
  the same for a deletion.  `IdsBorn` keeps the id of a new instance apart from
  every id in use.  `RowsFit` and `QueuedUnstaged` tie the private copy of a
  task to its row: a worker that has not made its backup has none on record,
  and one that is going to save it has it.  `LeftToRecover` and `RolesFitApp`
  are what recovery finds.  The two properties are conjuncts of the invariant
  and not consequences: that a worker finds its instance locked is needed to
  keep it locked.
- The proof has one lemma per step of a task, `StepGood` to gather what any
  step does (`Good`: the fields it changes and what remains true of its task and
  its row), and then the separation once for all of them (`StepKeepsSerial`),
  as only four commands let a task begin.

`InstallJobsLifeProofs`, under `Serial`.  All but the last assume besides that
the lock which follows a preparation does not fail (`"lock" \notin Faults`):
`IdsInv` says that a command which clears up has no id in its row yet, and a lock
that fails comes after the id is saved.  `InstallJobsCrash` has such locks and
`InstallJobsLifecycle` as well.

- `StatusesLiveTheirLife`, unless a statement of `run_job` fails without reason
  (`"statement" \notin Faults`): a failing `mark_running` strands a job that a
  cancel has taken, and both report its end.  `IdsInv` says that a task and the
  row of its job name the same instance, and that what a deletion has listed
  stays an affair of the deletion; `LifeInv` that a cancel that has taken its
  job finds it running until it ends, and that `terminalize_stranded_job` is
  only at work beside it on a job whose instance is gone.
- `RollbackErrorsStayRetriable`, unless somebody dismisses jobs, which is how
  such an error is meant to leave the list.  `ErrorInv`: no task that has the
  work before it carries an old error into its next save, and what a deletion
  dismisses has been canceled first.
- `ActiveJobsAreBacked`, unless removing an instance fails between its row and
  its directory (`"directory" \notin Faults`), which leaves a canceled job
  running.  `BackedInv` names for each status the tasks that will finish the job
  (`Backs`), says the same of recovery (`RecoveryBacked`), and that the last
  statement of a cancel, which fails if the instance is gone, then has a
  stranded worker beside it (`CancelEnds`).

`InstallJobsCleanProofs`, under `Serial` and with locks that do not fail, as above:

- `FailedRollbacksAreRepeatable`: from `CopyInv`, together with `SerialInv`,
  `IdsInv` and `ErrorInv` (at the end of `InstallJobsLifeProofs`).  It says what
  the copy of a task and its row tell of
  a rollback: that both have the shape that the point of the task asks for
  (`Shaped`, `RowShaped`), that the state which a task has read is still the
  one in the row where nobody else may write it (`Copied`), and that the two
  agree on whether there is a backup (`Agrees`).
- `LocksAreAnswered`, `InstancesAreAnswered` and `UpdatesAreAtomic`
  (`NoOrphanLock`, `NoOrphanInstance`, `UpdateIsAtomic`), if no instance is
  deleted, and the last if no pack is installed into an instance, which makes no
  copy to go back to.  They are one proof, about a mess `m`: the lock on the
  instance, a stage other than installed, or files that are partly changed
  (`Dirty`).  `MessCovered` says who answers for it: a rollback that failed, an
  active row whose rollback will tidy up (`WillTidy`), or the command that has
  just created the instance.  This is not inductive: a rollback may restore a
  mess, when the job began on an instance that a failed rollback had left so.
  `MessInv` therefore follows the rollbacks that would: the row and every task
  that holds a copy of it name an instance that a failed rollback answers for
  (`MessFits`, `RowMess`), and each such chain ends in a failed rollback that
  was to restore nothing of the kind (`Root`).  So the first retry finds an
  instance that somebody else answers for, or tidies up; of the second this
  cannot be said, which is why the properties end there (`Tidy`).  `SoleInv`,
  which needs that nothing is deleted, says that the command that prepares a
  job finds it queued, its worker finds it running, and who ends it names the
  instance that its row names.  A closed app takes the command away that has
  created an instance, so for the stage the proof ends at the first crash; for
  the lock and the files it goes on.

`PackSyncProofs`:

- `TypeCorrect` and `WaitersKept`: `TypeOK` is not inductive by itself.  A
  client that holds the synced-options lock would become idle, keeping it, if a
  worker answered it by mistake; that this cannot happen is `WaiterKept`.
  `WaiterKept` in turn needs the part of `TypeOK` that a loop that has not
  picked an instance holds no waiters.  The two are inductive together.  The
  proof uses `Registered`, which states `WaiterKept` without set equalities.
- `WorkerIsUnique`: `TypeOK /\ OneWorker` is inductive; `start` is the only
  step that takes a slot, the end of `Pick` the only one that frees it.
- `WakeupsKept`: relative to the first two.  Whoever makes the queue non-empty
  is on its way to `start`; the worker stops only in the step that saw nothing.
- `TimersKept`: `retry_at` and the sleeping timers change together.
- `EditsAreKept`, `AnswersAreFresh`, `RestsInSync` and
  `InstancesFollowLibrary`: from `LibraryInv`, which adds three parts to those
  above.  `Library`: a view that has the current revision has the current
  library (`ViewsInDate`), which is why comparing revisions is enough for the
  whole library to be written back; no instance and no flush is ahead of it.
  `Fresh`: every waiter of a run asked for a library that the run has at least
  seen.  `Following`: an instance that is behind, or has changes to capture, is
  requested, about to be requested or being run (`BehindIsCovered`), and a run
  passes by only what somebody else will see to (`RunsLeaveNothing`): an
  instance that was held when it looked, a change that came after it had
  captured, a pack that could not be prepared.  At rest nothing is covered, so
  nothing is behind.  `InstancesFollowLibrary` is the safety part of
  `ImplementsReplication`.

`SkinQueueProofs`:

- `TypeCorrect`: inductive with `Orderly`, a part of `TypeOK`: a task past the
  lock is its holder, so at most one sends.
- `PendingStaysTimed`: relative to `TypeOK`.  Whoever makes an entry pending
  starts a timer with its generation in the same step, and a timer that is used
  up has taken the entry or found it replaced.
- `ChangesApplyInOrder`: from `Ordered`, the strengthening that numbers grow
  from the change last applied over the one in flight to the pending one.
- `NewestIsKept` and `QueueImplementsSlot`: through `Effect`, a lemma that sums
  up what any step does to one account's entry and its change in flight.  The
  refinement maps each such effect to an action of `PendingSlot` or a stutter.
- `FlushesSettle` (`FlushSettles`): from `FlushInv`.  A change is in one place at
  a time, waiting for one account or being sent for one (`Apart`), so a flush
  for one account owes changes of no other; and once such a flush has taken
  what waited, nothing that it owes can wait again, because only a failed send
  puts a change back and it holds the lock itself (`Owes`).  `Flows` says what
  any step may do to the places of the changes.

`SkinWardrobeProofs`, with the assumption that `None` is no profile:

- `TypeCorrect`: `TypeOK` as two parts per procedure, `Parts`, which are
  inductive: which fetch of a profile is under way is decided by the program
  counters of the flush and of the listing together.
- `EquippedSkinsAreWorn`: from `Matched`, which follows the profile through the
  flush.  Once the skin is uploaded the account wears it; the profile the flush
  goes on with is the one of the answer or, if that was lost, one that was
  fetched anew with nothing in the cache fresh, so the comparison of capes that
  follows is with the truth.
- `NoSkinIsLost`: from `Keeping`.  As long as the skin worn before is saved
  nowhere, every profile in circulation (the cache, the flush's, a fetch under
  way) names it (`WornIsKnown`), so whoever looks preserves the right one;
  nothing is uploaded before it is saved (`SavedBeforeUpload`), and the row under
  the old key goes only after the new one is there (`SavedBeforeDrop`,
  `ReplacedMayGo`).

`GameSessionsProofs`:

- `TypeCorrect`: a game that is launched, managed, watched, reported or on
  record was spawned.
- `OneGameAtATime`: from `Recorded`, which is inductive relative to `TypeOK`.
  `OnRecord` says that a game that lives, but for the one being started or
  dropped, is in the table; `PidsApart` that no two living games have one pid,
  so `Persist` replaces no living game's row; `LaunchAlone` that a launch past
  its last check finds no other game of its instance; `LaunchKnown` and
  `WatchKnown` tie the program counters to the processes.
- `BindingsKept`: from `Bound`, which adds that a launch still has the binding
  that it has read.  Only `Save` changes bindings, and it needs the lock.

`ServerSyncProofs`:

- `UpToDateListsAreRight`: `Spec => []UpToDateIsComposed`, without any of the
  three assumptions about what happens at once.  The property speaks of the
  moments in which nobody holds the lock; what is inductive, `SyncInv`, follows
  the holder's plan.  `Known`: a checkpoint of the present revision expects the
  list that the database gives, but for overdue instances, the one whose list is
  the very next thing to be written, and checkpoints that are only deferred.
  `Planned`: a checkpoint is finished only at the end of the four steps that
  write the list, and of those that are already begun the checkpoint is still
  of this moment (`Begun`, `Fresh`), since no statement comes in between.
  `Stored`: no checkpoint is ahead of the revision, and no row excludes a shared
  server that is gone, so a commit that changes no shared row changes no other
  instance's rows either (`WritesKeep`).  The proof has the sum of what a step
  may do to the rows, `Written`, and what it may put into the plan, `Whole`; it
  needs of the merge only that its result is committed.  The lemmas on `IsSeq`
  let plans be joined although their elements are records of different shapes.
- `ReadyMeansWritten` and `RunningGamesKeepTheirLists`, if no rows of an instance
  are changed under its running game (`~Overlap`): while a checkpoint is
  finished, the file is the list it names (`ListsAreWritten`); and the list of a
  running game is written by nobody but the player (`GamesKeepTheirLists`).
  From `FilesInv`: no step of the plan writes the list of a playing instance
  (`Quieted`), though the guard was asked when the step was planned; an
  instance into which a modpack is installed has no game (`Apart`); and between
  the steps that write a list, the generated file is there before the link and
  the link before the checkpoint is ready (`OnDisk`).  The two are no properties
  of a run; with `Overlap` TLC finds the second violated, when a list that is
  written for a change under a running game replaces what that game has saved.

Only model-checked:

- the liveness properties, and with them the liveness parts of
  `ImplementsLifecycle`, `ImplementsReplication` and `ImplementsSharedList`:
  out of the prover's reach;
- of `ServerSync`, `TypeOK`, `ShownOnce`, `PackServersStayLocal`, `EditsKept` and
  the refinement of `SharedServers`: they are about what the merge computes,
  which is defined by folds over rows, by `SelectSeq` and by the choice of a
  best match, and would need induction over data.

## Not modelled

Each component that is left out has its reason in PROJECT.json: libraries and
formats, the front end, services whose other side is unknown, and components
that the plan still has.  Most of the launcher's lines are of these kinds
(adapters that map rows, commands that forward, downloads, parsers), so the
models cover its control and a small part of its text.

Of the components that are modelled in part:

- synced servers: hidden entries, the links Windows needs, the capabilities of
  game versions, servers of linked projects (`ensure_managed_server`), the
  reconstruction of a pack's list from its download, and switching syncing on
  without a base;
- synced options: game options, command history, hotbars and screenshots, which
  share the switching but not the merge;
- processes: logs, hooks and the command line.  `wait_for` and `kill` hold a
  shard of the process map across an await (process.rs:377), which is below
  the steps of the model;
- a launch reads the install stage before waits of its own
  (`run_credentials`); `LaunchBlockedWhileInstalling` is about the moment it
  reads it.

## Plan

1. Proofs: the merge of `ServerSync`, with its folds as recursive functions.
2. Option files: the merge of game options as a pure function, checked against
   a reference.
3. `FetchLimits` (`util/fetch.rs`): rate-limit windows and the fence.
4. `FriendsSocket` (`state/friends.rs`): connection generations.
5. Content: rows against files under a crash.
