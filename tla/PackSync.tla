------------------------------ MODULE PackSync ------------------------------
(***************************************************************************)
(* The worker that keeps the synced packs of every instance equal to the   *)
(* pack library (packages/app-lib/src/api/instance/synced_packs: worker.rs,*)
(* reconciliation.rs, storage.rs).                                         *)
(*                                                                         *)
(* Requests gather in a queue behind a mutex that is never held over an    *)
(* await; one spawned task at a time takes instances from it.  Inserting a *)
(* request and start()ing the worker are two critical sections, and so are *)
(* a timer's two.  A run reads the library under the synced-options lock,  *)
(* lets the lock go while it downloads, and must then find the library,    *)
(* the instance's files and its metadata unchanged.                        *)
(*                                                                         *)
(* Abstractions.  The library is a version number; an instance has applied *)
(* one of the versions.  Its files are a fingerprint number.  An instance  *)
(* is held while a run must skip it (sync_files_are_protected, a           *)
(* quarantine, a pending change): installs hold it here.  The games a user *)
(* plays, and which packs take part, are left out.  The BTree order of     *)
(* instance ids is left open; that waiters go first is kept.               *)
(***************************************************************************)
EXTENDS Naturals, FiniteSets

CONSTANTS
    Instances,   \* instance ids
    Clients,     \* tasks of the app that use the worker
    Workers,     \* slots for spawned worker tasks
    None,
    Rounds,      \* Preparation::run calls in one run
    MaxChanges,  \* edits, content changes and installs: a bound
    MaxFlushes,  \* flush calls: a bound
    MaxFaults    \* rate limits and errors met by the worker: a bound

ASSUME BoundsAssumption ==
    /\ Rounds \in Nat \ {0}
    /\ MaxChanges \in Nat /\ MaxFlushes \in Nat /\ MaxFaults \in Nat

ASSUME NoneAssumption ==
    None \notin Instances \cup Clients \cup Workers

ASSUME ActorsAssumption ==
    Clients \cap Workers = {} /\ IsFiniteSet(Workers)

VARIABLES
    queue,      \* struct Queue; the channels of its waiters are clients
    worker,     \* the spawned loops
    asleep,     \* instances whose retry timer sleeps
    awake,      \* retry timers that removed their retry_at, before start()
    due,        \* instances whose retry_at has passed
    client,
    lock,       \* holder of lock_synced_options
    lib,        \* version of packs.json
    revision,   \* PackSyncWorker::revision
    content,    \* fingerprint of an instance's files
    local,      \* instances with a change the library has not captured
    held,       \* instances a run must skip
    alive,      \* instances not deleted
    applied,    \* the version an instance's packs are at
    excused,    \* observation: a run was given up, or skipped for an install
                \* that then failed
    changes, flushes, faults

shared == <<lock, lib, revision, content, local, applied>>
world == <<held, alive>>
timers == <<asleep, awake, due>>
counts == <<changes, flushes, faults>>
vars == <<queue, worker, timers, client, shared, world, excused, counts>>

View == [lib : Nat, rev : Nat, print : Nat, held : BOOLEAN]
NoView == [lib |-> 0, rev |-> 0, print |-> 0, held |-> FALSE]

WorkerPcs == {"off", "sleep", "list", "pick", "begin", "read", "work",
              "apply", "deliver"}
Results == {"none", "ok", "skipped", "broken", "changed", "limited", "error"}

Worker == [pc : WorkerPcs, at : Instances \cup {None},
           pending : SUBSET Clients, view : View, left : 0..Rounds,
           result : Results]

Off == [pc |-> "off", at |-> None, pending |-> {}, view |-> NoView,
        left |-> 0, result |-> "none"]

ClientPcs == {"idle", "start", "flushing", "waiting", "install", "installed",
              "capture", "work"}

Client == [pc : ClientPcs, at : Instances \cup {None}, view : View,
           asked : Nat]

Idle == [pc |-> "idle", at |-> None, view |-> NoView, asked |-> 0]

Init ==
    /\ queue = [instances |-> {}, waiters |-> [i \in Instances |-> {}],
                retryAt |-> {}, all |-> FALSE, running |-> FALSE]
    /\ worker = [w \in Workers |-> Off]
    /\ asleep = {} /\ awake = 0 /\ due = {}
    /\ client = [c \in Clients |-> Idle]
    /\ lock = None
    /\ lib = 0 /\ revision = 0
    /\ content = [i \in Instances |-> 0]
    /\ local = {} /\ held = {} /\ alive = Instances
    /\ applied = [i \in Instances |-> 0]
    /\ excused = {}
    /\ changes = 0 /\ flushes = 0 /\ faults = 0

----------------------------------------------------------------------------
(* start(). *)

\* Mutant: start() does not look at running.
StartAlways ==
    /\ queue' = [queue EXCEPT !.running = TRUE]
    /\ \E w \in Workers :
         /\ worker[w].pc = "off"
         /\ worker' = [worker EXCEPT ![w] = [Off EXCEPT !.pc = "sleep"]]

\* Spawns the worker unless one is running.
Started ==
    \/ queue.running /\ UNCHANGED <<queue, worker>>
    \/ /\ ~queue.running
       /\ queue' = [queue EXCEPT !.running = TRUE]
       /\ \E w \in Workers :
            /\ worker[w].pc = "off"
            /\ worker' = [worker EXCEPT ![w] = [Off EXCEPT !.pc = "sleep"]]

----------------------------------------------------------------------------
(* What the app asks of the worker. *)

Becomes(c, pc) == client' = [client EXCEPT ![c].pc = pc]

\* The last step of every client: start(), and the synced-options lock goes.
Start(c) ==
    /\ client[c].pc \in {"start", "flushing"}
    /\ Started
    /\ IF client[c].pc = "flushing" THEN Becomes(c, "waiting")
       ELSE client' = [client EXCEPT ![c] = Idle]
    /\ lock' = IF lock = c THEN None ELSE lock
    /\ UNCHANGED <<timers, lib, revision, content, local, applied, world,
                   excused, counts>>

\* flush, as the launch of an instance calls it.  An instance whose retry_at
\* has not passed is refused; otherwise the waiter and the request go in
\* together.
Flush(c, i) ==
    /\ client[c].pc = "idle" /\ flushes < MaxFlushes
    /\ flushes' = flushes + 1
    /\ IF i \in queue.retryAt \ due
       THEN UNCHANGED <<queue, client>>
       ELSE /\ queue' = [queue EXCEPT !.instances = @ \cup {i},
                                      !.waiters[i] = @ \cup {c}]
            /\ client' = [client EXCEPT ![c] = [Idle EXCEPT
                              !.pc = "flushing", !.at = i, !.asked = lib]]
    /\ UNCHANGED <<worker, timers, shared, world, excused, changes, faults>>

\* A command that edits the library under the lock: apply_all writes it and
\* asks for every instance.
Edit(c) ==
    /\ client[c].pc = "idle" /\ lock = None /\ changes < MaxChanges
    /\ changes' = changes + 1
    /\ lib' = lib + 1 /\ revision' = revision + 1 /\ lock' = c
    /\ queue' = [queue EXCEPT !.all = TRUE]
    /\ Becomes(c, "start")
    /\ UNCHANGED <<worker, timers, content, local, applied, world, excused,
                   flushes, faults>>

\* An install takes hold of an instance ...
Hold(c, i) ==
    /\ client[c].pc = "idle" /\ i \in alive \ held /\ changes < MaxChanges
    /\ changes' = changes + 1
    /\ held' = held \cup {i}
    /\ client' = [client EXCEPT ![c].pc = "install", ![c].at = i]
    /\ UNCHANGED <<queue, worker, timers, shared, alive, excused, flushes,
                   faults>>

\* ... and lets it go.  Only an install that succeeds asks for a run.
Release(c) ==
    LET i == client[c].at
    IN  /\ client[c].pc = "install"
        /\ held' = held \ {i}
        /\ \/ Becomes(c, "installed") /\ UNCHANGED excused
           \/ /\ client' = [client EXCEPT ![c] = Idle]
              /\ excused' = excused \cup {i}
        /\ UNCHANGED <<queue, worker, timers, shared, alive, counts>>

\* queue_reconciliation, after the installation.
Request(c) ==
    /\ client[c].pc = "installed"
    /\ queue' = [queue EXCEPT !.instances = @ \cup {client[c].at}]
    /\ Becomes(c, "start")
    /\ UNCHANGED <<worker, timers, shared, world, excused, counts>>

\* A command changes the content of an instance without the lock, and then
\* has to capture the change (reconcile_after_content_change).  There is
\* nothing to capture where the library has placed no packs.
Touch(c, i) ==
    /\ client[c].pc = "idle" /\ i \in alive \ held /\ changes < MaxChanges
    /\ changes' = changes + 1
    /\ content' = [content EXCEPT ![i] = @ + 1]
    /\ local' = IF applied[i] # 0 THEN local \cup {i} ELSE local
    /\ client' = [client EXCEPT ![c].pc = "capture", ![c].at = i]
    /\ UNCHANGED <<queue, worker, timers, lock, lib, revision, applied, world,
                   excused, flushes, faults>>

\* remove_instance holds the lock over the whole removal.
Delete(i) ==
    /\ i \in alive /\ lock = None /\ changes < MaxChanges
    /\ changes' = changes + 1
    /\ alive' = alive \ {i}
    /\ UNCHANGED <<queue, worker, timers, client, shared, held, excused,
                   flushes, faults>>

----------------------------------------------------------------------------
(* Preparation::run. *)

ViewOf(i) == [lib |-> lib, rev |-> revision, print |-> content[i],
              held |-> i \in held]

\* Mutant: the revision is not compared.
ValidFiles(i, view) ==
    i \in alive /\ view.print = content[i] /\ view.held = (i \in held)

\* validate_metadata, the revision and the fingerprint.
Valid(i, view) ==
    /\ i \in alive
    /\ view.held = (i \in held)
    /\ view.rev = revision
    /\ view.print = content[i]

\* capture_after_change up to its download.  An instance that is held, gone
\* or without packs cannot be captured; it is queued instead.
Capture(c) ==
    LET i == client[c].at
    IN  /\ client[c].pc = "capture" /\ lock = None
        /\ \/ /\ i \notin alive \/ i \in held \/ applied[i] = 0
              /\ queue' = [queue EXCEPT !.instances = @ \cup {i}]
              /\ Becomes(c, "start")
           \/ /\ i \in alive \ held /\ applied[i] # 0
              /\ client' = [client EXCEPT ![c].pc = "work",
                                          ![c].view = ViewOf(i)]
              /\ UNCHANGED queue
        /\ UNCHANGED <<worker, timers, shared, world, excused, counts>>

\* capture_after_change after its download: start over if anything changed;
\* otherwise write the captured library and queue every instance, or just
\* queue this one when there was nothing to capture or an error.
EndCapture(c) ==
    LET i == client[c].at
        view == client[c].view
        caught == i \in local
    IN  /\ client[c].pc = "work" /\ lock = None
        /\ \/ /\ ~Valid(i, view) /\ Becomes(c, "capture")
              /\ UNCHANGED <<queue, lock, lib, revision, local, faults>>
           \/ /\ Valid(i, view)
              /\ lib' = IF caught THEN view.lib + 1 ELSE view.lib
              /\ revision' = IF caught THEN revision + 1 ELSE revision
              /\ local' = local \ {i}
              /\ lock' = c
              /\ queue' = IF caught
                          THEN [queue EXCEPT !.all = TRUE]
                          ELSE [queue EXCEPT !.instances = @ \cup {i}]
              /\ Becomes(c, "start")
              /\ UNCHANGED faults
           \/ /\ Valid(i, view) /\ faults < MaxFaults
              /\ faults' = faults + 1
              /\ queue' = [queue EXCEPT !.instances = @ \cup {i}]
              /\ Becomes(c, "start")
              /\ UNCHANGED <<lock, lib, revision, local>>
        /\ UNCHANGED <<worker, timers, content, applied, world, excused,
                       changes, flushes>>

----------------------------------------------------------------------------
(* The worker's loop. *)

\* After its pause the worker takes the request for every instance.
Take(w) ==
    /\ worker[w].pc = "sleep"
    /\ worker' = [worker EXCEPT ![w].pc = IF queue.all THEN "list" ELSE "pick"]
    /\ queue' = [queue EXCEPT !.all = FALSE]
    /\ UNCHANGED <<timers, client, shared, world, excused, counts>>

\* Mutant: an error of list_instances is only logged.
ListOrForget(w) ==
    /\ worker[w].pc = "list"
    /\ worker' = [worker EXCEPT ![w].pc = "pick"]
    /\ \/ queue' = [queue EXCEPT !.instances = @ \cup alive]
          /\ UNCHANGED faults
       \/ faults < MaxFaults /\ faults' = faults + 1 /\ UNCHANGED queue
    /\ UNCHANGED <<timers, client, shared, world, excused, changes, flushes>>

\* list_instances; an error puts the request back.
List(w) ==
    /\ worker[w].pc = "list"
    /\ worker' = [worker EXCEPT ![w].pc = "pick"]
    /\ \/ queue' = [queue EXCEPT !.instances = @ \cup alive]
          /\ UNCHANGED faults
       \/ /\ faults < MaxFaults /\ faults' = faults + 1
          /\ queue' = [queue EXCEPT !.all = TRUE]
    /\ UNCHANGED <<timers, client, shared, world, excused, changes, flushes>>

Waited == {i \in Instances : queue.waiters[i] # {}} \ queue.retryAt

Pickable == Waited \cup (queue.instances \ queue.retryAt)

\* Mutant: the worker stops although every instance was asked for meanwhile.
PickOrStop(w) ==
    /\ worker[w].pc = "pick"
    /\ \/ \E i \in IF Waited # {} THEN Waited ELSE Pickable :
            /\ queue' = [queue EXCEPT !.instances = @ \ {i},
                                      !.waiters[i] = {}]
            /\ worker' = [worker EXCEPT ![w] = [Off EXCEPT !.pc = "begin",
                              !.at = i, !.pending = queue.waiters[i]]]
       \/ /\ Pickable = {}
          /\ queue' = [queue EXCEPT !.running = FALSE]
          /\ worker' = [worker EXCEPT ![w] = Off]
    /\ UNCHANGED <<timers, client, shared, world, excused, counts>>

\* In one critical section the worker takes an instance that no timer keeps
\* back, those with waiters first, with everybody who waits for it; or it
\* finds nothing, and goes on or stops.
Pick(w) ==
    /\ worker[w].pc = "pick"
    /\ \/ \E i \in IF Waited # {} THEN Waited ELSE Pickable :
            /\ queue' = [queue EXCEPT !.instances = @ \ {i},
                                      !.waiters[i] = {}]
            /\ worker' = [worker EXCEPT ![w] = [Off EXCEPT !.pc = "begin",
                              !.at = i, !.pending = queue.waiters[i]]]
       \/ /\ Pickable = {} /\ queue.all
          /\ worker' = [worker EXCEPT ![w].pc = "sleep"]
          /\ UNCHANGED queue
       \/ /\ Pickable = {} /\ ~queue.all
          /\ queue' = [queue EXCEPT !.running = FALSE]
          /\ worker' = [worker EXCEPT ![w] = Off]
    /\ UNCHANGED <<timers, client, shared, world, excused, counts>>

Ends(w, result) ==
    worker' = [worker EXCEPT ![w].pc = "deliver", ![w].result = result]

\* run_queued looks the instance up before it waits for the lock.
Begin(w) ==
    LET i == worker[w].at
    IN  /\ worker[w].pc = "begin"
        /\ \/ i \notin alive /\ Ends(w, "skipped")
           \/ /\ i \in alive
              /\ worker' = [worker EXCEPT ![w].pc = "read",
                                          ![w].view.held = i \in held]
        /\ UNCHANGED <<queue, timers, client, shared, world, excused, counts>>

\* Under the lock: nothing to do for an empty library, nothing allowed for a
\* held instance; else the first Preparation::run takes its view and lets the
\* lock go.
Read(w) ==
    LET i == worker[w].at
        heldThen == worker[w].view.held
    IN  /\ worker[w].pc = "read" /\ lock = None
        /\ \/ lib = 0 /\ Ends(w, "ok")
           \/ lib # 0 /\ heldThen /\ Ends(w, "skipped")
           \/ /\ lib # 0 /\ ~heldThen /\ (i \notin alive \/ i \in held)
              /\ Ends(w, "changed")
           \/ /\ lib # 0 /\ ~heldThen /\ i \in alive \ held
              /\ worker' = [worker EXCEPT ![w].pc = "work",
                                ![w].view = ViewOf(i), ![w].left = Rounds]
        /\ UNCHANGED <<queue, timers, client, shared, world, excused, counts>>

\* The end of Preparation::run, with the lock again.  A valid first round
\* captures local changes (and asks for every instance); rate limits and
\* other errors end the run, but a pack that cannot be prepared is only noted.
Work(w) ==
    LET i == worker[w].at
        view == worker[w].view
        caught == i \in local /\ worker[w].left = Rounds
    IN  /\ worker[w].pc = "work" /\ lock = None
        /\ \/ /\ ~Valid(i, view) /\ Ends(w, "changed")
              /\ UNCHANGED <<queue, lock, local, excused, faults>>
           \/ /\ Valid(i, view)
              /\ lock' = w
              /\ worker' = [worker EXCEPT ![w].pc = "apply",
                     ![w].view.lib = IF caught THEN @ + 1 ELSE @]
              /\ queue' = [queue EXCEPT !.all = @ \/ caught]
              /\ local' = IF caught THEN local \ {i} ELSE local
              /\ UNCHANGED <<excused, faults>>
           \/ /\ Valid(i, view) /\ faults < MaxFaults
              /\ faults' = faults + 1
              /\ \/ Ends(w, "limited") /\ UNCHANGED <<lock, excused>>
                 \/ /\ Ends(w, "error") /\ excused' = excused \cup {i}
                    /\ UNCHANGED lock
                 \/ /\ worker' = [worker EXCEPT ![w].pc = "apply",
                                                ![w].result = "broken"]
                    /\ lock' = w /\ excused' = excused \cup {i}
              /\ UNCHANGED <<queue, local>>
        /\ UNCHANGED <<timers, client, lib, revision, content, applied, world,
                       changes, flushes>>

\* Mutant: the lock is kept when the metadata turns out to have changed.
ApplyKeepingLock(w) ==
    LET i == worker[w].at
        view == worker[w].view
    IN  /\ worker[w].pc = "apply" /\ lock = w
        /\ lib' = view.lib /\ revision' = revision + 1
        /\ IF i \in alive \ held
           THEN /\ Ends(w, "ok") /\ lock' = None
                /\ applied' = [applied EXCEPT ![i] = view.lib]
                /\ excused' = excused \ {i}
           ELSE Ends(w, "changed") /\ UNCHANGED <<lock, applied, excused>>
        /\ UNCHANGED <<queue, timers, client, content, local, world, counts>>

\* Packs are placed, the library is written, and the lock goes: for the next
\* Preparation::run, or for good.
Apply(w) ==
    LET i == worker[w].at
        view == worker[w].view
        broken == worker[w].result = "broken"
        placing == applied[i] # view.lib
    IN  /\ worker[w].pc = "apply" /\ lock = w
        /\ lock' = None
        /\ lib' = view.lib
        /\ revision' = IF placing \/ broken \/ lib # view.lib
                       THEN revision + 1 ELSE revision
        /\ content' = IF placing THEN [content EXCEPT ![i] = @ + 1]
                                 ELSE content
        /\ \/ /\ worker[w].left > 1
              /\ \/ /\ i \in alive \ held
                    /\ worker' = [worker EXCEPT ![w].pc = "work",
                          ![w].left = @ - 1,
                          ![w].view = [lib |-> view.lib, rev |-> revision',
                                       print |-> content'[i], held |-> FALSE]]
                 \/ i \notin alive \ held /\ Ends(w, "changed")
              /\ UNCHANGED <<applied, excused>>
           \/ /\ worker[w].left = 1
              /\ IF broken THEN Ends(w, "broken") /\ UNCHANGED <<applied, excused>>
                 ELSE /\ Ends(w, "ok")
                      /\ applied' = [applied EXCEPT ![i] = view.lib]
                      /\ excused' = excused \ {i}
        /\ UNCHANGED <<queue, timers, client, local, world, counts>>

\* What a client sees when its channel is answered.
Answer(clients) ==
    client' = [c \in Clients |->
        IF c \notin clients THEN client[c]
        ELSE IF client[c].pc = "flushing" THEN [Idle EXCEPT !.pc = "start"]
        ELSE Idle]

Again(w) == worker' = [worker EXCEPT ![w] = [Off EXCEPT !.pc = "sleep"]]

\* Mutant: those who wait are forgotten.
RedoAlone(w) ==
    LET i == worker[w].at
    IN  /\ worker[w].pc = "deliver" /\ worker[w].result = "changed"
        /\ queue' = [queue EXCEPT !.instances = @ \cup {i}]
        /\ Again(w)
        /\ UNCHANGED <<timers, client, shared, world, excused, counts>>

\* PackSyncChanged: back into the queue, with those who wait.
Redo(w) ==
    LET i == worker[w].at
    IN  /\ worker[w].pc = "deliver" /\ worker[w].result = "changed"
        /\ queue' = [queue EXCEPT !.instances = @ \cup {i},
                                  !.waiters[i] = @ \cup worker[w].pending]
        /\ Again(w)
        /\ UNCHANGED <<timers, client, shared, world, excused, counts>>

\* Mutant: who waits by now keeps waiting, behind a timer nobody sets.
DeferUntimed(w) ==
    LET i == worker[w].at
    IN  /\ worker[w].pc = "deliver" /\ worker[w].result = "limited"
        /\ queue' = [queue EXCEPT !.instances = @ \cup {i},
                                  !.retryAt = @ \cup {i}]
        /\ Answer(worker[w].pending)
        /\ Again(w)
        /\ UNCHANGED <<timers, shared, world, excused, counts>>

\* Ratelimited: back into the queue behind a timer; everybody who waits by
\* now is told.
Defer(w) ==
    LET i == worker[w].at
    IN  /\ worker[w].pc = "deliver" /\ worker[w].result = "limited"
        /\ queue' = [queue EXCEPT !.instances = @ \cup {i},
                                  !.retryAt = @ \cup {i}, !.waiters[i] = {}]
        /\ asleep' = asleep \cup {i}
        /\ Answer(worker[w].pending \cup queue.waiters[i])
        /\ Again(w)
        /\ UNCHANGED <<awake, due, shared, world, excused, counts>>

\* Mutant: those who came during the run are answered as well.
DeliverToAll(w) ==
    LET i == worker[w].at
    IN  /\ worker[w].pc = "deliver"
        /\ worker[w].result \notin {"changed", "limited"}
        /\ queue' = [queue EXCEPT !.waiters[i] = {}]
        /\ Answer(worker[w].pending \cup queue.waiters[i])
        /\ Again(w)
        /\ UNCHANGED <<timers, shared, world, excused, counts>>

\* Any other result goes to those the run was begun for.
Deliver(w) ==
    /\ worker[w].pc = "deliver"
    /\ worker[w].result \notin {"changed", "limited"}
    /\ Answer(worker[w].pending)
    /\ Again(w)
    /\ UNCHANGED <<queue, timers, shared, world, excused, counts>>

----------------------------------------------------------------------------
(* The retry timers. *)

Elapse(i) ==
    /\ i \in queue.retryAt \ due
    /\ due' = due \cup {i}
    /\ UNCHANGED <<queue, worker, asleep, awake, client, shared, world,
                   excused, counts>>

\* sleep_until is over: retry_at goes in one critical section ...
Wake(i) ==
    /\ i \in asleep \cap due
    /\ asleep' = asleep \ {i} /\ due' = due \ {i}
    /\ awake' = awake + 1
    /\ queue' = [queue EXCEPT !.retryAt = @ \ {i}]
    /\ UNCHANGED <<worker, client, shared, world, excused, counts>>

\* Mutant: the timer does not call start().
WakeOnly ==
    /\ awake > 0 /\ awake' = awake - 1
    /\ UNCHANGED <<queue, worker, asleep, due, client, shared, world, excused,
                   counts>>

\* ... and start() is called after it.
TimerStart ==
    /\ awake > 0 /\ awake' = awake - 1
    /\ Started
    /\ UNCHANGED <<asleep, due, client, shared, world, excused, counts>>

----------------------------------------------------------------------------

Loop(w) == \/ Take(w) \/ List(w) \/ Pick(w) \/ Begin(w) \/ Read(w) \/ Work(w)
           \/ Apply(w) \/ Redo(w) \/ Defer(w) \/ Deliver(w)

\* What a client does by itself once it has begun.
Proceed(c) == Start(c) \/ Release(c) \/ Request(c) \/ Capture(c) \/ EndCapture(c)

Timer == TimerStart \/ \E i \in Instances : Elapse(i) \/ Wake(i)

Command == \/ \E c \in Clients : Edit(c)
           \/ \E c \in Clients, i \in Instances :
                 Flush(c, i) \/ Hold(c, i) \/ Touch(c, i)
           \/ \E i \in Instances : Delete(i)

Next == \/ \E w \in Workers : Loop(w)
        \/ \E c \in Clients : Proceed(c)
        \/ Timer
        \/ Command

Spec == Init /\ [][Next]_vars

\* Tokio runs every task that can go on; its mutex and its timers are served
\* in turn.  Nobody has to give a command.
FairSpec ==
    /\ Spec
    /\ \A w \in Workers : /\ WF_vars(Loop(w))
                          /\ SF_vars(Read(w)) /\ SF_vars(Work(w))
    /\ \A c \in Clients : /\ WF_vars(Proceed(c))
                          /\ SF_vars(Capture(c)) /\ SF_vars(EndCapture(c))
    /\ WF_vars(TimerStart)
    /\ \A i \in Instances : WF_vars(Elapse(i)) /\ WF_vars(Wake(i))
=============================================================================
