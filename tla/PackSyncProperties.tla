------------------------- MODULE PackSyncProperties -------------------------
(***************************************************************************)
(* What the pack sync worker promises, about PackSync.                     *)
(***************************************************************************)
EXTENDS PackSync

Live(w) == worker[w].pc # "off"

\* Nobody keeps the synced-options lock beyond the part of a run or command
\* that needs it, and what has begun for an instance knows its instance.
Orderly ==
    /\ lock \in Workers => worker[lock].pc = "apply"
    /\ lock \in Clients => client[lock].pc = "start"
    /\ \A w \in Workers : /\ worker[w].pc = "apply" => lock = w
                          /\ IF worker[w].pc \in {"off", "sleep", "list", "pick"}
                             THEN worker[w].pending = {}
                             ELSE worker[w].at \in Instances
                          /\ worker[w].pc \in {"work", "apply"}
                             => worker[w].left > 0
    /\ \A c \in Clients : client[c].pc \notin {"idle", "start"}
                             => client[c].at \in Instances

QueueTyped == queue \in [instances : SUBSET Instances,
                         waiters : [Instances -> SUBSET Clients],
                         retryAt : SUBSET Instances,
                         all : BOOLEAN, running : BOOLEAN]

WorldTyped ==
    /\ asleep \subseteq Instances /\ due \subseteq Instances /\ awake \in Nat
    /\ lock \in Workers \cup Clients \cup {None}
    /\ lib \in Nat /\ revision \in Nat
    /\ content \in [Instances -> Nat] /\ applied \in [Instances -> Nat]
    /\ local \subseteq Instances /\ held \subseteq Instances
    /\ alive \subseteq Instances /\ excused \subseteq Instances
    /\ changes \in Nat /\ flushes \in Nat /\ faults \in Nat

\* Every variable has the shape the code gives it, and the lock is held only
\* where the code holds its guard.
TypeOK == /\ QueueTyped
          /\ worker \in [Workers -> Worker]
          /\ client \in [Clients -> Client]
          /\ WorldTyped
          /\ Orderly

\* Queue::running says whether a worker loop runs, and there is at most one:
\* start() may be called by anybody at any time.
OneWorker ==
    /\ queue.running <=> \E w \in Workers : Live(w)
    /\ \A v, w \in Workers : Live(v) /\ Live(w) => v = w

\* Whoever can still be relied on to call start().
AboutToStart == awake > 0 \/ \E c \in Clients :
                                 client[c].pc \in {"start", "flushing"}

\* No wake-up is lost between an insertion into the queue and start(), the
\* worker's decision to stop, and a timer: work that can be done has a worker
\* or somebody about to start one.
NoLostWakeup ==
    Pickable # {} \/ queue.all => queue.running \/ AboutToStart

\* An instance is kept back only while the timer that will free it sleeps;
\* with a second timer, or none, it would be freed early or never.
TimerKept == queue.retryAt = asleep /\ due \subseteq asleep

Unanswered(c) == client[c].pc \in {"flushing", "waiting"}

\* A flush() that has not been answered is registered in exactly one place:
\* with the queue, where its instance is queued too, or with the run that
\* was begun for it.
WaiterKept ==
    \A c \in Clients :
        LET queued == {i \in Instances : c \in queue.waiters[i]}
            taken == {w \in Workers : c \in worker[w].pending}
        IN  IF Unanswered(c)
            THEN \/ /\ queued = {client[c].at} /\ taken = {}
                    /\ client[c].at \in queue.instances
                 \/ /\ queued = {}
                    /\ \E w \in Workers :
                          taken = {w} /\ worker[w].at = client[c].at
            ELSE queued = {} /\ taken = {}

\* An Ok from a completed run means that the instance has every library edit
\* made before flush() was called: runs that had begun earlier do not count.
FreshAnswer ==
    [][\A w \in Workers, c \in Clients :
          worker[w].pc = "deliver" /\ worker[w].result = "ok"
          /\ worker'[w].pc = "sleep" /\ Unanswered(c) /\ ~Unanswered(c)'
              => applied[client[c].at] >= client[c].asked]_vars

\* write_library stores the whole library as a run or a capture read it, yet
\* no edit made meanwhile is overwritten.
NoLostEdit == [][lib' >= lib]_vars

AtRest == /\ ~queue.running /\ ~queue.all /\ queue.instances = {}
          /\ awake = 0 /\ \A c \in Clients : client[c].pc = "idle"

\* When nothing is queued and nobody is at work, every instance has the
\* current library and the library has captured its local changes, unless a
\* run for it reported an error, or an install that was holding it failed.
RestIsSynced ==
    AtRest => \A i \in alive \ (held \cup excused) :
                  applied[i] = lib /\ i \notin local

\* Every flush() is answered, since rate limits answer too and changes that
\* make a run start over come to an end.
FlushAnswered ==
    \A c \in Clients : client[c].pc = "waiting" ~> client[c].pc # "waiting"

\* Instances follow the library as LibraryReplication says.
Replication == INSTANCE LibraryReplication
    WITH exempt <- excused \cup held \cup (Instances \ alive)

ImplementsReplication == Replication!Spec
=============================================================================
