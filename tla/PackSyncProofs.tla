--------------------------- MODULE PackSyncProofs ---------------------------
(***************************************************************************)
(* Theorems about PackSync, for every number of instances, clients, worker *)
(* slots and rounds, and however often things change or fail.  The first   *)
(* part is about the queue, the worker and the timers; the second, from    *)
(* "The library" on, about what the runs bring to the instances.           *)
(***************************************************************************)
EXTENDS PackSyncProperties, TLAPS

Actors == ActorsAssumption /\ NoneAssumption /\ BoundsAssumption

LEMMA Assumed == Actors
BY ActorsAssumption, NoneAssumption, BoundsAssumption DEF Actors

----------------------------------------------------------------------------
(* start() and the timers keep one worker, and one timer per instance. *)

\* A step that leaves running alone and moves no worker from or to "off".
Steady == /\ queue'.running = queue.running
          /\ \A w \in Workers : Live(w)' <=> Live(w)

LEMMA SteadyOne ==
    ASSUME OneWorker, Steady
    PROVE  OneWorker'
BY DEF OneWorker, Steady

LEMMA StartedOne ==
    ASSUME TypeOK, OneWorker, Started
    PROVE  OneWorker' /\ queue'.running
<1>1. CASE queue.running /\ UNCHANGED <<queue, worker>>
  BY <1>1 DEF OneWorker, Live
<1>2. CASE ~queue.running
  <2>1. queue' = [queue EXCEPT !.running = TRUE]
    BY <1>2 DEF Started
  <2>2. PICK w \in Workers :
          worker' = [worker EXCEPT ![w] = [Off EXCEPT !.pc = "sleep"]]
    BY <1>2 DEF Started
  <2>3. \A v \in Workers : Live(v)' <=> v = w
    BY <1>2, <2>2 DEF OneWorker, Live, TypeOK, QueueTyped, Off
  <2>4. queue'.running
    BY <2>1 DEF TypeOK, QueueTyped
  <2> QED
    BY <2>3, <2>4 DEF OneWorker
<1> QED
  BY <1>1, <1>2 DEF Started

\* The steps of a live worker, but for the one that stops.
LEMMA LoopSteady ==
    ASSUME TypeOK, OneWorker, NEW w \in Workers, Loop(w)
    PROVE  /\ Live(w)
           /\ \/ Steady
              \/ /\ Pickable = {} /\ ~queue.all
                 /\ queue' = [queue EXCEPT !.running = FALSE]
                 /\ worker' = [worker EXCEPT ![w] = Off]
<1> USE DEF Steady, Live, TypeOK, QueueTyped, Worker
<1>1. CASE Take(w)
  BY <1>1 DEF Take
<1>2. CASE List(w)
  BY <1>2 DEF List
<1>3. CASE Pick(w)
  <2>0. Live(w) /\ Waited \subseteq Instances /\ Pickable \subseteq Instances
    BY <1>3 DEF Pick, Waited, Pickable
  <2>1. ASSUME NEW i \in Instances,
               queue' = [queue EXCEPT !.instances = @ \ {i}, !.waiters[i] = {}],
               worker' = [worker EXCEPT ![w] = [Off EXCEPT !.pc = "begin",
                              !.at = i, !.pending = queue.waiters[i]]]
        PROVE  Steady
    BY <2>0, <2>1 DEF Off
  <2>2. CASE worker' = [worker EXCEPT ![w].pc = "sleep"] /\ UNCHANGED queue
    BY <2>0, <2>2
  <2> HIDE DEF Steady, Live, TypeOK, QueueTyped, Worker
  <2> QED
    BY <1>3, <2>0, <2>1, <2>2 DEF Pick
<1>4. CASE Begin(w)
  BY <1>4 DEF Begin, Ends
<1>5. CASE Read(w)
  BY <1>5 DEF Read, Ends
<1>6. CASE Work(w)
  BY <1>6 DEF Work, Ends
<1>7. CASE Apply(w)
  BY <1>7 DEF Apply, Ends
<1>8. CASE Redo(w)
  BY <1>8 DEF Redo, Again, Off
<1>9. CASE Defer(w)
  BY <1>9 DEF Defer, Again, Off
<1>10. CASE Deliver(w)
  BY <1>10 DEF Deliver, Again, Off
<1> QED
  BY <1>1, <1>2, <1>3, <1>4, <1>5, <1>6, <1>7, <1>8, <1>9, <1>10 DEF Loop

LEMMA OneWorkerStep ==
    ASSUME TypeOK, OneWorker, [Next]_vars
    PROVE  OneWorker'
<1>1. ASSUME NEW w \in Workers, Loop(w)
      PROVE  OneWorker'
  <2>1. CASE Steady
    BY <2>1, SteadyOne
  <2>2. CASE /\ queue' = [queue EXCEPT !.running = FALSE]
             /\ worker' = [worker EXCEPT ![w] = Off]
    <3>1. Live(w)
      BY <1>1, LoopSteady
    <3>2. \A v \in Workers : ~Live(v)'
      BY <3>1, <2>2 DEF OneWorker, Live, TypeOK, QueueTyped, Off
    <3>3. ~queue'.running
      BY <2>2 DEF TypeOK, QueueTyped
    <3> QED
      BY <3>2, <3>3 DEF OneWorker
  <2> QED
    BY <1>1, <2>1, <2>2, LoopSteady
<1>2. ASSUME NEW c \in Clients, Proceed(c)
      PROVE  OneWorker'
  <2>1. CASE Start(c)
    BY <2>1, StartedOne DEF Start
  <2>2. CASE Release(c) \/ Request(c) \/ Capture(c) \/ EndCapture(c)
    <3>1. Steady
      BY <2>2 DEF Release, Request, Capture, EndCapture, Steady, Live, TypeOK,
                  QueueTyped
    <3> QED
      BY <3>1, SteadyOne
  <2> QED
    BY <1>2, <2>1, <2>2 DEF Proceed
<1>3. CASE Timer
  <2>1. CASE TimerStart
    BY <2>1, StartedOne DEF TimerStart
  <2>2. ASSUME NEW i \in Instances, Elapse(i) \/ Wake(i)
        PROVE  OneWorker'
    <3>1. Steady
      BY <2>2 DEF Elapse, Wake, Steady, Live, TypeOK, QueueTyped
    <3> QED
      BY <3>1, SteadyOne
  <2> QED
    BY <1>3, <2>1, <2>2 DEF Timer
<1>4. CASE Command
  <2>1. Steady
    BY <1>4 DEF Command, Edit, Flush, Hold, Touch, Delete, Steady, Live, TypeOK,
                QueueTyped
  <2> QED
    BY <2>1, SteadyOne
<1>5. CASE UNCHANGED vars
  BY <1>5 DEF vars, OneWorker, Live
<1> QED
  BY <1>1, <1>2, <1>3, <1>4, <1>5 DEF Next

----------------------------------------------------------------------------
(* Work that can be done has a worker, or somebody about to start one. *)

LEMMA NoLostWakeupStep ==
    ASSUME TypeOK, OneWorker, NoLostWakeup, [Next]_vars
    PROVE  NoLostWakeup'
<1>1. ASSUME NEW w \in Workers, Loop(w)
      PROVE  NoLostWakeup'
  <2>1. queue.running
    BY <1>1, LoopSteady DEF OneWorker
  <2>2. CASE Steady
    BY <2>1, <2>2 DEF Steady, NoLostWakeup
  <2>3. CASE /\ Pickable = {} /\ ~queue.all
             /\ queue' = [queue EXCEPT !.running = FALSE]
    BY <2>3 DEF NoLostWakeup, Pickable, Waited, TypeOK, QueueTyped
  <2> QED
    BY <1>1, <2>2, <2>3, LoopSteady
<1>2. ASSUME NEW c \in Clients, Proceed(c)
      PROVE  NoLostWakeup'
  <2>1. CASE Start(c)
    BY <2>1, StartedOne DEF Start, NoLostWakeup
  <2>2. CASE Release(c)
    BY <2>2 DEF Release, Becomes, Idle, NoLostWakeup, AboutToStart, Pickable,
                Waited, timers, TypeOK, QueueTyped
  <2>3. CASE Request(c)
    BY <2>3 DEF Request, Becomes, NoLostWakeup, AboutToStart, TypeOK, QueueTyped
  <2>4. CASE Capture(c)
    <3>1. CASE Becomes(c, "start")
      BY <3>1 DEF Becomes, NoLostWakeup, AboutToStart, TypeOK, QueueTyped
    <3>2. CASE UNCHANGED queue
      BY <2>4, <3>2 DEF Capture, Becomes, NoLostWakeup, AboutToStart, Pickable,
                        Waited, timers, TypeOK, QueueTyped
    <3> QED
      BY <2>4, <3>1, <3>2 DEF Capture
  <2>5. CASE EndCapture(c)
    <3>1. CASE Becomes(c, "start")
      BY <3>1 DEF Becomes, NoLostWakeup, AboutToStart, TypeOK, QueueTyped
    <3>2. CASE Becomes(c, "capture") /\ UNCHANGED queue
      BY <2>5, <3>2 DEF EndCapture, Becomes, NoLostWakeup, AboutToStart,
                        Pickable, Waited, timers, TypeOK, QueueTyped
    <3> QED
      BY <2>5, <3>1, <3>2 DEF EndCapture
  <2> QED
    BY <1>2, <2>1, <2>2, <2>3, <2>4, <2>5 DEF Proceed
<1>3. CASE Timer
  <2>1. CASE TimerStart
    BY <2>1, StartedOne DEF TimerStart, NoLostWakeup
  <2>2. ASSUME NEW i \in Instances, Elapse(i)
        PROVE  NoLostWakeup'
    BY <2>2 DEF Elapse, NoLostWakeup, AboutToStart, Pickable, Waited
  <2>3. ASSUME NEW i \in Instances, Wake(i)
        PROVE  NoLostWakeup'
    BY <2>3 DEF Wake, NoLostWakeup, AboutToStart, TypeOK, QueueTyped, WorldTyped
  <2> QED
    BY <1>3, <2>1, <2>2, <2>3 DEF Timer
<1>4. CASE Command
  <2>1. ASSUME NEW c \in Clients, Edit(c)
        PROVE  NoLostWakeup'
    BY <2>1 DEF Edit, Becomes, NoLostWakeup, AboutToStart, TypeOK, QueueTyped
  <2>2. ASSUME NEW c \in Clients, NEW i \in Instances, Flush(c, i)
        PROVE  NoLostWakeup'
    <3>1. CASE UNCHANGED <<queue, client>>
      BY <2>2, <3>1 DEF Flush, NoLostWakeup, AboutToStart, Pickable, Waited,
                        timers
    <3>2. CASE client' = [client EXCEPT ![c] = [Idle EXCEPT
                              !.pc = "flushing", !.at = i, !.asked = lib]]
      BY <3>2 DEF Idle, NoLostWakeup, AboutToStart, TypeOK, QueueTyped
    <3> QED
      BY <2>2, <3>1, <3>2 DEF Flush
  <2>3. ASSUME NEW c \in Clients, NEW i \in Instances, Hold(c, i) \/ Touch(c, i)
        PROVE  NoLostWakeup'
    BY <2>3 DEF Hold, Touch, NoLostWakeup, AboutToStart, Pickable, Waited,
                timers, TypeOK, QueueTyped
  <2>4. ASSUME NEW i \in Instances, Delete(i)
        PROVE  NoLostWakeup'
    BY <2>4 DEF Delete, NoLostWakeup, AboutToStart, Pickable, Waited, timers
  <2> QED
    BY <1>4, <2>1, <2>2, <2>3, <2>4 DEF Command
<1>5. CASE UNCHANGED vars
  BY <1>5 DEF vars, timers, NoLostWakeup, AboutToStart, Pickable, Waited
<1> QED
  BY <1>1, <1>2, <1>3, <1>4, <1>5 DEF Next

----------------------------------------------------------------------------
(* An instance is kept back exactly as long as its timer sleeps. *)

LEMMA TimerKeptStep ==
    ASSUME TypeOK, TimerKept, [Next]_vars
    PROVE  TimerKept'
<1> USE DEF TimerKept, TypeOK, QueueTyped, WorldTyped
<1>1. ASSUME NEW w \in Workers, Loop(w)
      PROVE  TimerKept'
  <2>1. CASE Defer(w)
    BY <2>1 DEF Defer
  <2>2. CASE Take(w) \/ List(w) \/ Begin(w) \/ Read(w) \/ Work(w)
    BY <2>2 DEF Take, List, Begin, Read, Work, timers
  <2>3. CASE Pick(w)
    <3>1. queue'.retryAt = queue.retryAt
      BY <2>3 DEF Pick
    <3> QED
      BY <2>3, <3>1 DEF Pick, timers
  <2>4. CASE Apply(w) \/ Redo(w) \/ Deliver(w)
    BY <2>4 DEF Apply, Redo, Deliver, timers
  <2> QED
    BY <1>1, <2>1, <2>2, <2>3, <2>4 DEF Loop
<1>2. ASSUME NEW c \in Clients, Proceed(c)
      PROVE  TimerKept'
  <2>1. CASE Start(c)
    BY <2>1 DEF Start, Started, timers
  <2>2. CASE Release(c) \/ Request(c) \/ Capture(c) \/ EndCapture(c)
    BY <2>2 DEF Release, Request, Capture, EndCapture, timers
  <2> QED
    BY <1>2, <2>1, <2>2 DEF Proceed
<1>3. CASE Timer
  <2>1. CASE TimerStart
    BY <2>1 DEF TimerStart, Started
  <2>2. ASSUME NEW i \in Instances, Elapse(i) \/ Wake(i)
        PROVE  TimerKept'
    BY <2>2 DEF Elapse, Wake
  <2> QED
    BY <1>3, <2>1, <2>2 DEF Timer
<1>4. CASE Command
  <2>1. UNCHANGED timers
    BY <1>4 DEF Command, Edit, Flush, Hold, Touch, Delete
  <2>2. queue'.retryAt = queue.retryAt
    BY <1>4 DEF Command, Edit, Flush, Hold, Touch, Delete
  <2> QED
    BY <2>1, <2>2 DEF timers
<1>5. CASE UNCHANGED vars
  BY <1>5 DEF vars, timers
<1> QED
  BY <1>1, <1>2, <1>3, <1>4, <1>5 DEF Next
----------------------------------------------------------------------------
(* Every variable keeps its shape.  First the record of one task. *)

LEMMA OffTyped ==
    ASSUME NEW pc \in WorkerPcs, NEW at \in Instances \cup {None},
           NEW pending \in SUBSET Clients
    PROVE  /\ Off \in Worker /\ [Off EXCEPT !.pc = pc] \in Worker
           /\ [Off EXCEPT !.pc = pc, !.at = at, !.pending = pending] \in Worker
<1>1. 0 \in 0..Rounds
  BY Assumed DEF Actors
<1>2. NoView \in View
  BY DEF NoView, View
<1>3. "off" \in WorkerPcs /\ "none" \in Results
  BY DEF WorkerPcs, Results
<1> QED
  BY <1>1, <1>2, <1>3 DEF Off, Worker

LEMMA WorkerSlot ==
    ASSUME worker \in [Workers -> Worker], NEW w \in Workers, NEW x \in Worker,
           worker' = [worker EXCEPT ![w] = x]
    PROVE  worker' \in [Workers -> Worker]
OBVIOUS

LEMMA EndsTyped ==
    ASSUME worker \in [Workers -> Worker], NEW w \in Workers,
           NEW result \in Results, Ends(w, result)
    PROVE  worker' \in [Workers -> Worker]
<1> DEFINE x == [worker[w] EXCEPT !.pc = "deliver", !.result = result]
<1>1. "deliver" \in WorkerPcs /\ worker[w] \in Worker
  BY DEF WorkerPcs
<1>2. x \in Worker
  BY <1>1 DEF Worker
<1>3. worker' = [worker EXCEPT ![w] = x]
  BY DEF Ends
<1> QED
  BY <1>2, <1>3, WorkerSlot

LEMMA StartedTyped ==
    ASSUME QueueTyped, worker \in [Workers -> Worker], Started
    PROVE  QueueTyped' /\ worker' \in [Workers -> Worker]
<1>1. CASE queue.running /\ UNCHANGED <<queue, worker>>
  BY <1>1 DEF QueueTyped
<1>2. CASE ~queue.running
  <2>1. queue' = [queue EXCEPT !.running = TRUE]
    BY <1>2 DEF Started
  <2>2. PICK w \in Workers :
          worker' = [worker EXCEPT ![w] = [Off EXCEPT !.pc = "sleep"]]
    BY <1>2 DEF Started
  <2>3. [Off EXCEPT !.pc = "sleep"] \in Worker
    BY OffTyped DEF WorkerPcs
  <2>4. QueueTyped'
    BY <2>1 DEF QueueTyped
  <2> QED
    BY <2>2, <2>3, <2>4, WorkerSlot
<1> QED
  BY <1>1, <1>2 DEF Started

LEMMA ClientSlot ==
    ASSUME client \in [Clients -> Client], NEW c \in Clients, NEW x \in Client,
           client' = [client EXCEPT ![c] = x]
    PROVE  client' \in [Clients -> Client]
OBVIOUS

LEMMA BecomesTyped ==
    ASSUME client \in [Clients -> Client], NEW c \in Clients,
           NEW pc \in ClientPcs, Becomes(c, pc)
    PROVE  client' \in [Clients -> Client]
<1> DEFINE x == [client[c] EXCEPT !.pc = pc]
<1>1. x \in Client
  BY DEF Client
<1> QED
  BY <1>1, ClientSlot DEF Becomes

LEMMA IdleTyped ==
    Idle \in Client /\ [Idle EXCEPT !.pc = "start"] \in Client
<1>1. NoView \in View
  BY DEF NoView, View
<1>2. {"idle", "start"} \subseteq ClientPcs
  BY DEF ClientPcs
<1> QED
  BY <1>1, <1>2 DEF Idle, Client

LEMMA AnswerTyped ==
    ASSUME client \in [Clients -> Client], NEW clients, Answer(clients)
    PROVE  client' \in [Clients -> Client]
BY IdleTyped DEF Answer

----------------------------------------------------------------------------
(* The steps of a worker. *)

LEMMA LoopWorld ==
    ASSUME TypeOK, NEW w \in Workers, Loop(w)
    PROVE  WorldTyped'
<1> USE DEF WorldTyped
<1>0. WorldTyped /\ worker[w].view.lib \in Nat
      /\ worker[w].at \in Instances \cup {None}
  BY DEF TypeOK, Worker, View
<1>1. CASE Take(w) \/ List(w) \/ Pick(w) \/ Begin(w) \/ Read(w)
  <2>1. CASE List(w)
    BY <1>0, <2>1 DEF List, timers, shared, world
  <2>2. CASE Take(w) \/ Pick(w)
    BY <1>0, <2>2 DEF Take, Pick, timers, shared, world, counts
  <2>3. CASE Begin(w) \/ Read(w)
    BY <1>0, <2>3 DEF Begin, Read, timers, shared, world, counts
  <2> QED
    BY <1>1, <2>1, <2>2, <2>3
<1>2. CASE Work(w)
  <2>1. worker[w].at \in Instances
    BY <1>2 DEF Work, TypeOK, Orderly, WorkerPcs
  <2> QED
    BY <1>0, <1>2, <2>1 DEF Work, timers, world
<1>3. CASE Apply(w)
  <2>1. worker[w].at \in Instances
    BY <1>3 DEF Apply, TypeOK, Orderly, WorkerPcs
  <2>2. /\ UNCHANGED <<timers, local, world, counts>>
        /\ lock' = None /\ lib' = worker[w].view.lib
        /\ revision' \in {revision, revision + 1}
        /\ excused' \subseteq excused
    BY <1>3 DEF Apply
  <2>3. content' \in [Instances -> Nat]
    BY <1>0, <1>3, <2>1 DEF Apply
  <2>4. applied' \in [Instances -> Nat]
    BY <1>0, <1>3, <2>1 DEF Apply
  <2> QED
    BY <1>0, <2>2, <2>3, <2>4 DEF timers, world, counts
<1>4. CASE Redo(w) \/ Deliver(w)
  BY <1>0, <1>4 DEF Redo, Deliver, timers, shared, world, counts
<1>5. CASE Defer(w)
  <2>1. worker[w].at \in Instances
    BY <1>5 DEF Defer, TypeOK, Orderly, WorkerPcs
  <2> QED
    BY <1>0, <1>5, <2>1 DEF Defer, shared, world, counts
<1> QED
  BY <1>1, <1>2, <1>3, <1>4, <1>5 DEF Loop

LEMMA LoopQueue ==
    ASSUME TypeOK, NEW w \in Workers, Loop(w)
    PROVE  QueueTyped'
<1> USE DEF QueueTyped
<1>0. /\ QueueTyped /\ alive \subseteq Instances
      /\ worker[w].pending \subseteq Clients
  BY DEF TypeOK, WorldTyped, Worker
<1>1. CASE Take(w)
  BY <1>0, <1>1 DEF Take
<1>2. CASE List(w)
  BY <1>0, <1>2 DEF List
<1>3. CASE Pick(w)
  <2>1. ASSUME NEW i \in Instances,
               queue' = [queue EXCEPT !.instances = @ \ {i}, !.waiters[i] = {}]
        PROVE  QueueTyped'
    BY <1>0, <2>1
  <2>2. CASE queue' = [queue EXCEPT !.running = FALSE]
    BY <1>0, <2>2
  <2>3. Waited \subseteq Instances /\ Pickable \subseteq Instances
    BY <1>0 DEF Waited, Pickable
  <2> QED
    BY <1>0, <1>3, <2>1, <2>2, <2>3 DEF Pick
<1>4. CASE Begin(w) \/ Read(w) \/ Apply(w) \/ Deliver(w)
  BY <1>0, <1>4 DEF Begin, Read, Apply, Deliver
<1>5. CASE Work(w)
  BY <1>0, <1>5 DEF Work
<1>6. CASE Redo(w) \/ Defer(w)
  <2>1. worker[w].at \in Instances
    BY <1>6 DEF Redo, Defer, TypeOK, Orderly, WorkerPcs
  <2>2. CASE Redo(w)
    BY <1>0, <2>1, <2>2 DEF Redo
  <2>3. CASE Defer(w)
    BY <1>0, <2>1, <2>3 DEF Defer
  <2> QED
    BY <1>6, <2>2, <2>3
<1> QED
  BY <1>1, <1>2, <1>3, <1>4, <1>5, <1>6 DEF Loop

LEMMA LoopTasks ==
    ASSUME TypeOK, NEW w \in Workers, Loop(w)
    PROVE  worker' \in [Workers -> Worker] /\ client' \in [Clients -> Client]
<1>0. /\ worker \in [Workers -> Worker] /\ client \in [Clients -> Client]
      /\ worker[w] \in Worker /\ worker[w].view \in View
  <2>1. worker \in [Workers -> Worker] /\ client \in [Clients -> Client]
    BY DEF TypeOK
  <2> QED
    BY <2>1 DEF Worker
<1>1. CASE Take(w) \/ List(w)
  <2>1. PICK pc \in WorkerPcs : worker' = [worker EXCEPT ![w].pc = pc]
    BY <1>1 DEF Take, List, WorkerPcs
  <2>2. [worker[w] EXCEPT !.pc = pc] \in Worker
    BY <1>0 DEF Worker
  <2> QED
    BY <1>0, <1>1, <2>1, <2>2, WorkerSlot DEF Take, List
<1>2. CASE Pick(w)
  <2>0. client' = client /\ {"begin", "sleep"} \subseteq WorkerPcs
    BY <1>2 DEF Pick, WorkerPcs
  <2>1. ASSUME NEW i \in Instances,
               worker' = [worker EXCEPT ![w] = [Off EXCEPT !.pc = "begin",
                              !.at = i, !.pending = queue.waiters[i]]]
        PROVE  worker' \in [Workers -> Worker]
    <3>1. queue.waiters[i] \in SUBSET Clients
      BY DEF TypeOK, QueueTyped
    <3>2. [Off EXCEPT !.pc = "begin", !.at = i, !.pending = queue.waiters[i]]
            \in Worker
      BY <2>0, <3>1, OffTyped
    <3> QED
      BY <1>0, <2>1, <3>2, WorkerSlot
  <2>2. CASE worker' = [worker EXCEPT ![w].pc = "sleep"]
    <3>1. [worker[w] EXCEPT !.pc = "sleep"] \in Worker
      BY <1>0, <2>0 DEF Worker
    <3> QED
      BY <1>0, <2>0, <2>2, <3>1, WorkerSlot
  <2>3. CASE worker' = [worker EXCEPT ![w] = Off]
    <3>1. Off \in Worker
      BY <2>0, OffTyped
    <3> QED
      BY <1>0, <2>0, <2>3, <3>1, WorkerSlot
  <2>4. Waited \subseteq Instances /\ Pickable \subseteq Instances
    BY DEF Waited, Pickable, TypeOK, QueueTyped
  <2> QED
    BY <1>0, <1>2, <2>0, <2>1, <2>2, <2>3, <2>4 DEF Pick
<1>3. CASE Begin(w)
  <2>0. client' = client /\ "read" \in WorkerPcs /\ "skipped" \in Results
    BY <1>3 DEF Begin, WorkerPcs, Results
  <2>1. CASE Ends(w, "skipped")
    BY <1>0, <2>0, <2>1, EndsTyped
  <2>2. CASE worker' = [worker EXCEPT ![w].pc = "read",
                                      ![w].view.held = worker[w].at \in held]
    <3> DEFINE now == worker[w].at \in held
               view == [worker[w].view EXCEPT !.held = now]
               x == [worker[w] EXCEPT !.pc = "read", !.view = view]
    <3>0. now \in BOOLEAN
      OBVIOUS
    <3>1. view \in View
      <4> HIDE DEF now
      <4> QED
        BY <1>0, <3>0 DEF View
    <3>2. x \in Worker
      BY <1>0, <2>0, <3>1 DEF Worker
    <3>3. worker' = [worker EXCEPT ![w] = x]
      BY <1>0, <2>2 DEF Worker
    <3> QED
      BY <1>0, <2>0, <3>2, <3>3, WorkerSlot
  <2> QED
    BY <1>0, <1>3, <2>0, <2>1, <2>2 DEF Begin
<1>4. CASE Read(w)
  <2>0. /\ client' = client /\ "work" \in WorkerPcs
        /\ {"ok", "skipped", "changed"} \subseteq Results
    BY <1>4 DEF Read, WorkerPcs, Results
  <2>1. ASSUME NEW result \in Results, Ends(w, result)
        PROVE  worker' \in [Workers -> Worker]
    BY <1>0, <2>1, EndsTyped
  <2>2. ASSUME worker' = [worker EXCEPT ![w].pc = "work",
                   ![w].view = ViewOf(worker[w].at), ![w].left = Rounds],
               worker[w].at \in alive
        PROVE  worker' \in [Workers -> Worker]
    <3> DEFINE x == [worker[w] EXCEPT !.pc = "work",
                         !.view = ViewOf(worker[w].at), !.left = Rounds]
    <3>1. ViewOf(worker[w].at) \in View
      BY <2>2 DEF ViewOf, View, TypeOK, WorldTyped
    <3>2. Rounds \in 0..Rounds
      BY Assumed DEF Actors
    <3>3. x \in Worker
      BY <1>0, <2>0, <3>1, <3>2 DEF Worker
    <3>4. worker' = [worker EXCEPT ![w] = x]
      BY <1>0, <2>2 DEF Worker
    <3> QED
      BY <1>0, <3>3, <3>4, WorkerSlot
  <2> QED
    BY <1>0, <1>4, <2>0, <2>1, <2>2 DEF Read
<1>5. CASE Work(w)
  <2>0. /\ client' = client /\ "apply" \in WorkerPcs
        /\ {"changed", "limited", "error", "broken"} \subseteq Results
    BY <1>5 DEF Work, WorkerPcs, Results
  <2>1. ASSUME NEW result \in Results, Ends(w, result)
        PROVE  worker' \in [Workers -> Worker]
    BY <1>0, <2>1, EndsTyped
  <2>2. ASSUME NEW lost \in BOOLEAN,
               worker' = [worker EXCEPT ![w].pc = "apply",
                  ![w].view.lib = IF lost THEN @ + 1 ELSE @]
        PROVE  worker' \in [Workers -> Worker]
    <3> DEFINE new == IF lost THEN worker[w].view.lib + 1 ELSE worker[w].view.lib
               view == [worker[w].view EXCEPT !.lib = new]
               x == [worker[w] EXCEPT !.pc = "apply", !.view = view]
    <3>1. view \in View
      BY <1>0 DEF View
    <3>2. x \in Worker
      BY <1>0, <2>0, <3>1 DEF Worker
    <3>3. worker' = [worker EXCEPT ![w] = x]
      BY <1>0, <2>2 DEF Worker
    <3> QED
      BY <1>0, <3>2, <3>3, WorkerSlot
  <2>3. CASE worker' = [worker EXCEPT ![w].pc = "apply", ![w].result = "broken"]
    <3>1. [worker[w] EXCEPT !.pc = "apply", !.result = "broken"] \in Worker
      BY <1>0, <2>0 DEF Worker
    <3> QED
      BY <1>0, <2>0, <2>3, <3>1, WorkerSlot
  <2>4. \/ \E result \in Results : Ends(w, result)
        \/ \E lost \in BOOLEAN :
             worker' = [worker EXCEPT ![w].pc = "apply",
                  ![w].view.lib = IF lost THEN @ + 1 ELSE @]
        \/ worker' = [worker EXCEPT ![w].pc = "apply", ![w].result = "broken"]
    BY <1>5, <2>0 DEF Work
  <2> QED
    BY <2>0, <1>0, <2>1, <2>2, <2>3, <2>4
<1>6. CASE Apply(w)
  <2>0. /\ client' = client /\ "work" \in WorkerPcs
        /\ {"changed", "ok", "broken"} \subseteq Results
    BY <1>6 DEF Apply, WorkerPcs, Results
  <2>1. ASSUME NEW result \in Results, Ends(w, result)
        PROVE  worker' \in [Workers -> Worker]
    BY <1>0, <2>1, EndsTyped
  <2>2. ASSUME NEW view \in View, worker[w].left > 1,
               worker' = [worker EXCEPT ![w].pc = "work", ![w].left = @ - 1,
                                        ![w].view = view]
        PROVE  worker' \in [Workers -> Worker]
    <3> DEFINE less == worker[w].left - 1
               x == [worker[w] EXCEPT !.pc = "work", !.left = less, !.view = view]
    <3>1. less \in 0..Rounds
      BY <1>0, <2>2, Assumed DEF Worker, Actors
    <3>2. x \in Worker
      BY <1>0, <2>0, <3>1 DEF Worker
    <3>3. worker' = [worker EXCEPT ![w] = x]
      BY <1>0, <2>2 DEF Worker
    <3> QED
      BY <1>0, <3>2, <3>3, WorkerSlot
  <2>3. worker[w].at \in alive =>
          [lib |-> worker[w].view.lib, rev |-> revision',
           print |-> content'[worker[w].at], held |-> FALSE] \in View
    <3>1. WorldTyped' /\ worker[w].view.lib \in Nat /\ alive \subseteq Instances
      BY <1>0, <1>6, LoopWorld DEF Loop, View, TypeOK, WorldTyped
    <3> QED
      BY <3>1 DEF View, WorldTyped
  <2> QED
    BY <1>6, <1>0, <2>0, <2>1, <2>2, <2>3 DEF Apply
<1>7. CASE Redo(w) \/ Defer(w) \/ Deliver(w)
  <2>1. [Off EXCEPT !.pc = "sleep"] \in Worker
    BY OffTyped DEF WorkerPcs
  <2>2. worker' \in [Workers -> Worker]
    BY <1>0, <1>7, <2>1, WorkerSlot DEF Redo, Defer, Deliver, Again
  <2>3. client' = client \/ \E clients \in SUBSET Clients : Answer(clients)
    <3>1. worker[w].pending \subseteq Clients
      BY <1>0 DEF Worker
    <3>2. CASE Defer(w)
      <4>1. worker[w].at \in Instances
        BY <3>2 DEF Defer, TypeOK, Orderly, WorkerPcs
      <4>2. queue.waiters[worker[w].at] \subseteq Clients
        BY <4>1 DEF TypeOK, QueueTyped
      <4> QED
        BY <3>1, <3>2, <4>2 DEF Defer
    <3> QED
      BY <1>7, <3>1, <3>2 DEF Redo, Deliver
  <2> QED
    BY <1>0, <2>2, <2>3, AnswerTyped
<1> QED
  BY <1>1, <1>2, <1>3, <1>4, <1>5, <1>6, <1>7 DEF Loop

----------------------------------------------------------------------------
(* The steps of clients and timers. *)

LEMMA ProceedWorld ==
    ASSUME TypeOK, NEW c \in Clients, Proceed(c)
    PROVE  WorldTyped'
<1> USE DEF WorldTyped
<1>0. /\ WorldTyped /\ client[c].view.lib \in Nat
      /\ client[c].at \in Instances \cup {None}
  <2>1. client[c] \in Client
    BY DEF TypeOK
  <2> QED
    BY <2>1 DEF TypeOK, Client, View
<1>1. CASE Start(c)
  BY <1>0, <1>1 DEF Start, timers, world, counts
<1>2. CASE Release(c)
  <2>1. client[c].at \in Instances
    BY <1>2 DEF Release, TypeOK, Orderly
  <2> QED
    BY <1>0, <1>2, <2>1 DEF Release, timers, shared, counts
<1>3. CASE Request(c)
  BY <1>0, <1>3 DEF Request, timers, shared, world, counts
<1>4. CASE Capture(c)
  BY <1>0, <1>4 DEF Capture, timers, shared, world, counts
<1>5. CASE EndCapture(c)
  BY <1>0, <1>5 DEF EndCapture, timers, world
<1> QED
  BY <1>1, <1>2, <1>3, <1>4, <1>5 DEF Proceed

LEMMA ProceedQueue ==
    ASSUME TypeOK, NEW c \in Clients, Proceed(c)
    PROVE  QueueTyped'
<1> USE DEF QueueTyped
<1>0. QueueTyped
  BY DEF TypeOK
<1>1. CASE Start(c)
  BY <1>1, StartedTyped DEF Start, TypeOK
<1>2. CASE Release(c)
  BY <1>0, <1>2 DEF Release
<1>3. CASE Request(c) \/ Capture(c) \/ EndCapture(c)
  <2>1. client[c].at \in Instances
    BY <1>3 DEF Request, Capture, EndCapture, TypeOK, Orderly
  <2>2. CASE Request(c)
    BY <1>0, <2>1, <2>2 DEF Request
  <2>3. CASE Capture(c)
    BY <1>0, <2>1, <2>3 DEF Capture
  <2>4. CASE EndCapture(c)
    <3>1. \/ queue' = queue \/ queue' = [queue EXCEPT !.all = TRUE]
          \/ queue' = [queue EXCEPT !.instances = @ \cup {client[c].at}]
      BY <2>4 DEF EndCapture
    <3>2. CASE queue' = queue
      BY <1>0, <3>2
    <3>3. CASE queue' = [queue EXCEPT !.all = TRUE]
      BY <1>0, <3>3
    <3>4. CASE queue' = [queue EXCEPT !.instances = @ \cup {client[c].at}]
      BY <1>0, <2>1, <3>4
    <3> QED
      BY <3>1, <3>2, <3>3, <3>4
  <2> QED
    BY <1>3, <2>2, <2>3, <2>4
<1> QED
  BY <1>1, <1>2, <1>3 DEF Proceed

LEMMA ProceedTasks ==
    ASSUME TypeOK, NEW c \in Clients, Proceed(c)
    PROVE  worker' \in [Workers -> Worker] /\ client' \in [Clients -> Client]
<1>0. /\ worker \in [Workers -> Worker] /\ client \in [Clients -> Client]
      /\ client[c] \in Client
  BY DEF TypeOK
<1>1. ASSUME NEW pc \in ClientPcs, Becomes(c, pc)
      PROVE  client' \in [Clients -> Client]
  BY <1>0, <1>1, BecomesTyped
<1>2. ASSUME client' = [client EXCEPT ![c] = Idle]
      PROVE  client' \in [Clients -> Client]
  BY <1>0, <1>2, IdleTyped, ClientSlot
<1>3. {"waiting", "installed", "start", "capture", "work"} \subseteq ClientPcs
  BY DEF ClientPcs
<1>4. CASE Start(c)
  <2>1. worker' \in [Workers -> Worker]
    BY <1>4, StartedTyped DEF Start, TypeOK
  <2> QED
    BY <1>1, <1>2, <1>3, <1>4, <2>1 DEF Start
<1>5. CASE Release(c)
  BY <1>0, <1>1, <1>2, <1>3, <1>5 DEF Release
<1>6. CASE Request(c)
  BY <1>0, <1>1, <1>3, <1>6 DEF Request
<1>7. CASE Capture(c)
  <2>1. ASSUME client[c].at \in alive,
               client' = [client EXCEPT ![c].pc = "work",
                                        ![c].view = ViewOf(client[c].at)]
        PROVE  client' \in [Clients -> Client]
    <3> DEFINE x == [client[c] EXCEPT !.pc = "work",
                                      !.view = ViewOf(client[c].at)]
    <3>1. ViewOf(client[c].at) \in View
      BY <2>1 DEF ViewOf, View, TypeOK, WorldTyped
    <3>2. x \in Client
      BY <1>0, <1>3, <3>1 DEF Client
    <3>3. client' = [client EXCEPT ![c] = x]
      BY <1>0, <2>1 DEF Client
    <3> QED
      BY <1>0, <3>2, <3>3, ClientSlot
  <2> QED
    BY <1>0, <1>1, <1>3, <1>7, <2>1 DEF Capture
<1>8. CASE EndCapture(c)
  BY <1>0, <1>1, <1>3, <1>8 DEF EndCapture
<1> QED
  BY <1>4, <1>5, <1>6, <1>7, <1>8 DEF Proceed

LEMMA TimerTyped ==
    ASSUME TypeOK, Timer
    PROVE  /\ QueueTyped' /\ WorldTyped'
           /\ worker' \in [Workers -> Worker] /\ client' \in [Clients -> Client]
<1>1. CASE TimerStart
  BY <1>1, StartedTyped DEF TimerStart, TypeOK, WorldTyped, shared, world, counts
<1>2. ASSUME NEW i \in Instances, Elapse(i) \/ Wake(i)
      PROVE  QueueTyped' /\ WorldTyped' /\ UNCHANGED <<worker, client>>
  <2>1. QueueTyped'
    BY <1>2 DEF Elapse, Wake, TypeOK, QueueTyped
  <2>2. WorldTyped'
    BY <1>2 DEF Elapse, Wake, TypeOK, WorldTyped, shared, world, counts
  <2> QED
    BY <1>2, <2>1, <2>2 DEF Elapse, Wake
<1> QED
  BY <1>1, <1>2 DEF Timer, TypeOK

LEMMA CommandTyped ==
    ASSUME TypeOK, Command
    PROVE  /\ QueueTyped' /\ WorldTyped'
           /\ worker' \in [Workers -> Worker] /\ client' \in [Clients -> Client]
<1>0. /\ QueueTyped /\ WorldTyped
      /\ worker \in [Workers -> Worker] /\ client \in [Clients -> Client]
  BY DEF TypeOK
<1>1. ASSUME NEW c \in Clients, Edit(c)
      PROVE  /\ QueueTyped' /\ WorldTyped' /\ UNCHANGED worker
             /\ client' \in [Clients -> Client]
  <2>1. QueueTyped'
    BY <1>0, <1>1 DEF Edit, QueueTyped
  <2>2. WorldTyped'
    BY <1>0, <1>1 DEF Edit, WorldTyped, timers, world
  <2>3. client' \in [Clients -> Client]
    BY <1>0, <1>1, BecomesTyped DEF Edit, ClientPcs
  <2> QED
    BY <1>1, <2>1, <2>2, <2>3 DEF Edit
<1>2. ASSUME NEW c \in Clients, NEW i \in Instances, Flush(c, i)
      PROVE  /\ QueueTyped' /\ WorldTyped' /\ UNCHANGED worker
             /\ client' \in [Clients -> Client]
  <2>1. QueueTyped'
    <3>1. \/ queue' = queue
          \/ queue' = [queue EXCEPT !.instances = @ \cup {i},
                                    !.waiters[i] = @ \cup {c}]
      BY <1>2 DEF Flush
    <3>2. CASE queue' = queue
      BY <1>0, <3>2 DEF QueueTyped
    <3>3. CASE queue' = [queue EXCEPT !.instances = @ \cup {i},
                                      !.waiters[i] = @ \cup {c}]
      <4>1. /\ queue.waiters \in [Instances -> SUBSET Clients]
            /\ queue.instances \subseteq Instances
        BY <1>0 DEF QueueTyped
      <4>2. [queue.waiters EXCEPT ![i] = @ \cup {c}]
               \in [Instances -> SUBSET Clients]
        BY <4>1
      <4>3. queue' = [queue EXCEPT !.instances = queue.instances \cup {i},
                !.waiters = [queue.waiters EXCEPT ![i] = @ \cup {c}]]
        BY <1>0, <3>3 DEF QueueTyped
      <4>4. queue.instances \cup {i} \subseteq Instances
        BY <4>1
      <4> QED
        BY <1>0, <4>2, <4>3, <4>4 DEF QueueTyped
    <3> QED
      BY <3>1, <3>2, <3>3
  <2>2. WorldTyped'
    BY <1>0, <1>2 DEF Flush, WorldTyped, timers, shared, world
  <2>3. [Idle EXCEPT !.pc = "flushing", !.at = i, !.asked = lib] \in Client
    BY <1>0, IdleTyped DEF Client, ClientPcs, WorldTyped
  <2>4. client' \in [Clients -> Client]
    BY <1>0, <1>2, <2>3, ClientSlot DEF Flush
  <2> QED
    BY <1>2, <2>1, <2>2, <2>4 DEF Flush
<1>3. ASSUME NEW c \in Clients, NEW i \in Instances, Hold(c, i) \/ Touch(c, i)
      PROVE  /\ QueueTyped' /\ WorldTyped' /\ UNCHANGED worker
             /\ client' \in [Clients -> Client]
  <2>1. WorldTyped'
    BY <1>0, <1>3 DEF Hold, Touch, WorldTyped, timers, shared, world
  <2>2. PICK pc \in ClientPcs :
          client' = [client EXCEPT ![c].pc = pc, ![c].at = i]
    BY <1>3 DEF Hold, Touch, ClientPcs
  <2>3. [client[c] EXCEPT !.pc = pc, !.at = i] \in Client
    BY <1>0 DEF Client
  <2>4. client' \in [Clients -> Client]
    BY <1>0, <2>2, <2>3, ClientSlot
  <2> QED
    BY <1>0, <1>3, <2>1, <2>4 DEF Hold, Touch, QueueTyped
<1>4. ASSUME NEW i \in Instances, Delete(i)
      PROVE  QueueTyped' /\ WorldTyped' /\ UNCHANGED <<worker, client>>
  BY <1>0, <1>4 DEF Delete, QueueTyped, WorldTyped, timers, shared
<1> QED
  BY <1>0, <1>1, <1>2, <1>3, <1>4 DEF Command

----------------------------------------------------------------------------
(* The lock is held where the code holds its guard. *)

\* One task's part of Orderly.
RunOrderly(w) ==
    /\ worker[w].pc = "apply" <=> lock = w
    /\ IF worker[w].pc \in {"off", "sleep", "list", "pick"}
       THEN worker[w].pending = {}
       ELSE worker[w].at \in Instances
    /\ worker[w].pc \in {"work", "apply"} => worker[w].left > 0

ClientOrderly(c) ==
    /\ lock = c => client[c].pc = "start"
    /\ client[c].pc \notin {"idle", "start"} => client[c].at \in Instances

LEMMA OrderlyByTask ==
    Orderly <=> /\ \A w \in Workers : RunOrderly(w)
                /\ \A c \in Clients : ClientOrderly(c)
BY DEF Orderly, RunOrderly, ClientOrderly, WorkerPcs

\* The other tasks are not disturbed when only one moves and the lock passes
\* between it and nobody.
LEMMA WorkerMoves ==
    ASSUME TypeOK, NEW w \in Workers, NEW x,
           worker' = [worker EXCEPT ![w] = x],
           lock' = lock \/ lock' = w \/ (lock = w /\ lock' = None),
           lock # w /\ lock' = w => lock = None,
           UNCHANGED client, RunOrderly(w)'
    PROVE  Orderly'
<1>1. ASSUME NEW v \in Workers, v # w
      PROVE  RunOrderly(v)'
  BY <1>1, OrderlyByTask, Assumed DEF TypeOK, RunOrderly, Actors, WorldTyped
<1>2. ASSUME NEW c \in Clients
      PROVE  ClientOrderly(c)'
  BY OrderlyByTask, Assumed DEF TypeOK, ClientOrderly, Actors, WorldTyped
<1> QED
  BY <1>1, <1>2 DEF Orderly, RunOrderly, ClientOrderly, WorkerPcs

LEMMA ClientMoves ==
    ASSUME TypeOK, NEW c \in Clients, NEW x,
           client' = [client EXCEPT ![c] = x],
           lock' = lock \/ lock' = c \/ (lock = c /\ lock' = None),
           lock # c /\ lock' = c => lock = None,
           UNCHANGED worker, ClientOrderly(c)'
    PROVE  Orderly'
<1>1. ASSUME NEW w \in Workers
      PROVE  RunOrderly(w)'
  BY OrderlyByTask, Assumed DEF TypeOK, RunOrderly, Actors, WorldTyped
<1>2. ASSUME NEW d \in Clients, d # c
      PROVE  ClientOrderly(d)'
  BY <1>2, OrderlyByTask, Assumed DEF TypeOK, ClientOrderly, Actors, WorldTyped
<1> QED
  BY <1>1, <1>2 DEF Orderly, RunOrderly, ClientOrderly, WorkerPcs

LEMMA OrderlyLoop ==
    ASSUME TypeOK, WaiterKept, NEW w \in Workers, Loop(w)
    PROVE  Orderly'
<1>0. /\ worker[w] \in Worker /\ worker \in [Workers -> Worker]
      /\ RunOrderly(w) /\ w # None
  BY OrderlyByTask, Assumed DEF TypeOK, Actors
<1>1. ASSUME NEW pc \in {"sleep", "list", "pick"}, NEW x,
             worker' = [worker EXCEPT ![w] = x], x.pc = pc, x.pending = {},
             UNCHANGED <<client, lock>>, lock # w
      PROVE  Orderly'
  <2>1. RunOrderly(w)'
    BY <1>0, <1>1 DEF RunOrderly
  <2> QED
    BY <1>1, <2>1, WorkerMoves
<1>2. ASSUME NEW result, Ends(w, result), UNCHANGED client,
             worker[w].at \in Instances,
             lock' = IF lock = w THEN None ELSE lock
      PROVE  Orderly'
  <2> DEFINE x == [worker[w] EXCEPT !.pc = "deliver", !.result = result]
  <2>1. x.pc = "deliver" /\ x.at = worker[w].at
    BY <1>0 DEF Worker
  <2>2. worker' = [worker EXCEPT ![w] = x]
    BY <1>2 DEF Ends
  <2> HIDE DEF x
  <2>3. RunOrderly(w)'
    BY <1>0, <1>2, <2>1, <2>2 DEF RunOrderly
  <2> QED
    BY <1>2, <2>2, <2>3, WorkerMoves
<1>3. CASE Take(w) \/ List(w)
  <2>1. PICK pc \in {"list", "pick"} : worker' = [worker EXCEPT ![w].pc = pc]
    BY <1>3 DEF Take, List
  <2>2. UNCHANGED <<client, lock>> /\ lock # w
    BY <1>0, <1>3 DEF Take, List, RunOrderly, shared
  <2> DEFINE x == [worker[w] EXCEPT !.pc = pc]
  <2>3. x.pc = pc /\ x.pending = {}
    BY <1>0, <1>3 DEF Worker, Take, List, RunOrderly
  <2> QED
    BY <1>1, <2>1, <2>2, <2>3
<1>4. CASE Pick(w)
  <2>1. UNCHANGED <<client, lock>> /\ lock # w
    BY <1>0, <1>4 DEF Pick, RunOrderly, shared
  <2>2. ASSUME NEW i \in Instances,
               worker' = [worker EXCEPT ![w] = [Off EXCEPT !.pc = "begin",
                              !.at = i, !.pending = queue.waiters[i]]]
        PROVE  Orderly'
    <3> DEFINE x == [Off EXCEPT !.pc = "begin", !.at = i,
                                !.pending = queue.waiters[i]]
    <3>1. x.pc = "begin" /\ x.at = i
      BY DEF Off
    <3>2. worker' = [worker EXCEPT ![w] = x]
      BY <2>2
    <3> HIDE DEF x
    <3>3. RunOrderly(w)'
      BY <1>0, <2>1, <3>1, <3>2 DEF RunOrderly
    <3> QED
      BY <2>1, <3>2, <3>3, WorkerMoves
  <2>3. CASE worker' = [worker EXCEPT ![w].pc = "sleep"]
    <3> DEFINE x == [worker[w] EXCEPT !.pc = "sleep"]
    <3>1. x.pc = "sleep" /\ x.pending = {}
      BY <1>0, <1>4 DEF Worker, Pick, RunOrderly
    <3> QED
      BY <1>1, <2>1, <2>3, <3>1
  <2>4. CASE worker' = [worker EXCEPT ![w] = Off]
    <3>1. RunOrderly(w)'
      BY <1>0, <2>1, <2>4 DEF RunOrderly, Off
    <3> QED
      BY <2>1, <2>4, <3>1, WorkerMoves
  <2>5. Waited \subseteq Instances /\ Pickable \subseteq Instances
    BY DEF Waited, Pickable, TypeOK, QueueTyped
  <2> QED
    BY <1>4, <2>2, <2>3, <2>4, <2>5 DEF Pick
<1>5. CASE Begin(w)
  <2>1. /\ UNCHANGED <<client, lock>> /\ lock # w
        /\ worker[w].at \in Instances
    BY <1>0, <1>5 DEF Begin, RunOrderly, shared
  <2>2. CASE Ends(w, "skipped")
    BY <1>2, <2>1, <2>2
  <2>3. CASE worker' = [worker EXCEPT ![w].pc = "read",
                                      ![w].view.held = worker[w].at \in held]
    <3> DEFINE now == worker[w].at \in held
               x == [worker[w] EXCEPT !.pc = "read", !.view.held = now]
    <3>1. x.pc = "read" /\ x.at = worker[w].at
      BY <1>0 DEF Worker
    <3>2. worker' = [worker EXCEPT ![w] = x]
      BY <2>3
    <3> HIDE DEF x
    <3>3. RunOrderly(w)'
      BY <1>0, <2>1, <3>1, <3>2 DEF RunOrderly
    <3> QED
      BY <2>1, <3>2, <3>3, WorkerMoves
  <2> QED
    BY <1>5, <2>2, <2>3 DEF Begin
<1>6. CASE Read(w)
  <2>1. /\ UNCHANGED <<client, lock>> /\ lock # w
        /\ worker[w].at \in Instances
    BY <1>0, <1>6 DEF Read, RunOrderly, shared
  <2>2. ASSUME NEW result, Ends(w, result)
        PROVE  Orderly'
    BY <1>2, <2>1, <2>2
  <2>3. CASE worker' = [worker EXCEPT ![w].pc = "work",
                   ![w].view = ViewOf(worker[w].at), ![w].left = Rounds]
    <3> DEFINE x == [worker[w] EXCEPT !.pc = "work",
                         !.view = ViewOf(worker[w].at), !.left = Rounds]
    <3>1. x.pc = "work" /\ x.at = worker[w].at /\ x.left > 0
      BY <1>0, Assumed DEF Worker, Actors
    <3>2. worker' = [worker EXCEPT ![w] = x]
      BY <2>3
    <3> HIDE DEF x
    <3>3. RunOrderly(w)'
      BY <1>0, <2>1, <3>1, <3>2 DEF RunOrderly
    <3> QED
      BY <2>1, <3>2, <3>3, WorkerMoves
  <2> QED
    BY <1>6, <2>2, <2>3 DEF Read
<1>7. CASE Work(w)
  <2>1. /\ UNCHANGED client /\ lock = None
        /\ worker[w].at \in Instances /\ worker[w].left > 0
    BY <1>0, <1>7 DEF Work, RunOrderly
  <2>2. ASSUME NEW result, Ends(w, result), lock' = lock
        PROVE  Orderly'
    BY <1>0, <1>2, <2>1, <2>2
  <2>3. ASSUME NEW x, x.pc = "apply", x.at = worker[w].at,
               x.left = worker[w].left, worker' = [worker EXCEPT ![w] = x],
               lock' = w
        PROVE  Orderly'
    <3>1. RunOrderly(w)'
      BY <1>0, <2>1, <2>3 DEF RunOrderly
    <3> QED
      BY <2>1, <2>3, <3>1, WorkerMoves
  <2>4. ASSUME NEW v
        PROVE  LET x == [worker[w] EXCEPT !.pc = "apply", !.view.lib = v]
               IN  x.pc = "apply" /\ x.at = worker[w].at
                   /\ x.left = worker[w].left
    BY <1>0 DEF Worker
  <2>5. LET x == [worker[w] EXCEPT !.pc = "apply", !.result = "broken"]
        IN  x.pc = "apply" /\ x.at = worker[w].at /\ x.left = worker[w].left
    BY <1>0 DEF Worker
  <2>6. \/ (\E result \in Results : Ends(w, result)) /\ lock' = lock
        \/ (\E v : worker' = [worker EXCEPT ![w].pc = "apply", ![w].view.lib = v])
           /\ lock' = w
        \/ worker' = [worker EXCEPT ![w].pc = "apply", ![w].result = "broken"]
           /\ lock' = w
    <3>1. {"changed", "limited", "error"} \subseteq Results
      BY DEF Results
    <3> QED
      BY <1>7, <3>1 DEF Work
  <2> QED
    BY <2>2, <2>3, <2>4, <2>5, <2>6
<1>8. CASE Apply(w)
  <2>1. /\ UNCHANGED client /\ lock = w /\ lock' = None
        /\ worker[w].at \in Instances
    BY <1>0, <1>8 DEF Apply, RunOrderly
  <2>2. ASSUME NEW result, Ends(w, result)
        PROVE  Orderly'
    BY <1>2, <2>1, <2>2
  <2>3. ASSUME NEW view, worker[w].left > 1,
               worker' = [worker EXCEPT ![w].pc = "work", ![w].left = @ - 1,
                                        ![w].view = view]
        PROVE  Orderly'
    <3> DEFINE less == worker[w].left - 1
               x == [worker[w] EXCEPT !.pc = "work", !.left = less, !.view = view]
    <3>1. x.pc = "work" /\ x.at = worker[w].at /\ x.left > 0
      BY <1>0, <2>3, Assumed DEF Worker, Actors
    <3>2. worker' = [worker EXCEPT ![w] = x]
      BY <1>0, <2>3 DEF Worker
    <3> HIDE DEF x
    <3>3. RunOrderly(w)'
      BY <1>0, <2>1, <3>1, <3>2 DEF RunOrderly
    <3> QED
      BY <2>1, <3>2, <3>3, WorkerMoves
  <2> QED
    BY <1>8, <2>2, <2>3 DEF Apply
<1>9. CASE Redo(w)
  <2>1. UNCHANGED <<client, lock>> /\ lock # w
    BY <1>0, <1>9 DEF Redo, RunOrderly, shared
  <2> DEFINE x == [Off EXCEPT !.pc = "sleep"]
  <2>2. x.pc = "sleep" /\ x.pending = {}
    BY DEF Off
  <2> QED
    BY <1>1, <1>9, <2>1, <2>2 DEF Redo, Again
<1>10. CASE Defer(w) \/ Deliver(w)
  <2>1. /\ lock' = lock /\ lock # w
        /\ worker' = [worker EXCEPT ![w] = [Off EXCEPT !.pc = "sleep"]]
    BY <1>0, <1>10 DEF Defer, Deliver, Again, RunOrderly, shared
  <2>2. ASSUME NEW v \in Workers
        PROVE  RunOrderly(v)'
    BY <2>1, <1>0, OrderlyByTask DEF RunOrderly, Off, TypeOK
  <2>3. PICK clients : /\ Answer(clients)
                       /\ \A c \in clients : c \in Clients => Unanswered(c)
    <3>1. \A c \in worker[w].pending : c \in Clients => Unanswered(c)
      BY DEF WaiterKept
    <3>2. worker[w].at \in Instances
      BY <1>0, <1>10 DEF RunOrderly, Defer, Deliver
    <3>3. \A c \in queue.waiters[worker[w].at] : c \in Clients => Unanswered(c)
      BY <3>2 DEF WaiterKept
    <3> QED
      BY <1>10, <3>1, <3>3 DEF Defer, Deliver
  <2>4. ASSUME NEW c \in Clients
        PROVE  ClientOrderly(c)'
    <3>1. c \in clients => lock # c
      BY <2>3, OrderlyByTask DEF ClientOrderly, Unanswered, TypeOK
    <3>2. CASE c \in clients
      BY <2>1, <2>3, <3>1, <3>2 DEF ClientOrderly, Answer, Idle
    <3>3. CASE c \notin clients
      BY <2>1, <2>3, <3>3, OrderlyByTask DEF ClientOrderly, Answer, TypeOK
    <3> QED
      BY <3>2, <3>3
  <2> QED
    BY <2>2, <2>4 DEF Orderly, RunOrderly, ClientOrderly, WorkerPcs
<1> QED
  BY <1>3, <1>4, <1>5, <1>6, <1>7, <1>8, <1>9, <1>10 DEF Loop

LEMMA StartedOrderly ==
    ASSUME TypeOK, Started, NEW w \in Workers, lock' # w \/ lock' = lock,
           lock # w \/ lock' = w
    PROVE  RunOrderly(w)'
<1>1. RunOrderly(w)
  BY OrderlyByTask DEF TypeOK
<1>2. CASE worker' = worker
  BY <1>1, <1>2 DEF RunOrderly
<1>3. ASSUME NEW v \in Workers, worker[v].pc = "off",
             worker' = [worker EXCEPT ![v] = [Off EXCEPT !.pc = "sleep"]]
      PROVE  RunOrderly(w)'
  BY <1>1, <1>3 DEF RunOrderly, Off, TypeOK
<1> QED
  BY <1>2, <1>3 DEF Started

LEMMA OrderlyProceed ==
    ASSUME TypeOK, NEW c \in Clients, Proceed(c)
    PROVE  Orderly'
<1>0. /\ client[c] \in Client /\ client \in [Clients -> Client]
      /\ ClientOrderly(c) /\ c # None
  BY OrderlyByTask, Assumed DEF TypeOK, Actors
<1>1. CASE Start(c)
  <2>1. lock' = IF lock = c THEN None ELSE lock
    BY <1>1 DEF Start
  <2>2. ASSUME NEW w \in Workers
        PROVE  RunOrderly(w)'
    <3>1. c # w /\ None # w
      BY Assumed DEF Actors
    <3> QED
      BY <1>1, <2>1, <3>1, StartedOrderly DEF Start
  <2>3. ASSUME NEW d \in Clients
        PROVE  ClientOrderly(d)'
    <3>1. None # d /\ ClientOrderly(d)
      BY OrderlyByTask, Assumed DEF Actors, TypeOK
    <3>2. CASE Becomes(c, "waiting") /\ client[c].pc = "flushing"
      BY <1>0, <2>1, <3>1, <3>2 DEF ClientOrderly, Becomes, Client
    <3>3. CASE client' = [client EXCEPT ![c] = Idle]
      BY <1>0, <2>1, <3>1, <3>3 DEF ClientOrderly, Idle
    <3> QED
      BY <1>1, <3>2, <3>3 DEF Start
  <2> QED
    BY <2>2, <2>3 DEF Orderly, RunOrderly, ClientOrderly, WorkerPcs
<1>2. ASSUME NEW pc \in {"installed", "start", "capture"}, Becomes(c, pc),
             UNCHANGED worker, client[c].pc \notin {"idle", "start"},
             lock' = lock \/ (lock' = c /\ lock = None /\ pc = "start")
      PROVE  Orderly'
  <2> DEFINE x == [client[c] EXCEPT !.pc = pc]
  <2>1. x.pc = pc /\ x.at = client[c].at
    BY <1>0 DEF Client
  <2>2. client' = [client EXCEPT ![c] = x]
    BY <1>2 DEF Becomes
  <2> HIDE DEF x
  <2>3. ClientOrderly(c)'
    BY <1>0, <1>2, <2>1, <2>2 DEF ClientOrderly
  <2> QED
    BY <1>2, <2>2, <2>3, ClientMoves
<1>3. CASE Release(c)
  <2>1. /\ UNCHANGED <<worker, lock>> /\ client[c].pc = "install"
    BY <1>3 DEF Release, shared
  <2>2. CASE client' = [client EXCEPT ![c] = Idle]
    <3>1. ClientOrderly(c)'
      BY <1>0, <2>1, <2>2 DEF ClientOrderly, Idle
    <3> QED
      BY <2>1, <2>2, <3>1, ClientMoves
  <2> QED
    BY <1>2, <1>3, <2>1, <2>2 DEF Release
<1>4. CASE Request(c)
  BY <1>2, <1>4 DEF Request, shared
<1>5. CASE Capture(c)
  <2>1. UNCHANGED <<worker, lock>> /\ client[c].pc = "capture"
    BY <1>5 DEF Capture, shared
  <2>2. CASE client' = [client EXCEPT ![c].pc = "work",
                                      ![c].view = ViewOf(client[c].at)]
    <3> DEFINE x == [client[c] EXCEPT !.pc = "work",
                                      !.view = ViewOf(client[c].at)]
    <3>1. x.pc = "work" /\ x.at = client[c].at
      BY <1>0 DEF Client
    <3>2. client' = [client EXCEPT ![c] = x]
      BY <2>2
    <3> HIDE DEF x
    <3>3. ClientOrderly(c)'
      BY <1>0, <2>1, <3>1, <3>2 DEF ClientOrderly
    <3> QED
      BY <2>1, <3>2, <3>3, ClientMoves
  <2> QED
    BY <1>2, <1>5, <2>1, <2>2 DEF Capture
<1>6. CASE EndCapture(c)
  BY <1>2, <1>6 DEF EndCapture
<1> QED
  BY <1>1, <1>3, <1>4, <1>5, <1>6 DEF Proceed

LEMMA OrderlyTimer ==
    ASSUME TypeOK, Timer
    PROVE  Orderly'
<1>1. UNCHANGED <<client, lock>>
  BY DEF Timer, TimerStart, Elapse, Wake, shared
<1>2. ASSUME NEW w \in Workers
      PROVE  RunOrderly(w)'
  <2>1. CASE TimerStart
    BY <1>1, <2>1, StartedOrderly DEF TimerStart
  <2>2. CASE worker' = worker
    BY <1>1, <2>2, OrderlyByTask DEF RunOrderly, TypeOK
  <2> QED
    BY <2>1, <2>2 DEF Timer, Elapse, Wake
<1>3. ASSUME NEW c \in Clients
      PROVE  ClientOrderly(c)'
  BY <1>1, OrderlyByTask DEF ClientOrderly, TypeOK
<1> QED
  BY <1>2, <1>3 DEF Orderly, RunOrderly, ClientOrderly, WorkerPcs

LEMMA OrderlyCommand ==
    ASSUME TypeOK, Command
    PROVE  Orderly'
<1>0. client \in [Clients -> Client] /\ Orderly
  BY DEF TypeOK
<1>1. ASSUME NEW c \in Clients, NEW x, client' = [client EXCEPT ![c] = x],
             client[c].pc = "idle", UNCHANGED worker,
             \/ x.pc = "start" /\ lock' = c /\ lock = None
             \/ lock' = lock /\ x.at \in Instances
      PROVE  Orderly'
  <2>1. ClientOrderly(c)
    BY <1>0, OrderlyByTask
  <2>2. ClientOrderly(c)'
    BY <1>0, <1>1, <2>1 DEF ClientOrderly
  <2> QED
    BY <1>1, <2>2, ClientMoves
<1>2. ASSUME NEW c \in Clients, Edit(c)
      PROVE  Orderly'
  <2> DEFINE x == [client[c] EXCEPT !.pc = "start"]
  <2>1. x.pc = "start"
    BY <1>0 DEF Client
  <2>2. client' = [client EXCEPT ![c] = x]
    BY <1>2 DEF Edit, Becomes
  <2> HIDE DEF x
  <2> QED
    BY <1>1, <1>2, <2>1, <2>2 DEF Edit
<1>3. ASSUME NEW c \in Clients, NEW i \in Instances, Flush(c, i)
      PROVE  Orderly'
  <2>1. CASE client' = client
    BY <1>0, <1>3, <2>1 DEF Flush, shared, Orderly
  <2>2. CASE client' = [client EXCEPT ![c] = [Idle EXCEPT
                            !.pc = "flushing", !.at = i, !.asked = lib]]
    <3> DEFINE x == [Idle EXCEPT !.pc = "flushing", !.at = i, !.asked = lib]
    <3>1. x.at = i
      BY DEF Idle
    <3>2. client' = [client EXCEPT ![c] = x]
      BY <2>2
    <3> HIDE DEF x
    <3> QED
      BY <1>1, <1>3, <3>1, <3>2 DEF Flush, shared
  <2> QED
    BY <1>3, <2>1, <2>2 DEF Flush
<1>4. ASSUME NEW c \in Clients, NEW i \in Instances, Hold(c, i) \/ Touch(c, i)
      PROVE  Orderly'
  <2>1. PICK pc : client' = [client EXCEPT ![c].pc = pc, ![c].at = i]
    BY <1>4 DEF Hold, Touch
  <2> DEFINE x == [client[c] EXCEPT !.pc = pc, !.at = i]
  <2>2. x.at = i
    BY <1>0 DEF Client
  <2>3. client' = [client EXCEPT ![c] = x]
    BY <2>1
  <2>4. UNCHANGED <<worker, lock>> /\ client[c].pc = "idle"
    BY <1>4 DEF Hold, Touch, shared
  <2> HIDE DEF x
  <2> QED
    BY <1>1, <2>2, <2>3, <2>4
<1>5. ASSUME NEW i \in Instances, Delete(i)
      PROVE  Orderly'
  BY <1>0, <1>5 DEF Delete, shared, Orderly
<1> QED
  BY <1>2, <1>3, <1>4, <1>5 DEF Command

\* TypeOK is preserved by every step, given WaiterKept: whoever is answered
\* does not hold the lock.
LEMMA TypeStep ==
    ASSUME TypeOK, WaiterKept, [Next]_vars
    PROVE  TypeOK'
<1>1. ASSUME NEW w \in Workers, Loop(w)
      PROVE  TypeOK'
  BY <1>1, LoopQueue, LoopTasks, LoopWorld, OrderlyLoop DEF TypeOK
<1>2. ASSUME NEW c \in Clients, Proceed(c)
      PROVE  TypeOK'
  BY <1>2, ProceedQueue, ProceedTasks, ProceedWorld, OrderlyProceed DEF TypeOK
<1>3. CASE Timer
  BY <1>3, TimerTyped, OrderlyTimer DEF TypeOK
<1>4. CASE Command
  BY <1>4, CommandTyped, OrderlyCommand DEF TypeOK
<1>5. CASE UNCHANGED vars
  BY <1>5 DEF vars, timers, shared, world, counts, TypeOK, QueueTyped,
              WorldTyped, Orderly
<1> QED
  BY <1>1, <1>2, <1>3, <1>4, <1>5 DEF Next

----------------------------------------------------------------------------
(* Whoever waits is registered in one place. *)

\* WaiterKept without cardinalities: one fact for each way to lose a waiter.
Registered ==
    /\ \A c \in Clients, i \in Instances : c \in queue.waiters[i] =>
          Unanswered(c) /\ client[c].at = i /\ i \in queue.instances
    /\ \A c \in Clients, w \in Workers : c \in worker[w].pending =>
          Unanswered(c) /\ client[c].at = worker[w].at
    /\ \A c \in Clients : Unanswered(c) =>
          \/ c \in queue.waiters[client[c].at]
          \/ \E w \in Workers : c \in worker[w].pending
    /\ \A c \in Clients, i \in Instances, w \in Workers :
          ~(c \in queue.waiters[i] /\ c \in worker[w].pending)
    /\ \A c \in Clients, v, w \in Workers :
          c \in worker[v].pending /\ c \in worker[w].pending => v = w

Placed == \A c \in Clients : Unanswered(c) => client[c].at \in Instances

LEMMA RegisteredIsKept == Placed => (Registered <=> WaiterKept)
<1> SUFFICES ASSUME Placed
             PROVE  Registered <=> WaiterKept
  OBVIOUS
<1> USE DEF Placed
<1>1. ASSUME Registered
      PROVE  WaiterKept
  <2> SUFFICES ASSUME NEW c \in Clients
               PROVE  LET queued == {i \in Instances : c \in queue.waiters[i]}
                          taken == {w \in Workers : c \in worker[w].pending}
                      IN  IF Unanswered(c)
                          THEN \/ /\ queued = {client[c].at} /\ taken = {}
                                  /\ client[c].at \in queue.instances
                               \/ /\ queued = {}
                                  /\ \E w \in Workers :
                                        /\ taken = {w}
                                        /\ worker[w].at = client[c].at
                          ELSE queued = {} /\ taken = {}
    BY DEF WaiterKept
  <2>1. CASE ~Unanswered(c)
    BY <1>1, <2>1 DEF Registered
  <2>2. CASE Unanswered(c) /\ c \in queue.waiters[client[c].at]
    BY <1>1, <2>2 DEF Registered
  <2>3. ASSUME NEW w \in Workers, Unanswered(c), c \in worker[w].pending
        PROVE  /\ {i \in Instances : c \in queue.waiters[i]} = {}
               /\ {v \in Workers : c \in worker[v].pending} = {w}
               /\ worker[w].at = client[c].at
    BY <1>1, <2>3 DEF Registered
  <2> QED
    BY <1>1, <2>1, <2>2, <2>3 DEF Registered
<1>2. ASSUME WaiterKept
      PROVE  Registered
  <2>1. ASSUME NEW c \in Clients, NEW i \in Instances, c \in queue.waiters[i]
        PROVE  /\ Unanswered(c) /\ client[c].at = i /\ i \in queue.instances
               /\ \A w \in Workers : c \notin worker[w].pending
    BY <1>2, <2>1 DEF WaiterKept
  <2>2. ASSUME NEW c \in Clients, NEW w \in Workers, c \in worker[w].pending
        PROVE  /\ Unanswered(c) /\ client[c].at = worker[w].at
               /\ \A v \in Workers : c \in worker[v].pending => v = w
    BY <1>2, <2>2 DEF WaiterKept
  <2>3. ASSUME NEW c \in Clients, Unanswered(c)
        PROVE  \/ c \in queue.waiters[client[c].at]
               \/ \E w \in Workers : c \in worker[w].pending
    BY <1>2, <2>3 DEF WaiterKept
  <2> QED
    BY <2>1, <2>2, <2>3 DEF Registered
<1> QED
  BY <1>1, <1>2

\* A step that leaves those who wait, and where, alone.
Undisturbed ==
    /\ queue'.waiters = queue.waiters
    /\ queue.instances \subseteq queue'.instances
    /\ \A w \in Workers : /\ worker'[w].pending = worker[w].pending
                          /\ worker[w].pending # {} =>
                                worker'[w].at = worker[w].at
    /\ \A c \in Clients : /\ Unanswered(c)' <=> Unanswered(c)
                          /\ Unanswered(c) => client'[c].at = client[c].at

LEMMA UndisturbedRegistered ==
    ASSUME Registered, Undisturbed
    PROVE  Registered'
BY DEF Registered, Undisturbed

LEMMA StartedUndisturbed ==
    ASSUME TypeOK, Started
    PROVE  /\ queue'.waiters = queue.waiters
           /\ queue'.instances = queue.instances
           /\ \A w \in Workers : /\ worker'[w].pending = worker[w].pending
                                 /\ worker[w].pending # {} =>
                                       worker'[w].at = worker[w].at
<1>1. CASE worker' = worker /\ queue' = queue
  BY <1>1
<1>2. ASSUME NEW v \in Workers, worker[v].pc = "off",
             worker' = [worker EXCEPT ![v] = [Off EXCEPT !.pc = "sleep"]],
             queue' = [queue EXCEPT !.running = TRUE]
      PROVE  /\ queue'.waiters = queue.waiters
             /\ queue'.instances = queue.instances
             /\ \A w \in Workers : /\ worker'[w].pending = worker[w].pending
                                   /\ worker[w].pending # {} =>
                                         worker'[w].at = worker[w].at
  <2>1. worker[v].pending = {}
    BY <1>2 DEF TypeOK, Orderly
  <2> QED
    BY <1>2, <2>1 DEF TypeOK, QueueTyped, Off
<1> QED
  BY <1>1, <1>2 DEF Started

LEMMA RegisteredLoop ==
    ASSUME TypeOK, Registered, NEW w \in Workers, Loop(w)
    PROVE  Registered'
<1>0. /\ worker[w] \in Worker /\ worker \in [Workers -> Worker]
      /\ QueueTyped /\ RunOrderly(w)
  BY OrderlyByTask DEF TypeOK
<1>1. ASSUME UNCHANGED client, queue'.waiters = queue.waiters,
             queue.instances \subseteq queue'.instances,
             NEW x, worker' = [worker EXCEPT ![w] = x],
             x.pending = worker[w].pending,
             x.at = worker[w].at \/ x.pending = {}
      PROVE  Registered'
  <2>1. Undisturbed
    BY <1>0, <1>1 DEF Undisturbed, Unanswered
  <2> QED
    BY <2>1, UndisturbedRegistered
<1>2. CASE Take(w) \/ List(w)
  <2>1. PICK pc : worker' = [worker EXCEPT ![w].pc = pc]
    BY <1>2 DEF Take, List
  <2>2. LET x == [worker[w] EXCEPT !.pc = pc]
        IN  x.pending = worker[w].pending /\ x.at = worker[w].at
    BY <1>0 DEF Worker
  <2>3. /\ queue'.waiters = queue.waiters /\ UNCHANGED client
        /\ queue.instances \subseteq queue'.instances
    BY <1>0, <1>2 DEF Take, List, QueueTyped
  <2> QED
    BY <1>1, <2>1, <2>2, <2>3
<1>3. CASE Begin(w) \/ Read(w) \/ Work(w) \/ Apply(w)
  <2>1. /\ queue'.waiters = queue.waiters /\ UNCHANGED client
        /\ queue'.instances = queue.instances
    BY <1>0, <1>3 DEF Begin, Read, Work, Apply, QueueTyped
  <2>2. /\ worker'[w].pending = worker[w].pending
        /\ worker'[w].at = worker[w].at
        /\ \A v \in Workers \ {w} : worker'[v] = worker[v]
    <3>1. CASE Begin(w)
      BY <1>0, <3>1 DEF Begin, Ends, Worker
    <3>2. CASE Read(w)
      BY <1>0, <3>2 DEF Read, Ends, Worker
    <3>3. CASE Work(w)
      BY <1>0, <3>3 DEF Work, Ends, Worker
    <3>4. CASE Apply(w)
      BY <1>0, <3>4 DEF Apply, Ends, Worker
    <3> QED
      BY <1>3, <3>1, <3>2, <3>3, <3>4
  <2>3. Undisturbed
    BY <2>1, <2>2 DEF Undisturbed, Unanswered
  <2> QED
    BY <2>3, UndisturbedRegistered
<1>4. CASE Pick(w)
  <2>1. worker[w].pending = {} /\ UNCHANGED client
    BY <1>0, <1>4 DEF Pick, RunOrderly
  <2>2. ASSUME NEW i \in Instances,
               queue' = [queue EXCEPT !.instances = @ \ {i}, !.waiters[i] = {}],
               worker' = [worker EXCEPT ![w] = [Off EXCEPT !.pc = "begin",
                              !.at = i, !.pending = queue.waiters[i]]]
        PROVE  Registered'
    <3>1. /\ queue'.instances = queue.instances \ {i}
          /\ queue'.waiters = [queue.waiters EXCEPT ![i] = {}]
      BY <1>0, <2>2 DEF QueueTyped
    <3>2. /\ worker'[w].at = i /\ worker'[w].pending = queue.waiters[i]
          /\ \A v \in Workers \ {w} : worker'[v] = worker[v]
      BY <1>0, <2>2 DEF Off
    <3>3. queue.waiters \in [Instances -> SUBSET Clients]
      BY <1>0 DEF QueueTyped
    <3> QED
      BY <2>1, <3>1, <3>2, <3>3 DEF Registered, Unanswered
  <2>3. CASE worker' = [worker EXCEPT ![w].pc = "sleep"] /\ UNCHANGED queue
    <3>1. LET x == [worker[w] EXCEPT !.pc = "sleep"]
          IN  x.pending = worker[w].pending /\ x.at = worker[w].at
      BY <1>0 DEF Worker
    <3> QED
      BY <1>1, <2>1, <2>3, <3>1
  <2>4. CASE /\ worker' = [worker EXCEPT ![w] = Off]
             /\ queue' = [queue EXCEPT !.running = FALSE]
    <3>1. queue'.waiters = queue.waiters /\ queue'.instances = queue.instances
      BY <1>0, <2>4 DEF QueueTyped
    <3>2. Off.pending = {}
      BY DEF Off
    <3> QED
      BY <1>1, <2>1, <2>4, <3>1, <3>2
  <2>5. Waited \subseteq Instances /\ Pickable \subseteq Instances
    BY <1>0 DEF Waited, Pickable, QueueTyped
  <2> QED
    BY <1>4, <2>2, <2>3, <2>4, <2>5 DEF Pick
<1>5. CASE Redo(w) \/ Defer(w) \/ Deliver(w)
  <2> DEFINE i == worker[w].at
  <2>1. i \in Instances /\ queue.waiters \in [Instances -> SUBSET Clients]
    BY <1>0, <1>5 DEF Redo, Defer, Deliver, RunOrderly, QueueTyped
  <2>2. /\ worker'[w].pending = {}
        /\ \A v \in Workers \ {w} : worker'[v] = worker[v]
    BY <1>0, <1>5 DEF Redo, Defer, Deliver, Again, Off
  <2>3. ASSUME NEW clients, Answer(clients), NEW c \in Clients
        PROVE  /\ c \in clients => ~Unanswered(c)'
               /\ c \notin clients => client'[c] = client[c]
    BY <2>3 DEF Answer, Unanswered, Idle
  <2> HIDE DEF i
  <2>4. CASE Redo(w)
    <3>1. /\ queue'.instances = queue.instances \cup {i} /\ UNCHANGED client
          /\ queue'.waiters = [queue.waiters EXCEPT ![i] =
                                  @ \cup worker[w].pending]
      BY <1>0, <2>4 DEF Redo, QueueTyped, i
    <3> QED
      BY <2>1, <2>2, <3>1 DEF Registered, Unanswered, i
  <2>5. CASE Defer(w)
    <3>1. /\ queue'.instances = queue.instances \cup {i}
          /\ queue'.waiters = [queue.waiters EXCEPT ![i] = {}]
          /\ Answer(worker[w].pending \cup queue.waiters[i])
      BY <1>0, <2>5 DEF Defer, QueueTyped, i
    <3> QED
      BY <2>1, <2>2, <2>3, <3>1 DEF Registered, Unanswered
  <2>6. CASE Deliver(w)
    <3>1. UNCHANGED queue /\ Answer(worker[w].pending)
      BY <2>6 DEF Deliver
    <3> QED
      BY <2>1, <2>2, <2>3, <3>1 DEF Registered, Unanswered
  <2> QED
    BY <1>5, <2>4, <2>5, <2>6
<1> QED
  BY <1>2, <1>3, <1>4, <1>5 DEF Loop

LEMMA RegisteredProceed ==
    ASSUME TypeOK, Registered, NEW c \in Clients, Proceed(c)
    PROVE  Registered'
<1>0. /\ client[c] \in Client /\ client \in [Clients -> Client] /\ QueueTyped
  BY DEF TypeOK
<1>1. CASE Start(c)
  <2>1. \A d \in Clients : /\ Unanswered(d)' <=> Unanswered(d)
                           /\ Unanswered(d) => client'[d].at = client[d].at
    <3>1. CASE Becomes(c, "waiting") /\ client[c].pc = "flushing"
      BY <1>0, <3>1 DEF Becomes, Unanswered, Client
    <3>2. CASE client' = [client EXCEPT ![c] = Idle] /\ client[c].pc = "start"
      BY <1>0, <3>2 DEF Unanswered, Idle
    <3> QED
      BY <1>1, <3>1, <3>2 DEF Start
  <2>2. Undisturbed
    BY <1>1, <2>1, StartedUndisturbed DEF Start, Undisturbed
  <2> QED
    BY <2>2, UndisturbedRegistered
<1>2. CASE Release(c) \/ Request(c) \/ Capture(c) \/ EndCapture(c)
  <2>1. \A d \in Clients : /\ Unanswered(d)' <=> Unanswered(d)
                           /\ Unanswered(d) => client'[d].at = client[d].at
    <3>1. CASE Release(c)
      BY <1>0, <3>1 DEF Release, Becomes, Unanswered, Client, Idle
    <3>2. CASE Request(c)
      BY <1>0, <3>2 DEF Request, Becomes, Unanswered, Client
    <3>3. CASE Capture(c)
      BY <1>0, <3>3 DEF Capture, Becomes, Unanswered, Client
    <3>4. CASE EndCapture(c)
      BY <1>0, <3>4 DEF EndCapture, Becomes, Unanswered, Client
    <3> QED
      BY <1>2, <3>1, <3>2, <3>3, <3>4
  <2>2. /\ queue'.waiters = queue.waiters /\ UNCHANGED worker
        /\ queue.instances \subseteq queue'.instances
    BY <1>0, <1>2 DEF Release, Request, Capture, EndCapture, QueueTyped
  <2>3. Undisturbed
    BY <2>1, <2>2 DEF Undisturbed
  <2> QED
    BY <2>3, UndisturbedRegistered
<1> QED
  BY <1>1, <1>2 DEF Proceed

LEMMA RegisteredTimer ==
    ASSUME TypeOK, Registered, Timer
    PROVE  Registered'
<1>1. UNCHANGED client
  BY DEF Timer, TimerStart, Elapse, Wake
<1>2. /\ queue'.waiters = queue.waiters
      /\ queue'.instances = queue.instances
      /\ \A w \in Workers : /\ worker'[w].pending = worker[w].pending
                            /\ worker[w].pending # {} =>
                                  worker'[w].at = worker[w].at
  <2>1. CASE TimerStart
    BY <2>1, StartedUndisturbed DEF TimerStart
  <2>2. ASSUME NEW i \in Instances, Elapse(i) \/ Wake(i)
        PROVE  /\ queue'.waiters = queue.waiters
               /\ queue'.instances = queue.instances /\ UNCHANGED worker
    BY <2>2 DEF Elapse, Wake, TypeOK, QueueTyped
  <2> QED
    BY <2>1, <2>2 DEF Timer
<1>3. Undisturbed
  BY <1>1, <1>2 DEF Undisturbed, Unanswered
<1> QED
  BY <1>3, UndisturbedRegistered

LEMMA RegisteredCommand ==
    ASSUME TypeOK, Registered, Command
    PROVE  Registered'
<1>0. client \in [Clients -> Client] /\ QueueTyped
  BY DEF TypeOK
<1>1. ASSUME NEW c \in Clients, NEW i \in Instances, Flush(c, i)
      PROVE  Registered'
  <2>1. CASE UNCHANGED <<queue, client>>
    BY <1>1, <2>1 DEF Flush, Registered, Unanswered
  <2>2. CASE /\ queue' = [queue EXCEPT !.instances = @ \cup {i},
                                       !.waiters[i] = @ \cup {c}]
             /\ client' = [client EXCEPT ![c] = [Idle EXCEPT
                               !.pc = "flushing", !.at = i, !.asked = lib]]
    <3>1. /\ queue'.instances = queue.instances \cup {i}
          /\ queue'.waiters = [queue.waiters EXCEPT ![i] = @ \cup {c}]
          /\ queue.waiters \in [Instances -> SUBSET Clients]
      BY <1>0, <2>2 DEF QueueTyped
    <3>2. /\ Unanswered(c)' /\ client'[c].at = i
          /\ \A d \in Clients \ {c} : client'[d] = client[d]
      BY <1>0, <2>2 DEF Idle, Unanswered
    <3>3. ~Unanswered(c) /\ UNCHANGED worker
      BY <1>1 DEF Flush, Unanswered
    <3> QED
      BY <3>1, <3>2, <3>3 DEF Registered, Unanswered
  <2> QED
    BY <1>1, <2>1, <2>2 DEF Flush
<1>2. ASSUME NEW c \in Clients, NEW i \in Instances, Hold(c, i) \/ Touch(c, i)
      PROVE  Undisturbed
  <2>1. \A d \in Clients : /\ Unanswered(d)' <=> Unanswered(d)
                           /\ Unanswered(d) => client'[d].at = client[d].at
    BY <1>0, <1>2 DEF Hold, Touch, Unanswered, Client
  <2>2. /\ queue'.waiters = queue.waiters /\ UNCHANGED worker
        /\ queue'.instances = queue.instances
    BY <1>0, <1>2 DEF Hold, Touch, QueueTyped
  <2> QED
    BY <2>1, <2>2 DEF Undisturbed
<1>3. ASSUME NEW i \in Instances, Delete(i)
      PROVE  Undisturbed
  BY <1>3 DEF Delete, Undisturbed, Unanswered
<1>4. ASSUME NEW c \in Clients, Edit(c)
      PROVE  Undisturbed
  <2>1. \A d \in Clients : /\ Unanswered(d)' <=> Unanswered(d)
                           /\ Unanswered(d) => client'[d].at = client[d].at
    BY <1>0, <1>4 DEF Edit, Becomes, Unanswered, Client
  <2>2. /\ queue'.waiters = queue.waiters /\ UNCHANGED worker
        /\ queue'.instances = queue.instances
    BY <1>0, <1>4 DEF Edit, QueueTyped
  <2> QED
    BY <2>1, <2>2 DEF Undisturbed
<1> QED
  BY <1>1, <1>2, <1>3, <1>4, UndisturbedRegistered DEF Command

LEMMA WaiterKeptStep ==
    ASSUME TypeOK, WaiterKept, [Next]_vars
    PROVE  WaiterKept'
<1>1. Registered
  <2>1. Placed
    BY DEF TypeOK, Orderly, Unanswered, Placed
  <2> QED
    BY <2>1, RegisteredIsKept
<1>2. Registered'
  <2>1. CASE UNCHANGED vars
    BY <1>1, <2>1 DEF vars, Registered, Unanswered
  <2> QED
    BY <1>1, <2>1, RegisteredLoop, RegisteredProceed, RegisteredTimer,
       RegisteredCommand DEF Next
<1>3. Placed'
  BY TypeStep DEF TypeOK, Orderly, Unanswered, Placed
<1>4. (Placed => (Registered <=> WaiterKept))'
  BY RegisteredIsKept, PTL
<1> QED
  BY <1>2, <1>3, <1>4

----------------------------------------------------------------------------
(* The theorems.  TypeOK and WaiterKept are inductive together, with them  *)
(* OneWorker, with both NoLostWakeup, and TimerKept with TypeOK.           *)

LEMMA Beginning ==
    ASSUME Init
    PROVE  TypeOK /\ WaiterKept /\ OneWorker /\ NoLostWakeup /\ TimerKept
<1> USE DEF Init
<1>1. QueueTyped
  BY DEF QueueTyped
<1>2. WorldTyped
  BY DEF WorldTyped
<1>3. worker \in [Workers -> Worker]
  <2>1. Off \in Worker
    BY OffTyped DEF WorkerPcs
  <2> QED
    BY <2>1
<1>4. client \in [Clients -> Client]
  BY IdleTyped
<1>5. Orderly
  BY Assumed DEF Orderly, Actors, Off, Idle
<1>6. WaiterKept
  BY DEF WaiterKept, Unanswered, Off, Idle
<1>7. OneWorker
  BY DEF OneWorker, Live, Off
<1>8. NoLostWakeup
  BY DEF NoLostWakeup, Pickable, Waited
<1>9. TimerKept
  BY DEF TimerKept
<1> QED
  BY <1>1, <1>2, <1>3, <1>4, <1>5, <1>6, <1>7, <1>8, <1>9 DEF TypeOK

\* The records keep their shapes, and the synced-options lock is held only in
\* the part of a run or a command that needs it.
THEOREM TypeCorrect == Spec => []TypeOK
<1>1. Init => TypeOK /\ WaiterKept
  BY Beginning
<1>2. TypeOK /\ WaiterKept /\ [Next]_vars => TypeOK' /\ WaiterKept'
  BY TypeStep, WaiterKeptStep
<1> QED
  BY <1>1, <1>2, PTL DEF Spec

\* Whoever awaits flush() is registered in exactly one place, the queue or a
\* run: no answer is lost and none is given twice (worker.rs:115-192).
THEOREM WaitersKept == Spec => []WaiterKept
<1>1. Init => TypeOK /\ WaiterKept
  BY Beginning
<1>2. TypeOK /\ WaiterKept /\ [Next]_vars => TypeOK' /\ WaiterKept'
  BY TypeStep, WaiterKeptStep
<1> QED
  BY <1>1, <1>2, PTL DEF Spec

\* There is one worker loop, and running says so (worker.rs:83-90).
THEOREM WorkerIsUnique == Spec => []OneWorker
<1>1. Init => OneWorker
  BY Beginning
<1>2. TypeOK /\ OneWorker /\ [Next]_vars => OneWorker'
  BY OneWorkerStep
<1> QED
  BY <1>1, <1>2, TypeCorrect, PTL DEF Spec

\* Work that can be done has a worker or somebody about to start one, however
\* insertions, start(), timers and the worker's stop interleave.
THEOREM WakeupsKept == Spec => []NoLostWakeup
<1>1. Init => NoLostWakeup
  BY Beginning
<1>2. TypeOK /\ OneWorker /\ NoLostWakeup /\ [Next]_vars => NoLostWakeup'
  BY NoLostWakeupStep
<1> QED
  BY <1>1, <1>2, TypeCorrect, WorkerIsUnique, PTL DEF Spec

\* An instance that was rate limited is kept back exactly as long as the
\* timer that will free it sleeps (worker.rs:151-178).
THEOREM TimersKept == Spec => []TimerKept
<1>1. Init => TimerKept
  BY Beginning
<1>2. TypeOK /\ TimerKept /\ [Next]_vars => TimerKept'
  BY TimerKeptStep
<1> QED
  BY <1>1, <1>2, TypeCorrect, PTL DEF Spec
----------------------------------------------------------------------------
(* The library, and the instances that follow it.                           *)

(* A view that still has the current revision has the current library.      *)

InDate(view) == /\ view.rev <= revision
                /\ view.rev = revision => view.lib = lib

\* Only a local change that was just captured takes a run ahead of the library.
Ahead(view) == \/ view.lib = lib
               \/ view.lib = lib + 1 /\ queue.all

RunInDate(x) == /\ x.pc = "work" => InDate(x.view)
                /\ x.pc = "apply" => Ahead(x.view)

ViewsInDate ==
    /\ \A w \in Workers : RunInDate(worker[w])
    /\ \A c \in Clients : client[c].pc = "work" => InDate(client[c].view)

NeverAhead == /\ \A i \in Instances : applied[i] <= lib
              /\ \A c \in Clients : client[c].asked <= lib

\* A run that is to be delivered has brought its instance to the version that
\* those it was begun for had seen.
FreshRun(x) ==
    \A c \in x.pending :
        /\ x.pc \in {"work", "apply"} => client[c].asked <= x.view.lib
        /\ x.pc = "deliver" /\ x.result = "ok" =>
              client[c].asked <= applied[x.at]

Fresh == \A w \in Workers : FreshRun(worker[w])

----------------------------------------------------------------------------
(* An instance that is behind is going to be run. *)

\* ... by a request that is in the queue or is about to be put there.
Requested(i) ==
    \/ queue.all \/ i \in queue.instances
    \/ \E c \in Clients : /\ client[c].at = i
                          /\ client[c].pc \in {"installed", "capture", "work"}

\* ... or by the run that is under way.
Running(w, i) ==
    /\ worker[w].at = i
    /\ \/ worker[w].pc \in {"begin", "read", "work", "apply"}
       \/ worker[w].pc = "deliver" /\ worker[w].result \in {"changed", "limited"}

Covered(i) == \/ Requested(i)
              \/ \E w \in Workers : worker[w].pc = "list" \/ Running(w, i)

Behind(i) == applied[i] # lib \/ i \in local

BehindIsCovered ==
    \A i \in alive \ (held \cup excused) : Behind(i) => Covered(i)

\* What a run leaves out, somebody else sees to: an instance that was held
\* when it looked, a change that came after it had captured, and a pack that
\* could not be prepared.
Captured(x) == \/ x.pc = "apply"
               \/ x.pc = "work" /\ x.left < Rounds

LeavesNothing(x) ==
    /\ x.pc = "read" /\ x.view.held /\ x.at \in alive \ (held \cup excused) =>
          Requested(x.at)
    /\ Captured(x) /\ x.result # "broken" /\ x.at \in local =>
          Requested(x.at)
    /\ x.pc \in {"begin", "read"} => x.result = "none"
    /\ x.pc \in {"work", "apply"} => x.result \in {"none", "broken"}
    /\ x.pc \in {"work", "apply", "deliver"} /\ x.result = "broken" =>
          x.at \in excused

RunsLeaveNothing == \A w \in Workers : LeavesNothing(worker[w])

\* Only an instance that packs were placed in has changes to capture.
LocalHasPacks == \A i \in local : applied[i] # 0

Library == ViewsInDate /\ NeverAhead /\ LocalHasPacks
Following == BehindIsCovered /\ RunsLeaveNothing

----------------------------------------------------------------------------
(* The steps of the worker leave the slots of the others alone, which are   *)
(* empty.                                                                   *)

LEMMA LoopAlone ==
    ASSUME TypeOK, OneWorker, NEW w \in Workers, Loop(w)
    PROVE  /\ \A v \in Workers \ {w} : /\ worker'[v] = worker[v]
                                       /\ worker[v].pc = "off"
           /\ \E x : worker' = [worker EXCEPT ![w] = x]
           /\ \A v \in Workers \ {w} : worker'[v].pc = "off"
<1> USE DEF TypeOK
<1>1. \E x : worker' = [worker EXCEPT ![w] = x]
  <2>1. CASE Take(w) \/ List(w) \/ Pick(w) \/ Begin(w)
    BY <2>1 DEF Take, List, Pick, Begin, Ends
  <2>2. CASE Read(w) \/ Work(w)
    BY <2>2 DEF Read, Work, Ends
  <2>3. CASE Apply(w)
    BY <2>3 DEF Apply, Ends
  <2>4. CASE Redo(w) \/ Defer(w) \/ Deliver(w)
    BY <2>4 DEF Redo, Defer, Deliver, Again
  <2> QED
    BY <2>1, <2>2, <2>3, <2>4 DEF Loop
<1>2. \A v \in Workers \ {w} : worker[v].pc = "off"
  BY LoopSteady DEF OneWorker, Live
<1> QED
  BY <1>1, <1>2

\* A client that was answered asks for nothing any more.
LEMMA AnswerTame ==
    ASSUME NEW clients, Answer(clients)
    PROVE  \A c \in Clients :
              \/ client'[c] = client[c]
              \/ /\ c \in clients /\ client'[c].asked = 0
                 /\ client'[c].pc \in {"idle", "start"}
BY DEF Answer, Idle

----------------------------------------------------------------------------
(* Views that are in date.                                                  *)

\* Steps that leave the library alone.
LEMMA LibraryKept ==
    ASSUME Library, UNCHANGED <<lib, revision, applied>>,
           \A w \in Workers : worker'[w].pc \in {"work", "apply"} =>
              worker'[w] = worker[w] /\ (queue.all => queue'.all),
           \A c \in Clients : client'[c].pc = "work" => client'[c] = client[c],
           \A c \in Clients : client'[c].asked <= lib,
           \A i \in local' : applied[i] # 0
    PROVE  Library'
BY DEF Library, ViewsInDate, RunInDate, InDate, Ahead, NeverAhead,
       LocalHasPacks

\* Where a step of the loop takes the record of the worker.
LEMMA LoopRecord ==
    ASSUME TypeOK, NEW w \in Workers
    PROVE  /\ worker[w].view.lib \in Nat /\ worker[w].view.rev \in Nat
           /\ worker[w].left \in 0..Rounds /\ worker[w] \in Worker
           /\ \A result : Ends(w, result) =>
                 /\ worker'[w] = [worker[w] EXCEPT !.pc = "deliver",
                                                   !.result = result]
                 /\ worker'[w].pc = "deliver" /\ worker'[w].result = result
                 /\ worker'[w].at = worker[w].at
                 /\ worker'[w].pending = worker[w].pending
           /\ Again(w) =>
                 /\ worker'[w].pc = "sleep" /\ worker'[w].pending = {}
                 /\ worker'[w].result = "none"
<1>1. worker[w] \in Worker /\ DOMAIN worker = Workers
  BY DEF TypeOK
<1>2. worker[w].view \in View /\ worker[w].left \in 0..Rounds
  BY <1>1 DEF Worker
<1>3. worker[w].view.lib \in Nat /\ worker[w].view.rev \in Nat
  BY <1>2 DEF View
<1>4. ASSUME NEW result, Ends(w, result)
      PROVE  /\ worker'[w] = [worker[w] EXCEPT !.pc = "deliver",
                                               !.result = result]
             /\ worker'[w].pc = "deliver" /\ worker'[w].result = result
             /\ worker'[w].at = worker[w].at
             /\ worker'[w].pending = worker[w].pending
  <2>1. worker'[w] = [worker[w] EXCEPT !.pc = "deliver", !.result = result]
    BY <1>1, <1>4 DEF Ends
  <2> QED
    BY <1>1, <2>1 DEF Worker
<1>5. ASSUME Again(w)
      PROVE  worker'[w].pc = "sleep" /\ worker'[w].pending = {}
             /\ worker'[w].result = "none"
  BY <1>1, <1>5 DEF Again, Off
<1> QED
  BY <1>1, <1>2, <1>3, <1>4, <1>5

LEMMA PickRecord ==
    ASSUME TypeOK, NEW w \in Workers, Pick(w)
    PROVE  /\ queue'.all = queue.all
           /\ \/ \E i \in Instances :
                    /\ queue'.instances = queue.instances \ {i}
                    /\ worker'[w].pc = "begin" /\ worker'[w].at = i
                    /\ worker'[w].result = "none"
              \/ /\ worker'[w].pc \in {"sleep", "off"}
                 /\ queue'.instances = queue.instances
<1>1. ASSUME NEW i \in IF Waited # {} THEN Waited ELSE Pickable,
             queue' = [queue EXCEPT !.instances = @ \ {i}, !.waiters[i] = {}],
             worker' = [worker EXCEPT ![w] = [Off EXCEPT !.pc = "begin",
                            !.at = i, !.pending = queue.waiters[i]]]
      PROVE  /\ i \in Instances /\ queue'.all = queue.all
             /\ queue'.instances = queue.instances \ {i}
             /\ worker'[w].pc = "begin" /\ worker'[w].at = i
             /\ worker'[w].result = "none"
  <2>1. i \in Instances
    BY DEF Waited, Pickable, TypeOK, QueueTyped
  <2>2. worker'[w] = [Off EXCEPT !.pc = "begin", !.at = i,
                                 !.pending = queue.waiters[i]]
    BY <1>1 DEF TypeOK
  <2>3. /\ worker'[w].pc = "begin" /\ worker'[w].at = i
        /\ worker'[w].result = "none"
    BY <2>2 DEF Off
  <2>4. queue'.all = queue.all /\ queue'.instances = queue.instances \ {i}
    BY <1>1 DEF TypeOK, QueueTyped
  <2> QED
    BY <2>1, <2>3, <2>4
<1>2. CASE worker' = [worker EXCEPT ![w].pc = "sleep"] /\ UNCHANGED queue
  BY <1>2 DEF TypeOK, Worker
<1>3. CASE /\ queue' = [queue EXCEPT !.running = FALSE]
           /\ worker' = [worker EXCEPT ![w] = Off]
  <2>1. worker'[w].pc = "off"
    BY <1>3 DEF TypeOK, Off
  <2>2. queue'.instances = queue.instances /\ queue'.all = queue.all
    BY <1>3 DEF TypeOK, QueueTyped
  <2> QED
    BY <2>1, <2>2
<1> QED
  BY <1>1, <1>2, <1>3 DEF Pick

LEMMA BeginRecord ==
    ASSUME TypeOK, NEW w \in Workers, Begin(w)
    PROVE  /\ worker'[w].at = worker[w].at
           /\ worker'[w].pending = worker[w].pending
           /\ \/ /\ worker'[w].pc = "deliver"
                 /\ worker'[w].result = "skipped"
                 /\ worker[w].at \notin alive
              \/ /\ worker'[w].pc = "read"
                 /\ worker'[w].result = worker[w].result
                 /\ worker'[w].view.held = (worker[w].at \in held)
<1>1. worker[w] \in Worker /\ worker[w].view \in View /\ DOMAIN worker = Workers
  BY DEF TypeOK, Worker
<1>2. CASE Ends(w, "skipped") /\ worker[w].at \notin alive
  BY <1>2, LoopRecord
<1>3. CASE worker' = [worker EXCEPT ![w].pc = "read",
                             ![w].view.held = worker[w].at \in held]
  BY <1>1, <1>3 DEF Worker, View
<1> QED
  BY <1>2, <1>3 DEF Begin

LEMMA LoopLibrary ==
    ASSUME TypeOK, OneWorker, Library, NEW w \in Workers, Loop(w)
    PROVE  Library' /\ lib' >= lib
<1>0. /\ \A v \in Workers \ {w} : worker'[v].pc = "off" /\ worker[v].pc = "off"
      /\ worker[w] \in Worker /\ DOMAIN worker = Workers
      /\ worker[w].view.lib \in Nat /\ worker[w].view.rev \in Nat
      /\ worker[w].left \in 0..Rounds
  BY LoopAlone, LoopRecord DEF TypeOK
<1>1. lib \in Nat /\ revision \in Nat /\ applied \in [Instances -> Nat]
      /\ \A c \in Clients : client[c].asked \in Nat
  BY DEF TypeOK, WorldTyped, Client
<1>2. /\ \A c \in Clients : client[c].asked <= lib
      /\ \A i \in local : applied[i] # 0
      /\ \A i \in Instances : applied[i] <= lib
  BY DEF Library, NeverAhead, LocalHasPacks
<1>3. ASSUME UNCHANGED <<lib, revision, applied, local>>,
             worker'[w].pc \notin {"work", "apply"},
             \A c \in Clients :
                client'[c] = client[c]
                  \/ (client'[c].pc # "work" /\ client'[c].asked = 0)
      PROVE  Library' /\ lib' >= lib
  BY <1>0, <1>1, <1>2, <1>3, LibraryKept
<1>4. CASE Take(w)
  BY <1>0, <1>3, <1>4 DEF Take, shared
<1>5. CASE List(w)
  BY <1>0, <1>3, <1>5 DEF List, shared
<1>6. CASE Pick(w)
  <2>1. worker'[w].pc \in {"begin", "sleep", "off"}
    BY <1>6, PickRecord
  <2> QED
    BY <1>3, <1>6, <2>1 DEF Pick, shared
<1>7. CASE Begin(w)
  <2>1. worker'[w].pc \in {"deliver", "read"}
    BY <1>7, BeginRecord
  <2> QED
    BY <1>3, <1>7, <2>1 DEF Begin, shared
<1>8. CASE Redo(w) \/ Defer(w) \/ Deliver(w)
  <2>1. worker'[w].pc = "sleep"
    BY <1>8, LoopRecord DEF Redo, Defer, Deliver
  <2>2. \/ UNCHANGED client
        \/ \E clients : Answer(clients)
    BY <1>8 DEF Redo, Defer, Deliver
  <2>3. \A c \in Clients :
            client'[c] = client[c]
              \/ (client'[c].pc # "work" /\ client'[c].asked = 0)
    BY <2>2, AnswerTame
  <2> QED
    BY <1>3, <1>8, <2>1, <2>3 DEF Redo, Defer, Deliver, shared
<1>9. CASE Read(w)
  <2>1. UNCHANGED <<shared, client, queue>>
    BY <1>9 DEF Read
  <2>2. CASE \E result : Ends(w, result)
    BY <1>3, <2>1, <2>2, LoopRecord DEF shared
  <2>3. CASE worker' = [worker EXCEPT ![w].pc = "work",
                 ![w].view = ViewOf(worker[w].at), ![w].left = Rounds]
    <3>1. worker'[w].pc = "work" /\ worker'[w].view = ViewOf(worker[w].at)
      BY <1>0, <2>3 DEF Worker
    <3>2. worker'[w].view.rev = revision /\ worker'[w].view.lib = lib
      BY <3>1 DEF ViewOf
    <3> QED
      BY <1>0, <1>1, <2>1, <3>1, <3>2
      DEF shared, Library, ViewsInDate, RunInDate, InDate, NeverAhead,
          LocalHasPacks
  <2> QED
    BY <1>9, <2>2, <2>3 DEF Read
<1>10. CASE Work(w)
  <2>0. /\ UNCHANGED <<client, lib, revision, applied>> /\ worker[w].pc = "work"
        /\ local' \subseteq local
    BY <1>10 DEF Work
  <2>1. CASE \E result : Ends(w, result)
    <3>1. worker'[w].pc = "deliver"
      BY <2>1, LoopRecord
    <3> QED
      BY <1>0, <1>1, <1>2, <2>0, <3>1, LibraryKept
  <2>2. CASE Valid(worker[w].at, worker[w].view) /\ worker'[w].pc = "apply"
             /\ \/ worker'[w].view.lib = worker[w].view.lib
                \/ worker'[w].view.lib = worker[w].view.lib + 1 /\ queue'.all
    <3>1. worker[w].view.lib = lib
      BY <2>0, <2>2 DEF Valid, Library, ViewsInDate, RunInDate, InDate
    <3> QED
      BY <1>0, <1>1, <2>0, <2>2, <3>1
      DEF Library, ViewsInDate, RunInDate, InDate, Ahead, NeverAhead,
          LocalHasPacks
  <2>3. CASE /\ Valid(worker[w].at, worker[w].view)
             /\ worker' = [worker EXCEPT ![w].pc = "apply",
                   ![w].view.lib = IF worker[w].at \in local
                                        /\ worker[w].left = Rounds
                                   THEN @ + 1 ELSE @]
             /\ queue' = [queue EXCEPT !.all = @ \/ (worker[w].at \in local
                                        /\ worker[w].left = Rounds)]
    <3> DEFINE caught == worker[w].at \in local /\ worker[w].left = Rounds
    <3>1. worker'[w].pc = "apply"
          /\ worker'[w].view.lib = IF caught THEN worker[w].view.lib + 1
                                   ELSE worker[w].view.lib
      BY <1>0, <2>3 DEF Worker, View
    <3>2. caught => queue'.all
      BY <2>3 DEF TypeOK, QueueTyped
    <3> QED
      BY <2>2, <2>3, <3>1, <3>2
  <2>4. CASE /\ Valid(worker[w].at, worker[w].view)
             /\ worker' = [worker EXCEPT ![w].pc = "apply",
                                         ![w].result = "broken"]
    <3>1. worker'[w].pc = "apply" /\ worker'[w].view.lib = worker[w].view.lib
      BY <1>0, <2>4 DEF Worker
    <3> QED
      BY <2>2, <2>4, <3>1
  <2> QED
    BY <1>10, <2>1, <2>3, <2>4 DEF Work
<1>11. CASE Apply(w)
  <2>0. UNCHANGED <<client, local, queue>> /\ worker[w].pc = "apply"
    BY <1>11 DEF Apply
  <2>1. /\ lib' = worker[w].view.lib /\ lib' \in {lib, lib + 1}
        /\ revision' \in {revision, revision + 1}
        /\ lib' # lib => revision' = revision + 1
    BY <1>11, <2>0 DEF Apply, Library, ViewsInDate, RunInDate, Ahead
  <2>2. \A i \in Instances : applied'[i] \in {applied[i], lib'}
        /\ (applied[i] # 0 => applied'[i] # 0)
    <3>1. CASE UNCHANGED applied
      BY <3>1
    <3>2. CASE applied' = [applied EXCEPT ![worker[w].at] = worker[w].view.lib]
      BY <1>1, <1>2, <2>1, <3>2
    <3> QED
      BY <1>11, <3>1, <3>2 DEF Apply
  <2>3. NeverAhead' /\ LocalHasPacks'
    BY <1>1, <1>2, <2>0, <2>1, <2>2
    DEF NeverAhead, LocalHasPacks, TypeOK, WorldTyped
  <2>4. worker'[w].pc = "deliver"
        \/ /\ worker'[w].pc = "work" /\ worker'[w].view.rev = revision'
           /\ worker'[w].view.lib = lib'
    <3>1. CASE \E result : Ends(w, result)
      BY <3>1, LoopRecord
    <3>2. CASE \E print : worker' = [worker EXCEPT ![w].pc = "work",
                 ![w].left = @ - 1,
                 ![w].view = [lib |-> worker[w].view.lib, rev |-> revision',
                              print |-> print, held |-> FALSE]]
      BY <1>0, <2>1, <3>2 DEF Worker
    <3> QED
      BY <1>11, <3>1, <3>2 DEF Apply
  <2>5. ViewsInDate'
    <3>1. \A c \in Clients : client[c].pc = "work" =>
            InDate(client[c].view) /\ client[c].view.rev \in Nat
      BY DEF Library, ViewsInDate, TypeOK, Client, View
    <3> QED
      BY <1>0, <1>1, <2>0, <2>1, <2>4, <3>1 DEF ViewsInDate, RunInDate, InDate
  <2> QED
    BY <1>1, <2>1, <2>3, <2>5 DEF Library
<1> QED
  BY <1>4, <1>5, <1>6, <1>7, <1>8, <1>9, <1>10, <1>11 DEF Loop

\* start() fills an empty slot, if any.
LEMMA StartedAlone ==
    ASSUME TypeOK, Started
    PROVE  /\ \A v \in Workers :
                 worker'[v] = worker[v]
                   \/ (worker[v].pc = "off" /\ worker'[v].pc = "sleep"
                       /\ worker'[v].pending = {})
           /\ queue'.all = queue.all /\ queue'.instances = queue.instances
<1>1. CASE UNCHANGED <<queue, worker>>
  BY <1>1
<1>2. CASE queue' = [queue EXCEPT !.running = TRUE]
           /\ \E w \in Workers :
                 /\ worker[w].pc = "off"
                 /\ worker' = [worker EXCEPT ![w] = [Off EXCEPT !.pc = "sleep"]]
  <2>1. PICK w \in Workers :
            /\ worker[w].pc = "off"
            /\ worker' = [worker EXCEPT ![w] = [Off EXCEPT !.pc = "sleep"]]
    BY <1>2
  <2>2. worker'[w].pc = "sleep" /\ worker'[w].pending = {}
    BY <2>1 DEF TypeOK, Off
  <2>3. \A v \in Workers : v # w => worker'[v] = worker[v]
    BY <2>1 DEF TypeOK
  <2>4. queue'.all = queue.all /\ queue'.instances = queue.instances
    BY <1>2 DEF TypeOK, QueueTyped
  <2> QED
    BY <2>1, <2>2, <2>3, <2>4
<1> QED
  BY <1>1, <1>2 DEF Started

\* Where a step of a client takes its record.
LEMMA ClientRecord ==
    ASSUME TypeOK, NEW c \in Clients
    PROVE  /\ client[c].view \in View /\ client[c].asked \in Nat
           /\ client[c].view.lib \in Nat /\ client[c].view.rev \in Nat
           /\ client[c] \in Client
           /\ \A pc : Becomes(c, pc) =>
                 /\ \A d \in Clients \ {c} : client'[d] = client[d]
                 /\ client'[c].pc = pc /\ client'[c].at = client[c].at
                 /\ client'[c].asked = client[c].asked
           /\ client' = [client EXCEPT ![c] = Idle] =>
                 /\ \A d \in Clients \ {c} : client'[d] = client[d]
                 /\ client'[c].pc = "idle" /\ client'[c].asked = 0
<1>1. client[c] \in Client /\ DOMAIN client = Clients
  BY DEF TypeOK
<1>2. client[c].view \in View /\ client[c].asked \in Nat
  BY <1>1 DEF Client
<1>3. client[c].view.lib \in Nat /\ client[c].view.rev \in Nat
  BY <1>2 DEF View
<1>4. ASSUME NEW pc, Becomes(c, pc)
      PROVE  /\ \A d \in Clients \ {c} : client'[d] = client[d]
             /\ client'[c].pc = pc /\ client'[c].at = client[c].at
             /\ client'[c].asked = client[c].asked
  BY <1>1, <1>4 DEF Becomes, Client
<1>5. ASSUME client' = [client EXCEPT ![c] = Idle]
      PROVE  /\ \A d \in Clients \ {c} : client'[d] = client[d]
             /\ client'[c].pc = "idle" /\ client'[c].asked = 0
  BY <1>1, <1>5 DEF Idle
<1> QED
  BY <1>1, <1>2, <1>3, <1>4, <1>5

LEMMA ProceedLibrary ==
    ASSUME TypeOK, Library, NEW c \in Clients, Proceed(c)
    PROVE  Library' /\ lib' >= lib
<1>1. lib \in Nat /\ revision \in Nat /\ applied \in [Instances -> Nat]
      /\ \A d \in Clients : /\ client[d].asked \in Nat
                            /\ client[d].view.rev \in Nat
                            /\ client[d].view.lib \in Nat
      /\ \A w \in Workers : /\ worker[w].view.rev \in Nat
                            /\ worker[w].view.lib \in Nat
  BY LoopRecord, ClientRecord DEF TypeOK, WorldTyped
<1>2. /\ \A d \in Clients : client[d].asked <= lib
      /\ \A i \in local : applied[i] # 0
      /\ \A i \in Instances : applied[i] <= lib
  BY DEF Library, NeverAhead, LocalHasPacks
<1>3. ASSUME UNCHANGED <<lib, revision, applied, local>>,
             \A v \in Workers :
                worker'[v] = worker[v] \/ worker'[v].pc = "sleep",
             queue.all => queue'.all,
             client'[c].pc # "work", client'[c].asked \in {0, client[c].asked},
             \A d \in Clients \ {c} : client'[d] = client[d]
      PROVE  Library' /\ lib' >= lib
  <2>1. \A d \in Clients : client'[d].asked <= lib
    BY <1>1, <1>2, <1>3
  <2> QED
    BY <1>1, <1>2, <1>3, <2>1, LibraryKept
<1>4. CASE Start(c)
  <2>1. client'[c].pc # "work" /\ client'[c].asked \in {0, client[c].asked}
        /\ \A d \in Clients \ {c} : client'[d] = client[d]
    BY <1>4, ClientRecord DEF Start
  <2> QED
    BY <1>3, <1>4, <2>1, StartedAlone DEF Start
<1>5. CASE Release(c)
  <2>1. client'[c].pc # "work" /\ client'[c].asked \in {0, client[c].asked}
        /\ \A d \in Clients \ {c} : client'[d] = client[d]
    BY <1>5, ClientRecord DEF Release
  <2> QED
    BY <1>3, <1>5, <2>1 DEF Release, shared
<1>6. CASE Request(c)
  <2>1. queue'.all = queue.all
    BY <1>6 DEF Request, TypeOK, QueueTyped
  <2> QED
    BY <1>3, <1>6, <2>1, ClientRecord DEF Request, shared
<1>7. CASE Capture(c)
  <2>1. UNCHANGED <<lib, revision, applied, local, worker>>
    BY <1>7 DEF Capture, shared
  <2>2. CASE /\ queue' = [queue EXCEPT !.instances = @ \cup {client[c].at}]
             /\ Becomes(c, "start")
    <3>1. queue'.all = queue.all
      BY <2>2 DEF TypeOK, QueueTyped
    <3> QED
      BY <1>3, <2>1, <2>2, <3>1, ClientRecord
  <2>3. CASE /\ client' = [client EXCEPT ![c].pc = "work",
                                         ![c].view = ViewOf(client[c].at)]
             /\ UNCHANGED queue
    <3>1. /\ client'[c].view = ViewOf(client[c].at)
          /\ client'[c].asked = client[c].asked
          /\ \A d \in Clients \ {c} : client'[d] = client[d]
      BY <2>3, ClientRecord DEF TypeOK, Client
    <3>2. client'[c].view.rev = revision /\ client'[c].view.lib = lib
      BY <3>1 DEF ViewOf
    <3>3. \A d \in Clients : client'[d].pc = "work" =>
             /\ client'[d].view.rev <= revision
             /\ (client'[d].view.rev = revision => client'[d].view.lib = lib)
      BY <1>1, <3>1, <3>2 DEF Library, ViewsInDate, InDate
    <3>4. \A d \in Clients : client'[d].asked = client[d].asked
      BY <3>1
    <3>5. NeverAhead' /\ LocalHasPacks'
      BY <1>2, <2>1, <3>4 DEF NeverAhead, LocalHasPacks
    <3>6. \A w \in Workers : RunInDate(worker[w])
      BY DEF Library, ViewsInDate
    <3>7. ViewsInDate'
      BY <2>1, <2>3, <3>3, <3>6 DEF ViewsInDate, RunInDate, InDate, Ahead
    <3> QED
      BY <1>1, <2>1, <3>5, <3>7 DEF Library
  <2> QED
    BY <1>7, <2>2, <2>3 DEF Capture
<1>8. CASE EndCapture(c)
  <2>0. /\ UNCHANGED <<worker, applied>> /\ client[c].pc = "work"
        /\ lock = None /\ local' \subseteq local
    BY <1>8 DEF EndCapture
  <2>1. \A w \in Workers : worker[w].pc # "apply"
    BY <2>0, Assumed DEF TypeOK, Orderly, Actors
  <2>2. CASE Becomes(c, "capture") /\ UNCHANGED <<queue, lib, revision, local>>
    BY <1>3, <2>0, <2>2, ClientRecord
  <2>3. CASE /\ Valid(client[c].at, client[c].view) /\ Becomes(c, "start")
             /\ \/ lib' = client[c].view.lib /\ revision' = revision
                \/ lib' = client[c].view.lib + 1 /\ revision' = revision + 1
    <3>1. client[c].view.lib = lib
      BY <2>0, <2>3 DEF Valid, Library, ViewsInDate, InDate
    <3>2. \/ lib' = lib /\ revision' = revision
          \/ lib' = lib + 1 /\ revision' = revision + 1
      BY <2>3, <3>1
    <3>3. /\ \A d \in Clients : client'[d].pc = "work" => client'[d] = client[d]
          /\ \A d \in Clients : client'[d].asked = client[d].asked
      BY <2>3, ClientRecord
    <3> QED
      BY <1>1, <1>2, <2>0, <2>1, <3>2, <3>3
      DEF Library, ViewsInDate, RunInDate, InDate, NeverAhead, LocalHasPacks
  <2>4. CASE /\ Becomes(c, "start") /\ UNCHANGED <<lib, revision, local>>
             /\ queue' = [queue EXCEPT !.instances = @ \cup {client[c].at}]
    <3>1. queue'.all = queue.all
      BY <2>4 DEF TypeOK, QueueTyped
    <3> QED
      BY <1>3, <2>0, <2>4, <3>1, ClientRecord
  <2>5. Becomes(c, "capture") \/ Becomes(c, "start")
    BY <1>8 DEF EndCapture
  <2> QED
    BY <1>8, <2>2, <2>3, <2>4 DEF EndCapture
<1> QED
  BY <1>4, <1>5, <1>6, <1>7, <1>8 DEF Proceed

LEMMA TimerLibrary ==
    ASSUME TypeOK, Library, Timer
    PROVE  Library' /\ lib' >= lib
<1>1. UNCHANGED <<lib, revision, applied, local, client>>
  BY DEF Timer, TimerStart, Elapse, Wake, shared
<1>2. /\ \A v \in Workers : worker'[v] = worker[v] \/ worker'[v].pc = "sleep"
      /\ queue'.all = queue.all
  BY StartedAlone DEF Timer, TimerStart, Elapse, Wake, TypeOK, QueueTyped
<1>3. Library'
  BY <1>1, <1>2, LibraryKept DEF Library, NeverAhead, LocalHasPacks
<1> QED
  BY <1>1, <1>3 DEF TypeOK, WorldTyped

LEMMA CommandLibrary ==
    ASSUME TypeOK, Library, Command
    PROVE  Library' /\ lib' >= lib
<1>1. lib \in Nat /\ revision \in Nat /\ applied \in [Instances -> Nat]
      /\ \A d \in Clients : /\ client[d].asked \in Nat
                            /\ client[d].view.rev \in Nat
                            /\ client[d].view.lib \in Nat
      /\ \A w \in Workers : /\ worker[w].view.rev \in Nat
                            /\ worker[w].view.lib \in Nat
  BY LoopRecord, ClientRecord DEF TypeOK, WorldTyped
<1>2. /\ \A d \in Clients : client[d].asked <= lib
      /\ \A i \in local : applied[i] # 0
      /\ \A i \in Instances : applied[i] <= lib
  BY DEF Library, NeverAhead, LocalHasPacks
<1>3. ASSUME UNCHANGED <<worker, lib, revision, applied>>, queue'.all = queue.all,
             NEW c \in Clients,
             client'[c].pc # "work", client'[c].asked \in {lib, client[c].asked},
             \A d \in Clients \ {c} : client'[d] = client[d],
             \A i \in local' : applied[i] # 0
      PROVE  Library' /\ lib' >= lib
  <2>1. \A d \in Clients : client'[d].asked <= lib
    BY <1>1, <1>2, <1>3
  <2> QED
    BY <1>1, <1>2, <1>3, <2>1, LibraryKept
<1>4. ASSUME NEW c \in Clients, Edit(c)
      PROVE  Library' /\ lib' >= lib
  <2>1. \A w \in Workers : worker[w].pc # "apply"
    BY <1>4, Assumed DEF Edit, TypeOK, Orderly, Actors
  <2>2. /\ \A d \in Clients : client'[d].pc = "work" => client'[d] = client[d]
        /\ \A d \in Clients : client'[d].asked = client[d].asked
    BY <1>4, ClientRecord DEF Edit
  <2>3. /\ lib' = lib + 1 /\ revision' = revision + 1
        /\ UNCHANGED <<worker, local, applied>>
    BY <1>4 DEF Edit
  <2> QED
    BY <1>1, <1>2, <2>1, <2>2, <2>3
    DEF Library, ViewsInDate, RunInDate, InDate, NeverAhead, LocalHasPacks
<1>5. ASSUME NEW c \in Clients, NEW i \in Instances, Flush(c, i)
      PROVE  Library' /\ lib' >= lib
  <2>1. CASE UNCHANGED <<queue, client>>
    BY <1>1, <1>2, <1>5, <2>1, LibraryKept DEF Flush, shared
  <2>2. CASE /\ queue' = [queue EXCEPT !.instances = @ \cup {i},
                                       !.waiters[i] = @ \cup {c}]
             /\ client' = [client EXCEPT ![c] = [Idle EXCEPT
                               !.pc = "flushing", !.at = i, !.asked = lib]]
    <3>1. client'[c] = [Idle EXCEPT !.pc = "flushing", !.at = i, !.asked = lib]
          /\ \A d \in Clients \ {c} : client'[d] = client[d]
      BY <2>2 DEF TypeOK
    <3>2. client'[c].pc = "flushing" /\ client'[c].asked = lib
      BY <3>1 DEF Idle
    <3>3. queue'.all = queue.all
      BY <2>2 DEF TypeOK, QueueTyped
    <3> QED
      BY <1>2, <1>3, <1>5, <3>1, <3>2, <3>3 DEF Flush, shared
  <2> QED
    BY <1>5, <2>1, <2>2 DEF Flush
<1>6. ASSUME NEW c \in Clients, NEW i \in Instances, Hold(c, i) \/ Touch(c, i)
      PROVE  Library' /\ lib' >= lib
  <2>1. PICK pc \in {"install", "capture"} :
            client' = [client EXCEPT ![c].pc = pc, ![c].at = i]
    BY <1>6 DEF Hold, Touch
  <2>2. /\ client'[c].pc = pc /\ client'[c].asked = client[c].asked
        /\ \A d \in Clients \ {c} : client'[d] = client[d]
    BY <2>1 DEF TypeOK, Client
  <2>3. UNCHANGED <<worker, queue, lib, revision, applied>>
        /\ \A j \in local' : applied[j] # 0
    BY <1>2, <1>6 DEF Hold, Touch, shared
  <2> QED
    BY <1>3, <2>2, <2>3
<1>7. ASSUME NEW i \in Instances, Delete(i)
      PROVE  Library' /\ lib' >= lib
  BY <1>1, <1>2, <1>7, LibraryKept DEF Delete, shared
<1> QED
  BY <1>4, <1>5, <1>6, <1>7 DEF Command

LEMMA LibraryStep ==
    ASSUME TypeOK, OneWorker, Library, [Next]_vars
    PROVE  Library' /\ lib' >= lib
<1>1. CASE UNCHANGED vars
  <2>1. UNCHANGED <<queue, worker, client, lib, revision, applied, local>>
    BY <1>1 DEF vars, shared
  <2>2. Library'
    BY <2>1, LibraryKept DEF Library, NeverAhead, LocalHasPacks
  <2> QED
    BY <2>1, <2>2 DEF TypeOK, WorldTyped
<1> QED
  BY <1>1, LoopLibrary, ProceedLibrary, TimerLibrary, CommandLibrary DEF Next

----------------------------------------------------------------------------
(* What is answered is fresh.                                               *)

LEMMA Pendings ==
    ASSUME TypeOK, WaiterKept, NEW w \in Workers, NEW c \in worker[w].pending
    PROVE  c \in Clients /\ Unanswered(c) /\ client[c].at = worker[w].at
<1>1. c \in Clients
  BY DEF TypeOK, Worker
<1>2. Placed
  BY DEF Placed, Unanswered, TypeOK, Orderly
<1> QED
  BY <1>1, <1>2, RegisteredIsKept DEF Registered

\* Steps that begin and end no run.
LEMMA FreshKept ==
    ASSUME TypeOK, WaiterKept, Fresh, UNCHANGED applied,
           \A v \in Workers :
              worker'[v] = worker[v] \/ worker'[v].pc \notin
                                            {"work", "apply", "deliver"},
           \A c \in Clients : Unanswered(c) =>
              client'[c].asked \in {0, client[c].asked}
    PROVE  Fresh'
<1> SUFFICES ASSUME NEW w \in Workers, NEW c \in worker'[w].pending,
                    worker'[w].pc \in {"work", "apply", "deliver"}
             PROVE  /\ worker'[w].pc \in {"work", "apply"} =>
                          client'[c].asked <= worker'[w].view.lib
                    /\ worker'[w].pc = "deliver" /\ worker'[w].result = "ok" =>
                          client'[c].asked <= applied'[worker'[w].at]
  BY DEF Fresh, FreshRun
<1>1. worker'[w] = worker[w]
  OBVIOUS
<1>2. c \in Clients /\ Unanswered(c)
  BY <1>1, Pendings
<1>3. client'[c].asked \in {0, client[c].asked}
  BY <1>2
<1>4. /\ worker[w].pc \in {"work", "apply"} =>
            client[c].asked <= worker[w].view.lib
      /\ worker[w].pc = "deliver" /\ worker[w].result = "ok" =>
            client[c].asked <= applied[worker[w].at]
  BY <1>1 DEF Fresh, FreshRun
<1>5. worker[w].view.lib \in Nat
      /\ (worker[w].pc = "deliver" => applied[worker[w].at] \in Nat)
  BY LoopRecord DEF TypeOK, Orderly, WorldTyped
<1> QED
  BY <1>1, <1>3, <1>4, <1>5

\* A step of a run towards a result.
LEMMA FreshRunning ==
    ASSUME TypeOK, OneWorker, WaiterKept, Fresh, NEW w \in Workers, Loop(w),
           UNCHANGED client, worker'[w].pending = worker[w].pending,
           \A c \in worker[w].pending :
              /\ worker'[w].pc \in {"work", "apply"} =>
                    client[c].asked <= worker'[w].view.lib
              /\ worker'[w].pc = "deliver" /\ worker'[w].result = "ok" =>
                    client[c].asked <= applied'[worker'[w].at]
    PROVE  Fresh'
<1>1. \A v \in Workers \ {w} : worker'[v].pc = "off"
  BY LoopAlone
<1> QED
  BY <1>1 DEF Fresh, FreshRun

LEMMA FreshLoop ==
    ASSUME TypeOK, OneWorker, WaiterKept, Library, Fresh,
           NEW w \in Workers, Loop(w)
    PROVE  Fresh'
<1>0. /\ \A v \in Workers \ {w} : worker'[v].pc = "off"
      /\ worker[w] \in Worker /\ DOMAIN worker = Workers
      /\ worker[w].view.lib \in Nat /\ worker[w].left \in 0..Rounds
  BY LoopAlone, LoopRecord DEF TypeOK
<1>1. lib \in Nat /\ applied \in [Instances -> Nat]
      /\ \A c \in Clients : client[c].asked \in Nat /\ client[c].asked <= lib
  BY ClientRecord DEF TypeOK, WorldTyped, Library, NeverAhead
<1>2. \A c \in worker[w].pending : c \in Clients
  BY Pendings
<1>3. CASE Take(w)
  BY <1>0, <1>3, FreshKept DEF Take, shared, Worker
<1>4. CASE List(w)
  BY <1>0, <1>4, FreshKept DEF List, shared, Worker
<1>5. CASE Pick(w)
  <2>1. worker'[w].pc \in {"begin", "sleep", "off"}
    BY <1>5, PickRecord
  <2> QED
    BY <1>0, <1>5, <2>1, FreshKept DEF Pick, shared
<1>6. CASE Begin(w)
  BY <1>6, BeginRecord, FreshRunning DEF Begin
<1>7. CASE Redo(w) \/ Defer(w) \/ Deliver(w)
  <2>1. worker'[w].pc = "sleep"
    BY <1>7, LoopRecord DEF Redo, Defer, Deliver
  <2>2. UNCHANGED client \/ \E clients : Answer(clients)
    BY <1>7 DEF Redo, Defer, Deliver
  <2>3. \A c \in Clients : client'[c].asked \in {0, client[c].asked}
    BY <2>2, AnswerTame
  <2> QED
    BY <1>0, <1>7, <2>1, <2>3, FreshKept DEF Redo, Defer, Deliver, shared
<1>8. CASE Read(w)
  <2>0. UNCHANGED <<client, applied>> /\ worker[w].pc = "read"
    BY <1>8 DEF Read, shared
  <2>1. CASE lib = 0 /\ Ends(w, "ok")
    <3>0. /\ worker'[w].pc = "deliver" /\ worker'[w].at = worker[w].at
          /\ worker'[w].pending = worker[w].pending
      BY <2>1, LoopRecord
    <3>1. worker'[w].at \in Instances
      BY <2>0, <3>0 DEF TypeOK, Orderly
    <3>2. \A c \in worker[w].pending : client[c].asked = 0
      BY <1>1, <1>2, <2>1
    <3> QED
      BY <1>1, <1>8, <2>0, <3>0, <3>1, <3>2, FreshRunning
  <2>2. CASE Ends(w, "skipped") \/ Ends(w, "changed")
    <3>0. PICK result : result \in {"skipped", "changed"} /\ Ends(w, result)
      BY <2>2
    <3>1. /\ worker'[w].pc = "deliver" /\ worker'[w].result = result
          /\ worker'[w].pending = worker[w].pending
      BY <3>0, LoopRecord
    <3> QED
      BY <1>8, <2>0, <3>0, <3>1, FreshRunning
  <2>3. CASE worker' = [worker EXCEPT ![w].pc = "work",
                 ![w].view = ViewOf(worker[w].at), ![w].left = Rounds]
    <3>1. /\ worker'[w].pc = "work" /\ worker'[w].view = ViewOf(worker[w].at)
          /\ worker'[w].pending = worker[w].pending
      BY <1>0, <2>3 DEF Worker
    <3>2. worker'[w].view.lib = lib
      BY <3>1 DEF ViewOf
    <3> QED
      BY <1>1, <1>2, <1>8, <2>0, <3>1, <3>2, FreshRunning
  <2> QED
    BY <1>8, <2>1, <2>2, <2>3 DEF Read
<1>9. CASE Work(w)
  <2>0. UNCHANGED <<client, applied>> /\ worker[w].pc = "work"
    BY <1>9 DEF Work
  <2>1. \A c \in worker[w].pending : client[c].asked <= worker[w].view.lib
    BY <2>0 DEF Fresh, FreshRun
  <2>2. CASE \E result \in {"changed", "limited", "error"} : Ends(w, result)
    BY <1>9, <2>0, <2>2, LoopRecord, FreshRunning
  <2>3. ASSUME worker'[w].pc = "apply", worker'[w].pending = worker[w].pending,
               worker'[w].view.lib \in {worker[w].view.lib,
                                        worker[w].view.lib + 1}
        PROVE  Fresh'
    BY <1>0, <1>1, <1>2, <1>9, <2>0, <2>1, <2>3, FreshRunning
  <2>4. ASSUME NEW caught,
               worker' = [worker EXCEPT ![w].pc = "apply",
                             ![w].view.lib = IF caught THEN @ + 1 ELSE @]
        PROVE  Fresh'
    <3>1. /\ worker'[w].pc = "apply"
          /\ worker'[w].pending = worker[w].pending
          /\ worker'[w].view.lib = IF caught THEN worker[w].view.lib + 1
                                   ELSE worker[w].view.lib
      BY <1>0, <2>4 DEF Worker, View
    <3> QED
      BY <2>3, <3>1
  <2>5. CASE worker' = [worker EXCEPT ![w].pc = "apply", ![w].result = "broken"]
    <3>1. /\ worker'[w].pc = "apply"
          /\ worker'[w].pending = worker[w].pending
          /\ worker'[w].view.lib = worker[w].view.lib
      BY <1>0, <2>5 DEF Worker
    <3> QED
      BY <2>3, <3>1
  <2> QED
    BY <1>9, <2>2, <2>4, <2>5 DEF Work
<1>10. CASE Apply(w)
  <2>0. UNCHANGED client /\ worker[w].pc = "apply"
        /\ worker[w].at \in Instances
    BY <1>10 DEF Apply, TypeOK, Orderly
  <2>1. \A c \in worker[w].pending : client[c].asked <= worker[w].view.lib
    BY <2>0 DEF Fresh, FreshRun
  <2>2. CASE \E result \in {"changed", "broken"} : Ends(w, result)
    BY <1>10, <2>0, <2>2, LoopRecord, FreshRunning
  <2>3. CASE /\ Ends(w, "ok")
             /\ applied' = [applied EXCEPT ![worker[w].at] = worker[w].view.lib]
    <3>1. applied'[worker[w].at] = worker[w].view.lib
      BY <1>1, <2>0, <2>3
    <3> QED
      BY <1>10, <2>0, <2>1, <2>3, <3>1, LoopRecord, FreshRunning
  <2>4. CASE \E print : worker' = [worker EXCEPT ![w].pc = "work",
                 ![w].left = @ - 1,
                 ![w].view = [lib |-> worker[w].view.lib, rev |-> revision',
                              print |-> print, held |-> FALSE]]
    <3>1. /\ worker'[w].pc = "work" /\ worker'[w].pending = worker[w].pending
          /\ worker'[w].view.lib = worker[w].view.lib
      BY <1>0, <2>4 DEF Worker
    <3> QED
      BY <1>10, <2>0, <2>1, <3>1, FreshRunning
  <2> QED
    BY <1>10, <2>2, <2>3, <2>4 DEF Apply
<1> QED
  BY <1>3, <1>4, <1>5, <1>6, <1>7, <1>8, <1>9, <1>10 DEF Loop

LEMMA FreshStep ==
    ASSUME TypeOK, OneWorker, WaiterKept, Library, Fresh, [Next]_vars
    PROVE  Fresh'
<1>1. ASSUME NEW c \in Clients, Proceed(c)
      PROVE  Fresh'
  <2>1. UNCHANGED applied
    BY <1>1 DEF Proceed, Start, Release, Request, Capture, EndCapture, shared
  <2>2. \A d \in Clients : Unanswered(d) =>
           client'[d].asked \in {0, client[d].asked}
    <3>1. CASE Start(c)
      BY <3>1, ClientRecord DEF Start
    <3>2. CASE Release(c) \/ Request(c) \/ Capture(c) \/ EndCapture(c)
      <4>1. ~Unanswered(c)
        BY <3>2 DEF Release, Request, Capture, EndCapture, Unanswered
      <4>2. \A d \in Clients \ {c} : client'[d] = client[d]
        BY <3>2 DEF Release, Request, Capture, EndCapture, Becomes, TypeOK
      <4> QED
        BY <4>1, <4>2
    <3> QED
      BY <1>1, <3>1, <3>2 DEF Proceed
  <2>3. \A v \in Workers : worker'[v] = worker[v] \/ worker'[v].pc = "sleep"
    BY <1>1, StartedAlone
    DEF Proceed, Start, Release, Request, Capture, EndCapture
  <2> QED
    BY <2>1, <2>2, <2>3, FreshKept
<1>2. CASE Timer
  <2>1. UNCHANGED <<applied, client>>
    BY <1>2 DEF Timer, TimerStart, Elapse, Wake, shared
  <2>2. \A v \in Workers : worker'[v] = worker[v] \/ worker'[v].pc = "sleep"
    BY <1>2, StartedAlone DEF Timer, TimerStart, Elapse, Wake
  <2> QED
    BY <2>1, <2>2, FreshKept
<1>3. CASE Command
  <2>1. UNCHANGED <<applied, worker>>
    BY <1>3 DEF Command, Edit, Flush, Hold, Touch, Delete, shared
  <2>2. \A d \in Clients : client'[d] = client[d] \/ ~Unanswered(d)
    <3>1. ASSUME NEW c \in Clients, client[c].pc = "idle",
                 \A d \in Clients \ {c} : client'[d] = client[d]
          PROVE  \A d \in Clients : client'[d] = client[d] \/ ~Unanswered(d)
      BY <3>1 DEF Unanswered
    <3>2. CASE UNCHANGED client
      BY <3>2
    <3>3. ASSUME NEW c \in Clients, Edit(c)
          PROVE  /\ client[c].pc = "idle"
                 /\ \A d \in Clients \ {c} : client'[d] = client[d]
      BY <3>3 DEF Edit, Becomes, TypeOK
    <3>4. ASSUME NEW c \in Clients, NEW i \in Instances,
                 Flush(c, i) \/ Hold(c, i) \/ Touch(c, i)
          PROVE  /\ client[c].pc = "idle"
                 /\ \A d \in Clients \ {c} : client'[d] = client[d]
      BY <3>4 DEF Flush, Hold, Touch, TypeOK
    <3>5. ASSUME NEW i \in Instances, Delete(i)
          PROVE  UNCHANGED client
      BY <3>5 DEF Delete
    <3>6. CASE \E c \in Clients : Edit(c)
      BY <3>1, <3>3, <3>6
    <3>7. CASE \E c \in Clients, i \in Instances :
                 Flush(c, i) \/ Hold(c, i) \/ Touch(c, i)
      BY <3>1, <3>4, <3>7
    <3>8. CASE \E i \in Instances : Delete(i)
      BY <3>2, <3>5, <3>8
    <3> QED
      BY <1>3, <3>6, <3>7, <3>8 DEF Command
  <2> QED
    BY <2>1, <2>2, FreshKept
<1>4. CASE UNCHANGED vars
  BY <1>4, FreshKept DEF vars, shared
<1> QED
  BY <1>1, <1>2, <1>3, <1>4, FreshLoop DEF Next

\* An answer that a run was completed is one to those it was begun for.
LEMMA FreshAnswered ==
    ASSUME TypeOK, OneWorker, WaiterKept, Fresh, [Next]_vars,
           NEW w \in Workers, NEW c \in Clients,
           worker[w].pc = "deliver", worker[w].result = "ok",
           worker'[w].pc = "sleep", Unanswered(c), ~Unanswered(c)'
    PROVE  applied[client[c].at] >= client[c].asked
<1>1. PICK v \in Workers : Loop(v)
  <2>1. CASE \E d \in Clients : Proceed(d)
    BY <2>1, StartedAlone
    DEF Proceed, Start, Release, Request, Capture, EndCapture
  <2>2. CASE Timer
    BY <2>2, StartedAlone DEF Timer, TimerStart, Elapse, Wake
  <2>3. CASE Command \/ UNCHANGED vars
    BY <2>3 DEF Command, Edit, Flush, Hold, Touch, Delete, vars
  <2> QED
    BY <2>1, <2>2, <2>3 DEF Next
<1>2. v = w
  BY <1>1, LoopAlone
<1>3. Deliver(w)
  BY <1>1, <1>2
  DEF Loop, Take, List, Pick, Begin, Read, Work, Apply, Redo, Defer
<1>4. c \in worker[w].pending
  BY <1>3, AnswerTame DEF Deliver, Unanswered
<1>5. client[c].asked <= applied[client[c].at]
  BY <1>4, Pendings DEF Fresh, FreshRun
<1>6. client[c].at \in Instances
  BY DEF Unanswered, TypeOK, Orderly
<1> QED
  BY <1>5, <1>6, ClientRecord DEF TypeOK, WorldTyped

----------------------------------------------------------------------------
(* An instance that is behind is going to be run.                           *)

\* Steps of clients and timers: they take back no request.
LEMMA FollowKept ==
    ASSUME TypeOK, Following, UNCHANGED applied,
           \A v \in Workers : worker'[v] = worker[v]
              \/ (worker[v].pc = "off" /\ worker'[v].pc = "sleep"),
           \A i \in Instances : Requested(i) => Requested(i)',
           \A i \in alive' \ (held' \cup excused') :
              i \in alive \ (held \cup excused) \/ Requested(i)',
           \A i \in local' : i \in local \/ Requested(i)',
           lib' = lib \/ queue'.all, excused \subseteq excused'
    PROVE  Following'
<1>1. alive \subseteq Instances /\ local \subseteq Instances
  BY DEF TypeOK, WorldTyped
<1>2. ASSUME NEW i \in alive' \ (held' \cup excused'), Behind(i)'
      PROVE  Covered(i)'
  <2>1. CASE Requested(i)'
    BY <2>1 DEF Covered
  <2>2. CASE ~Requested(i)'
    <3>1. lib' = lib /\ i \in alive \ (held \cup excused) /\ ~Requested(i)
      BY <1>1, <1>2, <2>2 DEF Requested
    <3>2. Behind(i)
      BY <1>2, <2>2, <3>1 DEF Behind
    <3>3. PICK v \in Workers : worker[v].pc = "list" \/ Running(v, i)
      BY <3>1, <3>2 DEF Following, BehindIsCovered, Covered
    <3>4. worker'[v] = worker[v]
      BY <3>3 DEF Running
    <3> QED
      BY <3>3, <3>4 DEF Covered, Running
  <2> QED
    BY <2>1, <2>2
<1>3. ASSUME NEW v \in Workers
      PROVE  LeavesNothing(worker[v])'
  <2>1. CASE worker'[v].pc = "sleep"
    BY <2>1 DEF LeavesNothing, Captured
  <2>2. CASE worker'[v] = worker[v]
    <3>1. LeavesNothing(worker[v])
      BY DEF Following, RunsLeaveNothing
    <3>2. worker[v].pc \in {"read", "work", "apply"} =>
             worker[v].at \in Instances
      BY DEF TypeOK, Orderly
    <3> QED
      BY <1>1, <2>2, <3>1, <3>2 DEF LeavesNothing, Captured
  <2> QED
    BY <2>1, <2>2
<1> QED
  BY <1>2, <1>3 DEF Following, BehindIsCovered, RunsLeaveNothing

\* A client that goes from one point to another without leaving a request.
LEMMA RequestedKept ==
    ASSUME queue.all => queue'.all, queue.instances \subseteq queue'.instances,
           \A c \in Clients :
              \/ client'[c] = client[c]
              \/ client[c].pc \notin {"installed", "capture", "work"}
              \/ /\ client'[c].at = client[c].at
                 /\ client'[c].pc \in {"installed", "capture", "work"}
              \/ client[c].at \in queue'.instances
              \/ queue'.all,
           NEW i, Requested(i)
    PROVE  Requested(i)'
BY DEF Requested

LEMMA FollowProceed ==
    ASSUME TypeOK, Library, Following, NEW c \in Clients, Proceed(c)
    PROVE  Following'
<1>1. /\ queue.instances \subseteq queue'.instances
      /\ queue.all => queue'.all
  <2>1. CASE Start(c)
    BY <2>1, StartedAlone DEF Start
  <2>2. CASE Release(c) \/ Request(c) \/ Capture(c) \/ EndCapture(c)
    BY <2>2 DEF Release, Request, Capture, EndCapture, TypeOK, QueueTyped
  <2> QED
    BY <2>1, <2>2 DEF Proceed
<1>2. /\ \A v \in Workers : worker'[v] = worker[v]
            \/ (worker[v].pc = "off" /\ worker'[v].pc = "sleep")
      /\ UNCHANGED <<applied, alive>> /\ local' \subseteq local
      /\ excused \subseteq excused'
  BY StartedAlone DEF Proceed, Start, Release, Request, Capture, EndCapture,
                      shared, world
<1>3. \A d \in Clients \ {c} : client'[d] = client[d]
  BY DEF Proceed, Start, Release, Request, Capture, EndCapture, Becomes, TypeOK
<1>4. \/ client[c].pc \notin {"installed", "capture", "work"}
      \/ /\ client'[c].at = client[c].at
         /\ client'[c].pc \in {"installed", "capture", "work"}
      \/ client[c].at \in queue'.instances
      \/ queue'.all
  <2>1. CASE Start(c) \/ Release(c)
    BY <2>1 DEF Start, Release
  <2>2. CASE Request(c)
    BY <2>2 DEF Request, TypeOK, QueueTyped
  <2>3. CASE Capture(c)
    <3>1. CASE queue' = [queue EXCEPT !.instances = @ \cup {client[c].at}]
      BY <3>1 DEF TypeOK, QueueTyped
    <3>2. CASE client' = [client EXCEPT ![c].pc = "work",
                                        ![c].view = ViewOf(client[c].at)]
      BY <3>2 DEF TypeOK, Client
    <3> QED
      BY <2>3, <3>1, <3>2 DEF Capture
  <2>4. CASE EndCapture(c)
    <3>1. CASE Becomes(c, "capture")
      BY <3>1, ClientRecord
    <3>2. CASE \/ queue' = [queue EXCEPT !.instances = @ \cup {client[c].at}]
               \/ queue' = [queue EXCEPT !.all = TRUE]
      BY <3>2 DEF TypeOK, QueueTyped
    <3> QED
      BY <2>4, <3>1, <3>2 DEF EndCapture
  <2> QED
    BY <2>1, <2>2, <2>3, <2>4 DEF Proceed
<1>5. \A i \in Instances : Requested(i) => Requested(i)'
  BY <1>1, <1>3, <1>4, RequestedKept
<1>6. lib' = lib \/ queue'.all
  <2>1. CASE EndCapture(c)
    <3>1. CASE UNCHANGED lib
      BY <3>1
    <3>2. CASE /\ Valid(client[c].at, client[c].view)
               /\ lib' = IF client[c].at \in local THEN client[c].view.lib + 1
                         ELSE client[c].view.lib
               /\ queue' = IF client[c].at \in local
                           THEN [queue EXCEPT !.all = TRUE]
                           ELSE [queue EXCEPT !.instances =
                                                 @ \cup {client[c].at}]
      <4>1. client[c].view.lib = lib
        BY <2>1, <3>2
        DEF EndCapture, Valid, Library, ViewsInDate, InDate
      <4> QED
        BY <3>2, <4>1 DEF TypeOK, QueueTyped
    <3> QED
      BY <2>1, <3>1, <3>2 DEF EndCapture
  <2>2. CASE Start(c) \/ Release(c) \/ Request(c) \/ Capture(c)
    BY <2>2 DEF Start, Release, Request, Capture, shared
  <2> QED
    BY <2>1, <2>2 DEF Proceed
<1>7. \A i \in alive' \ (held' \cup excused') :
         i \in alive \ (held \cup excused) \/ Requested(i)'
  <2>1. CASE Release(c)
    <3>1. CASE Becomes(c, "installed")
      <4>1. client'[c].at = client[c].at /\ client'[c].pc = "installed"
        BY <3>1, ClientRecord
      <4>2. held \subseteq held' \cup {client[c].at}
        BY <2>1 DEF Release
      <4>3. \A i : i = client[c].at => Requested(i)'
        BY <4>1 DEF Requested
      <4> QED
        BY <1>2, <4>2, <4>3
    <3>2. CASE excused' = excused \cup {client[c].at}
      BY <1>2, <2>1, <3>2 DEF Release
    <3> QED
      BY <2>1, <3>1, <3>2 DEF Release
  <2>2. CASE UNCHANGED held
    BY <1>2, <2>2
  <2> QED
    BY <2>1, <2>2 DEF Proceed, Start, Request, Capture, EndCapture, world
<1> QED
  BY <1>2, <1>5, <1>6, <1>7, FollowKept

LEMMA FollowTimer ==
    ASSUME TypeOK, Following, Timer
    PROVE  Following'
<1>1. /\ \A v \in Workers : worker'[v] = worker[v]
            \/ (worker[v].pc = "off" /\ worker'[v].pc = "sleep")
      /\ queue'.all = queue.all /\ queue'.instances = queue.instances
  BY StartedAlone DEF Timer, TimerStart, Elapse, Wake, TypeOK, QueueTyped
<1>2. UNCHANGED <<lib, applied, local, alive, held, excused, client>>
  BY DEF Timer, TimerStart, Elapse, Wake, shared, world
<1>3. \A i \in Instances : Requested(i) => Requested(i)'
  BY <1>1, <1>2, RequestedKept
<1> QED
  BY <1>1, <1>2, <1>3, FollowKept

LEMMA FollowCommand ==
    ASSUME TypeOK, Following, Command
    PROVE  Following'
<1>1. /\ queue.instances \subseteq queue'.instances
      /\ queue.all => queue'.all
      /\ lib' = lib \/ queue'.all
  <2>1. CASE queue' = [queue EXCEPT !.all = TRUE]
    BY <2>1 DEF TypeOK, QueueTyped
  <2>2. ASSUME NEW i, NEW waiters,
               queue' = [queue EXCEPT !.instances = @ \cup {i},
                                      !.waiters = waiters]
        PROVE  /\ queue.instances \subseteq queue'.instances
               /\ queue'.all = queue.all
    BY <2>2 DEF TypeOK, QueueTyped
  <2>3. ASSUME NEW c \in Clients, NEW i \in Instances, Flush(c, i)
        PROVE  /\ queue.instances \subseteq queue'.instances
               /\ queue'.all = queue.all /\ lib' = lib
    BY <2>2, <2>3 DEF Flush, TypeOK, QueueTyped, shared
  <2> QED
    BY <2>1, <2>3 DEF Command, Edit, Hold, Touch, Delete, shared
<1>2. /\ UNCHANGED <<worker, applied, excused>>
      /\ alive' \subseteq alive /\ held \subseteq held'
  BY DEF Command, Edit, Flush, Hold, Touch, Delete, shared, world
<1>3. \A d \in Clients :
         client'[d] = client[d] \/ client[d].pc = "idle"
  <2>1. ASSUME NEW c \in Clients, client[c].pc = "idle",
               \A d \in Clients \ {c} : client'[d] = client[d]
        PROVE  \A d \in Clients : client'[d] = client[d] \/ client[d].pc = "idle"
    BY <2>1
  <2>2. CASE UNCHANGED client
    BY <2>2
  <2> QED
    BY <2>1, <2>2
    DEF Command, Edit, Flush, Hold, Touch, Delete, Becomes, TypeOK
<1>4. \A i \in Instances : Requested(i) => Requested(i)'
  BY <1>1, <1>3, RequestedKept
<1>5. \A i \in local' : i \in local \/ Requested(i)'
  <2>1. ASSUME NEW c \in Clients, NEW i \in Instances, Touch(c, i)
        PROVE  local' \subseteq local \cup {i} /\ Requested(i)'
    <3>1. client'[c].at = i /\ client'[c].pc = "capture"
      BY <2>1 DEF Touch, TypeOK, Client
    <3> QED
      BY <2>1, <3>1 DEF Requested, Touch
  <2>2. CASE UNCHANGED local
    BY <2>2
  <2> QED
    BY <2>1, <2>2 DEF Command, Edit, Flush, Hold, Delete, shared
<1> QED
  BY <1>1, <1>2, <1>4, <1>5, FollowKept

\* Steps of the worker: what a client asks for it goes on asking for.
LEMMA RequestsStay ==
    ASSUME TypeOK, WaiterKept, NEW w \in Workers, Loop(w)
    PROVE  \A c \in Clients :
              client[c].pc \in {"installed", "capture", "work"} =>
                 client'[c] = client[c]
<1>1. Registered
  BY RegisteredIsKept DEF Placed, Unanswered, TypeOK, Orderly
<1>2. CASE Defer(w) \/ Deliver(w)
  <2>1. PICK clients :
           /\ clients \subseteq worker[w].pending
                                  \cup queue.waiters[worker[w].at]
           /\ Answer(clients)
    BY <1>2 DEF Defer, Deliver
  <2>2. worker[w].at \in Instances
    BY <1>2 DEF Defer, Deliver, TypeOK, Orderly
  <2>3. \A c \in Clients : c \in clients => Unanswered(c)
    BY <1>1, <2>1, <2>2 DEF Registered
  <2> QED
    BY <2>1, <2>3, AnswerTame DEF Unanswered
<1> QED
  BY <1>2 DEF Loop, Take, List, Pick, Begin, Read, Work, Apply, Redo

\* All that covers an instance, with one worker at most.
LEMMA LoopCovers ==
    ASSUME TypeOK, OneWorker, Following, NEW w \in Workers, Loop(w),
           NEW i \in alive \ (held \cup excused), Behind(i)
    PROVE  Requested(i) \/ worker[w].pc = "list" \/ Running(w, i)
<1>1. \A v \in Workers \ {w} : worker[v].pc = "off"
  BY LoopAlone
<1>2. Covered(i)
  BY DEF Following, BehindIsCovered
<1> QED
  BY <1>1, <1>2 DEF Covered, Running

\* What is left to show of a step of the worker.
LEMMA LoopFollows ==
    ASSUME TypeOK, OneWorker, WaiterKept, NEW w \in Workers, Loop(w),
           BehindIsCovered', LeavesNothing(worker[w])'
    PROVE  Following'
<1>1. \A v \in Workers \ {w} : worker'[v].pc = "off"
  BY LoopAlone
<1> QED
  BY <1>1 DEF Following, RunsLeaveNothing, LeavesNothing, Captured

\* Steps that bring no instance, and not the library, further.
LEMMA LoopKeeps ==
    ASSUME TypeOK, OneWorker, WaiterKept, Following, NEW w \in Workers, Loop(w),
           UNCHANGED <<lib, applied, alive, held>>,
           local' \subseteq local, excused \subseteq excused',
           LeavesNothing(worker[w])',
           \A i \in alive \ (held \cup excused') :
              /\ Requested(i) => Covered(i)'
              /\ worker[w].pc = "list" => Covered(i)'
              /\ Behind(i) /\ Running(w, i) => Covered(i)'
    PROVE  Following'
<1>1. ASSUME NEW i \in alive' \ (held' \cup excused'), Behind(i)'
      PROVE  Covered(i)'
  <2>1. Behind(i) /\ i \in alive \ (held \cup excused)
    BY <1>1 DEF Behind
  <2> QED
    BY <1>1, <2>1, LoopCovers
<1>2. BehindIsCovered'
  BY <1>1 DEF BehindIsCovered
<1> QED
  BY <1>2, LoopFollows

LEMMA FollowQueue ==
    ASSUME TypeOK, OneWorker, WaiterKept, Following, NEW w \in Workers,
           Take(w) \/ List(w) \/ Pick(w) \/ Begin(w)
             \/ Redo(w) \/ Defer(w) \/ Deliver(w)
    PROVE  Following'
<1>0. Loop(w) /\ worker[w] \in Worker /\ DOMAIN worker = Workers
  BY DEF Loop, TypeOK
<1>1. UNCHANGED <<lib, applied, alive, held, local, excused>>
  BY DEF Take, List, Pick, Begin, Redo, Defer, Deliver, shared, world
<1>2. \A c \in Clients : client[c].pc \in {"installed", "capture", "work"} =>
         client'[c] = client[c]
  BY <1>0, RequestsStay
<1>3. ASSUME queue.all => queue'.all \/ worker'[w].pc = "list",
             \A i \in Instances : i \in queue.instances =>
                i \in queue'.instances
                  \/ (worker'[w].pc = "begin" /\ worker'[w].at = i),
             NEW i \in Instances, Requested(i)
      PROVE  Covered(i)'
  BY <1>2, <1>3 DEF Requested, Covered, Running
<1>4. alive \subseteq Instances
  BY DEF TypeOK, WorldTyped
<1>5. CASE Take(w)
  <2>1. /\ worker[w].pc = "sleep" /\ queue'.instances = queue.instances
        /\ worker'[w].pc = IF queue.all THEN "list" ELSE "pick"
    BY <1>0, <1>5 DEF Take, TypeOK, QueueTyped, Worker
  <2>2. LeavesNothing(worker[w])'
    BY <2>1 DEF LeavesNothing, Captured
  <2> QED
    BY <1>0, <1>1, <1>3, <1>4, <2>1, <2>2, LoopKeeps DEF Running
<1>6. CASE List(w)
  <2>1. worker'[w].pc = "pick" /\ worker[w].pc = "list"
    BY <1>0, <1>6 DEF List, Worker
  <2>2. alive \subseteq queue'.instances \/ queue'.all
    BY <1>6 DEF List, TypeOK, QueueTyped
  <2>3. LeavesNothing(worker[w])'
    BY <2>1 DEF LeavesNothing, Captured
  <2>4. \A i \in alive : Covered(i)'
    BY <2>2 DEF Covered, Requested
  <2> QED
    BY <1>0, <1>1, <2>3, <2>4, LoopKeeps
<1>7. CASE Pick(w)
  <2>1. /\ worker'[w].pc \in {"begin", "sleep", "off"}
        /\ worker'[w].pc = "begin" => worker'[w].result = "none"
        /\ worker[w].pc = "pick"
    BY <1>7, PickRecord DEF Pick
  <2>2. LeavesNothing(worker[w])'
    BY <2>1 DEF LeavesNothing, Captured
  <2>3. /\ queue.all => queue'.all
        /\ \A i \in Instances : i \in queue.instances =>
              i \in queue'.instances
                \/ (worker'[w].pc = "begin" /\ worker'[w].at = i)
    BY <1>7, PickRecord
  <2> QED
    BY <1>0, <1>1, <1>3, <1>4, <2>1, <2>2, <2>3, LoopKeeps DEF Running
<1>8. CASE Begin(w)
  <2>0. UNCHANGED queue /\ worker[w].pc = "begin"
    BY <1>8 DEF Begin
  <2>1. worker[w].result = "none"
    BY <2>0 DEF Following, RunsLeaveNothing, LeavesNothing
  <2>2. LeavesNothing(worker[w])'
    BY <1>1, <1>8, <2>1, BeginRecord DEF LeavesNothing, Captured
  <2>3. ASSUME NEW i \in alive, Running(w, i)
        PROVE  Covered(i)'
    BY <1>8, <2>3, BeginRecord DEF Running, Covered
  <2> QED
    BY <1>0, <1>1, <1>3, <1>4, <2>0, <2>2, <2>3, LoopKeeps
<1>9. CASE Redo(w) \/ Defer(w) \/ Deliver(w)
  <2>1. worker'[w].pc = "sleep" /\ worker[w].pc = "deliver"
    BY <1>9, LoopRecord DEF Redo, Defer, Deliver
  <2>2. LeavesNothing(worker[w])'
    BY <2>1 DEF LeavesNothing, Captured
  <2>3. /\ queue'.all = queue.all
        /\ queue.instances \subseteq queue'.instances
        /\ \/ worker[w].result \notin {"changed", "limited"}
           \/ worker[w].at \in queue'.instances
    <3>1. CASE Redo(w)
      <4>1. /\ queue'.all = queue.all
            /\ queue'.instances = queue.instances \cup {worker[w].at}
        BY <3>1 DEF Redo, TypeOK, QueueTyped
      <4> QED
        BY <4>1
    <3>2. CASE Defer(w)
      <4>1. /\ queue'.all = queue.all
            /\ queue'.instances = queue.instances \cup {worker[w].at}
        BY <3>2 DEF Defer, TypeOK, QueueTyped
      <4> QED
        BY <4>1
    <3> QED
      BY <1>9, <3>1, <3>2 DEF Deliver
  <2>4. ASSUME NEW i \in alive, Running(w, i)
        PROVE  Covered(i)'
    BY <2>1, <2>3, <2>4 DEF Running, Covered, Requested
  <2> QED
    BY <1>0, <1>1, <1>3, <1>4, <2>1, <2>2, <2>3, <2>4, LoopKeeps
<1> QED
  BY <1>5, <1>6, <1>7, <1>8, <1>9

LEMMA FollowRead ==
    ASSUME TypeOK, OneWorker, WaiterKept, Library, Following,
           NEW w \in Workers, Read(w)
    PROVE  Following'
<1>0. /\ Loop(w) /\ worker[w] \in Worker /\ DOMAIN worker = Workers
      /\ UNCHANGED <<lib, applied, alive, held, local, excused, queue, client>>
      /\ worker[w].pc = "read" /\ worker[w].result = "none"
  BY DEF Loop, TypeOK, Read, shared, world, Following, RunsLeaveNothing,
         LeavesNothing
<1>1. \A i : Requested(i) => Requested(i)'
  BY <1>0 DEF Requested
<1>2. ASSUME LeavesNothing(worker[w])',
             \A i \in alive \ (held \cup excused) :
                Behind(i) /\ worker[w].at = i => Covered(i)'
      PROVE  Following'
  BY <1>0, <1>1, <1>2, LoopKeeps DEF Running, Covered
<1>3. ASSUME NEW result \in {"ok", "skipped", "changed"}, Ends(w, result)
      PROVE  /\ worker'[w].pc = "deliver" /\ worker'[w].result = result
             /\ worker'[w].at = worker[w].at /\ LeavesNothing(worker[w])'
  <2>1. /\ worker'[w].pc = "deliver" /\ worker'[w].result = result
        /\ worker'[w].at = worker[w].at
    BY <1>3, LoopRecord
  <2> QED
    BY <2>1 DEF LeavesNothing, Captured
<1>4. CASE lib = 0 /\ Ends(w, "ok")
  <2>1. \A i \in alive : applied[i] = 0 /\ i \notin local
    BY <1>4 DEF Library, NeverAhead, LocalHasPacks, TypeOK, WorldTyped
  <2>2. \A i \in alive : ~Behind(i)
    BY <1>4, <2>1 DEF Behind
  <2> QED
    BY <1>2, <1>3, <1>4, <2>2
<1>5. CASE worker[w].view.held /\ Ends(w, "skipped")
  <2>1. \A i \in alive \ (held \cup excused) : worker[w].at = i => Requested(i)
    BY <1>0, <1>5 DEF Following, RunsLeaveNothing, LeavesNothing
  <2> QED
    BY <1>1, <1>2, <1>3, <1>5, <2>1 DEF Covered
<1>6. CASE Ends(w, "changed")
  <2>1. \A i : worker[w].at = i => Running(w, i)'
    BY <1>3, <1>6 DEF Running
  <2> QED
    BY <1>2, <1>3, <1>6, <2>1 DEF Covered
<1>7. CASE worker' = [worker EXCEPT ![w].pc = "work",
                 ![w].view = ViewOf(worker[w].at), ![w].left = Rounds]
  <2>1. /\ worker'[w].pc = "work" /\ worker'[w].left = Rounds
        /\ worker'[w].at = worker[w].at /\ worker'[w].result = "none"
    BY <1>0, <1>7 DEF Worker
  <2>2. ~(Rounds < Rounds)
    BY Assumed DEF Actors, BoundsAssumption
  <2>3. LeavesNothing(worker[w])'
    BY <2>1, <2>2 DEF LeavesNothing, Captured
  <2>4. \A i : worker[w].at = i => Running(w, i)'
    BY <2>1 DEF Running
  <2> QED
    BY <1>2, <2>3, <2>4 DEF Covered
<1> QED
  BY <1>4, <1>5, <1>6, <1>7 DEF Read

LEMMA FollowWork ==
    ASSUME TypeOK, OneWorker, WaiterKept, Following, NEW w \in Workers, Work(w)
    PROVE  Following'
<1>0. /\ Loop(w) /\ worker[w] \in Worker /\ DOMAIN worker = Workers
      /\ UNCHANGED <<lib, applied, alive, held, client>>
      /\ worker[w].pc = "work" /\ worker[w].result \in {"none", "broken"}
      /\ worker[w].result = "broken" => worker[w].at \in excused
  BY DEF Loop, TypeOK, Work, world, Following, RunsLeaveNothing, LeavesNothing
<1>1. /\ local' \subseteq local /\ excused \subseteq excused'
      /\ queue'.instances = queue.instances
      /\ queue.all => queue'.all
  BY DEF Work, TypeOK, QueueTyped
<1>2. \A i : Requested(i) => Requested(i)'
  BY <1>0, <1>1 DEF Requested
<1>3. ASSUME LeavesNothing(worker[w])',
             \A i \in alive \ (held \cup excused') :
                worker[w].at = i => Running(w, i)'
      PROVE  Following'
  BY <1>0, <1>1, <1>2, <1>3, LoopKeeps DEF Running, Covered
<1>4. ASSUME NEW result \in {"changed", "limited", "error"}, Ends(w, result),
             result = "error" => worker[w].at \in excused'
      PROVE  Following'
  <2>1. /\ worker'[w].pc = "deliver" /\ worker'[w].result = result
        /\ worker'[w].at = worker[w].at
    BY <1>4, LoopRecord
  <2>2. LeavesNothing(worker[w])'
    BY <2>1 DEF LeavesNothing, Captured
  <2> QED
    BY <1>3, <1>4, <2>1, <2>2 DEF Running
<1>5. ASSUME worker'[w].pc = "apply", worker'[w].at = worker[w].at,
             \/ worker'[w].result = worker[w].result
             \/ worker'[w].result = "broken" /\ worker[w].at \in excused',
             \A i \in local' : worker'[w].result # "broken"
                                  /\ worker[w].at = i => Requested(i)'
      PROVE  Following'
  <2>1. LeavesNothing(worker[w])'
    BY <1>0, <1>1, <1>5 DEF LeavesNothing, Captured
  <2>2. \A i : worker[w].at = i => Running(w, i)'
    BY <1>5 DEF Running
  <2> QED
    BY <1>3, <2>1, <2>2
<1>6. CASE worker' = [worker EXCEPT ![w].pc = "apply", ![w].result = "broken"]
           /\ worker[w].at \in excused'
  <2>1. /\ worker'[w].pc = "apply" /\ worker'[w].at = worker[w].at
        /\ worker'[w].result = "broken"
    BY <1>0, <1>6 DEF Worker
  <2> QED
    BY <1>5, <1>6, <2>1
<1>7. CASE /\ worker' = [worker EXCEPT ![w].pc = "apply",
                 ![w].view.lib = IF worker[w].at \in local
                                      /\ worker[w].left = Rounds
                                 THEN @ + 1 ELSE @]
           /\ local' = IF worker[w].at \in local /\ worker[w].left = Rounds
                       THEN local \ {worker[w].at} ELSE local
  <2>1. /\ worker'[w].pc = "apply" /\ worker'[w].at = worker[w].at
        /\ worker'[w].result = worker[w].result
    BY <1>0, <1>7 DEF Worker
  <2>2. ASSUME NEW i \in local', worker[w].at = i, worker[w].result # "broken"
        PROVE  Requested(i)'
    <3>1. worker[w].left # Rounds /\ i \in local
      BY <1>7, <2>2
    <3>2. worker[w].left < Rounds
      BY <1>0, <3>1, Assumed DEF Worker, Actors, BoundsAssumption
    <3>3. Requested(i)
      BY <1>0, <2>2, <3>1, <3>2
      DEF Following, RunsLeaveNothing, LeavesNothing, Captured
    <3> QED
      BY <1>2, <3>3
  <2> QED
    BY <1>5, <2>1, <2>2
<1>8. CASE Ends(w, "changed") \/ Ends(w, "limited")
  BY <1>4, <1>8
<1>9. CASE Ends(w, "error") /\ excused' = excused \cup {worker[w].at}
  BY <1>4, <1>9
<1> QED
  BY <1>6, <1>7, <1>8, <1>9 DEF Work

LEMMA FollowApply ==
    ASSUME TypeOK, OneWorker, WaiterKept, Library, Following,
           NEW w \in Workers, Apply(w)
    PROVE  Following'
<1>0. /\ Loop(w) /\ worker[w] \in Worker /\ DOMAIN worker = Workers
      /\ UNCHANGED <<alive, held, client, queue, local>>
      /\ worker[w].pc = "apply" /\ worker[w].at \in Instances
      /\ worker[w].result \in {"none", "broken"}
      /\ worker[w].result = "broken" => worker[w].at \in excused
      /\ lib' = worker[w].view.lib
      /\ lib' = lib \/ queue.all
  BY DEF Loop, TypeOK, Apply, world, Orderly, Following, RunsLeaveNothing,
         LeavesNothing, Library, ViewsInDate, RunInDate, Ahead
<1>1. \A i : Requested(i) => Requested(i)'
  BY <1>0 DEF Requested
<1>2. \A i \in local : worker[w].result # "broken" /\ worker[w].at = i =>
         Requested(i)
  BY <1>0 DEF Following, RunsLeaveNothing, LeavesNothing, Captured
<1>3. \A i \in alive \ (held \cup excused) : Behind(i) =>
         Requested(i) \/ worker[w].at = i
  BY <1>0, LoopCovers DEF Running
<1>4. ASSUME UNCHANGED <<applied, excused>>, LeavesNothing(worker[w])',
             \A i \in alive \ (held \cup excused) :
                worker[w].at = i => Running(w, i)'
      PROVE  Following'
  <2>1. ASSUME NEW i \in alive' \ (held' \cup excused'), Behind(i)'
        PROVE  Covered(i)'
    <3>1. CASE queue.all
      BY <1>0, <3>1 DEF Covered, Requested
    <3>2. CASE lib' = lib
      <4>1. Behind(i)
        BY <1>0, <1>4, <2>1, <3>2 DEF Behind
      <4> QED
        BY <1>0, <1>1, <1>3, <1>4, <2>1, <4>1 DEF Covered
    <3> QED
      BY <1>0, <3>1, <3>2
  <2>2. BehindIsCovered'
    BY <2>1 DEF BehindIsCovered
  <2> QED
    BY <1>0, <1>4, <2>2, LoopFollows
<1>5. CASE Ends(w, "changed") /\ UNCHANGED <<applied, excused>>
  <2>1. /\ worker'[w].pc = "deliver" /\ worker'[w].result = "changed"
        /\ worker'[w].at = worker[w].at
    BY <1>5, LoopRecord
  <2>2. LeavesNothing(worker[w])'
    BY <2>1 DEF LeavesNothing, Captured
  <2> QED
    BY <1>4, <1>5, <2>1, <2>2 DEF Running
<1>6. CASE /\ Ends(w, "broken") /\ UNCHANGED <<applied, excused>>
           /\ worker[w].result = "broken"
  <2>1. /\ worker'[w].pc = "deliver" /\ worker'[w].result = "broken"
        /\ worker'[w].at = worker[w].at
    BY <1>6, LoopRecord
  <2>2. LeavesNothing(worker[w])'
    BY <1>0, <1>6, <2>1 DEF LeavesNothing, Captured
  <2> QED
    BY <1>0, <1>4, <1>6, <2>2
<1>7. CASE /\ UNCHANGED <<applied, excused>> /\ worker[w].left > 1
           /\ \E print : worker' = [worker EXCEPT ![w].pc = "work",
                 ![w].left = @ - 1,
                 ![w].view = [lib |-> worker[w].view.lib, rev |-> revision',
                              print |-> print, held |-> FALSE]]
  <2>1. /\ worker'[w].pc = "work" /\ worker'[w].result = worker[w].result
        /\ worker'[w].at = worker[w].at
    BY <1>0, <1>7 DEF Worker
  <2>2. LeavesNothing(worker[w])'
    BY <1>0, <1>1, <1>2, <1>7, <2>1 DEF LeavesNothing, Captured
  <2> QED
    BY <1>4, <1>7, <2>1, <2>2 DEF Running
<1>8. CASE /\ Ends(w, "ok") /\ worker[w].result # "broken"
           /\ applied' = [applied EXCEPT ![worker[w].at] = worker[w].view.lib]
           /\ excused' = excused \ {worker[w].at}
  <2>1. worker'[w].pc = "deliver" /\ worker'[w].result = "ok"
    BY <1>8, LoopRecord
  <2>2. LeavesNothing(worker[w])'
    BY <2>1 DEF LeavesNothing, Captured
  <2>3. ASSUME NEW i \in alive' \ (held' \cup excused'), Behind(i)'
        PROVE  Covered(i)'
    <3>1. CASE queue.all
      BY <1>0, <3>1 DEF Covered, Requested
    <3>2. CASE lib' = lib /\ worker[w].at # i
      <4>1. Behind(i) /\ i \in alive \ (held \cup excused)
        BY <1>0, <1>8, <2>3, <3>2 DEF Behind, TypeOK, WorldTyped
      <4> QED
        BY <1>1, <1>3, <3>2, <4>1 DEF Covered
    <3>3. CASE worker[w].at = i
      <4>1. applied'[i] = lib'
        BY <1>0, <1>8, <3>3 DEF TypeOK, WorldTyped
      <4>2. i \in local
        BY <1>0, <2>3, <4>1 DEF Behind
      <4> QED
        BY <1>1, <1>2, <1>8, <3>3, <4>2 DEF Covered
    <3> QED
      BY <1>0, <3>1, <3>2, <3>3
  <2>4. BehindIsCovered'
    BY <2>3 DEF BehindIsCovered
  <2> QED
    BY <1>0, <2>2, <2>4, LoopFollows
<1> QED
  BY <1>5, <1>6, <1>7, <1>8 DEF Apply

LEMMA FollowStep ==
    ASSUME TypeOK, OneWorker, WaiterKept, Library, Following, [Next]_vars
    PROVE  Following'
<1>1. ASSUME NEW w \in Workers, Loop(w)
      PROVE  Following'
  BY <1>1, FollowQueue, FollowRead, FollowWork, FollowApply DEF Loop
<1>2. CASE UNCHANGED vars
  <2>1. UNCHANGED <<queue, worker, client, lib, applied, local, alive, held,
                    excused>>
    BY <1>2 DEF vars, shared, world
  <2> QED
    BY <2>1 DEF Following, BehindIsCovered, RunsLeaveNothing, LeavesNothing,
                Captured, Behind, Covered, Requested, Running
<1> QED
  BY <1>1, <1>2, FollowProceed, FollowTimer, FollowCommand DEF Next

----------------------------------------------------------------------------
(* The theorems.  Library is inductive with TypeOK and OneWorker; Fresh     *)
(* needs it, and who waits for what (WaiterKept); so does Following.        *)

LibraryInv == TypeOK /\ OneWorker /\ WaiterKept /\ Library /\ Fresh /\ Following

LEMMA LibraryInit == Init => LibraryInv
<1> SUFFICES ASSUME Init
             PROVE  LibraryInv
  OBVIOUS
<1> USE DEF Init
<1>1. TypeOK /\ OneWorker /\ WaiterKept
  BY Beginning
<1>2. /\ \A w \in Workers : /\ worker[w].pc = "off" /\ worker[w].pending = {}
                            /\ worker[w].result = "none"
      /\ \A c \in Clients : client[c].pc = "idle" /\ client[c].asked = 0
  BY DEF Off, Idle
<1>3. Library /\ Fresh
  BY <1>2 DEF Library, ViewsInDate, RunInDate, NeverAhead, LocalHasPacks,
              Fresh, FreshRun
<1>4. Following
  BY <1>2 DEF Following, BehindIsCovered, Behind, RunsLeaveNothing,
              LeavesNothing, Captured
<1> QED
  BY <1>1, <1>3, <1>4 DEF LibraryInv

LEMMA LibraryNext == LibraryInv /\ [Next]_vars => LibraryInv'
BY TypeStep, OneWorkerStep, WaiterKeptStep, LibraryStep, FreshStep, FollowStep
DEF LibraryInv

LEMMA LibraryHolds == Spec => []LibraryInv
<1> QED
  BY LibraryInit, LibraryNext, PTL DEF Spec

\* No write of the whole library takes back an edit that was made since the
\* writer read it (storage.rs, write_library).
THEOREM EditsAreKept == Spec => NoLostEdit
<1>1. LibraryInv /\ [Next]_vars => lib' >= lib
  BY LibraryStep DEF LibraryInv
<1> QED
  BY <1>1, LibraryHolds, PTL DEF Spec, NoLostEdit

\* A flush() that is told Ok after a completed run finds its instance at the
\* library it saw, or at a later one, however runs begin, start over and end.
THEOREM AnswersAreFresh == Spec => FreshAnswer
<1>1. LibraryInv /\ [Next]_vars =>
        \A w \in Workers, c \in Clients :
          worker[w].pc = "deliver" /\ worker[w].result = "ok"
          /\ worker'[w].pc = "sleep" /\ Unanswered(c) /\ ~Unanswered(c)'
              => applied[client[c].at] >= client[c].asked
  BY FreshAnswered DEF LibraryInv
<1> QED
  BY <1>1, LibraryHolds, PTL DEF Spec, FreshAnswer

\* When nothing is queued and nobody is at work, every instance follows the
\* library and the library has its changes, but for those exempted.
THEOREM RestsInSync == Spec => []RestIsSynced
<1>1. ASSUME LibraryInv, AtRest, NEW i \in alive \ (held \cup excused)
      PROVE  applied[i] = lib /\ i \notin local
  <2>1. \A w \in Workers : worker[w].pc = "off"
    BY <1>1 DEF AtRest, LibraryInv, OneWorker, Live
  <2>2. ~Covered(i)
    BY <1>1, <2>1 DEF AtRest, Covered, Requested, Running
  <2> QED
    BY <1>1, <2>2 DEF LibraryInv, Following, BehindIsCovered, Behind
<1>2. LibraryInv => RestIsSynced
  BY <1>1 DEF RestIsSynced
<1> QED
  BY <1>2, LibraryHolds, PTL

----------------------------------------------------------------------------
(* Steps of LibraryReplication.                                             *)

Exempt == excused \cup held \cup (Instances \ alive)

LEMMA NextReplicates ==
    ASSUME LibraryInv, [Next]_vars
    PROVE  [Replication!Next]_(Replication!vars)
<1> USE DEF Replication!vars, Replication!Next
<1>0. /\ excused \subseteq Instances /\ held \subseteq Instances
      /\ lib \in Nat /\ applied \in [Instances -> Nat]
      /\ Exempt' \in SUBSET Instances
  <2>1. TypeOK'
    BY TypeStep DEF LibraryInv
  <2> QED
    BY <2>1 DEF LibraryInv, TypeOK, WorldTyped, Exempt
<1>1. CASE UNCHANGED <<lib, applied>>
  BY <1>0, <1>1 DEF Replication!Exempt, Exempt
<1>2. CASE lib' = lib + 1 /\ UNCHANGED <<applied, excused, held, alive>>
  BY <1>2 DEF Replication!Edit
<1>3. ASSUME NEW w \in Workers, Apply(w)
      PROVE  [Replication!Next]_(Replication!vars)
  <2>1. /\ lib' = worker[w].view.lib /\ lib' \in {lib, lib + 1}
        /\ worker[w].at \in Instances /\ UNCHANGED <<held, alive>>
    BY <1>3 DEF Apply, world, LibraryInv, TypeOK, Orderly, Library,
                ViewsInDate, RunInDate, Ahead
  <2>2. CASE UNCHANGED <<applied, excused>>
    BY <1>1, <1>2, <2>1, <2>2
  <2>3. CASE applied' = [applied EXCEPT ![worker[w].at] = worker[w].view.lib]
    <3>1. Replication!Sync(worker[w].at)
      BY <1>0, <2>1, <2>3 DEF Replication!Sync, Exempt
    <3> QED
      BY <2>1, <3>1
  <2> QED
    BY <1>3, <2>2, <2>3 DEF Apply
<1>4. ASSUME NEW c \in Clients, EndCapture(c)
      PROVE  [Replication!Next]_(Replication!vars)
  <2>1. UNCHANGED <<applied, excused, held, alive>>
        /\ (lib' = lib \/ lib' = lib + 1)
    BY <1>4 DEF EndCapture, world, Valid, LibraryInv, Library, ViewsInDate,
                InDate
  <2> QED
    BY <1>1, <1>2, <2>1
<1>5. ASSUME NEW c \in Clients, Edit(c)
      PROVE  [Replication!Next]_(Replication!vars)
  BY <1>2, <1>5 DEF Edit, world
<1>6. CASE UNCHANGED vars
  BY <1>1, <1>6 DEF vars, shared
<1>7. ASSUME NEW w \in Workers, Loop(w), ~Apply(w)
      PROVE  UNCHANGED <<lib, applied>>
  BY <1>7 DEF Loop, Take, List, Pick, Begin, Read, Work, Redo, Defer, Deliver,
              shared
<1>8. ASSUME NEW c \in Clients, Proceed(c), ~EndCapture(c)
      PROVE  UNCHANGED <<lib, applied>>
  BY <1>8 DEF Proceed, Start, Release, Request, Capture, shared
<1>9. CASE Timer
  BY <1>1, <1>9 DEF Timer, TimerStart, Elapse, Wake, shared
<1>10. CASE Command
  BY <1>1, <1>5, <1>10 DEF Command, Flush, Hold, Touch, Delete, shared
<1>11. ASSUME NEW w \in Workers, Loop(w)
       PROVE  [Replication!Next]_(Replication!vars)
  BY <1>1, <1>3, <1>7, <1>11
<1>12. ASSUME NEW c \in Clients, Proceed(c)
       PROVE  [Replication!Next]_(Replication!vars)
  BY <1>1, <1>4, <1>8, <1>12
<1> HIDE DEF Replication!vars, Replication!Next
<1> QED
  BY <1>6, <1>9, <1>10, <1>11, <1>12 DEF Next

\* Every step of the workers and clients is one LibraryReplication allows, or
\* leaves the library and the instances alone: the safety part of
\* ImplementsReplication.
THEOREM InstancesFollowLibrary ==
    Spec => Replication!Init /\ [][Replication!Next]_(Replication!vars)
<1>1. Init => Replication!Init
  BY DEF Init, Replication!Init
<1>2. LibraryInv /\ [Next]_vars => [Replication!Next]_(Replication!vars)
  BY NextReplicates
<1> QED
  BY <1>1, <1>2, LibraryHolds, PTL DEF Spec
=============================================================================
