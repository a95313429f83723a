--------------------------- MODULE SkinQueueProofs ---------------------------
(***************************************************************************)
(* Proofs about SkinQueue, for any accounts, tasks and numbers of changes. *)
(***************************************************************************)
EXTENDS SkinQueueProperties, TLAPS

\* A task spawned for an entry is a task, and so is one that has ended.
LEMMA TimerTyped ==
  ASSUME NEW p \in Profiles, NEW entry \in Entry
  PROVE  Timer(p, entry) \in Task
BY DEF Timer, Task, Filter, Entry, Change

LEMMA FreeTyped == Free \in Task
BY DEF Free, Task, Filter

\* What a step that moves one task does to the others.
LEMMA MoveTyped ==
  ASSUME NEW f \in [Tasks -> Task], NEW g, NEW t \in Tasks, NEW r \in Task,
         g = [f EXCEPT ![t] = r]
  PROVE  /\ g \in [Tasks -> Task]
         /\ g[t] = r
         /\ \A u \in Tasks : u # t => g[u] = f[u]
OBVIOUS

\* The initial state has the shape TypeOK gives.
LEMMA InitTyped == Init => TypeOK
<1>. SUFFICES ASSUME Init PROVE TypeOK
  OBVIOUS
<1>1. \A t \in Tasks : task[t] = Free /\ holder # t
  BY NoneIsNoMember DEF Init
<1>2. Orderly
  BY <1>1 DEF Orderly, Free
<1>. QED
  BY <1>2, FreeTyped DEF TypeOK, Init

\* No step takes a variable out of its shape, or lets a task but the holder of
\* the flush lock look for changes.
LEMMA StepTyped == TypeOK /\ [Next]_vars => TypeOK'
<1>. SUFFICES ASSUME TypeOK, [Next]_vars PROVE TypeOK'
  OBVIOUS
<1>. USE NoneIsNoMember, BoundsAssumption
<1>1. ASSUME NEW p \in Profiles, NEW k \in Keys \cup {None}, Set(p, k)
      PROVE  TypeOK'
  <2>. DEFINE entry == [change |-> [n |-> sets + 1, key |-> k],
                        generation |-> NextGeneration(p)]
  <2>1. entry \in Entry
    BY <1>1 DEF Set, TypeOK, Entry, Change, NextGeneration
  <2>2. PICK t \in Tasks : /\ task[t].pc = "free"
                           /\ task' = [task EXCEPT ![t] = Timer(p, entry)]
    BY <1>1 DEF Set
  <2>3. /\ task' \in [Tasks -> Task]
        /\ task'[t] = Timer(p, entry)
        /\ \A u \in Tasks : u # t => task'[u] = task[u]
    BY <2>1, <2>2, TimerTyped, MoveTyped DEF TypeOK
  <2>4. pending' = [pending EXCEPT ![p] = entry] /\ sets' = sets + 1
        /\ newest' = [newest EXCEPT ![p] = sets + 1]
        /\ UNCHANGED <<holder, failures, applied>>
    BY <1>1 DEF Set
  <2>5. Orderly'
    <3>1. /\ Timer(p, entry).pc = "sleep" /\ Timer(p, entry).profile = None
          /\ Timer(p, entry).entry = None
          /\ Timer(p, entry).filter.kind = "generation"
      BY DEF Timer
    <3>2. ASSUME NEW u \in Tasks, u # t, task[u].pc = "send"
          PROVE  task[u].entry.change.n <= sets'
      <4>1. task[u].entry \in Entry /\ task[u].entry.change.n <= sets
        BY <3>2 DEF TypeOK, Orderly, Task
      <4>. QED
        BY <2>4, <4>1 DEF Entry, Change, TypeOK
    <3>. QED
      BY <2>2, <2>3, <2>4, <3>1, <3>2 DEF Orderly, TypeOK
  <2>6. pending' \in [Profiles -> Entry \cup {None}]
    BY <2>1, <2>4 DEF TypeOK
  <2>7. \A q \in Profiles : pending'[q] # None =>
           pending'[q].change.n <= sets'
    BY <2>1, <2>4 DEF TypeOK, Entry, Change
  <2>. QED
    BY <2>3, <2>4, <2>5, <2>6, <2>7 DEF TypeOK
<1>2. ASSUME NEW p \in Profiles, NEW k \in Keys, Cancel(p, k)
      PROVE  TypeOK'
  BY <1>2 DEF Cancel, TypeOK, Orderly
<1>3. ASSUME NEW t \in Tasks, NEW filter \in Calls, Flush(t, filter)
      PROVE  TypeOK'
  <2>. DEFINE owed == LET P == IF filter.kind = "all" THEN Profiles
                               ELSE {filter.profile}
                      IN UNION ({Pending(p) : p \in P} \cup
                                {Sending(u) : u \in {v \in Tasks :
                                                 task[v].profile \in P}})
              r == [Free EXCEPT !.pc = "lock", !.filter = filter,
                                !.owed = owed]
  <2>1. filter \in Filter
    BY DEF Calls, Filter
  <2>2. \A p \in Profiles : Pending(p) \subseteq Change
    BY DEF Pending, TypeOK, Entry
  <2>3. \A u \in Tasks : Sending(u) \subseteq Change
    BY DEF Sending, TypeOK, Orderly, Task, Entry
  <2>4. (IF filter.kind = "all" THEN Profiles ELSE {filter.profile})
          \subseteq Profiles
    BY DEF Calls
  <2>5. owed \subseteq Change
    BY <2>2, <2>3, <2>4
  <2>6. r \in Task
    BY <2>1, <2>5 DEF Free, Task
  <2>7. /\ task[t].pc = "free" /\ task' = [task EXCEPT ![t] = r]
        /\ UNCHANGED <<pending, holder, sets, failures, newest, applied>>
    BY <1>3 DEF Flush
  <2>8. /\ task' \in [Tasks -> Task] /\ task'[t] = r
        /\ \A u \in Tasks : u # t => task'[u] = task[u]
    BY <2>6, <2>7, MoveTyped DEF TypeOK
  <2>9. r.pc = "lock" /\ r.profile = None /\ r.entry = None
    BY DEF Free
  <2>. QED
    BY <2>7, <2>8, <2>9 DEF TypeOK, Orderly
<1>4. ASSUME NEW t \in Tasks, Wake(t) PROVE TypeOK'
  <2>1. /\ task' \in [Tasks -> Task]
        /\ task'[t] = [task[t] EXCEPT !.pc = "lock"]
        /\ \A u \in Tasks : u # t => task'[u] = task[u]
    BY <1>4 DEF Wake, TypeOK, Task
  <2>. QED
    BY <1>4, <2>1 DEF Wake, TypeOK, Orderly, Task
<1>5. ASSUME NEW t \in Tasks, Lock(t) PROVE TypeOK'
  <2>1. /\ task' \in [Tasks -> Task]
        /\ task'[t] = [task[t] EXCEPT !.pc = "scan"]
        /\ \A u \in Tasks : u # t => task'[u] = task[u]
    BY <1>5 DEF Lock, TypeOK, Task
  <2>. QED
    BY <1>5, <2>1 DEF Lock, TypeOK, Orderly, Task
<1>6. ASSUME NEW t \in Tasks, Take(t) PROVE TypeOK'
  <2>1. PICK p \in Profiles :
          /\ Matches(task[t].filter, p)
          /\ task' = [task EXCEPT ![t].pc = "send", ![t].profile = p,
                                  ![t].entry = pending[p]]
          /\ pending' = [pending EXCEPT ![p] = None]
    BY <1>6 DEF Take
  <2>2. pending[p] \in Entry /\ pending[p].change.n <= sets
    BY <2>1 DEF Matches, TypeOK
  <2>. DEFINE r == [task[t] EXCEPT !.pc = "send", !.profile = p,
                                   !.entry = pending[p]]
  <2>a. r \in Task
    BY <2>2 DEF TypeOK, Task
  <2>b. task' = [task EXCEPT ![t] = r]
    BY <2>1 DEF TypeOK
  <2>3. /\ task' \in [Tasks -> Task] /\ task'[t] = r
        /\ \A u \in Tasks : u # t => task'[u] = task[u]
    BY <2>a, <2>b, MoveTyped DEF TypeOK
  <2>4. /\ task'[t].pc = "send" /\ task'[t].profile = p
        /\ task'[t].entry = pending[p] /\ task[t].pc = "scan"
    BY <1>6, <2>3 DEF TypeOK, Task, Take
  <2>5. UNCHANGED <<holder, sets, failures, newest, applied>>
    BY <1>6 DEF Take
  <2>6. Orderly'
    BY <2>1, <2>2, <2>3, <2>4, <2>5 DEF TypeOK, Orderly, Matches
  <2>. QED
    BY <2>1, <2>3, <2>5, <2>6 DEF TypeOK
<1>7. ASSUME NEW t \in Tasks, Settled(t) PROVE TypeOK'
  <2>1. /\ task' \in [Tasks -> Task] /\ task'[t] = Free
        /\ \A u \in Tasks : u # t => task'[u] = task[u]
    BY <1>7, FreeTyped, MoveTyped DEF Settled, TypeOK
  <2>2. Free.pc = "free" /\ Free.profile = None /\ Free.entry = None
    BY DEF Free
  <2>. QED
    BY <1>7, <2>1, <2>2 DEF Settled, TypeOK, Orderly
<1>8. ASSUME NEW t \in Tasks, Applied(t) PROVE TypeOK'
  <2>1. /\ task[t].pc = "send" /\ task[t].profile \in Profiles
        /\ task[t].entry \in Entry
    BY <1>8 DEF Applied, TypeOK, Orderly, Task
  <2>2. task[t].entry.change.n \in Nat
    BY <2>1 DEF Entry, Change
  <2>3. newest' \in [Profiles -> Nat] /\ applied' \in [Profiles -> Nat]
    BY <1>8, <2>1, <2>2 DEF Applied, TypeOK
  <2>4. UNCHANGED <<pending, sets, failures>>
    BY <1>8 DEF Applied
  <2>5. CASE task[t].filter.kind = "all"
    <3>. DEFINE r == [task[t] EXCEPT !.pc = "scan", !.profile = None,
                                     !.entry = None]
    <3>a. r \in Task
      BY DEF TypeOK, Task
    <3>b. task' = [task EXCEPT ![t] = r] /\ holder' = holder
      BY <1>8, <2>5 DEF Applied, TypeOK
    <3>1. /\ task' \in [Tasks -> Task] /\ task'[t] = r
          /\ \A u \in Tasks : u # t => task'[u] = task[u]
          /\ holder' = holder
      BY <3>a, <3>b, MoveTyped DEF TypeOK
    <3>2. /\ task'[t].pc = "scan" /\ task'[t].profile = None
          /\ task'[t].entry = None
      BY <3>1 DEF TypeOK, Task
    <3>. HIDE DEF r
    <3>. QED
      BY <2>1, <2>3, <2>4, <3>1, <3>2 DEF TypeOK, Orderly
  <2>6. CASE task[t].filter.kind # "all"
    <3>1. /\ task' \in [Tasks -> Task] /\ task'[t] = Free
          /\ \A u \in Tasks : u # t => task'[u] = task[u]
          /\ holder' = None
      BY <1>8, <2>6, FreeTyped, MoveTyped DEF Applied, TypeOK
    <3>2. Free.pc = "free" /\ Free.profile = None /\ Free.entry = None
      BY DEF Free
    <3>. QED
      BY <2>1, <2>3, <2>4, <3>1, <3>2 DEF TypeOK, Orderly
  <2>. QED
    BY <2>5, <2>6
<1>9. ASSUME NEW t \in Tasks, Failed(t) PROVE TypeOK'
  <2>. DEFINE p == task[t].profile
              e == task[t].entry
  <2>1. /\ task[t].pc = "send" /\ p \in Profiles /\ e \in Entry
        /\ e.change.n <= sets
    BY <1>9 DEF Failed, TypeOK, Orderly, Task
  <2>2. /\ task' \in [Tasks -> Task] /\ task'[t] = Timer(p, e)
        /\ \A u \in Tasks : u # t => task'[u] = task[u]
    BY <1>9, <2>1, TimerTyped, MoveTyped DEF Failed, TypeOK
  <2>3. /\ pending' \in [Profiles -> Entry \cup {None}]
        /\ \A q \in Profiles : pending'[q] # None =>
              pending'[q].change.n <= sets
    BY <1>9, <2>1 DEF Failed, TypeOK
  <2>4. /\ holder' = None /\ failures' = failures + 1
        /\ UNCHANGED <<sets, newest, applied>>
    BY <1>9 DEF Failed
  <2>5. /\ Timer(p, e).pc = "sleep" /\ Timer(p, e).profile = None
        /\ Timer(p, e).entry = None
        /\ Timer(p, e).filter.kind = "generation"
    BY DEF Timer
  <2>6. Orderly'
    BY <2>1, <2>2, <2>4, <2>5 DEF TypeOK, Orderly
  <2>. QED
    BY <2>2, <2>3, <2>4, <2>6 DEF TypeOK
<1>10. CASE UNCHANGED vars
  BY <1>10 DEF TypeOK, Orderly, vars
<1>. QED
  BY <1>1, <1>2, <1>3, <1>4, <1>5, <1>6, <1>7, <1>8, <1>9, <1>10 DEF Next

\* Every variable keeps its shape, and whoever looks for a pending change or
\* sends one holds the flush lock.
THEOREM TypeCorrect == Spec => []TypeOK
BY InitTyped, StepTyped, PTL DEF Spec

-----------------------------------------------------------------------------
(* Timers.                                                                 *)

\* No step leaves a pending change without the timer that will take it.
LEMMA StepTimed == TypeOK /\ PendingIsTimed /\ [Next]_vars => PendingIsTimed'
<1>. SUFFICES ASSUME TypeOK, PendingIsTimed, [Next]_vars,
                     NEW q \in Profiles, pending'[q] # None
              PROVE  \E u \in Tasks : TimedBy(u, q)'
  BY DEF PendingIsTimed
\* A timer that nobody moves, for an entry that stays.
<1>a. ASSUME NEW u \in Tasks, TimedBy(u, q), pending'[q] = pending[q],
             task'[u].pc \in {"sleep", "lock", "scan"},
             task'[u].filter = task[u].filter
      PROVE  TimedBy(u, q)'
  BY <1>a DEF TimedBy
<1>b. pending[q] # None => \E u \in Tasks : TimedBy(u, q)
  BY DEF PendingIsTimed
<1>1. ASSUME NEW p \in Profiles, NEW k \in Keys \cup {None}, Set(p, k)
      PROVE  \E u \in Tasks : TimedBy(u, q)'
  <2>. DEFINE entry == [change |-> [n |-> sets + 1, key |-> k],
                        generation |-> NextGeneration(p)]
  <2>1. PICK t \in Tasks : /\ task[t].pc = "free"
                           /\ task' = [task EXCEPT ![t] = Timer(p, entry)]
    BY <1>1 DEF Set
  <2>2. pending' = [pending EXCEPT ![p] = entry]
    BY <1>1 DEF Set
  <2>3. CASE q = p
    <3>1. task'[t] = Timer(p, entry) /\ pending'[q] = entry
      BY <2>1, <2>2, <2>3 DEF TypeOK
    <3>. QED
      BY <3>1, <2>3 DEF TimedBy, Timer
  <2>4. CASE q # p
    <3>1. PICK u \in Tasks : TimedBy(u, q)
      BY <2>2, <2>4, <1>b DEF TypeOK
    <3>2. u # t /\ task'[u] = task[u]
      BY <2>1, <3>1 DEF TimedBy, TypeOK
    <3>. QED
      BY <1>a, <2>2, <2>4, <3>1, <3>2 DEF TypeOK, TimedBy
  <2>. QED
    BY <2>3, <2>4
<1>2. ASSUME NEW p \in Profiles, NEW k \in Keys, Cancel(p, k)
      PROVE  \E u \in Tasks : TimedBy(u, q)'
  BY <1>2, <1>a, <1>b DEF Cancel, TypeOK, TimedBy
<1>3. ASSUME NEW t \in Tasks, NEW filter \in Calls, Flush(t, filter)
      PROVE  \E u \in Tasks : TimedBy(u, q)'
  <2>1. PICK u \in Tasks : TimedBy(u, q)
    BY <1>3, <1>b DEF Flush
  <2>2. u # t /\ task'[u] = task[u]
    BY <1>3, <2>1 DEF Flush, TimedBy, TypeOK
  <2>. QED
    BY <1>3, <1>a, <2>1, <2>2 DEF Flush, TimedBy
<1>4. ASSUME NEW t \in Tasks, Wake(t) \/ Lock(t)
      PROVE  \E u \in Tasks : TimedBy(u, q)'
  <2>1. PICK u \in Tasks : TimedBy(u, q)
    BY <1>4, <1>b DEF Wake, Lock
  <2>2. /\ task'[u].pc \in {"sleep", "lock", "scan"}
        /\ task'[u].filter = task[u].filter
    BY <1>4, <2>1 DEF Wake, Lock, TimedBy, TypeOK, Task
  <2>. QED
    BY <1>4, <1>a, <2>1, <2>2 DEF Wake, Lock
<1>5. ASSUME NEW t \in Tasks, Take(t)
      PROVE  \E u \in Tasks : TimedBy(u, q)'
  <2>1. PICK p \in Profiles :
          /\ Matches(task[t].filter, p)
          /\ task' = [task EXCEPT ![t].pc = "send", ![t].profile = p,
                                  ![t].entry = pending[p]]
          /\ pending' = [pending EXCEPT ![p] = None]
    BY <1>5 DEF Take
  <2>2. q # p /\ pending'[q] = pending[q]
    BY <2>1 DEF TypeOK
  <2>3. PICK u \in Tasks : TimedBy(u, q)
    BY <2>2, <1>b
  <2>4. u # t
    BY <2>1, <2>2, <2>3 DEF TimedBy, Matches
  <2>5. task'[u] = task[u]
    BY <2>1, <2>4 DEF TypeOK
  <2>. QED
    BY <1>a, <2>2, <2>3, <2>5 DEF TimedBy
<1>6. ASSUME NEW t \in Tasks, Settled(t)
      PROVE  \E u \in Tasks : TimedBy(u, q)'
  <2>1. PICK u \in Tasks : TimedBy(u, q)
    BY <1>6, <1>b DEF Settled
  <2>2. u # t
    BY <1>6, <2>1 DEF Settled, TimedBy, Matches
  <2>3. task'[u] = task[u]
    BY <1>6, <2>2 DEF Settled, TypeOK
  <2>. QED
    BY <1>6, <1>a, <2>1, <2>3 DEF Settled, TimedBy
<1>7. ASSUME NEW t \in Tasks, Applied(t)
      PROVE  \E u \in Tasks : TimedBy(u, q)'
  <2>1. PICK u \in Tasks : TimedBy(u, q)
    BY <1>7, <1>b DEF Applied
  <2>2. u # t
    BY <1>7, <2>1 DEF Applied, TimedBy
  <2>3. task'[u] = task[u]
    BY <1>7, <2>2 DEF Applied, TypeOK
  <2>. QED
    BY <1>7, <1>a, <2>1, <2>3 DEF Applied, TimedBy
<1>8. ASSUME NEW t \in Tasks, Failed(t)
      PROVE  \E u \in Tasks : TimedBy(u, q)'
  <2>. DEFINE p == task[t].profile
              e == task[t].entry
  <2>1. task'[t] = Timer(p, e) /\ \A u \in Tasks : u # t => task'[u] = task[u]
    BY <1>8 DEF Failed, TypeOK
  <2>2. CASE q = p /\ pending[q] = None
    <3>1. pending'[q] = e
      BY <1>8, <2>2 DEF Failed, TypeOK
    <3>. QED
      BY <2>1, <2>2, <3>1 DEF TimedBy, Timer
  <2>3. CASE ~(q = p /\ pending[q] = None)
    <3>1. pending'[q] = pending[q]
      BY <1>8, <2>3 DEF Failed, TypeOK
    <3>2. PICK u \in Tasks : TimedBy(u, q)
      BY <3>1, <1>b
    <3>3. u # t
      BY <1>8, <3>2 DEF Failed, TimedBy
    <3>. QED
      BY <1>a, <2>1, <3>1, <3>2, <3>3 DEF TimedBy
  <2>. QED
    BY <2>2, <2>3
<1>9. CASE UNCHANGED vars
  BY <1>9, <1>b DEF TimedBy, vars
<1>. QED
  BY <1>1, <1>2, <1>3, <1>4, <1>5, <1>6, <1>7, <1>8, <1>9 DEF Next

\* Every pending change has a timer that matches its generation.
THEOREM PendingStaysTimed == Spec => []PendingIsTimed
<1>1. Init => PendingIsTimed
  BY DEF Init, PendingIsTimed
<1>. QED
  BY <1>1, StepTimed, TypeCorrect, PTL DEF Spec

-----------------------------------------------------------------------------
(* What each step does to the accounts' changes, with the tasks left out.  *)

Rest == UNCHANGED <<sets, newest, applied>>

SetEffect(p, e) ==
    /\ e.change.n = sets + 1
    /\ pending' = [pending EXCEPT ![p] = e]
    /\ sets' = sets + 1
    /\ newest' = [newest EXCEPT ![p] = sets + 1]
    /\ applied' = applied
    /\ \A q \in Profiles : InFlight(q)' = InFlight(q)

CancelEffect(p, k) ==
    /\ pending[p] # None /\ pending[p].change.key = k
    /\ pending' = [pending EXCEPT ![p] = None]
    /\ newest' = [newest EXCEPT ![p] = 0]
    /\ UNCHANGED <<sets, applied>>
    /\ \A q \in Profiles : InFlight(q)' = InFlight(q)

NoEffect ==
    /\ pending' = pending
    /\ Rest
    /\ \A q \in Profiles : InFlight(q)' = InFlight(q)

TakeEffect(p) ==
    /\ pending[p] # None
    /\ pending' = [pending EXCEPT ![p] = None]
    /\ Rest
    /\ \A q \in Profiles :
         /\ InFlight(q) = {}
         /\ InFlight(q)' = IF q = p THEN {pending[p].change} ELSE {}

AppliedEffect(p, c) ==
    /\ pending' = pending /\ sets' = sets
    /\ applied' = [applied EXCEPT ![p] = c.n]
    /\ newest' = IF newest[p] = c.n THEN [newest EXCEPT ![p] = 0] ELSE newest
    /\ \A q \in Profiles : InFlight(q) = IF q = p THEN {c} ELSE {}
    /\ \A q \in Profiles : InFlight(q)' = {}

FailedEffect(p, e) ==
    /\ pending' = IF pending[p] = None THEN [pending EXCEPT ![p] = e]
                  ELSE pending
    /\ Rest
    /\ \A q \in Profiles : InFlight(q) = IF q = p THEN {e.change} ELSE {}
    /\ \A q \in Profiles : InFlight(q)' = {}

Effect ==
    \/ \E p \in Profiles, e \in Entry : SetEffect(p, e)
    \/ \E p \in Profiles, k \in Keys : CancelEffect(p, k)
    \/ NoEffect
    \/ \E p \in Profiles : TakeEffect(p)
    \/ \E p \in Profiles, c \in Change : AppliedEffect(p, c)
    \/ \E p \in Profiles, e \in Entry : FailedEffect(p, e)

\* Only the holder of the lock may have a change in flight.
LEMMA FlightOfHolder ==
  ASSUME TypeOK, NEW t \in Tasks, holder = t, NEW q \in Profiles
  PROVE  InFlight(q) = IF task[t].pc = "send" /\ task[t].profile = q
                       THEN {task[t].entry.change} ELSE {}
BY DEF InFlight, TypeOK, Orderly

\* A step that moves no task into or out of "send" leaves what is in flight.
LEMMA FlightStays ==
  ASSUME TypeOK, NEW t \in Tasks, task[t].pc # "send", task'[t].pc # "send",
         \A u \in Tasks : u # t => task'[u] = task[u], NEW q \in Profiles
  PROVE  InFlight(q)' = InFlight(q)
<1>1. {u \in Tasks : task'[u].pc = "send" /\ task'[u].profile = q}
        = {u \in Tasks : task[u].pc = "send" /\ task[u].profile = q}
  OBVIOUS
<1>2. \A u \in {u \in Tasks : task[u].pc = "send" /\ task[u].profile = q} :
         task'[u] = task[u]
  OBVIOUS
<1>. QED
  BY <1>1, <1>2 DEF InFlight

\* Every step has one of these effects.
LEMMA StepEffect == TypeOK /\ [Next]_vars => Effect
<1>. SUFFICES ASSUME TypeOK, [Next]_vars PROVE Effect
  OBVIOUS
<1>a. TypeOK'
  BY StepTyped
<1>1. ASSUME NEW p \in Profiles, NEW k \in Keys \cup {None}, Set(p, k)
      PROVE  Effect
  <2>. DEFINE e == [change |-> [n |-> sets + 1, key |-> k],
                    generation |-> NextGeneration(p)]
  <2>1. e \in Entry
    BY <1>1, BoundsAssumption
    DEF Set, TypeOK, Entry, Change, NextGeneration
  <2>2. PICK t \in Tasks : /\ task[t].pc = "free"
                           /\ task' = [task EXCEPT ![t] = Timer(p, e)]
    BY <1>1 DEF Set
  <2>3. task'[t].pc = "sleep" /\ \A u \in Tasks : u # t => task'[u] = task[u]
    BY <2>2 DEF TypeOK, Timer
  <2>4. \A q \in Profiles : InFlight(q)' = InFlight(q)
    BY <2>2, <2>3, FlightStays
  <2>. QED
    BY <1>1, <2>1, <2>4 DEF Set, SetEffect, Effect
<1>2. ASSUME NEW p \in Profiles, NEW k \in Keys, Cancel(p, k)
      PROVE  Effect
  <2>1. \A q \in Profiles : InFlight(q)' = InFlight(q)
    BY <1>2 DEF Cancel, InFlight
  <2>. QED
    BY <1>2, <2>1 DEF Cancel, CancelEffect, Effect
<1>3. ASSUME NEW t \in Tasks, task[t].pc # "send", task'[t].pc # "send",
             \A u \in Tasks : u # t => task'[u] = task[u],
             UNCHANGED <<pending, sets, newest, applied>>
      PROVE  Effect
  BY <1>3, FlightStays DEF NoEffect, Rest, Effect
<1>4. ASSUME NEW t \in Tasks, NEW filter \in Calls, Flush(t, filter)
      PROVE  Effect
  BY <1>3, <1>4 DEF Flush, TypeOK, Free
<1>5. ASSUME NEW t \in Tasks, Wake(t) \/ Lock(t) \/ Settled(t) PROVE Effect
  BY <1>3, <1>5 DEF Wake, Lock, Settled, TypeOK, Task, Free
<1>6. ASSUME NEW t \in Tasks, Take(t) PROVE Effect
  <2>1. PICK p \in Profiles :
          /\ Matches(task[t].filter, p)
          /\ task' = [task EXCEPT ![t].pc = "send", ![t].profile = p,
                                  ![t].entry = pending[p]]
          /\ pending' = [pending EXCEPT ![p] = None]
    BY <1>6 DEF Take
  <2>2. /\ holder = t /\ holder' = t /\ task[t].pc = "scan"
        /\ task'[t].pc = "send" /\ task'[t].profile = p
        /\ task'[t].entry = pending[p] /\ pending[p] # None
    BY <1>6, <2>1 DEF Take, TypeOK, Orderly, Task, Matches
  <2>3. \A q \in Profiles : InFlight(q) = {}
    BY <2>2, FlightOfHolder
  <2>4. \A q \in Profiles :
           InFlight(q)' = IF q = p THEN {pending[p].change} ELSE {}
    BY <1>a, <2>2 DEF InFlight, TypeOK, Orderly
  <2>5. TakeEffect(p)
    BY <1>6, <2>1, <2>2, <2>3, <2>4 DEF Take, TakeEffect, Rest
  <2>. QED
    BY <2>5 DEF Effect
<1>7. ASSUME NEW t \in Tasks, Applied(t) PROVE Effect
  <2>. DEFINE p == task[t].profile
              c == task[t].entry.change
  <2>1. /\ holder = t /\ task[t].pc = "send" /\ p \in Profiles
        /\ c \in Change
    BY <1>7 DEF Applied, TypeOK, Orderly, Task, Entry
  <2>2. \A q \in Profiles : InFlight(q) = IF q = p THEN {c} ELSE {}
    BY <2>1, FlightOfHolder
  <2>3. \A u \in Tasks : task'[u].pc # "send"
    BY <1>7, <2>1 DEF Applied, TypeOK, Orderly, Task, Free
  <2>4. \A q \in Profiles : InFlight(q)' = {}
    BY <2>3 DEF InFlight
  <2>a. /\ pending' = pending /\ sets' = sets
        /\ applied' = [applied EXCEPT ![p] = c.n]
        /\ newest' = IF newest[p] = c.n THEN [newest EXCEPT ![p] = 0]
                     ELSE newest
    BY <1>7 DEF Applied
  <2>. HIDE DEF p, c
  <2>5. AppliedEffect(p, c)
    BY <2>a, <2>2, <2>4 DEF AppliedEffect
  <2>. QED
    BY <2>1, <2>5 DEF Effect
<1>8. ASSUME NEW t \in Tasks, Failed(t) PROVE Effect
  <2>. DEFINE p == task[t].profile
              e == task[t].entry
  <2>1. /\ holder = t /\ task[t].pc = "send" /\ p \in Profiles
        /\ e \in Entry
    BY <1>8 DEF Failed, TypeOK, Orderly, Task
  <2>2. \A q \in Profiles : InFlight(q) = IF q = p THEN {e.change} ELSE {}
    BY <2>1, FlightOfHolder
  <2>3. \A u \in Tasks : task'[u].pc # "send"
    BY <1>8, <2>1 DEF Failed, TypeOK, Orderly, Timer
  <2>4. \A q \in Profiles : InFlight(q)' = {}
    BY <2>3 DEF InFlight
  <2>a. /\ pending' = IF pending[p] = None THEN [pending EXCEPT ![p] = e]
                      ELSE pending
        /\ UNCHANGED <<sets, newest, applied>>
    BY <1>8 DEF Failed
  <2>. HIDE DEF p, e
  <2>5. FailedEffect(p, e)
    BY <2>a, <2>2, <2>4 DEF FailedEffect, Rest
  <2>. QED
    BY <2>1, <2>5 DEF Effect
<1>9. CASE UNCHANGED vars
  BY <1>9 DEF NoEffect, Rest, Effect, InFlight, vars
<1>. QED
  BY <1>1, <1>2, <1>4, <1>5, <1>6, <1>7, <1>8, <1>9 DEF Next

-----------------------------------------------------------------------------
(* Nothing is lost, and nothing is applied out of order.                   *)

\* The numbers of an account's changes, from the applied one on.
Ordered ==
    \A p \in Profiles :
      /\ applied[p] <= sets
      /\ pending[p] # None => /\ pending[p].change.n > applied[p]
                              /\ pending[p].change.n <= sets
      /\ \A c \in InFlight(p) :
           /\ c.n > applied[p] /\ c.n <= sets
           /\ pending[p] # None => pending[p].change.n > c.n

\* What is in flight are changes.
LEMMA FlightTyped == TypeOK => \A p \in Profiles : InFlight(p) \subseteq Change
BY DEF InFlight, TypeOK, Orderly, Task, Entry

\* An effect keeps the numbers in order.
LEMMA EffectOrdered ==
  ASSUME TypeOK, TypeOK', Ordered, Effect, NEW q \in Profiles
  PROVE  /\ applied'[q] <= sets'
         /\ pending'[q] # None => /\ pending'[q].change.n > applied'[q]
                                  /\ pending'[q].change.n <= sets'
         /\ \A c \in InFlight(q)' :
              /\ c.n > applied'[q] /\ c.n <= sets'
              /\ pending'[q] # None => pending'[q].change.n > c.n
         /\ applied'[q] >= applied[q]
<1>. DEFINE Goal == /\ applied'[q] <= sets'
                    /\ pending'[q] # None =>
                         /\ pending'[q].change.n > applied'[q]
                         /\ pending'[q].change.n <= sets'
                    /\ \A c \in InFlight(q)' :
                         /\ c.n > applied'[q] /\ c.n <= sets'
                         /\ pending'[q] # None => pending'[q].change.n > c.n
                    /\ applied'[q] >= applied[q]
<1>a. /\ sets \in Nat /\ applied[q] \in Nat
      /\ applied[q] <= sets
      /\ \A c \in InFlight(q) : c.n \in Nat
      /\ pending[q] # None => pending[q].change.n \in Nat
  BY FlightTyped DEF TypeOK, Ordered, Entry, Change
<1>b. /\ pending[q] # None => /\ pending[q].change.n > applied[q]
                              /\ pending[q].change.n <= sets
      /\ \A c \in InFlight(q) :
           /\ c.n > applied[q] /\ c.n <= sets
           /\ pending[q] # None => pending[q].change.n > c.n
  BY DEF Ordered
<1>1. ASSUME NEW p \in Profiles, NEW e \in Entry, SetEffect(p, e) PROVE Goal
  BY <1>1, <1>a, <1>b DEF SetEffect, TypeOK
<1>2. ASSUME NEW p \in Profiles, NEW k \in Keys, CancelEffect(p, k) PROVE Goal
  BY <1>2, <1>a, <1>b DEF CancelEffect, TypeOK
<1>3. ASSUME NoEffect PROVE Goal
  BY <1>3, <1>a, <1>b DEF NoEffect, Rest
<1>4. ASSUME NEW p \in Profiles, TakeEffect(p) PROVE Goal
  BY <1>4, <1>a, <1>b DEF TakeEffect, Rest, TypeOK
<1>5. ASSUME NEW p \in Profiles, NEW c \in Change, AppliedEffect(p, c)
      PROVE  Goal
  BY <1>5, <1>a, <1>b DEF AppliedEffect, TypeOK
<1>6. ASSUME NEW p \in Profiles, NEW e \in Entry, FailedEffect(p, e)
      PROVE  Goal
  <2>1. /\ Rest /\ InFlight(q)' = {}
        /\ InFlight(q) = IF q = p THEN {e.change} ELSE {}
    BY <1>6 DEF FailedEffect
  <2>2. CASE q = p /\ pending[p] = None
    <3>1. pending'[q] = e /\ e # None
      BY <1>6, <2>2, NoneIsNoChange DEF FailedEffect, TypeOK
    <3>2. e.change \in InFlight(q)
      BY <2>1, <2>2
    <3>. QED
      BY <1>a, <1>b, <2>1, <2>2, <3>1, <3>2 DEF Rest
  <2>3. CASE ~(q = p /\ pending[p] = None)
    <3>1. pending'[q] = pending[q]
      BY <1>6, <2>3 DEF FailedEffect, TypeOK
    <3>. QED
      BY <1>a, <1>b, <2>1, <2>3, <3>1 DEF Rest
  <2>. QED
    BY <2>2, <2>3
<1>. HIDE DEF Goal
<1>7. Goal
  BY <1>1, <1>2, <1>3, <1>4, <1>5, <1>6 DEF Effect
<1>. QED
  BY <1>7 DEF Goal

LEMMA OrderKept == Spec => []Ordered
<1>1. Init => Ordered
  <2>. SUFFICES ASSUME Init PROVE Ordered
    OBVIOUS
  <2>1. \A p \in Profiles : InFlight(p) = {}
    BY DEF Init, InFlight, Free
  <2>. QED
    BY <2>1 DEF Init, Ordered
<1>2. TypeOK /\ Ordered /\ [Next]_vars => Ordered'
  <2>. SUFFICES ASSUME TypeOK, Ordered, [Next]_vars PROVE Ordered'
    OBVIOUS
  <2>1. TypeOK' /\ Effect
    BY StepTyped, StepEffect
  <2>. QED
    BY <2>1, EffectOrdered DEF Ordered
<1>. QED
  BY <1>1, <1>2, TypeCorrect, PTL DEF Spec

\* No account ever goes back to an older change: the lock keeps one change in
\* flight, and what is pending is always newer than it.
THEOREM ChangesApplyInOrder == Spec => AppliedInOrder
<1>1. TypeOK /\ Ordered /\ [Next]_vars
        => [\A p \in Profiles : applied'[p] >= applied[p]]_vars
  <2>. SUFFICES ASSUME TypeOK, Ordered, [Next]_vars, NEW p \in Profiles
                PROVE  applied'[p] >= applied[p]
    OBVIOUS
  <2>1. TypeOK' /\ Effect
    BY StepTyped, StepEffect
  <2>. QED
    BY <2>1, EffectOrdered
<1>. QED
  BY <1>1, TypeCorrect, OrderKept, PTL DEF Spec, AppliedInOrder

\* No effect loses an account's newest change.
LEMMA StepNewest == TypeOK /\ NewestKept /\ Effect => NewestKept'
<1>. SUFFICES ASSUME TypeOK, NewestKept, Effect,
                     NEW q \in Profiles, newest'[q] # 0
              PROVE  IF pending'[q] # None
                     THEN pending'[q].change.n = newest'[q]
                     ELSE \E c \in InFlight(q)' : c.n = newest'[q]
  BY DEF NewestKept
<1>. DEFINE Goal == IF pending'[q] # None
                    THEN pending'[q].change.n = newest'[q]
                    ELSE \E c \in InFlight(q)' : c.n = newest'[q]
<1>a. newest[q] # 0 => IF pending[q] # None
                       THEN pending[q].change.n = newest[q]
                       ELSE \E c \in InFlight(q) : c.n = newest[q]
  BY DEF NewestKept
<1>b. None \notin Entry
  BY NoneIsNoChange
<1>1. ASSUME NEW p \in Profiles, NEW e \in Entry, SetEffect(p, e) PROVE Goal
  BY <1>1, <1>a, <1>b DEF SetEffect, TypeOK
<1>2. ASSUME NEW p \in Profiles, NEW k \in Keys, CancelEffect(p, k) PROVE Goal
  BY <1>2, <1>a DEF CancelEffect, TypeOK
<1>3. ASSUME NoEffect PROVE Goal
  BY <1>3, <1>a DEF NoEffect, Rest
<1>4. ASSUME NEW p \in Profiles, TakeEffect(p) PROVE Goal
  BY <1>4, <1>a DEF TakeEffect, Rest, TypeOK
<1>5. ASSUME NEW p \in Profiles, NEW c \in Change, AppliedEffect(p, c)
      PROVE  Goal
  BY <1>5, <1>a DEF AppliedEffect, TypeOK
<1>6. ASSUME NEW p \in Profiles, NEW e \in Entry, FailedEffect(p, e)
      PROVE  Goal
  <2>1. /\ Rest /\ InFlight(q)' = {}
        /\ InFlight(q) = IF q = p THEN {e.change} ELSE {}
    BY <1>6 DEF FailedEffect
  <2>2. CASE q = p /\ pending[p] = None
    <3>1. pending'[q] = e /\ e # None
      BY <1>6, <2>2, NoneIsNoChange DEF FailedEffect, TypeOK
    <3>2. e.change \in InFlight(q)
      BY <2>1, <2>2
    <3>. QED
      BY <1>a, <1>b, <2>1, <2>2, <3>1, <3>2 DEF Rest
  <2>3. CASE ~(q = p /\ pending[p] = None)
    <3>1. pending'[q] = pending[q]
      BY <1>6, <2>3 DEF FailedEffect, TypeOK
    <3>. QED
      BY <1>a, <1>b, <2>1, <2>3, <3>1 DEF Rest
  <2>. QED
    BY <2>2, <2>3
<1>. HIDE DEF Goal
<1>7. Goal
  BY <1>1, <1>2, <1>3, <1>4, <1>5, <1>6 DEF Effect
<1>. QED
  BY <1>7 DEF Goal

\* The newest change of an account stays pending or in flight until it is
\* applied or canceled.
THEOREM NewestIsKept == Spec => []NewestKept
<1>1. Init => NewestKept
  BY DEF Init, NewestKept
<1>. QED
  BY <1>1, StepNewest, StepEffect, TypeCorrect, PTL DEF Spec

-----------------------------------------------------------------------------
(* Refinement.                                                             *)

SlotOf(p) == IF pending[p] = None THEN None ELSE pending[p].change

RunningOf(p) == IF InFlight(p) = {} THEN None
                ELSE CHOOSE c \in InFlight(p) : TRUE

\* What an effect is to one account: a step of its slot, or none.
LEMMA EffectOnSlot ==
  ASSUME TypeOK, TypeOK', Effect, NEW q \in Profiles
  PROVE  \/ \E c \in Change : SlotOf(q)' = c /\ RunningOf(q)' = RunningOf(q)
         \/ \E k \in Keys : /\ SlotOf(q) # None /\ SlotOf(q).key = k
                            /\ SlotOf(q)' = None
                            /\ RunningOf(q)' = RunningOf(q)
         \/ /\ RunningOf(q) = None /\ SlotOf(q) # None
            /\ RunningOf(q)' = SlotOf(q) /\ SlotOf(q)' = None
         \/ /\ RunningOf(q) # None /\ RunningOf(q)' = None
            /\ SlotOf(q)' = SlotOf(q)
         \/ /\ RunningOf(q) # None /\ RunningOf(q)' = None
            /\ SlotOf(q)' = IF SlotOf(q) = None THEN RunningOf(q) ELSE SlotOf(q)
         \/ /\ SlotOf(q)' = SlotOf(q) /\ RunningOf(q)' = RunningOf(q)
<1>. DEFINE Goal ==
         \/ \E c \in Change : SlotOf(q)' = c /\ RunningOf(q)' = RunningOf(q)
         \/ \E k \in Keys : /\ SlotOf(q) # None /\ SlotOf(q).key = k
                            /\ SlotOf(q)' = None
                            /\ RunningOf(q)' = RunningOf(q)
         \/ /\ RunningOf(q) = None /\ SlotOf(q) # None
            /\ RunningOf(q)' = SlotOf(q) /\ SlotOf(q)' = None
         \/ /\ RunningOf(q) # None /\ RunningOf(q)' = None
            /\ SlotOf(q)' = SlotOf(q)
         \/ /\ RunningOf(q) # None /\ RunningOf(q)' = None
            /\ SlotOf(q)' = IF SlotOf(q) = None THEN RunningOf(q) ELSE SlotOf(q)
         \/ /\ SlotOf(q)' = SlotOf(q) /\ RunningOf(q)' = RunningOf(q)
<1>a. pending'[q] = pending[q] => SlotOf(q)' = SlotOf(q)
  BY DEF SlotOf
<1>b. InFlight(q)' = InFlight(q) => RunningOf(q)' = RunningOf(q)
  BY DEF RunningOf
<1>c. pending[q] # None => /\ SlotOf(q) = pending[q].change
                           /\ SlotOf(q) \in Change /\ SlotOf(q) # None
  BY NoneIsNoChange DEF SlotOf, TypeOK, Entry
<1>d. pending[q] = None => SlotOf(q) = None
  BY DEF SlotOf
<1>e. pending'[q] # None => SlotOf(q)' = pending'[q].change
  BY DEF SlotOf
<1>f. pending'[q] = None => SlotOf(q)' = None
  BY DEF SlotOf
<1>g. InFlight(q) = {} => RunningOf(q) = None
  BY DEF RunningOf
<1>h. InFlight(q)' = {} => RunningOf(q)' = None
  BY DEF RunningOf
<1>i. ASSUME NEW c \in Change, InFlight(q) = {c}
      PROVE  RunningOf(q) = c /\ RunningOf(q) # None
  BY <1>i, NoneIsNoChange DEF RunningOf
<1>j. ASSUME NEW c, InFlight(q)' = {c} PROVE RunningOf(q)' = c
  BY <1>j DEF RunningOf
<1>1. ASSUME NEW p \in Profiles, NEW e \in Entry, SetEffect(p, e) PROVE Goal
  <2>1. e.change \in Change /\ e # None
    BY NoneIsNoChange DEF Entry
  <2>2. InFlight(q)' = InFlight(q)
    BY <1>1 DEF SetEffect
  <2>3. CASE q = p
    <3>1. pending'[q] = e
      BY <1>1, <2>3 DEF SetEffect, TypeOK
    <3>. QED
      BY <1>b, <1>e, <2>1, <2>2, <3>1
  <2>4. CASE q # p
    <3>1. pending'[q] = pending[q]
      BY <1>1, <2>4 DEF SetEffect, TypeOK
    <3>. QED
      BY <1>a, <1>b, <2>2, <3>1
  <2>. QED
    BY <2>3, <2>4
<1>2. ASSUME NEW p \in Profiles, NEW k \in Keys, CancelEffect(p, k) PROVE Goal
  <2>1. InFlight(q)' = InFlight(q)
    BY <1>2 DEF CancelEffect
  <2>2. CASE q = p
    <3>1. /\ pending[q] # None /\ pending[q].change.key = k
          /\ pending'[q] = None
      BY <1>2, <2>2 DEF CancelEffect, TypeOK
    <3>. QED
      BY <1>b, <1>c, <1>f, <2>1, <3>1
  <2>3. CASE q # p
    <3>1. pending'[q] = pending[q]
      BY <1>2, <2>3 DEF CancelEffect, TypeOK
    <3>. QED
      BY <1>a, <1>b, <2>1, <3>1
  <2>. QED
    BY <2>2, <2>3
<1>3. ASSUME NoEffect PROVE Goal
  BY <1>3, <1>a, <1>b DEF NoEffect
<1>4. ASSUME NEW p \in Profiles, TakeEffect(p) PROVE Goal
  <2>1. /\ InFlight(q) = {}
        /\ InFlight(q)' = IF q = p THEN {pending[p].change} ELSE {}
    BY <1>4 DEF TakeEffect
  <2>2. CASE q = p
    <3>1. pending[q] # None /\ pending'[q] = None
      BY <1>4, <2>2 DEF TakeEffect, TypeOK
    <3>2. RunningOf(q)' = pending[q].change
      BY <2>1, <2>2, <1>j
    <3>. QED
      BY <1>c, <1>f, <1>g, <2>1, <3>1, <3>2
  <2>3. CASE q # p
    <3>1. pending'[q] = pending[q]
      BY <1>4, <2>3 DEF TakeEffect, TypeOK
    <3>. QED
      BY <1>a, <1>g, <1>h, <2>1, <2>3, <3>1
  <2>. QED
    BY <2>2, <2>3
<1>5. ASSUME NEW p \in Profiles, NEW c \in Change, AppliedEffect(p, c)
      PROVE  Goal
  <2>1. /\ InFlight(q) = IF q = p THEN {c} ELSE {}
        /\ InFlight(q)' = {} /\ pending'[q] = pending[q]
    BY <1>5 DEF AppliedEffect
  <2>2. RunningOf(q)' = None /\ SlotOf(q)' = SlotOf(q)
    BY <1>a, <1>h, <2>1
  <2>3. CASE q = p
    BY <1>i, <2>1, <2>2, <2>3
  <2>4. CASE q # p
    BY <1>g, <2>1, <2>2, <2>4
  <2>. QED
    BY <2>3, <2>4
<1>6. ASSUME NEW p \in Profiles, NEW e \in Entry, FailedEffect(p, e)
      PROVE  Goal
  <2>1. /\ InFlight(q) = IF q = p THEN {e.change} ELSE {}
        /\ InFlight(q)' = {}
        /\ e.change \in Change /\ e # None
    BY <1>6, NoneIsNoChange DEF FailedEffect, Entry
  <2>2. RunningOf(q)' = None
    BY <1>h, <2>1
  <2>3. CASE q = p /\ pending[q] = None
    <3>1. pending'[q] = e
      BY <1>6, <2>3 DEF FailedEffect, TypeOK
    <3>2. RunningOf(q) = e.change /\ RunningOf(q) # None
      BY <1>i, <2>1, <2>3
    <3>. QED
      BY <1>d, <1>e, <2>1, <2>2, <2>3, <3>1, <3>2
  <2>4. CASE q = p /\ pending[q] # None
    <3>1. pending'[q] = pending[q]
      BY <1>6, <2>4 DEF FailedEffect
    <3>2. RunningOf(q) # None
      BY <1>i, <2>1, <2>4
    <3>. QED
      BY <1>a, <1>c, <2>2, <2>4, <3>1, <3>2
  <2>5. CASE q # p
    <3>1. pending'[q] = pending[q]
      BY <1>6, <2>5 DEF FailedEffect, TypeOK
    <3>. QED
      BY <1>a, <1>g, <2>1, <2>2, <2>5, <3>1
  <2>. QED
    BY <2>3, <2>4, <2>5
<1>. HIDE DEF Goal
<1>7. Goal
  BY <1>1, <1>2, <1>3, <1>4, <1>5, <1>6 DEF Effect
<1>. QED
  BY <1>7 DEF Goal

\* What an account sees of the queue is PendingSlot: the newest change waits
\* in one slot, one change at a time is sent, and one that failed comes back
\* unless a newer one waits.
THEOREM QueueImplementsSlot == Spec => ImplementsSlot
<1>1. Init => \A p \in Profiles : Slot(p)!Init
  <2>. SUFFICES ASSUME Init, NEW p \in Profiles PROVE Slot(p)!Init
    OBVIOUS
  <2>1. pending[p] = None /\ InFlight(p) = {}
    BY DEF Init, InFlight, Free
  <2>. QED
    BY <2>1 DEF Slot!Init
<1>2. TypeOK /\ [Next]_vars
        => [\A p \in Profiles : [Slot(p)!Next]_(Slot(p)!vars)]_vars
  <2>. SUFFICES ASSUME TypeOK, [Next]_vars, NEW p \in Profiles
                PROVE  [Slot(p)!Next]_(Slot(p)!vars)
    OBVIOUS
  <2>1. TypeOK' /\ Effect
    BY StepTyped, StepEffect
  <2>2. \A c \in Change : [d \in Change |-> d.key][c] = c.key
    OBVIOUS
  <2>3. SlotOf(p) # None => SlotOf(p) \in Change
    BY NoneIsNoChange DEF SlotOf, TypeOK, Entry
  <2>. QED
    BY <2>1, <2>2, <2>3, EffectOnSlot
    DEF SlotOf, RunningOf, Slot!Next, Slot!vars, Slot!SetChange,
        Slot!CancelChange, Slot!Send, Slot!Succeed, Slot!Fail
<1>. QED
  BY <1>1, <1>2, TypeCorrect, PTL DEF Spec, ImplementsSlot

-----------------------------------------------------------------------------
(* What a caller of flush found waiting or being sent.                     *)

Waits(q, c) == pending[q] # None /\ pending[q].change = c

Sends(u, q, c) == /\ task[u].pc = "send" /\ task[u].profile = q
                  /\ task[u].entry.change = c

Located(q, c) == Waits(q, c) \/ \E u \in Tasks : Sends(u, q, c)

\* No change is in two places.
Apart ==
    \A c \in Change : \A q, r \in Profiles :
      /\ Located(q, c) /\ Located(r, c) => q = r
      /\ Waits(q, c) => \A u \in Tasks : ~Sends(u, r, c)

\* A flush for one account owes only changes of that account, and none that
\* waits once it has taken one; a timer owes nothing.
Owes(x) ==
    /\ \A c \in x.owed : c.n <= sets
    /\ x.filter.kind = "generation" => x.owed = {}
    /\ x.filter.kind = "profile" => \A c \in x.owed, q \in Profiles :
         /\ Located(q, c) => q = x.filter.profile
         /\ x.pc = "send" => ~Waits(q, c)

FlushInv == Apart /\ \A t \in Tasks : Owes(task[t])

\* Where a change is after a step it was before, or it is new.  It waits
\* again only when the task that has sent it fails.
Flows ==
    \A c \in Change : \A q \in Profiles :
      /\ Located(q, c)' => Located(q, c) \/ c.n > sets
      /\ Waits(q, c)' => \/ Waits(q, c) \/ c.n > sets
                         \/ \E u \in Tasks : task[u].pc = "send"
                                             /\ task'[u].pc # "send"

LEMMA FlowKeepsOwing ==
  ASSUME TypeOK, Flows, sets <= sets', sets' \in Nat,
         NEW t \in Tasks, Owes(task[t]), task'[t] = task[t]
  PROVE  Owes(task[t])'
<1>1. /\ task[t] \in Task /\ sets \in Nat
      /\ \A u \in Tasks : task[t].pc = "send" /\ task[u].pc = "send" => u = t
  BY DEF TypeOK, Orderly
<1>2. \A c \in task[t].owed : c \in Change /\ c.n \in Nat /\ c.n <= sets
  BY <1>1 DEF Owes, Task, Change
<1>3. \A c \in task[t].owed : c.n <= sets' /\ ~(c.n > sets)
  BY <1>1, <1>2
<1>4. \A c \in task[t].owed : \A q \in Profiles :
        /\ Located(q, c)' => Located(q, c)
        /\ task[t].pc = "send" /\ Waits(q, c)' => Waits(q, c)
  BY <1>1, <1>2, <1>3 DEF Flows
<1>. QED
  BY <1>3, <1>4 DEF Owes

\* Where the changes of a state are, and how old they are.
LEMMA PlaceTyped ==
  ASSUME TypeOK, NEW q \in Profiles, NEW c, Located(q, c)
  PROVE  c \in Change /\ c.n \in Nat /\ c.n <= sets
BY DEF Located, Waits, Sends, TypeOK, Orderly, Task, Entry, Change

\* Tasks that do not send, and entries that stay.
LEMMA StillApart ==
  ASSUME Apart, UNCHANGED sets,
         \A q \in Profiles : pending'[q] \in {pending[q], None},
         \A u \in Tasks : \/ task'[u].pc # "send"
                          \/ /\ task[u].pc = "send"
                             /\ task'[u].profile = task[u].profile
                             /\ task'[u].entry = task[u].entry
  PROVE  Apart' /\ Flows
<1>1. \A q, c : q \in Profiles => (Waits(q, c)' => Waits(q, c))
  BY DEF Waits
<1>2. \A q, c : \A u \in Tasks : Sends(u, q, c)' => Sends(u, q, c)
  BY DEF Sends
<1>3. \A q, c : q \in Profiles => (Located(q, c)' => Located(q, c))
  BY <1>1, <1>2 DEF Located
<1>. QED
  BY <1>1, <1>2, <1>3 DEF Apart, Flows

LEMMA StepSettles == TypeOK /\ FlushInv /\ [Next]_vars => FlushInv'
<1>. SUFFICES ASSUME TypeOK, FlushInv, [Next]_vars PROVE FlushInv'
  OBVIOUS
<1>0. /\ TypeOK' /\ Apart /\ sets \in Nat /\ sets' \in Nat
      /\ \A t \in Tasks : Owes(task[t])
  BY StepTyped DEF FlushInv, TypeOK
\* One task has moved.
<1>a. ASSUME NEW t \in Tasks, Apart', Flows, sets <= sets',
             \A u \in Tasks \ {t} : task'[u] = task[u], Owes(task[t])'
      PROVE  FlushInv'
  <2>1. \A u \in Tasks \ {t} : Owes(task[u])'
    BY <1>0, <1>a, FlowKeepsOwing
  <2>. QED
    BY <1>a, <2>1 DEF FlushInv
<1>1. ASSUME NEW p \in Profiles, NEW k \in Keys \cup {None}, Set(p, k)
      PROVE  FlushInv'
  <2>. DEFINE entry == [change |-> [n |-> sets + 1, key |-> k],
                        generation |-> NextGeneration(p)]
  <2>1. PICK t \in Tasks : /\ task[t].pc = "free"
                           /\ task' = [task EXCEPT ![t] = Timer(p, entry)]
    BY <1>1 DEF Set
  <2>2. /\ pending' = [pending EXCEPT ![p] = entry] /\ sets' = sets + 1
        /\ task'[t] = Timer(p, entry)
        /\ \A u \in Tasks \ {t} : task'[u] = task[u]
    BY <1>1, <2>1 DEF Set, TypeOK
  <2>3. /\ Timer(p, entry).pc = "sleep" /\ Timer(p, entry).owed = {}
        /\ Timer(p, entry).filter.kind = "generation"
    BY DEF Timer
  <2>4. \A q, c : \A u \in Tasks : Sends(u, q, c)' => Sends(u, q, c)
    BY <2>1, <2>2, <2>3 DEF Sends
  <2>5. \A c : \A q \in Profiles :
          Waits(q, c)' => Waits(q, c) \/ (q = p /\ c.n = sets + 1)
    BY <2>2 DEF Waits, TypeOK
  <2>6. \A c : \A q \in Profiles :
          Located(q, c)' => Located(q, c) \/ (q = p /\ c.n = sets + 1)
    BY <2>4, <2>5 DEF Located
  <2>7. Flows
    BY <1>0, <2>5, <2>6 DEF Flows
  <2>8. \A c \in Change : \A q \in Profiles : Located(q, c) => c.n # sets + 1
    BY <1>0, PlaceTyped
  <2>9. \A c \in Change : \A q \in Profiles, u \in Tasks :
          Sends(u, q, c) => Located(q, c)
    BY DEF Located
  <2>10. Apart'
    BY <1>0, <2>4, <2>5, <2>6, <2>8, <2>9 DEF Apart
  <2>11. Owes(task[t])'
    BY <2>2, <2>3 DEF Owes
  <2>. QED
    BY <1>0, <1>a, <2>2, <2>7, <2>10, <2>11
<1>2. ASSUME NEW p \in Profiles, NEW k \in Keys, Cancel(p, k)
      PROVE  FlushInv'
  <2>1. /\ \A q \in Profiles : pending'[q] \in {pending[q], None}
        /\ UNCHANGED <<task, sets>>
    BY <1>2 DEF Cancel, TypeOK
  <2>2. Apart' /\ Flows
    BY <1>0, <2>1, StillApart
  <2>3. \A t \in Tasks : Owes(task[t])'
    BY <1>0, <2>1, <2>2, FlowKeepsOwing
  <2>. QED
    BY <2>2, <2>3 DEF FlushInv
<1>3. ASSUME NEW t \in Tasks, NEW filter \in Calls, Flush(t, filter)
      PROVE  FlushInv'
  <2>1. /\ UNCHANGED <<pending, sets>>
        /\ \A u \in Tasks \ {t} : task'[u] = task[u]
        /\ task'[t].pc = "lock" /\ task'[t].filter = filter
        /\ task[t].pc = "free"
        /\ task'[t].owed =
             LET P == IF filter.kind = "all" THEN Profiles
                      ELSE {filter.profile}
             IN UNION ({Pending(p) : p \in P} \cup
                       {Sending(u) : u \in {v \in Tasks :
                                        task[v].profile \in P}})
    BY <1>3 DEF Flush, TypeOK, Free
  <2>2. Apart' /\ Flows
    <3>1. \A q \in Profiles : pending'[q] \in {pending[q], None}
      BY <2>1
    <3>2. \A u \in Tasks : task'[u] = task[u] \/ task'[u].pc # "send"
      BY <2>1
    <3>. QED
      BY <1>0, <2>1, <3>1, <3>2, StillApart
  <2>3. ASSUME NEW c \in task'[t].owed
        PROVE  \E q \in Profiles : /\ Located(q, c)
                                   /\ filter.kind # "all" => q = filter.profile
    <3>. DEFINE P == IF filter.kind = "all" THEN Profiles ELSE {filter.profile}
    <3>1. P \subseteq Profiles
      BY DEF Calls
    <3>2. \/ \E p \in P : c \in Pending(p)
          \/ \E u \in Tasks : task[u].profile \in P /\ c \in Sending(u)
      BY <2>1, <2>3
    <3>3. CASE \E p \in P : c \in Pending(p)
      BY <3>1, <3>3 DEF Pending, Located, Waits
    <3>4. CASE \E u \in Tasks : task[u].profile \in P /\ c \in Sending(u)
      BY <3>1, <3>4 DEF Sending, Located, Sends
    <3>. QED
      BY <3>2, <3>3, <3>4
  <2>4. ASSUME NEW c \in task'[t].owed
        PROVE  c.n <= sets' /\ c \in Change
    BY <2>1, <2>3, PlaceTyped
  <2>5. ASSUME filter.kind = "profile", NEW c \in task'[t].owed,
               NEW q \in Profiles, Located(q, c)'
        PROVE  q = filter.profile
    <3>1. Located(q, c)
      BY <1>0, <2>1, <2>2, <2>4, <2>5 DEF Flows, Change
    <3>. QED
      BY <1>0, <2>3, <2>4, <2>5, <3>1 DEF Apart
  <2>6. filter.kind # "generation"
    BY <1>3 DEF Flush
  <2>7. Owes(task[t])'
    BY <2>1, <2>4, <2>5, <2>6 DEF Owes
  <2>. QED
    BY <1>0, <1>a, <2>1, <2>2, <2>7
<1>4. ASSUME NEW t \in Tasks, Wake(t) \/ Lock(t) PROVE FlushInv'
  <2>1. /\ UNCHANGED <<pending, sets>>
        /\ \A u \in Tasks \ {t} : task'[u] = task[u]
        /\ task'[t].pc # "send" /\ task'[t].filter = task[t].filter
        /\ task'[t].owed = task[t].owed
    BY <1>4 DEF Wake, Lock, TypeOK, Task
  <2>2. Apart' /\ Flows
    <3>1. \A q \in Profiles : pending'[q] \in {pending[q], None}
      BY <2>1
    <3>2. \A u \in Tasks : task'[u] = task[u] \/ task'[u].pc # "send"
      BY <2>1
    <3>. QED
      BY <1>0, <2>1, <3>1, <3>2, StillApart
  <2>3. \A c \in task[t].owed : c \in Change /\ c.n \in Nat /\ c.n <= sets
    BY <1>0 DEF Owes, TypeOK, Task, Change
  <2>4. \A c \in task[t].owed, q \in Profiles : Located(q, c)' => Located(q, c)
    BY <1>0, <2>2, <2>3 DEF Flows
  <2>5. Owes(task[t])'
    BY <1>0, <2>1, <2>4 DEF Owes
  <2>. QED
    BY <1>0, <1>a, <2>1, <2>2, <2>5
<1>5. ASSUME NEW t \in Tasks, Take(t) PROVE FlushInv'
  <2>1. PICK p \in Profiles :
          /\ Matches(task[t].filter, p)
          /\ task' = [task EXCEPT ![t].pc = "send", ![t].profile = p,
                                  ![t].entry = pending[p]]
          /\ pending' = [pending EXCEPT ![p] = None]
    BY <1>5 DEF Take
  <2>2. /\ UNCHANGED sets /\ task[t].pc = "scan"
        /\ \A u \in Tasks \ {t} : task'[u] = task[u]
        /\ task'[t].pc = "send" /\ task'[t].profile = p
        /\ task'[t].entry = pending[p] /\ task'[t].filter = task[t].filter
        /\ task'[t].owed = task[t].owed
        /\ pending[p] # None /\ pending'[p] = None
        /\ \A q \in Profiles \ {p} : pending'[q] = pending[q]
        /\ task[t].filter.kind = "profile" => p = task[t].filter.profile
    BY <1>5, <2>1 DEF Take, TypeOK, Task, Matches
  <2>3. \A u \in Tasks : task[u].pc # "send"
    BY <2>2 DEF TypeOK, Orderly
  <2>4. \A q, c : q \in Profiles =>
          /\ Waits(q, c)' <=> (Waits(q, c) /\ q # p)
          /\ \A u \in Tasks : Sends(u, q, c)' <=>
                                (u = t /\ q = p /\ Waits(p, c))
          /\ Located(q, c) <=> Waits(q, c)
    BY <2>2, <2>3 DEF Waits, Sends, Located
  <2>5. \A q, c : q \in Profiles => (Located(q, c)' => Located(q, c))
    BY <2>4 DEF Located
  <2>6. Flows
    BY <2>4, <2>5 DEF Flows
  <2>7. Apart'
    BY <1>0, <2>4, <2>5 DEF Apart
  <2>8. Owes(task[t])'
    BY <1>0, <2>2, <2>4, <2>5 DEF Owes
  <2>. QED
    BY <1>0, <1>a, <2>2, <2>6, <2>7, <2>8
<1>6. ASSUME NEW t \in Tasks, Settled(t) \/ Applied(t) PROVE FlushInv'
  <2>1. /\ UNCHANGED <<pending, sets>>
        /\ \A u \in Tasks \ {t} : task'[u] = task[u]
        /\ task'[t].pc # "send"
        /\ \/ task'[t].owed = {}
           \/ /\ task[t].filter.kind = "all"
              /\ task'[t].filter = task[t].filter
              /\ task'[t].owed = task[t].owed
    BY <1>6 DEF Settled, Applied, TypeOK, Task, Free
  <2>2. Apart' /\ Flows
    <3>1. \A q \in Profiles : pending'[q] \in {pending[q], None}
      BY <2>1
    <3>2. \A u \in Tasks : task'[u] = task[u] \/ task'[u].pc # "send"
      BY <2>1
    <3>. QED
      BY <1>0, <2>1, <3>1, <3>2, StillApart
  <2>3. Owes(task[t])'
    BY <1>0, <2>1 DEF Owes
  <2>. QED
    BY <1>0, <1>a, <2>1, <2>2, <2>3
<1>7. ASSUME NEW t \in Tasks, Failed(t) PROVE FlushInv'
  <2>. DEFINE p == task[t].profile
              e == task[t].entry
  <2>1. /\ task[t].pc = "send" /\ p \in Profiles /\ e \in Entry /\ e # None
        /\ UNCHANGED sets
        /\ pending' = IF pending[p] = None THEN [pending EXCEPT ![p] = e]
                                           ELSE pending
        /\ \A u \in Tasks \ {t} : task'[u] = task[u] /\ task[u].pc # "send"
        /\ task'[t] = Timer(p, e)
    BY <1>7 DEF Failed, TypeOK, Orderly, Task
  <2>2. /\ Timer(p, e).pc = "sleep" /\ Timer(p, e).owed = {}
        /\ Timer(p, e).filter.kind = "generation"
    BY DEF Timer
  <2>3. \A q, c : \A u \in Tasks : ~Sends(u, q, c)'
    BY <2>1, <2>2 DEF Sends
  <2>4. Sends(t, p, e.change)
    BY <2>1 DEF Sends
  <2>5. \A c : \A q \in Profiles :
          Waits(q, c)' => Waits(q, c) \/ Sends(t, q, c)
    BY <2>1, <2>4 DEF Waits, TypeOK
  <2>6. \A c : \A q \in Profiles : Located(q, c)' => Located(q, c)
    BY <2>3, <2>5 DEF Located
  <2>7. Flows
    BY <2>1, <2>2, <2>6 DEF Flows
  <2>8. Apart'
    BY <1>0, <2>3, <2>6 DEF Apart
  <2>9. Owes(task[t])'
    BY <2>1, <2>2 DEF Owes
  <2>. HIDE DEF p, e
  <2>. QED
    BY <1>0, <1>a, <2>1, <2>7, <2>8, <2>9
<1>8. CASE UNCHANGED vars
  <2>1. UNCHANGED <<pending, task, sets>>
    BY <1>8 DEF vars
  <2>2. Apart' /\ Flows
    BY <1>0, <2>1, StillApart
  <2>3. \A t \in Tasks : Owes(task[t])'
    BY <1>0, <2>1, <2>2, FlowKeepsOwing
  <2>. QED
    BY <2>2, <2>3 DEF FlushInv
<1>. QED
  BY <1>1, <1>2, <1>3, <1>4, <1>5, <1>6, <1>7, <1>8 DEF Next

\* Whoever returns Ok has sent what it owed, or has seen it sent, replaced or
\* taken back.
LEMMA ReturnSettles ==
  ASSUME TypeOK, FlushInv, [Next]_vars, NEW t \in Tasks, ReturnsOk(t),
         NEW c \in task[t].owed
  PROVE  /\ \A p \in Profiles : pending'[p] = None \/ pending'[p].change # c
         /\ \A u \in Tasks : task'[u].entry = None \/ task'[u].entry.change # c
<1>1. task[t].pc \in {"scan", "send"} /\ task'[t].pc = "free"
  BY DEF ReturnsOk
<1>2. Settled(t) \/ Applied(t)
  <2>1. \A p \in Profiles, k \in Keys \cup {None} : ~Set(p, k)
    BY <1>1 DEF Set, TypeOK, Timer
  <2>2. \A p \in Profiles, k \in Keys : ~Cancel(p, k)
    BY <1>1 DEF Cancel
  <2>3. \A u \in Tasks : \A filter \in Calls : ~Flush(u, filter)
    BY <1>1 DEF Flush, TypeOK
  <2>4. \A u \in Tasks : u # t => task[u].pc \notin {"scan", "send"}
    BY <1>1 DEF TypeOK, Orderly
  <2>5. \A u \in Tasks : ~Wake(u) /\ ~Lock(u)
    BY <1>1 DEF Wake, Lock, TypeOK, Task
  <2>6. ASSUME NEW u \in Tasks, Take(u) PROVE FALSE
    <3>1. u = t
      BY <2>4, <2>6 DEF Take
    <3>2. PICK p \in Profiles :
            task' = [task EXCEPT ![u].pc = "send", ![u].profile = p,
                                 ![u].entry = pending[p]]
      BY <2>6 DEF Take
    <3>3. task'[t].pc = "send"
      BY <3>1, <3>2 DEF TypeOK, Task
    <3>. QED
      BY <1>1, <3>3
  <2>7. \A u \in Tasks : ~Failed(u)
    BY <1>1, <2>4 DEF Failed, TypeOK, Timer
  <2>8. \A u \in Tasks : Settled(u) \/ Applied(u) => u = t
    BY <2>4 DEF Settled, Applied
  <2>9. ~UNCHANGED vars
    BY <1>1 DEF vars
  <2>. QED
    BY <2>1, <2>2, <2>3, <2>5, <2>6, <2>7, <2>8, <2>9 DEF Next
<1>3. pending' = pending /\ task'[t] = Free
  BY <1>1, <1>2 DEF Settled, Applied, TypeOK, Task
<1>4. \A u \in Tasks : task'[u].entry = None
  <2>1. TypeOK'
    BY StepTyped
  <2>2. \A u \in Tasks : u # t => task'[u] = task[u] /\ task[u].pc # "send"
    BY <1>1, <1>2 DEF Settled, Applied, TypeOK, Orderly
  <2>3. Free.entry = None
    BY DEF Free
  <2>. QED
    BY <1>3, <2>2, <2>3 DEF TypeOK, Orderly
<1>5. ASSUME NEW p \in Profiles, pending[p] # None PROVE pending[p].change # c
  <2>1. Owes(task[t]) /\ task[t].filter.kind # "generation"
    BY DEF FlushInv, Owes
  <2>2. task[t].filter.kind \in {"all", "profile"}
    BY <2>1 DEF TypeOK, Task, Filter
  <2>3. CASE Settled(t)
    <3>1. ~Matches(task[t].filter, p)
      BY <2>3 DEF Settled
    <3>2. task[t].filter.kind = "profile" /\ task[t].filter.profile # p
      BY <1>5, <2>2, <3>1 DEF Matches
    <3>. QED
      BY <1>5, <2>1, <3>2 DEF Owes, Located, Waits
  <2>4. CASE Applied(t)
    <3>1. task[t].filter.kind # "all" /\ task[t].pc = "send"
      BY <1>1, <2>4 DEF Applied, TypeOK, Task
    <3>. QED
      BY <1>5, <2>1, <2>2, <3>1 DEF Owes, Waits
  <2>. QED
    BY <1>2, <2>3, <2>4
<1>. QED
  BY <1>3, <1>4, <1>5

\* When a flush asked for by a launch, the exit of the app or the skins page
\* returns Ok, nothing it found waiting or being sent is still to be sent:
\* neither by a task that holds the lock nor because a failed change came back.
THEOREM FlushesSettle == Spec => FlushSettles
<1>1. Init => FlushInv
  <2>. SUFFICES ASSUME Init PROVE FlushInv
    OBVIOUS
  <2>1. \A q \in Profiles, c \in Change : ~Located(q, c)
    BY DEF Init, Located, Waits, Sends, Free
  <2>2. \A q \in Profiles, c \in Change : ~Waits(q, c)
    BY DEF Init, Waits
  <2>. QED
    BY <2>1, <2>2 DEF Init, FlushInv, Apart, Owes, Free
<1>2. TypeOK /\ FlushInv /\ [Next]_vars
        => [\A t \in Tasks : ReturnsOk(t) => \A c \in task[t].owed :
              /\ \A p \in Profiles : pending'[p] = None \/ pending'[p].change # c
              /\ \A u \in Tasks : task'[u].entry = None
                                  \/ task'[u].entry.change # c]_vars
  BY ReturnSettles
<1>. QED
  BY <1>1, <1>2, StepSettles, TypeCorrect, PTL DEF Spec, FlushSettles
=============================================================================
