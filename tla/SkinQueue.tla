------------------------------ MODULE SkinQueue ------------------------------
(***************************************************************************)
(* The debounced queue of skin changes (api/minecraft_skins.rs): one       *)
(* pending change per account, a timer task for every change set or put    *)
(* back, flushes that callers ask for, and the lock that lets one flush    *)
(* send at a time.  Sending itself is one step here; SkinWardrobe has what *)
(* it does.                                                                *)
(*                                                                         *)
(* Bounds: MaxSets changes, MaxFailures failures of a send, and the tasks  *)
(* in Tasks.  A generation only reaches MaxSets, so that wrapping_add      *)
(* never wraps.                                                            *)
(***************************************************************************)
EXTENDS Naturals, FiniteSets

CONSTANTS Profiles,    \* Minecraft accounts
          Keys,        \* texture keys of skins a change may equip
          Tasks,       \* tasks of the runtime: timers and calls of flush
          None,
          MaxSets, MaxFailures

ASSUME NoneIsNoMember == None \notin Profiles \cup Keys \cup Tasks
ASSUME BoundsAssumption == MaxSets \in Nat /\ MaxFailures \in Nat

VARIABLES pending,     \* PENDING_SKIN_CHANGE
          holder,      \* the task that holds SKIN_CHANGE_FLUSH_LOCK, or None
          task,        \* where each task is
          sets,        \* changes set so far, which numbers them
          failures,    \* sends that failed so far
          newest,      \* observation: the number of each account's newest
                       \* change that is neither applied nor canceled, or 0
          applied      \* observation: the number of the change last applied

vars == <<pending, holder, task, sets, failures, newest, applied>>

\* A PendingSkinChange: its number and the skin it equips, None for Unequip.
Change == [n : 1..MaxSets, key : Keys \cup {None}]

Entry == [change : Change, generation : Nat]

ASSUME NoneIsNoChange == None \notin Change \cup Entry

\* The filter a flush was called with: PendingSkinChangeFilter or None.
Filter ==      [kind : {"generation"}, profile : Profiles, generation : Nat]
          \cup [kind : {"profile"}, profile : Profiles]
          \cup [kind : {"all"}]

\* owed is an observation: the changes a caller of flush found waiting or being
\* sent.
Task == [pc : {"free", "sleep", "lock", "scan", "send"},
         filter : Filter, profile : Profiles \cup {None},
         entry : Entry \cup {None}, owed : SUBSET Change]

Free == [pc |-> "free", filter |-> [kind |-> "all"], profile |-> None,
         entry |-> None, owed |-> {}]

Init ==
    /\ pending = [p \in Profiles |-> None]
    /\ holder = None
    /\ task = [t \in Tasks |-> Free]
    /\ sets = 0 /\ failures = 0
    /\ newest = [p \in Profiles |-> 0]
    /\ applied = [p \in Profiles |-> 0]

-----------------------------------------------------------------------------
(* The accounts' changes.                                                  *)

\* schedule_pending_skin_change_flush: the task it spawns.
Timer(p, entry) ==
    [pc |-> "sleep",
     filter |-> [kind |-> "generation", profile |-> p,
                 generation |-> entry.generation],
     profile |-> None, entry |-> None, owed |-> {}]

NextGeneration(p) ==
    IF pending[p] = None THEN 1 ELSE pending[p].generation + 1

\* Mutant: a timer is only started for an account that had no change pending.
SetUntimed(p, k) ==
    /\ sets < MaxSets
    /\ LET entry == [change |-> [n |-> sets + 1, key |-> k],
                     generation |-> NextGeneration(p)]
       IN /\ pending' = [pending EXCEPT ![p] = entry]
          /\ IF pending[p] # None THEN UNCHANGED task
             ELSE \E t \in Tasks :
                    /\ task[t].pc = "free"
                    /\ task' = [task EXCEPT ![t] = Timer(p, entry)]
    /\ sets' = sets + 1
    /\ newest' = [newest EXCEPT ![p] = sets + 1]
    /\ UNCHANGED <<holder, failures, applied>>

\* set_pending_skin_change
Set(p, k) ==
    /\ sets < MaxSets
    /\ LET entry == [change |-> [n |-> sets + 1, key |-> k],
                     generation |-> NextGeneration(p)]
       IN /\ pending' = [pending EXCEPT ![p] = entry]
          /\ \E t \in Tasks : /\ task[t].pc = "free"
                              /\ task' = [task EXCEPT ![t] = Timer(p, entry)]
    /\ sets' = sets + 1
    /\ newest' = [newest EXCEPT ![p] = sets + 1]
    /\ UNCHANGED <<holder, failures, applied>>

\* Mutant: whatever is pending is taken back.
CancelAny(p, k) ==
    /\ pending[p] # None
    /\ pending' = [pending EXCEPT ![p] = None]
    /\ newest' = [newest EXCEPT ![p] = 0]
    /\ UNCHANGED <<holder, task, sets, failures, applied>>

\* cancel_pending_skin_change_for_skin
Cancel(p, k) ==
    /\ pending[p] # None
    /\ pending[p].change.key = k
    /\ pending' = [pending EXCEPT ![p] = None]
    /\ newest' = [newest EXCEPT ![p] = 0]
    /\ UNCHANGED <<holder, task, sets, failures, applied>>

-----------------------------------------------------------------------------
(* flush_pending_skin_change_inner                                         *)

Pending(p) == IF pending[p] = None THEN {} ELSE {pending[p].change}

Sending(t) == IF task[t].pc = "send" THEN {task[t].entry.change} ELSE {}

\* A call of flush_pending_skin_change or ..._for_profile.
Flush(t, filter) ==
    /\ task[t].pc = "free"
    /\ filter.kind # "generation"
    /\ task' = [task EXCEPT ![t] =
         [Free EXCEPT !.pc = "lock", !.filter = filter,
            !.owed = LET P == IF filter.kind = "all" THEN Profiles
                              ELSE {filter.profile}
                     IN UNION ({Pending(p) : p \in P} \cup
                               {Sending(u) : u \in {v \in Tasks :
                                                task[v].profile \in P}})]]
    /\ UNCHANGED <<pending, holder, sets, failures, newest, applied>>

\* The debounce of a timer is over.
Wake(t) ==
    /\ task[t].pc = "sleep"
    /\ task' = [task EXCEPT ![t].pc = "lock"]
    /\ UNCHANGED <<pending, holder, sets, failures, newest, applied>>

\* Mutant: a flush that does not wait for the one under way.
LockAnyway(t) ==
    /\ task[t].pc = "lock"
    /\ holder' = t
    /\ task' = [task EXCEPT ![t].pc = "scan"]
    /\ UNCHANGED <<pending, sets, failures, newest, applied>>

Lock(t) ==
    /\ task[t].pc = "lock"
    /\ holder = None
    /\ holder' = t
    /\ task' = [task EXCEPT ![t].pc = "scan"]
    /\ UNCHANGED <<pending, sets, failures, newest, applied>>

\* Whether a flush with this filter takes the pending change of p.
Matches(filter, p) ==
    /\ pending[p] # None
    /\ filter.kind # "all" => filter.profile = p
    /\ filter.kind = "generation"
         => filter.generation = pending[p].generation

Take(t) ==
    /\ task[t].pc = "scan"
    /\ \E p \in Profiles :
         /\ Matches(task[t].filter, p)
         /\ task' = [task EXCEPT ![t].pc = "send", ![t].profile = p,
                                 ![t].entry = pending[p]]
         /\ pending' = [pending EXCEPT ![p] = None]
    /\ UNCHANGED <<holder, sets, failures, newest, applied>>

\* The flush finds nothing to send and returns Ok.
Settled(t) ==
    /\ task[t].pc = "scan"
    /\ \A p \in Profiles : ~Matches(task[t].filter, p)
    /\ holder' = None
    /\ task' = [task EXCEPT ![t] = Free]
    /\ UNCHANGED <<pending, sets, failures, newest, applied>>

\* Mutant: every flush returns after its first change.
AppliedOnce(t) ==
    /\ task[t].pc = "send"
    /\ LET p == task[t].profile
           n == task[t].entry.change.n
       IN /\ applied' = [applied EXCEPT ![p] = n]
          /\ newest' = IF newest[p] = n THEN [newest EXCEPT ![p] = 0]
                       ELSE newest
    /\ task' = [task EXCEPT ![t] = Free]
    /\ holder' = None
    /\ UNCHANGED <<pending, sets, failures>>

\* execute_pending_skin_change returns Ok; only an unfiltered flush goes on.
Applied(t) ==
    /\ task[t].pc = "send"
    /\ LET p == task[t].profile
           n == task[t].entry.change.n
       IN /\ applied' = [applied EXCEPT ![p] = n]
          /\ newest' = IF newest[p] = n THEN [newest EXCEPT ![p] = 0]
                       ELSE newest
    /\ IF task[t].filter.kind = "all"
       THEN /\ task' = [task EXCEPT ![t].pc = "scan", ![t].profile = None,
                                    ![t].entry = None]
            /\ UNCHANGED holder
       ELSE /\ task' = [task EXCEPT ![t] = Free]
            /\ holder' = None
    /\ UNCHANGED <<pending, sets, failures>>

\* Mutant: the entry goes back even over a newer one.
FailedOver(t) ==
    /\ task[t].pc = "send"
    /\ failures < MaxFailures
    /\ failures' = failures + 1
    /\ pending' = [pending EXCEPT ![task[t].profile] = task[t].entry]
    /\ task' = [task EXCEPT ![t] = Timer(task[t].profile, task[t].entry)]
    /\ holder' = None
    /\ UNCHANGED <<sets, newest, applied>>

\* Mutant: the entry that goes back gets no timer.
FailedUntimed(t) ==
    /\ task[t].pc = "send"
    /\ failures < MaxFailures
    /\ failures' = failures + 1
    /\ LET p == task[t].profile
       IN pending' = IF pending[p] = None
                     THEN [pending EXCEPT ![p] = task[t].entry]
                     ELSE pending
    /\ task' = [task EXCEPT ![t] = Free]
    /\ holder' = None
    /\ UNCHANGED <<sets, newest, applied>>

\* It returns an error: the entry goes back unless a newer one is there, a
\* timer is started for it, and the flush returns the error.  The timer takes
\* the place of the task that ends.
Failed(t) ==
    /\ task[t].pc = "send"
    /\ failures < MaxFailures
    /\ failures' = failures + 1
    /\ LET p == task[t].profile
       IN /\ pending' = IF pending[p] = None
                        THEN [pending EXCEPT ![p] = task[t].entry]
                        ELSE pending
          /\ task' = [task EXCEPT ![t] = Timer(p, task[t].entry)]
    /\ holder' = None
    /\ UNCHANGED <<sets, newest, applied>>

-----------------------------------------------------------------------------
(* Specification.                                                          *)

Calls == [kind : {"profile"}, profile : Profiles] \cup [kind : {"all"}]

Next ==
    \/ \E p \in Profiles, k \in Keys \cup {None} : Set(p, k)
    \/ \E p \in Profiles, k \in Keys : Cancel(p, k)
    \/ \E t \in Tasks, filter \in Calls : Flush(t, filter)
    \/ \E t \in Tasks : \/ Wake(t) \/ Lock(t) \/ Take(t) \/ Settled(t)
                        \/ Applied(t) \/ Failed(t)

Spec == Init /\ [][Next]_vars

\* Timers elapse, the lock is given to a task that waits for it (tokio's Mutex
\* is first come, first served), and every request of a send ends, if only by
\* the read timeout of the HTTP client.
FairSpec ==
    Spec /\ \A t \in Tasks : /\ WF_vars(Wake(t)) /\ SF_vars(Lock(t))
                             /\ WF_vars(Take(t) \/ Settled(t))
                             /\ WF_vars(Applied(t) \/ Failed(t))
=============================================================================
