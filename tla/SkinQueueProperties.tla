------------------------- MODULE SkinQueueProperties -------------------------
(***************************************************************************)
(* What the queue of skin changes promises, about SkinQueue.               *)
(***************************************************************************)
EXTENDS SkinQueue

\* A task past the lock is its holder; a task that sends knows what and for
\* whom; a timer knows its account.
Orderly ==
    \A t \in Tasks :
      /\ task[t].pc \in {"scan", "send"} <=> holder = t
      /\ IF task[t].pc = "send"
         THEN /\ task[t].profile # None /\ task[t].entry # None
              /\ task[t].entry.change.n <= sets
         ELSE task[t].profile = None /\ task[t].entry = None
      /\ task[t].pc = "sleep" => task[t].filter.kind = "generation"

\* Every variable has the shape the code gives it, and only the holder of the
\* flush lock looks for changes or sends one.
TypeOK ==
    /\ pending \in [Profiles -> Entry \cup {None}]
    /\ \A p \in Profiles : pending[p] # None =>
          pending[p].change.n <= sets
    /\ holder \in Tasks \cup {None}
    /\ task \in [Tasks -> Task]
    /\ sets \in Nat /\ failures \in Nat
    /\ newest \in [Profiles -> Nat] /\ applied \in [Profiles -> Nat]
    /\ Orderly

\* The change of p that is being sent.
InFlight(p) == {task[t].entry.change :
                  t \in {u \in Tasks : task[u].pc = "send"
                                       /\ task[u].profile = p}}

\* The newest change of an account is never lost: until it is applied or
\* canceled it is pending or being sent, whatever older change fails meanwhile
\* and is put back (minecraft_skins.rs:1177-1179).
NewestKept ==
    \A p \in Profiles : newest[p] # 0 =>
       IF pending[p] # None THEN pending[p].change.n = newest[p]
       ELSE \E c \in InFlight(p) : c.n = newest[p]

\* A timer, asleep or on its way, will take this entry.
TimedBy(t, p) ==
    /\ task[t].pc \in {"sleep", "lock", "scan"}
    /\ task[t].filter.kind = "generation"
    /\ task[t].filter.profile = p
    /\ task[t].filter.generation = pending[p].generation

\* No pending change is stranded: whatever was set over it, taken by another
\* flush or put back after an error, some timer still matches its generation.
PendingIsTimed ==
    \A p \in Profiles : pending[p] # None => \E t \in Tasks : TimedBy(t, p)

\* An account never goes back to an older change once a newer one is applied.
AppliedInOrder == [][\A p \in Profiles : applied'[p] >= applied[p]]_vars

ReturnsOk(t) == /\ task[t].pc \in {"scan", "send"}
                /\ task'[t].pc = "free"

\* When a flush asked for by a launch, the exit of the app or the skins page
\* returns Ok, nothing it found waiting or being sent is still to be sent.
FlushSettles ==
    [][\A t \in Tasks : ReturnsOk(t) => \A c \in task[t].owed :
          /\ \A p \in Profiles : pending'[p] = None \/ pending'[p].change # c
          /\ \A u \in Tasks : task'[u].entry = None
                              \/ task'[u].entry.change # c]_vars

\* Every change set is in the end applied, replaced or canceled, as long as
\* sends do not fail for ever.
ChangesSettle ==
    \A p \in Profiles : newest[p] # 0 ~> newest[p] = 0

\* What the account p sees of the queue.
Slot(p) == INSTANCE PendingSlot WITH
    Changes <- Change,
    KeyOf <- [c \in Change |-> c.key],
    slot <- IF pending[p] = None THEN None ELSE pending[p].change,
    running <- IF InFlight(p) = {} THEN None
               ELSE CHOOSE c \in InFlight(p) : TRUE

\* Each account's part of the queue is a PendingSlot: \A p : Slot(p)!Spec,
\* with the quantifier taken into the formula.
ImplementsSlot ==
    /\ \A p \in Profiles : Slot(p)!Init
    /\ [][\A p \in Profiles : [Slot(p)!Next]_(Slot(p)!vars)]_vars
=============================================================================
