------------------------- MODULE LibraryReplication -------------------------
(***************************************************************************)
(* What synced packs promise: one library, and instances that follow it.   *)
(* The library only moves forward; an instance is only ever brought to the *)
(* version the library is at, and every instance that is not exempt (held, *)
(* deleted, or given up by a run that reported it) gets there.  PackSync   *)
(* implements this (see PackSyncProperties).                               *)
(***************************************************************************)
EXTENDS Naturals

CONSTANT Instances
VARIABLES lib, applied, exempt

vars == <<lib, applied, exempt>>

Init == lib = 0 /\ applied = [i \in Instances |-> 0] /\ exempt = {}

Edit == lib' = lib + 1 /\ UNCHANGED <<applied, exempt>>

Exempt == exempt' \in SUBSET Instances /\ UNCHANGED <<lib, applied>>

\* A run may capture a local change of the instance first.
Sync(i) ==
    /\ lib' \in {lib, lib + 1}
    /\ applied' = [applied EXCEPT ![i] = lib']
    /\ exempt' \in SUBSET Instances

Next == Edit \/ Exempt \/ \E i \in Instances : Sync(i)

Catch(i) == applied[i] # lib /\ i \notin exempt /\ Sync(i)

Spec == Init /\ [][Next]_vars /\ \A i \in Instances : WF_vars(Catch(i))
=============================================================================
