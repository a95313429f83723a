----------------------------- MODULE PendingSlot -----------------------------
(***************************************************************************)
(* What the debounced queue of skin changes promises one account: a slot   *)
(* that holds the newest change asked for, and at most one change that is  *)
(* being sent.  A change that failed returns to the slot unless a newer    *)
(* one is there.  SkinQueue implements this for every account, and         *)
(* SkinWardrobe builds on it.                                              *)
(***************************************************************************)
CONSTANTS Changes, \* what a change may be
          Keys,    \* texture keys of skins
          KeyOf,   \* [Changes -> Keys \cup {None}]: the skin a change equips
          None

VARIABLES slot,    \* the pending change, or None
          running  \* the change being sent, or None

vars == <<slot, running>>

Init == slot = None /\ running = None

SetChange(c) == slot' = c /\ UNCHANGED running

\* Removing a skin takes back the change that would equip it.
CancelChange(k) ==
    /\ slot # None
    /\ KeyOf[slot] = k
    /\ slot' = None
    /\ UNCHANGED running

Send == running = None /\ slot # None /\ running' = slot /\ slot' = None

Succeed == running # None /\ running' = None /\ UNCHANGED slot

Fail ==
    /\ running # None
    /\ running' = None
    /\ slot' = IF slot = None THEN running ELSE slot

Next ==
    \/ \E c \in Changes : SetChange(c)
    \/ \E k \in Keys : CancelChange(k)
    \/ Send \/ Succeed \/ Fail

Spec == Init /\ [][Next]_vars
=============================================================================
