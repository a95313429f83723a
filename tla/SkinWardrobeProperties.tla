----------------------- MODULE SkinWardrobeProperties -----------------------
(***************************************************************************)
(* What skin changes promise, about SkinWardrobe.                          *)
(***************************************************************************)
EXTENDS SkinWardrobe

ProfileOrNone == Profile \cup {None}

\* Every variable has the shape the code gives it; a change is being sent
\* exactly while a flush is at work; and only the flush and the listing that
\* wait for the profile have it fetched.
TypeOK ==
    /\ slot \in Change \cup {None} /\ running \in Change \cup {None}
    /\ mojang \in Profile
    /\ cache \in [profile : ProfileOrNone, fresh : BOOLEAN, backoff : BOOLEAN]
    /\ cache.fresh => cache.profile # None
    /\ fetch \in [{"flush", "list"} ->
                    [pc : {"idle", "look", "ask", "store", "done"},
                     live : BOOLEAN, stale : ProfileOrNone,
                     seen : ProfileOrNone]]
    /\ rows \in [DOMAIN rows -> Cape] /\ DOMAIN rows \subseteq Key
    /\ kept \in [Uploads -> {"no", "worn", "saved"}]
    /\ send.profile \in ProfileOrNone /\ send.reply \in ProfileOrNone
    /\ (send.pc = "idle") = (running = None)
    /\ (fetch["flush"].pc = "idle")
         = (send.pc \notin {"profile", "confirm", "refresh"})
    /\ (fetch["list"].pc = "idle") = (list.pc # "profile")

IsSaved(t) == \E k \in DOMAIN rows : k[1] = t

\* No skin of the player's is lost.  One that was added, edited or preserved
\* stays saved, under one key or the other, unless the player removes it; the
\* one the account wore before the app touched it is worn or saved: through
\* uploads whose answer is lost, changes that are put back, and listings that
\* correct rows meanwhile.
SkinsKept ==
    \A t \in Uploads : kept[t] # "no" =>
       IsSaved(t) \/ (kept[t] = "worn" /\ mojang.tex = t)

\* The flush takes the change it has sent off the queue.
Done == send.pc \in {"cape", "capeAnswer"} /\ Succeed

\* A skin change that is taken off the queue as sent has been carried out: the
\* account wears that skin with that cape, whatever was cached before.
EquipTakesHold ==
    [][Done /\ running.kind # "unequip"
         => mojang' = [tex |-> running.key[1], cape |-> running.cape]]_vars

\* An unequip that is taken off the queue as sent has taken the cape off.
UnequipTakesCapeOff ==
    [][Done /\ running.kind = "unequip"
         => mojang'.tex \in Defaults /\ mojang'.cape = None]_vars
=============================================================================
