---------------------------- MODULE SkinWardrobe ----------------------------
(***************************************************************************)
(* What a skin change does for one account: the requests sent to Mojang,   *)
(* the cached profile, the skins saved in the app's database, and the      *)
(* listing of skins that reads and corrects them.  The queue the changes   *)
(* come through is PendingSlot, which SkinQueue implements.                *)
(*                                                                         *)
(* A step is what happens between two awaits.  A saved skin is its key and *)
(* its cape: the model variant takes the same way as the cape, display     *)
(* order and image data are left out.  Nobody but the app changes the      *)
(* account, the account stays signed in, and the player acts on the skins  *)
(* a listing would show at that moment.  The player saves no texture once  *)
(* more while a change that equips it is sent: the flush may then remove   *)
(* the only row it has left (minecraft_skins.rs:669-677).                  *)
(*                                                                         *)
(* Bounds: MaxOps commands of the player, MaxLists listings, MaxFaults     *)
(* requests or statements that fail or whose answer is lost.               *)
(***************************************************************************)
EXTENDS Naturals

CONSTANTS Uploads,   \* textures of the player's own skins
          Defaults,  \* textures of the bundled default skins
          Fallback,  \* the default skin shown while an unequip is pending
          Capes, None,
          MaxOps, MaxLists, MaxFaults

ASSUME FallbackIsDefault == Fallback \in Defaults
ASSUME TexturesDiffer == Uploads \cap Defaults = {}

VARIABLES slot, running, \* PENDING_SKIN_CHANGE and the change being sent
          send,    \* the flush that sends it
          mojang,  \* external: the account's profile at Mojang
          cache,   \* PROFILE_CACHE
          fetch,   \* online_profile_with_cache_intent, for the flush and the
                   \* listing
          rows,    \* custom_minecraft_skins: key -> cape
          op,      \* the command of the player under way
          list,    \* get_available_skins under way
          kept,    \* observation: whether each of the player's textures has
                   \* been saved, is only worn, or need not be kept
          ops, lists, faults

queue  == <<slot, running>>
bounds == <<ops, lists, faults>>
vars == <<queue, send, mojang, cache, fetch, rows, op, list, kept, bounds>>

Textures == Uploads \cup Defaults
Cape == Capes \cup {None}

\* The key of a texture that was hashed here, and Mojang's key for it.
Local(t)  == <<t, "local">>
Hosted(t) == <<t, "hosted">>
Key == Textures \X {"local", "hosted"}

Profile == [tex : Textures, cape : Cape]

ASSUME NoneIsNoProfile == None \notin Profile

\* PendingSkinChange: custom is SkinSource::Custom.
Change ==
    [kind : {"add", "equip"}, key : Key, cape : Cape, custom : BOOLEAN]
      \cup [kind : {"unequip"}, key : {None}, cape : {None}, custom : {FALSE}]

Slot == INSTANCE PendingSlot WITH
    Changes <- Change, Keys <- Key, KeyOf <- [c \in Change |-> c.key]

NoFetch == [pc |-> "idle", live |-> FALSE, stale |-> None, seen |-> None]
NoCache == [profile |-> None, fresh |-> FALSE, backoff |-> FALSE]
NoSend  == [pc |-> "idle", profile |-> None, reply |-> None]
NoOp    == [pc |-> "idle", change |-> None, key |-> None]
NoList  == [pc |-> "idle", seen |-> None, slot |-> None, target |-> None]

\* A player who wears a skin of their own, or a default one, that the app has
\* not seen yet.
Init ==
    /\ Slot!Init
    /\ mojang \in [tex : Textures, cape : {None}]
    /\ kept = [t \in Uploads |-> IF t = mojang.tex THEN "worn" ELSE "no"]
    /\ send = NoSend /\ cache = NoCache /\ op = NoOp /\ list = NoList
    /\ fetch = [r \in {"flush", "list"} |-> NoFetch]
    /\ rows = << >>
    /\ ops = 0 /\ lists = 0 /\ faults = 0

Fault == faults < MaxFaults /\ faults' = faults + 1

\* CustomMinecraftSkin::add and remove.
Put(k, c) == [x \in DOMAIN rows \cup {k} |-> IF x = k THEN c ELSE rows[x]]
Drop(k) == [x \in DOMAIN rows \ {k} |-> rows[x]]

\* Mutant: every skin without a cape is dropped.
SaveCaped(k, c) == IF c = None THEN Drop(k) ELSE Put(k, c)

\* Bundled default skins are only saved when they have a cape.
Save(k, c) == IF c = None /\ k[1] \in Defaults THEN Drop(k) ELSE Put(k, c)

\* The texture t is, from here on, saved, or free to go.
Mark(t, how) == [u \in Uploads |-> IF u = t THEN how ELSE kept[u]]

\* One that was only worn is now saved as well.
Preserved(t) == [u \in Uploads |-> IF u = t /\ kept[u] = "worn" THEN "saved"
                                  ELSE kept[u]]

-----------------------------------------------------------------------------
(* online_profile_with_cache_intent.  Only a live read (the last few       *)
(* seconds will do) may use the cache, and only it falls back on what the  *)
(* cache held when the request fails.                                      *)

Begin(r, live) ==
    fetch' = [fetch EXCEPT ![r] = [NoFetch EXCEPT !.pc = "look",
                                                  !.live = live]]

End(r) == fetch' = [fetch EXCEPT ![r] = NoFetch]

Look(r) ==
    /\ fetch[r].pc = "look"
    /\ \/ /\ fetch[r].live /\ cache.fresh
          /\ fetch' = [fetch EXCEPT ![r].pc = "done",
                                    ![r].seen = cache.profile]
          /\ UNCHANGED cache
       \/ /\ cache.backoff
          /\ fetch' = [fetch EXCEPT ![r].pc = "done"]
          /\ UNCHANGED cache
       \/ \* after a minute, or with a new token, the backoff is lifted
          /\ cache.backoff
          /\ fetch' = [fetch EXCEPT ![r].pc = "ask"]
          /\ cache' = NoCache
       \/ /\ ~cache.backoff /\ ~(fetch[r].live /\ cache.fresh)
          /\ fetch' = [fetch EXCEPT ![r].pc = "ask",
                                    ![r].stale = cache.profile]
          /\ UNCHANGED cache
    /\ UNCHANGED <<queue, send, mojang, rows, op, list, kept, bounds>>

\* Mojang answers; the answer is on its way.
Answer(r) ==
    /\ fetch[r].pc = "ask"
    /\ fetch' = [fetch EXCEPT ![r].pc = "store", ![r].seen = mojang]
    /\ UNCHANGED <<queue, send, mojang, cache, rows, op, list, kept, bounds>>

Hit(profile) == [profile |-> profile, fresh |-> TRUE, backoff |-> FALSE]

Store(r) ==
    /\ fetch[r].pc = "store"
    /\ cache' = Hit(fetch[r].seen)
    /\ fetch' = [fetch EXCEPT ![r].pc = "done"]
    /\ UNCHANGED <<queue, send, mojang, rows, op, list, kept, bounds>>

FetchFails(r) ==
    /\ fetch[r].pc = "ask"
    /\ Fault
    /\ fetch' = [fetch EXCEPT ![r].pc = "done",
                    ![r].seen = IF fetch[r].live THEN fetch[r].stale ELSE None]
    /\ UNCHANGED <<queue, send, mojang, cache, rows, op, list, kept, ops,
                   lists>>

Unauthorized(r) ==
    /\ fetch[r].pc = "ask"
    /\ Fault
    /\ cache' = [NoCache EXCEPT !.backoff = TRUE]
    /\ fetch' = [fetch EXCEPT ![r].pc = "done"]
    /\ UNCHANGED <<queue, send, mojang, rows, op, list, kept, ops, lists>>

\* The few seconds are over.
Expire ==
    /\ cache.fresh
    /\ cache' = [cache EXCEPT !.fresh = FALSE]
    /\ UNCHANGED <<queue, send, mojang, fetch, rows, op, list, kept, bounds>>

-----------------------------------------------------------------------------
(* execute_pending_skin_change: add_and_equip_custom_skin_now,             *)
(* equip_skin_now and unequip_skin_now.                                    *)

GoTo(pc) == send' = [send EXCEPT !.pc = pc] /\ UNCHANGED queue

FailSend == Slot!Fail /\ send' = NoSend

Succeed == Slot!Succeed /\ send' = NoSend

\* refresh_profile_cache, after which the error is returned.
RefreshAndFail == GoTo("refresh") /\ Begin("flush", FALSE)

Send ==
    /\ Slot!Send
    /\ send' = [send EXCEPT !.pc = "profile"]
    /\ Begin("flush", TRUE)
    /\ UNCHANGED <<mojang, cache, rows, op, list, kept, bounds>>

Profiled ==
    /\ send.pc = "profile"
    /\ fetch["flush"].pc = "done"
    /\ IF fetch["flush"].seen = None THEN FailSend
       ELSE /\ send' = [send EXCEPT !.pc = "preserve",
                                    !.profile = fetch["flush"].seen]
            /\ UNCHANGED queue
    /\ End("flush")
    /\ UNCHANGED <<mojang, cache, rows, op, list, kept, bounds>>

\* preserve_current_profile_skin looks up the skin the account wears: saved
\* with other settings, it is read again; not saved, it is downloaded.
Worn == Hosted(send.profile.tex)

\* Mutant: the skin the account wears is not looked up.
PreserveNot ==
    /\ send.pc = "preserve"
    /\ GoTo("upload")
    /\ UNCHANGED <<mojang, cache, fetch, rows, op, list, kept, bounds>>

Preserve ==
    /\ send.pc = "preserve"
    /\ IF \/ send.profile.tex \in Defaults
          \/ Worn \in DOMAIN rows /\ rows[Worn] = send.profile.cape
       THEN GoTo("upload")
       ELSE GoTo(IF Worn \in DOMAIN rows THEN "reread" ELSE "keep")
    /\ UNCHANGED <<mojang, cache, fetch, rows, op, list, kept, bounds>>

\* texture_blob, which the row has taken with it if it was removed meanwhile.
Reread ==
    /\ send.pc = "reread"
    /\ IF Worn \in DOMAIN rows THEN GoTo("keep") ELSE FailSend
    /\ UNCHANGED <<mojang, cache, fetch, rows, op, list, kept, bounds>>

Keep ==
    /\ send.pc = "keep"
    /\ \/ /\ rows' = Put(Worn, send.profile.cape)
          /\ kept' = Preserved(send.profile.tex)
          /\ GoTo("upload")
          /\ UNCHANGED faults
       \/ Fault /\ FailSend /\ UNCHANGED <<rows, kept>>
    /\ UNCHANGED <<mojang, cache, fetch, op, list, ops, lists>>

\* MinecraftSkinOperation::equip and unequip_any: the request is refused, or
\* carried out and answered, or carried out and the answer lost.
Upload ==
    /\ send.pc = "upload"
    /\ \/ Fault /\ FailSend /\ UNCHANGED mojang
       \/ /\ IF running.kind = "unequip"
             THEN \E d \in Defaults : mojang' = [mojang EXCEPT !.tex = d]
             ELSE mojang' = [mojang EXCEPT !.tex = running.key[1]]
          /\ \/ Fault /\ FailSend
             \/ /\ send' = [send EXCEPT !.pc = "answer", !.reply = mojang']
                /\ UNCHANGED <<queue, faults>>
    /\ UNCHANGED <<cache, fetch, rows, op, list, kept, ops, lists>>

\* Mutant: sync_cape is given the profile read before the upload.
AnsweredBefore ==
    /\ send.pc = "answer"
    /\ cache' = Hit(send.reply)
    /\ send' = IF running.kind = "unequip"
               THEN [send EXCEPT !.pc = "cape", !.reply = None]
               ELSE [send EXCEPT !.pc = "persist", !.reply = None,
                                 !.profile.tex = send.reply.tex]
    /\ UNCHANGED <<queue, mojang, fetch, rows, op, list, kept, bounds>>

\* update_profile_cache_from_response; a profile that cannot be read is asked
\* for again, except by unequip_skin_now, which keeps the one it has.
Answered ==
    /\ send.pc = "answer"
    /\ \/ /\ cache' = Hit(send.reply)
          /\ send' = IF running.kind = "unequip"
                     THEN [send EXCEPT !.pc = "cape", !.reply = None]
                     ELSE [send EXCEPT !.pc = "persist", !.reply = None,
                                       !.profile = send.reply]
          /\ UNCHANGED <<fetch, faults>>
       \/ /\ Fault
          /\ UNCHANGED cache
          /\ IF running.kind = "unequip"
             THEN /\ send' = [send EXCEPT !.pc = "cape", !.reply = None]
                  /\ UNCHANGED fetch
             ELSE /\ send' = [send EXCEPT !.pc = "confirm", !.reply = None]
                  /\ Begin("flush", FALSE)
    /\ UNCHANGED <<queue, mojang, rows, op, list, kept, ops, lists>>

Confirmed ==
    /\ send.pc = "confirm"
    /\ fetch["flush"].pc = "done"
    /\ IF fetch["flush"].seen = None THEN FailSend
       ELSE /\ send' = [send EXCEPT !.pc = "persist",
                                    !.profile = fetch["flush"].seen]
            /\ UNCHANGED queue
    /\ End("flush")
    /\ UNCHANGED <<mojang, cache, rows, op, list, kept, bounds>>

\* The equipped skin is saved under Mojang's key.  A skin that was saved under
\* that key already is left alone when it is equipped again.
Persist ==
    /\ send.pc = "persist"
    /\ \/ /\ rows' = IF /\ running.kind = "equip" /\ running.custom
                        /\ running.key = Worn
                        /\ ~(running.cape = None /\ Worn[1] \in Defaults)
                     THEN rows ELSE Save(Worn, running.cape)
          /\ GoTo(IF running.key = Worn THEN "cape" ELSE "drop")
          /\ UNCHANGED <<fetch, faults>>
       \/ Fault /\ RefreshAndFail /\ UNCHANGED rows
       \/ \* looking up the place of the row fails
          Fault /\ running.kind = "add" /\ FailSend /\ UNCHANGED <<fetch, rows>>
    /\ UNCHANGED <<mojang, cache, op, list, kept, ops, lists>>

\* The row under the key it had before goes.
DropOld ==
    /\ send.pc = "drop"
    /\ \/ /\ rows' = Drop(running.key)
          /\ GoTo("cape")
          /\ UNCHANGED <<fetch, faults>>
       \/ /\ Fault
          /\ IF running.kind = "equip" THEN RefreshAndFail
             ELSE FailSend /\ UNCHANGED fetch
          /\ UNCHANGED rows
    /\ UNCHANGED <<mojang, cache, op, list, kept, ops, lists>>

\* sync_cape, against the profile this flush has.
SyncCape ==
    /\ send.pc = "cape"
    /\ IF send.profile.cape = running.cape
       THEN Succeed /\ UNCHANGED <<mojang, fetch, faults>>
       ELSE \/ Fault /\ RefreshAndFail /\ UNCHANGED mojang
            \/ /\ mojang' = [mojang EXCEPT !.cape = running.cape]
               /\ \/ Fault /\ RefreshAndFail
                  \/ /\ send' = [send EXCEPT !.pc = "capeAnswer",
                                             !.reply = mojang']
                     /\ UNCHANGED <<queue, fetch, faults>>
    /\ UNCHANGED <<cache, rows, op, list, kept, ops, lists>>

CapeAnswered ==
    /\ send.pc = "capeAnswer"
    /\ Succeed
    /\ \/ cache' = Hit(send.reply) /\ UNCHANGED faults
       \/ Fault /\ UNCHANGED cache
    /\ UNCHANGED <<mojang, fetch, rows, op, list, kept, ops, lists>>

\* Mutant: the error is returned while the profile is still fetched.
RefreshedEarly ==
    /\ send.pc = "refresh"
    /\ FailSend
    /\ UNCHANGED <<mojang, cache, fetch, rows, op, list, kept, bounds>>

Refreshed ==
    /\ send.pc = "refresh"
    /\ fetch["flush"].pc = "done"
    /\ FailSend
    /\ End("flush")
    /\ UNCHANGED <<mojang, cache, rows, op, list, kept, bounds>>

-----------------------------------------------------------------------------
(* The player's commands.                                                  *)

Command ==
    /\ op.pc = "idle"
    /\ ops < MaxOps
    /\ ops' = ops + 1
    /\ UNCHANGED <<send, mojang, cache, fetch, list, lists, faults>>

Sent(t) == running # None /\ running.key \in {Local(t), Hosted(t)}

\* add_and_equip_custom_skin: the row, then the pending change.
AddAndEquip(t, c) ==
    /\ Command
    /\ ~Sent(t)
    /\ rows' = Put(Local(t), c)
    /\ kept' = Mark(t, "saved")
    /\ op' = [NoOp EXCEPT !.pc = "set",
                !.change = [kind |-> "add", key |-> Local(t), cape |-> c,
                            custom |-> TRUE]]
    /\ UNCHANGED queue

SetAdded ==
    /\ op.pc = "set"
    /\ Slot!SetChange(op.change)
    /\ op' = NoOp
    /\ UNCHANGED <<send, mojang, cache, fetch, rows, list, kept, bounds>>

Saved == {k \in DOMAIN rows : k[1] \in Uploads}

\* The skins a listing shows: saved ones, default ones, and the one worn.
Shown ==
    {[kind |-> "equip", key |-> k, cape |-> rows[k], custom |-> TRUE] :
        k \in Saved}
    \cup {[kind |-> "equip", key |-> Hosted(d), custom |-> FALSE,
           cape |-> IF Hosted(d) \in DOMAIN rows THEN rows[Hosted(d)]
                    ELSE None] : d \in Defaults}
    \cup {[kind |-> "equip", key |-> Hosted(t), cape |-> mojang.cape,
           custom |-> FALSE] :
              t \in {x \in {mojang.tex} : /\ x \notin Defaults
                                          /\ Hosted(x) \notin DOMAIN rows}}

\* equip_skin and unequip_skin.
Equip(change) ==
    /\ Command
    /\ Slot!SetChange(change)
    /\ UNCHANGED <<rows, op, kept>>

Unequip ==
    Equip([kind |-> "unequip", key |-> None, cape |-> None, custom |-> FALSE])

\* remove_custom_skin: the row, then the pending change that would equip it.
Remove(k) ==
    /\ Command
    /\ rows' = Drop(k)
    /\ kept' = Mark(k[1], "no")
    /\ op' = [NoOp EXCEPT !.pc = "cancel", !.key = k]
    /\ UNCHANGED queue

CancelRemoved ==
    /\ op.pc = "cancel"
    /\ \/ Slot!CancelChange(op.key)
       \/ (slot # None => slot.key # op.key) /\ UNCHANGED queue
    /\ op' = NoOp
    /\ UNCHANGED <<send, mojang, cache, fetch, rows, list, kept, bounds>>

\* save_custom_skin, which keeps the texture or replaces it.
Edit(k, c) ==
    /\ Command
    /\ rows' = Save(k, c)
    /\ kept' = Preserved(k[1])
    /\ UNCHANGED <<queue, op>>

Replace(k, t, c) ==
    /\ Command
    /\ t # k[1] /\ ~Sent(t)
    /\ rows' = Put(Local(t), c)
    /\ kept' = [Mark(k[1], "no") EXCEPT ![t] = "saved"]
    /\ op' = IF k = Local(t) THEN NoOp
             ELSE [NoOp EXCEPT !.pc = "replaced", !.key = k]
    /\ UNCHANGED queue

DropReplaced ==
    /\ op.pc = "replaced"
    /\ rows' = Drop(op.key)
    /\ op' = NoOp
    /\ UNCHANGED <<queue, send, mojang, cache, fetch, list, kept, bounds>>

-----------------------------------------------------------------------------
(* get_available_skins                                                     *)

List ==
    /\ list.pc = "idle"
    /\ lists < MaxLists
    /\ lists' = lists + 1
    /\ list' = [list EXCEPT !.pc = "profile"]
    /\ Begin("list", TRUE)
    /\ UNCHANGED <<queue, send, mojang, cache, rows, op, kept, ops, faults>>

ListProfiled ==
    /\ list.pc = "profile"
    /\ fetch["list"].pc = "done"
    /\ list' = [list EXCEPT !.pc = "pending", !.seen = fetch["list"].seen]
    /\ End("list")
    /\ UNCHANGED <<queue, send, mojang, cache, rows, op, kept, bounds>>

ListPending ==
    /\ list.pc = "pending"
    /\ list' = [list EXCEPT !.pc = "rows", !.slot = slot]
    /\ UNCHANGED <<queue, send, mojang, cache, fetch, rows, op, kept, bounds>>

\* What the listing takes for the current skin: with an unequip pending, the
\* fallback.  A pending skin, or no profile, and the rows are left as they are.
Current == IF list.slot = None THEN list.seen
           ELSE [tex |-> Fallback, cape |-> None]

Corrects == /\ list.seen # None
            /\ list.slot # None => list.slot.kind = "unequip"
            /\ Hosted(Current.tex) \in DOMAIN rows
            /\ rows[Hosted(Current.tex)] # Current.cape

ListRows ==
    /\ list.pc = "rows"
    /\ list' = IF Corrects THEN [list EXCEPT !.pc = "texture",
                                             !.target = Current]
               ELSE NoList
    /\ UNCHANGED <<queue, send, mojang, cache, fetch, rows, op, kept, bounds>>

\* The image of a row that was removed meanwhile is gone: the listing fails.
ListTexture ==
    /\ list.pc = "texture"
    /\ list' = IF Hosted(list.target.tex) \in DOMAIN rows
               THEN [list EXCEPT !.pc = "write"] ELSE NoList
    /\ UNCHANGED <<queue, send, mojang, cache, fetch, rows, op, kept, bounds>>

ListWrite ==
    /\ list.pc = "write"
    /\ rows' = Save(Hosted(list.target.tex), list.target.cape)
    /\ list' = NoList
    /\ UNCHANGED <<queue, send, mojang, cache, fetch, op, kept, bounds>>

-----------------------------------------------------------------------------
(* Specification.                                                          *)

Fetching == \E r \in {"flush", "list"} :
               Look(r) \/ Answer(r) \/ Store(r) \/ FetchFails(r)
                       \/ Unauthorized(r)

Sending == \/ Profiled \/ Preserve \/ Reread \/ Keep \/ Upload \/ Answered
           \/ Confirmed \/ Persist \/ DropOld \/ SyncCape \/ CapeAnswered
           \/ Refreshed

Commands ==
    \/ \E c \in Cape :
         \/ \E t \in Uploads : AddAndEquip(t, c)
         \/ \E skin \in Shown : Edit(skin.key, c)
         \/ \E k \in Saved, t \in Uploads : Replace(k, t, c)
    \/ \E change \in Shown : Equip(change)
    \/ \E k \in Saved : Remove(k)
    \/ Unequip

Listing == ListProfiled \/ ListPending \/ ListRows \/ ListTexture \/ ListWrite

Next == \/ Fetching \/ Expire \/ Send \/ Sending
        \/ Commands \/ SetAdded \/ CancelRemoved \/ DropReplaced
        \/ List \/ Listing

Spec == Init /\ [][Next]_vars
=============================================================================
