------------------------- MODULE SkinWardrobeProofs -------------------------
(***************************************************************************)
(* Theorems about SkinWardrobe, for any textures, capes and numbers of     *)
(* commands, listings and faults.                                          *)
(***************************************************************************)
EXTENDS SkinWardrobeProperties, TLAPS

(* What TypeOK needs to be inductive: the copies that the flush, the         *)
(* fetches, the command and the listing work on are there when they are used. *)

SendPcs == {"idle", "profile", "preserve", "reread", "keep", "upload",
            "answer", "confirm", "persist", "drop", "cape", "capeAnswer",
            "refresh"}

SendOK(x) ==
    /\ x \in [pc : SendPcs, profile : ProfileOrNone, reply : ProfileOrNone]
    /\ x.pc \notin {"idle", "profile"} => x.profile \in Profile
    /\ x.pc \in {"answer", "capeAnswer"} => x.reply \in Profile

SendTyped == SendOK(send)

FetchTyped == \A r \in {"flush", "list"} :
    fetch[r].pc = "store" => fetch[r].seen \in Profile

\* What DropReplaced drops is a skin of the player's.
OpTyped ==
    /\ op \in [pc : {"idle", "set", "cancel", "replaced"},
               change : Change \cup {None}, key : Key \cup {None}]
    /\ op.pc = "set" => op.change \in Change
    /\ op.pc = "replaced" => op.key \in Key

ListTyped ==
    /\ list \in [pc : {"idle", "profile", "pending", "rows", "texture",
                       "write"},
                 seen : ProfileOrNone, slot : Change \cup {None},
                 target : ProfileOrNone]
    /\ list.pc \in {"texture", "write"} => list.target \in Profile

Typed == TypeOK /\ SendTyped /\ FetchTyped /\ OpTyped /\ ListTyped

----------------------------------------------------------------------------
(* No skin is lost. *)

\* The saved ones are.
SavedIsSaved == \A t \in Uploads : kept[t] = "saved" => IsSaved(t)

\* As long as the worn skin the app has found is saved nowhere, the account
\* has worn nothing else since: every profile in circulation names it.
Names(x, t) == x # None => x.tex = t

Circulates(t) ==
    /\ mojang.tex = t /\ Names(cache.profile, t)
    /\ Names(send.profile, t) /\ Names(send.reply, t)
    /\ \A r \in {"flush", "list"} :
          Names(fetch[r].stale, t) /\ Names(fetch[r].seen, t)

WornIsKnown ==
    \A t \in Uploads : kept[t] = "worn" /\ ~IsSaved(t) => Circulates(t)

\* Nothing is uploaded over it before it is saved.
SavedBeforeUpload ==
    send.pc = "upload" =>
        \A t \in Uploads : kept[t] = "worn" => IsSaved(t)

\* The row under the old key goes once there is one under Mojang's.
SavedBeforeDrop ==
    send.pc = "drop" =>
        /\ running.key # Worn
        /\ send.profile.tex \in Uploads /\ kept[send.profile.tex] # "no" =>
              Worn \in DOMAIN rows

\* A texture that has been replaced need not be kept.
ReplacedMayGo ==
    op.pc = "replaced" => op.key[1] \in Uploads /\ kept[op.key[1]] = "no"

Keeping == /\ SavedIsSaved /\ WornIsKnown /\ SavedBeforeUpload
           /\ SavedBeforeDrop /\ ReplacedMayGo

----------------------------------------------------------------------------
(* What the flush knows of the profile once it has uploaded the skin. *)

Uploaded == {"answer", "confirm", "persist", "drop", "cape", "capeAnswer"}

Matched ==
    /\ send.pc \in {"confirm", "persist", "drop"} => running.kind # "unequip"
    /\ running # None /\ running.kind # "unequip" =>
        /\ send.pc \in Uploaded => mojang.tex = running.key[1]
        /\ send.pc = "answer" => send.reply = mojang
        /\ send.pc \in {"persist", "drop", "cape"} => send.profile = mojang
        /\ send.pc = "capeAnswer" => mojang.cape = running.cape
        /\ send.pc = "confirm" =>
              /\ ~fetch["flush"].live
              /\ fetch["flush"].pc \in {"look", "ask"} =>
                    fetch["flush"].seen = None
              /\ fetch["flush"].seen \in {None, mojang}

----------------------------------------------------------------------------
(* Shapes. *)

FetchRec == [pc : {"idle", "look", "ask", "store", "done"}, live : BOOLEAN,
             stale : ProfileOrNone, seen : ProfileOrNone]

CacheRec == [profile : ProfileOrNone, fresh : BOOLEAN, backoff : BOOLEAN]

RowsTyped(f) == f \in [DOMAIN f -> Cape] /\ DOMAIN f \subseteq Key

\* Saving or removing a skin keeps the shape of the table.
LEMMA TableTyped ==
    ASSUME RowsTyped(rows), NEW k \in Key, NEW c \in Cape
    PROVE  RowsTyped(Put(k, c)) /\ RowsTyped(Drop(k)) /\ RowsTyped(Save(k, c))
<1>1. RowsTyped(Put(k, c))
  BY DEF RowsTyped, Put
<1>2. RowsTyped(Drop(k))
  BY DEF RowsTyped, Drop
<1> QED
  BY <1>1, <1>2 DEF Save

\* The parts of Typed that a step can change together.
FetchOK(f, sendpc, listpc) ==
    /\ f \in [{"flush", "list"} -> FetchRec]
    /\ \A r \in {"flush", "list"} : f[r].pc = "store" => f[r].seen \in Profile
    /\ (f["flush"].pc = "idle")
         = (sendpc \notin {"profile", "confirm", "refresh"})
    /\ (f["list"].pc = "idle") = (listpc # "profile")

CacheOK(x) == x \in CacheRec /\ (x.fresh => x.profile \in Profile)

QueueOK == /\ slot \in Change \cup {None} /\ running \in Change \cup {None}
           /\ (send.pc = "idle") = (running = None)

RestOK == mojang \in Profile /\ kept \in [Uploads -> {"no", "worn", "saved"}]

Parts == /\ FetchOK(fetch, send.pc, list.pc) /\ CacheOK(cache) /\ QueueOK
         /\ RestOK /\ RowsTyped(rows) /\ SendTyped /\ OpTyped /\ ListTyped

LEMMA PartsAreTyped == Parts <=> Typed
<1> USE NoneIsNoProfile
<1>1. CacheOK(cache) <=> /\ cache \in CacheRec
                         /\ cache.fresh => cache.profile # None
  BY DEF CacheOK, CacheRec, ProfileOrNone
<1>2. FetchOK(fetch, send.pc, list.pc) <=>
        /\ fetch \in [{"flush", "list"} -> FetchRec] /\ FetchTyped
        /\ (fetch["flush"].pc = "idle")
             = (send.pc \notin {"profile", "confirm", "refresh"})
        /\ (fetch["list"].pc = "idle") = (list.pc # "profile")
  BY DEF FetchOK, FetchTyped
<1>3. SendTyped => send.profile \in ProfileOrNone /\ send.reply \in ProfileOrNone
  BY DEF SendTyped, SendOK
<1> QED
  BY <1>1, <1>2, <1>3 DEF Parts, Typed, TypeOK, QueueOK, RestOK, RowsTyped, FetchRec,
                    CacheRec

LEMMA PartsInit == Init => Parts
<1> SUFFICES ASSUME Init PROVE Parts
  OBVIOUS
<1> USE DEF Init
<1>1. mojang \in Profile /\ Profile # {}
  BY DEF Profile, Cape
<1>2. FetchOK(fetch, send.pc, list.pc)
  BY DEF FetchOK, FetchRec, NoFetch, NoSend, NoList, ProfileOrNone
<1>3. CacheOK(cache)
  BY DEF CacheOK, CacheRec, NoCache, ProfileOrNone
<1>4. QueueOK
  BY DEF QueueOK, Slot!Init, NoSend
<1>5. RestOK
  BY <1>1 DEF RestOK
<1>6. RowsTyped(rows)
  BY DEF RowsTyped
<1>7. SendTyped /\ OpTyped /\ ListTyped
  BY DEF SendTyped, SendOK, OpTyped, ListTyped, NoSend, NoOp, NoList, SendPcs,
         ProfileOrNone
<1> QED
  BY <1>2, <1>3, <1>4, <1>5, <1>6, <1>7 DEF Parts

\* A fetch of the profile that is looked up, asked for or answered.
LEMMA FetchingTyped ==
    ASSUME Parts, NEW r \in {"flush", "list"},
           Look(r) \/ Answer(r) \/ Store(r) \/ FetchFails(r) \/ Unauthorized(r)
    PROVE  Parts'
<1> USE NoneIsNoProfile
<1>1. UNCHANGED <<queue, send, mojang, rows, op, list, kept>>
  BY DEF Look, Answer, Store, FetchFails, Unauthorized
<1>2. fetch \in [{"flush", "list"} -> FetchRec] /\ fetch[r] \in FetchRec
      /\ fetch[r].pc # "idle"
  BY DEF Parts, FetchOK, Look, Answer, Store, FetchFails, Unauthorized
<1>3. \E x \in FetchRec : /\ fetch' = [fetch EXCEPT ![r] = x]
                          /\ x.pc # "idle"
                          /\ x.pc = "store" => x.seen \in Profile
  <2> DEFINE Becomes(x) == /\ x \in FetchRec /\ fetch' = [fetch EXCEPT ![r] = x]
                           /\ x.pc # "idle"
                           /\ x.pc = "store" => x.seen \in Profile
             Has(p) == [fetch[r] EXCEPT !.pc = "done", !.seen = p]
             Asking(p) == [fetch[r] EXCEPT !.pc = "ask", !.stale = p]
  <2>1. cache.profile \in ProfileOrNone /\ mojang \in ProfileOrNone
        /\ mojang \in Profile /\ None \in ProfileOrNone
    BY DEF Parts, CacheOK, CacheRec, RestOK, ProfileOrNone
  <2>2. ASSUME NEW p \in ProfileOrNone
        PROVE  Has(p) \in FetchRec /\ Has(p).pc = "done"
               /\ Asking(p) \in FetchRec /\ Asking(p).pc = "ask"
    BY <1>2 DEF FetchRec
  <2>3. CASE Look(r)
    <3>1. CASE fetch' = [fetch EXCEPT ![r].pc = "done", ![r].seen = cache.profile]
      <4>1. fetch' = [fetch EXCEPT ![r] = Has(cache.profile)]
        BY <1>2, <3>1
      <4> QED
        BY <2>1, <2>2, <4>1
    <3>2. CASE fetch' = [fetch EXCEPT ![r].pc = "ask", ![r].stale = cache.profile]
      <4>1. fetch' = [fetch EXCEPT ![r] = Asking(cache.profile)]
        BY <1>2, <3>2
      <4> QED
        BY <2>1, <2>2, <4>1
    <3>3. ASSUME NEW pc \in {"done", "ask"}, fetch' = [fetch EXCEPT ![r].pc = pc]
          PROVE  Becomes([fetch[r] EXCEPT !.pc = pc])
      <4>1. fetch' = [fetch EXCEPT ![r] = [fetch[r] EXCEPT !.pc = pc]]
        BY <1>2, <3>3
      <4>2. [fetch[r] EXCEPT !.pc = pc] \in FetchRec
            /\ [fetch[r] EXCEPT !.pc = pc].pc = pc
        BY <1>2 DEF FetchRec
      <4> QED
        BY <4>1, <4>2
    <3> QED
      BY <2>3, <3>1, <3>2, <3>3 DEF Look
  <2>4. CASE Answer(r)
    <3> DEFINE x == [fetch[r] EXCEPT !.pc = "store", !.seen = mojang]
    <3>1. x \in FetchRec /\ x.pc = "store" /\ x.seen = mojang
      BY <1>2, <2>1 DEF FetchRec
    <3>2. fetch' = [fetch EXCEPT ![r] = x]
      BY <1>2, <2>4 DEF Answer
    <3> HIDE DEF x
    <3> QED
      BY <2>1, <3>1, <3>2
  <2>5. CASE Store(r) \/ Unauthorized(r)
    <3>1. fetch' = [fetch EXCEPT ![r] = [fetch[r] EXCEPT !.pc = "done"]]
      BY <1>2, <2>5 DEF Store, Unauthorized
    <3>2. [fetch[r] EXCEPT !.pc = "done"] \in FetchRec
          /\ [fetch[r] EXCEPT !.pc = "done"].pc = "done"
      BY <1>2 DEF FetchRec
    <3> QED
      BY <3>1, <3>2
  <2>6. CASE FetchFails(r)
    <3> DEFINE p == IF fetch[r].live THEN fetch[r].stale ELSE None
    <3>1. p \in ProfileOrNone
      BY <1>2, <2>1 DEF FetchRec
    <3>2. fetch' = [fetch EXCEPT ![r].pc = "done", ![r].seen = p]
      BY <2>6 DEF FetchFails
    <3> HIDE DEF p
    <3>3. fetch' = [fetch EXCEPT ![r] = Has(p)]
      BY <1>2, <3>2
    <3> QED
      BY <2>2, <3>1, <3>3
  <2> QED
    BY <2>3, <2>4, <2>5, <2>6
<1>4. CacheOK(cache')
  <2>1. CacheOK(NoCache) /\ CacheOK([NoCache EXCEPT !.backoff = TRUE])
    BY DEF CacheOK, CacheRec, NoCache, ProfileOrNone
  <2>2. CASE Store(r)
    <3>1. fetch[r].seen \in Profile
      BY <2>2 DEF Store, Parts, FetchOK
    <3> QED
      BY <2>2, <3>1 DEF Store, Hit, CacheOK, CacheRec, ProfileOrNone
  <2> QED
    BY <2>1, <2>2 DEF Parts, Look, Answer, FetchFails, Unauthorized
<1>5. FetchOK(fetch', send.pc, list.pc)
  BY <1>2, <1>3 DEF Parts, FetchOK
<1> QED
  BY <1>1, <1>4, <1>5 DEF Parts, QueueOK, queue, RestOK, SendTyped, OpTyped,
                          ListTyped

----------------------------------------------------------------------------
(* Shapes: the flush. *)

Fetches == {"profile", "confirm", "refresh"}

\* The flush goes on with what it has.
LEMMA SendGoes ==
    ASSUME SendTyped, send.pc \notin {"idle", "profile"},
           NEW pc \in SendPcs \ {"answer", "capeAnswer"},
           send' = [send EXCEPT !.pc = pc]
    PROVE  /\ SendTyped' /\ send'.pc = pc
           /\ send'.profile = send.profile /\ send'.reply = send.reply
BY DEF SendTyped, SendOK

\* A change that is sent, or could not be, ends the flush.
LEMMA SendEnds ==
    ASSUME QueueOK, FailSend \/ Succeed
    PROVE  QueueOK' /\ SendTyped' /\ send' = NoSend /\ send'.pc = "idle"
<1>1. send' = NoSend /\ NoSend.pc = "idle" /\ running' = None
  BY DEF FailSend, Succeed, Slot!Fail, Slot!Succeed, NoSend
<1>2. slot' \in Change \cup {None}
  BY DEF QueueOK, FailSend, Succeed, Slot!Fail, Slot!Succeed
<1>3. None \in Change \cup {None}
  OBVIOUS
<1>4. QueueOK'
  BY <1>1, <1>2, <1>3 DEF QueueOK
<1>5. SendOK(NoSend)
  BY DEF SendOK, NoSend, SendPcs, ProfileOrNone
<1> QED
  BY <1>1, <1>4, <1>5 DEF SendTyped

\* The profile of the flush is fetched while it waits for it.
LEMMA FlushFetch ==
    ASSUME FetchOK(fetch, send.pc, list.pc), UNCHANGED list
    PROVE  /\ \A b \in BOOLEAN : Begin("flush", b) /\ send'.pc \in Fetches =>
                 FetchOK(fetch, send.pc, list.pc)'
           /\ End("flush") /\ send'.pc \notin Fetches =>
                 FetchOK(fetch, send.pc, list.pc)'
           /\ fetch' = fetch /\ (send'.pc \in Fetches <=> send.pc \in Fetches) =>
                 FetchOK(fetch, send.pc, list.pc)'
<1>1. NoFetch \in FetchRec /\ NoFetch.pc = "idle"
  BY DEF NoFetch, FetchRec, ProfileOrNone
<1>2. ASSUME NEW b \in BOOLEAN, Begin("flush", b), send'.pc \in Fetches
      PROVE  FetchOK(fetch, send.pc, list.pc)'
  <2>1. [NoFetch EXCEPT !.pc = "look", !.live = b] \in FetchRec
        /\ [NoFetch EXCEPT !.pc = "look", !.live = b].pc = "look"
    BY DEF NoFetch, FetchRec, ProfileOrNone
  <2> QED
    BY <1>2, <2>1 DEF Begin, FetchOK, Fetches
<1>3. ASSUME End("flush"), send'.pc \notin Fetches
      PROVE  FetchOK(fetch, send.pc, list.pc)'
  BY <1>1, <1>3 DEF End, FetchOK, Fetches
<1>4. ASSUME fetch' = fetch, send'.pc \in Fetches <=> send.pc \in Fetches
      PROVE  FetchOK(fetch, send.pc, list.pc)'
  BY <1>4 DEF FetchOK, Fetches
<1> QED
  BY <1>2, <1>3, <1>4

\* Nothing else than what the flush works with changes.
LEMMA PartsAgain ==
    ASSUME Parts, UNCHANGED <<op, list>>,
           FetchOK(fetch, send.pc, list.pc)', CacheOK(cache)', QueueOK', RestOK',
           RowsTyped(rows)', SendTyped'
    PROVE  Parts'
BY DEF Parts, OpTyped, ListTyped

\* A step of the flush that only moves on, or only fails.
LEMMA OnlyGoes ==
    ASSUME Parts, UNCHANGED <<op, list, cache, rows, mojang, kept>>,
           \/ /\ \E pc \in SendPcs \ {"idle", "answer", "capeAnswer"} : GoTo(pc)
              /\ send.pc \notin {"idle", "profile"}
           \/ FailSend /\ send.pc # "idle",
           FetchOK(fetch, send.pc, list.pc)'
    PROVE  Parts'
<1>1. SendTyped' /\ QueueOK'
  <2>1. CASE FailSend
    BY <2>1, SendEnds DEF Parts
  <2>2. ASSUME NEW pc \in SendPcs \ {"idle", "answer", "capeAnswer"}, GoTo(pc),
               send.pc \notin {"idle", "profile"}
        PROVE  SendTyped' /\ QueueOK'
    <3>1. SendTyped' /\ send'.pc = pc
      BY <2>2, SendGoes DEF GoTo, Parts
    <3> QED
      BY <2>2, <3>1 DEF GoTo, Parts, QueueOK, queue
  <2> QED
    BY <2>1, <2>2
<1> QED
  BY <1>1, PartsAgain DEF Parts, RestOK

LEMMA SendTakes ==
    ASSUME Parts, Send
    PROVE  Parts'
<1>1. send.pc = "idle"
  BY DEF Send, Slot!Send, Parts, QueueOK
<1>2. SendTyped' /\ send'.pc = "profile"
  BY <1>1 DEF Send, Parts, SendTyped, SendOK, SendPcs
<1>3. QueueOK'
  BY <1>2 DEF Send, Slot!Send, Parts, QueueOK
<1>4. FetchOK(fetch, send.pc, list.pc)'
  BY <1>2, FlushFetch DEF Send, Parts, Fetches
<1> QED
  BY <1>2, <1>3, <1>4, PartsAgain DEF Send, Parts, RestOK

LEMMA FlushPcs ==
    /\ {"profile", "confirm", "refresh", "preserve", "reread", "keep",
        "upload", "persist", "drop", "cape"} \subseteq SendPcs
    /\ "profile" \in Fetches /\ "confirm" \in Fetches /\ "refresh" \in Fetches
    /\ \A pc \in {"idle", "preserve", "reread", "keep", "upload", "answer",
                  "persist", "drop", "cape", "capeAnswer"} : pc \notin Fetches
BY DEF SendPcs, Fetches

\* What the flush reads of a profile that has been fetched.
LEMMA ProfiledTyped ==
    ASSUME Parts, Profiled \/ Confirmed
    PROVE  Parts'
<1>1. fetch["flush"].seen \in ProfileOrNone
  BY DEF Parts, FetchOK, FetchRec
<1>2. SendTyped' /\ QueueOK' /\ send'.pc \notin Fetches
  <2>1. CASE fetch["flush"].seen = None
    BY <2>1, SendEnds, FlushPcs DEF Profiled, Confirmed, Parts
  <2>2. CASE fetch["flush"].seen # None
    <3>1. fetch["flush"].seen \in Profile
      BY <1>1, <2>2 DEF ProfileOrNone
    <3>2. PICK pc \in {"preserve", "persist"} :
             send' = [send EXCEPT !.pc = pc, !.profile = fetch["flush"].seen]
      BY <2>2 DEF Profiled, Confirmed
    <3>3. SendTyped' /\ send'.pc = pc
      BY <3>1, <3>2 DEF Parts, SendTyped, SendOK, SendPcs, ProfileOrNone
    <3>4. UNCHANGED queue /\ send.pc # "idle"
      BY <2>2 DEF Profiled, Confirmed
    <3> QED
      BY <3>3, <3>4, FlushPcs DEF Parts, QueueOK, queue
  <2> QED
    BY <2>1, <2>2
<1>3. FetchOK(fetch, send.pc, list.pc)'
  BY <1>2, FlushFetch DEF Profiled, Confirmed, Parts
<1> QED
  BY <1>2, <1>3, PartsAgain DEF Profiled, Confirmed, Parts, RestOK

\* What a flush that has a profile knows.
LEMMA WornTyped ==
    ASSUME Parts, send.pc \notin {"idle", "profile"}
    PROVE  /\ send.profile \in Profile /\ send.profile.cape \in Cape
           /\ send.profile.tex \in Textures /\ Worn \in Key
           /\ running \in Change /\ running.cape \in Cape
<1>1. send.profile \in Profile
  BY DEF Parts, SendTyped, SendOK
<1>2. running \in Change
  BY DEF Parts, QueueOK
<1> QED
  BY <1>1, <1>2 DEF Profile, Worn, Hosted, Key, Change, Cape

LEMMA PreserveTyped ==
    ASSUME Parts, Preserve \/ Reread
    PROVE  Parts'
<1>1. \E pc \in {"upload", "reread", "keep"} : GoTo(pc) \/ FailSend
  BY DEF Preserve, Reread
<1>2. fetch' = fetch /\ send.pc \in {"preserve", "reread"}
      /\ UNCHANGED <<op, list, cache, rows, mojang, kept>>
  BY DEF Preserve, Reread
<1>3. send'.pc \in {"upload", "reread", "keep", "idle"}
  BY <1>1, <1>2, SendGoes, SendEnds, FlushPcs DEF GoTo, Parts
<1>4. FetchOK(fetch, send.pc, list.pc)'
  BY <1>2, <1>3, FlushFetch, FlushPcs DEF Parts, Fetches
<1> QED
  BY <1>1, <1>2, <1>4, OnlyGoes, FlushPcs DEF Parts

LEMMA KeepTyped ==
    ASSUME Parts, Keep
    PROVE  Parts'
<1>1. send.pc = "keep" /\ fetch' = fetch /\ UNCHANGED <<op, list, cache, mojang>>
  BY DEF Keep
<1>2. RowsTyped(rows)' /\ RestOK'
  <2>1. RowsTyped(Put(Worn, send.profile.cape))
    BY <1>1, WornTyped, TableTyped DEF Parts
  <2>2. Preserved(send.profile.tex) \in [Uploads -> {"no", "worn", "saved"}]
    BY DEF Preserved, Parts, RestOK
  <2> QED
    BY <1>1, <2>1, <2>2 DEF Keep, Parts, RestOK
<1>3. SendTyped' /\ QueueOK' /\ send'.pc \in {"upload", "idle"}
  <2>1. CASE FailSend
    BY <2>1, SendEnds DEF Parts
  <2>2. CASE GoTo("upload")
    BY <1>1, <2>2, SendGoes, FlushPcs DEF GoTo, Parts, QueueOK, queue
  <2> QED
    BY <2>1, <2>2 DEF Keep
<1>4. FetchOK(fetch, send.pc, list.pc)'
  BY <1>1, <1>3, FlushFetch, FlushPcs DEF Parts, Fetches
<1> QED
  BY <1>1, <1>2, <1>3, <1>4, PartsAgain DEF Parts

LEMMA UploadTyped ==
    ASSUME Parts, Upload
    PROVE  Parts'
<1>1. send.pc = "upload" /\ UNCHANGED <<fetch, op, list, cache, rows, kept>>
  BY DEF Upload
<1>2. mojang' \in Profile
  <2>1. mojang \in Profile
    BY DEF Parts, RestOK
  <2>2. \A d \in Defaults : d \in Textures
    BY DEF Textures
  <2>3. running.kind # "unequip" => running.key[1] \in Textures
    <3>1. running \in Change
      BY <1>1, WornTyped
    <3> QED
      BY <3>1 DEF Change, Key
  <2> QED
    BY <2>1, <2>2, <2>3 DEF Upload, Profile
<1>3. SendTyped' /\ QueueOK' /\ send'.pc \in {"answer", "idle"}
  <2>1. CASE FailSend
    BY <2>1, SendEnds DEF Parts
  <2>2. CASE /\ send' = [send EXCEPT !.pc = "answer", !.reply = mojang']
             /\ UNCHANGED queue
    <3>1. SendTyped' /\ send'.pc = "answer"
      BY <1>1, <1>2, <2>2 DEF Parts, SendTyped, SendOK, SendPcs, ProfileOrNone
    <3> QED
      BY <1>1, <2>2, <3>1 DEF Parts, QueueOK, queue
  <2> QED
    BY <2>1, <2>2 DEF Upload
<1>4. FetchOK(fetch, send.pc, list.pc)'
  BY <1>1, <1>3, FlushFetch, FlushPcs DEF Parts, Fetches
<1> QED
  BY <1>1, <1>2, <1>3, <1>4, PartsAgain DEF Parts, RestOK

\* The cache takes a profile that Mojang has answered.
LEMMA HitTyped == ASSUME NEW x \in Profile PROVE CacheOK(Hit(x))
BY DEF Hit, CacheOK, CacheRec, ProfileOrNone

LEMMA AnsweredTyped ==
    ASSUME Parts, Answered
    PROVE  Parts'
<1>1. send.pc = "answer" /\ UNCHANGED <<queue, mojang, rows, op, list, kept>>
  BY DEF Answered
<1>2. send.reply \in Profile /\ send.profile \in Profile
  BY <1>1 DEF Parts, SendTyped, SendOK
<1>3. CacheOK(cache)'
  BY <1>2, HitTyped DEF Answered, Parts
<1>4. SendTyped' /\ send'.pc \in {"cape", "persist", "confirm"}
  <2>1. CASE send' = [send EXCEPT !.pc = "cape", !.reply = None]
    BY <1>2, <2>1 DEF Parts, SendTyped, SendOK, SendPcs, ProfileOrNone
  <2>2. CASE send' = [send EXCEPT !.pc = "persist", !.reply = None,
                                  !.profile = send.reply]
    BY <1>2, <2>2 DEF Parts, SendTyped, SendOK, SendPcs, ProfileOrNone
  <2>3. CASE send' = [send EXCEPT !.pc = "confirm", !.reply = None]
    BY <1>2, <2>3 DEF Parts, SendTyped, SendOK, SendPcs, ProfileOrNone
  <2> QED
    BY <2>1, <2>2, <2>3 DEF Answered
<1>5. FetchOK(fetch, send.pc, list.pc)'
  <2>1. CASE Begin("flush", FALSE) /\ send'.pc = "confirm"
    BY <1>1, <2>1, FlushFetch, FlushPcs DEF Parts
  <2>2. CASE fetch' = fetch /\ send'.pc \in {"cape", "persist"}
    BY <1>1, <2>2, FlushFetch, FlushPcs DEF Parts
  <2> QED
    BY <1>1, <1>4, <2>1, <2>2 DEF Answered, SendTyped, SendOK, Parts
<1>6. QueueOK'
  BY <1>1, <1>4 DEF Parts, QueueOK, queue
<1> QED
  BY <1>1, <1>3, <1>4, <1>5, <1>6, PartsAgain DEF Parts, RestOK

\* A step of the flush that may end in refresh_profile_cache.
LEMMA RefreshTyped ==
    ASSUME Parts, RefreshAndFail, send.pc \notin {"idle", "profile"},
           UNCHANGED list
    PROVE  SendTyped' /\ QueueOK' /\ FetchOK(fetch, send.pc, list.pc)'
<1>1. SendTyped' /\ send'.pc = "refresh" /\ UNCHANGED queue
  BY SendGoes, FlushPcs DEF RefreshAndFail, GoTo, Parts
<1>2. FetchOK(fetch, send.pc, list.pc)'
  BY <1>1, FlushFetch, FlushPcs DEF RefreshAndFail, Parts
<1>3. QueueOK'
  BY <1>1 DEF Parts, QueueOK, queue
<1> QED
  BY <1>1, <1>2, <1>3

LEMMA PersistTyped ==
    ASSUME Parts, Persist \/ DropOld
    PROVE  Parts'
<1>1. send.pc \in {"persist", "drop"} /\ UNCHANGED <<op, list, cache, mojang, kept>>
  BY DEF Persist, DropOld
<1>2. Worn \in Key /\ running \in Change /\ running.cape \in Cape
  BY <1>1, WornTyped
<1>3. RowsTyped(rows)'
  <2>1. RowsTyped(Save(Worn, running.cape))
    BY <1>2, TableTyped DEF Parts
  <2>2. RowsTyped(Drop(running.key))
    BY DEF Parts, RowsTyped, Drop
  <2> QED
    BY <2>1, <2>2 DEF Persist, DropOld, Parts
<1>4. SendTyped' /\ QueueOK' /\ FetchOK(fetch, send.pc, list.pc)'
  <2>1. CASE RefreshAndFail
    BY <1>1, <2>1, RefreshTyped
  <2>2. CASE FailSend /\ fetch' = fetch
    BY <1>1, <2>2, SendEnds, FlushFetch, FlushPcs DEF Parts
  <2>3. ASSUME NEW pc \in {"cape", "drop"}, GoTo(pc), fetch' = fetch
        PROVE  SendTyped' /\ QueueOK' /\ FetchOK(fetch, send.pc, list.pc)'
    <3>1. SendTyped' /\ send'.pc = pc /\ UNCHANGED queue
      BY <1>1, <2>3, SendGoes, FlushPcs DEF GoTo, Parts
    <3>2. QueueOK'
      BY <1>1, <3>1 DEF Parts, QueueOK, queue
    <3> QED
      BY <1>1, <2>3, <3>1, <3>2, FlushFetch, FlushPcs DEF Parts
  <2>4. \/ RefreshAndFail
        \/ FailSend /\ fetch' = fetch
        \/ \E pc \in {"cape", "drop"} : GoTo(pc) /\ fetch' = fetch
    BY DEF Persist, DropOld
  <2> QED
    BY <2>1, <2>2, <2>3, <2>4
<1> QED
  BY <1>1, <1>3, <1>4, PartsAgain DEF Parts, RestOK

LEMMA SyncCapeTyped ==
    ASSUME Parts, SyncCape
    PROVE  Parts'
<1>1. send.pc = "cape" /\ UNCHANGED <<cache, rows, op, list, kept>>
  BY DEF SyncCape
<1>2. running.cape \in Cape
  BY <1>1, WornTyped
<1>3. mojang' \in Profile
  BY <1>2 DEF SyncCape, Parts, RestOK, Profile
<1>4. SendTyped' /\ QueueOK' /\ FetchOK(fetch, send.pc, list.pc)'
  <2>1. CASE RefreshAndFail
    BY <1>1, <2>1, RefreshTyped
  <2>2. CASE Succeed /\ fetch' = fetch
    BY <1>1, <2>2, SendEnds, FlushFetch, FlushPcs DEF Parts
  <2>3. CASE /\ send' = [send EXCEPT !.pc = "capeAnswer", !.reply = mojang']
             /\ UNCHANGED <<queue, fetch>>
    <3>1. SendTyped' /\ send'.pc = "capeAnswer"
      BY <1>1, <1>3, <2>3 DEF Parts, SendTyped, SendOK, SendPcs, ProfileOrNone
    <3>2. QueueOK'
      BY <1>1, <2>3, <3>1 DEF Parts, QueueOK, queue
    <3> QED
      BY <1>1, <2>3, <3>1, <3>2, FlushFetch, FlushPcs DEF Parts
  <2> QED
    BY <2>1, <2>2, <2>3 DEF SyncCape
<1> QED
  BY <1>1, <1>3, <1>4, PartsAgain DEF Parts, RestOK

LEMMA CapeAnsweredTyped ==
    ASSUME Parts, CapeAnswered
    PROVE  Parts'
<1>1. send.pc = "capeAnswer" /\ UNCHANGED <<fetch, mojang, rows, op, list, kept>>
  BY DEF CapeAnswered
<1>2. CacheOK(cache)'
  <2>1. send.reply \in Profile
    BY <1>1 DEF Parts, SendTyped, SendOK
  <2> QED
    BY <2>1, HitTyped DEF CapeAnswered, Parts
<1>3. SendTyped' /\ QueueOK' /\ send'.pc = "idle"
  BY SendEnds DEF CapeAnswered, Parts
<1> QED
  BY <1>1, <1>2, <1>3, FlushFetch, FlushPcs, PartsAgain DEF Parts, RestOK

LEMMA RefreshedTyped ==
    ASSUME Parts, Refreshed
    PROVE  Parts'
<1>1. SendTyped' /\ QueueOK' /\ send'.pc = "idle"
  BY SendEnds DEF Refreshed, Parts
<1>2. FetchOK(fetch, send.pc, list.pc)'
  BY <1>1, FlushFetch, FlushPcs DEF Refreshed, Parts
<1> QED
  BY <1>1, <1>2, PartsAgain DEF Refreshed, Parts, RestOK

----------------------------------------------------------------------------
(* Shapes: the player's commands and the listing. *)

\* The skins a listing shows can be edited and equipped.
LEMMA ShownTyped ==
    ASSUME Parts, NEW skin \in Shown
    PROVE  skin \in Change /\ skin.key \in Key /\ skin.kind = "equip"
<1>1. RowsTyped(rows) /\ mojang.cape \in Cape /\ mojang.tex \in Textures
  BY DEF Parts, RestOK, Profile
<1> DEFINE Skin(k, c, b) == [kind |-> "equip", key |-> k, cape |-> c,
                             custom |-> b]
<1>2. \A k \in Key, c \in Cape, b \in BOOLEAN :
         Skin(k, c, b) \in Change /\ Skin(k, c, b).key = k
         /\ Skin(k, c, b).kind = "equip"
  BY DEF Change
<1>3. \E k \in Key, c \in Cape, b \in BOOLEAN : skin = Skin(k, c, b)
  <2>1. ASSUME NEW k \in Saved, skin = Skin(k, rows[k], TRUE)
        PROVE  \E x \in Key, c \in Cape, b \in BOOLEAN : skin = Skin(x, c, b)
    <3>1. k \in Key /\ rows[k] \in Cape
      BY <1>1 DEF Saved, RowsTyped
    <3> QED
      BY <2>1, <3>1
  <2>2. ASSUME NEW d \in Defaults,
               skin = Skin(Hosted(d), IF Hosted(d) \in DOMAIN rows
                                      THEN rows[Hosted(d)] ELSE None, FALSE)
        PROVE  \E x \in Key, c \in Cape, b \in BOOLEAN : skin = Skin(x, c, b)
    <3>1. Hosted(d) \in Key
      BY DEF Hosted, Key, Textures
    <3>2. (IF Hosted(d) \in DOMAIN rows THEN rows[Hosted(d)] ELSE None) \in Cape
      BY <1>1 DEF RowsTyped, Cape
    <3> QED
      BY <2>2, <3>1, <3>2
  <2>3. ASSUME skin = Skin(Hosted(mojang.tex), mojang.cape, FALSE)
        PROVE  \E x \in Key, c \in Cape, b \in BOOLEAN : skin = Skin(x, c, b)
    <3>1. Hosted(mojang.tex) \in Key
      BY <1>1 DEF Hosted, Key
    <3> QED
      BY <1>1, <2>3, <3>1
  <2>4. \/ \E k \in Saved : skin = Skin(k, rows[k], TRUE)
        \/ \E d \in Defaults :
              skin = Skin(Hosted(d), IF Hosted(d) \in DOMAIN rows
                                     THEN rows[Hosted(d)] ELSE None, FALSE)
        \/ skin = Skin(Hosted(mojang.tex), mojang.cape, FALSE)
    BY DEF Shown
  <2> QED
    BY <2>1, <2>2, <2>3, <2>4
<1> HIDE DEF Skin
<1> QED
  BY <1>2, <1>3

\* A step that touches none of what the flush, the fetches and the listing
\* work with.
LEMMA CommandTyped ==
    ASSUME Parts, UNCHANGED <<send, mojang, cache, fetch, list, running>>,
           slot' \in Change \cup {None}, RowsTyped(rows)', OpTyped',
           kept' \in [Uploads -> {"no", "worn", "saved"}]
    PROVE  Parts'
BY DEF Parts, QueueOK, RestOK, SendTyped, ListTyped

LEMMA KeptTyped ==
    ASSUME Parts, NEW t, NEW how \in {"no", "saved"}
    PROVE  /\ Mark(t, how) \in [Uploads -> {"no", "worn", "saved"}]
           /\ Preserved(t) \in [Uploads -> {"no", "worn", "saved"}]
BY DEF Mark, Preserved, Parts, RestOK


LEMMA CommandsTyped ==
    ASSUME Parts, Commands
    PROVE  Parts'
<1> USE DEF queue
<1>1. ASSUME NEW c \in Cape, NEW t \in Uploads, AddAndEquip(t, c) PROVE Parts'
  <2>1. Local(t) \in Key
    BY DEF Local, Key, Textures
  <2>2. RowsTyped(rows)'
    BY <1>1, <2>1, TableTyped DEF AddAndEquip, Parts
  <2>3. OpTyped'
    <3> DEFINE x == [kind |-> "add", key |-> Local(t), cape |-> c,
                     custom |-> TRUE]
    <3>1. x \in Change
      BY <2>1 DEF Change
    <3>2. op' = [NoOp EXCEPT !.pc = "set", !.change = x]
      BY <1>1 DEF AddAndEquip
    <3> HIDE DEF x
    <3> QED
      BY <3>1, <3>2 DEF OpTyped, NoOp
  <2> QED
    BY <1>1, <2>2, <2>3, KeptTyped, CommandTyped
       DEF AddAndEquip, Command, Parts, QueueOK
<1>2. ASSUME NEW c \in Cape, NEW skin \in Shown, Edit(skin.key, c) PROVE Parts'
  <2>1. RowsTyped(rows)'
    BY <1>2, ShownTyped, TableTyped DEF Edit, Parts
  <2> QED
    BY <1>2, <2>1, KeptTyped, CommandTyped DEF Edit, Command, Parts, QueueOK, OpTyped
<1>3. ASSUME NEW c \in Cape, NEW k \in Saved, NEW t \in Uploads, Replace(k, t, c)
      PROVE  Parts'
  <2>1. k \in Key /\ Local(t) \in Key
    BY DEF Saved, Parts, RowsTyped, Local, Key, Textures
  <2>2. RowsTyped(rows)'
    BY <1>3, <2>1, TableTyped DEF Replace, Parts
  <2>3. OpTyped'
    BY <1>3, <2>1 DEF Replace, OpTyped, NoOp
  <2>4. kept' \in [Uploads -> {"no", "worn", "saved"}]
    BY <1>3, KeptTyped DEF Replace
  <2> QED
    BY <1>3, <2>2, <2>3, <2>4, CommandTyped DEF Replace, Command, Parts, QueueOK
<1>4. ASSUME NEW change, change \in Shown \/ change.kind = "unequip",
             change \in Change, Equip(change)
      PROVE  Parts'
  BY <1>4, CommandTyped DEF Equip, Slot!SetChange, Command, Parts, OpTyped, RestOK
<1>5. ASSUME NEW k \in Saved, Remove(k) PROVE Parts'
  <2>1. k \in Key
    BY DEF Saved, Parts, RowsTyped
  <2>2. RowsTyped(rows)'
    BY <1>5, <2>1 DEF Remove, Parts, RowsTyped, Drop
  <2>3. OpTyped'
    BY <1>5, <2>1 DEF Remove, OpTyped, NoOp
  <2> QED
    BY <1>5, <2>2, <2>3, KeptTyped, CommandTyped DEF Remove, Command, Parts, QueueOK
<1>6. CASE Unequip
  <2> DEFINE x == [kind |-> "unequip", key |-> None, cape |-> None,
                   custom |-> FALSE]
  <2>1. x \in Change /\ x.kind = "unequip"
    BY DEF Change
  <2>2. Equip(x)
    BY <1>6 DEF Unequip
  <2> HIDE DEF x
  <2> QED
    BY <1>4, <2>1, <2>2
<1> QED
  BY <1>1, <1>2, <1>3, <1>4, <1>5, <1>6, ShownTyped DEF Commands

LEMMA CommandStepsTyped ==
    ASSUME Parts, SetAdded \/ CancelRemoved \/ DropReplaced
    PROVE  Parts'
<1>1. OpTyped'
  BY DEF SetAdded, CancelRemoved, DropReplaced, OpTyped, NoOp
<1>2. slot' \in Change \cup {None} /\ running' = running
  BY DEF SetAdded, CancelRemoved, DropReplaced, Slot!SetChange,
         Slot!CancelChange, queue, Parts, QueueOK, OpTyped
<1>3. RowsTyped(rows)'
  BY DEF SetAdded, CancelRemoved, DropReplaced, Parts, RowsTyped, Drop
<1> QED
  BY <1>1, <1>2, <1>3, CommandTyped
     DEF SetAdded, CancelRemoved, DropReplaced, Parts, RestOK

LEMMA ListingTyped ==
    ASSUME Parts, List \/ Listing
    PROVE  Parts'
<1>1. UNCHANGED <<queue, send, mojang, cache, op, kept>>
  BY DEF List, Listing, ListProfiled, ListPending, ListRows, ListTexture,
         ListWrite
<1>2. list.seen \in ProfileOrNone /\ fetch["list"].seen \in ProfileOrNone
      /\ slot \in Change \cup {None}
  BY DEF Parts, ListTyped, FetchOK, FetchRec, QueueOK
<1>3. ListTyped'
  <2>1. Corrects => Current \in Profile
    <3>1. [tex |-> Fallback, cape |-> None] \in Profile
      BY FallbackIsDefault DEF Profile, Textures, Cape
    <3>2. list.seen # None => list.seen \in Profile
      BY <1>2 DEF ProfileOrNone
    <3> QED
      BY <3>1, <3>2 DEF Corrects, Current
  <2>2. None \in ProfileOrNone /\ Profile \subseteq ProfileOrNone
    BY DEF ProfileOrNone
  <2>3. CASE ListRows
    BY <2>1, <2>2, <2>3 DEF Parts, ListTyped, ListRows, NoList
  <2>4. CASE List \/ ListProfiled \/ ListPending
    BY <1>2, <2>2, <2>4 DEF Parts, ListTyped, List, ListProfiled, ListPending
  <2>5. CASE ListTexture \/ ListWrite
    <3>1. \/ list' = NoList
          \/ list' = [list EXCEPT !.pc = "write"] /\ list.pc = "texture"
      BY <2>5 DEF ListTexture, ListWrite
    <3> QED
      BY <2>2, <3>1 DEF Parts, ListTyped, NoList
  <2> QED
    BY <2>3, <2>4, <2>5 DEF Listing
<1>4. FetchOK(fetch, send.pc, list.pc)'
  <2>1. CASE List
    <3>1. [NoFetch EXCEPT !.pc = "look", !.live = TRUE] \in FetchRec
          /\ [NoFetch EXCEPT !.pc = "look", !.live = TRUE].pc = "look"
      BY DEF NoFetch, FetchRec, ProfileOrNone
    <3>2. list'.pc = "profile"
      BY <2>1 DEF List, Parts, ListTyped
    <3> QED
      BY <1>1, <2>1, <3>1, <3>2 DEF List, Begin, Parts, FetchOK
  <2>2. CASE ListProfiled
    <3>1. NoFetch \in FetchRec /\ NoFetch.pc = "idle"
      BY DEF NoFetch, FetchRec, ProfileOrNone
    <3>2. list'.pc = "pending"
      BY <2>2 DEF ListProfiled, Parts, ListTyped
    <3> QED
      BY <1>1, <2>2, <3>1, <3>2 DEF ListProfiled, End, Parts, FetchOK
  <2>3. CASE ListPending \/ ListRows \/ ListTexture \/ ListWrite
    <3>1. list.pc # "profile" /\ fetch' = fetch
      BY <2>3 DEF ListPending, ListRows, ListTexture, ListWrite
    <3>2. \/ list' = NoList
          \/ \E pc \in {"rows", "texture", "write"} : list'.pc = pc
      BY <2>3 DEF ListPending, ListRows, ListTexture, ListWrite, Parts, ListTyped
    <3>3. list'.pc # "profile"
      BY <3>2 DEF NoList
    <3> QED
      BY <1>1, <3>1, <3>3 DEF Parts, FetchOK
  <2> QED
    BY <2>1, <2>2, <2>3 DEF Listing
<1>5. RowsTyped(rows)'
  <2>1. CASE ListWrite
    <3>1. list.target \in Profile
      BY <2>1 DEF ListWrite, Parts, ListTyped
    <3>2. Hosted(list.target.tex) \in Key /\ list.target.cape \in Cape
      BY <3>1 DEF Profile, Hosted, Key
    <3> QED
      BY <2>1, <3>2, TableTyped DEF ListWrite, Parts
  <2> QED
    BY <2>1 DEF List, Listing, ListProfiled, ListPending, ListRows, ListTexture,
       Parts
<1> QED
  BY <1>1, <1>3, <1>4, <1>5 DEF Parts, QueueOK, queue, RestOK, SendTyped, OpTyped

LEMMA ExpireTyped == ASSUME Parts, Expire PROVE Parts'
<1>1. CacheOK(cache)'
  BY DEF Expire, Parts, CacheOK, CacheRec
<1> QED
  BY <1>1 DEF Expire, Parts, QueueOK, queue, RestOK, SendTyped, OpTyped,
     ListTyped

LEMMA PartsNext == Parts /\ [Next]_vars => Parts'
<1> SUFFICES ASSUME Parts, [Next]_vars PROVE Parts'
  OBVIOUS
<1>1. CASE Fetching
  BY <1>1, FetchingTyped DEF Fetching
<1>2. CASE Sending
  BY <1>2, ProfiledTyped, PreserveTyped, KeepTyped, UploadTyped, AnsweredTyped,
     PersistTyped, SyncCapeTyped, CapeAnsweredTyped, RefreshedTyped DEF Sending
<1>3. CASE UNCHANGED vars
  BY <1>3 DEF vars, queue, Parts, QueueOK, RestOK, SendTyped, OpTyped, ListTyped
<1> QED
  BY <1>1, <1>2, <1>3, ExpireTyped, SendTakes, CommandsTyped, CommandStepsTyped,
     ListingTyped DEF Next

\* Every variable keeps the shape the code gives it, a change is being sent
\* exactly while a flush is at work, and the profile is fetched only for the
\* flush or the listing that waits for it.
THEOREM TypeCorrect == Spec => []TypeOK
<1>1. Parts => TypeOK
  BY PartsAreTyped DEF Typed
<1> QED
  BY <1>1, PartsInit, PartsNext, PTL DEF Spec

----------------------------------------------------------------------------
(* A change that is taken off the queue as sent has been carried out. *)

LEMMA MatchedStays ==
    ASSUME Matched, UNCHANGED <<send, running, mojang>>,
           fetch'["flush"] = fetch["flush"]
    PROVE  Matched'
BY DEF Matched

\* Nobody but the flush touches what it works with.
LEMMA FlushUntouched ==
    ASSUME Parts, Expire \/ Commands \/ SetAdded \/ CancelRemoved \/ DropReplaced
                  \/ List \/ Listing
    PROVE  UNCHANGED <<send, running, mojang>> /\ fetch'["flush"] = fetch["flush"]
<1>1. CASE Expire
  BY <1>1 DEF Expire, queue
<1>2. CASE Commands
  BY <1>2 DEF Commands, AddAndEquip, Edit, Replace, Equip, Remove, Unequip,
     Command, Slot!SetChange, queue
<1>3. CASE SetAdded \/ CancelRemoved \/ DropReplaced
  BY <1>3 DEF SetAdded, CancelRemoved, DropReplaced, Slot!SetChange,
     Slot!CancelChange, queue
<1>4. CASE List \/ Listing
  BY <1>4 DEF List, Listing, ListProfiled, ListPending, ListRows, ListTexture,
     ListWrite, Begin, End, Parts, FetchOK, queue
<1> QED
  BY <1>1, <1>2, <1>3, <1>4

LEMMA MatchedFetching ==
    ASSUME Parts, Matched, NEW r \in {"flush", "list"},
           Look(r) \/ Answer(r) \/ Store(r) \/ FetchFails(r) \/ Unauthorized(r)
    PROVE  Matched'
<1>1. UNCHANGED <<send, running, mojang>>
  BY DEF Look, Answer, Store, FetchFails, Unauthorized, queue
<1>2. CASE r = "list"
  <2>1. fetch'["flush"] = fetch["flush"]
    BY <1>2 DEF Parts, FetchOK, Look, Answer, Store, FetchFails, Unauthorized
  <2> QED
    BY <1>1, <2>1, MatchedStays
<1>3. CASE r = "flush"
  <2> DEFINE f == fetch["flush"]
             Holds(x) == /\ ~x.live
                         /\ x.pc \in {"look", "ask"} => x.seen = None
                         /\ x.seen \in {None, mojang}
  <2>1. f \in FetchRec /\ fetch \in [{"flush", "list"} -> FetchRec]
    BY DEF Parts, FetchOK
  <2>2. Holds(f) => Holds(fetch'["flush"])
    <3>1. CASE Look(r)
      BY <1>3, <2>1, <3>1 DEF Look, FetchRec
    <3>2. CASE Answer(r) \/ Store(r)
      BY <1>3, <2>1, <3>2 DEF Answer, Store, FetchRec
    <3>3. CASE FetchFails(r) \/ Unauthorized(r)
      BY <1>3, <2>1, <3>3 DEF FetchFails, Unauthorized, FetchRec
    <3> QED
      BY <3>1, <3>2, <3>3
  <2> QED
    BY <1>1, <2>2 DEF Matched
<1> QED
  BY <1>2, <1>3

LEMMA MatchedSending ==
    ASSUME Parts, Matched, Send \/ Sending
    PROVE  Matched'
<1> USE DEF queue
<1>1. ASSUME send'.pc \notin Uploaded PROVE Matched'
  BY <1>1 DEF Matched, Uploaded
<1>2. CASE FailSend \/ Succeed
  BY <1>1, <1>2, SendEnds DEF Parts, Uploaded
<1>3. CASE RefreshAndFail
  <2>1. send'.pc = "refresh"
    BY <1>3 DEF RefreshAndFail, GoTo, Parts, SendTyped, SendOK
  <2> QED
    BY <1>1, <2>1 DEF Uploaded
<1>4. CASE Send
  BY <1>1, <1>4 DEF Send, Parts, SendTyped, SendOK, Uploaded
<1>5. CASE Profiled
  BY <1>1, <1>2, <1>5 DEF Profiled, Parts, SendTyped, SendOK, Uploaded
<1>6. CASE Preserve \/ Reread \/ Keep \/ Refreshed
  BY <1>1, <1>2, <1>6 DEF Preserve, Reread, Keep, Refreshed, GoTo, Parts,
     SendTyped, SendOK, Uploaded
<1>7. CASE Upload
  <2>1. CASE /\ send' = [send EXCEPT !.pc = "answer", !.reply = mojang']
             /\ running.kind # "unequip"
             /\ mojang' = [mojang EXCEPT !.tex = running.key[1]]
    <3>1. send'.pc = "answer" /\ send'.reply = mojang'
      BY <2>1 DEF Parts, SendTyped, SendOK
    <3>2. mojang'.tex = running.key[1]
      BY <2>1 DEF Parts, RestOK, Profile
    <3>3. running' = running
      BY <1>7, <1>2, <3>1, SendEnds DEF Upload, Parts
    <3> QED
      BY <3>1, <3>2, <3>3 DEF Matched
  <2>2. CASE /\ send' = [send EXCEPT !.pc = "answer", !.reply = mojang']
             /\ running.kind = "unequip" /\ running' = running
    <3>1. send'.pc = "answer"
      BY <2>2 DEF Parts, SendTyped, SendOK
    <3> QED
      BY <2>2, <3>1 DEF Matched
  <2> QED
    BY <1>2, <1>7, <2>1, <2>2 DEF Upload
<1>8. CASE Answered
  <2>1. send.pc = "answer" /\ UNCHANGED <<running, mojang>>
    BY <1>8 DEF Answered
  <2>2. running.kind = "unequip" => Matched'
    <3>1. ASSUME running.kind = "unequip" PROVE send'.pc = "cape"
      BY <1>8, <3>1 DEF Answered, Parts, SendTyped, SendOK
    <3> QED
      BY <2>1, <3>1 DEF Matched
  <2>3. CASE /\ running.kind # "unequip"
             /\ send' = [send EXCEPT !.pc = "persist", !.reply = None,
                                     !.profile = send.reply]
    <3>1. send'.pc = "persist" /\ send'.profile = send.reply
      BY <2>3 DEF Parts, SendTyped, SendOK
    <3> QED
      BY <2>1, <2>3, <3>1 DEF Matched, Uploaded
  <2>4. CASE /\ running.kind # "unequip"
             /\ send' = [send EXCEPT !.pc = "confirm", !.reply = None]
             /\ Begin("flush", FALSE)
    <3>1. send'.pc = "confirm"
      BY <2>4 DEF Parts, SendTyped, SendOK
    <3>2. ~fetch'["flush"].live /\ fetch'["flush"].seen = None
      BY <2>4 DEF Begin, NoFetch, Parts, FetchOK
    <3> QED
      BY <2>1, <2>4, <3>1, <3>2 DEF Matched, Uploaded
  <2> QED
    BY <1>8, <2>2, <2>3, <2>4 DEF Answered
<1>9. CASE Confirmed
  <2>1. send.pc = "confirm" /\ mojang' = mojang
    BY <1>9 DEF Confirmed
  <2>2. CASE /\ fetch["flush"].seen # None /\ running' = running
             /\ send' = [send EXCEPT !.pc = "persist",
                                     !.profile = fetch["flush"].seen]
    <3>1. send'.pc = "persist" /\ send'.profile = fetch["flush"].seen
      BY <2>2 DEF Parts, SendTyped, SendOK
    <3> QED
      BY <2>1, <2>2, <3>1 DEF Matched, Uploaded
  <2> QED
    BY <1>2, <1>9, <2>2 DEF Confirmed
<1>10. CASE Persist \/ DropOld
  <2>1. send.pc \in {"persist", "drop"} /\ mojang' = mojang
    BY <1>10 DEF Persist, DropOld
  <2>2. ASSUME NEW pc \in {"cape", "drop"}, GoTo(pc) PROVE Matched'
    <3>1. send'.pc = pc /\ send'.profile = send.profile /\ running' = running
      BY <2>2 DEF GoTo, Parts, SendTyped, SendOK
    <3> QED
      BY <2>1, <3>1 DEF Matched, Uploaded
  <2> QED
    BY <1>2, <1>3, <1>10, <2>2 DEF Persist, DropOld
<1>11. CASE SyncCape
  <2>1. CASE /\ send' = [send EXCEPT !.pc = "capeAnswer", !.reply = mojang']
             /\ mojang' = [mojang EXCEPT !.cape = running.cape]
             /\ running' = running
    <3>1. send'.pc = "capeAnswer"
      BY <2>1 DEF Parts, SendTyped, SendOK
    <3>2. mojang'.cape = running.cape /\ mojang'.tex = mojang.tex
      BY <2>1 DEF Parts, RestOK, Profile
    <3>3. send.pc = "cape"
      BY <1>11 DEF SyncCape
    <3> QED
      BY <2>1, <3>1, <3>2, <3>3 DEF Matched, Uploaded
  <2> QED
    BY <1>2, <1>3, <1>11, <2>1 DEF SyncCape
<1>12. CASE CapeAnswered
  BY <1>2, <1>12 DEF CapeAnswered
<1> QED
  BY <1>4, <1>5, <1>6, <1>7, <1>8, <1>9, <1>10, <1>11, <1>12 DEF Sending

LEMMA MatchedNext == Parts /\ Matched /\ [Next]_vars => Matched'
<1> SUFFICES ASSUME Parts, Matched, [Next]_vars PROVE Matched'
  OBVIOUS
<1>1. CASE Fetching
  BY <1>1, MatchedFetching DEF Fetching
<1>2. CASE Send \/ Sending
  BY <1>2, MatchedSending
<1>3. CASE Expire \/ Commands \/ SetAdded \/ CancelRemoved \/ DropReplaced
           \/ List \/ Listing
  BY <1>3, FlushUntouched, MatchedStays
<1>4. CASE UNCHANGED vars
  BY <1>4, MatchedStays DEF vars, queue
<1> QED
  BY <1>1, <1>2, <1>3, <1>4 DEF Next

LEMMA MatchedHolds == Spec => [](Parts /\ Matched)
<1>1. Init => Matched
  BY DEF Init, Matched, NoSend, Slot!Init
<1> QED
  BY <1>1, PartsInit, PartsNext, MatchedNext, PTL DEF Spec

\* A skin change that the flush takes off the queue as sent is what the account
\* then wears, skin and cape, however old the profile was that the flush began
\* with and whatever answers were lost on the way.
THEOREM EquippedSkinsAreWorn == Spec => EquipTakesHold
<1>1. ASSUME Parts, Matched, Done, running.kind # "unequip", [Next]_vars
      PROVE  mojang' = [tex |-> running.key[1], cape |-> running.cape]
  <2>1. running # None /\ send.pc \in {"cape", "capeAnswer"} /\ running' = None
        /\ send'.pc = "idle"
    BY <1>1, SendEnds DEF Done, Succeed, Slot!Succeed, Parts
  <2>2. mojang.tex = running.key[1]
    BY <1>1, <2>1 DEF Matched, Uploaded
  <2>3. SyncCape \/ CapeAnswered
    <3>1. running' # running /\ send' # send
      BY <2>1
    <3>2. ~(Fetching \/ Expire \/ Commands \/ SetAdded \/ CancelRemoved
            \/ DropReplaced \/ List \/ Listing)
      BY <1>1, <3>1, FlushUntouched
         DEF Fetching, Look, Answer, Store, FetchFails, Unauthorized
    <3> QED
      BY <1>1, <2>1, <3>1, <3>2 DEF Next, Sending, vars, Send, Slot!Send,
         Profiled, Preserve, Reread, Keep, Upload, Answered, Confirmed,
         Persist, DropOld, Refreshed, queue
  <2>4. mojang.cape = running.cape /\ mojang' = mojang
    <3>1. CASE SyncCape
      <4>1. send.pc = "cape" /\ send.profile = mojang
        BY <1>1, <2>1, <3>1 DEF SyncCape, Matched
      <4>2. ~UNCHANGED queue
        BY <2>1 DEF queue
      <4>3. send.profile.cape = running.cape /\ UNCHANGED mojang
        <5>1. CASE send.profile.cape # running.cape
          <6>1. \/ RefreshAndFail
                \/ send' = [send EXCEPT !.pc = "capeAnswer", !.reply = mojang']
                   /\ UNCHANGED queue
            BY <3>1, <5>1 DEF SyncCape
          <6> QED
            BY <4>2, <6>1 DEF RefreshAndFail, GoTo
        <5> QED
          BY <3>1, <5>1 DEF SyncCape
      <4> QED
        BY <4>1, <4>3
    <3>2. CASE CapeAnswered
      BY <1>1, <2>1, <3>2 DEF Matched, CapeAnswered
    <3> QED
      BY <2>3, <3>1, <3>2
  <2> QED
    BY <1>1, <2>2, <2>4 DEF Parts, RestOK, Profile
<1>2. Parts /\ Matched /\ [Next]_vars => [Done /\ running.kind # "unequip"
         => mojang' = [tex |-> running.key[1], cape |-> running.cape]]_vars
  BY <1>1
<1> QED
  BY <1>2, MatchedHolds, PTL DEF Spec, EquipTakesHold

----------------------------------------------------------------------------
(* No skin is lost. *)

\* A row stays as long as its texture has to be kept.
RowsStay == \A k \in DOMAIN rows :
    k[1] \in Uploads /\ kept'[k[1]] # "no" => k \in DOMAIN rows'

SavedStays == \A t \in Uploads :
    kept'[t] # "no" /\ kept[t] # "no" /\ IsSaved(t) => IsSaved(t)'

\* A texture is worn without being saved only from the start; one that has to
\* be kept from now on has a row, and is not being sent.
KeptGrows == \A t \in Uploads :
    /\ kept'[t] = "worn" => kept[t] = "worn"
    /\ kept'[t] = "saved" /\ kept[t] # "saved" => IsSaved(t)'
    /\ kept[t] = "no" /\ kept'[t] # "no" => ~Sent(t) /\ op.pc = "idle"

LEMMA Domains ==
    ASSUME NEW k, NEW c
    PROVE  /\ DOMAIN Put(k, c) = DOMAIN rows \cup {k}
           /\ DOMAIN Drop(k) = DOMAIN rows \ {k}
           /\ k[1] \in Uploads => DOMAIN Save(k, c) = DOMAIN rows \cup {k}
           /\ DOMAIN rows \ {k} \subseteq DOMAIN Save(k, c)
<1>1. DOMAIN Put(k, c) = DOMAIN rows \cup {k}
  BY DEF Put
<1>2. DOMAIN Drop(k) = DOMAIN rows \ {k}
  BY DEF Drop
<1>3. Save(k, c) \in {Put(k, c), Drop(k)}
  BY DEF Save
<1>4. k[1] \in Uploads => Save(k, c) = Put(k, c)
  BY TexturesDiffer DEF Save
<1> QED
  BY <1>1, <1>2, <1>3, <1>4

LEMMA SaveStays ==
    ASSUME NEW k, NEW c, rows' = Save(k, c)
    PROVE  RowsStay /\ (k[1] \in Uploads => k \in DOMAIN rows')
<1>1. DOMAIN rows' = DOMAIN Save(k, c)
  OBVIOUS
<1>2. DOMAIN rows \ {k} \subseteq DOMAIN Save(k, c)
  BY Domains
<1>3. k[1] \in Uploads => DOMAIN Save(k, c) = DOMAIN rows \cup {k}
  BY Domains
<1> QED
  BY <1>1, <1>2, <1>3 DEF RowsStay

LEMMA StayingSaves ==
    ASSUME RowsStay
    PROVE  SavedStays
BY DEF RowsStay, SavedStays, IsSaved

LEMMA SameKept ==
    ASSUME UNCHANGED kept
    PROVE  KeptGrows
BY DEF KeptGrows

LEMMA CommandsKeep ==
    ASSUME Parts, Commands
    PROVE  RowsStay /\ KeptGrows
<1> USE DEF RestOK, Parts
<1>1. ASSUME NEW c \in Cape, NEW t \in Uploads, AddAndEquip(t, c)
      PROVE  RowsStay /\ KeptGrows
  <2>1. DOMAIN rows' = DOMAIN rows \cup {Local(t)} /\ Local(t)[1] = t
    BY <1>1, Domains DEF AddAndEquip, Local
  <2>2. kept' = Mark(t, "saved") /\ ~Sent(t) /\ op.pc = "idle"
    BY <1>1 DEF AddAndEquip, Command
  <2> QED
    BY <2>1, <2>2 DEF RowsStay, KeptGrows, Mark, IsSaved
<1>2. ASSUME NEW c \in Cape, NEW skin \in Shown, Edit(skin.key, c)
      PROVE  RowsStay /\ KeptGrows
  <2>1. RowsStay
    BY <1>2, SaveStays DEF Edit
  <2>2. skin.key[1] \in Uploads => skin.key \in DOMAIN rows'
    BY <1>2, SaveStays DEF Edit
  <2>3. kept' = Preserved(skin.key[1])
    BY <1>2 DEF Edit
  <2> QED
    BY <2>1, <2>2, <2>3 DEF KeptGrows, Preserved, IsSaved
<1>3. ASSUME NEW c \in Cape, NEW k \in Saved, NEW t \in Uploads, Replace(k, t, c)
      PROVE  RowsStay /\ KeptGrows
  <2>1. DOMAIN rows' = DOMAIN rows \cup {Local(t)} /\ Local(t)[1] = t
    BY <1>3, Domains DEF Replace, Local
  <2>2. kept' = [Mark(k[1], "no") EXCEPT ![t] = "saved"] /\ ~Sent(t)
        /\ op.pc = "idle"
    BY <1>3 DEF Replace, Command
  <2> QED
    BY <2>1, <2>2 DEF RowsStay, KeptGrows, Mark, IsSaved
<1>4. ASSUME NEW k \in Saved, Remove(k) PROVE RowsStay /\ KeptGrows
  <2>1. DOMAIN rows' = DOMAIN rows \ {k}
    BY <1>4, Domains DEF Remove
  <2>2. kept' = Mark(k[1], "no")
    BY <1>4 DEF Remove
  <2> QED
    BY <2>1, <2>2 DEF RowsStay, KeptGrows, Mark, Saved
<1>5. ASSUME UNCHANGED <<rows, kept>> PROVE RowsStay /\ KeptGrows
  BY <1>5 DEF RowsStay, KeptGrows
<1> QED
  BY <1>1, <1>2, <1>3, <1>4, <1>5 DEF Commands, Equip, Unequip

\* The flush removes a row only when the same texture has another.
LEMMA DropOldKeeps ==
    ASSUME Parts, Matched, Keeping, DropOld
    PROVE  SavedStays /\ KeptGrows
<1>1. send.pc = "drop" /\ kept' = kept /\ running.key # Worn
      /\ (rows' = rows \/ rows' = Drop(running.key))
  BY DEF DropOld, Keeping, SavedBeforeDrop
<1>2. running.key[1] = send.profile.tex
  BY <1>1 DEF Matched, Uploaded, Parts, QueueOK
<1>3. ASSUME NEW t \in Uploads, kept[t] # "no", IsSaved(t), rows' = Drop(running.key)
      PROVE  IsSaved(t)'
  <2>1. DOMAIN rows' = DOMAIN rows \ {running.key}
    BY <1>3, Domains
  <2>2. CASE t = send.profile.tex
    <3>1. Worn \in DOMAIN rows
      BY <1>1, <1>3, <2>2 DEF Keeping, SavedBeforeDrop
    <3>2. Worn[1] = t
      BY <2>2 DEF Worn, Hosted
    <3> QED
      BY <1>1, <2>1, <3>1, <3>2 DEF IsSaved
  <2>3. CASE t # send.profile.tex
    BY <1>2, <1>3, <2>1, <2>3 DEF IsSaved
  <2> QED
    BY <2>2, <2>3
<1>4. SavedStays
  BY <1>1, <1>3 DEF SavedStays, IsSaved
<1> QED
  BY <1>1, <1>4, SameKept

\* Every other step of the flush, and every step of a fetch or a listing, adds
\* rows only.
LEMMA OtherStepsKeep ==
    ASSUME Parts, Matched, Keeping, [Next]_vars, ~DropOld
    PROVE  RowsStay /\ KeptGrows
<1> USE DEF RestOK, Parts
<1>1. ASSUME UNCHANGED <<rows, kept>> PROVE RowsStay /\ KeptGrows
  BY <1>1 DEF RowsStay, KeptGrows
<1>2. CASE Keep
  <2>1. CASE rows' = Put(Worn, send.profile.cape) /\ kept' = Preserved(send.profile.tex)
    <3>1. DOMAIN rows' = DOMAIN rows \cup {Worn} /\ Worn[1] = send.profile.tex
      BY <2>1, Domains DEF Worn, Hosted
    <3> QED
      BY <2>1, <3>1 DEF RowsStay, KeptGrows, Preserved, IsSaved
  <2> QED
    BY <1>1, <1>2, <2>1 DEF Keep
<1>3. CASE Persist
  <2>1. kept' = kept /\ (rows' = rows \/ rows' = Save(Worn, running.cape))
    BY <1>3 DEF Persist
  <2> QED
    BY <1>1, <2>1, SaveStays, SameKept
<1>4. CASE ListWrite
  BY <1>4, SaveStays, SameKept DEF ListWrite
<1>5. CASE DropReplaced
  <2>1. kept' = kept /\ DOMAIN rows' = DOMAIN rows \ {op.key}
    BY <1>5, Domains DEF DropReplaced
  <2>2. kept[op.key[1]] = "no"
    BY <1>5 DEF DropReplaced, Keeping, ReplacedMayGo
  <2> QED
    BY <2>1, <2>2, SameKept DEF RowsStay
<1>6. CASE Fetching \/ Expire \/ Send \/ List \/ SetAdded \/ CancelRemoved
  BY <1>1, <1>6 DEF Fetching, Look, Answer, Store, FetchFails, Unauthorized,
     Expire, Send, List, SetAdded, CancelRemoved
<1>7. CASE Profiled \/ Preserve \/ Reread \/ Upload \/ Answered \/ Confirmed
           \/ SyncCape \/ CapeAnswered \/ Refreshed
  BY <1>1, <1>7 DEF Profiled, Preserve, Reread, Upload, Answered, Confirmed,
     SyncCape, CapeAnswered, Refreshed
<1>8. CASE ListProfiled \/ ListPending \/ ListRows \/ ListTexture
  BY <1>1, <1>8 DEF ListProfiled, ListPending, ListRows, ListTexture
<1>9. CASE UNCHANGED vars
  BY <1>1, <1>9 DEF vars
<1> QED
  BY <1>2, <1>3, <1>4, <1>5, <1>6, <1>7, <1>8, <1>9, CommandsKeep
     DEF Next, Sending, Listing

LEMMA StepsKeep ==
    ASSUME Parts, Matched, Keeping, [Next]_vars
    PROVE  SavedStays /\ KeptGrows /\ (RowsStay \/ DropOld)
BY DropOldKeeps, OtherStepsKeep, StayingSaves

LEMMA SavedNext ==
    ASSUME Parts, Matched, Keeping, [Next]_vars
    PROVE  SavedIsSaved'
BY StepsKeep DEF Keeping, SavedIsSaved, SavedStays, KeptGrows

\* Profiles are read from Mojang and passed on, and only an upload changes what
\* the account wears.
LEMMA ProfilesPass ==
    ASSUME Parts, Matched, [Next]_vars, ~Upload, NEW t, Circulates(t)
    PROVE  Circulates(t)'
<1> USE DEF Circulates
<1>1. fetch \in [{"flush", "list"} -> FetchRec] /\ mojang \in Profile
      /\ cache \in CacheRec /\ SendTyped
  BY DEF Parts, FetchOK, RestOK, CacheOK
<1>2. ASSUME NEW r \in {"flush", "list"},
             Look(r) \/ Answer(r) \/ Store(r) \/ FetchFails(r) \/ Unauthorized(r)
      PROVE  Circulates(t)'
  <2>1. UNCHANGED <<send, mojang>>
    BY <1>2 DEF Look, Answer, Store, FetchFails, Unauthorized
  <2>2. Names(None, t) /\ NoCache.profile = None
        /\ [NoCache EXCEPT !.backoff = TRUE].profile = None
    BY DEF Names, NoCache
  <2>3. Names(cache.profile, t)'
    <3>1. CASE Store(r)
      <4>1. cache'.profile = fetch[r].seen
        BY <3>1 DEF Store, Hit
      <4> QED
        BY <4>1
    <3> QED
      BY <1>2, <2>2, <3>1 DEF Look, Answer, FetchFails, Unauthorized
  <2>4. \A q \in {"flush", "list"} : /\ Names(fetch'[q].stale, t)
                                     /\ Names(fetch'[q].seen, t)
    <3>1. CASE Look(r)
      BY <1>1, <2>2, <3>1 DEF Look, FetchRec
    <3>2. CASE Answer(r)
      BY <1>1, <2>2, <3>2 DEF Answer, FetchRec, Names
    <3>3. CASE Store(r) \/ Unauthorized(r)
      BY <1>1, <2>2, <3>3 DEF Store, Unauthorized, FetchRec
    <3>4. CASE FetchFails(r)
      BY <1>1, <2>2, <3>4 DEF FetchFails, FetchRec
    <3> QED
      BY <1>2, <3>1, <3>2, <3>3, <3>4
  <2> QED
    BY <2>1, <2>3, <2>4
<1>3. ASSUME NEW r \in {"flush", "list"}, NEW b, Begin(r, b) \/ End(r)
      PROVE  \A q \in {"flush", "list"} : /\ Names(fetch'[q].stale, t)
                                          /\ Names(fetch'[q].seen, t)
  <2>1. NoFetch.stale = None /\ NoFetch.seen = None
        /\ [NoFetch EXCEPT !.pc = "look", !.live = b].stale = None
        /\ [NoFetch EXCEPT !.pc = "look", !.live = b].seen = None
    BY DEF NoFetch
  <2> QED
    BY <1>1, <1>3, <2>1 DEF Begin, End, Names
<1>4. NoSend.profile = None /\ NoSend.reply = None /\ Names(None, t)
  BY DEF NoSend, Names
<1>5. ASSUME FailSend \/ Succeed \/ \E pc \in SendPcs : GoTo(pc)
      PROVE  Names(send'.profile, t) /\ Names(send'.reply, t)
  BY <1>1, <1>4, <1>5 DEF FailSend, Succeed, GoTo, SendTyped, SendOK
<1>6. ASSUME RefreshAndFail
      PROVE  /\ Names(send'.profile, t) /\ Names(send'.reply, t)
             /\ \A q \in {"flush", "list"} : /\ Names(fetch'[q].stale, t)
                                             /\ Names(fetch'[q].seen, t)
  BY <1>3, <1>5, <1>6, FlushPcs DEF RefreshAndFail
<1>7. CASE Send
  <2>1. UNCHANGED <<mojang, cache>> /\ Begin("flush", TRUE)
        /\ send'.profile = send.profile /\ send'.reply = send.reply
    BY <1>1, <1>7 DEF Send, SendTyped, SendOK
  <2> QED
    BY <1>3, <2>1
<1>8. CASE Profiled \/ Confirmed
  <2>1. UNCHANGED <<mojang, cache>> /\ End("flush")
    BY <1>8 DEF Profiled, Confirmed
  <2>2. Names(send'.profile, t) /\ Names(send'.reply, t)
    <3>1. \/ FailSend
          \/ /\ send'.profile = fetch["flush"].seen
             /\ send'.reply = send.reply
      BY <1>1, <1>8 DEF Profiled, Confirmed, SendTyped, SendOK
    <3> QED
      BY <1>5, <3>1
  <2> QED
    BY <1>3, <2>1, <2>2
<1>9. CASE Preserve \/ Reread \/ Keep
  <2>1. UNCHANGED <<mojang, cache, fetch>>
        /\ (FailSend \/ \E pc \in SendPcs : GoTo(pc))
    BY <1>9, FlushPcs DEF Preserve, Reread, Keep
  <2> QED
    BY <1>5, <2>1
<1>10. CASE Persist \/ DropOld
  <2>1. UNCHANGED <<mojang, cache>>
        /\ \/ RefreshAndFail
           \/ fetch' = fetch /\ (FailSend \/ \E pc \in SendPcs : GoTo(pc))
    BY <1>10, FlushPcs DEF Persist, DropOld
  <2> QED
    BY <1>5, <1>6, <2>1
<1>11. CASE SyncCape
  <2>1. mojang'.tex = t /\ cache' = cache
    BY <1>1, <1>11 DEF SyncCape, Profile
  <2>2. \/ RefreshAndFail
        \/ /\ fetch' = fetch
           /\ Succeed \/ send' = [send EXCEPT !.pc = "capeAnswer",
                                              !.reply = mojang']
    BY <1>11 DEF SyncCape
  <2>3. send' = [send EXCEPT !.pc = "capeAnswer", !.reply = mojang']
           => send'.profile = send.profile /\ send'.reply.tex = t
    BY <1>1, <2>1 DEF SendTyped, SendOK
  <2> QED
    BY <1>5, <1>6, <2>1, <2>2, <2>3 DEF Names
<1>12. CASE CapeAnswered
  <2>1. UNCHANGED <<mojang, fetch>> /\ Succeed
        /\ (cache' = Hit(send.reply) \/ cache' = cache)
    BY <1>12 DEF CapeAnswered
  <2>2. Hit(send.reply).profile = send.reply
    BY DEF Hit
  <2> QED
    BY <1>5, <2>1, <2>2
<1>13. CASE Answered
  <2>1. mojang' = mojang /\ (cache' = Hit(send.reply) \/ cache' = cache)
        /\ (fetch' = fetch \/ Begin("flush", FALSE))
    BY <1>13 DEF Answered
  <2>2. Hit(send.reply).profile = send.reply
    BY DEF Hit
  <2>3. send'.profile \in {send.profile, send.reply} /\ send'.reply = None
    BY <1>1, <1>13 DEF Answered, SendTyped, SendOK
  <2> QED
    BY <1>3, <1>4, <2>1, <2>2, <2>3
<1>14. CASE Refreshed
  BY <1>3, <1>5, <1>14 DEF Refreshed
<1>15. CASE List \/ ListProfiled
  <2>1. UNCHANGED <<send, mojang, cache>> /\ (Begin("list", TRUE) \/ End("list"))
    BY <1>15 DEF List, ListProfiled
  <2> QED
    BY <1>3, <2>1
<1>16. CASE \/ ListPending \/ ListRows \/ ListTexture \/ ListWrite
            \/ Commands \/ SetAdded \/ CancelRemoved \/ DropReplaced
  <2>1. UNCHANGED <<send, mojang, cache, fetch>>
    BY <1>16 DEF ListPending, ListRows, ListTexture, ListWrite, Commands,
       AddAndEquip, Edit, Replace, Equip, Unequip, Remove, Command, SetAdded,
       CancelRemoved, DropReplaced
  <2> QED
    BY <2>1
<1>17. CASE Expire
  <2>1. UNCHANGED <<send, mojang, fetch>> /\ cache'.profile = cache.profile
    BY <1>1, <1>17 DEF Expire, CacheRec
  <2> QED
    BY <2>1
<1>18. CASE UNCHANGED vars
  BY <1>18 DEF vars
<1> QED
  BY <1>2, <1>7, <1>8, <1>9, <1>10, <1>11, <1>12, <1>13, <1>14, <1>15, <1>16,
     <1>17, <1>18 DEF Next, Fetching, Sending, Listing

LEMMA WornNext ==
    ASSUME Parts, Matched, Keeping, [Next]_vars
    PROVE  WornIsKnown'
<1> SUFFICES ASSUME NEW t \in Uploads, kept'[t] = "worn", ~IsSaved(t)'
             PROVE  Circulates(t)'
  BY DEF WornIsKnown
<1>1. kept[t] = "worn" /\ ~IsSaved(t)
  BY StepsKeep DEF SavedStays, KeptGrows
<1>2. Circulates(t)
  BY <1>1 DEF Keeping, WornIsKnown
<1>3. ~Upload
  BY <1>1 DEF Keeping, SavedBeforeUpload, Upload
<1> QED
  BY <1>2, <1>3, ProfilesPass

LEMMA UploadNext ==
    ASSUME Parts, Matched, Keeping, [Next]_vars
    PROVE  SavedBeforeUpload'
<1> SUFFICES ASSUME send'.pc = "upload", NEW t \in Uploads, kept'[t] = "worn"
             PROVE  IsSaved(t)'
  BY DEF SavedBeforeUpload
<1>1. kept[t] = "worn" /\ (IsSaved(t) => IsSaved(t)')
  BY StepsKeep DEF SavedStays, KeptGrows
<1>2. CASE send.pc = "upload"
  BY <1>1, <1>2 DEF Keeping, SavedBeforeUpload
<1>3. CASE Preserve
  <2>1. \/ send.profile.tex \in Defaults
        \/ Worn \in DOMAIN rows
    BY <1>3 DEF Preserve, GoTo, Parts, SendTyped, SendOK
  <2>2. send.profile \in Profile
    BY <1>3 DEF Preserve, Parts, SendTyped, SendOK
  <2>3. IsSaved(t)
    <3>1. SUFFICES ASSUME ~IsSaved(t) PROVE FALSE
      OBVIOUS
    <3>2. Names(send.profile, t) /\ send.profile # None
      BY <1>1, <2>2, <3>1, NoneIsNoProfile DEF Keeping, WornIsKnown, Circulates
    <3>3. Worn[1] = t /\ t \notin Defaults
      BY <3>2, TexturesDiffer DEF Worn, Hosted, Names
    <3> QED
      BY <2>1, <3>1, <3>2, <3>3 DEF IsSaved, Names
  <2> QED
    BY <1>1, <2>3
<1>4. CASE Keep
  <2>1. rows' = Put(Worn, send.profile.cape) /\ kept' = Preserved(send.profile.tex)
    <3>1. ~FailSend
      BY SendEnds DEF Parts
    <3> QED
      BY <1>4, <3>1 DEF Keep
  <2>2. t # send.profile.tex
    BY <2>1 DEF Preserved
  <2>3. send.profile \in Profile
    BY <1>4 DEF Keep, Parts, SendTyped, SendOK
  <2>4. IsSaved(t)
    BY <1>1, <2>2, <2>3, NoneIsNoProfile
       DEF Keeping, WornIsKnown, Circulates, Names
  <2> QED
    BY <1>1, <2>4
<1>5. ASSUME send.pc # "upload" PROVE Preserve \/ Keep
  <2>1. send' # send
    BY <1>5
  <2>2. ~(Fetching \/ Expire \/ Commands \/ SetAdded \/ CancelRemoved
          \/ DropReplaced \/ List \/ Listing)
    BY <2>1, FlushUntouched DEF Fetching, Look, Answer, Store, FetchFails,
       Unauthorized
  <2>3. ~FailSend /\ ~Succeed /\ ~RefreshAndFail
    BY SendEnds DEF Parts, RefreshAndFail, GoTo, SendTyped, SendOK
  <2>4. send \in [pc : SendPcs, profile : ProfileOrNone, reply : ProfileOrNone]
    BY DEF Parts, SendTyped, SendOK
  <2>5. ~(Send \/ Profiled \/ Reread \/ Upload \/ Answered \/ Confirmed)
    BY <2>3, <2>4 DEF Send, Profiled, Reread, Upload, Answered, Confirmed, GoTo
  <2>6. ~(Persist \/ DropOld \/ SyncCape \/ CapeAnswered \/ Refreshed)
    BY <2>3, <2>4 DEF Persist, DropOld, SyncCape, CapeAnswered, Refreshed, GoTo
  <2> QED
    BY <2>1, <2>2, <2>5, <2>6 DEF Next, Sending, vars
<1> QED
  BY <1>2, <1>3, <1>4, <1>5

LEMMA DropNext ==
    ASSUME Parts, Matched, Keeping, [Next]_vars
    PROVE  SavedBeforeDrop'
<1> SUFFICES ASSUME send'.pc = "drop"
             PROVE  /\ (running.key # Worn)'
                    /\ send'.profile.tex \in Uploads
                       /\ kept'[send'.profile.tex] # "no" =>
                          Worn' \in DOMAIN rows'
  BY DEF SavedBeforeDrop
<1>1. send \in [pc : SendPcs, profile : ProfileOrNone, reply : ProfileOrNone]
  BY DEF Parts, SendTyped, SendOK
<1>2. ~FailSend /\ ~Succeed /\ ~RefreshAndFail
  BY <1>1, SendEnds DEF Parts, RefreshAndFail, GoTo
<1>3. ~(Send \/ Profiled \/ Preserve \/ Reread \/ Keep \/ Upload)
  BY <1>1, <1>2 DEF Send, Profiled, Preserve, Reread, Keep, Upload, GoTo
<1>4. ~(Answered \/ Confirmed \/ DropOld \/ SyncCape \/ CapeAnswered \/ Refreshed)
  BY <1>1, <1>2 DEF Answered, Confirmed, DropOld, SyncCape, CapeAnswered,
     Refreshed, GoTo
<1>5. CASE Persist
  <2>1. /\ send' = [send EXCEPT !.pc = "drop"] /\ running' = running
        /\ running.key # Worn /\ kept' = kept
        /\ rows' = Save(Worn, running.cape)
    BY <1>1, <1>2, <1>5 DEF Persist, GoTo, queue
  <2>2. send'.profile = send.profile
    BY <1>1, <2>1
  <2>3. Worn' = Worn /\ Worn[1] = send.profile.tex
    BY <2>2 DEF Worn, Hosted
  <2> QED
    BY <2>1, <2>2, <2>3, SaveStays
<1>6. CASE UNCHANGED <<send, running>>
  <2>1. send.pc = "drop" /\ Worn' = Worn /\ running.key # Worn
    BY <1>6 DEF Worn, Keeping, SavedBeforeDrop
  <2>2. ASSUME send.profile.tex \in Uploads, kept'[send.profile.tex] # "no"
        PROVE  Worn \in DOMAIN rows'
    <3>1. kept[send.profile.tex] # "no"
      <4>1. SUFFICES ASSUME kept[send.profile.tex] = "no" PROVE FALSE
        OBVIOUS
      <4>2. ~Sent(send.profile.tex)
        BY <2>2, <4>1, StepsKeep DEF KeptGrows
      <4>3. running \in Change /\ running.kind # "unequip" /\ running # None
        BY <2>1, WornTyped DEF Matched, Parts, QueueOK
      <4>4. running.key \in Key /\ running.key[1] = send.profile.tex
        BY <2>1, <4>3 DEF Matched, Uploaded, Change
      <4>5. running.key \in {Local(send.profile.tex), Hosted(send.profile.tex)}
        BY <4>4 DEF Key, Local, Hosted
      <4> QED
        BY <4>2, <4>3, <4>5 DEF Sent
    <3>2. Worn \in DOMAIN rows /\ Worn[1] = send.profile.tex
      BY <2>1, <2>2, <3>1 DEF Keeping, SavedBeforeDrop, Worn, Hosted
    <3>3. RowsStay
      BY <1>4, StepsKeep
    <3> QED
      BY <2>2, <3>2, <3>3 DEF RowsStay
  <2> QED
    BY <1>6, <2>1, <2>2
<1> QED
  BY <1>3, <1>4, <1>5, <1>6, FlushUntouched DEF Next, Sending, vars, queue,
     Fetching, Look, Answer, Store, FetchFails, Unauthorized

LEMMA ReplacedNext ==
    ASSUME Parts, Matched, Keeping, [Next]_vars
    PROVE  ReplacedMayGo'
<1> SUFFICES ASSUME op'.pc = "replaced"
             PROVE  op'.key[1] \in Uploads /\ kept'[op'.key[1]] = "no"
  BY DEF ReplacedMayGo
<1>1. CASE op.pc = "replaced" /\ op' = op
  <2>1. op.key[1] \in Uploads /\ kept[op.key[1]] = "no"
    BY <1>1 DEF Keeping, ReplacedMayGo
  <2> QED
    BY <1>1, <2>1, StepsKeep DEF KeptGrows
<1>2. ASSUME NEW c \in Cape, NEW k \in Saved, NEW t \in Uploads, Replace(k, t, c)
      PROVE  op'.key[1] \in Uploads /\ kept'[op'.key[1]] = "no"
  <2>1. op' = [NoOp EXCEPT !.pc = "replaced", !.key = k]
    BY <1>2 DEF Replace, NoOp
  <2>2. op'.key = k /\ k[1] \in Uploads
    BY <2>1 DEF NoOp, Saved
  <2>3. kept' = [Mark(k[1], "no") EXCEPT ![t] = "saved"] /\ t # k[1]
    BY <1>2 DEF Replace
  <2> QED
    BY <2>2, <2>3 DEF Mark
<1>3. CASE Commands
  <2>1. op.pc = "idle"
    BY <1>3 DEF Commands, AddAndEquip, Edit, Replace, Equip, Unequip, Remove,
       Command
  <2>2. op' # op
    BY <2>1
  <2>3. ASSUME NEW c \in Cape, NEW t \in Uploads, AddAndEquip(t, c) PROVE FALSE
    BY <2>3 DEF AddAndEquip, NoOp
  <2>4. ASSUME NEW k, Remove(k) PROVE FALSE
    BY <2>4 DEF Remove, NoOp
  <2> QED
    BY <1>2, <1>3, <2>2, <2>3, <2>4 DEF Commands, Edit, Equip, Unequip
<1>4. CASE SetAdded \/ CancelRemoved \/ DropReplaced
  BY <1>4 DEF SetAdded, CancelRemoved, DropReplaced, NoOp
<1>5. CASE Fetching \/ Expire \/ Send \/ List \/ Listing
  BY <1>1, <1>5 DEF Fetching, Look, Answer, Store, FetchFails, Unauthorized,
     Expire, Send, List, Listing, ListProfiled, ListPending, ListRows,
     ListTexture, ListWrite
<1>6. CASE Sending
  BY <1>1, <1>6 DEF Sending, Profiled, Preserve, Reread, Keep, Upload, Answered,
     Confirmed, Persist, DropOld, SyncCape, CapeAnswered, Refreshed
<1>7. CASE UNCHANGED vars
  BY <1>1, <1>7 DEF vars
<1> QED
  BY <1>3, <1>4, <1>5, <1>6, <1>7 DEF Next

LEMMA KeepingInit == Init => Keeping
<1> SUFFICES ASSUME Init PROVE Keeping
  OBVIOUS
<1>1. send.pc = "idle" /\ send.profile = None /\ send.reply = None
      /\ cache.profile = None /\ op.pc = "idle"
  BY DEF Init, NoSend, NoCache, NoOp
<1>2. \A r \in {"flush", "list"} : fetch[r].stale = None /\ fetch[r].seen = None
  BY DEF Init, NoFetch
<1>3. \A t \in Uploads : kept[t] # "saved" /\ (kept[t] = "worn" => mojang.tex = t)
  BY DEF Init
<1> QED
  BY <1>1, <1>2, <1>3 DEF Keeping, SavedIsSaved, WornIsKnown, Circulates, Names,
     SavedBeforeUpload, SavedBeforeDrop, ReplacedMayGo

\* No skin of the player's is lost: one that was added, edited or preserved is
\* saved until the player removes it, and the one that was worn before the app
\* touched it stays worn until it is saved, whichever requests fail, whichever
\* answers are lost and whatever a listing corrects meanwhile.
THEOREM NoSkinIsLost == Spec => []SkinsKept
<1>1. Parts /\ Matched /\ Keeping /\ [Next]_vars => Keeping'
  BY SavedNext, WornNext, UploadNext, DropNext, ReplacedNext DEF Keeping
<1>2. Parts /\ Keeping => SkinsKept
  BY DEF Parts, RestOK, Keeping, SavedIsSaved, WornIsKnown, Circulates, SkinsKept
<1> QED
  BY <1>1, <1>2, KeepingInit, MatchedHolds, PTL DEF Spec
=============================================================================
