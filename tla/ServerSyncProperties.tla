------------------------ MODULE ServerSyncProperties ------------------------
(***************************************************************************)
(* What the synchronisation of server lists guarantees.                    *)
(***************************************************************************)
EXTENDS ServerSync

\* Every variable has its type.
TypeOK ==
    /\ shared \in Seq(Shared)
    /\ revision \in Nat \cup {None}
    /\ locals \in [Instances -> Seq(Local)]
    /\ base \in [Instances -> Seq(Record)]
    /\ \A i \in Instances :
          /\ point[i] # None =>
                /\ point[i].expected \in Seq(Data) \cup {None}
                /\ point[i].revision \in Nat
                /\ point[i].status \in {"pending", "ready"}
          /\ made[i] \in Seq(Data) \cup {None}
          /\ file[i].kind \in {"none", "plain", "link"}
          /\ file[i].data \in Seq(Data)
          /\ file[i].kind = "link" => made[i] # None
    /\ on \in BOOLEAN /\ joined \in [Instances -> BOOLEAN]
    /\ stage \in [Instances -> Stages]
    /\ game \subseteq Instances /\ due \subseteq Instances
    /\ overdue \subseteq Instances
    /\ used \subseteq Servers /\ app \in {"up", "down"}
    /\ app = "down" => todo = <<>> /\ due = {}

---------------------------------------------------------------------------
\* The shared list as the player sees it: what is in the database, with the
\* changes of the instances that have not been read back.
\* (Sets of one element, so that TLC evaluates what is bound only once.)
Edited(current, shown, matching) ==
    [added |-> {current[k].server : k \in {j \in DOMAIN current : matching[j] = 0}},
     dropped |-> {id \in IdsOf(shown) : Dropped(id, "synced", shown, matching)}]
Edits(i) == UNION {{Edited(current, shown, m) : m \in {Matching(current, shown)}} :
                      current \in {List(i)}, shown \in {base[i]}}

\* What the lock holder is about to write over has been read back, or is
\* given up.
Rewritten(i) == Effective(i) /\ \E k \in DOMAIN todo :
    todo[k].instance = i /\ todo[k].op \in {"begin", "regenerate", "ensure"}
Live == {i \in Instances : Participating(i) /\ Differs(i) /\ ~Rewritten(i)}
LiveEdits == UNION {Edits(i) : i \in Live}
NamedIf(Holds(_)) == {s.data.server : s \in {x \in ToSet(shared) : Holds(x.id)}}
Added(edited) == UNION {e.added : e \in edited}
Wanted == UNION {NamedIf(LAMBDA id : \A e \in edited : id \notin e.dropped)
                    \cup Added(edited) : edited \in {LiveEdits}}
Contested == UNION {NamedIf(LAMBDA id : \E e \in edited : id \in e.dropped)
                       \cap Added(edited) : edited \in {LiveEdits}}

SwitchSteps == {"apply", "retire", "seed", "join", "defer", "prefer", "enable",
                "disable", "leave", "complete", "joined", "ensure"}
Switching == \/ \E k \in DOMAIN todo : todo[k].op \in SwitchSteps
             \/ \E i \in Instances : Participating(i) /\ point[i] = None

\* The shared list changes when a player acts, by one server at a time, and
\* in no other way.  Reading an instance's list back, writing the lists, and
\* closing the app between any two of these steps leave it alone.
SharedList == INSTANCE SharedServers WITH
    Server <- Servers, list <- Wanted, contested <- Contested,
    acts <- commands + edits, switching <- Switching
ImplementsSharedList == SharedList!Spec

---------------------------------------------------------------------------
\* What a reconciliation takes to be up to date, and leaves alone, is: the file
\* is the list the database gives.  The exceptions are the overdue instances,
\* whose own rows were changed without a trace: a commit of them does not raise
\* the revision.
UpToDate(i) == /\ Effective(i) /\ IsExpected(i)
               /\ point[i].status = "ready" /\ point[i].revision = Rev
UpToDateIsComposed ==
    todo = <<>> => \A i \in Instances \ overdue :
        UpToDate(i) => Visible(i) = DataOf(Shown(i))

\* No server is in a list twice: no two entries have one address.
Once(datas) == \A j, k \in DOMAIN datas : SameAddress(datas[j], datas[k]) => j = k

\* What instance i has comes into the shared list.
Brings(i) == Seed(i) \/ Join(i) \/ MergeServers(i)
\* It reads back a list that is not the one the instance should have by now.
ReadStale(i) == MergeServers(i) /\ Shown(i) # base[i]

\* An instance is shown no server twice but those its modpack has as well, and
\* no step changes that, unless an instance brings a stale list, or one with a
\* server twice, or one that may have a server the other keeps a copy of; or
\* the player adds, in the launcher, a server that is shared already.
OwnRows(i) ==
    Records(shared, SelectSeq(locals[i], LAMBDA l : l.source # "modpack"))
KeepsCopy(i) == \E l \in ToSet(locals[i]) : l.source = "local_desynced"
ShownOnce ==
    [][rows' # rows => \A i \in Instances :
          Once(DataOf(OwnRows(i))) /\ ~Once(DataOf(OwnRows(i)')) =>
             \E j \in Instances :
                \/ AddServer(j)
                \/ Brings(j) /\ \/ ReadStale(j) \/ ~Once(List(j))
                                \/ j # i /\ KeepsCopy(i)]_vars

\* An instance whose list is read back, and was shown all there was to show,
\* is shown the list as the player has left it; except that taking away the
\* instance's own copy of a shared server brings that server back.  And an entry
\* whose name or address alone was changed keeps its row, however many entries
\* were changed, added, taken off or moved with it: rows of other instances that
\* stand for that server go on to do so.
Excluded(i) == {l.excluded : l \in ToSet(locals[i])}
Single(datas) ==
    \A j, k \in DOMAIN datas : datas[j].server = datas[k].server => j = k
StaysItself(i, r, d) == SameAddress(r.data, d) \/ SameName(r.data, d) =>
    [r EXCEPT !.data = d] \in ToSet(Shown(i)')
EditsKept ==
    [][\A i \in Instances :
          /\ MergeServers(i) /\ Shown(i) = base[i]
          /\ todo' # Tail(todo)
          /\ Excluded(i) \subseteq Excluded(i)'
          => /\ DataOf(Shown(i)') = List(i)
             /\ Single(List(i)) /\ Single(DataOf(base[i])) =>
                   \A r \in ToSet(base[i]), d \in ToSet(List(i)) :
                      StaysItself(i, r, d)]_vars

\* A server that was added in a game is in the list that replaces the one of
\* the game: "you can edit them from any instance afterward", as the settings
\* page says of shared servers.  Holds unless games overlap.
AddedServersKept ==
    [][\A i \in Instances :
          Begin(i) /\ point[i] # None /\ point[i].status = "ready" =>
              \A e \in Edits(i) : e.added \subseteq ServersOf(point'[i].expected)]_vars

\* The servers that came with a modpack are not shared by the instance that
\* has it: not when it joins or becomes the base, and not when its list is read
\* back, unless that list is stale, or has a server twice.
PackShared(i) == \E l \in ToSet(locals[i]), s \in ToSet(shared) :
    l.source = "modpack" /\ SameAddress(l.data, s.data)
PackServersStayLocal ==
    [][rows' # rows => \A i \in Instances :
          Brings(i) /\ ~PackShared(i) /\ PackShared(i)' =>
             ReadStale(i) \/ ~Once(List(i))]_vars
=============================================================================
