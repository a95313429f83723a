---------------------------- MODULE ServerMerge ----------------------------
(***************************************************************************)
(* The multiplayer server lists the launcher shares between instances, as  *)
(* data: what an instance is shown, and how a list that a game has changed *)
(* is matched with the one the launcher last wrote (the projection).       *)
(*                                                                         *)
(* A server has an identity, which the launcher cannot see, and an address *)
(* and a name, which the player may change.  No two servers share an       *)
(* address or a name.                                                      *)
(***************************************************************************)
EXTENDS Naturals, Sequences, FiniteSets, SequencesExt

CONSTANTS Servers, None

Data == [server : Servers, addr : 0..1, name : 0..1]
SameAddress(d, e) == d.server = e.server /\ d.addr = e.addr
SameName(d, e) == d.server = e.server /\ d.name = e.name

Ids == Nat
Shared == [id : Ids, data : Data]
Sources == {"modpack", "linked_server_project", "local_desynced"}
Local == [id : Ids, source : Sources, excluded : Ids \cup {None},
          data : Data, position : Nat]
Record == [id : Ids, owner : {"synced", "instance"}, data : Data]

IdsOf(rows) == {rows[k].id : k \in DOMAIN rows}
DataOf(rows) == [k \in DOMAIN rows |-> rows[k].data]
ServersOf(datas) == {datas[k].server : k \in DOMAIN datas}
WithId(rows, id) == CHOOSE r \in ToSet(rows) : r.id = id

\* The entries at these positions, in their order.
Retained(entries, positions) ==
    LET nth(j) == CHOOSE k \in positions :
                     Cardinality({x \in positions : x <= k}) = j
    IN  [j \in 1..Cardinality(positions) |-> entries[nth(j)]]

Owned(owner, row) == [id |-> row.id, owner |-> owner, data |-> row.data]

\* Local rows are read back in the order of their positions.
ByPosition(locals) ==
    SetToSortSeq(ToSet(locals), LAMBDA a, b : a.position < b.position)

\* What an instance is shown: the shared servers but those a local row
\* stands for, with the local ones put in at their positions.
Records(shared, locals) ==
    LET excluded == {locals[k].excluded : k \in DOMAIN locals}
        kept == SelectSeq(shared, LAMBDA s : s.id \notin excluded)
        place(records, local) ==
            LET n == Len(records)
                at == IF local.position < n THEN local.position ELSE n
            IN  InsertAt(records, at + 1, Owned("instance", local))
    IN  FoldLeft(place, [k \in DOMAIN kept |-> Owned("synced", kept[k])], locals)

---------------------------------------------------------------------------
\* A matching gives each entry of the current list the number of an entry of
\* the projection, or 0.  Equal entries are matched first, then those of one
\* address, then those of one name.  In each pass the entries are tried in
\* order, and take the nearest one that is left.  So there is a single order
\* in which pairs are made, and the matching is the one that is stable for it.
Unlike == 4
\* Mutant: the pass by address is missing.
LikenessByName(d, e) == CASE d = e -> 1
                          [] d # e /\ SameName(d, e) -> 3
                          [] OTHER -> Unlike
Likeness(d, e) == CASE d = e -> 1
                    [] d # e /\ SameAddress(d, e) -> 2
                    [] d # e /\ SameName(d, e) -> 3
                    [] OTHER -> Unlike
Distance(k, b) == IF k < b THEN b - k ELSE k - b

Before(x, y) == \/ x[1] < y[1]
                \/ x[1] = y[1] /\ x[2] < y[2]
                \/ x[1] = y[1] /\ x[2] = y[2] /\ x[3] < y[3]

Matching(current, base) ==
    LET like == [k \in DOMAIN current |->
                    [b \in DOMAIN base |-> Likeness(current[k], base[b].data)]]
        claim(k, b) == <<like[k][b], k, 0>>         \* as b sees it
        wish(k, b) == <<like[k][b], Distance(k, b), b>>  \* as k sees it
        taken(m, k, b) == \E j \in DOMAIN current :
                            m[j] = b /\ Before(claim(j, b), claim(k, b))
        content(m, k, b) == m[k] # 0 /\ (m[k] = b \/ Before(wish(k, m[k]), wish(k, b)))
        stable(m) ==
            /\ \A k \in DOMAIN current : m[k] # 0 => like[k][m[k]] < Unlike
            /\ \A j, k \in DOMAIN current : m[j] = m[k] /\ m[j] # 0 => j = k
            /\ \A k \in DOMAIN current, b \in DOMAIN base :
                  like[k][b] < Unlike => content(m, k, b) \/ taken(m, k, b)
    IN  CHOOSE m \in [DOMAIN current -> 0..Len(base)] : stable(m)

---------------------------------------------------------------------------
\* The rows after the instance's list has been read back.  fresh is a
\* sequence of ids for entries that match nothing.
IdAt(k, matching, base, fresh) ==
    IF matching[k] = 0
    THEN fresh[Cardinality({j \in 1..k : matching[j] = 0})]
    ELSE base[matching[k]].id

OwnerAt(k, matching, base) ==
    IF matching[k] = 0 THEN "synced" ELSE base[matching[k]].owner

\* The entry of the current list that a row of this owner goes by, or 0.
EntryOf(id, owner, current, base, matching, fresh) ==
    LET ks == {k \in DOMAIN current : /\ OwnerAt(k, matching, base) = owner
                                      /\ IdAt(k, matching, base, fresh) = id}
    IN  IF ks = {} THEN 0 ELSE CHOOSE k \in ks : TRUE

\* The player has taken the entry off the list.
Dropped(id, owner, base, matching) ==
    \E b \in DOMAIN base : /\ base[b].id = id /\ base[b].owner = owner
                           /\ \A k \in DOMAIN matching : matching[k] # b

Changed(k, current, base, matching) ==
    matching[k] # 0 /\ current[k] # base[matching[k]].data

MergedLocals(locals, current, base, matching) ==
    LET update(l) ==
          LET k == EntryOf(l.id, "instance", current, base, matching, <<>>)
          IN  IF k = 0 THEN l
              ELSE [l EXCEPT !.position = k - 1,
                             !.data = IF Changed(k, current, base, matching)
                                      THEN current[k] ELSE @]
        kept == SelectSeq(locals, LAMBDA l :
                    ~Dropped(l.id, "instance", base, matching))
    IN  [k \in DOMAIN kept |-> update(kept[k])]

\* Rows on show are put in the order of the list; the others stay where they
\* are.
Reordered(rows, order) ==
    LET shown == SelectSeq(order, LAMBDA id : id \in IdsOf(rows))
        slots == {k \in DOMAIN rows : rows[k].id \in ToSet(shown)}
        nth(k) == Cardinality({j \in slots : j <= k})
    IN  [k \in DOMAIN rows |->
            IF k \in slots THEN WithId(rows, shown[nth(k)]) ELSE rows[k]]

MergedShared(shared, current, base, matching, fresh) ==
    LET update(s) ==
          LET k == EntryOf(s.id, "synced", current, base, matching, fresh)
          IN  IF k # 0 /\ Changed(k, current, base, matching)
              THEN [s EXCEPT !.data = current[k]] ELSE s
        new == SelectSeq([k \in DOMAIN current |-> k],
                         LAMBDA k : matching[k] = 0)
        added == [j \in DOMAIN new |->
                    [id |-> fresh[j], data |-> current[new[j]]]]
        kept == SelectSeq(shared, LAMBDA s :
                    ~Dropped(s.id, "synced", base, matching))
        order == SelectSeq([k \in DOMAIN current |-> k],
                    LAMBDA k : OwnerAt(k, matching, base) = "synced")
    IN  Reordered([k \in DOMAIN kept |-> update(kept[k])] \o added,
                  [j \in DOMAIN order |->
                      IdAt(order[j], matching, base, fresh)])

\* The entries of an instance's own list that could be shared: without those
\* that go by a local row.
\* Mutant: local rows count as well.
CandidatesAll(current, locals) == current
Candidates(current, locals) ==
    LET without(datas, local) ==
          LET exact == {k \in DOMAIN datas : datas[k] = local.data}
              same == {k \in DOMAIN datas : SameAddress(datas[k], local.data)}
              first(S) == CHOOSE k \in S : \A j \in S : k <= j
          IN  CASE exact # {} -> RemoveAt(datas, first(exact))
                [] exact = {} /\ same # {} -> RemoveAt(datas, first(same))
                [] OTHER -> datas
    IN  FoldLeft(without, current, locals)

\* The candidates that are not shared yet.
\* Mutant: an address that is shared already is added again.
UnknownAll(datas, shared) == datas
Unknown(datas, shared) ==
    LET add(new, d) ==
          IF \E e \in ToSet(DataOf(shared)) \cup ToSet(new) : SameAddress(d, e)
          THEN new ELSE Append(new, d)
    IN  FoldLeft(add, <<>>, datas)
=============================================================================
