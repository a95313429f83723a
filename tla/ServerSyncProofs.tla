-------------------------- MODULE ServerSyncProofs --------------------------
(***************************************************************************)
(* Theorems about ServerSync, for every number of instances, servers,      *)
(* commands, edits and crashes: a list that a reconciliation takes to be   *)
(* up to date is the one the database gives, whatever happens at once; a   *)
(* checkpoint is finished when the list it names has been written; and no  *)
(* list is written under the game that uses it.                            *)
(***************************************************************************)
EXTENDS ServerSyncProperties, TLAPS, FiniteSetTheorems, SequenceTheorems

----------------------------------------------------------------------------
(* Sequences, whatever their elements are. *)

IsSeq(s) == s \in Seq({s[k] : k \in DOMAIN s})

LEMMA AnySeq ==
    ASSUME NEW n \in Nat, NEW s, s = [k \in 1..n |-> s[k]]
    PROVE  IsSeq(s) /\ Len(s) = n /\ DOMAIN s = 1..n
<1> DEFINE S == {s[k] : k \in DOMAIN s}
<1>1. DOMAIN s = 1..n
  OBVIOUS
<1>2. \A k \in 1..n : s[k] \in S
  BY <1>1
<1>3. s \in [1..n -> S]
  BY <1>1, <1>2
<1>4. s \in Seq(S)
  BY <1>3
<1> QED
  BY <1>1, <1>4 DEF IsSeq

LEMMA SeqShape ==
    ASSUME NEW S, NEW s \in Seq(S)
    PROVE  Len(s) \in Nat /\ s = [k \in 1..Len(s) |-> s[k]]
OBVIOUS

LEMMA SeqLen ==
    ASSUME NEW s, IsSeq(s)
    PROVE  /\ Len(s) \in Nat /\ DOMAIN s = 1..Len(s)
           /\ s = [k \in 1..Len(s) |-> s[k]]
<1> DEFINE S == {s[k] : k \in DOMAIN s}
<1>1. s \in Seq(S)
  BY DEF IsSeq
<1> HIDE DEF S
<1> QED
  BY <1>1

LEMMA JoinedSeq ==
    ASSUME NEW s, IsSeq(s), NEW t, IsSeq(t)
    PROVE  /\ IsSeq(s \o t) /\ DOMAIN (s \o t) = 1..(Len(s) + Len(t))
           /\ \A k \in 1..Len(s) : (s \o t)[k] = s[k]
           /\ \A k \in 1..Len(t) : (s \o t)[Len(s) + k] = t[k]
<1> DEFINE S == {s[k] : k \in DOMAIN s}
           T == {t[k] : k \in DOMAIN t}
<1>1. s \in Seq(S) /\ t \in Seq(T)
  BY DEF IsSeq
<1> HIDE DEF S, T
<1>2. s \in Seq(S \cup T) /\ t \in Seq(S \cup T)
  BY <1>1
<1>3. s \o t \in Seq(S \cup T) /\ Len(s \o t) = Len(s) + Len(t)
  BY <1>2
<1>4. Len(s \o t) \in Nat /\ s \o t = [k \in 1..Len(s \o t) |-> (s \o t)[k]]
  BY <1>3, SeqShape
<1>5. IsSeq(s \o t)
  BY <1>4, AnySeq
<1>6. DOMAIN (s \o t) = 1..(Len(s) + Len(t))
  BY <1>3
<1>7. \A k \in 1..Len(s) : (s \o t)[k] = s[k]
  BY <1>2
<1>8. \A k \in 1..Len(t) : (s \o t)[Len(s) + k] = t[k]
  BY <1>2
<1> QED
  BY <1>5, <1>6, <1>7, <1>8

LEMMA TailSeq ==
    ASSUME NEW s, IsSeq(s), s # <<>>
    PROVE  /\ IsSeq(Tail(s)) /\ Len(s) \in Nat \ {0} /\ Head(s) = s[1]
           /\ Len(Tail(s)) = Len(s) - 1
           /\ \A k \in 1..(Len(s) - 1) : Tail(s)[k] = s[k + 1]
<1> DEFINE S == {s[k] : k \in DOMAIN s}
<1>1. s \in Seq(S)
  BY DEF IsSeq
<1> HIDE DEF S
<1>2. Len(s) \in Nat \ {0} /\ Head(s) = s[1]
  BY <1>1
<1>3. Tail(s) \in Seq(S) /\ Len(Tail(s)) = Len(s) - 1
  BY <1>1
<1>4. Len(Tail(s)) \in Nat /\ Tail(s) = [k \in 1..Len(Tail(s)) |-> Tail(s)[k]]
  BY <1>3, SeqShape
<1>5. IsSeq(Tail(s))
  BY <1>4, AnySeq
<1>6. \A k \in 1..(Len(s) - 1) : Tail(s)[k] = s[k + 1]
  BY <1>1
<1> QED
  BY <1>2, <1>3, <1>5, <1>6

LEMMA ShortSeqs ==
    /\ IsSeq(<<>>) /\ Len(<<>>) = 0
    /\ \A a : IsSeq(<<a>>) /\ Len(<<a>>) = 1 /\ <<a>>[1] = a
<1>1. IsSeq(<<>>) /\ Len(<<>>) = 0
  <2>1. <<>> \in Seq({}) /\ Len(<<>>) = 0
    OBVIOUS
  <2> QED
    BY <2>1, SeqShape, AnySeq
<1>2. ASSUME NEW a PROVE IsSeq(<<a>>) /\ Len(<<a>>) = 1 /\ <<a>>[1] = a
  <2>1. <<a>> \in Seq({a}) /\ Len(<<a>>) = 1 /\ <<a>>[1] = a
    OBVIOUS
  <2> QED
    BY <2>1, SeqShape, AnySeq
<1> QED
  BY <1>1, <1>2

LEMMA NothingBefore ==
    ASSUME NEW s, IsSeq(s)
    PROVE  <<>> \o s = s
<1> DEFINE S == {s[k] : k \in DOMAIN s}
<1>1. s \in Seq(S)
  BY DEF IsSeq
<1> HIDE DEF S
<1> QED
  BY <1>1, ConcatEmptySeq

----------------------------------------------------------------------------
(* Plans: sequences of steps in which a checkpoint is finished only after  *)
(* the three steps that go before.                                         *)

Composed(s, k) ==
    LET i == s[k].instance
    IN  /\ k >= 4
        /\ s[k - 3] = Do("begin", i)
        /\ s[k - 2] = Do("generate", i)
        /\ s[k - 1] = Do("link", i)

Whole(s) == /\ IsSeq(s)
            /\ \A k \in DOMAIN s : s[k].op = "finish" => Composed(s, k)

LEMMA WholeJoin ==
    ASSUME NEW s, Whole(s), NEW t, Whole(t)
    PROVE  Whole(s \o t)
<1>1. IsSeq(s) /\ IsSeq(t)
  BY DEF Whole
<1>2. /\ Len(s) \in Nat /\ DOMAIN s = 1..Len(s)
      /\ Len(t) \in Nat /\ DOMAIN t = 1..Len(t)
  BY <1>1, SeqLen
<1> DEFINE u == s \o t
<1>3. /\ IsSeq(u) /\ DOMAIN u = 1..(Len(s) + Len(t))
      /\ \A k \in 1..Len(s) : u[k] = s[k]
      /\ \A k \in 1..Len(t) : u[Len(s) + k] = t[k]
  BY <1>1, JoinedSeq
<1> HIDE DEF u
<1>4. ASSUME NEW k \in DOMAIN u, u[k].op = "finish"
      PROVE  Composed(u, k)
  <2>1. CASE k \in 1..Len(s)
    <3>1. u[k] = s[k] /\ Composed(s, k)
      BY <1>2, <1>3, <1>4, <2>1 DEF Whole
    <3>2. k - 3 \in 1..Len(s) /\ k - 2 \in 1..Len(s) /\ k - 1 \in 1..Len(s)
      BY <1>2, <2>1, <3>1 DEF Composed
    <3> QED
      BY <1>3, <3>1, <3>2 DEF Composed
  <2>2. CASE k \notin 1..Len(s)
    <3> DEFINE m == k - Len(s)
    <3>1. m \in 1..Len(t) /\ k = Len(s) + m
      BY <1>2, <1>3, <2>2
    <3> HIDE DEF m
    <3>2. u[k] = t[m]
      BY <1>3, <3>1
    <3>3. Composed(t, m)
      BY <1>2, <1>4, <3>1, <3>2 DEF Whole
    <3>4. /\ m - 3 \in 1..Len(t) /\ k - 3 = Len(s) + (m - 3)
          /\ m - 2 \in 1..Len(t) /\ k - 2 = Len(s) + (m - 2)
          /\ m - 1 \in 1..Len(t) /\ k - 1 = Len(s) + (m - 1)
      BY <1>2, <3>1, <3>3 DEF Composed
    <3>5. u[k - 3] = t[m - 3] /\ u[k - 2] = t[m - 2] /\ u[k - 1] = t[m - 1]
      BY <1>3, <3>4
    <3>6. k >= 4
      BY <1>2, <3>1, <3>3 DEF Composed
    <3> QED
      BY <3>2, <3>3, <3>5, <3>6 DEF Composed
  <2> QED
    BY <2>1, <2>2
<1> QED
  BY <1>3, <1>4 DEF Whole, u

LEMMA WholeShort ==
    /\ Whole(<<>>)
    /\ \A a : a.op # "finish" => Whole(<<a>>)
<1>1. Whole(<<>>)
  BY ShortSeqs DEF Whole
<1>2. ASSUME NEW a, a.op # "finish" PROVE Whole(<<a>>)
  <2>1. IsSeq(<<a>>) /\ DOMAIN <<a>> = 1..1 /\ <<a>>[1] = a
    BY ShortSeqs, SeqLen
  <2> QED
    BY <1>2, <2>1 DEF Whole
<1> QED
  BY <1>1, <1>2

LEMMA WholeCompose ==
    ASSUME NEW i
    PROVE  /\ Whole(Compose(i)) /\ Len(Compose(i)) = 4
           /\ Compose(i)[1] = Do("begin", i)
<1> DEFINE c == Compose(i)
<1>1. /\ c = [k \in 1..4 |-> c[k]]
      /\ c[1] = Do("begin", i) /\ c[2] = Do("generate", i)
      /\ c[3] = Do("link", i) /\ c[4] = Do("finish", i)
  BY DEF Compose
<1> HIDE DEF c
<1>2. IsSeq(c) /\ Len(c) = 4 /\ DOMAIN c = 1..4
  BY <1>1, AnySeq
<1>3. ASSUME NEW k \in 1..4, c[k].op = "finish" PROVE Composed(c, k)
  <2>1. k = 4
    BY <1>1, <1>3 DEF Do
  <2> QED
    BY <1>1, <2>1 DEF Composed, Do
<1> QED
  BY <1>1, <1>2, <1>3 DEF Whole, c

LEMMA OrderIsSeq == \E n \in Nat : DOMAIN Order = 1..n
<1> DEFINE n == Cardinality(Instances)
<1>1. n \in Nat
  BY FinitelyMany, FS_CardinalityType
<1>2. \E f \in [1..n -> Instances] : IsInjective(f)
  <2>1. ExistsBijection(1..n, Instances)
    BY FinitelyMany, FS_CardinalityType
  <2>2. PICK f : f \in Bijection(1..n, Instances)
    BY <2>1 DEF ExistsBijection
  <2> QED
    BY <2>2 DEF Bijection, Injection, IsInjective
<1>3. Order \in [1..n -> Instances]
  BY <1>2 DEF Order, SetToSeq
<1> QED
  BY <1>1, <1>3

LEMMA WholeEach ==
    ASSUME NEW op, op # "finish"
    PROVE  Whole(Each(op))
<1>1. PICK n \in Nat : DOMAIN Order = 1..n
  BY OrderIsSeq
<1>2. Each(op) = [k \in 1..n |-> Do(op, Order[k])]
  BY <1>1 DEF Each
<1>3. Each(op) = [k \in 1..n |-> Each(op)[k]]
  BY <1>2
<1>4. IsSeq(Each(op)) /\ DOMAIN Each(op) = 1..n
  BY <1>3, AnySeq
<1>5. \A k \in 1..n : Each(op)[k].op = op
  BY <1>2 DEF Do
<1> QED
  BY <1>4, <1>5 DEF Whole

LEMMA WholeApply ==
    ASSUME IsSeq(pending)
    PROVE  Whole(Apply)
<1>1. Len(pending) \in Nat /\ DOMAIN pending = 1..Len(pending)
  BY SeqLen
<1>2. Apply = [k \in 1..Len(pending) |-> [op |-> "apply",
         instance |-> pending[k].instance, action |-> pending[k].action]]
  BY <1>1 DEF Apply
<1>3. Apply = [k \in 1..Len(pending) |-> Apply[k]]
  BY <1>2
<1>4. IsSeq(Apply) /\ DOMAIN Apply = 1..Len(pending)
  BY <1>1, <1>3, AnySeq
<1>5. \A k \in 1..Len(pending) : Apply[k].op = "apply"
  BY <1>2
<1> QED
  BY <1>4, <1>5 DEF Whole

----------------------------------------------------------------------------
(* The inductive invariant. *)

\* The checkpoint of an instance whose list is being written.
Fresh(i) == point[i] = [expected |-> DataOf(Shown(i)), revision |-> Rev,
                        status |-> "pending"]

\* What the holder of the lock has begun is at the head of its plan.
Begun(k) ==
    LET i == todo[k].instance
    IN  /\ k \in 1..3
        /\ k = 3 => todo[1] = Do("generate", i)
        /\ k > 1 => todo[k - 1] = Do("link", i)
        /\ i \in Instances /\ Fresh(i)

Planned == /\ IsSeq(todo)
           /\ \A k \in DOMAIN todo :
                 todo[k].op = "finish" => Composed(todo, k) \/ Begun(k)

\* No checkpoint is ahead of the shared list, and no row excludes a shared
\* server that is not there.
Stored ==
    /\ revision \in Nat \cup {None}
    /\ \A i \in Instances :
          /\ Existing(locals[i], IdsOf(shared)) = locals[i]
          /\ point[i] # None => point[i].revision \in 0..Rev
    /\ DOMAIN point = Instances
    /\ IsSeq(pending)
    /\ app \in {"up", "down"} /\ (app = "down" => todo = <<>>)

NextIs(i) == todo # <<>> /\ Head(todo) = Do("begin", i)

\* A checkpoint of the present revision expects what the database gives, but
\* for the moment in which the rows have been changed and the list is the next
\* thing to be written.
Known ==
    \A i \in Instances \ overdue :
        point[i] # None /\ point[i] # Deferred /\ point[i].revision = Rev =>
            point[i].expected = DataOf(Shown(i)) \/ NextIs(i)

SyncInv == Stored /\ Planned /\ Known

LEMMA InitInv == Init => SyncInv
<1> SUFFICES ASSUME Init PROVE SyncInv
  OBVIOUS
<1> USE DEF Init
<1>1. todo = <<>> /\ pending = <<>> /\ IsSeq(<<>>) /\ DOMAIN <<>> = {}
  BY ShortSeqs, SeqLen
<1>2. Planned
  BY <1>1 DEF Planned
<1>3. \A i \in Instances : \A k \in DOMAIN locals[i] : locals[i][k].excluded = None
  OBVIOUS
<1>4. \A i \in Instances : Existing(locals[i], IdsOf(shared)) = locals[i]
  <2> QED
    BY <1>3 DEF Existing
<1>5. Stored
  BY <1>1, <1>4, NothingElse DEF Stored, Rev, Untouched, SetUp
<1>6. Known
  <2> QED
    BY DEF Known, Untouched, SetUp
<1> QED
  BY <1>2, <1>5, <1>6 DEF SyncInv

----------------------------------------------------------------------------
(* What the lock holder does with its plan. *)

Composing == {"begin", "generate", "link", "finish"}

\* The next step is replaced by others, or a plan is made, or nothing is.
Proceeds ==
    \/ UNCHANGED todo
    \/ todo = <<>> /\ Whole(todo')
    \/ /\ todo # <<>> /\ Head(todo).op \notin Composing
       /\ \E steps : Whole(steps) /\ todo' = steps \o Tail(todo)

LEMMA WholeTail ==
    ASSUME Planned, todo # <<>>, Head(todo).op \notin Composing
    PROVE  Whole(Tail(todo))
<1>1. IsSeq(todo)
  BY DEF Planned
<1>2. /\ IsSeq(Tail(todo)) /\ Len(todo) \in Nat \ {0} /\ Head(todo) = todo[1]
      /\ Len(Tail(todo)) = Len(todo) - 1
      /\ \A k \in 1..(Len(todo) - 1) : Tail(todo)[k] = todo[k + 1]
  BY <1>1, TailSeq
<1>3. DOMAIN todo = 1..Len(todo) /\ DOMAIN Tail(todo) = 1..(Len(todo) - 1)
  BY <1>1, <1>2, SeqLen
<1>4. ASSUME NEW k \in 1..(Len(todo) - 1), Tail(todo)[k].op = "finish"
      PROVE  Composed(Tail(todo), k)
  <2>1. k + 1 \in 1..Len(todo) /\ todo[k + 1] = Tail(todo)[k]
    BY <1>2, <1>4
  <2>2. Composed(todo, k + 1) \/ Begun(k + 1)
    BY <1>3, <1>4, <2>1 DEF Planned
  <2>3. todo[1].op \notin Composing
    BY <1>2
  <2>4. ~Begun(k + 1)
    BY <2>3 DEF Begun, Do, Composing
  <2>5. Composed(todo, k + 1)
    BY <2>2, <2>4
  <2>6. k # 3
    BY <2>3, <2>5 DEF Composed, Do, Composing
  <2>7. k >= 4 /\ k - 3 \in 1..(Len(todo) - 1) /\ k - 2 \in 1..(Len(todo) - 1)
        /\ k - 1 \in 1..(Len(todo) - 1)
    BY <1>2, <2>5, <2>6 DEF Composed
  <2>8. /\ Tail(todo)[k - 3] = todo[(k + 1) - 3]
        /\ Tail(todo)[k - 2] = todo[(k + 1) - 2]
        /\ Tail(todo)[k - 1] = todo[(k + 1) - 1]
    BY <1>2, <2>7
  <2> QED
    BY <2>1, <2>5, <2>7, <2>8 DEF Composed
<1> QED
  BY <1>2, <1>3, <1>4 DEF Whole

LEMMA ProceedsPlanned ==
    ASSUME Planned, Proceeds, UNCHANGED <<shared, revision, locals, point>>
           \/ todo = <<>> \/ Head(todo).op \notin Composing,
           UNCHANGED todo => UNCHANGED <<shared, revision, locals, point>>
    PROVE  Planned'
<1>1. CASE UNCHANGED todo
  BY <1>1 DEF Planned, Begun, Fresh, Shown, Rev
<1>2. CASE todo = <<>> /\ Whole(todo')
  BY <1>2 DEF Planned, Whole
<1>3. CASE /\ todo # <<>> /\ Head(todo).op \notin Composing
           /\ \E steps : Whole(steps) /\ todo' = steps \o Tail(todo)
  BY <1>3, WholeTail, WholeJoin DEF Planned, Whole
<1> QED
  BY <1>1, <1>2, <1>3 DEF Proceeds

\* A step that leaves rows and checkpoints alone.
Quietly == /\ UNCHANGED <<shared, revision, locals, point, overdue>>
           /\ IsSeq(pending') /\ Proceeds
           /\ app' = "up" \/ UNCHANGED <<app, todo>>

LEMMA QuietlyKeeps ==
    ASSUME SyncInv, Quietly
    PROVE  SyncInv'
<1> USE DEF SyncInv, Quietly
<1>1. Planned'
  BY ProceedsPlanned
<1>2. Stored'
  BY DEF Stored, Rev
<1>3. Known'
  <2> SUFFICES ASSUME NEW i \in Instances \ overdue,
                      point[i] # None, point[i] # Deferred,
                      point[i].revision = Rev
               PROVE  point[i].expected = DataOf(Shown(i)) \/ NextIs(i)'
    BY DEF Known, Rev, Shown, Deferred
  <2>1. point[i].expected = DataOf(Shown(i)) \/ NextIs(i)
    BY DEF Known
  <2>2. CASE UNCHANGED todo
    BY <2>1, <2>2 DEF NextIs
  <2>3. CASE ~UNCHANGED todo
    <3>1. ~NextIs(i)
      BY <2>3 DEF Proceeds, NextIs, Do, Composing
    <3> QED
      BY <2>1, <3>1
  <2> QED
    BY <2>2, <2>3
<1> QED
  BY <1>1, <1>2, <1>3

----------------------------------------------------------------------------
(* Commits. *)

\* Once forgotten, an excluded row stays forgotten.
LEMMA ExistingTwice ==
    ASSUME NEW ls, NEW ids
    PROVE  Existing(Existing(ls, ids), ids) = Existing(ls, ids)
<1> DEFINE es == Existing(ls, ids)
<1>1. \A k \in DOMAIN ls : es[k] =
         IF ls[k].excluded \in ids THEN ls[k]
         ELSE [ls[k] EXCEPT !.excluded = None]
  BY DEF Existing
<1>2. DOMAIN es = DOMAIN ls
  BY DEF Existing
<1>3. es = [k \in DOMAIN ls |-> es[k]]
  BY DEF Existing
<1> HIDE DEF es
<1>4. ASSUME NEW k \in DOMAIN ls
      PROVE  (IF es[k].excluded \in ids THEN es[k]
              ELSE [es[k] EXCEPT !.excluded = None]) = es[k]
  BY <1>1, <1>4
<1>5. Existing(es, ids) = [k \in DOMAIN ls |-> es[k]]
  BY <1>2, <1>4 DEF Existing
<1> QED
  BY <1>3, <1>5 DEF es

\* Rows are written, and the revision is raised if the shared list changes.
Written(servers, i, ls) ==
    /\ Write(servers, i, ls)
    /\ revision' \in Nat \cup {None}
    /\ Rev' = IF servers = shared THEN Rev ELSE Rev + 1

LEMMA RevIsNat ==
    ASSUME Stored
    PROVE  Rev \in Nat
BY DEF Stored, Rev

LEMMA CommitWrites ==
    ASSUME Stored, NEW servers, NEW i, NEW ls, Commit(servers, i, ls)
    PROVE  Written(servers, i, ls)
BY RevIsNat, NothingElse DEF Commit, Written, Rev

LEMMA CommitLocalsWrites ==
    ASSUME Stored, NEW i, NEW ls, CommitLocals(i, ls)
    PROVE  Written(shared, i, ls)
BY DEF CommitLocals, Written, Stored, Rev

\* The instance whose own rows are written is given its list next, or is
\* overdue.
WritesAndGoesOn(servers, i, ls) ==
    /\ Written(servers, i, ls)
    /\ UNCHANGED <<point, pending, app>> /\ Proceeds /\ app = "up"
    /\ todo = <<>> \/ Head(todo).op \notin Composing
    /\ i \in Instances \cup {None} /\ overdue \subseteq overdue'
    /\ i \in Instances /\ servers = shared => NextIs(i)' \/ i \in overdue'

LEMMA WritesKeep ==
    ASSUME SyncInv, NEW servers, NEW i, NEW ls, WritesAndGoesOn(servers, i, ls)
    PROVE  SyncInv'
<1> USE DEF SyncInv, WritesAndGoesOn
<1>0. Rev \in Nat /\ Rev' \in Nat /\ Rev <= Rev'
  BY RevIsNat DEF Written
<1>1. Planned'
  <2>1. CASE UNCHANGED todo
    <3>1. ASSUME NEW k \in DOMAIN todo, todo[k].op = "finish" PROVE ~Begun(k)
      <4>1. IsSeq(todo)
        BY DEF Planned
      <4>2. Len(todo) \in Nat /\ DOMAIN todo = 1..Len(todo)
        BY <4>1, SeqLen
      <4>3. todo # <<>>
        BY <4>2, ShortSeqs
      <4>4. todo[1].op \notin Composing
        BY <4>1, <4>3, TailSeq
      <4> QED
        BY <3>1, <4>4 DEF Begun, Do, Composing
    <3> QED
      BY <2>1, <3>1 DEF Planned, Composed
  <2>2. CASE todo = <<>> /\ Whole(todo')
    BY <2>2 DEF Planned, Whole
  <2>3. CASE /\ todo # <<>> /\ Head(todo).op \notin Composing
             /\ \E steps : Whole(steps) /\ todo' = steps \o Tail(todo)
    BY <2>3, WholeTail, WholeJoin DEF Planned, Whole
  <2> QED
    BY <2>1, <2>2, <2>3 DEF Proceeds
<1>2. ASSUME NEW j \in Instances
      PROVE  Existing(locals[j], IdsOf(shared))' = locals'[j]
  BY ExistingTwice DEF Written, Write
<1>3. Stored'
  BY <1>0, <1>2 DEF Stored, Written
<1>4. Known'
  <2> SUFFICES ASSUME NEW j \in Instances \ overdue',
                      point[j] # None, point[j] # Deferred,
                      point[j].revision = Rev'
               PROVE  point[j].expected = DataOf(Shown(j))' \/ NextIs(j)'
    BY DEF Known, Deferred
  <2>1. servers = shared
    BY <1>0 DEF Stored, Written
  <2>2. CASE j = i
    BY <2>1, <2>2
  <2>3. CASE j # i
    <3>1. locals'[j] = locals[j] /\ shared' = shared
      BY <2>1, <2>3 DEF Written, Write, Stored
    <3>2. Shown(j)' = Shown(j)
      BY <3>1 DEF Shown
    <3>3. point[j].expected = DataOf(Shown(j)) \/ NextIs(j)
      BY <2>1 DEF Known, Written
    <3>4. ~NextIs(j)
      BY DEF NextIs, Do, Composing
    <3> QED
      BY <3>2, <3>3, <3>4
  <2> QED
    BY <2>2, <2>3
<1> QED
  BY <1>1, <1>3, <1>4

----------------------------------------------------------------------------
(* The steps that write a list, and the closing of the app. *)

LEMMA NextDone ==
    ASSUME Planned, todo # <<>>
    PROVE  /\ IsSeq(Tail(todo)) /\ <<>> \o Tail(todo) = Tail(todo)
           /\ Len(todo) \in Nat \ {0} /\ Head(todo) = todo[1]
           /\ DOMAIN todo = 1..Len(todo)
           /\ DOMAIN Tail(todo) = 1..(Len(todo) - 1)
           /\ \A k \in 1..(Len(todo) - 1) : Tail(todo)[k] = todo[k + 1]
BY TailSeq, SeqLen, NothingBefore DEF Planned

LEMMA HeadReplaced ==
    ASSUME Planned, todo # <<>>, NEW a
    PROVE  /\ IsSeq(<<a>> \o Tail(todo))
           /\ DOMAIN (<<a>> \o Tail(todo)) = DOMAIN todo
           /\ (<<a>> \o Tail(todo))[1] = a
           /\ \A k \in 2..Len(todo) : (<<a>> \o Tail(todo))[k] = todo[k]
<1> DEFINE u == <<a>> \o Tail(todo)
<1>1. /\ Len(todo) \in Nat \ {0} /\ DOMAIN todo = 1..Len(todo)
      /\ \A m \in 1..(Len(todo) - 1) : Tail(todo)[m] = todo[m + 1]
  BY NextDone
<1>2. IsSeq(<<a>>) /\ Len(<<a>>) = 1 /\ <<a>>[1] = a
  BY ShortSeqs
<1>3. IsSeq(Tail(todo)) /\ Len(Tail(todo)) = Len(todo) - 1
  BY TailSeq DEF Planned
<1>4. /\ IsSeq(u) /\ DOMAIN u = 1..(1 + (Len(todo) - 1)) /\ u[1] = a
      /\ \A m \in 1..(Len(todo) - 1) : u[1 + m] = Tail(todo)[m]
  BY <1>2, <1>3, JoinedSeq
<1> HIDE DEF u
<1>5. ASSUME NEW k \in 2..Len(todo) PROVE u[k] = todo[k]
  <2> DEFINE m == k - 1
  <2>1. m \in 1..(Len(todo) - 1) /\ k = 1 + m /\ k = m + 1
    BY <1>1
  <2> HIDE DEF m
  <2> QED
    BY <1>1, <1>4, <2>1
<1>6. 1 + (Len(todo) - 1) = Len(todo)
  BY <1>1
<1>7. IsSeq(u) /\ DOMAIN u = DOMAIN todo /\ u[1] = a
  BY <1>1, <1>4, <1>6
<1> QED
  BY <1>5, <1>7 DEF u

\* When the next step is done, what remains is as it was planned.
LEMMA PlanShifts ==
    ASSUME Planned, todo # <<>>, NEW k \in 1..(Len(todo) - 1),
           Composed(todo, k + 1), k # 3
    PROVE  Composed(Tail(todo), k)
<1>1. /\ Len(todo) \in Nat \ {0}
      /\ \A m \in 1..(Len(todo) - 1) : Tail(todo)[m] = todo[m + 1]
  BY NextDone
<1>2. k >= 4 /\ k - 3 \in 1..(Len(todo) - 1) /\ k - 2 \in 1..(Len(todo) - 1)
      /\ k - 1 \in 1..(Len(todo) - 1)
  BY <1>1 DEF Composed
<1>3. /\ Tail(todo)[k - 3] = todo[(k + 1) - 3]
      /\ Tail(todo)[k - 2] = todo[(k + 1) - 2]
      /\ Tail(todo)[k - 1] = todo[(k + 1) - 1]
      /\ Tail(todo)[k] = todo[k + 1]
  BY <1>1, <1>2
<1> QED
  BY <1>2, <1>3 DEF Composed

LEMMA BeginKeeps ==
    ASSUME SyncInv, NEW i \in Instances, Begin(i)
    PROVE  SyncInv'
<1> USE DEF SyncInv
<1>1. /\ todo # <<>> /\ Head(todo).op = "begin" /\ Head(todo).instance = i
      /\ todo' = Tail(todo) /\ app = "up" /\ app' = "up"
      /\ UNCHANGED <<shared, revision, locals, pending>>
      /\ overdue' = overdue \ {i}
      /\ point' = [point EXCEPT ![i] = [expected |-> DataOf(Shown(i)),
                                        revision |-> Rev, status |-> "pending"]]
  BY NextDone DEF Begin, Now, Then, rows, settings, files
<1>2. /\ point'[i] = [expected |-> DataOf(Shown(i)), revision |-> Rev,
                      status |-> "pending"]
      /\ \A j \in Instances : j # i => point'[j] = point[j]
      /\ DOMAIN point' = Instances
  BY <1>1 DEF Stored
<1>3. /\ Rev' = Rev /\ Rev \in Nat
      /\ \A j \in Instances : Shown(j)' = Shown(j)
  BY <1>1, RevIsNat DEF Rev, Shown
<1>4. Stored'
  BY <1>1, <1>2, <1>3 DEF Stored
<1>5. Fresh(i)'
  BY <1>2, <1>3 DEF Fresh
<1>6. Planned'
  <2> SUFFICES ASSUME NEW k \in DOMAIN Tail(todo), Tail(todo)[k].op = "finish"
               PROVE  Composed(Tail(todo), k) \/ Begun(k)'
    BY <1>1, NextDone DEF Planned, Composed
  <2>1. /\ k \in 1..(Len(todo) - 1) /\ Tail(todo)[k] = todo[k + 1]
        /\ k + 1 \in DOMAIN todo /\ todo[1].op = "begin"
    BY <1>1, NextDone
  <2>2. ~Begun(k + 1)
    BY <2>1 DEF Begun, Do
  <2>3. Composed(todo, k + 1)
    BY <2>1, <2>2 DEF Planned
  <2>4. CASE k = 3
    <3>1. /\ todo[1] = Do("begin", todo[4].instance)
          /\ todo[2] = Do("generate", todo[4].instance)
          /\ todo[3] = Do("link", todo[4].instance)
      BY <2>3, <2>4 DEF Composed
    <3>2. todo[4].instance = i
      BY <1>1, <3>1, NextDone DEF Do
    <3>3. Tail(todo)[1] = todo[2] /\ Tail(todo)[2] = todo[3]
      BY <2>1, <2>4, NextDone
    <3>4. todo'[k].instance = i /\ todo'[1] = Do("generate", i)
          /\ todo'[k - 1] = Do("link", i)
      BY <1>1, <2>1, <2>4, <3>1, <3>2, <3>3
    <3> QED
      BY <1>5, <2>4, <3>4 DEF Begun
  <2>5. CASE k # 3
    BY <1>1, <2>1, <2>3, <2>5, PlanShifts
  <2> QED
    BY <2>4, <2>5
<1>7. Known'
  <2> SUFFICES ASSUME NEW j \in Instances \ overdue',
                      point'[j] # None, point'[j] # Deferred,
                      point'[j].revision = Rev
               PROVE  point'[j].expected = DataOf(Shown(j))
    BY <1>3 DEF Known, Deferred
  <2>1. CASE j = i
    BY <1>2, <2>1
  <2>2. CASE j # i
    <3>1. point[j].expected = DataOf(Shown(j)) \/ NextIs(j)
      BY <1>1, <1>2, <2>2 DEF Known
    <3>2. ~NextIs(j)
      BY <1>1, <2>2 DEF NextIs, Do
    <3> QED
      BY <1>2, <2>2, <3>1, <3>2
  <2> QED
    BY <2>1, <2>2
<1> QED
  BY <1>4, <1>6, <1>7

\* After the other steps on a list the rows and the revision are the same.
LEMMA RowsStay ==
    ASSUME SyncInv, UNCHANGED <<shared, revision, locals>>,
           todo # <<>>, Head(todo).op # "begin"
    PROVE  /\ Rev' = Rev /\ Rev \in Nat
           /\ \A j \in Instances : Shown(j)' = Shown(j)
           /\ \A j \in Instances \ overdue :
                 point[j] # None /\ point[j] # Deferred
                 /\ point[j].revision = Rev =>
                    point[j].expected = DataOf(Shown(j))
<1>1. Rev' = Rev /\ Rev \in Nat
  BY RevIsNat DEF SyncInv, Rev
<1>2. \A j \in Instances : ~NextIs(j)
  BY DEF NextIs, Do
<1> QED
  BY <1>1, <1>2 DEF SyncInv, Known, Shown

LEMMA GenerateKeeps ==
    ASSUME SyncInv, NEW i \in Instances, Generate(i)
    PROVE  SyncInv'
<1> USE DEF SyncInv
<1>1. /\ todo # <<>> /\ Head(todo).op = "generate"
      /\ todo' = Tail(todo) /\ app = "up" /\ app' = "up"
      /\ UNCHANGED <<shared, revision, locals, pending, point, overdue>>
  BY NextDone DEF Generate, Now, Then, rows, settings, projection
<1>2. /\ Rev' = Rev /\ \A j \in Instances : Shown(j)' = Shown(j)
      /\ \A j \in Instances : Fresh(j)' = Fresh(j)
  BY <1>1, RowsStay DEF Fresh
<1>3. Stored'
  BY <1>1, <1>2 DEF Stored
<1>4. Planned'
  <2> SUFFICES ASSUME NEW k \in DOMAIN Tail(todo), Tail(todo)[k].op = "finish"
               PROVE  Composed(Tail(todo), k) \/ Begun(k)'
    BY <1>1, NextDone DEF Planned, Composed
  <2>1. /\ k \in 1..(Len(todo) - 1) /\ Tail(todo)[k] = todo[k + 1]
        /\ k + 1 \in DOMAIN todo /\ todo[1].op = "generate"
        /\ Len(todo) \in Nat
        /\ \A m \in 1..(Len(todo) - 1) : Tail(todo)[m] = todo[m + 1]
    BY <1>1, NextDone
  <2>2. Composed(todo, k + 1) \/ Begun(k + 1)
    BY <2>1 DEF Planned
  <2>3. CASE Composed(todo, k + 1)
    <3>1. k # 3
      BY <2>1, <2>3 DEF Composed, Do
    <3> QED
      BY <2>1, <2>3, <3>1, PlanShifts
  <2>4. CASE Begun(k + 1)
    <3>1. k = 2
      BY <2>1, <2>4 DEF Begun, Do
    <3>2. Tail(todo)[1] = todo[2]
      BY <2>1, <3>1
    <3> QED
      BY <1>1, <1>2, <2>1, <2>4, <3>1, <3>2 DEF Begun
  <2> QED
    BY <2>2, <2>3, <2>4
<1>5. Known'
  BY <1>1, <1>2, RowsStay DEF Known, Deferred
<1> QED
  BY <1>3, <1>4, <1>5

LEMMA EnsureLinkKeeps ==
    ASSUME SyncInv, NEW i \in Instances, EnsureLink(i)
    PROVE  SyncInv'
<1> USE DEF SyncInv
<1>1. /\ todo # <<>> /\ Head(todo).op = "link" /\ Head(todo).instance = i
      /\ todo' = Tail(todo) \/ todo' = <<Do("link", i)>> \o Tail(todo)
      /\ app = "up" /\ app' = "up"
      /\ UNCHANGED <<shared, revision, locals, pending, point, overdue>>
  BY NextDone DEF EnsureLink, Now, Then, rows, settings, projection
<1>2. /\ Rev' = Rev /\ \A j \in Instances : Shown(j)' = Shown(j)
      /\ \A j \in Instances : Fresh(j)' = Fresh(j)
  BY <1>1, RowsStay DEF Fresh
<1>3. Stored'
  BY <1>1, <1>2 DEF Stored
<1>4. Known'
  BY <1>1, <1>2, RowsStay DEF Known, Deferred
<1>5. ASSUME todo' = Tail(todo) PROVE Planned'
  <2> SUFFICES ASSUME NEW k \in DOMAIN Tail(todo), Tail(todo)[k].op = "finish"
               PROVE  Composed(Tail(todo), k) \/ Begun(k)'
    BY <1>1, <1>5, NextDone DEF Planned, Composed
  <2>1. /\ k \in 1..(Len(todo) - 1) /\ Tail(todo)[k] = todo[k + 1]
        /\ k + 1 \in DOMAIN todo /\ todo[1].op = "link"
    BY <1>1, NextDone
  <2>2. Composed(todo, k + 1) \/ Begun(k + 1)
    BY <2>1 DEF Planned
  <2>3. CASE Composed(todo, k + 1)
    <3>1. k # 3
      BY <2>1, <2>3 DEF Composed, Do
    <3> QED
      BY <2>1, <2>3, <3>1, PlanShifts
  <2>4. CASE Begun(k + 1)
    <3>1. k = 1
      BY <2>1, <2>4 DEF Begun, Do
    <3> QED
      BY <1>2, <1>5, <2>1, <2>4, <3>1 DEF Begun
  <2> QED
    BY <2>2, <2>3, <2>4
<1>6. ASSUME todo' = <<Do("link", i)>> \o Tail(todo) PROVE Planned'
  <2>1. /\ IsSeq(todo') /\ DOMAIN todo' = DOMAIN todo
        /\ todo'[1] = Do("link", i) /\ todo[1].op = "link"
        /\ todo[1].instance = i
        /\ Len(todo) \in Nat \ {0} /\ DOMAIN todo = 1..Len(todo)
        /\ \A k \in 2..Len(todo) : todo'[k] = todo[k]
    BY <1>1, <1>6, NextDone, HeadReplaced
  <2> SUFFICES ASSUME NEW k \in DOMAIN todo, todo'[k].op = "finish"
               PROVE  Composed(todo', k) \/ Begun(k)'
    BY <2>1 DEF Planned, Composed
  <2>2. k \in 2..Len(todo) /\ todo'[k] = todo[k]
    BY <2>1 DEF Do
  <2>3. Composed(todo, k) \/ Begun(k)
    BY <2>2 DEF Planned
  <2>4. CASE Composed(todo, k)
    <3>1. k >= 5
      BY <2>1, <2>4 DEF Composed, Do
    <3>2. /\ k - 3 \in 2..Len(todo) /\ k - 2 \in 2..Len(todo)
          /\ k - 1 \in 2..Len(todo)
      BY <2>1, <3>1
    <3> QED
      BY <2>1, <2>2, <2>4, <3>1, <3>2 DEF Composed
  <2>5. CASE Begun(k)
    <3>1. k = 2
      BY <2>1, <2>2, <2>5 DEF Begun, Do
    <3>2. todo[k].instance = i
      BY <2>1, <2>5, <3>1 DEF Begun, Do
    <3> QED
      BY <1>2, <2>1, <2>2, <2>5, <3>1, <3>2 DEF Begun
  <2> QED
    BY <2>3, <2>4, <2>5
<1> QED
  BY <1>1, <1>3, <1>4, <1>5, <1>6

LEMMA FinishKeeps ==
    ASSUME SyncInv, NEW i \in Instances, Finish(i)
    PROVE  SyncInv'
<1> USE DEF SyncInv
<1>1. /\ todo # <<>> /\ Head(todo).op = "finish" /\ Head(todo).instance = i
      /\ todo' = Tail(todo) /\ app = "up" /\ app' = "up"
      /\ UNCHANGED <<shared, revision, locals, pending, overdue>>
      /\ point' = [point EXCEPT ![i].status = "ready"]
  BY NextDone DEF Finish, Now, Then, rows, settings, files
<1>2. /\ Rev' = Rev /\ Rev \in Nat
      /\ \A j \in Instances : Shown(j)' = Shown(j)
      /\ \A j \in Instances \ overdue :
            point[j] # None /\ point[j] # Deferred /\ point[j].revision = Rev =>
                point[j].expected = DataOf(Shown(j))
  BY <1>1, RowsStay
<1>3. Fresh(i)
  <2>1. 1 \in DOMAIN todo /\ todo[1].op = "finish" /\ todo[1].instance = i
    BY <1>1, NextDone
  <2>2. ~Composed(todo, 1)
    BY DEF Composed
  <2> QED
    BY <2>1, <2>2 DEF Planned, Begun
<1>4. /\ point'[i] = [expected |-> DataOf(Shown(i)), revision |-> Rev,
                      status |-> "ready"]
      /\ \A j \in Instances : j # i => point'[j] = point[j]
      /\ DOMAIN point' = Instances
  BY <1>1, <1>3 DEF Stored, Fresh
<1>5. Stored'
  BY <1>1, <1>2, <1>4 DEF Stored
<1>6. Planned'
  <2> SUFFICES ASSUME NEW k \in DOMAIN Tail(todo), Tail(todo)[k].op = "finish"
               PROVE  Composed(Tail(todo), k)
    BY <1>1, NextDone DEF Planned, Composed
  <2>1. /\ k \in 1..(Len(todo) - 1) /\ Tail(todo)[k] = todo[k + 1]
        /\ k + 1 \in DOMAIN todo /\ todo[1].op = "finish"
    BY <1>1, NextDone
  <2>4. ~Begun(k + 1)
    <3>1. CASE k = 1
      BY <2>1, <3>1 DEF Begun, Do
    <3>2. CASE k = 2
      BY <2>1, <3>2 DEF Begun, Do
    <3>3. CASE k \notin {1, 2}
      BY <2>1, <3>3 DEF Begun
    <3> QED
      BY <3>1, <3>2, <3>3
  <2>2. Composed(todo, k + 1)
    BY <2>1, <2>4 DEF Planned
  <2>3. k # 3
    BY <2>1, <2>2 DEF Composed, Do
  <2> QED
    BY <1>1, <2>1, <2>2, <2>3, PlanShifts
<1>7. Known'
  BY <1>1, <1>2, <1>4 DEF Known, Deferred
<1> QED
  BY <1>5, <1>6, <1>7

LEMMA DeferKeeps ==
    ASSUME SyncInv, NEW i \in Instances, Defer(i)
    PROVE  SyncInv'
<1> USE DEF SyncInv
<1>1. /\ todo # <<>> /\ Head(todo).op = "defer"
      /\ todo' = Tail(todo) /\ app = "up" /\ app' = "up"
      /\ UNCHANGED <<shared, revision, locals, pending, overdue>>
      /\ point' = [point EXCEPT ![i] = Deferred]
  BY NextDone DEF Defer, Now, Then, rows, settings, files
<1>2. /\ Rev' = Rev /\ Rev \in Nat
      /\ \A j \in Instances : Shown(j)' = Shown(j)
      /\ \A j \in Instances \ overdue :
            point[j] # None /\ point[j] # Deferred /\ point[j].revision = Rev =>
                point[j].expected = DataOf(Shown(j))
  BY <1>1, RowsStay
<1>3. /\ point'[i] = Deferred
      /\ \A j \in Instances : j # i => point'[j] = point[j]
      /\ DOMAIN point' = Instances
  BY <1>1 DEF Stored
<1>4. Stored'
  BY <1>1, <1>2, <1>3 DEF Stored, Deferred
<1>5. Whole(todo')
  BY <1>1, WholeTail DEF Composing
<1>6. Planned'
  BY <1>5 DEF Planned, Whole
<1>7. Known'
  BY <1>1, <1>2, <1>3 DEF Known, Deferred
<1> QED
  BY <1>4, <1>6, <1>7

\* An instance whose list was to be written next is overdue then.
LEMMA CrashKeeps ==
    ASSUME SyncInv, Crash
    PROVE  SyncInv'
<1> USE DEF SyncInv
<1>1. /\ UNCHANGED <<shared, revision, locals, pending, point>>
      /\ todo' = <<>> /\ app = "up" /\ app' = "down"
      /\ overdue' = overdue \cup {i \in Instances : Now("begin", i)}
  BY DEF Crash, rows, settings
<1>2. Rev' = Rev /\ \A j \in Instances : Shown(j)' = Shown(j)
  BY <1>1 DEF Rev, Shown
<1>3. Stored'
  BY <1>1, <1>2 DEF Stored
<1>4. Planned'
  BY <1>1, WholeShort DEF Planned, Whole
<1>5. \A j \in Instances : NextIs(j) => j \in overdue'
  BY <1>1 DEF NextIs, Now, Do
<1>6. Known'
  BY <1>1, <1>2, <1>5 DEF Known, Deferred
<1> QED
  BY <1>3, <1>4, <1>6

----------------------------------------------------------------------------
(* The plans that the other steps and the calls make. *)

LEMMA RetainedSeq ==
    ASSUME NEW s, IsSeq(s), NEW positions, positions \subseteq DOMAIN s
    PROVE  IsSeq(Retained(s, positions))
<1> DEFINE n == Cardinality(positions)
           u == Retained(s, positions)
<1>1. IsFiniteSet(positions)
  <2>1. Len(s) \in Int /\ 1 \in Int /\ DOMAIN s = 1..Len(s)
    BY SeqLen
  <2>2. IsFiniteSet(1..Len(s))
    BY <2>1, FS_Interval
  <2> QED
    BY <2>1, <2>2, FS_Subset
<1>2. n \in Nat
  BY <1>1, FS_CardinalityType
<1>3. u = [k \in 1..n |-> u[k]]
  BY DEF Retained
<1> HIDE DEF u, n
<1>4. IsSeq(u)
  BY <1>2, <1>3, AnySeq
<1> QED
  BY <1>4 DEF u

LEMMA AppendedSeq ==
    ASSUME NEW s, IsSeq(s), NEW e
    PROVE  IsSeq(Append(s, e))
<1> DEFINE S == {s[k] : k \in DOMAIN s}
<1>1. s \in Seq(S)
  BY DEF IsSeq
<1> HIDE DEF S
<1>2. s \in Seq(S \cup {e})
  BY <1>1
<1>3. Append(s, e) \in Seq(S \cup {e})
  BY <1>2
<1> QED
  BY <1>3, SeqShape, AnySeq

LEMMA PendingSeqs ==
    ASSUME IsSeq(pending), NEW i, NEW action
    PROVE  /\ IsSeq(Without(i, action)) /\ IsSeq(Others(i))
           /\ IsSeq(Saved(i, action)) /\ IsSeq(<<>>)
<1>1. IsSeq(Without(i, action)) /\ IsSeq(Others(i))
  BY RetainedSeq DEF Without, Others
<1>2. IsSeq(IF action = "source" THEN <<>> ELSE Others(i))
  BY <1>1, ShortSeqs
<1>3. IsSeq(Saved(i, action))
  BY <1>2, AppendedSeq DEF Saved
<1> QED
  BY <1>1, <1>3, ShortSeqs

LEMMA WholeDo ==
    ASSUME NEW op, op # "finish", NEW i
    PROVE  Whole(<<Do(op, i)>>)
BY WholeShort DEF Do

LEMMA WholeTwo ==
    ASSUME NEW a, NEW b, a.op # "finish", b.op # "finish"
    PROVE  Whole(<<a, b>>)
<1> DEFINE u == <<a, b>>
<1>1. u = [k \in 1..2 |-> u[k]] /\ u[1] = a /\ u[2] = b
  OBVIOUS
<1> HIDE DEF u
<1>2. IsSeq(u) /\ DOMAIN u = 1..2
  BY <1>1, AnySeq
<1>3. \A k \in 1..2 : u[k].op # "finish"
  BY <1>1
<1>4. Whole(u)
  BY <1>2, <1>3 DEF Whole
<1> QED
  BY <1>4 DEF u

LEMMA WholeJoinSteps ==
    ASSUME NEW i
    PROVE  Whole(JoinSteps(i))
BY WholeTwo DEF JoinSteps, Do

LEMMA WholeSourceSteps ==
    ASSUME NEW i
    PROVE  Whole(SourceSteps(i))
<1> DEFINE retired == [k \in DOMAIN Order |->
              Do(IF Order[k] = i /\ joined[i] THEN "detach" ELSE "retire", Order[k])]
           own == IF joined[i] THEN <<>> ELSE <<Do("detach", i)>>
           four == <<Do("seed", i), Do("complete", i), Do("prefer", i),
                     Do("enable", i)>>
<1>1. Whole(retired)
  <2>1. PICK n \in Nat : DOMAIN Order = 1..n
    BY OrderIsSeq
  <2>2. DOMAIN retired = 1..n /\ \A k \in 1..n : retired[k].op # "finish"
    BY <2>1 DEF Do
  <2>3. retired = [k \in 1..n |-> retired[k]]
    BY <2>1
  <2> HIDE DEF retired
  <2>4. IsSeq(retired)
    BY <2>3, AnySeq
  <2> QED
    BY <2>2, <2>4 DEF Whole
<1>2. Whole(own)
  BY WholeShort, WholeDo
<1>3. Whole(four)
  <2>1. /\ four = [k \in 1..4 |-> four[k]]
        /\ \A k \in 1..4 : four[k].op # "finish"
    BY DEF Do
  <2> HIDE DEF four
  <2>2. IsSeq(four) /\ DOMAIN four = 1..4
    BY <2>1, AnySeq
  <2> QED
    BY <2>1, <2>2 DEF Whole
<1>4. Whole(Each("ensure"))
  BY WholeEach
<1>5. SourceSteps(i) = retired \o own \o four \o Each("ensure")
  BY DEF SourceSteps
<1> HIDE DEF retired, own, four
<1>6. Whole(retired \o own)
  BY <1>1, <1>2, WholeJoin
<1>7. Whole(retired \o own \o four)
  BY <1>3, <1>6, WholeJoin
<1> QED
  BY <1>4, <1>5, <1>7, WholeJoin

----------------------------------------------------------------------------
(* Steps and calls that leave rows and checkpoints alone. *)

LEMMA StepGoesOn ==
    ASSUME SyncInv, NEW op, op \notin Composing, NEW i, Now(op, i),
           NEW steps, Whole(steps), Then(steps),
           UNCHANGED <<rows, projection>>, IsSeq(pending')
    PROVE  SyncInv'
<1>1. Proceeds
  BY DEF Now, Then, Proceeds
<1>2. Quietly
  BY <1>1 DEF Quietly, rows, projection, Now, Then
<1> QED
  BY <1>2, QuietlyKeeps

LEMMA CallGoesOn ==
    ASSUME SyncInv, NEW steps, Whole(steps), Call(steps),
           UNCHANGED <<rows, projection>>, IsSeq(pending')
    PROVE  SyncInv'
<1>1. Quietly
  BY DEF Quietly, Proceeds, rows, projection, Call, Free
<1> QED
  BY <1>1, QuietlyKeeps

LEMMA NothingPlanned ==
    ASSUME SyncInv, UNCHANGED <<rows, projection, pending, app, todo>>
    PROVE  SyncInv'
<1>1. Quietly
  BY DEF Quietly, Proceeds, rows, projection, SyncInv, Stored
<1> QED
  BY <1>1, QuietlyKeeps

\* Steps that only put others in their place.
LEMMA OnlyGoesOn ==
    ASSUME SyncInv, NEW op, op \notin Composing, NEW i, Now(op, i),
           NEW steps, Whole(steps), Only(steps)
    PROVE  SyncInv'
<1>1. /\ Then(steps) /\ UNCHANGED <<rows, projection>> /\ IsSeq(pending')
  BY DEF Only, settings, SyncInv, Stored
<1> QED
  BY <1>1, StepGoesOn

LEMMA PendingNow == SyncInv => IsSeq(pending)
BY DEF SyncInv, Stored

LEMMA FileSteps ==
    ASSUME SyncInv, NEW i \in Instances,
           Detach(i) \/ Put(i) \/ Prefer(i) \/ Enable(i) \/ Disable(i) \/ Leave(i)
    PROVE  SyncInv'
<1>1. CASE Detach(i)
  <2> DEFINE contents == IF Visible(i) # None THEN Visible(i) ELSE made[i]
             put == [op |-> "put", instance |-> i, data |-> contents]
             steps == IF contents = None THEN <<>> ELSE <<put>>
  <2>1. Now("detach", i) /\ Then(steps) /\ UNCHANGED <<rows, settings, projection>>
    BY <1>1 DEF Detach
  <2>2. Whole(steps)
    BY WholeShort
  <2> HIDE DEF steps
  <2> QED
    BY <2>1, <2>2, StepGoesOn, PendingNow DEF settings, Composing
<1>2. CASE Put(i)
  BY <1>2, WholeShort, StepGoesOn, PendingNow DEF Put, settings, Composing
<1>3. CASE Prefer(i)
  BY <1>3, WholeShort, StepGoesOn, PendingNow DEF Prefer, Composing
<1>4. CASE Enable(i)
  BY <1>4, WholeShort, StepGoesOn, PendingNow DEF Enable, Composing
<1>5. CASE Disable(i)
  BY <1>5, WholeShort, StepGoesOn, PendingNow DEF Disable, Composing
<1>6. CASE Leave(i)
  BY <1>6, WholeShort, StepGoesOn, PendingNow DEF Leave, Composing
<1> QED
  BY <1>1, <1>2, <1>3, <1>4, <1>5, <1>6

LEMMA DecidingSteps ==
    ASSUME SyncInv, NEW i \in Instances,
           \/ RegenerateOne(i) \/ Reconcile(i) \/ RestoreServers(i)
           \/ Retire(i) \/ Ensure(i) \/ Follow(i)
    PROVE  SyncInv'
<1>0. /\ Whole(<<>>) /\ Whole(Compose(i))
      /\ Whole(<<Do("detach", i)>>) /\ Whole(<<Do("servers", i)>>)
      /\ Whole(<<Do("defer", i)>>)
  BY WholeShort, WholeCompose, WholeDo
<1>1. CASE RegenerateOne(i)
  BY <1>0, <1>1, OnlyGoesOn DEF RegenerateOne, Composing
<1>2. CASE Reconcile(i)
  <2>1. Now("reconcile", i) /\ \E steps : Whole(steps) /\ Only(steps)
    BY <1>0, <1>2 DEF Reconcile
  <2> QED
    BY <2>1, OnlyGoesOn DEF Composing
<1>3. CASE RestoreServers(i)
  BY <1>0, <1>3, OnlyGoesOn DEF RestoreServers, Composing
<1>4. CASE Retire(i)
  <2>1. Now("retire", i) /\ \E steps : Whole(steps) /\ Only(steps)
    BY <1>0, <1>4 DEF Retire
  <2> QED
    BY <2>1, OnlyGoesOn DEF Composing
<1>5. CASE Ensure(i)
  <2>1. Now("ensure", i) /\ \E steps : Whole(steps) /\ Only(steps)
    BY <1>0, <1>5 DEF Ensure
  <2> QED
    BY <2>1, OnlyGoesOn DEF Composing
<1>6. CASE Follow(i)
  BY <1>0, <1>6, OnlyGoesOn DEF Follow, Composing
<1> QED
  BY <1>1, <1>2, <1>3, <1>4, <1>5, <1>6

LEMMA PendingSteps ==
    ASSUME SyncInv, NEW i \in Instances,
           Complete(i) \/ Joined(i) \/ ApplyChange(i)
    PROVE  SyncInv'
<1>0. \A action : IsSeq(Without(i, action))
  BY PendingNow, PendingSeqs
<1>1. CASE Complete(i)
  BY <1>0, <1>1, WholeShort, StepGoesOn DEF Complete, SetPending, Composing
<1>2. CASE Joined(i)
  BY <1>0, <1>2, WholeShort, StepGoesOn DEF Joined, SetPending, Composing
<1>3. CASE ApplyChange(i)
  <2> DEFINE action == Head(todo).action
             steps == IF action = "source" THEN SourceSteps(i)
                      ELSE JoinSteps(i) \o <<Do("joined", i)>> \o Compose(i)
  <2>1. Whole(steps)
    <3>1. Whole(JoinSteps(i) \o <<Do("joined", i)>>)
      BY WholeJoinSteps, WholeDo, WholeJoin
    <3>2. Whole(JoinSteps(i) \o <<Do("joined", i)>> \o Compose(i))
      BY <3>1, WholeCompose, WholeJoin
    <3> QED
      BY <3>2, WholeSourceSteps
  <2>2. /\ Now("apply", i)
        /\ \/ Only(<<>>) \/ Only(steps)
           \/ SetPending(Without(i, action)) /\ Then(<<>>)
    BY <1>3 DEF ApplyChange
  <2> HIDE DEF steps, action
  <2>3. CASE Only(<<>>) \/ Only(steps)
    BY <2>1, <2>2, <2>3, WholeShort, OnlyGoesOn DEF Composing
  <2>4. CASE SetPending(Without(i, action)) /\ Then(<<>>)
    BY <1>0, <2>2, <2>4, WholeShort, StepGoesOn DEF SetPending, Composing
  <2> QED
    BY <2>2, <2>3, <2>4
<1> QED
  BY <1>1, <1>2, <1>3

----------------------------------------------------------------------------
(* Steps and calls that write rows. *)

LEMMA StepWrites ==
    ASSUME SyncInv, NEW op, op \notin Composing, NEW j, Now(op, j),
           NEW servers, NEW i \in Instances \cup {None}, NEW ls,
           Written(servers, i, ls), NEW steps, Whole(steps), Then(steps),
           UNCHANGED <<settings, projection>>,
           i \in Instances /\ servers = shared => NextIs(i)'
    PROVE  SyncInv'
<1>1. Proceeds
  BY DEF Now, Then, Proceeds
<1>2. WritesAndGoesOn(servers, i, ls)
  BY <1>1 DEF WritesAndGoesOn, settings, projection, Now, Then
<1> QED
  BY <1>2, WritesKeep

LEMMA CallWrites ==
    ASSUME SyncInv, NEW servers, NEW i \in Instances \cup {None}, NEW ls,
           Written(servers, i, ls), NEW steps, Whole(steps), Call(steps),
           UNCHANGED <<point, pending>>, overdue \subseteq overdue',
           i \in Instances /\ servers = shared => NextIs(i)' \/ i \in overdue'
    PROVE  SyncInv'
<1>1. Proceeds
  BY DEF Call, Free, Proceeds
<1>2. WritesAndGoesOn(servers, i, ls)
  BY <1>1 DEF WritesAndGoesOn, Call, Free
<1> QED
  BY <1>2, WritesKeep

LEMMA StoredNow == SyncInv => Stored
BY DEF SyncInv

LEMMA NobodyIsNone == None \notin Instances
BY NothingElse

\* A list is composed next when that is what is put at the head of the plan.
LEMMA ComposeIsNext ==
    ASSUME NEW i, NEW t, IsSeq(t), todo' = Compose(i) \o t
    PROVE  NextIs(i)'
<1>1. /\ IsSeq(Compose(i)) /\ Len(Compose(i)) = 4
      /\ Compose(i)[1] = Do("begin", i)
  BY WholeCompose DEF Whole
<1>2. /\ IsSeq(todo') /\ DOMAIN todo' = 1..(4 + Len(t))
      /\ todo'[1] = Do("begin", i) /\ Len(t) \in Nat
  <2> DEFINE c == Compose(i)
  <2>1. /\ IsSeq(c \o t) /\ DOMAIN (c \o t) = 1..(Len(c) + Len(t))
        /\ \A k \in 1..Len(c) : (c \o t)[k] = c[k]
    BY <1>1, JoinedSeq
  <2>2. 1 \in 1..Len(c)
    BY <1>1
  <2>3. Len(t) \in Nat
    BY SeqLen
  <2> QED
    BY <1>1, <2>1, <2>2, <2>3
<1>3. todo' # <<>>
  BY <1>2, ShortSeqs, SeqLen
<1>4. Head(todo') = todo'[1]
  BY <1>2, <1>3, TailSeq
<1> QED
  BY <1>2, <1>3, <1>4 DEF NextIs

LEMMA ComposeCalled ==
    ASSUME NEW i, todo' = Compose(i)
    PROVE  NextIs(i)'
<1>1. /\ IsSeq(Compose(i)) /\ Len(Compose(i)) = 4
      /\ Compose(i)[1] = Do("begin", i)
  BY WholeCompose DEF Whole
<1>2. Compose(i) # <<>>
  BY <1>1, ShortSeqs
<1>3. Head(Compose(i)) = Compose(i)[1]
  BY <1>1, <1>2, TailSeq
<1> QED
  BY <1>1, <1>2, <1>3 DEF NextIs

LEMMA WritingSteps ==
    ASSUME SyncInv, NEW i \in Instances, MergeServers(i) \/ Seed(i) \/ Join(i)
    PROVE  SyncInv'
<1>0. Whole(<<>>) /\ Whole(Regenerate) /\ Whole(Compose(i))
      /\ Whole(<<Do("seed", i)>>)
  BY WholeShort, WholeEach, WholeCompose, WholeDo DEF Regenerate
<1>1. CASE MergeServers(i)
  <2> DEFINE current == List(i)
             matching == Matching(current, base[i])
             fresh == [k \in DOMAIN current |-> FreshId(k)]
             ls == MergedLocals(locals[i], current, base[i], matching)
             servers == MergedShared(shared, current, base[i], matching, fresh)
  <2>1. /\ Now("servers", i) /\ UNCHANGED <<settings, projection, files>>
        /\ \/ Commit(servers, i, ls) /\ Then(AfterCommit(i, servers))
           \/ Then(<<>>) /\ UNCHANGED rows
    BY <1>1 DEF MergeServers
  <2> HIDE DEF servers, ls, fresh, matching, current
  <2>2. CASE Commit(servers, i, ls) /\ Then(AfterCommit(i, servers))
    <3>1. Whole(AfterCommit(i, servers))
      BY <1>0 DEF AfterCommit
    <3>2. Written(servers, i, ls)
      BY <2>2, StoredNow, CommitWrites
    <3>3. ASSUME servers = shared PROVE NextIs(i)'
      <4>1. todo # <<>> /\ todo' = Compose(i) \o Tail(todo)
        BY <2>1, <2>2, <3>3 DEF AfterCommit, Now, Then
      <4>2. IsSeq(Tail(todo))
        BY <4>1, NextDone DEF SyncInv
      <4> QED
        BY <4>1, <4>2, ComposeIsNext
    <3> QED
      BY <2>1, <2>2, <3>1, <3>2, <3>3, StepWrites DEF Composing
  <2>3. CASE Then(<<>>) /\ UNCHANGED rows
    BY <1>0, <2>1, <2>3, StepGoesOn, PendingNow DEF settings, Composing
  <2> QED
    BY <2>1, <2>2, <2>3
<1>2. CASE Seed(i)
  <2> DEFINE servers == AsShared(Candidates(List(i), locals[i]))
  <2>1. /\ Now("seed", i) /\ Commit(servers, None, <<>>) /\ Then(Regenerate)
        /\ UNCHANGED <<settings, projection>>
    BY <1>2 DEF Seed, CommitShared
  <2> HIDE DEF servers
  <2>2. Written(servers, None, <<>>)
    BY <2>1, StoredNow, CommitWrites
  <2> QED
    BY <1>0, <2>1, <2>2, NobodyIsNone, StepWrites DEF Composing
<1>3. CASE Join(i)
  <2>1. CASE Only(<<Do("seed", i)>>)
    BY <1>0, <1>3, <2>1, OnlyGoesOn DEF Join, Composing
  <2>2. CASE ~Only(<<Do("seed", i)>>)
    <3>1. PICK servers, steps :
             /\ Commit(servers, None, <<>>) /\ Then(steps) /\ Whole(steps)
             /\ UNCHANGED <<settings, projection>>
      BY <1>0, <1>3, <2>2 DEF Join, CommitShared
    <3>2. Written(servers, None, <<>>)
      BY <3>1, StoredNow, CommitWrites
    <3> QED
      BY <1>3, <3>1, <3>2, NobodyIsNone, StepWrites DEF Join, Composing
  <2> QED
    BY <2>1, <2>2
<1> QED
  BY <1>1, <1>2, <1>3

LEMMA OnRowsKeeps ==
    ASSUME SyncInv, NEW servers, OnRows(servers)
    PROVE  SyncInv'
<1>1. /\ Commit(servers, None, <<>>) /\ Call(Regenerate)
      /\ UNCHANGED <<point, pending, overdue>>
  BY DEF OnRows, CommitShared, settings, projection
<1>2. Written(servers, None, <<>>)
  BY <1>1, StoredNow, CommitWrites
<1>3. Whole(Regenerate)
  BY WholeEach DEF Regenerate
<1> QED
  BY <1>1, <1>2, <1>3, NobodyIsNone, CallWrites

LEMMA OnFileKeeps ==
    ASSUME SyncInv, NEW i, NEW datas, OnFile(i, datas)
    PROVE  SyncInv'
<1>1. /\ Call(<<>>) /\ UNCHANGED <<rows, projection, pending>>
  BY DEF OnFile, settings
<1> QED
  BY <1>1, WholeShort, CallGoesOn, PendingNow

LEMMA OnOwnerKeeps ==
    ASSUME SyncInv, NEW i \in Instances, NEW row, NEW changed,
           OnOwner(i, row, changed)
    PROVE  SyncInv'
<1>1. CASE OnRows(changed)
  BY <1>1, OnRowsKeeps
<1>2. CASE ~OnRows(changed)
  <2>1. /\ CommitLocals(i, changed) /\ Call(Compose(i))
        /\ UNCHANGED <<point, pending, overdue>>
    BY <1>2 DEF OnOwner, settings, projection
  <2>2. Written(shared, i, changed)
    BY <2>1, StoredNow, CommitLocalsWrites
  <2>3. NextIs(i)' /\ Whole(Compose(i))
    BY <2>1, ComposeCalled, WholeCompose DEF Call
  <2> QED
    BY <2>1, <2>2, <2>3, CallWrites
<1> QED
  BY <1>1, <1>2

LEMMA ServerCommands ==
    ASSUME SyncInv,
           \/ \E i \in Instances : \/ AddServer(i) \/ UpdateServer(i)
                                   \/ RemoveServer(i) \/ Desync(i)
           \/ UpdateSynced \/ RemoveSynced
    PROVE  SyncInv'
<1>1. ASSUME NEW i \in Instances, AddServer(i) PROVE SyncInv'
  BY <1>1, OnRowsKeeps, OnFileKeeps DEF AddServer
<1>2. ASSUME NEW i \in Instances, UpdateServer(i) PROVE SyncInv'
  BY <1>2, OnOwnerKeeps, OnFileKeeps DEF UpdateServer
<1>3. ASSUME NEW i \in Instances, RemoveServer(i) PROVE SyncInv'
  BY <1>3, OnOwnerKeeps, OnFileKeeps DEF RemoveServer
<1>4. ASSUME NEW i \in Instances, Desync(i) PROVE SyncInv'
  <2>1. PICK servers, ls : /\ Commit(servers, i, ls)
                           /\ Call(AfterCommit(i, servers))
                           /\ UNCHANGED <<point, pending, overdue>>
    BY <1>4 DEF Desync, settings, projection
  <2>2. Written(servers, i, ls)
    BY <2>1, StoredNow, CommitWrites
  <2>3. Whole(AfterCommit(i, servers))
    BY WholeEach, WholeCompose DEF AfterCommit, Regenerate
  <2>4. servers = shared => NextIs(i)'
    BY <2>1, ComposeCalled DEF AfterCommit, Call
  <2> QED
    BY <2>1, <2>2, <2>3, <2>4, CallWrites
<1>5. ASSUME UpdateSynced PROVE SyncInv'
  BY <1>5, OnRowsKeeps DEF UpdateSynced
<1>6. ASSUME RemoveSynced PROVE SyncInv'
  BY <1>6, OnRowsKeeps DEF RemoveSynced
<1> QED
  BY <1>1, <1>2, <1>3, <1>4, <1>5, <1>6

LEMMA SwitchKeeps ==
    ASSUME SyncInv, NEW changes, IsSeq(changes), NEW steps, Whole(steps),
           Switch(changes, steps)
    PROVE  SyncInv'
BY CallGoesOn DEF Switch

LEMMA SwitchCommands ==
    ASSUME SyncInv, NEW i \in Instances,
           \/ SwitchOff(i) \/ SetGlobalFromBase(i)
           \/ JoinInstance(i) \/ LeaveInstance(i)
    PROVE  SyncInv'
<1>0. /\ \A action : IsSeq(Saved(i, action))
      /\ IsSeq(Others(i)) /\ IsSeq(<<>>)
  BY PendingNow, PendingSeqs, ShortSeqs
<1>1. CASE SwitchOff(i)
  <2>1. Whole(<<Do("disable", i)>> \o Each("follow"))
    BY WholeDo, WholeEach, WholeJoin
  <2> QED
    BY <1>0, <1>1, <2>1, SwitchKeeps DEF SwitchOff
<1>2. CASE SetGlobalFromBase(i)
  <2>1. Whole(<<Do("prefer", i), Do("enable", i)>>)
    BY WholeTwo DEF Do
  <2> QED
    BY <1>0, <1>2, <2>1, WholeSourceSteps, SwitchKeeps DEF SetGlobalFromBase
<1>3. CASE JoinInstance(i)
  <2>1. Whole(<<Do("prefer", i)>>)
    BY WholeDo
  <2>2. Whole(JoinSteps(i) \o <<Do("prefer", i)>>)
    BY <2>1, WholeJoinSteps, WholeJoin
  <2>3. Whole(JoinSteps(i) \o <<Do("prefer", i)>> \o Compose(i))
    BY <2>2, WholeCompose, WholeJoin
  <2> QED
    BY <1>0, <1>3, <2>1, <2>3, SwitchKeeps DEF JoinInstance
<1>4. CASE LeaveInstance(i)
  <2> DEFINE rest == IF Blocked(i) THEN <<>> ELSE <<Do("detach", i)>>
  <2>1. Whole(rest)
    BY WholeShort, WholeDo
  <2>2. Switch(Others(i), <<Do("leave", i)>> \o rest)
    BY <1>4 DEF LeaveInstance
  <2> HIDE DEF rest
  <2>3. Whole(<<Do("leave", i)>> \o rest)
    BY <2>1, WholeDo, WholeJoin
  <2> QED
    BY <1>0, <2>2, <2>3, SwitchKeeps
<1> QED
  BY <1>1, <1>2, <1>3, <1>4

LEMMA PackSteps ==
    ASSUME SyncInv, NEW i \in Instances,
           \/ LockInstance(i) \/ PrepareUpdate(i) \/ Unpack(i) \/ Capture(i)
           \/ AfterPackUpdate(i) \/ FinishInstall(i)
    PROVE  SyncInv'
<1>0. Whole(<<>>) /\ Whole(<<Do("detach", i)>>)
  BY WholeShort, WholeDo
<1>1. CASE LockInstance(i)
  BY <1>1, NothingPlanned DEF LockInstance, settings
<1>2. CASE PrepareUpdate(i)
  <2>1. PICK steps : Whole(steps) /\ Call(steps)
    BY <1>0, <1>2 DEF PrepareUpdate, Update
  <2>2. UNCHANGED <<rows, projection, pending>>
    BY <1>2 DEF PrepareUpdate, Update, settings, projection
  <2> QED
    BY <2>1, <2>2, CallGoesOn, PendingNow
<1>3. CASE Unpack(i)
  BY <1>3, NothingPlanned DEF Unpack, settings
<1>4. CASE Capture(i)
  <2>1. PICK ls : /\ CommitLocals(i, ls) /\ Call(<<>>)
                  /\ UNCHANGED <<point, pending>>
                  /\ overdue' = overdue \cup {i}
    BY <1>4 DEF Capture, Update, settings
  <2>2. Written(shared, i, ls)
    BY <2>1, StoredNow, CommitLocalsWrites
  <2> QED
    BY <1>0, <2>1, <2>2, CallWrites
<1>5. CASE AfterPackUpdate(i)
  <2>1. PICK steps : Whole(steps) /\ Call(steps)
    BY <1>0, <1>5 DEF AfterPackUpdate, Update
  <2>2. UNCHANGED <<rows, projection, pending>>
    BY <1>5 DEF AfterPackUpdate, Update, settings, projection
  <2> QED
    BY <2>1, <2>2, CallGoesOn, PendingNow
<1>6. CASE FinishInstall(i)
  BY <1>6, NothingPlanned DEF FinishInstall, settings
<1> QED
  BY <1>1, <1>2, <1>3, <1>4, <1>5, <1>6

LEMMA GameSteps ==
    ASSUME SyncInv, NEW i \in Instances,
           \/ AddInGame(i) \/ RemoveInGame(i) \/ ChangeInGame(i)
           \/ SwapInGame(i) \/ Launch(i) \/ Exit(i)
    PROVE  SyncInv'
<1>1. ASSUME NEW datas, Edit(i, datas) PROVE SyncInv'
  BY <1>1, NothingPlanned DEF Edit, settings
<1>2. CASE Launch(i) \/ Exit(i)
  BY <1>2, NothingPlanned DEF Launch, Exit, settings
<1> QED
  BY <1>1, <1>2 DEF AddInGame, RemoveInGame, ChangeInGame, SwapInGame

LEMMA Reconciliations ==
    ASSUME SyncInv,
           (\E i \in Instances : ReconcileDue(i) \/ Watch(i)) \/ Boot
    PROVE  SyncInv'
<1>0. Whole(Apply) /\ \A i : Whole(<<Do("reconcile", i)>>)
                             /\ Whole(<<Do("servers", i)>>)
  BY PendingNow, WholeApply, WholeDo
<1>1. ASSUME NEW i \in Instances, ReconcileDue(i) PROVE SyncInv'
  <2>1. Whole(Apply \o <<Do("reconcile", i)>>)
    BY <1>0, WholeJoin
  <2> QED
    BY <1>1, <2>1, CallGoesOn, PendingNow DEF ReconcileDue, settings
<1>2. ASSUME NEW i \in Instances, Watch(i) PROVE SyncInv'
  <2>1. Whole(Apply \o <<Do("servers", i)>>)
    BY <1>0, WholeJoin
  <2> QED
    BY <1>2, <2>1, CallGoesOn, PendingNow DEF Watch, settings
<1>3. ASSUME Boot PROVE SyncInv'
  <2>1. Whole(Apply \o Each("reconcile"))
    BY <1>0, WholeEach, WholeJoin
  <2>2. todo = <<>> /\ app' = "up" /\ UNCHANGED <<rows, projection, pending>>
    BY <1>3 DEF Boot, settings, SyncInv, Stored
  <2>3. Quietly
    BY <1>3, <2>1, <2>2, PendingNow DEF Boot, Quietly, Proceeds, rows, projection
  <2> QED
    BY <2>3, QuietlyKeeps
<1> QED
  BY <1>1, <1>2, <1>3

----------------------------------------------------------------------------
(* The theorem. *)

LEMMA SyncInvKept == SyncInv /\ [Next]_vars => SyncInv'
<1> SUFFICES ASSUME SyncInv, [Next]_vars PROVE SyncInv'
  OBVIOUS
<1>1. ASSUME NEW i \in Instances, Step(i) PROVE SyncInv'
  BY <1>1, BeginKeeps, GenerateKeeps, EnsureLinkKeeps, FinishKeeps,
     DeferKeeps, FileSteps, DecidingSteps, PendingSteps, WritingSteps DEF Step
<1>2. ASSUME NEW i \in Instances, Player(i) PROVE SyncInv'
  BY <1>2, ServerCommands, SwitchCommands, GameSteps, PackSteps DEF Player
<1>3. ASSUME NEW i \in Instances,
             \/ PrepareUpdate(i) \/ Unpack(i) \/ Capture(i)
             \/ AfterPackUpdate(i) \/ FinishInstall(i)
             \/ ReconcileDue(i) \/ Watch(i)
      PROVE  SyncInv'
  BY <1>3, PackSteps, Reconciliations
<1>4. CASE UpdateSynced \/ RemoveSynced \/ Crash \/ Boot
  BY <1>4, ServerCommands, CrashKeeps, Reconciliations
<1>5. CASE UNCHANGED vars
  BY <1>5, NothingPlanned DEF vars, settings
<1> QED
  BY <1>1, <1>2, <1>3, <1>4, <1>5 DEF Next

\* The list of an instance that a reconciliation finds up to date
\* (reconcile_servers returns early: the file has the expected hash, and the
\* checkpoint is ready and of the present revision) is the list the database
\* gives, unless the instance is overdue: after any commands, edits, games,
\* modpack updates and closings of the app.
THEOREM UpToDateListsAreRight == Spec => []UpToDateIsComposed
<1>1. Spec => []SyncInv
  BY InitInv, SyncInvKept, PTL DEF Spec
<1>2. SyncInv => UpToDateIsComposed
  BY DEF SyncInv, Known, UpToDateIsComposed, UpToDate, IsExpected, Deferred,
         NextIs
<1> QED
  BY <1>1, <1>2, PTL

----------------------------------------------------------------------------
(* Files.  From here on no rows of an instance are changed under its game  *)
(* (~Overlap): the holder of the lock plans to write only lists that no    *)
(* game has open, and has written a list once it finishes its checkpoint.  *)

Writing == Composing \cup {"detach", "put"}

\* No step of a plan writes the list of a playing instance.
Clear(s, playing) ==
    \A k \in DOMAIN s : s[k].op \in Writing => s[k].instance \notin playing

Safe(s, playing) == Whole(s) /\ Clear(s, playing)

Quieted == Clear(todo, game)
Apart == \A i \in Instances : stage[i] # "installed" => i \notin game

\* The generated file is there when the link is made, and the link when the
\* checkpoint is finished.
OnDisk ==
    \A k \in DOMAIN todo : todo[k].op = "finish" =>
        LET i == todo[k].instance
        IN  /\ k \in 1..2 => made[i] = DataOf(Shown(i))
            /\ k = 1 => file[i].kind = "link"

FilesInv ==
    /\ DOMAIN file = Instances /\ DOMAIN made = Instances
    /\ DOMAIN stage = Instances
    /\ Quieted /\ Apart /\ OnDisk

LEMMA FilesInit == Init => FilesInv
<1> SUFFICES ASSUME Init PROVE FilesInv
  OBVIOUS
<1>1. todo = <<>> /\ DOMAIN <<>> = {}
  BY ShortSeqs, SeqLen DEF Init
<1>2. /\ DOMAIN file = Instances /\ DOMAIN made = Instances
      /\ DOMAIN stage = Instances /\ Apart
  BY DEF Init, Untouched, SetUp, Apart
<1> QED
  BY <1>1, <1>2 DEF FilesInv, Quieted, Clear, OnDisk

----------------------------------------------------------------------------
(* Safe plans. *)

LEMMA SafeJoin ==
    ASSUME NEW playing, NEW s, Safe(s, playing), NEW t, Safe(t, playing)
    PROVE  Safe(s \o t, playing)
<1> DEFINE u == s \o t
<1>1. /\ IsSeq(s) /\ Len(s) \in Nat /\ DOMAIN s = 1..Len(s)
      /\ IsSeq(t) /\ Len(t) \in Nat /\ DOMAIN t = 1..Len(t)
  BY SeqLen DEF Safe, Whole
<1>2. /\ DOMAIN u = 1..(Len(s) + Len(t))
      /\ \A k \in 1..Len(s) : u[k] = s[k]
      /\ \A k \in 1..Len(t) : u[Len(s) + k] = t[k]
  BY <1>1, JoinedSeq
<1>3. Whole(u)
  BY WholeJoin DEF Safe
<1> HIDE DEF u
<1>4. ASSUME NEW k \in DOMAIN u, u[k].op \in Writing
      PROVE  u[k].instance \notin playing
  <2>1. CASE k \in 1..Len(s)
    BY <1>1, <1>2, <1>4, <2>1 DEF Safe, Clear
  <2>2. CASE k \notin 1..Len(s)
    <3> DEFINE m == k - Len(s)
    <3>1. m \in 1..Len(t) /\ k = Len(s) + m
      BY <1>1, <1>2, <2>2
    <3> HIDE DEF m
    <3> QED
      BY <1>1, <1>2, <1>4, <3>1 DEF Safe, Clear
  <2> QED
    BY <2>1, <2>2
<1>5. Safe(u, playing)
  BY <1>3, <1>4 DEF Safe, Clear
<1> QED
  BY <1>5 DEF u

LEMMA SafeShort ==
    ASSUME NEW playing
    PROVE  /\ Safe(<<>>, playing)
           /\ \A a : /\ a.op # "finish"
                     /\ a.op \in Writing => a.instance \notin playing
                     => Safe(<<a>>, playing)
<1>1. DOMAIN <<>> = {}
  BY ShortSeqs, SeqLen
<1>2. \A a : DOMAIN <<a>> = 1..1 /\ <<a>>[1] = a
  BY ShortSeqs, SeqLen
<1> QED
  BY <1>1, <1>2, WholeShort DEF Safe, Clear

LEMMA SafeDo ==
    ASSUME NEW playing, NEW op, NEW i, op \notin Writing \/ i \notin playing,
           op # "finish"
    PROVE  Safe(<<Do(op, i)>>, playing)
<1>1. Do(op, i).op = op /\ Do(op, i).instance = i
  BY DEF Do
<1> QED
  BY <1>1, SafeShort

\* A plan without the steps that write.
LEMMA SafeOthers ==
    ASSUME NEW playing, NEW s, IsSeq(s),
           \A k \in DOMAIN s : s[k].op \notin Writing
    PROVE  Safe(s, playing)
BY DEF Safe, Whole, Clear, Writing, Composing

LEMMA SafeCompose ==
    ASSUME NEW playing, NEW i, i \notin playing
    PROVE  Safe(Compose(i), playing)
<1>1. Whole(Compose(i)) /\ DOMAIN Compose(i) = 1..4
  BY WholeCompose, SeqLen DEF Whole
<1>2. \A k \in 1..4 : Compose(i)[k].instance = i
  BY DEF Compose, Do
<1> QED
  BY <1>1, <1>2 DEF Safe, Clear

LEMMA SafeEach ==
    ASSUME NEW playing, NEW op, op \notin Writing
    PROVE  Safe(Each(op), playing)
<1>1. Whole(Each(op))
  BY WholeEach DEF Writing, Composing
<1>2. \A k \in DOMAIN Each(op) : Each(op)[k].op = op
  BY DEF Each, Do
<1> QED
  BY <1>1, <1>2, SafeOthers DEF Whole

LEMMA SafeApply ==
    ASSUME NEW playing, IsSeq(pending)
    PROVE  Safe(Apply, playing)
<1>1. Whole(Apply)
  BY WholeApply
<1>2. \A k \in DOMAIN Apply : Apply[k].op = "apply"
  BY DEF Apply
<1> QED
  BY <1>1, <1>2, SafeOthers DEF Whole, Writing, Composing

LEMMA SafeJoinSteps ==
    ASSUME NEW playing, NEW i
    PROVE  Safe(JoinSteps(i), playing)
<1>1. IsSeq(JoinSteps(i)) /\ Len(JoinSteps(i)) = 2
  <2> DEFINE u == <<Do("join", i), Do("defer", i)>>
  <2>1. u = [k \in 1..2 |-> u[k]]
    OBVIOUS
  <2> HIDE DEF u
  <2>2. IsSeq(u) /\ Len(u) = 2
    BY <2>1, AnySeq
  <2> QED
    BY <2>2 DEF u, JoinSteps
<1>2. DOMAIN JoinSteps(i) = 1..2
  BY <1>1, SeqLen
<1>3. \A k \in 1..2 : JoinSteps(i)[k].op \in {"join", "defer"}
  BY DEF JoinSteps, Do
<1> QED
  BY <1>1, <1>2, <1>3, SafeOthers DEF Writing, Composing

LEMMA SafeSourceSteps ==
    ASSUME NEW playing, NEW i, i \notin playing
    PROVE  Safe(SourceSteps(i), playing)
<1> DEFINE retired == [k \in DOMAIN Order |->
              Do(IF Order[k] = i /\ joined[i] THEN "detach" ELSE "retire", Order[k])]
           own == IF joined[i] THEN <<>> ELSE <<Do("detach", i)>>
           four == <<Do("seed", i), Do("complete", i), Do("prefer", i),
                     Do("enable", i)>>
<1>1. Safe(retired, playing)
  <2>1. PICK n \in Nat : DOMAIN Order = 1..n
    BY OrderIsSeq
  <2>2. /\ DOMAIN retired = 1..n
        /\ \A k \in 1..n : \/ retired[k].op = "retire"
                           \/ retired[k].op = "detach" /\ retired[k].instance = i
    BY <2>1 DEF Do
  <2>3. retired = [k \in 1..n |-> retired[k]]
    BY <2>1
  <2> HIDE DEF retired
  <2>4. IsSeq(retired)
    BY <2>3, AnySeq
  <2> QED
    BY <2>2, <2>4 DEF Safe, Whole, Clear, Writing, Composing
<1>2. Safe(own, playing)
  BY SafeShort, SafeDo
<1>3. Safe(four, playing)
  <2>1. /\ four = [k \in 1..4 |-> four[k]]
        /\ \A k \in 1..4 : four[k].op \in {"seed", "complete", "prefer", "enable"}
    BY DEF Do
  <2> HIDE DEF four
  <2>2. IsSeq(four) /\ DOMAIN four = 1..4
    BY <2>1, AnySeq
  <2> QED
    BY <2>1, <2>2, SafeOthers DEF Writing, Composing
<1>4. Safe(Each("ensure"), playing)
  BY SafeEach DEF Writing, Composing
<1>5. SourceSteps(i) = retired \o own \o four \o Each("ensure")
  BY DEF SourceSteps
<1> HIDE DEF retired, own, four
<1>6. Safe(retired \o own, playing)
  BY <1>1, <1>2, SafeJoin
<1>7. Safe(retired \o own \o four, playing)
  BY <1>3, <1>6, SafeJoin
<1> QED
  BY <1>4, <1>5, <1>7, SafeJoin

LEMMA SafeTail ==
    ASSUME Planned, Quieted, todo # <<>>, Head(todo).op \notin Composing
    PROVE  Safe(Tail(todo), game)
<1>1. Whole(Tail(todo))
  BY WholeTail
<1>2. Clear(Tail(todo), game)
  <2>1. /\ Len(todo) \in Nat \ {0}
        /\ DOMAIN todo = 1..Len(todo)
        /\ DOMAIN Tail(todo) = 1..(Len(todo) - 1)
        /\ \A k \in 1..(Len(todo) - 1) : Tail(todo)[k] = todo[k + 1]
    BY NextDone
  <2>2. \A k \in 1..(Len(todo) - 1) : k + 1 \in 1..Len(todo)
    BY <2>1
  <2> QED
    BY <2>1, <2>2 DEF Quieted, Clear
<1> QED
  BY <1>1, <1>2 DEF Safe

----------------------------------------------------------------------------
(* Each kind of step keeps FilesInv. *)

SameDomains == /\ DOMAIN file' = DOMAIN file /\ DOMAIN made' = DOMAIN made

LEMMA FilesStep ==
    ASSUME SyncInv, FilesInv, NEW op, op \notin Composing, NEW i, Now(op, i),
           NEW steps, Safe(steps, game), Then(steps), SameDomains
    PROVE  FilesInv'
<1>1. /\ todo # <<>> /\ Head(todo).op \notin Composing
      /\ todo' = steps \o Tail(todo) /\ UNCHANGED <<game, stage>>
  BY DEF Now, Then
<1>2. Safe(todo', game)
  BY <1>1, SafeTail, SafeJoin DEF SyncInv, FilesInv
<1>3. Quieted' /\ Apart'
  BY <1>1, <1>2 DEF FilesInv, Quieted, Safe, Clear, Apart
<1>4. OnDisk'
  BY <1>2 DEF Safe, Whole, Composed, OnDisk
<1> QED
  BY <1>1, <1>3, <1>4 DEF FilesInv, SameDomains

LEMMA FilesCall ==
    ASSUME FilesInv, NEW steps, Safe(steps, game), todo' = steps,
           UNCHANGED game, SameDomains, DOMAIN stage' = Instances, Apart'
    PROVE  FilesInv'
<1>1. Quieted'
  BY DEF Quieted, Safe, Clear
<1>2. OnDisk'
  BY DEF Safe, Whole, Composed, OnDisk
<1> QED
  BY <1>1, <1>2 DEF FilesInv, SameDomains

LEMMA FilesCalled ==
    ASSUME FilesInv, NEW steps, Safe(steps, game), Call(steps),
           UNCHANGED stage, SameDomains
    PROVE  FilesInv'
<1>1. Apart' /\ DOMAIN stage' = Instances
  BY DEF FilesInv, Apart, Call
<1> QED
  BY <1>1, FilesCall DEF Call

\* The plan stands, and the files of whoever is in it and not in a game.
LEMMA FilesAside ==
    ASSUME SyncInv, FilesInv, UNCHANGED <<todo, shared, locals>>, SameDomains,
           Quieted', Apart', DOMAIN stage' = Instances,
           \A i \in Instances : i \notin game /\ ~Idle(i) =>
                    file'[i] = file[i] /\ made'[i] = made[i]
    PROVE  FilesInv'
<1>1. \A i : Shown(i)' = Shown(i)
  BY DEF Shown
<1>2. ASSUME NEW k \in DOMAIN todo, k \in 1..2, todo[k].op = "finish"
      PROVE  /\ file'[todo[k].instance] = file[todo[k].instance]
             /\ made'[todo[k].instance] = made[todo[k].instance]
  <2>1. ~Composed(todo, k)
    BY <1>2 DEF Composed
  <2>2. todo[k].instance \in Instances
    BY <1>2, <2>1 DEF SyncInv, Planned, Begun
  <2> QED
    BY <1>2, <2>2 DEF Idle, FilesInv, Quieted, Clear, Writing, Composing
<1>3. OnDisk'
  BY <1>1, <1>2 DEF OnDisk, FilesInv
<1> QED
  BY <1>3 DEF FilesInv, SameDomains

\* What is finished soon after the next step.
LEMMA SoonFinished ==
    ASSUME Planned, todo # <<>>, NEW k \in DOMAIN Tail(todo), k \in 1..2,
           Tail(todo)[k].op = "finish"
    PROVE  /\ k + 1 \in DOMAIN todo /\ todo[k + 1] = Tail(todo)[k]
           /\ \/ k = 2 /\ Head(todo) = Do("generate", Tail(todo)[k].instance)
              \/ k = 1 /\ Head(todo) = Do("link", Tail(todo)[k].instance)
<1>1. /\ Len(todo) \in Nat \ {0} /\ Head(todo) = todo[1]
      /\ DOMAIN todo = 1..Len(todo)
      /\ DOMAIN Tail(todo) = 1..(Len(todo) - 1)
      /\ \A m \in 1..(Len(todo) - 1) : Tail(todo)[m] = todo[m + 1]
  BY NextDone
<1>2. k + 1 \in DOMAIN todo /\ todo[k + 1] = Tail(todo)[k] /\ k \in Nat
  BY <1>1
<1>3. ~Composed(todo, k + 1)
  BY <1>2 DEF Composed
<1>4. Begun(k + 1)
  BY <1>2, <1>3 DEF Planned
<1> QED
  BY <1>1, <1>2, <1>4 DEF Begun

LEMMA ClearTail ==
    ASSUME Planned, Quieted, todo # <<>>
    PROVE  Clear(Tail(todo), game)
<1>1. /\ Len(todo) \in Nat \ {0}
      /\ DOMAIN todo = 1..Len(todo)
      /\ DOMAIN Tail(todo) = 1..(Len(todo) - 1)
      /\ \A k \in 1..(Len(todo) - 1) : Tail(todo)[k] = todo[k + 1]
  BY NextDone
<1>2. \A k \in 1..(Len(todo) - 1) : k + 1 \in 1..Len(todo)
  BY <1>1
<1> QED
  BY <1>1, <1>2 DEF Quieted, Clear

\* The four steps in which a list is written.
LEMMA FilesCompose ==
    ASSUME SyncInv, FilesInv, NEW i \in Instances,
           Begin(i) \/ Generate(i) \/ EnsureLink(i) \/ Finish(i)
    PROVE  FilesInv'
<1>0. Planned /\ Quieted /\ Apart
  BY DEF SyncInv, FilesInv
<1>1. /\ todo # <<>> /\ Head(todo).op \in Composing /\ Head(todo).instance = i
      /\ UNCHANGED <<game, stage>>
      /\ \A j : Shown(j)' = Shown(j)
      /\ DOMAIN file' = Instances /\ DOMAIN made' = Instances
      /\ DOMAIN stage' = Instances
  BY DEF FilesInv, Begin, Generate, EnsureLink, Finish, Now, Then, Composing,
         rows, files, Shown
<1>2. Apart'
  BY <1>0, <1>1 DEF Apart
<1>3. ASSUME todo' = Tail(todo), Head(todo).op \in {"begin", "finish"}
      PROVE  FilesInv'
  <2>1. OnDisk'
    BY <1>0, <1>3, <1>1, SoonFinished DEF OnDisk, Do
  <2> QED
    BY <1>0, <1>1, <1>2, <1>3, <2>1, ClearTail DEF FilesInv, Quieted, Clear
<1>4. CASE Begin(i) \/ Finish(i)
  BY <1>0, <1>3, <1>4, NextDone DEF Begin, Finish, Now, Then
<1>5. CASE Generate(i)
  <2>1. /\ todo' = Tail(todo) /\ Head(todo).op = "generate"
        /\ made'[i] = DataOf(Shown(i))
    BY <1>0, <1>5, NextDone DEF Generate, Now, Then, FilesInv
  <2>2. OnDisk'
    <3> SUFFICES ASSUME NEW k \in DOMAIN Tail(todo), Tail(todo)[k].op = "finish",
                        k \in 1..2
                 PROVE  k = 2 /\ Tail(todo)[k].instance = i
      BY <1>1, <2>1 DEF OnDisk
    <3>1. \/ k = 2 /\ Head(todo) = Do("generate", Tail(todo)[k].instance)
          \/ k = 1 /\ Head(todo) = Do("link", Tail(todo)[k].instance)
      BY <1>0, <1>1, SoonFinished
    <3> QED
      BY <1>1, <2>1, <3>1 DEF Do
  <2> QED
    BY <1>0, <1>1, <1>2, <2>1, <2>2, ClearTail DEF FilesInv, Quieted, Clear
<1>6. ASSUME EnsureLink(i), todo' = Tail(todo), file'[i].kind = "link"
      PROVE  FilesInv'
  <2>1. made' = made /\ Head(todo).op = "link"
    BY <1>6 DEF EnsureLink, Now
  <2>2. OnDisk'
    <3> SUFFICES ASSUME NEW k \in DOMAIN Tail(todo), Tail(todo)[k].op = "finish",
                        k \in 1..2
                 PROVE  /\ Tail(todo)[k].instance = i
                        /\ made[i] = DataOf(Shown(i))
      BY <1>1, <1>6, <2>1 DEF OnDisk
    <3>0. /\ k + 1 \in DOMAIN todo /\ todo[k + 1] = Tail(todo)[k]
          /\ \/ k = 2 /\ Head(todo) = Do("generate", Tail(todo)[k].instance)
             \/ k = 1 /\ Head(todo) = Do("link", Tail(todo)[k].instance)
      BY <1>0, <1>1, SoonFinished
    <3>1. /\ k = 1 /\ Tail(todo)[k].instance = i
          /\ k + 1 \in DOMAIN todo /\ todo[k + 1] = Tail(todo)[k]
      BY <1>1, <2>1, <3>0 DEF Do
    <3>2. k + 1 = 2
      BY <3>1
    <3> QED
      BY <3>1, <3>2 DEF FilesInv, OnDisk
  <2> QED
    BY <1>0, <1>1, <1>2, <1>6, <2>2, ClearTail DEF FilesInv, Quieted, Clear
<1>7. ASSUME EnsureLink(i), todo' = <<Do("link", i)>> \o Tail(todo)
      PROVE  FilesInv'
  <2>1. /\ DOMAIN todo' = DOMAIN todo /\ todo'[1] = Do("link", i)
        /\ todo[1].op = "link" /\ todo[1].instance = i
        /\ Len(todo) \in Nat \ {0} /\ DOMAIN todo = 1..Len(todo)
        /\ \A k \in 2..Len(todo) : todo'[k] = todo[k]
    BY <1>0, <1>1, <1>7, NextDone, HeadReplaced DEF EnsureLink, Now
  <2>2. \A k \in DOMAIN todo : /\ todo'[k].op = todo[k].op
                               /\ todo'[k].instance = todo[k].instance
    <3>1. \A k \in DOMAIN todo : k = 1 \/ k \in 2..Len(todo)
      BY <2>1
    <3> QED
      BY <2>1, <3>1 DEF Do
  <2>3. Quieted'
    BY <1>0, <1>1, <2>1, <2>2 DEF Quieted, Clear
  <2>4. OnDisk'
    <3>1. made' = made /\ todo'[1].op = "link"
      BY <1>7, <2>1 DEF EnsureLink, Do
    <3> QED
      BY <1>1, <2>1, <2>2, <3>1 DEF OnDisk, FilesInv
  <2> QED
    BY <1>1, <1>2, <2>3, <2>4 DEF FilesInv
<1>8. CASE EnsureLink(i)
  <2>1. CASE file[i].kind = "plain"
    BY <1>7, <1>8, <2>1 DEF EnsureLink, Then
  <2>2. CASE file[i].kind # "plain"
    <3>1. todo' = Tail(todo) /\ file'[i] = Link
      BY <1>0, <1>1, <1>8, <2>2, NextDone DEF EnsureLink, Then, FilesInv
    <3> QED
      BY <1>6, <1>8, <3>1 DEF Link
  <2> QED
    BY <2>1, <2>2
<1> QED
  BY <1>4, <1>5, <1>8

----------------------------------------------------------------------------
(* The other steps of the holder of the lock. *)

LEMMA PlaysNot == \A i : ~Blocked(i) \/ Effective(i) => i \notin game
BY DEF Blocked, Effective

LEMMA Unwritten ==
    /\ \A op \in {"servers", "seed", "join", "defer", "prefer", "enable",
                  "disable", "leave", "regenerate", "reconcile", "retire",
                  "ensure", "follow", "complete", "joined", "apply"} :
          op \notin Writing
    /\ "detach" # "finish" /\ "detach" \notin Composing /\ "put" \notin Composing
    /\ \A op : op \notin Writing => op # "finish" /\ op \notin Composing
BY DEF Writing, Composing

LEMMA FilesStay == UNCHANGED files => SameDomains
BY DEF SameDomains, files

\* Steps that only put others in their place.
LEMMA FilesOnly ==
    ASSUME SyncInv, FilesInv, NEW op, op \notin Composing, NEW i, Now(op, i),
           NEW steps, Safe(steps, game), Only(steps)
    PROVE  FilesInv'
BY FilesStep, FilesStay DEF Only

LEMMA FilesDeciding ==
    ASSUME SyncInv, FilesInv, NEW i \in Instances,
           \/ RegenerateOne(i) \/ Reconcile(i) \/ RestoreServers(i)
           \/ Retire(i) \/ Ensure(i) \/ Follow(i)
    PROVE  FilesInv'
<1> DEFINE Plan(steps) == Safe(steps, game) /\ Only(steps)
<1>0. /\ Safe(<<>>, game) /\ Safe(<<Do("servers", i)>>, game)
      /\ Safe(<<Do("defer", i)>>, game)
      /\ ~Blocked(i) \/ Effective(i) =>
             Safe(Compose(i), game) /\ Safe(<<Do("detach", i)>>, game)
  BY PlaysNot, SafeShort, SafeDo, SafeCompose, Unwritten
<1>1. CASE RegenerateOne(i)
  BY <1>0, <1>1, FilesOnly, Unwritten DEF RegenerateOne
<1>2. CASE Reconcile(i)
  <2>1. Now("reconcile", i) /\ \E steps : Plan(steps)
    BY <1>0, <1>2 DEF Reconcile
  <2> QED
    BY <2>1, FilesOnly, Unwritten
<1>3. CASE RestoreServers(i)
  BY <1>0, <1>3, FilesOnly, Unwritten DEF RestoreServers
<1>4. CASE Retire(i)
  <2>1. Now("retire", i) /\ \E steps : Plan(steps)
    BY <1>0, <1>4 DEF Retire
  <2> QED
    BY <2>1, FilesOnly, Unwritten
<1>5. CASE Ensure(i)
  <2>1. Now("ensure", i) /\ \E steps : Plan(steps)
    BY <1>0, <1>5 DEF Ensure
  <2> QED
    BY <2>1, FilesOnly, Unwritten
<1>6. CASE Follow(i)
  BY <1>0, <1>6, FilesOnly, Unwritten DEF Follow
<1> QED
  BY <1>1, <1>2, <1>3, <1>4, <1>5, <1>6

LEMMA FilesOthers ==
    ASSUME SyncInv, FilesInv, NEW i \in Instances,
           \/ Detach(i) \/ Put(i) \/ Prefer(i) \/ Enable(i) \/ Disable(i)
           \/ Leave(i) \/ Defer(i) \/ Complete(i) \/ Joined(i)
    PROVE  FilesInv'
<1>0. Safe(<<>>, game)
  BY SafeShort
<1>1. CASE Detach(i)
  <2> DEFINE contents == IF Visible(i) # None THEN Visible(i) ELSE made[i]
             put == [op |-> "put", instance |-> i, data |-> contents]
             steps == IF contents = None THEN <<>> ELSE <<put>>
  <2>1. /\ Now("detach", i) /\ Then(steps) /\ SameDomains
        /\ todo # <<>>
    BY <1>1 DEF Detach, SameDomains, Now
  <2>2. i \notin game
    <3>1. 1 \in DOMAIN todo /\ todo[1] = Head(todo)
      BY <2>1, NextDone DEF SyncInv
    <3> QED
      BY <2>1, <3>1 DEF Now, FilesInv, Quieted, Clear, Writing
  <2>3. Safe(steps, game)
    BY <2>2, SafeShort
  <2> HIDE DEF steps
  <2> QED
    BY <2>1, <2>3, FilesStep, Unwritten
<1>2. CASE Put(i)
  BY <1>0, <1>2, FilesStep, Unwritten DEF Put, SameDomains
<1>3. CASE Prefer(i)
  BY <1>0, <1>3, FilesStep, FilesStay, Unwritten DEF Prefer
<1>4. CASE Enable(i)
  BY <1>0, <1>4, FilesStep, FilesStay, Unwritten DEF Enable
<1>5. CASE Disable(i)
  BY <1>0, <1>5, FilesStep, FilesStay, Unwritten DEF Disable
<1>6. CASE Leave(i)
  BY <1>0, <1>6, FilesStep, FilesStay, Unwritten DEF Leave
<1>7. CASE Defer(i)
  BY <1>0, <1>7, FilesStep, FilesStay, Unwritten DEF Defer
<1>8. CASE Complete(i)
  BY <1>0, <1>8, FilesStep, FilesStay, Unwritten DEF Complete, SetPending
<1>9. CASE Joined(i)
  BY <1>0, <1>9, FilesStep, FilesStay, Unwritten DEF Joined, SetPending
<1> QED
  BY <1>1, <1>2, <1>3, <1>4, <1>5, <1>6, <1>7, <1>8, <1>9

LEMMA FilesApply ==
    ASSUME SyncInv, FilesInv, NEW i \in Instances, ApplyChange(i)
    PROVE  FilesInv'
<1> DEFINE action == Head(todo).action
           steps == IF action = "source" THEN SourceSteps(i)
                    ELSE JoinSteps(i) \o <<Do("joined", i)>> \o Compose(i)
<1>1. ~Blocked(i) => Safe(steps, game)
  <2>1. Safe(JoinSteps(i) \o <<Do("joined", i)>>, game)
    BY SafeJoinSteps, SafeDo, SafeJoin, Unwritten
  <2> QED
    BY <2>1, PlaysNot, SafeCompose, SafeJoin, SafeSourceSteps
<1>2. /\ Now("apply", i)
      /\ \/ Only(<<>>)
         \/ (~Blocked(i)) /\ Only(steps)
         \/ Then(<<>>) /\ (UNCHANGED files)
  BY DEF ApplyChange, SetPending
<1> HIDE DEF steps
<1> QED
  BY <1>1, <1>2, SafeShort, FilesOnly, FilesStep, FilesStay, Unwritten

LEMMA FilesWriting ==
    ASSUME SyncInv, FilesInv, NEW i \in Instances,
           MergeServers(i) \/ Seed(i) \/ Join(i)
    PROVE  FilesInv'
<1>0. /\ Safe(<<>>, game) /\ Safe(Regenerate, game)
      /\ Safe(<<Do("seed", i)>>, game)
  BY SafeShort, SafeEach, SafeDo, Unwritten DEF Regenerate
<1>1. \E op, steps : /\ op \notin Composing /\ Now(op, i) /\ Then(steps)
                     /\ Safe(steps, game) /\ UNCHANGED files
  <2>1. CASE MergeServers(i)
    <3>1. /\ Now("servers", i) /\ Effective(i) /\ UNCHANGED files
          /\ Then(<<>>) \/ \E servers : Then(AfterCommit(i, servers))
      BY <2>1 DEF MergeServers
    <3>2. \A servers : Safe(AfterCommit(i, servers), game)
      BY <1>0, <3>1, PlaysNot, SafeCompose DEF AfterCommit
    <3> QED
      BY <1>0, <3>1, <3>2, Unwritten
  <2>2. CASE Seed(i)
    BY <1>0, <2>2, Unwritten DEF Seed
  <2>3. CASE Join(i)
    <3>1. /\ Now("join", i) /\ UNCHANGED files
          /\ Then(<<>>) \/ Then(Regenerate) \/ Then(<<Do("seed", i)>>)
      BY <2>3 DEF Join, Only
    <3> QED
      BY <1>0, <3>1, Unwritten
  <2> QED
    BY <2>1, <2>2, <2>3
<1> QED
  BY <1>1, FilesStep, FilesStay

----------------------------------------------------------------------------
(* The other actions. *)

LEMMA FilesOnRows ==
    ASSUME FilesInv, NEW servers, OnRows(servers), UNCHANGED stage
    PROVE  FilesInv'
<1>1. Safe(Regenerate, game)
  BY SafeEach, Unwritten DEF Regenerate
<1> QED
  BY <1>1, FilesCalled, FilesStay DEF OnRows

LEMMA FilesOnFile ==
    ASSUME FilesInv, NEW i, NEW datas, OnFile(i, datas), UNCHANGED stage
    PROVE  FilesInv'
<1>1. SameDomains
  BY DEF OnFile, SameDomains
<1> QED
  BY <1>1, SafeShort, FilesCalled DEF OnFile

LEMMA FilesOnOwner ==
    ASSUME ~Overlap, FilesInv, NEW i, NEW row, NEW changed,
           OnOwner(i, row, changed), UNCHANGED stage
    PROVE  FilesInv'
<1>1. CASE OnRows(changed)
  BY <1>1, FilesOnRows
<1>2. CASE ~OnRows(changed)
  BY <1>2, SafeCompose, FilesCalled, FilesStay DEF OnOwner
<1> QED
  BY <1>1, <1>2

LEMMA FilesCommands ==
    ASSUME ~Overlap, FilesInv,
           \/ \E i \in Instances : \/ AddServer(i) \/ UpdateServer(i)
                                   \/ RemoveServer(i) \/ Desync(i)
           \/ UpdateSynced \/ RemoveSynced
    PROVE  FilesInv'
<1>1. ASSUME NEW i \in Instances, AddServer(i) PROVE FilesInv'
  BY <1>1, FilesOnRows, FilesOnFile DEF AddServer, Command
<1>2. ASSUME NEW i \in Instances, UpdateServer(i) PROVE FilesInv'
  <2>1. /\ UNCHANGED stage
        /\ \/ \E r, changed : OnOwner(i, r, changed)
           \/ \E datas : OnFile(i, datas)
    BY <1>2 DEF UpdateServer, Command
  <2> QED
    BY <2>1, FilesOnOwner, FilesOnFile
<1>3. ASSUME NEW i \in Instances, RemoveServer(i) PROVE FilesInv'
  <2>1. /\ UNCHANGED stage
        /\ \/ \E r, changed : OnOwner(i, r, changed)
           \/ \E datas : OnFile(i, datas)
    BY <1>3 DEF RemoveServer, Command
  <2> QED
    BY <2>1, FilesOnOwner, FilesOnFile
<1>4. ASSUME NEW i \in Instances, Desync(i) PROVE FilesInv'
  <2>1. PICK servers : Call(AfterCommit(i, servers))
    BY <1>4 DEF Desync
  <2>2. i \notin game /\ UNCHANGED <<stage, files>>
    BY <1>4 DEF Desync, Command
  <2>3. Safe(AfterCommit(i, servers), game)
    BY <2>2, SafeEach, SafeCompose, Unwritten DEF AfterCommit, Regenerate
  <2> QED
    BY <2>1, <2>2, <2>3, FilesCalled, FilesStay
<1>5. ASSUME UpdateSynced PROVE FilesInv'
  BY <1>5, FilesOnRows DEF UpdateSynced, Command
<1>6. ASSUME RemoveSynced PROVE FilesInv'
  BY <1>6, FilesOnRows DEF RemoveSynced, Command
<1> QED
  BY <1>1, <1>2, <1>3, <1>4, <1>5, <1>6

LEMMA FilesSwitch ==
    ASSUME FilesInv, NEW i \in Instances,
           \/ SwitchOff(i) \/ SetGlobalFromBase(i)
           \/ JoinInstance(i) \/ LeaveInstance(i)
    PROVE  FilesInv'
<1>0. /\ UNCHANGED stage
      /\ \A changes, steps : Switch(changes, steps) /\ Safe(steps, game) =>
             FilesInv'
  <2>1. UNCHANGED stage
    BY DEF SwitchOff, SetGlobalFromBase, JoinInstance, LeaveInstance, Command
  <2> QED
    BY <2>1, FilesCalled, FilesStay DEF Switch
<1>1. CASE SwitchOff(i)
  <2>1. Safe(<<Do("disable", i)>> \o Each("follow"), game)
    BY SafeDo, SafeEach, SafeJoin, Unwritten
  <2> QED
    BY <1>0, <1>1, <2>1 DEF SwitchOff
<1>2. CASE SetGlobalFromBase(i)
  <2>1. Safe(<<Do("prefer", i), Do("enable", i)>>, game)
    <3> DEFINE u == <<Do("prefer", i), Do("enable", i)>>
    <3>1. u = [k \in 1..2 |-> u[k]] /\ \A k \in 1..2 : u[k].op \in {"prefer", "enable"}
      BY DEF Do
    <3> HIDE DEF u
    <3>2. IsSeq(u) /\ DOMAIN u = 1..2
      BY <3>1, AnySeq
    <3>3. Safe(u, game)
      BY <3>1, <3>2, SafeOthers DEF Writing, Composing
    <3> QED
      BY <3>3 DEF u
  <2>2. CASE Blocked(i)
    BY <1>0, <1>2, <2>1, <2>2 DEF SetGlobalFromBase
  <2>3. CASE ~Blocked(i)
    BY <1>0, <1>2, <2>3, PlaysNot, SafeSourceSteps DEF SetGlobalFromBase
  <2> QED
    BY <2>2, <2>3
<1>3. CASE JoinInstance(i)
  <2>1. CASE Blocked(i)
    BY <1>0, <1>3, <2>1, SafeDo, Unwritten DEF JoinInstance
  <2>2. CASE ~Blocked(i)
    <3>1. Safe(JoinSteps(i) \o <<Do("prefer", i)>>, game)
      BY SafeJoinSteps, SafeDo, SafeJoin, Unwritten
    <3>2. Safe(JoinSteps(i) \o <<Do("prefer", i)>> \o Compose(i), game)
      BY <2>2, <3>1, PlaysNot, SafeCompose, SafeJoin
    <3> QED
      BY <1>0, <1>3, <2>2, <3>2 DEF JoinInstance
  <2> QED
    BY <2>1, <2>2
<1>4. CASE LeaveInstance(i)
  <2> DEFINE rest == IF Blocked(i) THEN <<>> ELSE <<Do("detach", i)>>
  <2>1. Safe(rest, game)
    BY PlaysNot, SafeShort, SafeDo, Unwritten
  <2>2. Switch(Others(i), <<Do("leave", i)>> \o rest)
    BY <1>4 DEF LeaveInstance
  <2> HIDE DEF rest
  <2>3. Safe(<<Do("leave", i)>> \o rest, game)
    BY <2>1, SafeDo, SafeJoin, Unwritten
  <2> QED
    BY <1>0, <2>2, <2>3
<1> QED
  BY <1>1, <1>2, <1>3, <1>4

LEMMA FilesPack ==
    ASSUME SyncInv, FilesInv, NEW i \in Instances,
           \/ LockInstance(i) \/ PrepareUpdate(i) \/ Unpack(i) \/ Capture(i)
           \/ AfterPackUpdate(i) \/ FinishInstall(i)
    PROVE  FilesInv'
<1>1. ASSUME NEW from, NEW to, Advance(i, from, to), from # "installed",
             UNCHANGED game
      PROVE  i \notin game /\ Apart' /\ DOMAIN stage' = Instances
  BY <1>1 DEF Advance, FilesInv, Apart
<1>2. ASSUME NEW from, NEW to, NEW steps, Update(i, from, to, steps),
             from # "installed", UNCHANGED files,
             steps = <<>> \/ steps = <<Do("detach", i)>>
      PROVE  FilesInv'
  <2>1. i \notin game /\ Apart' /\ DOMAIN stage' = Instances
    BY <1>1, <1>2 DEF Update, Call
  <2>2. Safe(steps, game)
    BY <1>2, <2>1, SafeShort, SafeDo, Unwritten
  <2> QED
    BY <1>2, <2>1, <2>2, FilesCall, FilesStay DEF Update, Call
<1>3. CASE LockInstance(i)
  <2>1. Apart' /\ DOMAIN stage' = Instances /\ Quieted'
    BY <1>3 DEF LockInstance, Advance, FilesInv, Apart, Quieted
  <2> QED
    BY <1>3, <2>1, FilesAside, FilesStay DEF LockInstance, rows, files
<1>4. CASE PrepareUpdate(i)
  BY <1>2, <1>4 DEF PrepareUpdate
<1>5. CASE Unpack(i)
  <2>1. \E to : Advance(i, "updating", to)
    BY <1>5 DEF Unpack
  <2>2. Apart' /\ DOMAIN stage' = Instances /\ Quieted'
    BY <1>1, <1>5, <2>1 DEF Unpack, FilesInv, Quieted
  <2>0. /\ Idle(i) /\ UNCHANGED <<made, todo, shared, locals>>
        /\ \/ \E f : file' = [file EXCEPT ![i] = f]
           \/ file' = file
    BY <1>5 DEF Unpack, rows
  <2>3. SameDomains /\ \A j \in Instances : j # i => file'[j] = file[j]
    BY <2>0 DEF SameDomains, FilesInv
  <2> QED
    BY <2>0, <2>2, <2>3, FilesAside
<1>6. CASE Capture(i)
  BY <1>2, <1>6 DEF Capture
<1>7. CASE AfterPackUpdate(i)
  BY <1>2, <1>7 DEF AfterPackUpdate
<1>8. CASE FinishInstall(i)
  <2>1. Apart' /\ DOMAIN stage' = Instances /\ Quieted'
    BY <1>1, <1>8 DEF FinishInstall, FilesInv, Quieted
  <2> QED
    BY <1>8, <2>1, FilesAside, FilesStay DEF FinishInstall, rows, files
<1> QED
  BY <1>3, <1>4, <1>5, <1>6, <1>7, <1>8

LEMMA FilesGame ==
    ASSUME SyncInv, FilesInv, NEW i \in Instances,
           \/ AddInGame(i) \/ RemoveInGame(i) \/ ChangeInGame(i)
           \/ SwapInGame(i) \/ Launch(i) \/ Exit(i)
    PROVE  FilesInv'
<1>1. ASSUME NEW datas, Edit(i, datas), i \in game PROVE FilesInv'
  <2>1. /\ SameDomains /\ UNCHANGED <<made, todo, shared, locals, game, stage>>
        /\ \A j \in Instances : j # i => file'[j] = file[j]
    BY <1>1 DEF Edit, SameDomains, rows, FilesInv
  <2>2. Apart' /\ DOMAIN stage' = Instances /\ Quieted'
    BY <2>1 DEF FilesInv, Apart, Quieted
  <2> QED
    BY <1>1, <2>1, <2>2, FilesAside
<1>2. CASE Launch(i)
  <2>1. /\ UNCHANGED <<todo, shared, locals, stage, files>>
        /\ game' = game \cup {i} /\ Idle(i) /\ stage[i] = "installed"
    BY <1>2 DEF Launch, rows
  <2>2. Quieted'
    BY <2>1 DEF FilesInv, Quieted, Clear, Idle
  <2>3. Apart' /\ DOMAIN stage' = Instances
    BY <2>1 DEF FilesInv, Apart
  <2> QED
    BY <2>1, <2>2, <2>3, FilesAside, FilesStay DEF files
<1>3. CASE Exit(i)
  <2>1. /\ UNCHANGED <<todo, shared, locals, stage, files>>
        /\ game' = game \ {i}
    BY <1>3 DEF Exit, rows
  <2>2. Quieted' /\ Apart' /\ DOMAIN stage' = Instances
    BY <2>1 DEF FilesInv, Quieted, Clear, Apart
  <2> QED
    BY <2>1, <2>2, FilesAside, FilesStay DEF files
<1> QED
  BY <1>1, <1>2, <1>3 DEF AddInGame, RemoveInGame, ChangeInGame, SwapInGame,
     MayEdit

LEMMA FilesReconciled ==
    ASSUME SyncInv, FilesInv,
           (\E i \in Instances : ReconcileDue(i) \/ Watch(i)) \/ Boot \/ Crash
    PROVE  FilesInv'
<1>0. /\ Safe(Apply, game) /\ Safe(<<>>, game)
      /\ \A i : Safe(<<Do("reconcile", i)>>, game)
                /\ Safe(<<Do("servers", i)>>, game)
      /\ Safe(Each("reconcile"), game)
  BY PendingNow, SafeApply, SafeShort, SafeDo, SafeEach, Unwritten
<1>1. PICK steps : /\ Safe(steps, game) /\ todo' = steps
                   /\ UNCHANGED <<game, stage, files>>
  <2>1. ASSUME NEW i \in Instances, ReconcileDue(i)
        PROVE  /\ todo' = Apply \o <<Do("reconcile", i)>>
               /\ UNCHANGED <<game, stage, files>>
    BY <2>1 DEF ReconcileDue, Call
  <2>2. ASSUME NEW i \in Instances, Watch(i)
        PROVE  /\ todo' = Apply \o <<Do("servers", i)>>
               /\ UNCHANGED <<game, stage, files>>
    BY <2>2 DEF Watch, Call
  <2>3. ASSUME Boot
        PROVE  /\ todo' = Apply \o Each("reconcile")
               /\ UNCHANGED <<game, stage, files>>
    BY <2>3 DEF Boot
  <2>4. ASSUME Crash
        PROVE  todo' = <<>> /\ UNCHANGED <<game, stage, files>>
    BY <2>4 DEF Crash
  <2>5. /\ Safe(Apply \o Each("reconcile"), game)
        /\ \A i : /\ Safe(Apply \o <<Do("reconcile", i)>>, game)
                  /\ Safe(Apply \o <<Do("servers", i)>>, game)
    BY <1>0, SafeJoin
  <2> QED
    BY <1>0, <2>1, <2>2, <2>3, <2>4, <2>5
<1>2. Apart' /\ DOMAIN stage' = Instances
  BY <1>1 DEF FilesInv, Apart
<1> QED
  BY <1>1, <1>2, FilesCall, FilesStay

LEMMA FilesInvKept ==
    ASSUME ~Overlap
    PROVE  SyncInv /\ FilesInv /\ [Next]_vars => FilesInv'
<1> SUFFICES ASSUME SyncInv, FilesInv, [Next]_vars PROVE FilesInv'
  OBVIOUS
<1>1. ASSUME NEW i \in Instances, Step(i) PROVE FilesInv'
  BY <1>1, FilesCompose, FilesDeciding, FilesOthers, FilesApply, FilesWriting
     DEF Step
<1>2. ASSUME NEW i \in Instances, Player(i) PROVE FilesInv'
  BY <1>2, FilesCommands, FilesSwitch, FilesGame, FilesPack DEF Player
<1>3. ASSUME NEW i \in Instances,
             \/ PrepareUpdate(i) \/ Unpack(i) \/ Capture(i)
             \/ AfterPackUpdate(i) \/ FinishInstall(i)
             \/ ReconcileDue(i) \/ Watch(i)
      PROVE  FilesInv'
  BY <1>3, FilesPack, FilesReconciled
<1>4. CASE UpdateSynced \/ RemoveSynced \/ Crash \/ Boot
  BY <1>4, FilesCommands, FilesReconciled
<1>5. CASE UNCHANGED vars
  <2>1. /\ UNCHANGED <<todo, shared, locals, game, stage, file, made, files>>
    BY <1>5 DEF vars, rows, files
  <2>2. Quieted' /\ Apart' /\ DOMAIN stage' = Instances
    BY <2>1 DEF FilesInv, Quieted, Apart
  <2> QED
    BY <2>1, <2>2, FilesAside, FilesStay
<1> QED
  BY <1>1, <1>2, <1>3, <1>4, <1>5 DEF Next

----------------------------------------------------------------------------
(* What it is for. *)

\* The checkpoint of an instance becomes ready only when what is on its disk
\* is what the checkpoint expects.
ListsAreWritten ==
    [][\A i \in Instances : Finish(i) => Visible(i) = point[i].expected]_vars

LEMMA FinishedIsWritten ==
    ASSUME SyncInv, FilesInv, NEW i \in Instances, Finish(i)
    PROVE  Visible(i) = point[i].expected
<1>1. /\ todo # <<>> /\ Head(todo).op = "finish" /\ Head(todo).instance = i
  BY DEF Finish, Now
<1>2. 1 \in DOMAIN todo /\ todo[1].op = "finish" /\ todo[1].instance = i
  BY <1>1, NextDone DEF SyncInv
<1>3. Fresh(i)
  <2>1. ~Composed(todo, 1)
    BY DEF Composed
  <2> QED
    BY <1>2, <2>1 DEF SyncInv, Planned, Begun
<1>4. made[i] = DataOf(Shown(i)) /\ file[i].kind = "link"
  BY <1>2 DEF FilesInv, OnDisk
<1> QED
  BY <1>3, <1>4 DEF Visible, Fresh

\* While a game runs, its list changes only by what the player does in it, or
\* to an instance that takes no part by a command for that instance.
Disturbed(i) == file'[i] # file[i] \/ made'[i] # made[i]
LeftAlone ==
    \A i \in Instances : i \in game /\ Disturbed(i) =>
        \/ AddInGame(i) \/ RemoveInGame(i) \/ ChangeInGame(i) \/ SwapInGame(i)
        \/ /\ ~Participating(i)
           /\ AddServer(i) \/ UpdateServer(i) \/ RemoveServer(i)
GamesKeepTheirLists == [][LeftAlone]_vars

LEMMA NobodyElsesFile ==
    ASSUME NEW i, UNCHANGED <<file, made>> PROVE ~Disturbed(i)
BY DEF Disturbed

LEMMA OneFile ==
    ASSUME FilesInv, NEW i \in Instances, NEW j, i # j,
           \/ made' = made /\ \E f : file' = [file EXCEPT ![j] = f]
           \/ file' = file /\ \E m : made' = [made EXCEPT ![j] = m]
    PROVE  ~Disturbed(i)
BY DEF Disturbed, FilesInv

LEMMA StepsDisturbNobody ==
    ASSUME SyncInv, FilesInv, NEW i \in Instances, i \in game, NEW j \in Instances, Step(j)
    PROVE  ~Disturbed(i)
<1>1. CASE Generate(j) \/ EnsureLink(j) \/ Detach(j) \/ Put(j)
  <2>1. todo # <<>> /\ Head(todo).op \in Writing /\ Head(todo).instance = j
    BY <1>1 DEF Generate, EnsureLink, Detach, Put, Now, Writing, Composing
  <2>2. 1 \in DOMAIN todo /\ Head(todo) = todo[1]
    BY <2>1, NextDone DEF SyncInv
  <2>3. i # j
    BY <2>1, <2>2 DEF FilesInv, Quieted, Clear
  <2>4. \/ made' = made /\ \E f : file' = [file EXCEPT ![j] = f]
        \/ file' = file /\ \E m : made' = [made EXCEPT ![j] = m]
    BY <1>1 DEF Generate, EnsureLink, Detach, Put
  <2> QED
    BY <2>3, <2>4, OneFile
<1>2. CASE \/ Begin(j) \/ Finish(j) \/ RegenerateOne(j) \/ Reconcile(j)
           \/ RestoreServers(j) \/ Retire(j) \/ Ensure(j) \/ Follow(j)
  BY <1>2, NobodyElsesFile DEF Begin, Finish, RegenerateOne, Reconcile,
     RestoreServers, Retire, Ensure, Follow, Only, files
<1>3. CASE \/ MergeServers(j) \/ Seed(j) \/ Join(j) \/ Defer(j) \/ Prefer(j)
           \/ Enable(j) \/ Disable(j) \/ Leave(j) \/ Complete(j) \/ Joined(j)
           \/ ApplyChange(j)
  BY <1>3, NobodyElsesFile DEF MergeServers, Seed, Join, Defer, Prefer, Enable,
     Disable, Leave, Complete, Joined, ApplyChange, Only, SetPending, files
<1> QED
  BY <1>1, <1>2, <1>3 DEF Step

LEMMA CommandsKeepFiles ==
    ASSUME FilesInv, NEW i \in Instances, NEW j,
           \/ AddServer(j) \/ UpdateServer(j) \/ RemoveServer(j) \/ Desync(j)
           \/ UpdateSynced \/ RemoveSynced,
           Disturbed(i)
    PROVE  /\ i = j /\ ~Participating(i)
           /\ AddServer(i) \/ UpdateServer(i) \/ RemoveServer(i)
<1>1. ASSUME NEW servers, OnRows(servers) PROVE FALSE
  BY <1>1, NobodyElsesFile DEF OnRows, files
<1>2. ASSUME NEW r, NEW changed, OnOwner(j, r, changed) PROVE FALSE
  BY <1>1, <1>2, NobodyElsesFile DEF OnOwner, files
<1>3. ASSUME NEW datas, OnFile(j, datas) PROVE i = j
  BY <1>3, OneFile DEF OnFile
<1>4. CASE AddServer(j)
  BY <1>1, <1>3, <1>4 DEF AddServer
<1>5. CASE UpdateServer(j)
  <2>1. ~Participating(j) /\ \E datas : OnFile(j, datas)
    BY <1>2, <1>5 DEF UpdateServer
  <2> QED
    BY <1>3, <1>5, <2>1
<1>6. CASE RemoveServer(j)
  <2>1. ~Participating(j) /\ \E datas : OnFile(j, datas)
    BY <1>2, <1>6 DEF RemoveServer
  <2> QED
    BY <1>3, <1>6, <2>1
<1>7. CASE Desync(j) \/ UpdateSynced \/ RemoveSynced
  BY <1>1, <1>7, NobodyElsesFile DEF Desync, UpdateSynced, RemoveSynced, files
<1> QED
  BY <1>4, <1>5, <1>6, <1>7

LEMMA OthersDisturbNobody ==
    ASSUME FilesInv, NEW i \in Instances, i \in game, NEW j \in Instances,
           \/ LockInstance(j) \/ PrepareUpdate(j) \/ Unpack(j) \/ Capture(j)
           \/ AfterPackUpdate(j) \/ FinishInstall(j) \/ ReconcileDue(j)
           \/ Watch(j) \/ Crash \/ Boot \/ Launch(j) \/ Exit(j)
           \/ SwitchOff(j) \/ SetGlobalFromBase(j) \/ JoinInstance(j)
           \/ LeaveInstance(j) \/ UNCHANGED vars
    PROVE  ~Disturbed(i)
<1>1. CASE Unpack(j)
  <2>1. /\ stage[j] # "installed" /\ UNCHANGED made
        /\ \/ \E f : file' = [file EXCEPT ![j] = f]
           \/ UNCHANGED file
    BY <1>1 DEF Unpack, Advance
  <2>2. i # j
    BY <2>1 DEF FilesInv, Apart
  <2> QED
    BY <2>1, <2>2, OneFile, NobodyElsesFile
<1>2. CASE \/ LockInstance(j) \/ PrepareUpdate(j) \/ Capture(j)
           \/ AfterPackUpdate(j) \/ FinishInstall(j) \/ ReconcileDue(j)
           \/ Watch(j) \/ Crash \/ Boot \/ Launch(j) \/ Exit(j)
  BY <1>2, NobodyElsesFile DEF LockInstance, PrepareUpdate, Capture,
     AfterPackUpdate, FinishInstall, ReconcileDue, Watch, Crash, Boot, Launch,
     Exit, files
<1>3. CASE \/ SwitchOff(j) \/ SetGlobalFromBase(j) \/ JoinInstance(j)
           \/ LeaveInstance(j) \/ UNCHANGED vars
  <2>1. UNCHANGED files
    BY <1>3 DEF SwitchOff, SetGlobalFromBase, JoinInstance, LeaveInstance,
       Switch, vars
  <2> QED
    BY <2>1, NobodyElsesFile DEF files
<1> QED
  BY <1>1, <1>2, <1>3

LEMMA GamesAreLeftAlone ==
    ASSUME SyncInv, FilesInv, [Next]_vars
    PROVE  LeftAlone
<1> SUFFICES ASSUME NEW i \in Instances, i \in game, Disturbed(i)
             PROVE  \/ AddInGame(i) \/ RemoveInGame(i)
                    \/ ChangeInGame(i) \/ SwapInGame(i)
                    \/ /\ ~Participating(i)
                       /\ AddServer(i) \/ UpdateServer(i) \/ RemoveServer(i)
  BY DEF LeftAlone
<1>1. ASSUME NEW j, \/ AddInGame(j) \/ RemoveInGame(j) \/ ChangeInGame(j)
                    \/ SwapInGame(j)
      PROVE  i = j
  <2>1. \E datas : Edit(j, datas)
    BY <1>1 DEF AddInGame, RemoveInGame, ChangeInGame, SwapInGame
  <2> QED
    BY <2>1, OneFile DEF Edit
<1>2. ASSUME NEW j \in Instances, Step(j) PROVE FALSE
  BY <1>2, StepsDisturbNobody
<1>3. CASE \E j \in Instances : Player(j)
  BY <1>1, <1>3, CommandsKeepFiles, OthersDisturbNobody DEF Player
<1>4. CASE \/ UNCHANGED vars
           \/ \E j \in Instances :
                 \/ PrepareUpdate(j) \/ Unpack(j) \/ Capture(j)
                 \/ AfterPackUpdate(j) \/ FinishInstall(j)
                 \/ ReconcileDue(j) \/ Watch(j)
           \/ Crash \/ Boot
  BY <1>4, OthersDisturbNobody
<1>5. CASE UpdateSynced \/ RemoveSynced
  BY <1>5, CommandsKeepFiles
<1> QED
  BY <1>2, <1>3, <1>4, <1>5 DEF Next

\* Whatever the app is closed in the middle of: a checkpoint is finished only
\* when the file it vouches for is there, with the content it names, so that a
\* list is never read back because its own writing was incomplete
\* (generate, ensure_link and the ready checkpoint, in that order).  Without
\* changes to the rows of an instance under its game (~Overlap): these write
\* the list of the running game, whose edits may come before the checkpoint.
THEOREM ReadyMeansWritten == ASSUME ~Overlap PROVE Spec => ListsAreWritten
<1>1. Spec => [](SyncInv /\ FilesInv)
  BY InitInv, SyncInvKept, FilesInit, FilesInvKept, PTL DEF Spec
<1>2. SyncInv /\ FilesInv =>
          \A i \in Instances : Finish(i) => Visible(i) = point[i].expected
  BY FinishedIsWritten
<1> QED
  BY <1>1, <1>2, PTL DEF ListsAreWritten

\* Nobody writes the list of a running game: instance_is_blocked is asked once,
\* when the holder of the lock plans to write a list, and the steps that write
\* it come later, but no launch comes in between (it passes through the lock,
\* which is Idle in Launch), and no modpack is unpacked under a running game.
THEOREM RunningGamesKeepTheirLists ==
    ASSUME ~Overlap PROVE Spec => GamesKeepTheirLists
<1>1. Spec => [](SyncInv /\ FilesInv)
  BY InitInv, SyncInvKept, FilesInit, FilesInvKept, PTL DEF Spec
<1>2. SyncInv /\ FilesInv /\ [Next]_vars => LeftAlone
  BY GamesAreLeftAlone
<1> QED
  BY <1>1, <1>2, PTL DEF Spec, GamesKeepTheirLists
=============================================================================
