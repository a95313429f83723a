----------------------- MODULE GameSessionsProperties -----------------------
(***************************************************************************)
(* What the launcher promises about the games it starts, about             *)
(* GameSessions.                                                           *)
(***************************************************************************)
EXTENDS GameSessions

\* Something of the launcher refers to g.
Known(g) == \/ g \in managed \/ watch[g] # "none" \/ submit[g].pc # "none"
            \/ launch.game = g \/ \E p \in Pids : rows[p] = g

\* Every variable has the shape the code gives it: a game that was spawned has
\* a pid and an instance, and only such a game is launched, managed, watched,
\* reported or in a row.
TypeOK ==
    /\ bound \in Bindings
    /\ game \in [Games -> Game]
    /\ \A g \in Games : game[g].pc # "none" =>
          game[g].pid # None /\ game[g].instance # None
    /\ rows \in [Pids -> Games \cup {None}]
    /\ managed \subseteq Games /\ dropped \subseteq Games
    /\ watch \in [Games -> {"none", "watch", "clear", "final"}]
    /\ submit \in [Games -> Submit]
    /\ launch \in Launch
    /\ launch.pc # "idle" => launch.instance # None
    /\ launch.pc \in {"row", "init", "called", "clear", "kill"} =>
          launch.game # None
    /\ \A g \in Games : Known(g) => game[g].pc # "none"
    /\ recent \in [Instances -> Nat] /\ submitted \in [Instances -> Nat]
    /\ played \in [Instances -> Nat] /\ reported \in [Instances -> Nat]
    /\ crashes \in Nat

\* g plays, and no launch has given it up.
Plays(g) == game[g].pc = "playing" /\ g \notin dropped

\* An instance is never played twice at a time, whatever was closed, reused or
\* cleared between two launches: a game is in the table before it plays, and
\* stays there as long as it lives.
OneGame ==
    \A g, h \in Games :
       Plays(g) /\ Plays(h) /\ game[g].instance = game[h].instance => g = h

\* A game the launcher manages plays under the binding its instance has now,
\* with its account: bindings change neither under a game nor under a launch
\* that has read them (bots.rs:108-117).
BindingKept ==
    \A g \in managed :
       /\ bound[game[g].instance] = game[g].bound
       /\ game[g].bound # None => game[g].account = game[g].bound

\* Play time that was stored and that the service has not accepted yet is still
\* stored, to be "sent next time" (process.rs:957).
TimeKept == \A i \in Instances : reported[i] + recent[i] >= played[i]
=============================================================================
