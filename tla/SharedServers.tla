--------------------------- MODULE SharedServers ---------------------------
(***************************************************************************)
(* What sharing a server list promises: the list is what the players have  *)
(* made of it.  It changes by one server at a time, when a player adds or  *)
(* removes that server somewhere, or altogether while syncing is being     *)
(* switched, and in no other way: not when lists are merged or written,    *)
(* and not when the app is closed or started.  Only a server that one      *)
(* instance has added and another removes again before all is written may  *)
(* go either way.                                                          *)
(***************************************************************************)
EXTENDS Naturals

CONSTANTS Server

VARIABLES
    list,        \* the servers that are shared, with what was not read yet
    contested,   \* those that one instance adds and another removes
    acts,        \* what the players have done
    switching    \* syncing is being switched on or off

vars == <<list, contested, acts, switching>>

Init == list \subseteq Server /\ contested = {} /\ acts = 0 /\ ~switching

\* The list changes at most in these servers.
Only(servers) == (list' \ list) \cup (list \ list') \subseteq servers

Act ==
    /\ acts' = acts + 1 /\ switching' \in BOOLEAN
    /\ \E s \in Server :
          /\ Only(contested \cup {s})
          /\ contested' \subseteq contested \cup {s}

\* Syncing is switched on or off, for all or for one.
Switch ==
    /\ acts' = acts + 1 /\ switching'
    /\ list' \subseteq Server /\ contested' \subseteq Server

Settle ==
    /\ UNCHANGED <<acts, switching>>
    /\ UNCHANGED list \/ Only(contested \cup contested')
    /\ contested' \subseteq Server

\* While syncing is being switched, up to the moment every instance has been
\* given the list.
Rearrange ==
    /\ switching /\ switching' \in BOOLEAN /\ UNCHANGED acts
    /\ list' \subseteq Server /\ contested' \subseteq Server

\* A request that had to wait is taken up.
Resume == ~switching /\ switching' /\ UNCHANGED <<acts, list, contested>>

Next == Act \/ Switch \/ Settle \/ Rearrange \/ Resume

Spec == Init /\ [][Next]_vars
=============================================================================
