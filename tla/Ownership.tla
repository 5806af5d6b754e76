----------------------------- MODULE Ownership -----------------------------
(***************************************************************************)
(* What the listener's routing amounts to: chargers, known by serial, are  *)
(* owned by registered devices.  A charger has at most one owner, an owner *)
(* at most one charger, and a device keeps its charger for as long as it   *)
(* is registered.                                                          *)
(***************************************************************************)

CONSTANTS Devices, Serials, None

VARIABLES
    members,                 \* registered devices
    owner                    \* [Serials -> Devices \cup {None}]

vars == <<members, owner>>

Init ==
    /\ members = {}
    /\ owner = [s \in Serials |-> None]

Join(d) ==
    /\ d \notin members
    /\ members' = members \cup {d}
    /\ UNCHANGED owner

\* The first packet that names its charger gives a device the charger.
Bind(s, d) ==
    /\ d \in members
    /\ owner[s] = None
    /\ \A t \in Serials : owner[t] # d
    /\ owner' = [owner EXCEPT ![s] = d]
    /\ UNCHANGED members

\* Removal of one device, or of all of them: what they owned is free again.
Leave(D) ==
    /\ members' = members \ D
    /\ owner' = [s \in Serials |-> IF owner[s] \in D THEN None ELSE owner[s]]

Next ==
    \/ \E d \in Devices : Join(d)
    \/ \E d \in Devices, s \in Serials : Bind(s, d)
    \/ \E D \in SUBSET members : Leave(D)

Spec == Init /\ [][Next]_vars
=============================================================================
