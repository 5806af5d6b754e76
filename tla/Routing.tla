------------------------------ MODULE Routing ------------------------------
(***************************************************************************)
(* The device registry of EvseListener: two indexes over the registered    *)
(* devices, by address and by serial, kept up to date by the packets       *)
(* themselves.  A device is added by host; its serial is learned from the  *)
(* first packet that names one; it follows its charger to another address. *)
(* Packets nobody manages are reported, once per serial.                   *)
(*                                                                         *)
(* Chargers are not modelled: a frame carries any serial from any address, *)
(* which covers DHCP changes, two chargers behind one address in turn, and *)
(* frames delivered late.                                                  *)
(***************************************************************************)
EXTENDS FiniteSets

CONSTANTS
    Devices,                 \* identities of EvseDevice objects
    Serials,                 \* serials of chargers
    Zero,                    \* ZERO_SERIAL: a packet that will not say who sent it
    Addresses,               \* IP addresses
    None

ASSUME NoneAssumption == None \notin Devices \cup Serials \cup Addresses
ASSUME ZeroAssumption == Zero \notin Serials /\ Zero # None

VARIABLES
    byIp,                    \* _by_ip
    bySerial,                \* _by_serial
    discovered,              \* _discovered
    serial, hostIp,          \* of each device
    status                   \* each device for its owner: "new", "registered", "removed"

indexes == <<byIp, bySerial, discovered>>
vars == <<indexes, serial, hostIp, status>>

Registered == {d \in Devices : status[d] = "registered"}

\* EvseListener.devices
Listed == {d \in Devices : \/ \E a \in Addresses : byIp[a] = d
                           \/ \E s \in Serials : bySerial[s] = d}

Init ==
    /\ byIp = [a \in Addresses |-> None]
    /\ bySerial = [s \in Serials |-> None]
    /\ discovered = {}
    /\ serial = [d \in Devices |-> None]
    /\ hostIp = [d \in Devices |-> None]
    /\ status = [d \in Devices |-> "new"]

-----------------------------------------------------------------------------
\* async_add_device() once the host is resolved; a taken address raises
\* DeviceAlreadyRegistered and changes nothing.
Add(d, a) ==
    /\ status[d] = "new"
    /\ byIp[a] = None
    /\ byIp' = [byIp EXCEPT ![a] = d]
    /\ hostIp' = [hostIp EXCEPT ![d] = a]
    /\ status' = [status EXCEPT ![d] = "registered"]
    /\ UNCHANGED <<bySerial, discovered, serial>>

\* Mutant of Remove: the entry by serial stays.
RemoveByAddress(d) ==
    /\ status[d] = "registered"
    /\ byIp' = [byIp EXCEPT ![hostIp[d]] = None]
    /\ discovered' = discovered \ {serial[d]}
    /\ status' = [status EXCEPT ![d] = "removed"]
    /\ UNCHANGED <<bySerial, serial, hostIp>>

\* async_remove_device(): the entries go by key, whoever they lead to.
Remove(d) ==
    /\ status[d] = "registered"
    /\ byIp' = [byIp EXCEPT ![hostIp[d]] = None]
    /\ bySerial' = [s \in Serials |-> IF s = serial[d] THEN None ELSE bySerial[s]]
    /\ discovered' = discovered \ {serial[d]}
    /\ status' = [status EXCEPT ![d] = "removed"]
    /\ UNCHANGED <<serial, hostIp>>

\* stop(): closes the devices it finds, and forgets everything.
Stop ==
    /\ Listed # {}
    /\ status' = [d \in Devices |-> IF d \in Listed THEN "removed" ELSE status[d]]
    /\ byIp' = [a \in Addresses |-> None]
    /\ bySerial' = [s \in Serials |-> None]
    /\ discovered' = {}
    /\ UNCHANGED <<serial, hostIp>>

-----------------------------------------------------------------------------
\* _route(): serial first; by address only a device that is not bound to
\* another charger.
BySerial(s) == IF s \in Serials THEN bySerial[s] ELSE None

\* Mutant of Unclaimed: the address alone decides.
UnclaimedByAddress(d, s) == TRUE

Unclaimed(d, s) == serial[d] \in {None, s}

\* Mutant of Route: the address comes first, so a device that moves is not found.
RouteByAddress(s, a) ==
    IF byIp[a] # None /\ Unclaimed(byIp[a], s) THEN byIp[a] ELSE None

Route(s, a) ==
    CASE BySerial(s) # None -> BySerial(s)
      [] BySerial(s) = None /\ byIp[a] # None /\ Unclaimed(byIp[a], s) -> byIp[a]
      [] OTHER -> None

\* What the header tells the device: _bind() learns a serial, and a new address.
Learns(d, s) == s # Zero /\ s # serial[d]
Moves(d, a) == a # hostIp[d]

\* Mutant of Reindex: a device that moves leaves its old address behind.
ReindexAddOnly(d, s, a) ==
    /\ bySerial' = [t \in Serials |-> IF Learns(d, s) /\ t = s THEN d ELSE bySerial[t]]
    /\ byIp' = [b \in Addresses |-> IF Moves(d, a) /\ b = a THEN d ELSE byIp[b]]

\* Mutant of Reindex: the old address is deleted whoever has it by now.
ReindexUnchecked(d, s, a) ==
    /\ bySerial' = [t \in Serials |-> IF Learns(d, s) /\ t = s THEN d ELSE bySerial[t]]
    /\ byIp' = [b \in Addresses |->
            CASE Moves(d, a) /\ b = a -> d
              [] Moves(d, a) /\ b # a /\ b = hostIp[d] -> None
              [] OTHER -> byIp[b]]

\* _reindex(): the entries that changed, and only those.
Reindex(d, s, a) ==
    /\ bySerial' = [t \in Serials |->
            CASE Learns(d, s) /\ t = s -> d
              [] Learns(d, s) /\ t # s /\ t = serial[d] -> None
              [] OTHER -> bySerial[t]]
    /\ byIp' = [b \in Addresses |->
            CASE Moves(d, a) /\ b = a -> d
              [] Moves(d, a) /\ b # a /\ b = hostIp[d] /\ byIp[b] = d -> None
              [] OTHER -> byIp[b]]

\* Mutant of Bind: an empty serial in the header is learned like any other.
BindZero(d, s, a) ==
    /\ serial' = [serial EXCEPT ![d] = s]
    /\ hostIp' = [hostIp EXCEPT ![d] = a]
    /\ Reindex(d, s, a)
    /\ UNCHANGED <<discovered, status>>

\* The routed packet: _bind(), then _reindex().
Bind(d, s, a) ==
    /\ serial' = [serial EXCEPT ![d] = IF Learns(d, s) THEN s ELSE @]
    /\ hostIp' = [hostIp EXCEPT ![d] = a]
    /\ Reindex(d, s, a)
    /\ UNCHANGED <<discovered, status>>

\* _discover(): once per serial.
Discover(s) ==
    /\ s # Zero /\ s \notin discovered
    /\ discovered' = discovered \cup {s}
    /\ UNCHANGED <<byIp, bySerial, serial, hostIp, status>>

\* _on_frame()
Frame(s, a) ==
    \/ \E d \in Devices : Route(s, a) = d /\ Bind(d, s, a)
    \/ Route(s, a) = None /\ Discover(s)

Next ==
    \/ \E d \in Devices, a \in Addresses : Add(d, a)
    \/ \E d \in Devices : Remove(d)
    \/ Stop
    \/ \E s \in Serials \cup {Zero}, a \in Addresses : Frame(s, a)

Spec == Init /\ [][Next]_vars

-----------------------------------------------------------------------------
(* Properties.                                                             *)

TypeOK ==
    /\ byIp \in [Addresses -> Devices \cup {None}]
    /\ bySerial \in [Serials -> Devices \cup {None}]
    /\ discovered \subseteq Serials
    /\ serial \in [Devices -> Serials \cup {None}]
    /\ hostIp \in [Devices -> Addresses \cup {None}]
    /\ status \in [Devices -> {"new", "registered", "removed"}]

\* Whatever moves, whatever is removed in between: an index never leads to a device
\* that is gone, nor to one that lives elsewhere or is another charger's.
IndexesAgree ==
    /\ \A a \in Addresses : byIp[a] # None =>
            byIp[a] \in Registered /\ hostIp[byIp[a]] = a
    /\ \A s \in Serials : bySerial[s] # None =>
            bySerial[s] \in Registered /\ serial[bySerial[s]] = s

\* A registered device that knows its charger is found by that charger's serial, so
\* it can lose its address to another device and still receive (listener.py:189).
BoundAreFound ==
    \A d \in Registered : serial[d] # None => bySerial[serial[d]] = d

\* Nobody has an address before it is added, nor a charger.
NewAreBlank ==
    \A d \in Devices :
        /\ status[d] = "new" <=> hostIp[d] = None
        /\ status[d] = "new" => serial[d] = None

RoutingIsSound == IndexesAgree /\ BoundAreFound /\ NewAreBlank

\* Once bound, a device never becomes another charger's, whoever answers at its
\* address (listener.py:194-196).
ChargersAreKept ==
    [][\A d \in Devices : serial[d] # None => serial'[d] = serial[d]]_vars

\* A managed charger is never offered as a discovery (listener.py:211).
ManagedAreNotDiscovered ==
    [][\A s \in discovered' \ discovered : \A d \in Registered : serial[d] # s]_vars

\* A registered device drops out of both indexes only if it has yet to learn its charger
\* and another device came to its address, or came and was removed there: entries are
\* overwritten and popped by key (listener.py:135, 206-208).
UnlistedByNeighbour ==
    [][\A d \in Listed : d \in Registered' \ Listed' =>
          /\ serial[d] = None
          /\ \E e \in Devices \ {d} : hostIp'[e] = hostIp[d]]_vars

\* The registry implements Ownership.
Owners == INSTANCE Ownership WITH members <- Registered, owner <- bySerial
ImplementsOwnership == Owners!Spec
=============================================================================
