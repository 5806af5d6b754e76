--------------------------- MODULE RoutingProofs ---------------------------
(* Proofs about Routing, for every number of devices, chargers and addresses. *)
(* The inductive invariant is TypeOK /\ RoutingIsSound: a routed packet comes   *)
(* either to the one device bound to its serial, or to a device without one.   *)
EXTENDS Routing, TLAPS

Inv == TypeOK /\ RoutingIsSound

USE NoneAssumption, ZeroAssumption

\* Initially no index leads anywhere.
LEMMA InitInv == Init => Inv
BY DEF Init, Inv, TypeOK, RoutingIsSound, IndexesAgree, BoundAreFound, NewAreBlank,
       Registered

\* async_add_device() keeps the registry sound: the address was free.
LEMMA AddInv ==
    ASSUME Inv, NEW d \in Devices, NEW a \in Addresses, Add(d, a)
    PROVE  Inv'
<1> USE DEF Inv, TypeOK, RoutingIsSound, Add
<1>1. TypeOK'  OBVIOUS
<1>2. IndexesAgree'  BY DEF IndexesAgree, Registered
<1>3. BoundAreFound'  BY DEF BoundAreFound, NewAreBlank, Registered
<1>4. NewAreBlank'  BY DEF NewAreBlank
<1> QED BY <1>1, <1>2, <1>3, <1>4

\* async_remove_device() pops by key, yet never takes a bound device's serial from
\* anybody but the device that is removed.
LEMMA RemoveInv ==
    ASSUME Inv, NEW d \in Devices, Remove(d)
    PROVE  Inv'
<1> USE DEF Inv, TypeOK, RoutingIsSound, Remove
<1>1. TypeOK'  OBVIOUS
<1>2. IndexesAgree'  BY DEF IndexesAgree, NewAreBlank, Registered
<1>3. BoundAreFound'  BY DEF BoundAreFound, Registered
<1>4. NewAreBlank'  BY DEF NewAreBlank
<1> QED BY <1>1, <1>2, <1>3, <1>4

\* stop() may leave a device that no index knows unclosed, never a bound one.
LEMMA StopInv ==
    ASSUME Inv, Stop
    PROVE  Inv'
<1> USE DEF Inv, TypeOK, RoutingIsSound, Stop
<1>1. TypeOK'  OBVIOUS
<1>2. IndexesAgree'  BY DEF IndexesAgree
<1>3. BoundAreFound'  BY DEF BoundAreFound, Registered, Listed
<1>4. NewAreBlank'  BY DEF NewAreBlank, IndexesAgree, Registered, Listed
<1> QED BY <1>1, <1>2, <1>3, <1>4

\* What _route() finds: the device bound to the serial, or else an unbound one at
\* the packet's address.
LEMMA RouteFinds ==
    ASSUME Inv, NEW d \in Devices, NEW s \in Serials \cup {Zero}, NEW a \in Addresses,
           Route(s, a) = d
    PROVE  /\ d \in Registered
           /\ \/ s \in Serials /\ bySerial[s] = d /\ serial[d] = s
              \/ serial[d] = None /\ byIp[a] = d /\ hostIp[d] = a
                   /\ (s \in Serials => bySerial[s] = None)
<1> USE DEF Inv, TypeOK, RoutingIsSound
<1>1. CASE BySerial(s) # None
  <2>1. s \in Serials /\ bySerial[s] = d  BY <1>1 DEF Route, BySerial
  <2> QED BY <2>1 DEF IndexesAgree
<1>2. CASE BySerial(s) = None
  <2>1. byIp[a] = d /\ serial[d] \in {None, s}  BY <1>2 DEF Route, Unclaimed
  <2>2. d \in Registered /\ hostIp[d] = a  BY <2>1 DEF IndexesAgree
  <2>3. s \in Serials => bySerial[s] = None  BY <1>2 DEF BySerial
  <2>4. serial[d] = None  BY <2>1, <2>2, <2>3 DEF BoundAreFound
  <2> QED BY <2>1, <2>2, <2>3, <2>4
<1> QED BY <1>1, <1>2

\* A routed packet moves its device, or tells it its serial, and both indexes with it.
LEMMA BindInv ==
    ASSUME Inv, NEW d \in Devices, NEW s \in Serials \cup {Zero}, NEW a \in Addresses,
           Route(s, a) = d, Bind(d, s, a)
    PROVE  Inv'
<1> USE DEF Inv, TypeOK, RoutingIsSound, Bind, Reindex, Learns, Moves
<1>1. /\ d \in Registered
      /\ \/ s \in Serials /\ bySerial[s] = d /\ serial[d] = s
         \/ serial[d] = None /\ byIp[a] = d /\ hostIp[d] = a
              /\ (s \in Serials => bySerial[s] = None)
  BY RouteFinds
<1>2. TypeOK'  OBVIOUS
<1>3. IndexesAgree'  BY <1>1 DEF IndexesAgree, Registered
<1>4. BoundAreFound'  BY <1>1 DEF BoundAreFound, Registered
<1>5. NewAreBlank'  BY <1>1 DEF NewAreBlank, Registered
<1> QED BY <1>2, <1>3, <1>4, <1>5

\* A packet nobody manages is only remembered.
LEMMA DiscoverInv ==
    ASSUME Inv, NEW s \in Serials \cup {Zero}, Discover(s)
    PROVE  Inv'
BY DEF Inv, TypeOK, RoutingIsSound, IndexesAgree, BoundAreFound, NewAreBlank,
       Registered, Discover

\* Every step keeps the invariant.
LEMMA StepInv == Inv /\ [Next]_vars => Inv'
<1> SUFFICES ASSUME Inv, [Next]_vars PROVE Inv'
  OBVIOUS
<1>1. ASSUME NEW d \in Devices, NEW a \in Addresses, Add(d, a) PROVE Inv'
  BY <1>1, AddInv
<1>2. ASSUME NEW d \in Devices, Remove(d) PROVE Inv'
  BY <1>2, RemoveInv
<1>3. CASE Stop
  BY <1>3, StopInv
<1>4. ASSUME NEW s \in Serials \cup {Zero}, NEW a \in Addresses, Frame(s, a) PROVE Inv'
  BY <1>4, BindInv, DiscoverInv DEF Frame
<1>5. CASE UNCHANGED vars
  BY <1>5 DEF vars, indexes, Inv, TypeOK, RoutingIsSound, IndexesAgree, BoundAreFound,
              NewAreBlank, Registered
<1> QED BY <1>1, <1>2, <1>3, <1>4, <1>5 DEF Next

\* The inductive invariant holds of every behaviour.
LEMMA InvHolds == Spec => []Inv
BY InitInv, StepInv, PTL DEF Spec

\* Types, whatever packets arrive: in particular no device ever has a zero serial
\* (device.py:235).
THEOREM RoutingTypeCorrect == Spec => []TypeOK
<1>1. Inv => TypeOK  BY DEF Inv
<1> QED BY <1>1, InvHolds, PTL

\* Both indexes always lead to registered devices that agree with them, and a bound
\* device is always found by its charger's serial.
THEOREM RoutingSafety == Spec => []RoutingIsSound
<1>1. Inv => RoutingIsSound  BY DEF Inv
<1> QED BY <1>1, InvHolds, PTL

-----------------------------------------------------------------------------
\* A bound device ignores the serial of any packet that is routed to it.
LEMMA StepKeepsChargers ==
    ASSUME Inv, [Next]_vars, NEW d \in Devices, serial[d] # None
    PROVE  serial'[d] = serial[d]
<1> USE DEF Inv, TypeOK
<1>1. ASSUME NEW e \in Devices, NEW a \in Addresses, Add(e, a) PROVE serial' = serial
  BY <1>1 DEF Add
<1>2. ASSUME NEW e \in Devices, Remove(e) PROVE serial' = serial
  BY <1>2 DEF Remove
<1>3. CASE Stop
  BY <1>3 DEF Stop
<1>4. ASSUME NEW s \in Serials \cup {Zero}, NEW a \in Addresses, Frame(s, a)
      PROVE serial'[d] = serial[d]
  <2>1. ASSUME NEW e \in Devices, Route(s, a) = e, Bind(e, s, a)
        PROVE serial'[d] = serial[d]
    <3>1. serial[e] = None \/ serial[e] = s  BY <2>1, RouteFinds
    <3> QED BY <2>1, <3>1 DEF Bind, Learns
  <2>2. CASE Discover(s)  BY <2>2 DEF Discover
  <2> QED BY <1>4, <2>1, <2>2 DEF Frame
<1>5. CASE UNCHANGED vars  BY <1>5 DEF vars
<1> QED BY <1>1, <1>2, <1>3, <1>4, <1>5 DEF Next

\* A device never becomes another charger's, whoever answers at its address.
THEOREM ChargersKept == Spec => ChargersAreKept
<1>1. Inv /\ [Next]_vars =>
        [\A d \in Devices : serial[d] # None => serial'[d] = serial[d]]_vars
  BY StepKeepsChargers
<1> QED BY <1>1, InvHolds, PTL DEF Spec, ChargersAreKept

-----------------------------------------------------------------------------
\* Only an unmanaged serial is discovered.
LEMMA StepDiscoversStrangers ==
    ASSUME Inv, [Next]_vars, NEW s \in discovered' \ discovered, NEW d \in Registered
    PROVE  serial[d] # s
<1> USE DEF Inv, TypeOK
<1>1. ASSUME NEW e \in Devices, NEW a \in Addresses, Add(e, a) PROVE FALSE
  BY <1>1 DEF Add
<1>2. ASSUME NEW e \in Devices, Remove(e) PROVE FALSE
  BY <1>2 DEF Remove
<1>3. CASE Stop
  BY <1>3 DEF Stop
<1>4. ASSUME NEW t \in Serials \cup {Zero}, NEW a \in Addresses, Frame(t, a)
      PROVE serial[d] # s
  <2>1. Route(t, a) = None /\ Discover(t)  BY <1>4 DEF Frame, Bind
  <2>2. s = t /\ s \in Serials  BY <2>1 DEF Discover
  <2>3. bySerial[s] = None  BY <2>1, <2>2 DEF Route, BySerial
  <2> QED BY <2>2, <2>3 DEF RoutingIsSound, BoundAreFound, Registered
<1>5. CASE UNCHANGED vars  BY <1>5 DEF vars, indexes
<1> QED BY <1>1, <1>2, <1>3, <1>4, <1>5 DEF Next

\* A managed charger is never offered as a discovery.
THEOREM ManagedNotDiscovered == Spec => ManagedAreNotDiscovered
<1>1. Inv /\ [Next]_vars =>
        [\A s \in discovered' \ discovered : \A d \in Registered : serial[d] # s]_vars
  BY StepDiscoversStrangers
<1> QED BY <1>1, InvHolds, PTL DEF Spec, ManagedAreNotDiscovered

-----------------------------------------------------------------------------
\* Who drops out had no charger: one that has is listed by its serial.
LEMMA UnlistedAreUnbound ==
    ASSUME Inv', NEW d \in Devices, d \in Registered' \ Listed'
    PROVE  serial'[d] = None
BY DEF Inv, TypeOK, RoutingIsSound, BoundAreFound, Registered, Listed

\* What byIp leads to lives there, and a device without a serial is listed there only.
LEMMA UnboundAreAtHome ==
    ASSUME Inv, NEW d \in Listed, serial[d] = None
    PROVE  hostIp[d] \in Addresses /\ byIp[hostIp[d]] = d
BY DEF Inv, TypeOK, RoutingIsSound, IndexesAgree, Listed

\* One step, and a device that it drops from the listing.
LEMMA StepUnlists ==
    ASSUME Inv, Inv', [Next]_vars, NEW d \in Listed, d \in Registered' \ Listed'
    PROVE  serial[d] = None /\ \E e \in Devices \ {d} : hostIp'[e] = hostIp[d]
<1> USE DEF Inv, TypeOK
<1>1. d \in Devices /\ serial'[d] = None
  BY UnlistedAreUnbound DEF Listed
<1>2. serial[d] = None
  BY <1>1, StepKeepsChargers
<1>3. hostIp[d] \in Addresses /\ byIp[hostIp[d]] = d
  BY <1>2, UnboundAreAtHome
<1>4. byIp'[hostIp[d]] # d
  BY <1>1, <1>3 DEF Listed
<1>5. ASSUME NEW e \in Devices, NEW a \in Addresses, Add(e, a) PROVE FALSE
  BY <1>1, <1>3, <1>4, <1>5 DEF Add
<1>6. ASSUME NEW e \in Devices, Remove(e)
      PROVE  \E n \in Devices \ {d} : hostIp'[n] = hostIp[d]
  <2>1. e # d
    BY <1>6 DEF Remove, Registered
  <2>2. hostIp[e] = hostIp[d] /\ hostIp' = hostIp
    BY <1>3, <1>4, <1>6 DEF Remove
  <2> QED BY <2>1, <2>2
<1>7. ASSUME Stop PROVE FALSE
  BY <1>7 DEF Stop, Registered
<1>8. ASSUME NEW s \in Serials \cup {Zero}, NEW a \in Addresses, Frame(s, a)
      PROVE  \E n \in Devices \ {d} : hostIp'[n] = hostIp[d]
  <2>1. PICK e \in Devices : Route(s, a) = e /\ Bind(e, s, a)
    BY <1>3, <1>4, <1>8 DEF Frame, Discover
  <2>2. CASE e = d
    <3>1. Moves(d, a) /\ a # hostIp[d]
      BY <1>3, <1>4, <2>1, <2>2 DEF Bind, Reindex, Moves
    <3>2. byIp'[a] = d
      BY <3>1, <2>1, <2>2 DEF Bind, Reindex
    <3> QED BY <1>1, <3>2 DEF Listed
  <2>3. CASE e # d
    <3>1. a = hostIp[d]
      BY <1>3, <1>4, <2>1, <2>3 DEF Bind, Reindex, Moves
    <3>2. hostIp'[e] = a
      BY <2>1 DEF Bind
    <3> QED BY <2>3, <3>1, <3>2
  <2> QED BY <2>2, <2>3
<1>9. CASE UNCHANGED vars
  BY <1>3, <1>4, <1>9 DEF vars, indexes
<1> QED BY <1>2, <1>5, <1>6, <1>7, <1>8, <1>9 DEF Next

\* A registered device drops out of both indexes only if it has yet to learn its charger
\* and another one came to its address, for any number of devices.
THEOREM UnlistedOnlyByNeighbour == Spec => UnlistedByNeighbour
<1>1. Inv /\ Inv' /\ [Next]_vars =>
        [\A d \in Listed : d \in Registered' \ Listed' =>
            /\ serial[d] = None
            /\ \E e \in Devices \ {d} : hostIp'[e] = hostIp[d]]_vars
  BY StepUnlists
<1> QED BY <1>1, InvHolds, PTL DEF Spec, UnlistedByNeighbour

-----------------------------------------------------------------------------
\* Ownership's view of the initial state.
LEMMA OwnersInit == Init => Owners!Init
BY DEF Init, Owners!Init, Registered

\* Each step is a step of Ownership, or leaves what it shows alone.
LEMMA OwnersStep ==
    ASSUME Inv, [Next]_vars
    PROVE  [Owners!Next]_(Owners!vars)
<1> USE DEF Inv, TypeOK, RoutingIsSound, Registered
<1>1. ASSUME NEW d \in Devices, NEW a \in Addresses, Add(d, a) PROVE Owners!Join(d)
  BY <1>1 DEF Add, Owners!Join
<1>2. ASSUME NEW d \in Devices, Remove(d) PROVE Owners!Leave({d})
  BY <1>2 DEF Remove, Owners!Leave, IndexesAgree, BoundAreFound
<1>3. ASSUME Stop PROVE Owners!Leave(Listed)
  <2>1. Registered' = Registered \ Listed  BY <1>3 DEF Stop
  <2>2. bySerial' = [s \in Serials |-> IF bySerial[s] \in Listed THEN None ELSE bySerial[s]]
    BY <1>3 DEF Stop, Listed
  <2> QED BY <2>1, <2>2 DEF Owners!Leave
<1>4. Listed \in SUBSET Registered
  BY DEF Listed, IndexesAgree
<1>5. ASSUME NEW s \in Serials \cup {Zero}, NEW a \in Addresses, Frame(s, a)
      PROVE [Owners!Next]_(Owners!vars)
  <2>1. ASSUME NEW d \in Devices, Route(s, a) = d, Bind(d, s, a)
        PROVE [Owners!Next]_(Owners!vars)
    <3> USE <2>1 DEF Bind, Reindex
    <3>1. d \in Registered /\ Registered' = Registered
      BY RouteFinds
    <3>2. CASE Learns(d, s)
      <4>1. s \in Serials /\ bySerial[s] = None /\ serial[d] = None
        BY <3>2, RouteFinds DEF Learns
      <4>2. \A t \in Serials : bySerial[t] # d
        BY <4>1 DEF IndexesAgree
      <4>3. bySerial' = [bySerial EXCEPT ![s] = d]
        <5>1. \A t \in Serials : t # serial[d]  BY <4>1
        <5>2. bySerial' = [t \in Serials |-> IF t = s THEN d ELSE bySerial[t]]
          BY <3>2, <5>1
        <5> QED BY <5>2, <4>1
      <4>4. Owners!Bind(s, d)
        BY <3>1, <4>1, <4>2, <4>3 DEF Owners!Bind
      <4> QED BY <4>1, <4>4 DEF Owners!Next
    <3>3. CASE ~Learns(d, s)
      <4>1. bySerial' = [t \in Serials |-> bySerial[t]]  BY <3>3
      <4>2. bySerial' = bySerial  BY <4>1
      <4> QED BY <3>1, <4>2 DEF Owners!vars
    <3> QED BY <3>2, <3>3
  <2>2. CASE Discover(s)  BY <2>2 DEF Discover, Owners!vars
  <2> QED BY <1>5, <2>1, <2>2 DEF Frame
<1>6. CASE UNCHANGED vars  BY <1>6 DEF vars, indexes, Owners!vars
<1>7. ASSUME NEW d \in Devices, Remove(d) PROVE {d} \in SUBSET Registered
  BY <1>7 DEF Remove
<1>8. [Next]_vars => \/ \E d \in Devices, a \in Addresses : Add(d, a)
                     \/ \E d \in Devices : Remove(d)
                     \/ Stop
                     \/ \E s \in Serials \cup {Zero}, a \in Addresses : Frame(s, a)
                     \/ UNCHANGED vars
  BY DEF Next
<1>9. ASSUME NEW D \in SUBSET Registered, Owners!Leave(D) PROVE Owners!Next
  BY <1>9 DEF Owners!Next
<1> HIDE DEF Inv, TypeOK, RoutingIsSound, Registered
<1> QED BY <1>1, <1>2, <1>3, <1>4, <1>5, <1>6, <1>7, <1>8, <1>9 DEF Owners!Next

\* The registry implements Ownership: however chargers move and devices come and go,
\* a charger has one owner at most, and keeps it until the device is removed.
THEOREM RoutingRefines == Spec => ImplementsOwnership
BY OwnersInit, OwnersStep, InvHolds, PTL DEF Spec, ImplementsOwnership, Owners!Spec
=============================================================================
