--------------------------- MODULE ChargingProofs ---------------------------
(* Proofs about Charging, for any sessions, any model and any number of       *)
(* datagrams in flight.                                                       *)
EXTENDS Charging, TLAPS

\* A command is not an acknowledgement.
LEMMA CommandsAreNotAcks == \A m \in Commands : m.cmd # "ACK"
BY DEF Commands, Start, Stop, SetAmps

LEMMA AcksAreAcks ==
    /\ \A n \in Sessions, e \in RecordEvents :
          Ack(n, e) \in Acks /\ Ack(n, e).cmd = "ACK" /\ Ack(n, e).session = n
    /\ \A m \in Acks : m.cmd = "ACK" /\ m.session \in Sessions /\ m.event \in RecordEvents
BY DEF Acks, Ack

LEMMA RecordsAreRecords ==
    \A m \in Records : m.session \in Sessions /\ m.event \in RecordEvents
BY DEF Records, Record

LEMMA StatusesShowStates ==
    /\ \A s \in CurrentStates : Status(s) \in Statuses
    /\ \A m \in Statuses : m.state \in CurrentStates
BY DEF Statuses, Status

LEMMA InitTypes == Init => TypeOK
BY ChargingAssumption DEF Init, TypeOK, CurrentStates, InSession, RecordEvents

\* What the charger does by itself and on request leaves it in one of its states.
LEMMA EnterTypes ==
    ASSUME TypeOK, NEW s \in CurrentStates,
           NEW n \in (IF s \in InSession THEN Sessions ELSE {NoSession}), Enter(s, n)
    PROVE  /\ state' \in CurrentStates
           /\ session' \in IF state' \in InSession THEN Sessions ELSE {NoSession}
           /\ record' \in [Sessions -> RecordEvents \cup {"none", "acknowledged", "elsewhere"}]
           /\ toDevice' \subseteq Statuses \cup Records
           /\ short' \subseteq Sessions
BY DEF Enter, TypeOK

LEMMA EndSessionTypes ==
    ASSUME TypeOK, NEW s \in CurrentStates \ InSession, state \in InSession, EndSession(s)
    PROVE  /\ state' \in CurrentStates
           /\ session' \in IF state' \in InSession THEN Sessions ELSE {NoSession}
           /\ record' \in [Sessions -> RecordEvents \cup {"none", "acknowledged", "elsewhere"}]
           /\ toDevice' \subseteq Statuses \cup Records
           /\ short' \subseteq Sessions
<1>1. session \in Sessions
  BY DEF TypeOK
<1>2. record' = [record EXCEPT ![session] = "CURRENT"] /\ "CURRENT" \in RecordEvents
  BY DEF EndSession, RecordEvents
<1>3. record' \in [Sessions -> RecordEvents \cup {"none", "acknowledged", "elsewhere"}]
  BY <1>1, <1>2 DEF TypeOK
<1>4. Record(session, "CURRENT") \in Records
  BY <1>1 DEF Records, RecordEvents
<1>5. toDevice' \subseteq Statuses \cup Records
  BY <1>4 DEF EndSession, TypeOK
<1>6. state' = s /\ session' = NoSession /\ short' \subseteq Sessions
  BY DEF EndSession, TypeOK
<1> QED BY <1>3, <1>5, <1>6

\* Everything a consumer's call changes is what is under way to the charger.
LEMMA SendTypes ==
    ASSUME TypeOK, NEW ms \in SUBSET Commands, toCharger' = toCharger \cup ms,
           UNCHANGED <<deviceVars, chargerVars, toDevice>>
    PROVE  TypeOK'
BY DEF TypeOK, deviceVars, chargerVars

LEMMA CallsSendCommands ==
    /\ \A when \in {"now", "later"}, refused \in BOOLEAN :
          StartCharging(when, refused) => \E ms \in SUBSET Commands : toCharger' = toCharger \cup ms
    /\ StopCharging => toCharger' = toCharger \cup {Stop}
    /\ SetOutputAmperage => toCharger' = toCharger \cup {SetAmps}
    /\ {Stop} \in SUBSET Commands /\ {SetAmps} \in SUBSET Commands
<1>1. ASSUME NEW when \in {"now", "later"}, NEW refused \in BOOLEAN, StartCharging(when, refused)
      PROVE  \E ms \in SUBSET Commands : toCharger' = toCharger \cup ms
  <2> DEFINE stop  == IF StopsFirst(when) THEN {Stop} ELSE {}
             start == IF refused THEN {} ELSE {Start(when = "later")}
  <2>1. stop \cup start \in SUBSET Commands
    BY DEF Commands
  <2>2. toCharger' = toCharger \cup (stop \cup start)
    BY <1>1 DEF StartCharging
  <2> QED BY <2>1, <2>2
<1> QED BY <1>1 DEF StopCharging, SetOutputAmperage, Commands

-----------------------------------------------------------------------------
(* Types.                                                                  *)

LEMMA HandleTypes == ASSUME TypeOK, Handle PROVE TypeOK'
<1>1. ASSUME NEW m \in toDevice, HandleStatus(m) PROVE TypeOK'
  BY <1>1, StatusesShowStates DEF HandleStatus, TypeOK, chargerVars
<1>2. ASSUME NEW m \in toDevice, HandleRecord(m) PROVE TypeOK'
  <2>1. m.session \in Sessions /\ Ack(m.session, m.event) \in Acks
    BY <1>2, RecordsAreRecords, AcksAreAcks DEF HandleRecord
  <2> QED BY <1>2, <2>1 DEF HandleRecord, TypeOK, chargerVars
<1>3. ASSUME NEW m \in toDevice, SkipRecord(m) PROVE TypeOK'
  BY <1>3 DEF SkipRecord, TypeOK, deviceVars, chargerVars
<1> QED BY <1>1, <1>2, <1>3 DEF Handle

LEMMA StatesAreStates ==
    /\ \A s \in {"READY_TO_CHARGE", "COMPLETED"} : s \in CurrentStates \ InSession
    /\ \A s \in {"CHARGING", "CHARGING_RESERVATION"} : s \in CurrentStates /\ s \in InSession
BY DEF CurrentStates, InSession

LEMMA GetStartTypes ==
    ASSUME TypeOK, NEW m \in toCharger, GetStart(m)
    PROVE  TypeOK'
<1>1. toCharger' \subseteq toCharger /\ UNCHANGED deviceVars
  BY DEF GetStart
<1>2. CASE UNCHANGED <<chargerVars, toDevice>>
  BY <1>1, <1>2 DEF TypeOK, deviceVars, chargerVars
<1>3. ASSUME NEW n \in Sessions,
             Enter(IF m.later THEN "CHARGING_RESERVATION" ELSE "CHARGING", n)
      PROVE  TypeOK'
  <2>1. CASE Enter("CHARGING_RESERVATION", n)
    BY <1>1, <2>1, StatesAreStates, EnterTypes DEF TypeOK, deviceVars
  <2>2. CASE Enter("CHARGING", n)
    BY <1>1, <2>2, StatesAreStates, EnterTypes DEF TypeOK, deviceVars
  <2> QED BY <1>3, <2>1, <2>2
<1> QED BY <1>2, <1>3 DEF GetStart

LEMMA GetStopTypes == ASSUME TypeOK, GetStop PROVE TypeOK'
<1>1. toCharger' \subseteq toCharger /\ UNCHANGED deviceVars
  BY DEF GetStop
<1>2. CASE state = "CHARGING" /\ EndSession("COMPLETED")
  BY <1>1, <1>2, StatesAreStates, EndSessionTypes DEF TypeOK, deviceVars
<1>3. CASE state = "CHARGING_RESERVATION" /\ EndSession("READY_TO_CHARGE")
  BY <1>1, <1>3, StatesAreStates, EndSessionTypes DEF TypeOK, deviceVars
<1>4. CASE Enter("READY_TO_CHARGE", NoSession)
  BY <1>1, <1>4, StatesAreStates, EnterTypes DEF TypeOK, deviceVars
<1> QED BY <1>2, <1>3, <1>4 DEF GetStop

LEMMA GetAckTypes ==
    ASSUME TypeOK, NEW m \in toCharger, GetAck(m)
    PROVE  TypeOK'
<1>1. m.session \in Sessions
  BY AcksAreAcks DEF GetAck
<1>2. record' \in [Sessions -> RecordEvents \cup {"none", "acknowledged", "elsewhere"}]
  BY <1>1 DEF GetAck, TypeOK
<1> QED BY <1>2 DEF GetAck, TypeOK, deviceVars

LEMMA ReceiveTypes == ASSUME TypeOK, Receive PROVE TypeOK'
<1>1. CASE GetAmps
  BY <1>1 DEF GetAmps, TypeOK, deviceVars, chargerVars
<1> QED BY <1>1, GetStartTypes, GetStopTypes, GetAckTypes DEF Receive

LEMMA ActsAloneTypes == ASSUME TypeOK, ActsAlone PROVE TypeOK'
<1>1. UNCHANGED <<deviceVars, toCharger>>
  BY DEF ActsAlone
<1>2. ASSUME NEW n \in Sessions, Enter("CHARGING", n) PROVE TypeOK'
  BY <1>1, <1>2, StatesAreStates, EnterTypes DEF TypeOK, deviceVars
<1>3. ASSUME state = "CHARGING_RESERVATION" PROVE session \in Sessions
  BY <1>3, StatesAreStates DEF TypeOK
<1>4. CASE Enter("READY_TO_CHARGE", NoSession)
  BY <1>1, <1>4, StatesAreStates, EnterTypes DEF TypeOK, deviceVars
<1>5. CASE state \in InSession /\ EndSession("COMPLETED")
  BY <1>1, <1>5, StatesAreStates, EndSessionTypes DEF TypeOK, deviceVars
<1>6. CASE state \in InSession /\ EndSession("READY_TO_CHARGE")
  BY <1>1, <1>6, StatesAreStates, EndSessionTypes DEF TypeOK, deviceVars
<1> QED BY <1>2, <1>3, <1>4, <1>5, <1>6, StatesAreStates DEF ActsAlone

LEMMA NetworkTypes ==
    ASSUME TypeOK, \/ Report
                   \/ \E n \in Sessions : Replay(n) \/ OtherAcknowledges(n)
                   \/ \E m \in toCharger \cup toDevice : Lose(m)
    PROVE  TypeOK'
<1>1. CASE Report
  BY <1>1, StatusesShowStates DEF Report, TypeOK, deviceVars, chargerVars
<1>2. ASSUME NEW n \in Sessions, Replay(n) PROVE TypeOK'
  <2>1. Record(n, "UPLOAD") \in Records /\ "UPLOAD" \in RecordEvents
    BY DEF Records, RecordEvents
  <2> QED BY <1>2, <2>1 DEF Replay, TypeOK, deviceVars
<1>3. ASSUME NEW m \in toCharger \cup toDevice, Lose(m) PROVE TypeOK'
  BY <1>3 DEF Lose, TypeOK, deviceVars, chargerVars
<1>4. ASSUME NEW n \in Sessions, OtherAcknowledges(n) PROVE TypeOK'
  BY <1>4 DEF OtherAcknowledges, TypeOK, deviceVars
<1> QED BY <1>1, <1>2, <1>3, <1>4

LEMMA NextTypes == TypeOK /\ [Next]_vars => TypeOK'
<1> SUFFICES ASSUME TypeOK, [Next]_vars PROVE TypeOK'
  OBVIOUS
<1>1. ASSUME NEW when \in {"now", "later"}, NEW refused \in BOOLEAN, StartCharging(when, refused)
      PROVE  TypeOK'
  BY <1>1, CallsSendCommands, SendTypes DEF StartCharging
<1>2. CASE StopCharging
  BY <1>2, CallsSendCommands, SendTypes DEF StopCharging
<1>3. CASE SetOutputAmperage
  BY <1>3, CallsSendCommands, SendTypes DEF SetOutputAmperage
<1>4. CASE UNCHANGED vars
  BY <1>4 DEF vars, TypeOK
<1> QED BY <1>1, <1>2, <1>3, <1>4, HandleTypes, ReceiveTypes, ActsAloneTypes, NetworkTypes DEF Next

\* Types; and a charger is in a session exactly while it charges or waits to.
THEOREM ChargingTypeCorrect == Spec => []TypeOK
BY InitTypes, NextTypes, PTL DEF Spec

-----------------------------------------------------------------------------
(* Records.  An acknowledgement under way was preceded by its record, and  *)
(* what was offered stays so.                                          *)

\* A record that we, not another client, took out of the replay was offered to the consumer,
\* whichever of its copies and acknowledgements were lost, late or repeated
\* (device.py:362-372).
RecordsAreKept == \A n \in Sessions : record[n] = "acknowledged" => n \in offered

AcksFollow == \A m \in toCharger : m.cmd = "ACK" => m.session \in offered

Kept == RecordsAreKept /\ AcksFollow

LEMMA CallsKeep ==
    ASSUME Kept, NEW ms \in SUBSET Commands, toCharger' = toCharger \cup ms,
           UNCHANGED <<deviceVars, chargerVars, toDevice>>
    PROVE  Kept'
BY CommandsAreNotAcks DEF Kept, AcksFollow, RecordsAreKept, deviceVars, chargerVars

\* Nothing but an acknowledgement makes a record acknowledged.
LEMMA ChargerKeeps ==
    ASSUME TypeOK, Kept, UNCHANGED deviceVars, toCharger' \subseteq toCharger,
           \A n \in Sessions : record'[n] = "acknowledged" =>
                (record[n] = "acknowledged" \/ n \in offered)
    PROVE  Kept'
BY DEF Kept, AcksFollow, RecordsAreKept, deviceVars

LEMMA EnterKeeps ==
    ASSUME NEW s, NEW n, Enter(s, n)
    PROVE  record' = record
BY DEF Enter

LEMMA EndSessionKeeps ==
    ASSUME TypeOK, NEW s, EndSession(s)
    PROVE  \A n \in Sessions : record'[n] = "acknowledged" => record[n] = "acknowledged"
BY DEF EndSession, TypeOK

LEMMA HandleKeeps == ASSUME TypeOK, Kept, Handle PROVE Kept'
<1>1. ASSUME NEW m \in toDevice, HandleStatus(m) PROVE Kept'
  BY <1>1 DEF HandleStatus, Kept, AcksFollow, RecordsAreKept, chargerVars
<1>2. ASSUME NEW m \in toDevice, HandleRecord(m) PROVE Kept'
  <2>1. m.session \in Sessions /\ Ack(m.session, m.event).session = m.session
    BY <1>2, RecordsAreRecords, AcksAreAcks DEF HandleRecord
  <2>2. AcksFollow'
    BY <1>2, <2>1 DEF HandleRecord, Kept, AcksFollow
  <2>3. RecordsAreKept'
    BY <1>2 DEF HandleRecord, Kept, RecordsAreKept, chargerVars
  <2> QED BY <2>2, <2>3 DEF Kept
<1>3. ASSUME NEW m \in toDevice, SkipRecord(m) PROVE Kept'
  BY <1>3 DEF SkipRecord, Kept, AcksFollow, RecordsAreKept, deviceVars, chargerVars
<1> QED BY <1>1, <1>2, <1>3 DEF Handle

LEMMA ReceiveKeeps == ASSUME TypeOK, Kept, Receive PROVE Kept'
<1>1. UNCHANGED deviceVars /\ toCharger' \subseteq toCharger
  BY DEF Receive, GetStart, GetStop, GetAmps, GetAck
<1>2. ASSUME NEW m \in toCharger, GetAck(m)
      PROVE  \A n \in Sessions : record'[n] = "acknowledged" =>
                  (record[n] = "acknowledged" \/ n \in offered)
  <2>1. m.session \in Sessions /\ m.session \in offered
    BY <1>2, AcksAreAcks DEF GetAck, Kept, AcksFollow
  <2> QED BY <1>2, <2>1 DEF GetAck, TypeOK
<1>3. ASSUME NEW m \in toCharger, GetStart(m) PROVE record' = record
  BY <1>3, EnterKeeps DEF GetStart, chargerVars
<1>4. ASSUME GetStop
      PROVE  \A n \in Sessions : record'[n] = "acknowledged" => record[n] = "acknowledged"
  BY <1>4, EnterKeeps, EndSessionKeeps DEF GetStop
<1>5. ASSUME GetAmps PROVE record' = record
  BY <1>5 DEF GetAmps, chargerVars
<1> QED BY <1>1, <1>2, <1>3, <1>4, <1>5, ChargerKeeps DEF Receive

LEMMA OthersKeep ==
    ASSUME TypeOK, Kept, \/ ActsAlone
                         \/ Report
                         \/ \E n \in Sessions : Replay(n) \/ OtherAcknowledges(n)
                         \/ \E m \in toCharger \cup toDevice : Lose(m)
    PROVE  Kept'
<1>1. UNCHANGED deviceVars /\ toCharger' \subseteq toCharger
  BY DEF ActsAlone, Report, Replay, OtherAcknowledges, Lose
<1>2. ASSUME ActsAlone
      PROVE  \A n \in Sessions : record'[n] = "acknowledged" => record[n] = "acknowledged"
  BY <1>2, EnterKeeps, EndSessionKeeps DEF ActsAlone
<1>3. ASSUME NEW k \in Sessions, Replay(k)
      PROVE  \A n \in Sessions : record'[n] = "acknowledged" => record[n] = "acknowledged"
  BY <1>3 DEF Replay, TypeOK
<1>4. ASSUME Report \/ \E m \in toCharger \cup toDevice : Lose(m) PROVE record' = record
  BY <1>4 DEF Report, Lose, chargerVars
<1>5. ASSUME NEW k \in Sessions, OtherAcknowledges(k)
      PROVE  \A n \in Sessions : record'[n] = "acknowledged" => record[n] = "acknowledged"
  BY <1>5 DEF OtherAcknowledges, TypeOK
<1> QED BY <1>1, <1>2, <1>3, <1>4, <1>5, ChargerKeeps

LEMMA KeptAlways == Spec => []Kept
<1>1. Init => Kept
  BY DEF Init, Kept, AcksFollow, RecordsAreKept
<1>2. ASSUME TypeOK, Kept, [Next]_vars PROVE Kept'
  <2>1. ASSUME NEW when \in {"now", "later"}, NEW refused \in BOOLEAN, StartCharging(when, refused)
        PROVE  Kept'
    BY <1>2, <2>1, CallsSendCommands, CallsKeep DEF StartCharging
  <2>2. CASE StopCharging
    BY <1>2, <2>2, CallsSendCommands, CallsKeep DEF StopCharging
  <2>3. CASE SetOutputAmperage
    BY <1>2, <2>3, CallsSendCommands, CallsKeep DEF SetOutputAmperage
  <2>4. CASE UNCHANGED vars
    BY <1>2, <2>4 DEF vars, Kept, AcksFollow, RecordsAreKept
  <2> QED BY <1>2, <2>1, <2>2, <2>3, <2>4, HandleKeeps, ReceiveKeeps, OthersKeep DEF Next
<1> QED BY <1>1, <1>2, ChargingTypeCorrect, PTL DEF Spec

\* A record that we took out of the replay was offered to the consumer.
THEOREM RecordsKept == Spec => []RecordsAreKept
<1>1. Kept => RecordsAreKept
  BY DEF Kept
<1> QED BY <1>1, KeptAlways, PTL
-----------------------------------------------------------------------------
(* Delivery.  A session that goes on has no record, and a record under way *)
(* is of a session that is over.                                           *)

RecordsFollow ==
    /\ session \in Sessions => record[session] = "none"
    /\ \A m \in toDevice \cap Records : record[m.session] # "none"

Inv == TypeOK /\ Kept /\ RecordsFollow

Stages == [n \in Sessions |-> Stage(record[n])]

LEMMA StageMeans ==
    /\ \A r \in RecordEvents : Stage(r) = "kept"
    /\ Stage("none") = "none" /\ Stage("acknowledged") = "done"
    /\ Stage("elsewhere") = "elsewhere"
BY DEF Stage, RecordEvents

LEMMA StatusesAreNotRecords == \A m \in Statuses : m.cmd # "RECORD" /\ m \notin Records
BY DEF Statuses, Records, Status, Record

LEMMA RecordsName == \A n \in Sessions, e \in RecordEvents : Record(n, e).session = n
BY DEF Record

\* Steps that end no session, and send no record but of one that is over.
LEMMA FollowElsewhere ==
    ASSUME RecordsFollow, record' = record,
           session' = session \/ session' \notin Sessions \/ record[session'] = "none",
           toDevice' \cap Records \subseteq toDevice
    PROVE  RecordsFollow'
BY DEF RecordsFollow

\* A step of the device, or of the network, leaves the charger as it is.
LEMMA FollowOutside ==
    ASSUME RecordsFollow, UNCHANGED chargerVars, toDevice' \cap Records \subseteq toDevice
    PROVE  RecordsFollow'
BY FollowElsewhere DEF chargerVars

LEMMA FollowEnter ==
    ASSUME TypeOK, RecordsFollow, NEW s, NEW n, Enter(s, n),
           n = session \/ n = NoSession \/ Fresh(n)
    PROVE  RecordsFollow'
<1>1. record' = record /\ toDevice' = toDevice /\ session' = n
  BY DEF Enter
<1>2. session' = session \/ session' \notin Sessions \/ record[session'] = "none"
  BY <1>1, ChargingAssumption DEF Fresh
<1> QED BY <1>1, <1>2, FollowElsewhere

LEMMA FollowEndSession ==
    ASSUME TypeOK, RecordsFollow, state \in InSession, NEW s, EndSession(s),
           UNCHANGED deviceVars
    PROVE  RecordsFollow' /\ Delivery!Next
<1>1. session \in Sessions /\ record[session] = "none"
  BY DEF TypeOK, RecordsFollow
<1>2. /\ session' = NoSession /\ record' = [record EXCEPT ![session] = "CURRENT"]
      /\ toDevice' = toDevice \cup {Record(session, "CURRENT")}
  BY DEF EndSession
<1>3. \A n \in Sessions : record'[n] = IF n = session THEN "CURRENT" ELSE record[n]
  BY <1>1, <1>2 DEF TypeOK
<1>4. RecordsFollow'
  <2>1. "CURRENT" \in RecordEvents
    BY DEF RecordEvents
  <2>2. ASSUME NEW m \in toDevice' \cap Records PROVE record'[m.session] # "none"
    <3>1. m.session \in Sessions
      BY RecordsAreRecords
    <3>2. m \in toDevice \/ m.session = session
      BY <1>1, <1>2, <2>1, RecordsName
    <3> QED BY <1>3, <3>1, <3>2 DEF RecordsFollow
  <2> QED BY <1>2, <2>2, ChargingAssumption DEF RecordsFollow
<1>5. Stages[session] = "none" /\ Stages' = [Stages EXCEPT ![session] = "kept"]
  BY <1>1, <1>3, StageMeans DEF Stages, RecordEvents
<1> QED BY <1>1, <1>4, <1>5 DEF Delivery!Next, Delivery!Finish, Stages, deviceVars

LEMMA HandleDelivers ==
    ASSUME Inv, Handle
    PROVE  RecordsFollow' /\ (Delivery!Next \/ UNCHANGED Delivery!vars)
<1>1. UNCHANGED chargerVars /\ toDevice' \subseteq toDevice
  BY DEF Handle, HandleStatus, HandleRecord, SkipRecord
<1>2. RecordsFollow'
  BY <1>1, FollowOutside DEF Inv
<1>3. Stages' = Stages
  BY <1>1 DEF Stages, chargerVars
<1>4. ASSUME NEW m \in toDevice, HandleStatus(m) PROVE UNCHANGED Delivery!vars
  BY <1>3, <1>4 DEF HandleStatus, Delivery!vars, Stages
<1>5. ASSUME NEW m \in toDevice, HandleRecord(m) PROVE Delivery!Next
  <2>1. m \in toDevice \cap Records /\ offered' = offered \cup {m.session}
    BY <1>5 DEF HandleRecord
  <2>2. m.session \in Sessions /\ record[m.session] # "none"
    BY <2>1, RecordsAreRecords DEF Inv, RecordsFollow
  <2>3. record[m.session] \in RecordEvents \cup {"acknowledged", "elsewhere"}
    BY <2>2 DEF Inv, TypeOK
  <2>4. Stages[m.session] # "none"
    BY <2>2, <2>3, StageMeans DEF Stages
  <2> QED BY <1>3, <2>1, <2>2, <2>4 DEF Delivery!Next, Delivery!Offer, Stages
<1>6. ASSUME NEW m \in toDevice, SkipRecord(m) PROVE UNCHANGED Delivery!vars
  BY <1>3, <1>6 DEF SkipRecord, Delivery!vars, Stages, deviceVars
<1> QED BY <1>2, <1>4, <1>5, <1>6 DEF Handle

LEMMA GetAckDelivers ==
    ASSUME Inv, NEW m \in toCharger, GetAck(m)
    PROVE  RecordsFollow' /\ (Delivery!Next \/ UNCHANGED Delivery!vars)
<1>1. /\ m \in Acks /\ UNCHANGED <<deviceVars, state, session, short, toDevice>>
      /\ record' = [record EXCEPT ![m.session] = IF @ = m.event THEN "acknowledged" ELSE @]
  BY DEF GetAck
<1>2. m.session \in Sessions /\ m.event \in RecordEvents /\ m.session \in offered
  BY <1>1, AcksAreAcks DEF Inv, Kept, AcksFollow
<1>3. CASE record[m.session] # m.event
  <2>1. record' = record
    BY <1>1, <1>3 DEF Inv, TypeOK
  <2>2. RecordsFollow'
    BY <1>1, <2>1, FollowElsewhere DEF Inv
  <2> QED BY <1>1, <2>1, <2>2 DEF Delivery!vars, deviceVars
<1>4. CASE record[m.session] = m.event
  <2>1. \A n \in Sessions : record'[n] = IF n = m.session THEN "acknowledged" ELSE record[n]
    BY <1>1, <1>2, <1>4 DEF Inv, TypeOK
  <2>2. record[m.session] # "none"
    BY <1>2, <1>4 DEF RecordEvents
  <2>3. RecordsFollow'
    BY <1>1, <2>1, <2>2, RecordsAreRecords DEF Inv, RecordsFollow
  <2>4. Stages[m.session] = "kept" /\ Stages' = [Stages EXCEPT ![m.session] = "done"]
    BY <1>2, <1>4, <2>1, StageMeans DEF Stages
  <2> QED BY <1>1, <1>2, <2>3, <2>4 DEF Delivery!Next, Delivery!GiveUp, Stages, deviceVars
<1> QED BY <1>3, <1>4

LEMMA EnterDelivers ==
    ASSUME Inv, NEW s, NEW n, Enter(s, n), n = session \/ n = NoSession \/ Fresh(n),
           UNCHANGED deviceVars
    PROVE  RecordsFollow' /\ UNCHANGED Delivery!vars
<1>1. RecordsFollow'
  BY FollowEnter DEF Inv
<1> QED BY <1>1, EnterKeeps DEF Delivery!vars, deviceVars

LEMMA ReceiveDelivers ==
    ASSUME Inv, Receive
    PROVE  RecordsFollow' /\ (Delivery!Next \/ UNCHANGED Delivery!vars)
<1>1. ASSUME UNCHANGED <<deviceVars, chargerVars, toDevice>>
      PROVE  RecordsFollow' /\ UNCHANGED Delivery!vars
  BY <1>1, FollowOutside DEF Inv, Delivery!vars, deviceVars, chargerVars
<1>2. CASE GetAmps
  BY <1>1, <1>2 DEF GetAmps
<1>3. ASSUME NEW m \in toCharger, GetStart(m)
      PROVE  RecordsFollow' /\ UNCHANGED Delivery!vars
  BY <1>1, <1>3, EnterDelivers DEF GetStart
<1>4. CASE GetStop
  <2>1. CASE state \in InSession /\ \E s : EndSession(s)
    BY <1>4, <2>1, FollowEndSession DEF GetStop, Inv
  <2>2. CASE Enter("READY_TO_CHARGE", NoSession)
    BY <1>4, <2>2, EnterDelivers DEF GetStop
  <2> QED BY <1>4, <2>1, <2>2, StatesAreStates DEF GetStop
<1> QED BY <1>2, <1>3, <1>4, GetAckDelivers DEF Receive

LEMMA ActsAloneDelivers ==
    ASSUME Inv, ActsAlone
    PROVE  RecordsFollow' /\ (Delivery!Next \/ UNCHANGED Delivery!vars)
<1>1. UNCHANGED deviceVars
  BY DEF ActsAlone
<1>2. CASE state \in InSession /\ \E s : EndSession(s)
  BY <1>1, <1>2, FollowEndSession DEF Inv
<1>3. CASE \E s, n : Enter(s, n) /\ (n = session \/ n = NoSession \/ Fresh(n))
  BY <1>1, <1>3, EnterDelivers
<1> QED BY <1>2, <1>3, StatesAreStates DEF ActsAlone

LEMMA NetworkDelivers ==
    ASSUME Inv, \/ Report
                \/ \E n \in Sessions : Replay(n) \/ OtherAcknowledges(n)
                \/ \E m \in toCharger \cup toDevice : Lose(m)
    PROVE  RecordsFollow' /\ (Delivery!Next \/ UNCHANGED Delivery!vars)
<1>1. CASE Report \/ \E m \in toCharger \cup toDevice : Lose(m)
  <2>1. /\ UNCHANGED <<deviceVars, chargerVars>>
        /\ toDevice' \cap Records \subseteq toDevice
    BY <1>1, StatusesShowStates, StatusesAreNotRecords DEF Report, Lose, Inv, TypeOK
  <2> QED BY <2>1, FollowOutside DEF Inv, Delivery!vars, deviceVars, chargerVars
<1>2. ASSUME NEW n \in Sessions, Replay(n) PROVE RecordsFollow' /\ UNCHANGED Delivery!vars
  <2>1. /\ record[n] \in RecordEvents /\ record' = [record EXCEPT ![n] = "UPLOAD"]
        /\ toDevice' = toDevice \cup {Record(n, "UPLOAD")}
        /\ UNCHANGED <<deviceVars, session>>
    BY <1>2 DEF Replay
  <2>2. \A k \in Sessions : record'[k] = IF k = n THEN "UPLOAD" ELSE record[k]
    BY <2>1 DEF Inv, TypeOK
  <2>3. "UPLOAD" \in RecordEvents /\ "none" \notin RecordEvents
    BY DEF RecordEvents
  <2>4. \A m \in toDevice' \cap Records : record'[m.session] # "none"
    BY <2>1, <2>2, <2>3, RecordsAreRecords, RecordsName DEF Inv, RecordsFollow
  <2>5. RecordsFollow'
    BY <2>1, <2>2, <2>3, <2>4 DEF Inv, RecordsFollow
  <2>6. Stages' = Stages
    BY <2>1, <2>2, <2>3, StageMeans DEF Stages
  <2> QED BY <2>1, <2>5, <2>6 DEF Delivery!vars, Stages, deviceVars
<1>3. ASSUME NEW n \in Sessions, OtherAcknowledges(n) PROVE RecordsFollow' /\ Delivery!Next
  <2>1. /\ record[n] \in RecordEvents /\ record' = [record EXCEPT ![n] = "elsewhere"]
        /\ UNCHANGED <<deviceVars, session, toDevice>>
    BY <1>3 DEF OtherAcknowledges
  <2>2. \A k \in Sessions : record'[k] = IF k = n THEN "elsewhere" ELSE record[k]
    BY <2>1 DEF Inv, TypeOK
  <2>3. "none" \notin RecordEvents
    BY DEF RecordEvents
  <2>4. RecordsFollow'
    BY <2>1, <2>2, <2>3, RecordsAreRecords DEF Inv, RecordsFollow
  <2>5. Stages[n] = "kept" /\ Stages' = [Stages EXCEPT ![n] = "elsewhere"]
    <3>1. Stages[n] = "kept"
      BY <2>1, StageMeans DEF Stages
    <3>2. \A k \in Sessions : Stages'[k] = IF k = n THEN "elsewhere" ELSE Stages[k]
      BY <2>2, StageMeans DEF Stages
    <3> QED BY <3>1, <3>2 DEF Stages
  <2> QED BY <2>1, <2>4, <2>5 DEF Delivery!Next, Delivery!TakeElsewhere, Stages, deviceVars
<1> QED BY <1>1, <1>2, <1>3

\* Records are delivered as RecordDelivery has it (device.py:362-372), for any sessions and
\* number of datagrams: none is offered before its session is over, none is given up
\* before it was offered or taken elsewhere, and none comes back.
THEOREM DeliveryRefines == Spec => ImplementsRecordDelivery
<1>1. Init => Kept /\ RecordsFollow /\ Delivery!Init
  BY DEF Init, Kept, AcksFollow, RecordsAreKept, RecordsFollow, Delivery!Init, Stage,
         RecordEvents
<1>2. ASSUME Inv, [Next]_vars PROVE RecordsFollow' /\ [Delivery!Next]_(Delivery!vars)
  <2>1. CASE \/ \E when \in {"now", "later"}, refused \in BOOLEAN : StartCharging(when, refused)
             \/ StopCharging \/ SetOutputAmperage \/ UNCHANGED vars
    <3>1. UNCHANGED <<deviceVars, chargerVars, toDevice>>
      BY Zenon, <2>1 DEF StartCharging, StopCharging, SetOutputAmperage, vars, deviceVars,
         chargerVars
    <3> QED BY <1>2, <3>1, FollowOutside DEF Inv, Delivery!vars, deviceVars, chargerVars
  <2> QED BY <1>2, <2>1, HandleDelivers, ReceiveDelivers, ActsAloneDelivers,
             NetworkDelivers DEF Next
<1> QED BY <1>1, <1>2, ChargingTypeCorrect, KeptAlways, PTL
        DEF Spec, Inv, ImplementsRecordDelivery, Delivery!Spec
=============================================================================
