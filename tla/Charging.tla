------------------------------ MODULE Charging ------------------------------
(***************************************************************************)
(* Charging on command, and the records of finished sessions.              *)
(*                                                                         *)
(* A device decides on the status it was last told: whether a start needs  *)
(* a stop before it, whether an amperage is refused.  The charger moves on *)
(* meanwhile, by command or by itself (a cable, a card, its weekly plan).  *)
(* When a session ends the charger sends its record, and replays it until  *)
(* an app acknowledges it, be it this one or another client.  Datagrams    *)
(* are lost, and overtake each other.                                      *)
(*                                                                         *)
(* Chargers are external: docs/device-behaviour.md and docs/protocol.md    *)
(* say what they do.  FakeEvse ignores starts and stops.                   *)
(***************************************************************************)
EXTENDS FiniteSets, Naturals

CONSTANTS
    Sessions, NoSession,     \* sessions, each with a charge id of its own; none
    amps_while_charging,     \* the capability of its model
    AtStart,                 \* what the charger may be doing when we log in
    MaxInFlight              \* bound: datagrams in flight each way

\* CurrentStateEnum, as far as the code tells its members apart.
CurrentStates == {"READY_TO_CHARGE", "CHARGING", "COMPLETED", "CHARGING_RESERVATION"}
InSession == {"CHARGING", "CHARGING_RESERVATION"}

ASSUME ChargingAssumption ==
    /\ NoSession \notin Sessions
    /\ amps_while_charging \in BOOLEAN
    /\ AtStart \subseteq CurrentStates

VARIABLES
    status,                  \* _status, or "none"
    offered,                 \* not in the code: sessions whose record send_event() was given
    state,                   \* charger: its current state
    session,                 \* charger: the session it runs or has reserved
    record,                  \* charger: what became of each session's record
    short,                   \* charger: sessions whose record it sends too short to be parsed
    toCharger, toDevice      \* datagrams in flight

vars == <<status, offered, state, session, record, short, toCharger, toDevice>>
chargerVars == <<state, session, record, short>>
deviceVars == <<status, offered>>

Start(later)       == [cmd |-> "CHARGE_START_REQUEST", later |-> later]
Stop               == [cmd |-> "CHARGE_STOP_REQUEST"]
SetAmps            == [cmd |-> "OUTPUT_AMPERAGE_REQUEST"]
Ack(n, event)      == [cmd |-> "ACK", session |-> n, event |-> event]
Status(s)          == [cmd |-> "STATUS", state |-> s]
Record(n, event)   == [cmd |-> "RECORD", session |-> n, event |-> event]

\* A record is sent once as 0x0009 (CURRENT), then replayed as 0x000A (UPLOAD);
\* each is acknowledged by a response of its own.
RecordEvents == {"CURRENT", "UPLOAD"}
Commands == {Start(later) : later \in BOOLEAN} \cup {Stop, SetAmps}
Acks     == {Ack(n, e) : n \in Sessions, e \in RecordEvents}
Statuses == {Status(s) : s \in CurrentStates}
Records  == {Record(n, e) : n \in Sessions, e \in RecordEvents}

\* The bound: no command or report is sent while there are too many.
Fits(ms) == Cardinality(ms \ (Acks \cup Records)) <= MaxInFlight

Init ==
    /\ status = "none"
    /\ offered = {}
    /\ state \in AtStart
    /\ session \in IF state \in InSession THEN Sessions ELSE {NoSession}
    /\ record = [n \in Sessions |-> "none"]
    /\ short \in SUBSET Sessions
    /\ toCharger = {}
    /\ toDevice = {}

-----------------------------------------------------------------------------
(* The consumer's calls.  The device is logged in and knows its charger;   *)
(* without that they raise and do nothing.                                 *)

is_charging == status = "CHARGING"

\* What a start undoes first, going by the last report.
StopsFirst(when) ==
    \/ status \in {"CHARGING_RESERVATION", "COMPLETED"}
    \/ is_charging /\ when # "now"

\* start_charging(): the stop is sent before the arguments are looked at, and the two
\* datagrams are sent back to back.
StartCharging(when, refused) ==
    LET stop  == IF StopsFirst(when) THEN {Stop} ELSE {}
        start == IF refused THEN {} ELSE {Start(when = "later")}
    IN  /\ Fits(toCharger \cup stop \cup start)
        /\ toCharger' = toCharger \cup stop \cup start
        /\ UNCHANGED <<deviceVars, chargerVars, toDevice>>

StopCharging ==
    /\ Fits(toCharger \cup {Stop})
    /\ toCharger' = toCharger \cup {Stop}
    /\ UNCHANGED <<deviceVars, chargerVars, toDevice>>

\* set_output_amperage(), refused during a charge by models that ignore it then.
SetOutputAmperage ==
    /\ amps_while_charging \/ ~is_charging
    /\ Fits(toCharger \cup {SetAmps})
    /\ toCharger' = toCharger \cup {SetAmps}
    /\ UNCHANGED <<deviceVars, chargerVars, toDevice>>

-----------------------------------------------------------------------------
(* The device's handlers.                                                  *)

\* Mutant of HandleStatus: the state is read from a field beside it.
HandleStatusBeside(m) ==
    /\ m \in toDevice \cap Statuses
    /\ toDevice' = toDevice \ {m}
    /\ status' = m.cmd
    /\ UNCHANGED <<offered, chargerVars, toCharger>>

\* Mutant of HandleStatus: the first report stays.
HandleStatusOnce(m) ==
    /\ m \in toDevice \cap Statuses
    /\ toDevice' = toDevice \ {m}
    /\ status' = IF status = "none" THEN m.state ELSE status
    /\ UNCHANGED <<offered, chargerVars, toCharger>>

\* _update_status(); the response to 0x0004 changes nothing at the charger.
HandleStatus(m) ==
    /\ m \in toDevice \cap Statuses
    /\ toDevice' = toDevice \ {m}
    /\ status' = m.state
    /\ UNCHANGED <<offered, chargerVars, toCharger>>

\* Mutant of HandleRecord: every record gets the response of the first kind.
HandleRecordAsCurrent(m) ==
    /\ m \in toDevice \cap Records
    /\ m.session \notin short
    /\ toDevice' = toDevice \ {m}
    /\ toCharger' = toCharger \cup {Ack(m.session, "CURRENT")}
    /\ offered' = offered \cup {m.session}
    /\ UNCHANGED <<status, chargerVars>>

\* Mutant of HandleRecord: a replayed record is acknowledged and not offered.
HandleRecordOnce(m) ==
    /\ m \in toDevice \cap Records
    /\ m.session \notin short
    /\ toDevice' = toDevice \ {m}
    /\ toCharger' = toCharger \cup {Ack(m.session, m.event)}
    /\ offered' = IF m.event = "CURRENT" THEN offered \cup {m.session} ELSE offered
    /\ UNCHANGED <<status, chargerVars>>

\* _handle_charge_record(): acknowledge, then hand over, with no await in between.  There may
\* be no on_event, or one that raises (176-180): the record is offered, and gone all the same.
HandleRecord(m) ==
    /\ m \in toDevice \cap Records
    /\ m.session \notin short
    /\ toDevice' = toDevice \ {m}
    /\ toCharger' = toCharger \cup {Ack(m.session, m.event)}
    /\ offered' = offered \cup {m.session}
    /\ UNCHANGED <<status, chargerVars>>

\* A record that cannot be parsed is not acknowledged either.
SkipRecord(m) ==
    /\ m \in toDevice \cap Records
    /\ m.session \in short
    /\ toDevice' = toDevice \ {m}
    /\ UNCHANGED <<deviceVars, chargerVars, toCharger>>

-----------------------------------------------------------------------------
(* The charger.                                                            *)

Fresh(n) == n # session /\ record[n] = "none"

Enter(s, n) ==
    /\ state' = s
    /\ session' = n
    /\ UNCHANGED <<record, short, toDevice>>

\* A session ends, and its record is sent.
EndSession(s) ==
    /\ state' = s
    /\ session' = NoSession
    /\ record' = [record EXCEPT ![session] = "CURRENT"]
    /\ toDevice' = toDevice \cup {Record(session, "CURRENT")}
    /\ UNCHANGED short

\* A start is refused by a charger that is charging, has a reservation, or shows a
\* completed charge (results 7 and 6; the flag that start_charging() clears first).
GetStart(m) ==
    /\ m \in toCharger /\ m.cmd = "CHARGE_START_REQUEST"
    /\ toCharger' = toCharger \ {m}
    /\ \/ /\ state = "READY_TO_CHARGE"
          /\ \E n \in Sessions :
                Fresh(n) /\ Enter(IF m.later THEN "CHARGING_RESERVATION" ELSE "CHARGING", n)
       \/ /\ state # "READY_TO_CHARGE" \/ \A n \in Sessions : ~Fresh(n)
          /\ UNCHANGED <<chargerVars, toDevice>>
    /\ UNCHANGED deviceVars

GetStop ==
    /\ Stop \in toCharger
    /\ toCharger' = toCharger \ {Stop}
    /\ \/ state = "CHARGING" /\ EndSession("COMPLETED")
       \/ state = "CHARGING_RESERVATION" /\ EndSession("READY_TO_CHARGE")
       \/ state \notin InSession /\ Enter("READY_TO_CHARGE", NoSession)
    /\ UNCHANGED deviceVars

GetAmps ==
    /\ SetAmps \in toCharger
    /\ toCharger' = toCharger \ {SetAmps}
    /\ UNCHANGED <<deviceVars, chargerVars, toDevice>>

\* A cable, a card, a full battery, the weekly plan, the time of a reservation.
ActsAlone ==
    /\ \/ state = "READY_TO_CHARGE" /\ \E n \in Sessions : Fresh(n) /\ Enter("CHARGING", n)
       \/ state = "CHARGING_RESERVATION" /\ Enter("CHARGING", session)
       \/ state = "COMPLETED" /\ Enter("READY_TO_CHARGE", NoSession)
       \/ state = "CHARGING" /\ EndSession("COMPLETED")
       \/ state \in InSession /\ EndSession("READY_TO_CHARGE")
    /\ UNCHANGED <<deviceVars, toCharger>>

Report ==
    /\ Fits(toDevice \cup {Status(state)})
    /\ toDevice' = toDevice \cup {Status(state)}
    /\ UNCHANGED <<deviceVars, chargerVars, toCharger>>

Replay(n) ==
    /\ record[n] \in RecordEvents
    /\ record' = [record EXCEPT ![n] = "UPLOAD"]
    /\ toDevice' = toDevice \cup {Record(n, "UPLOAD")}
    /\ UNCHANGED <<deviceVars, state, session, short, toCharger>>

\* An acknowledgement counts for the kind of event it answers.
GetAck(m) ==
    /\ m \in toCharger \cap Acks
    /\ toCharger' = toCharger \ {m}
    /\ record' = [record EXCEPT ![m.session] = IF @ = m.event THEN "acknowledged" ELSE @]
    /\ UNCHANGED <<deviceVars, state, session, short, toDevice>>

\* Another client acknowledges the record: the replay ends, whether or not it reached us
\* (docs/device-behaviour.md:109-119).
OtherAcknowledges(n) ==
    /\ record[n] \in RecordEvents
    /\ record' = [record EXCEPT ![n] = "elsewhere"]
    /\ UNCHANGED <<deviceVars, state, session, short, toCharger, toDevice>>

Lose(m) ==
    /\ m \in toCharger \cup toDevice
    /\ toCharger' = toCharger \ {m}
    /\ toDevice' = toDevice \ {m}
    /\ UNCHANGED <<deviceVars, chargerVars>>

-----------------------------------------------------------------------------
Handle == \E m \in toDevice : HandleStatus(m) \/ HandleRecord(m) \/ SkipRecord(m)
Receive == GetStop \/ GetAmps \/ \E m \in toCharger : GetStart(m) \/ GetAck(m)

Next ==
    \/ \E when \in {"now", "later"}, refused \in BOOLEAN : StartCharging(when, refused)
    \/ StopCharging
    \/ SetOutputAmperage
    \/ Handle
    \/ Receive
    \/ ActsAlone
    \/ Report
    \/ \E n \in Sessions : Replay(n) \/ OtherAcknowledges(n)
    \/ \E m \in toCharger \cup toDevice : Lose(m)

Spec == Init /\ [][Next]_vars

\* The charger reports and replays again and again; of a datagram that is sent again and
\* again some copy arrives; no datagram is under way forever.
Fairness ==
    /\ WF_vars(Report)
    /\ \A s \in CurrentStates : SF_vars(HandleStatus(Status(s)))
    /\ \A n \in Sessions :
          /\ WF_vars(Replay(n))
          /\ SF_vars(HandleRecord(Record(n, "UPLOAD")))
          /\ SF_vars(GetAck(Ack(n, "UPLOAD")))

FairSpec == Spec /\ Fairness

-----------------------------------------------------------------------------
(* Properties.                                                             *)

\* Types; and a charger is in a session exactly while it charges or waits to.
TypeOK ==
    /\ status \in CurrentStates \cup {"none"}
    /\ offered \subseteq Sessions
    /\ state \in CurrentStates
    /\ session \in IF state \in InSession THEN Sessions ELSE {NoSession}
    /\ record \in [Sessions -> RecordEvents \cup {"none", "acknowledged", "elsewhere"}]
    /\ short \subseteq Sessions
    /\ toCharger \subseteq Commands \cup Acks
    /\ toDevice \subseteq Statuses \cup Records

\* A record is offered to the consumer only if its session is over, whatever stale datagrams
\* arrive, and kept by the charger until it was, or until another client acknowledged it;
\* once given up it does not come back (device.py:362-372).
Stage(r) == IF r \in RecordEvents THEN "kept" ELSE IF r = "acknowledged" THEN "done" ELSE r
Delivery == INSTANCE RecordDelivery WITH stage <- [n \in Sessions |-> Stage(record[n])]

ImplementsRecordDelivery == Delivery!Spec

\* The replay of every record that can be parsed comes to an end, and then the consumer was
\* offered the record, or another client had acknowledged it (device.py:363).
RecordsAreDelivered ==
    \A n \in Sessions : record[n] \in RecordEvents /\ n \notin short
        ~> record[n] = "elsewhere" \/ (record[n] = "acknowledged" /\ n \in offered)

\* A charge that goes on is shown for good, although reports overtake each other and are
\* lost (device.py:139-142, 334-340).
ChargeIsShown == <>[](state = "CHARGING") => <>[]is_charging

\* A model that ignores a new amperage during a charge is not sent one then: "the command
\* must not go out, because the reply would make it look like it worked"
\* (tests/test_device.py:323).
NoAmpsDuringCharge ==
    [][(SetAmps \in toCharger' \ toCharger /\ ~amps_while_charging)
          => state # "CHARGING"]_vars
=============================================================================
