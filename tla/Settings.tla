------------------------------ MODULE Settings ------------------------------
(***************************************************************************)
(* The settings of a charger as a device shows them: gets and sets, the    *)
(* replies to both, the get that is sent again some time after a set, and  *)
(* the device info that three of the settings live in.                     *)
(*                                                                         *)
(* Datagrams overtake each other and are lost, and other clients ask for   *)
(* settings and set them.  The second get is there for a set, or its       *)
(* reply, that is lost; what it cannot help against is kept track of in    *)
(* the history variable unsure, which no action's guard looks at.          *)
(*                                                                         *)
(* Handlers that were queued before close() run after it: a device may be  *)
(* authorised, and used, again.                                            *)
(***************************************************************************)
EXTENDS FiniteSets, Naturals

CONSTANTS
    Kinds,                   \* settings looked at
    Values, NoValue,         \* what a setting may be; not known
    MaxInFlight              \* bound: datagrams of one setting in flight each way

AllKinds == {"NICKNAME", "OUTPUT_AMPERAGE", "LANGUAGE", "WEEKLY_PLAN"}

\* Read again by _reread_later().
Reread == {"LANGUAGE", "WEEKLY_PLAN"}

\* Kept in _device_info.
InDeviceInfo == {"NICKNAME", "OUTPUT_AMPERAGE", "LANGUAGE"}

ASSUME KindsAssumption == Kinds \subseteq AllKinds
ASSUME ValuesAssumption == NoValue \notin Values

VARIABLES
    authorised,              \* is_authorised
    hasInfo,                 \* there is a _device_info
    shown,                   \* what the device says each setting is
    timer,                   \* settings with a live timer in _rereads
    actual,                  \* charger: what each setting is
    requests, replies,       \* datagrams in flight
    unsure                   \* not in the code: settings whose last get may have told nothing

vars == <<authorised, hasInfo, shown, timer, actual, requests, replies, unsure>>

Get(k)    == [kind |-> k, action |-> "get", value |-> NoValue]
Set(k, v) == [kind |-> k, action |-> "set", value |-> v]

\* A request to get brings no value; its reply does, as every set.
Messages == [kind : Kinds, action : {"get"}, value : Values \cup {NoValue}]
            \cup [kind : Kinds, action : {"set"}, value : Values]

Of(ms, k) == {m \in ms : m.kind = k}
Quiet(k) == Of(requests, k) = {} /\ Of(replies, k) = {}

\* The bound: nothing is sent while the network is full of one setting's datagrams.
Fits(ms, m) == Cardinality(Of(ms \cup {m}, m.kind)) <= MaxInFlight

Init ==
    /\ authorised = FALSE
    /\ hasInfo = FALSE
    /\ shown = [k \in Kinds |-> NoValue]
    /\ timer = {}
    /\ actual \in [Kinds -> Values]
    /\ requests = {}
    /\ replies = {}
    /\ unsure = {}

-----------------------------------------------------------------------------
\* Mutant of SetSetting: nothing is read again.
SetOnce(k, v) ==
    /\ authorised
    /\ Fits(requests, Set(k, v))
    /\ requests' = requests \cup {Set(k, v)}
    /\ UNCHANGED <<authorised, hasInfo, shown, timer, actual, replies, unsure>>

\* set_language(), set_weekly_plan(), set_nickname(), set_output_amperage(): send,
\* and for the first two (re)start the timer.
SetSetting(k, v) ==
    /\ authorised
    /\ Fits(requests, Set(k, v))
    /\ requests' = requests \cup {Set(k, v)}
    /\ timer' = IF k \in Reread THEN timer \cup {k} ELSE timer
    /\ UNCHANGED <<authorised, hasInfo, shown, actual, replies, unsure>>

\* request_essentials() asks for every setting.
RequestEssentials ==
    /\ authorised
    /\ \A k \in Kinds : Fits(requests, Get(k))
    /\ requests' = requests \cup {Get(k) : k \in Kinds}
    /\ UNCHANGED <<authorised, hasInfo, shown, timer, actual, replies, unsure>>

\* The timer of _reread_later() sends the get, whether or not we are still authorised.
\* With nothing else of the setting under way, that get comes last.
RereadSetting(k) ==
    /\ k \in timer
    /\ Fits(requests, Get(k))
    /\ timer' = timer \ {k}
    /\ requests' = requests \cup {Get(k)}
    /\ unsure' = IF Quiet(k) THEN unsure \ {k} ELSE unsure \cup {k}
    /\ UNCHANGED <<authorised, hasInfo, shown, actual, replies>>

\* close() drops the gets that are owed.
Close ==
    /\ authorised' = FALSE
    /\ timer' = {}
    /\ unsure' = unsure \cup timer
    /\ UNCHANGED <<hasInfo, shown, actual, requests, replies>>

-----------------------------------------------------------------------------
\* Mutant of UpdateDeviceInfo: the new info replaces the old one as it is.
ReplaceDeviceInfo ==
    /\ hasInfo' = TRUE
    /\ shown' = [k \in Kinds |-> IF k \in InDeviceInfo THEN NoValue ELSE shown[k]]

\* _update_device_info(): the first info has no settings, a later one keeps them.
UpdateDeviceInfo ==
    /\ hasInfo' = TRUE
    /\ shown' = [k \in Kinds |->
                    IF k \in InDeviceInfo /\ ~hasInfo THEN NoValue ELSE shown[k]]

HandleAnnouncement ==
    /\ UpdateDeviceInfo
    /\ UNCHANGED <<authorised, timer, actual, requests, replies, unsure>>

HandleLoginSuccess ==
    /\ UpdateDeviceInfo
    /\ authorised' = TRUE
    /\ UNCHANGED <<timer, actual, requests, replies, unsure>>

HandlePasswordError ==
    /\ authorised' = FALSE
    /\ UNCHANGED <<hasInfo, shown, timer, actual, requests, replies, unsure>>

\* Mutant of HandleReply: a reply is taken over with or without a device info.
HandleAnyReply(m) ==
    /\ m \in replies
    /\ replies' = replies \ {m}
    /\ shown' = [shown EXCEPT ![m.kind] = m.value]
    /\ UNCHANGED <<authorised, hasInfo, timer, actual, requests, unsure>>

\* The handlers of NICKNAME_EVENT, OUTPUT_AMPERAGE_EVENT, LANGUAGE_EVENT and
\* WEEKLY_PLAN_EVENT.
HandleReply(m) ==
    /\ m \in replies
    /\ replies' = replies \ {m}
    /\ shown' = [shown EXCEPT ![m.kind] =
                    IF m.kind \in InDeviceInfo /\ ~hasInfo THEN @ ELSE m.value]
    /\ UNCHANGED <<authorised, hasInfo, timer, actual, requests, unsure>>

-----------------------------------------------------------------------------
\* The charger writes what a set brings, and answers with what it has, as FakeEvse does
\* (but for a nickname, which FakeEvse leaves as it is).
ChargerReceives(m) ==
    /\ m \in requests
    /\ requests' = requests \ {m}
    /\ actual' = [actual EXCEPT ![m.kind] = IF m.action = "set" THEN m.value ELSE @]
    /\ LET reply == [m EXCEPT !.value = actual'[m.kind]] IN
          /\ Fits(replies, reply)
          /\ replies' = replies \cup {reply}
    /\ UNCHANGED <<authorised, hasInfo, shown, timer, unsure>>

\* Another client asks; the charger broadcasts the reply.
OtherClientAsks(k) ==
    /\ LET reply == [Get(k) EXCEPT !.value = actual[k]] IN
          /\ Fits(replies, reply)
          /\ replies' = replies \cup {reply}
    /\ UNCHANGED <<authorised, hasInfo, shown, timer, actual, requests, unsure>>

\* Another client sets, and the charger broadcasts that reply too.
OtherClientSets(k, v) ==
    /\ Fits(replies, Set(k, v))
    /\ actual' = [actual EXCEPT ![k] = v]
    /\ replies' = replies \cup {Set(k, v)}
    /\ unsure' = unsure \cup {k}
    /\ UNCHANGED <<authorised, hasInfo, shown, timer, requests>>

Lose(m) ==
    /\ m \in requests \cup replies
    /\ requests' = requests \ {m}
    /\ replies' = replies \ {m}
    /\ unsure' = IF m.action = "get" THEN unsure \cup {m.kind} ELSE unsure
    /\ UNCHANGED <<authorised, hasInfo, shown, timer, actual>>

Next ==
    \/ \E k \in Kinds, v \in Values : SetSetting(k, v) \/ OtherClientSets(k, v)
    \/ RequestEssentials
    \/ \E k \in Kinds : RereadSetting(k) \/ OtherClientAsks(k)
    \/ Close
    \/ HandleAnnouncement
    \/ HandleLoginSuccess
    \/ HandlePasswordError
    \/ \E m \in Messages : HandleReply(m) \/ ChargerReceives(m) \/ Lose(m)

Spec == Init /\ [][Next]_vars

-----------------------------------------------------------------------------
(* Properties.                                                             *)

\* Types; and what lives in the device info is unknown as long as there is none.
TypeOK ==
    /\ authorised \in BOOLEAN /\ hasInfo \in BOOLEAN
    /\ shown \in [Kinds -> Values \cup {NoValue}]
    /\ timer \subseteq Kinds \cap Reread
    /\ actual \in [Kinds -> Values]
    /\ requests \subseteq Messages
    /\ replies \subseteq {m \in Messages : m.value \in Values}
    /\ unsure \subseteq Kinds
    /\ \A k \in Kinds \cap InDeviceInfo : ~hasInfo => shown[k] = NoValue

\* Nothing of a setting is under way, and no get is owed.
Settled(k) == Quiet(k) /\ k \notin timer

\* A set, or its reply, that is lost or overtaken, two sets in a row, a set after close():
\* a setting that is read again after a set comes to be shown as the charger has it, unless
\* that get, or its reply, was lost itself, went out before the set had been and gone, was
\* dropped by close(), or another client has set since (device.py:66, 525-531).
RereadsAreCurrent ==
    \A k \in Kinds \cap Reread :
        k \notin unsure /\ Settled(k) => shown[k] \in {NoValue, actual[k]}

\* What has been learned of a setting is not forgotten when the charger announces
\* itself again (device.py:327-330).
NothingIsForgotten == [][\A k \in Kinds : shown[k] # NoValue => shown'[k] # NoValue]_vars
=============================================================================
