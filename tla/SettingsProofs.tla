--------------------------- MODULE SettingsProofs ---------------------------
(* Proofs about Settings, for any settings and values, and any number of      *)
(* datagrams in flight.                                                       *)
EXTENDS Settings, TLAPS

\* While a setting is read again and nothing went wrong with that, all that is under way
\* for it are gets, and their replies tell the truth.
Sure(k) == k \in Reread /\ k \notin timer /\ k \notin unsure

OnlyGets(k) ==
    Sure(k) =>
        /\ \A m \in requests \cup replies : m.kind = k => m.action = "get"
        /\ \A m \in replies : m.kind = k => m.value = actual[k]
        /\ Quiet(k) => shown[k] \in {NoValue, actual[k]}

Inv == TypeOK /\ \A k \in Kinds : OnlyGets(k)

USE KindsAssumption, ValuesAssumption

LEMMA InitInv == Init => Inv
BY DEF Init, Inv, TypeOK, OnlyGets, Sure

\* What a set, a get and the reply to a message look like.
LEMMA MessageTypes ==
    /\ \A k \in Kinds : /\ Get(k) \in Messages
                        /\ Get(k).kind = k /\ Get(k).action = "get"
    /\ \A k \in Kinds, v \in Values : /\ Set(k, v) \in Messages
                                      /\ Set(k, v).kind = k /\ Set(k, v).action = "set"
    /\ \A m \in Messages, v \in Values :
          /\ [m EXCEPT !.value = v] \in Messages
          /\ [m EXCEPT !.value = v].kind = m.kind
          /\ [m EXCEPT !.value = v].action = m.action
          /\ [m EXCEPT !.value = v].value = v
BY DEF Get, Set, Messages

LEMMA QuietMeans ==
    \A k : Quiet(k) <=> \A m \in requests \cup replies : m.kind # k
BY DEF Quiet, Of

LEMMA QuietMeansNext ==
    \A k : Quiet(k)' <=> \A m \in requests' \cup replies' : m.kind # k
BY DEF Quiet, Of

-----------------------------------------------------------------------------
\* A set goes out with a timer, if its setting is one that is read again.
LEMMA SetInv ==
    ASSUME Inv, NEW k \in Kinds, NEW v \in Values, SetSetting(k, v)
    PROVE  Inv'
<1> USE DEF Inv, SetSetting
<1>1. TypeOK'  BY MessageTypes DEF TypeOK
<1>2. ASSUME NEW j \in Kinds PROVE OnlyGets(j)'
  BY MessageTypes, QuietMeans, QuietMeansNext DEF OnlyGets, Sure
<1> QED BY <1>1, <1>2

LEMMA EssentialsInv ==
    ASSUME Inv, RequestEssentials
    PROVE  Inv'
<1> USE DEF Inv, RequestEssentials
<1>1. TypeOK'  BY MessageTypes DEF TypeOK
<1>2. ASSUME NEW j \in Kinds PROVE OnlyGets(j)'
  <2>1. Get(j) \in requests' /\ ~Quiet(j)'
    BY MessageTypes, QuietMeansNext
  <2>2. \A m \in requests' : m \in requests \/ m.action = "get"
    BY MessageTypes
  <2> QED BY <2>1, <2>2 DEF OnlyGets, Sure
<1> QED BY <1>1, <1>2

\* The timer fires when all of the set has been and gone: from here on, only gets.
LEMMA RereadInv ==
    ASSUME Inv, NEW k \in Kinds, RereadSetting(k)
    PROVE  Inv'
<1> USE DEF Inv, RereadSetting
<1>1. TypeOK'  BY MessageTypes DEF TypeOK
<1>2. ASSUME NEW j \in Kinds PROVE OnlyGets(j)'
  <2>1. CASE j = k
    <3>1. SUFFICES ASSUME Quiet(k) PROVE OnlyGets(j)'
      BY <2>1 DEF OnlyGets, Sure
    <3>2. Get(k) \in requests' /\ ~Quiet(k)'
      BY MessageTypes, QuietMeansNext
    <3>3. \A m \in requests' \cup replies' : m.kind = k => m = Get(k)
      BY <3>1, QuietMeans
    <3>4. \A m \in replies' : m.kind # k
      BY <3>1, QuietMeans
    <3> QED BY <2>1, <3>2, <3>3, <3>4, MessageTypes DEF OnlyGets, Sure
  <2>2. CASE j # k
    BY <2>2, MessageTypes, QuietMeans, QuietMeansNext DEF OnlyGets, Sure
  <2> QED BY <2>1, <2>2
<1> QED BY <1>1, <1>2

LEMMA CloseInv ==
    ASSUME Inv, Close
    PROVE  Inv'
<1>1. TypeOK'  BY DEF Inv, Close, TypeOK
<1>2. ASSUME NEW j \in Kinds PROVE OnlyGets(j)'
  <2>1. Quiet(j)' <=> Quiet(j)
    BY QuietMeans, QuietMeansNext DEF Close
  <2> QED BY <2>1 DEF Inv, Close, OnlyGets, Sure
<1> QED BY <1>1, <1>2 DEF Inv

\* A new device info shows less than before, or the same.
LEMMA UpdateInv ==
    ASSUME Inv, UpdateDeviceInfo, authorised' \in BOOLEAN,
           UNCHANGED <<timer, actual, requests, replies, unsure>>
    PROVE  Inv'
<1> USE DEF Inv, UpdateDeviceInfo
<1>1. TypeOK'  BY DEF TypeOK
<1>2. ASSUME NEW j \in Kinds PROVE OnlyGets(j)'
  BY QuietMeans, QuietMeansNext DEF OnlyGets, Sure
<1> QED BY <1>1, <1>2

\* The reply that makes a setting quiet shows it as it is.
LEMMA HandleReplyInv ==
    ASSUME Inv, NEW m \in Messages, HandleReply(m)
    PROVE  Inv'
<1> USE DEF Inv, HandleReply
<1>1. m.kind \in Kinds /\ m.value \in Values \cup {NoValue}
  BY DEF Messages
<1>2. TypeOK'  BY <1>1 DEF TypeOK
<1>3. ASSUME NEW j \in Kinds PROVE OnlyGets(j)'
  <2>1. CASE j = m.kind
    <3>1. Sure(j) => m.value = actual[j]
      BY <2>1 DEF OnlyGets
    <3>2. shown'[j] \in {m.value, NoValue}
      BY <1>1, <2>1 DEF TypeOK
    <3> QED BY <3>1, <3>2 DEF OnlyGets, Sure
  <2>2. CASE j # m.kind
    <3>1. Quiet(j)' => Quiet(j)
      BY <2>2, QuietMeans, QuietMeansNext
    <3>2. shown'[j] = shown[j]
      BY <1>1, <2>2 DEF TypeOK
    <3> QED BY <3>1, <3>2 DEF OnlyGets, Sure
  <2> QED BY <2>1, <2>2
<1> QED BY <1>2, <1>3

\* The charger's answer tells what it has now.
LEMMA ChargerInv ==
    ASSUME Inv, NEW m \in Messages, ChargerReceives(m)
    PROVE  Inv'
<1> DEFINE reply == [m EXCEPT !.value = actual'[m.kind]]
<1>1. /\ m \in requests /\ requests' = requests \ {m}
      /\ actual' = [actual EXCEPT ![m.kind] = IF m.action = "set" THEN m.value ELSE @]
      /\ replies' = replies \cup {reply}
      /\ UNCHANGED <<authorised, hasInfo, shown, timer, unsure>>
  BY DEF ChargerReceives
<1>2. m.kind \in Kinds /\ m.value \in Values \cup {NoValue}
  BY DEF Messages
<1>3. actual' \in [Kinds -> Values] /\ actual'[m.kind] \in Values
  BY <1>1, <1>2 DEF Inv, TypeOK, Messages
<1>4. /\ reply \in Messages /\ reply.kind = m.kind
      /\ reply.action = m.action /\ reply.value = actual'[m.kind]
  BY <1>3, MessageTypes
<1> HIDE DEF reply
<1>5. TypeOK'  BY <1>1, <1>3, <1>4 DEF Inv, TypeOK
<1>6. ASSUME NEW j \in Kinds PROVE OnlyGets(j)'
  <2>0. OnlyGets(j)  BY DEF Inv
  <2>1. CASE j = m.kind
    <3>1. ~Quiet(j)'
      BY <1>1, <1>4, <2>1, QuietMeansNext
    <3>2. SUFFICES ASSUME Sure(j)
                   PROVE  OnlyGets(j)'
      BY <1>1 DEF OnlyGets, Sure
    <3>3. m.action = "get"
      BY <1>1, <2>0, <2>1, <3>2 DEF OnlyGets
    <3>4. actual'[j] = actual[j]
      BY <1>1, <1>2, <2>1, <3>3 DEF Inv, TypeOK
    <3> QED BY <1>1, <1>4, <2>0, <2>1, <3>1, <3>2, <3>3, <3>4
            DEF OnlyGets, Sure
  <2>2. CASE j # m.kind
    <3>1. Quiet(j)' => Quiet(j)
      BY <1>1, <2>2, QuietMeans, QuietMeansNext
    <3>2. actual'[j] = actual[j]
      BY <1>1, <2>2 DEF Inv, TypeOK
    <3> QED BY <1>1, <1>4, <2>0, <2>2, <3>1, <3>2 DEF OnlyGets, Sure
  <2> QED BY <2>1, <2>2
<1> QED BY <1>5, <1>6 DEF Inv

LEMMA OtherClientInv ==
    ASSUME Inv, NEW k \in Kinds, OtherClientAsks(k)
    PROVE  Inv'
<1> DEFINE reply == [Get(k) EXCEPT !.value = actual[k]]
<1>1. /\ replies' = replies \cup {reply}
      /\ UNCHANGED <<authorised, hasInfo, shown, timer, actual, requests, unsure>>
  BY DEF OtherClientAsks
<1>2. /\ reply \in Messages /\ reply.kind = k
      /\ reply.action = "get" /\ reply.value = actual[k] /\ actual[k] \in Values
  BY MessageTypes DEF Inv, TypeOK
<1> HIDE DEF reply
<1>3. TypeOK'  BY <1>1, <1>2 DEF Inv, TypeOK
<1>4. ASSUME NEW j \in Kinds PROVE OnlyGets(j)'
  <2>1. Quiet(j)' => Quiet(j)
    BY <1>1, QuietMeans, QuietMeansNext
  <2>2. OnlyGets(j)  BY DEF Inv
  <2> QED BY <1>1, <1>2, <2>1, <2>2 DEF OnlyGets, Sure
<1> QED BY <1>3, <1>4 DEF Inv

\* Another client's set leaves us unsure.
LEMMA OtherSetsInv ==
    ASSUME Inv, NEW k \in Kinds, NEW v \in Values, OtherClientSets(k, v)
    PROVE  Inv'
<1>1. /\ replies' = replies \cup {Set(k, v)} /\ Set(k, v) \in Messages
      /\ Set(k, v).kind = k /\ Set(k, v).value = v
      /\ actual' = [actual EXCEPT ![k] = v]
      /\ unsure' = unsure \cup {k}
      /\ UNCHANGED <<authorised, hasInfo, shown, timer, requests>>
  BY MessageTypes DEF OtherClientSets, Set
<1>2. TypeOK'  BY <1>1 DEF Inv, TypeOK
<1>3. ASSUME NEW j \in Kinds PROVE OnlyGets(j)'
  <2>1. CASE j = k
    BY <1>1, <2>1 DEF OnlyGets, Sure
  <2>2. CASE j # k
    <3>1. Quiet(j)' => Quiet(j)
      BY <1>1, QuietMeans, QuietMeansNext
    <3>2. actual'[j] = actual[j]
      BY <1>1, <2>2 DEF Inv, TypeOK
    <3>3. OnlyGets(j)  BY DEF Inv
    <3> QED BY <1>1, <2>2, <3>1, <3>2, <3>3 DEF OnlyGets, Sure
  <2> QED BY <2>1, <2>2
<1> QED BY <1>2, <1>3 DEF Inv

\* What is lost is a get, which is noted, or there was no being sure before.
LEMMA LoseInv ==
    ASSUME Inv, NEW m \in Messages, Lose(m)
    PROVE  Inv'
<1>1. TypeOK'
  <2>1. m.kind \in Kinds /\ requests' \subseteq requests /\ replies' \subseteq replies
    BY DEF Lose, Messages
  <2>2. unsure' \subseteq Kinds
    BY <2>1 DEF Lose, Inv, TypeOK
  <2> QED BY <2>1, <2>2 DEF Inv, TypeOK, Lose
<1>2. ASSUME NEW j \in Kinds PROVE OnlyGets(j)'
  <2>0. OnlyGets(j)  BY DEF Inv
  <2>1. CASE j = m.kind
    <3>1. m \in requests \cup replies /\ (Sure(j)' => Sure(j) /\ m.action # "get")
      BY <2>1 DEF Lose, Sure
    <3>2. ~Sure(j)'
      BY <2>0, <2>1, <3>1 DEF OnlyGets
    <3> QED BY <3>2 DEF OnlyGets
  <2>2. CASE j # m.kind
    <3>1. Quiet(j)' => Quiet(j)
      BY <2>2, QuietMeans, QuietMeansNext DEF Lose
    <3> QED BY <2>0, <2>2, <3>1 DEF OnlyGets, Sure, Lose
  <2> QED BY <2>1, <2>2
<1> QED BY <1>1, <1>2 DEF Inv

LEMMA PasswordErrorInv ==
    ASSUME Inv, HandlePasswordError
    PROVE  Inv'
<1> USE DEF Inv, HandlePasswordError
<1>1. TypeOK'  BY DEF TypeOK
<1>2. ASSUME NEW j \in Kinds PROVE OnlyGets(j)'
  BY QuietMeans, QuietMeansNext DEF OnlyGets, Sure
<1> QED BY <1>1, <1>2

LEMMA StutterInv == Inv /\ UNCHANGED vars => Inv'
<1> SUFFICES ASSUME Inv, UNCHANGED vars PROVE Inv'  OBVIOUS
<1> USE DEF Inv, vars
<1>1. TypeOK'  BY DEF TypeOK
<1>2. ASSUME NEW j \in Kinds PROVE OnlyGets(j)'
  BY QuietMeans, QuietMeansNext DEF OnlyGets, Sure
<1> QED BY <1>1, <1>2

-----------------------------------------------------------------------------
LEMMA StepInv == Inv /\ [Next]_vars => Inv'
<1> SUFFICES ASSUME Inv, [Next]_vars PROVE Inv'  OBVIOUS
<1>1. CASE \E k \in Kinds, v \in Values : SetSetting(k, v) \/ OtherClientSets(k, v)
  BY <1>1, SetInv, OtherSetsInv
<1>2. CASE RequestEssentials
  BY <1>2, EssentialsInv
<1>3. CASE \E k \in Kinds : RereadSetting(k) \/ OtherClientAsks(k)
  BY <1>3, RereadInv, OtherClientInv
<1>4. CASE Close
  BY <1>4, CloseInv
<1>5. CASE HandleAnnouncement
  BY <1>5, UpdateInv DEF HandleAnnouncement, Inv, TypeOK
<1>6. CASE HandleLoginSuccess
  BY <1>6, UpdateInv DEF HandleLoginSuccess
<1>7. CASE HandlePasswordError
  BY <1>7, PasswordErrorInv
<1>8. CASE \E m \in Messages : HandleReply(m) \/ ChargerReceives(m) \/ Lose(m)
  BY <1>8, HandleReplyInv, ChargerInv, LoseInv
<1>9. CASE UNCHANGED vars
  BY <1>9, StutterInv
<1> QED
  BY <1>1, <1>2, <1>3, <1>4, <1>5, <1>6, <1>7, <1>8, <1>9 DEF Next

LEMMA InvHolds == Spec => []Inv
BY InitInv, StepInv, PTL DEF Spec

\* Every variable has its type, and a device without info shows nothing of what the
\* info holds, in Settings for any kinds and values.
THEOREM SettingsTypeCorrect == Spec => []TypeOK
<1>1. Inv => TypeOK  BY DEF Inv
<1> QED BY <1>1, InvHolds, PTL

\* The language and the weekly plan come to be shown as the charger has them, whatever of a
\* set is lost or overtaken, unless we are unsure (device.py:66, 525-531).
THEOREM RereadsStayCurrent == Spec => []RereadsAreCurrent
<1>1. Inv => RereadsAreCurrent
  BY DEF Inv, OnlyGets, Sure, RereadsAreCurrent, Settled
<1> QED BY <1>1, InvHolds, PTL

\* A setting once known stays known, through announcements and logins
\* (device.py:327-330).
THEOREM NothingForgotten == Spec => NothingIsForgotten
<1> DEFINE Kept == \A k \in Kinds : shown[k] # NoValue => shown'[k] # NoValue
<1>1. Inv /\ [Next]_vars => [Kept]_vars
  <2> SUFFICES ASSUME Inv, Next PROVE Kept  BY DEF vars
  <2>1. CASE UpdateDeviceInfo
    BY <2>1 DEF UpdateDeviceInfo, Inv, TypeOK
  <2>2. ASSUME NEW m \in Messages, HandleReply(m) PROVE Kept
    BY <2>2 DEF HandleReply, Inv, TypeOK
  <2>3. CASE UNCHANGED shown
    BY <2>3
  <2> QED
    BY <2>1, <2>2, <2>3
    DEF Next, SetSetting, RequestEssentials, RereadSetting, OtherClientAsks,
        OtherClientSets, Close,
        HandleAnnouncement, HandleLoginSuccess, HandlePasswordError, ChargerReceives,
        Lose
<1> QED BY <1>1, InvHolds, PTL DEF Spec, NothingIsForgotten
=============================================================================
