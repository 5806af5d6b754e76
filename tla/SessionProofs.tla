--------------------------- MODULE SessionProofs ---------------------------
(***************************************************************************)
(* Theorems about Session for every set of logins, every timing and every  *)
(* surrounding.                                                            *)
(***************************************************************************)
EXTENDS Session, TLAPS

\* What ages, frames and queues are made of.
LEMMA OlderType ==
    ASSUME NEW limit \in Nat, NEW age \in 0..limit
    PROVE  Older(age, limit) \in 0..limit
BY DEF Older

LEMMA InFlightType ==
    ASSUME NEW S, NEW held \in SUBSET S, NEW sent \in SUBSET S
    PROVE  InFlight(held, sent) \in SUBSET S
BY DEF InFlight

LEMMA EntryType ==
    /\ \A m \in Handlers : Packet(m) \in Entries
    /\ \A l \in Logins : /\ Start(l) \in Entries
                         /\ Answered(l) \in Entries
                         /\ Resume(l) \in Entries
BY DEF Entries

\* The queue stays one of entries when its head is taken or an entry is added.
LEMMA QueueType ==
    ASSUME NEW q \in Seq(Entries)
    PROVE  /\ q # <<>> => Tail(q) \in Seq(Entries) /\ Head(q) \in Entries
           /\ \A e \in Entries : Append(q, e) \in Seq(Entries)
           /\ \A e \in Entries : q # <<>> => Append(Tail(q), e) \in Seq(Entries)
OBVIOUS

LEMMA LoginStateType ==
    /\ Idle \in LoginStates
    /\ Queued \in LoginStates
    /\ \A auto \in BOOLEAN, n \in 0..LOGIN_ATTEMPTS : Waiting(auto, n) \in LoginStates
<1>1. Idle \in LoginStates
  BY TimingAssumption DEF Idle, LoginStates
<1>2. Queued \in LoginStates
  BY <1>1 DEF Queued, LoginStates
<1>3. ASSUME NEW auto \in BOOLEAN, NEW n \in 0..LOGIN_ATTEMPTS
      PROVE  Waiting(auto, n) \in LoginStates
  BY <1>1 DEF Waiting, LoginStates
<1>. QED
  BY <1>1, <1>2, <1>3

\* What befalls a login leaves it one.
LEMMA LoginChangeType ==
    ASSUME NEW s \in LoginStates
    PROVE  /\ Woken(s) \in LoginStates
           /\ TimedOut(s) \in LoginStates
           /\ Cancelled(s) \in LoginStates
           /\ Waited(s) \in LoginStates
<1>1. Woken(s) \in LoginStates
  BY DEF Woken, LoginStates
<1>2. TimedOut(s) \in LoginStates
  BY DEF TimedOut, LoginStates
<1>3. Cancelled(s) \in LoginStates
  BY DEF Cancelled, LoginStates
<1>4. Older(s.waited, LOGIN_RETRY_INTERVAL) \in 0..LOGIN_RETRY_INTERVAL
  BY TimingAssumption, OlderType DEF LoginStates
<1>5. Waited(s) \in LoginStates
  BY <1>4 DEF Waited, LoginStates
<1>. QED
  BY <1>1, <1>2, <1>3, <1>5

LEMMA LoginUpdateType ==
    ASSUME NEW L \in [Logins -> LoginStates], NEW l \in Logins, NEW s \in LoginStates
    PROVE  [L EXCEPT ![l] = s] \in [Logins -> LoginStates]
OBVIOUS

-----------------------------------------------------------------------------
(* The steps, sorted by what they leave alone.                             *)

\* Steps of the rest of the device, the charger and the network.
Aside ==
    \/ Poll \/ (\E task \in Tasks : Begin(task)) \/ ReadOn \/ ReadEnds \/ RereadFires
    \/ Probe \/ Announce \/ SendHeading \/ SendReport \/ DropClient \/ OtherClient
    \/ \E m \in Requests : ChargerReceives(m)
    \/ \E m \in Events \cup Requests : Lose(m)

\* Handlers that take their packet and leave login() alone.
Taking == HandleHeading \/ HandleReply \/ HandleReport \/ HandleCancelled

LEMMA StepsSorted ==
    ASSUME [Next]_vars
    PROVE  \/ \E l \in Logins : \/ StartAutoLogin(l) \/ HearAnswer(l) \/ ResumeLogin(l)
                                \/ UserLogin(l) \/ CancelLogin(l) \/ WaitExpires(l)
           \/ Taking \/ HandleLoginSuccess \/ HandleAnnouncement \/ HandlePasswordError
           \/ Close \/ Stop \/ Tick
           \/ \E m \in Events : Deliver(m)
           \/ Aside \/ UNCHANGED vars
BY Zenon DEF Next, RunReady, ConsumerCalls, Aside, Taking

LEMMA AsideLeaves ==
    ASSUME Aside
    PROVE  /\ UNCHANGED <<login, ready, password>>
           /\ UNCHANGED <<authenticated, headingAge, attemptAge, closed>>
<1>1. CASE Poll \/ ReadOn \/ Probe \/ Announce \/ SendHeading \/ SendReport \/ DropClient
           \/ OtherClient
  BY Zenon, <1>1 DEF Poll, ReadOn, Probe, Announce, SendHeading, SendReport, DropClient,
     OtherClient, device, charger
<1>2. CASE (\E task \in Tasks : Begin(task)) \/ ReadEnds \/ RereadFires
  BY Zenon, <1>2 DEF Begin, ReadEnds, RereadFires, device, charger
<1>3. CASE \/ \E m \in Requests : ChargerReceives(m)
           \/ \E m \in Events \cup Requests : Lose(m)
  BY Zenon, <1>3 DEF ChargerReceives, Lose, device, charger
<1>. QED
  BY Zenon, <1>1, <1>2, <1>3 DEF Aside

LEMMA TakingLeaves ==
    ASSUME Taking
    PROVE  /\ \E m \in Handlers : Handles(m)
           /\ ready' = Tail(ready)
           /\ UNCHANGED <<login, charger, authenticated, attemptAge, closed, background>>
           /\ headingAge' = 0 \/ headingAge' = headingAge
BY Zenon DEF Taking, HandleHeading, HandleReply, HandleReport, HandleCancelled, Handlers,
   Events, device

LEMMA PasswordStays ==
    ASSUME [Next]_vars
    PROVE  password' = password
<1>1. ASSUME NEW l \in Logins,
             \/ StartAutoLogin(l) \/ HearAnswer(l) \/ ResumeLogin(l)
             \/ UserLogin(l) \/ CancelLogin(l) \/ WaitExpires(l)
      PROVE  password' = password
  BY Zenon, <1>1 DEF StartAutoLogin, HearAnswer, ResumeLogin, UserLogin, CancelLogin,
                     WaitExpires, charger
<1>2. CASE Taking \/ HandleLoginSuccess \/ HandleAnnouncement \/ HandlePasswordError
  BY Zenon, <1>2, TakingLeaves DEF HandleLoginSuccess, HandleAnnouncement,
                                   HandlePasswordError, charger
<1>3. CASE Close \/ Stop \/ Tick \/ (\E m \in Events : Deliver(m)) \/ UNCHANGED vars
  BY Zenon, <1>3 DEF Close, Stop, Tick, Deliver, vars, charger
<1>. QED
  BY Zenon, <1>1, <1>2, <1>3, StepsSorted, AsideLeaves

-----------------------------------------------------------------------------
\* Type correctness, part by part: most actions leave most parts alone.
LEMMA TypeInit == Init => TypeOK
<1> SUFFICES ASSUME Init PROVE TypeOK
  OBVIOUS
<1>1. FlagsTypeOK
  BY Zenon, BoundsAssumption DEF Init, FlagsTypeOK
<1>2. AgesTypeOK
  BY TimingAssumption DEF Init, AgesTypeOK
<1>3. LoginTypeOK
  BY LoginStateType DEF Init, LoginTypeOK
<1>4. QueueTypeOK
  BY DEF Init, QueueTypeOK
<1>5. NetworkTypeOK
  BY DEF Init, NetworkTypeOK
<1>. QED
  BY <1>1, <1>2, <1>3, <1>4, <1>5 DEF TypeOK

LEMMA FlagsStep == TypeOK /\ [Next]_vars => FlagsTypeOK'
<1> SUFFICES ASSUME TypeOK, [Next]_vars PROVE FlagsTypeOK'
  OBVIOUS
<1>. USE DEF TypeOK, FlagsTypeOK
<1>1. password' \in Passwords
  BY Zenon, PasswordStays
<1>2. authenticated' \in BOOLEAN /\ closed' \in {"no", "removed", "stopped"}
  <2>1. ASSUME NEW l \in Logins,
               \/ StartAutoLogin(l) \/ HearAnswer(l) \/ ResumeLogin(l)
               \/ UserLogin(l) \/ CancelLogin(l) \/ WaitExpires(l)
        PROVE  UNCHANGED <<authenticated, closed>>
    BY Zenon, <2>1 DEF StartAutoLogin, HearAnswer, ResumeLogin, UserLogin, CancelLogin,
                       WaitExpires, device
  <2>2. CASE Tick \/ HandleAnnouncement \/ (\E m \in Events : Deliver(m)) \/ UNCHANGED vars
    BY Zenon, <2>2 DEF Tick, HandleAnnouncement, Deliver, device, vars
  <2>3. CASE HandleLoginSuccess \/ HandlePasswordError
    BY Zenon, <2>3 DEF HandleLoginSuccess, HandlePasswordError
  <2>4. CASE Close \/ Stop
    BY Zenon, <2>4 DEF Close, Stop, CloseDevice
  <2>. QED
    BY Zenon, <2>1, <2>2, <2>3, <2>4, StepsSorted, TakingLeaves, AsideLeaves
<1>3. background' \subseteq Tasks /\ hasClient' \in BOOLEAN
  <2>1. CASE UNCHANGED <<background, hasClient>>
    BY Zenon, <2>1
  <2>2. ASSUME NEW l \in Logins,
               \/ StartAutoLogin(l) \/ HearAnswer(l) \/ ResumeLogin(l)
               \/ UserLogin(l) \/ CancelLogin(l) \/ WaitExpires(l)
        PROVE  UNCHANGED <<background, hasClient>>
    BY Zenon, <2>2 DEF StartAutoLogin, HearAnswer, ResumeLogin, UserLogin, CancelLogin,
                       WaitExpires, device, charger
  <2>3. CASE Taking \/ HandleLoginSuccess \/ HandleAnnouncement \/ HandlePasswordError
    BY Zenon, <2>3, <2>1, TakingLeaves DEF HandleLoginSuccess, HandleAnnouncement,
       HandlePasswordError, device, charger
  <2>4. CASE Close \/ Stop
    <3>1. background' = background \ {"reread"} /\ hasClient' = hasClient
      BY Zenon, <2>4 DEF Close, Stop, CloseDevice, charger
    <3>. QED
      BY <3>1
  <2>5. CASE Tick \/ (\E m \in Events : Deliver(m)) \/ UNCHANGED vars
    BY Zenon, <2>1, <2>5 DEF Tick, Deliver, device, charger, vars
  <2>6. CASE \/ Poll \/ ReadOn \/ Probe \/ Announce \/ SendHeading \/ SendReport
             \/ \E m \in Events \cup Requests : Lose(m)
    BY Zenon, <2>1, <2>6 DEF Poll, ReadOn, Probe, Announce, SendHeading, SendReport, Lose,
       device, charger
  <2>7. ASSUME NEW task \in Tasks, Begin(task)
        PROVE  background' \subseteq Tasks /\ hasClient' \in BOOLEAN
    <3>1. background' = background \cup {task} /\ hasClient' = hasClient
      BY Zenon, <2>7 DEF Begin, charger
    <3>. QED
      BY <3>1
  <2>8. CASE ReadEnds \/ RereadFires
    <3>1. (\E S : background' = background \ S) /\ hasClient' = hasClient
      BY Zenon, <2>8 DEF ReadEnds, RereadFires, charger
    <3>. QED
      BY <3>1
  <2>9. CASE DropClient \/ OtherClient \/ \E m \in Requests : ChargerReceives(m)
    <3>1. background' = background
      BY Zenon, <2>9 DEF DropClient, OtherClient, ChargerReceives, device
    <3>2. hasClient' \in BOOLEAN
      BY Zenon, <2>9 DEF DropClient, OtherClient, ChargerReceives
    <3>. QED
      BY Zenon, <3>1, <3>2
  <2>. QED
    BY Zenon, <2>2, <2>3, <2>4, <2>5, <2>6, <2>7, <2>8, <2>9, <2>1, StepsSorted DEF Aside
<1>. QED
  BY Zenon, <1>1, <1>2, <1>3

LEMMA AgesStep == TypeOK /\ [Next]_vars => AgesTypeOK'
<1> SUFFICES ASSUME TypeOK, [Next]_vars PROVE AgesTypeOK'
  OBVIOUS
<1>. USE TimingAssumption DEF TypeOK, AgesTypeOK, vars, device
<1>1. ASSUME NEW l \in Logins, StartAutoLogin(l) PROVE AgesTypeOK'
  <2>1. headingAge' = headingAge /\ attemptAge' \in {0, attemptAge}
    BY Zenon, <1>1 DEF StartAutoLogin, EnterLogin
  <2>. QED
    BY <2>1
<1>2. ASSUME NEW l \in Logins, UserLogin(l) PROVE AgesTypeOK'
  <2>1. headingAge' = headingAge /\ attemptAge' \in {0, attemptAge}
    BY Zenon, <1>2 DEF UserLogin, EnterLogin
  <2>. QED
    BY <2>1
<1>3. ASSUME NEW l \in Logins,
             HearAnswer(l) \/ ResumeLogin(l) \/ CancelLogin(l) \/ WaitExpires(l)
      PROVE  AgesTypeOK'
  BY <1>3 DEF HearAnswer, ResumeLogin, CancelLogin, WaitExpires
<1>4. CASE Taking
  <2>1. attemptAge' = attemptAge /\ headingAge' \in {0, headingAge}
    BY Zenon, <1>4, TakingLeaves
  <2>. QED
    BY <2>1
<1>5. CASE HandleLoginSuccess
  <2>1. attemptAge' = attemptAge /\ headingAge' \in {0, headingAge}
    BY Zenon, <1>5 DEF HandleLoginSuccess
  <2>. QED
    BY <2>1
<1>6. CASE HandlePasswordError
  BY <1>6 DEF HandlePasswordError
<1>7. CASE Tick
  BY <1>7, OlderType DEF Tick
<1>8. CASE HandleAnnouncement \/ Close \/ Stop \/ \E m \in Events : Deliver(m)
  BY <1>8 DEF HandleAnnouncement, Close, Stop, Deliver
<1>9. CASE UNCHANGED vars
  BY <1>9
<1>. QED
  BY Zenon, <1>1, <1>2, <1>3, <1>4, <1>5, <1>6, <1>7, <1>8, <1>9, StepsSorted, AsideLeaves

LEMMA LeaveLoginType ==
    ASSUME LoginTypeOK, NEW l \in Logins, NEW r \in {"true", "false"}, LeaveLogin(l, r)
    PROVE  LoginTypeOK'
BY LoginStateType, LoginUpdateType DEF LeaveLogin, LoginTypeOK

LEMMA EnterLoginType ==
    ASSUME LoginTypeOK, NEW l \in Logins, NEW auto \in BOOLEAN, EnterLogin(l, auto)
    PROVE  LoginTypeOK'
<1>1. CASE LeaveLogin(l, "false")
  BY <1>1, LeaveLoginType
<1>2. CASE /\ lockHolder' = l /\ loginFuture' = "pending" /\ result' = "none"
           /\ logins' = [logins EXCEPT ![l] = Waiting(auto, 1)]
           /\ UNCHANGED autoTask
  <2>1. Waiting(auto, 1) \in LoginStates
    BY LoginStateType, TimingAssumption
  <2>2. logins' \in [Logins -> LoginStates]
    BY <1>2, <2>1, LoginUpdateType DEF LoginTypeOK
  <2>. QED
    BY <1>2, <2>2 DEF LoginTypeOK
<1>. QED
  BY Zenon, <1>1, <1>2 DEF EnterLogin

LEMMA ConcludeType ==
    ASSUME LoginTypeOK, NEW l \in Logins, NEW ms, Conclude(l, ms)
    PROVE  LoginTypeOK'
<1>1. LeaveLogin(l, "true") \/ LeaveLogin(l, "false")
  BY Zenon DEF Conclude
<1>. QED
  BY <1>1, LeaveLoginType

LEMMA ResumeLoginType ==
    ASSUME LoginTypeOK, NEW l \in Logins, ResumeLogin(l)
    PROVE  LoginTypeOK'
<1>1. CASE LeaveLogin(l, "false")
  BY <1>1, LeaveLoginType
<1>2. CASE \E ms : Conclude(l, ms)
  BY <1>2, ConcludeType
<1>3. CASE /\ logins[l].attempt < LOGIN_ATTEMPTS
           /\ logins' = [logins EXCEPT ![l] = Waiting(@.auto, @.attempt + 1)]
           /\ UNCHANGED <<lockHolder, loginFuture, result, autoTask>>
  <2>1. logins[l] \in LoginStates
    BY DEF LoginTypeOK
  <2>2. logins[l].auto \in BOOLEAN /\ logins[l].attempt + 1 \in 0..LOGIN_ATTEMPTS
    BY <1>3, <2>1, TimingAssumption DEF LoginStates
  <2>3. Waiting(logins[l].auto, logins[l].attempt + 1) \in LoginStates
    BY <2>2, LoginStateType
  <2>. QED
    BY <1>3, <2>3, LoginUpdateType DEF LoginTypeOK
<1>. QED
  BY Zenon, <1>1, <1>2, <1>3 DEF ResumeLogin

LEMMA LoginStep == TypeOK /\ [Next]_vars => LoginTypeOK'
<1> SUFFICES ASSUME TypeOK, [Next]_vars PROVE LoginTypeOK'
  OBVIOUS
<1>. USE DEF TypeOK
<1>1. ASSUME NEW l \in Logins, StartAutoLogin(l) PROVE LoginTypeOK'
  <2>1. CASE EnterLogin(l, TRUE)
    BY Zenon, <2>1, EnterLoginType
  <2>2. CASE /\ logins' = [logins EXCEPT ![l] = Idle]
             /\ result' \in {"true", "false"}
             /\ autoTask' \in {NoLogin, autoTask}
             /\ UNCHANGED <<lockHolder, loginFuture>>
    BY <2>2, LoginStateType, LoginUpdateType DEF LoginTypeOK
  <2>. QED
    BY Zenon, <1>1, <2>1, <2>2 DEF StartAutoLogin
<1>2. ASSUME NEW l \in Logins, UserLogin(l) PROVE LoginTypeOK'
  <2>1. CASE EnterLogin(l, FALSE)
    BY Zenon, <2>1, EnterLoginType
  <2>2. CASE result' \in {"true", "false"} /\ UNCHANGED <<logins, lockHolder, loginFuture, autoTask>>
    BY <2>2 DEF LoginTypeOK
  <2>. QED
    BY Zenon, <1>2, <2>1, <2>2 DEF UserLogin
<1>3. ASSUME NEW l \in Logins, HearAnswer(l) \/ CancelLogin(l) \/ WaitExpires(l)
      PROVE  LoginTypeOK'
  <2>1. logins[l] \in LoginStates
    BY DEF LoginTypeOK
  <2>2. PICK s \in LoginStates : logins' = [logins EXCEPT ![l] = s] \/ UNCHANGED logins
    BY Zenon, <1>3, <2>1, LoginChangeType DEF HearAnswer, CancelLogin, WaitExpires
  <2>3. UNCHANGED <<lockHolder, loginFuture, result, autoTask>>
    BY Zenon, <1>3 DEF HearAnswer, CancelLogin, WaitExpires
  <2>. QED
    BY <2>2, <2>3, LoginUpdateType DEF LoginTypeOK
<1>4. ASSUME NEW l \in Logins, ResumeLogin(l) PROVE LoginTypeOK'
  BY Zenon, <1>4, ResumeLoginType
<1>5. CASE HandleLoginSuccess \/ HandlePasswordError
  <2>1. loginFuture' \in {loginFuture, "true", "false"}
    BY Zenon, <1>5 DEF HandleLoginSuccess, HandlePasswordError, Settle
  <2>2. UNCHANGED <<lockHolder, logins, result, autoTask>>
    BY Zenon, <1>5 DEF HandleLoginSuccess, HandlePasswordError
  <2>. QED
    BY <2>1, <2>2 DEF LoginTypeOK
<1>6. CASE HandleAnnouncement
  <2>1. UNCHANGED <<loginFuture, lockHolder, result>>
    BY Zenon, <1>6 DEF HandleAnnouncement
  <2>2. CASE UNCHANGED <<logins, autoTask>>
    BY <2>1, <2>2 DEF LoginTypeOK
  <2>3. ASSUME NEW l \in Logins, logins' = [logins EXCEPT ![l] = Queued], autoTask' = l
        PROVE  LoginTypeOK'
    BY <2>1, <2>3, LoginStateType, LoginUpdateType DEF LoginTypeOK
  <2>. QED
    BY Zenon, <1>6, <2>2, <2>3 DEF HandleAnnouncement
<1>7. CASE Close \/ Stop
  <2>1. UNCHANGED <<loginFuture, lockHolder, result, autoTask>>
    BY Zenon, <1>7 DEF Close, Stop
  <2>2. CASE UNCHANGED logins
    BY <2>1, <2>2 DEF LoginTypeOK
  <2>3. CASE /\ autoTask # NoLogin
             /\ logins' = [logins EXCEPT ![autoTask] = Cancelled(logins[autoTask])]
    <3>1. autoTask \in Logins
      BY <2>3 DEF LoginTypeOK
    <3>2. Cancelled(logins[autoTask]) \in LoginStates
      BY <3>1, LoginChangeType DEF LoginTypeOK
    <3>. QED
      BY <2>1, <2>3, <3>1, <3>2, LoginUpdateType DEF LoginTypeOK
  <2>. QED
    BY Zenon, <1>7, <2>2, <2>3 DEF Close, Stop, CloseDevice
<1>8. CASE Tick
  <2>1. UNCHANGED <<loginFuture, lockHolder, result, autoTask>>
    BY Zenon, <1>8 DEF Tick
  <2>2. \A l \in Logins : Waited(logins[l]) \in LoginStates /\ logins[l] \in LoginStates
    BY LoginChangeType DEF LoginTypeOK
  <2>3. logins' = [l \in Logins |->
            IF logins[l].pc = "waiting" THEN Waited(logins[l]) ELSE logins[l]]
    BY Zenon, <1>8 DEF Tick
  <2>. QED
    BY <2>1, <2>2, <2>3 DEF LoginTypeOK
<1>9. CASE Taking \/ Aside \/ (\E m \in Events : Deliver(m)) \/ UNCHANGED vars
  <2>1. UNCHANGED login
    BY Zenon, <1>9, TakingLeaves, AsideLeaves DEF Deliver, vars
  <2>. QED
    BY <2>1 DEF login, LoginTypeOK
<1>. QED
  BY Zenon, <1>1, <1>2, <1>3, <1>4, <1>5, <1>6, <1>7, <1>8, <1>9, StepsSorted

-----------------------------------------------------------------------------
\* The queue: what taking its head and adding at its end do to the entries in it.
LEMMA AppendFacts ==
    ASSUME NEW q \in Seq(Entries), NEW e \in Entries
    PROVE  /\ \A x : Has(Append(q, e), x) <=> (Has(q, x) \/ x = e)
           /\ \A x : AtMostOnce(q, x) /\ ~(x = e /\ Has(q, x)) => AtMostOnce(Append(q, e), x)
           /\ \A a, b : Before(q, a, b) /\ ~(a = e /\ Has(q, b)) /\ a # b
                          => Before(Append(q, e), a, b)
<1>1. /\ Len(Append(q, e)) = Len(q) + 1 /\ Len(q) \in Nat
      /\ \A i \in 1..Len(q) : Append(q, e)[i] = q[i]
      /\ Append(q, e)[Len(q) + 1] = e
  OBVIOUS
<1>2. \A i : i \in 1..Len(q) + 1 <=> (i \in 1..Len(q) \/ i = Len(q) + 1)
  BY <1>1
<1>3. \A x : Has(Append(q, e), x) <=> (Has(q, x) \/ x = e)
  BY <1>1, <1>2 DEF Has
<1>4. \A x : AtMostOnce(q, x) /\ ~(x = e /\ Has(q, x)) => AtMostOnce(Append(q, e), x)
  BY <1>1, <1>2 DEF Has, AtMostOnce
<1>5. \A a, b : Before(q, a, b) /\ ~(a = e /\ Has(q, b)) /\ a # b
                  => Before(Append(q, e), a, b)
  BY <1>1, <1>2 DEF Has, Before
<1>. QED
  BY <1>3, <1>4, <1>5

LEMMA TailFacts ==
    ASSUME NEW q \in Seq(Entries), q # <<>>
    PROVE  /\ \A x : Has(Tail(q), x) => Has(q, x)
           /\ \A x : Has(q, x) => (x = Head(q) \/ Has(Tail(q), x))
           /\ Has(q, Head(q))
           /\ \A x : AtMostOnce(q, x) => AtMostOnce(Tail(q), x)
           /\ AtMostOnce(q, Head(q)) => ~Has(Tail(q), Head(q))
           /\ \A a, b : Before(q, a, b) => Before(Tail(q), a, b)
           /\ \A a : Before(q, a, Head(q)) => ~Has(q, a)
<1>1. /\ Len(q) \in Nat \ {0} /\ Len(Tail(q)) = Len(q) - 1
      /\ \A i \in 1..Len(q) - 1 : Tail(q)[i] = q[i + 1]
      /\ Head(q) = q[1]
  OBVIOUS
<1>2. /\ \A i \in 1..Len(q) - 1 : i + 1 \in 1..Len(q) /\ i + 1 # 1
      /\ \A i \in 1..Len(q) : i = 1 \/ (i - 1 \in 1..Len(q) - 1 /\ (i - 1) + 1 = i)
      /\ 1 \in 1..Len(q)
  BY <1>1
<1>3. /\ \A x : Has(Tail(q), x) => Has(q, x)
      /\ \A x : Has(q, x) => (x = Head(q) \/ Has(Tail(q), x))
      /\ Has(q, Head(q))
  BY <1>1, <1>2 DEF Has
<1>4. /\ \A x : AtMostOnce(q, x) => AtMostOnce(Tail(q), x)
      /\ AtMostOnce(q, Head(q)) => ~Has(Tail(q), Head(q))
  BY <1>1, <1>2 DEF Has, AtMostOnce
<1>5. /\ \A a, b : Before(q, a, b) => Before(Tail(q), a, b)
      /\ \A a : Before(q, a, Head(q)) => ~Has(q, a)
  BY <1>1, <1>2 DEF Has, Before
<1>. QED
  BY <1>3, <1>4, <1>5

LEMMA EntriesDiffer ==
    /\ \A k, l \in Logins :
        /\ Start(k) # Resume(l) /\ Start(k) # Answered(l) /\ Resume(k) # Answered(l)
        /\ Start(k) = Start(l) => k = l
        /\ Resume(k) = Resume(l) => k = l
        /\ Answered(k) = Answered(l) => k = l
    /\ \A k \in Logins, m \in Handlers :
        Packet(m) # Start(k) /\ Packet(m) # Resume(k) /\ Packet(m) # Answered(k)
BY DEF Start, Resume, Answered, Packet

-----------------------------------------------------------------------------
(* LoginIsSafe, action by action.                                          *)
Inv == TypeOK /\ LoginIsSafe

\* Steps that move neither login() nor the queue.
LEMMA SafeElsewhere ==
    ASSUME Inv, UNCHANGED <<login, ready, attemptAge, password>>
    PROVE  LoginIsSafe'
BY DEF Inv, LoginIsSafe, login, LockAgrees, QueueAgrees, NoLostWakeup, StartsComeFirst,
       StartsAreDue, Locked, Encodes

\* A datagram arrives: an entry that is no step of a login.
LEMMA SafeArrival ==
    ASSUME Inv, NEW m \in Handlers, ready' = Append(ready, Packet(m)),
           UNCHANGED <<login, attemptAge, password>>
    PROVE  LoginIsSafe'
<1>. USE DEF Inv, LoginIsSafe, login
<1>1. ready \in Seq(Entries) /\ Packet(m) \in Entries
  BY EntryType DEF TypeOK, QueueTypeOK
<1>2. \A l \in Logins : /\ Has(ready', Start(l)) <=> Has(ready, Start(l))
                        /\ Has(ready', Resume(l)) <=> Has(ready, Resume(l))
                        /\ Has(ready', Answered(l)) <=> Has(ready, Answered(l))
  BY <1>1, AppendFacts, EntriesDiffer
<1>3. QueueAgrees'
  <2>1. \A l \in Logins : AtMostOnce(ready', Start(l)) /\ AtMostOnce(ready', Resume(l))
    BY <1>1, AppendFacts, EntriesDiffer DEF QueueAgrees
  <2>. QED
    BY <1>2, <2>1 DEF QueueAgrees
<1>4. StartsComeFirst'
  BY <1>1, AppendFacts, EntriesDiffer DEF StartsComeFirst
<1>5. LockAgrees' /\ NoLostWakeup' /\ StartsAreDue'
  BY <1>2 DEF LockAgrees, NoLostWakeup, StartsAreDue, Locked, Encodes
<1>. QED
  BY <1>3, <1>4, <1>5

\* What is left of the queue once its head, a packet, is taken.
LEMMA PacketTaken ==
    ASSUME Inv, NEW m \in Handlers, Handles(m)
    PROVE  /\ ready \in Seq(Entries) /\ ready # <<>> /\ Tail(ready) \in Seq(Entries)
           /\ \A l \in Logins :
                 /\ Has(Tail(ready), Start(l)) <=> Has(ready, Start(l))
                 /\ Has(Tail(ready), Resume(l)) <=> Has(ready, Resume(l))
                 /\ Has(Tail(ready), Answered(l)) <=> Has(ready, Answered(l))
                 /\ AtMostOnce(Tail(ready), Start(l)) /\ AtMostOnce(Tail(ready), Resume(l))
           /\ \A k, l \in Logins : Before(Tail(ready), Start(k), Resume(l))
<1>1. ready \in Seq(Entries) /\ ready # <<>> /\ Head(ready) = Packet(m)
  BY DEF Inv, TypeOK, QueueTypeOK, Handles
<1>2. Tail(ready) \in Seq(Entries)
  BY <1>1, QueueType
<1>3. \A l \in Logins : /\ Start(l) # Head(ready)
                        /\ Resume(l) # Head(ready) /\ Answered(l) # Head(ready)
  BY <1>1, EntriesDiffer
<1>. QED
  BY <1>1, <1>2, <1>3, TailFacts
  DEF Inv, LoginIsSafe, QueueAgrees, StartsComeFirst

LEMMA SafePacket ==
    ASSUME Inv, NEW m \in Handlers, Handles(m), ready' = Tail(ready),
           UNCHANGED <<login, attemptAge, password>>
    PROVE  LoginIsSafe'
BY PacketTaken
   DEF Inv, LoginIsSafe, login, LockAgrees, QueueAgrees, NoLostWakeup, StartsComeFirst,
       StartsAreDue, Locked, Encodes

\* A handler resolves the future of the login that waits, if one does.
LEMMA SafeSettle ==
    ASSUME Inv, NEW m \in Handlers, Handles(m), NEW answer \in {"true", "false"},
           Settle(answer),
           UNCHANGED <<attemptAge, password, lockHolder, logins, result, autoTask>>
    PROVE  LoginIsSafe'
<1>. USE DEF Inv, LoginIsSafe
<1>1. CASE loginFuture # "pending"
  <2>1. ready' = Tail(ready) /\ UNCHANGED <<login, attemptAge, password>>
    BY <1>1 DEF Settle, login
  <2>. QED
    BY <2>1, SafePacket
<1>2. CASE loginFuture = "pending"
  <2>1. loginFuture' = answer /\ ready' = Append(Tail(ready), Answered(lockHolder))
    BY <1>2 DEF Settle
  <2>2. lockHolder \in Logins
    BY <1>2 DEF LockAgrees, Locked, TypeOK, LoginTypeOK
  <2>3. Answered(lockHolder) \in Entries
    BY <2>2, EntryType
  <2>4. \A l \in Logins : /\ Has(ready', Start(l)) <=> Has(ready, Start(l))
                          /\ Has(ready', Resume(l)) <=> Has(ready, Resume(l))
    BY <2>1, <2>2, <2>3, PacketTaken, AppendFacts, EntriesDiffer
  <2>5. Has(ready', Answered(lockHolder))
    BY <2>1, <2>3, PacketTaken, AppendFacts
  <2>6. \A l \in Logins : AtMostOnce(ready', Start(l)) /\ AtMostOnce(ready', Resume(l))
    BY <2>1, <2>2, <2>3, PacketTaken, AppendFacts, EntriesDiffer
  <2>7. StartsComeFirst'
    BY <2>1, <2>2, <2>3, PacketTaken, AppendFacts, EntriesDiffer DEF StartsComeFirst
  <2>8. LockAgrees'
    BY <1>2, <2>1 DEF LockAgrees, Locked
  <2>9. QueueAgrees' /\ StartsAreDue'
    BY <2>4, <2>6 DEF QueueAgrees, StartsAreDue, Locked, Encodes
  <2>10. NoLostWakeup'
    BY <2>4, <2>5 DEF NoLostWakeup, LockAgrees
  <2>. QED
    BY <2>7, <2>8, <2>9, <2>10
<1>. QED
  BY <1>1, <1>2

\* The fields of a login that the invariant speaks of.
LEMMA LoginFields ==
    /\ Idle.pc = "idle" /\ Queued.pc = "queued"
    /\ \A auto \in BOOLEAN, n \in 0..LOGIN_ATTEMPTS :
          Waiting(auto, n).pc = "waiting" /\ ~Waiting(auto, n).woken
    /\ \A s \in LoginStates :
          /\ Woken(s).pc = s.pc /\ Woken(s).woken
          /\ TimedOut(s).pc = s.pc /\ TimedOut(s).woken
          /\ Cancelled(s).pc = s.pc /\ (Cancelled(s).woken <=> s.pc = "waiting")
          /\ Waited(s).pc = s.pc /\ (Waited(s).woken <=> s.woken)
<1>1. Idle.pc = "idle" /\ Queued.pc = "queued"
  BY DEF Idle, Queued
<1>2. ASSUME NEW auto \in BOOLEAN, NEW n \in 0..LOGIN_ATTEMPTS
      PROVE  Waiting(auto, n).pc = "waiting" /\ ~Waiting(auto, n).woken
  BY DEF Waiting, Idle
<1>3. ASSUME NEW s \in LoginStates
      PROVE  /\ Woken(s).pc = s.pc /\ Woken(s).woken
             /\ TimedOut(s).pc = s.pc /\ TimedOut(s).woken
  BY DEF Woken, TimedOut, LoginStates
<1>4. ASSUME NEW s \in LoginStates
      PROVE  Cancelled(s).pc = s.pc /\ (Cancelled(s).woken <=> s.pc = "waiting")
  BY DEF Cancelled, LoginStates
<1>5. ASSUME NEW s \in LoginStates
      PROVE  Waited(s).pc = s.pc /\ (Waited(s).woken <=> s.woken)
  BY DEF Waited, LoginStates
<1>. QED
  BY <1>1, <1>2, <1>3, <1>4, <1>5

LEMMA FreeFacts ==
    ASSUME NEW l \in Logins, Free(l)
    PROVE  /\ logins[l].pc = "idle"
           /\ ~Has(ready, Start(l)) /\ ~Has(ready, Resume(l)) /\ ~Has(ready, Answered(l))
BY DEF Free, Has, Start, Resume, Answered

\* While nobody holds the lock nobody waits, and nobody is about to resume.
LEMMA UnlockedFacts ==
    ASSUME Inv, ~Locked, NEW l \in Logins
    PROVE  logins[l].pc # "waiting" /\ ~Has(ready, Resume(l))
BY LoginsAssumption DEF Inv, LoginIsSafe, LockAgrees, QueueAgrees, Locked

\* An announcement makes a task for an automatic login.
LEMMA SafeAnnouncement ==
    ASSUME Inv, Handles("LOGIN_EVENT"), MayAttemptLogin, NEW l \in Logins, Free(l),
           logins' = [logins EXCEPT ![l] = Queued],
           ready' = Append(Tail(ready), Start(l)),
           UNCHANGED <<attemptAge, lockHolder, loginFuture>>
    PROVE  LoginIsSafe'
<1>. USE DEF Inv, LoginIsSafe
<1>1. ~Locked /\ attemptAge >= LOGIN_COOLDOWN
  BY DEF MayAttemptLogin
<1>2. "LOGIN_EVENT" \in Handlers /\ Start(l) \in Entries
  BY EntryType DEF Handlers, Events
<1>3. /\ logins'[l].pc = "queued"
      /\ \A k \in Logins \ {l} : logins'[k] = logins[k]
  BY LoginFields DEF TypeOK, LoginTypeOK
<1>4. \A k \in Logins : /\ Has(ready', Start(k)) <=> (k = l \/ Has(ready, Start(k)))
                        /\ ~Has(ready', Resume(k))
  BY <1>1, <1>2, PacketTaken, AppendFacts, EntriesDiffer, UnlockedFacts
<1>5. \A k \in Logins : AtMostOnce(ready', Start(k)) /\ AtMostOnce(ready', Resume(k))
  BY <1>1, <1>2, PacketTaken, AppendFacts, EntriesDiffer, FreeFacts
<1>6. StartsComeFirst'
  BY <1>1, <1>2, PacketTaken, AppendFacts, EntriesDiffer, UnlockedFacts DEF StartsComeFirst
<1>7. \A k \in Logins : logins'[k].pc # "waiting"
  BY <1>1, <1>3, UnlockedFacts
<1>8. LockAgrees'
  BY <1>1, <1>7, LoginsAssumption DEF LockAgrees, Locked
<1>9. QueueAgrees'
  BY <1>3, <1>4, <1>5 DEF QueueAgrees
<1>10. NoLostWakeup' /\ StartsAreDue'
  BY <1>1, <1>7 DEF NoLostWakeup, StartsAreDue
<1>. QED
  BY <1>6, <1>8, <1>9, <1>10

\* A login enters: the lock was free, and no entry but starts of others remains.
LEMMA SafeEntry ==
    ASSUME Inv, ~Locked, NEW l \in Logins, NEW auto \in BOOLEAN, EnterLogin(l, auto),
           logins[l].pc # "waiting", password' = password,
           ready' \in Seq(Entries),
           ~Has(ready', Start(l)),
           \A k \in Logins : Has(ready', Start(k)) => Has(ready, Start(k)),
           \A k \in Logins : Has(ready', Resume(k)) => Has(ready, Resume(k)),
           \A k \in Logins : AtMostOnce(ready', Start(k)) /\ AtMostOnce(ready', Resume(k)),
           StartsComeFirst'
    PROVE  LoginIsSafe'
<1>. USE DEF Inv, LoginIsSafe
<1>1. CASE /\ lockHolder' = l /\ loginFuture' = "pending"
           /\ logins' = [logins EXCEPT ![l] = Waiting(auto, 1)]
  <2>1. /\ logins'[l].pc = "waiting" /\ ~logins'[l].woken
        /\ \A k \in Logins \ {l} : logins'[k] = logins[k]
    BY <1>1, LoginFields, TimingAssumption DEF TypeOK, LoginTypeOK
  <2>2. LockAgrees'
    BY <1>1, <2>1, UnlockedFacts, LoginsAssumption DEF LockAgrees, Locked
  <2>3. QueueAgrees'
    BY <2>1, UnlockedFacts DEF QueueAgrees
  <2>4. NoLostWakeup'
    BY <1>1, <2>1, UnlockedFacts DEF NoLostWakeup
  <2>5. StartsAreDue'
    BY <1>1, LoginsAssumption DEF StartsAreDue, Locked
  <2>. QED
    BY <2>2, <2>3, <2>4, <2>5
<1>2. CASE /\ ~Encodes /\ lockHolder' = NoLogin /\ loginFuture' = "none"
           /\ logins' = [logins EXCEPT ![l] = Idle]
  <2>1. /\ logins'[l].pc = "idle"
        /\ \A k \in Logins \ {l} : logins'[k] = logins[k]
    BY <1>2, LoginFields DEF TypeOK, LoginTypeOK
  <2>2. \A k \in Logins : logins'[k].pc # "waiting"
    BY <2>1, UnlockedFacts
  <2>3. LockAgrees'
    BY <1>2, <2>2, LoginsAssumption DEF LockAgrees, Locked
  <2>4. QueueAgrees' /\ NoLostWakeup'
    BY <2>1, <2>2, UnlockedFacts DEF QueueAgrees, NoLostWakeup
  <2>5. StartsAreDue'
    BY <1>2 DEF StartsAreDue, Encodes
  <2>. QED
    BY <2>3, <2>4, <2>5
<1>. QED
  BY Zenon, <1>1, <1>2 DEF EnterLogin, LeaveLogin

LEMMA SafeUserLogin ==
    ASSUME Inv, NEW l \in Logins, UserLogin(l)
    PROVE  LoginIsSafe'
<1>. USE DEF Inv, LoginIsSafe
<1>1. ready' = ready /\ password' = password
  BY Zenon DEF UserLogin, charger
<1>2. CASE Locked
  <2>1. UNCHANGED <<lockHolder, logins, attemptAge, loginFuture, ready>>
    BY Zenon, <1>1, <1>2 DEF UserLogin
  <2>. QED
    BY <1>1, <2>1 DEF LockAgrees, QueueAgrees, NoLostWakeup, StartsComeFirst, StartsAreDue,
       Locked, Encodes
<1>3. CASE ~Locked
  <2>1. EnterLogin(l, FALSE) /\ Free(l)
    BY Zenon, <1>3 DEF UserLogin
  <2>2. ready' \in Seq(Entries)
    BY <1>1 DEF TypeOK, QueueTypeOK
  <2>3. \A k \in Logins : AtMostOnce(ready', Start(k)) /\ AtMostOnce(ready', Resume(k))
    BY <1>1 DEF QueueAgrees
  <2>4. StartsComeFirst'
    BY <1>1 DEF StartsComeFirst
  <2>. QED
    BY <1>1, <1>3, <2>1, <2>2, <2>3, <2>4, FreeFacts, SafeEntry
<1>. QED
  BY <1>2, <1>3

\* What is left once a step of login l is taken from the head of the queue.
LEMMA StepTaken ==
    ASSUME Inv, ready # <<>>, NEW e \in Entries, Head(ready) = e
    PROVE  /\ Tail(ready) \in Seq(Entries) /\ Has(ready, e)
           /\ \A x : Has(Tail(ready), x) => Has(ready, x)
           /\ \A x : Has(ready, x) => (x = e \/ Has(Tail(ready), x))
           /\ \A x : AtMostOnce(ready, x) => AtMostOnce(Tail(ready), x)
           /\ AtMostOnce(ready, e) => ~Has(Tail(ready), e)
           /\ \A k, l \in Logins : Before(Tail(ready), Start(k), Resume(l))
           /\ \A l \in Logins : e = Resume(l) => \A k \in Logins : ~Has(ready, Start(k))
<1>1. ready \in Seq(Entries)
  BY DEF Inv, TypeOK, QueueTypeOK
<1>2. Tail(ready) \in Seq(Entries)
  BY <1>1, QueueType
<1>. QED
  BY <1>1, <1>2, TailFacts DEF Inv, LoginIsSafe, StartsComeFirst

LEMMA SafeStart ==
    ASSUME Inv, NEW l \in Logins, StartAutoLogin(l)
    PROVE  LoginIsSafe'
<1>. USE DEF Inv, LoginIsSafe
<1>1. /\ ready # <<>> /\ Head(ready) = Start(l) /\ ready' = Tail(ready)
      /\ password' = password
  BY Zenon DEF StartAutoLogin, charger
<1>2. Start(l) \in Entries
  BY EntryType
<1>3. /\ \A k \in Logins : Has(ready', Start(k)) <=> (Has(ready, Start(k)) /\ k # l)
      /\ \A k \in Logins : Has(ready', Resume(k)) <=> Has(ready, Resume(k))
      /\ \A k \in Logins : Has(ready', Answered(k)) <=> Has(ready, Answered(k))
      /\ \A k \in Logins : AtMostOnce(ready', Start(k)) /\ AtMostOnce(ready', Resume(k))
      /\ ready' \in Seq(Entries) /\ StartsComeFirst'
      /\ Has(ready, Start(l))
  BY <1>1, <1>2, StepTaken, EntriesDiffer DEF QueueAgrees, StartsComeFirst
<1>4. CASE ~Locked /\ EnterLogin(l, TRUE)
  BY <1>1, <1>3, <1>4, UnlockedFacts, SafeEntry
<1>5. CASE /\ logins' = [logins EXCEPT ![l] = Idle]
           /\ UNCHANGED <<lockHolder, attemptAge, loginFuture>>
  <2>1. logins[l].pc = "queued"
    BY <1>3 DEF QueueAgrees
  <2>2. /\ logins'[l].pc = "idle"
        /\ \A k \in Logins \ {l} : logins'[k] = logins[k]
    BY <1>5, LoginFields DEF TypeOK, LoginTypeOK
  <2>3. LockAgrees'
    BY <1>5, <2>1, <2>2 DEF LockAgrees, Locked
  <2>4. QueueAgrees'
    BY <1>3, <2>1, <2>2 DEF QueueAgrees
  <2>5. NoLostWakeup'
    BY <1>3, <1>5, <2>2 DEF NoLostWakeup
  <2>6. StartsAreDue'
    BY <1>1, <1>3, <1>5 DEF StartsAreDue, Locked, Encodes
  <2>. QED
    BY <1>3, <2>3, <2>4, <2>5, <2>6
<1>. QED
  BY Zenon, <1>4, <1>5 DEF StartAutoLogin

LEMMA SafeHearing ==
    ASSUME Inv, NEW l \in Logins, HearAnswer(l)
    PROVE  LoginIsSafe'
<1>. USE DEF Inv, LoginIsSafe
<1>1. /\ ready # <<>> /\ Head(ready) = Answered(l)
      /\ UNCHANGED <<attemptAge, password, lockHolder, loginFuture>>
  BY Zenon DEF HearAnswer, device, charger
<1>2. Answered(l) \in Entries /\ Resume(l) \in Entries
  BY EntryType
<1>3. /\ \A k \in Logins : Has(Tail(ready), Start(k)) <=> Has(ready, Start(k))
      /\ \A k \in Logins : Has(Tail(ready), Resume(k)) <=> Has(ready, Resume(k))
      /\ \A k \in Logins \ {l} : Has(Tail(ready), Answered(k)) <=> Has(ready, Answered(k))
      /\ \A k \in Logins : /\ AtMostOnce(Tail(ready), Start(k))
                            /\ AtMostOnce(Tail(ready), Resume(k))
      /\ Tail(ready) \in Seq(Entries)
      /\ \A j, k \in Logins : Before(Tail(ready), Start(j), Resume(k))
  BY <1>1, <1>2, StepTaken, EntriesDiffer DEF QueueAgrees
<1>4. CASE /\ logins[l].pc = "waiting" /\ ~logins[l].woken
           /\ logins' = [logins EXCEPT ![l] = Woken(logins[l])]
           /\ ready' = Append(Tail(ready), Resume(l))
  <2>1. /\ logins'[l].pc = "waiting" /\ logins'[l].woken
        /\ \A k \in Logins \ {l} : logins'[k] = logins[k]
    BY <1>4, LoginFields DEF TypeOK, LoginTypeOK
  <2>. ~Has(Tail(ready), Resume(l))
    BY <1>3, <1>4 DEF QueueAgrees
  <2>2. /\ \A k \in Logins : Has(ready', Start(k)) <=> Has(ready, Start(k))
        /\ \A k \in Logins : Has(ready', Resume(k)) <=> (k = l \/ Has(ready, Resume(k)))
        /\ \A k \in Logins \ {l} : Has(ready', Answered(k)) <=> Has(ready, Answered(k))
    BY <1>2, <1>3, <1>4, AppendFacts, EntriesDiffer
  <2>3. \A k \in Logins : AtMostOnce(ready', Start(k)) /\ AtMostOnce(ready', Resume(k))
    BY <1>2, <1>3, <1>4, <2>2, AppendFacts, EntriesDiffer
  <2>4. StartsComeFirst'
    BY <1>2, <1>3, <1>4, AppendFacts, EntriesDiffer DEF StartsComeFirst
  <2>5. LockAgrees'
    BY <1>1, <1>4, <2>1 DEF LockAgrees, Locked
  <2>6. QueueAgrees'
    BY <2>1, <2>2, <2>3, <1>4 DEF QueueAgrees
  <2>7. NoLostWakeup'
    BY <1>4, <2>1, <2>2 DEF NoLostWakeup, LockAgrees
  <2>8. StartsAreDue'
    BY <1>1, <2>2 DEF StartsAreDue, Locked, Encodes
  <2>. QED
    BY <2>4, <2>5, <2>6, <2>7, <2>8
<1>5. CASE /\ ~(logins[l].pc = "waiting" /\ ~logins[l].woken)
           /\ ready' = Tail(ready) /\ UNCHANGED logins
  BY <1>1, <1>3, <1>5
  DEF LockAgrees, QueueAgrees, NoLostWakeup, StartsComeFirst, StartsAreDue, Locked, Encodes
<1>. QED
  BY Zenon, <1>4, <1>5 DEF HearAnswer

\* A queue that differs from the one at hand in packets only.
Resembles(q) ==
    /\ q \in Seq(Entries) /\ Len(q) = Len(ready)
    /\ \A i \in 1..Len(q) : q[i] = ready[i] \/ (q[i].step = "packet" /\ ready[i].step = "packet")

LEMMA Resemblance ==
    ASSUME Inv, NEW q, Resembles(q)
    PROVE  /\ \A l \in Logins :
                 /\ Has(q, Start(l)) <=> Has(ready, Start(l))
                 /\ Has(q, Resume(l)) <=> Has(ready, Resume(l))
                 /\ Has(q, Answered(l)) <=> Has(ready, Answered(l))
                 /\ AtMostOnce(q, Start(l)) /\ AtMostOnce(q, Resume(l))
           /\ \A k, l \in Logins : Before(q, Start(k), Resume(l))
<1>1. ASSUME NEW x, x.step # "packet"
      PROVE  \A i \in 1..Len(q) : q[i] = x <=> ready[i] = x
  BY <1>1 DEF Resembles
<1>2. \A l \in Logins : /\ Start(l).step # "packet" /\ Resume(l).step # "packet"
                        /\ Answered(l).step # "packet"
  BY DEF Start, Resume, Answered
<1>3. ASSUME NEW x, x.step # "packet"
      PROVE  /\ Has(q, x) <=> Has(ready, x)
             /\ AtMostOnce(ready, x) => AtMostOnce(q, x)
  BY <1>1, <1>3 DEF Resembles, Has, AtMostOnce
<1>4. ASSUME NEW x, NEW y, x.step # "packet", y.step # "packet", Before(ready, x, y)
      PROVE  Before(q, x, y)
  BY <1>1, <1>4 DEF Resembles, Before
<1>. QED
  BY <1>2, <1>3, <1>4 DEF Inv, LoginIsSafe, QueueAgrees, StartsComeFirst

LEMMA QueuesResemble ==
    ASSUME Inv
    PROVE  Resembles(ready) /\ Resembles(HandlersCancelled)
<1>1. ready \in Seq(Entries)
  BY DEF Inv, TypeOK, QueueTypeOK
<1>2. Packet("CANCELLED") \in Entries /\ Packet("CANCELLED").step = "packet"
  BY EntryType DEF Handlers, Packet
<1>3. DOMAIN ready = 1..Len(ready) /\ Len(ready) \in Nat
  BY <1>1
<1>4. \A i \in 1..Len(ready) : ready[i] \in Entries
  BY <1>1
<1> DEFINE q == [i \in 1..Len(ready) |->
                   IF ready[i].step = "packet" THEN Packet("CANCELLED") ELSE ready[i]]
<1>5. q \in Seq(Entries) /\ Len(q) = Len(ready)
  BY <1>2, <1>3, <1>4
<1>6. HandlersCancelled = q
  BY <1>3 DEF HandlersCancelled
<1>. QED
  BY <1>1, <1>2, <1>5, <1>6 DEF Resembles

\* Packets are put in each other's places.
LEMMA SafeReplacement ==
    ASSUME Inv, Resembles(ready'), UNCHANGED <<login, attemptAge, password>>
    PROVE  LoginIsSafe'
BY Resemblance
   DEF Inv, LoginIsSafe, login, LockAgrees, QueueAgrees, NoLostWakeup, StartsComeFirst,
       StartsAreDue, Locked, Encodes

\* A login that waits is told from outside that its wait is over.
LEMMA SafeInterrupt ==
    ASSUME Inv, NEW l \in Logins,
           NEW s, s = TimedOut(logins[l]) \/ s = Cancelled(logins[l]),
           logins' = [logins EXCEPT ![l] = s],
           NEW q, Resembles(q),
           ready' = IF logins[l].pc = "waiting" /\ ~logins[l].woken
                    THEN Append(q, Resume(l)) ELSE q,
           UNCHANGED <<attemptAge, password, lockHolder, loginFuture>>
    PROVE  LoginIsSafe'
<1>. USE DEF Inv, LoginIsSafe
<1>1. q \in Seq(Entries) /\ Resume(l) \in Entries
  BY EntryType DEF Resembles
<1>2. logins'[l] = s /\ \A k \in Logins \ {l} : logins'[k] = logins[k]
  BY DEF TypeOK, LoginTypeOK
<1>. logins[l] \in LoginStates
  BY DEF TypeOK, LoginTypeOK
<1>. s.pc = logins[l].pc /\ (s.pc = "waiting" => s.woken)
  BY LoginFields
<1>3. LockAgrees'
  BY <1>2 DEF LockAgrees, Locked
<1>4. CASE logins[l].pc = "waiting" /\ ~logins[l].woken
  <2>1. ready' = Append(q, Resume(l)) /\ ~Has(q, Resume(l))
    BY <1>4, Resemblance DEF QueueAgrees
  <2>2. /\ \A k \in Logins : Has(ready', Start(k)) <=> Has(ready, Start(k))
        /\ \A k \in Logins : Has(ready', Resume(k)) <=> (k = l \/ Has(ready, Resume(k)))
        /\ \A k \in Logins : Has(ready', Answered(k)) <=> Has(ready, Answered(k))
    BY <1>1, <2>1, AppendFacts, EntriesDiffer, Resemblance
  <2>3. \A k \in Logins : AtMostOnce(ready', Start(k)) /\ AtMostOnce(ready', Resume(k))
    BY <1>1, <2>1, AppendFacts, EntriesDiffer, Resemblance
  <2>4. StartsComeFirst'
    BY <1>1, <2>1, AppendFacts, EntriesDiffer, Resemblance DEF StartsComeFirst
  <2>5. QueueAgrees'
    BY <1>2, <1>4, <2>2, <2>3 DEF QueueAgrees
  <2>6. NoLostWakeup' /\ StartsAreDue'
    BY <1>2, <2>2 DEF NoLostWakeup, StartsAreDue, Locked, Encodes
  <2>. QED
    BY <1>3, <2>4, <2>5, <2>6
<1>5. CASE ~(logins[l].pc = "waiting" /\ ~logins[l].woken)
  <2>1. ready' = q
    BY <1>5
  <2>. QED
    BY <1>2, <1>3, <1>5, <2>1, Resemblance
    DEF QueueAgrees, NoLostWakeup, StartsComeFirst, StartsAreDue, Locked, Encodes
<1>. QED
  BY <1>4, <1>5

\* The login inside the lock runs again: it leaves, or it waits once more.
LEMMA SafeResume ==
    ASSUME Inv, NEW l \in Logins, ResumeLogin(l)
    PROVE  LoginIsSafe'
<1>. USE DEF Inv, LoginIsSafe
<1>1. ready # <<>> /\ Head(ready) = Resume(l) /\ ready' = Tail(ready) /\ attemptAge' = attemptAge
  BY Zenon DEF ResumeLogin, device
<1>2. Resume(l) \in Entries
  BY EntryType
<1>3. /\ \A k \in Logins : ~Has(ready, Start(k)) /\ ~Has(ready', Start(k))
      /\ \A k \in Logins : Has(ready', Resume(k)) => Has(ready, Resume(k)) /\ k # l
      /\ \A k \in Logins : AtMostOnce(ready', Start(k)) /\ AtMostOnce(ready', Resume(k))
      /\ Has(ready, Resume(l)) /\ StartsComeFirst'
  BY <1>1, <1>2, StepTaken, EntriesDiffer DEF QueueAgrees, StartsComeFirst
<1>4. logins[l].pc = "waiting" /\ lockHolder = l
  BY <1>3 DEF QueueAgrees, LockAgrees
<1>5. \A k \in Logins : ~Has(ready', Resume(k))
  BY <1>3, <1>4 DEF QueueAgrees, LockAgrees
<1>6. StartsAreDue'
  BY <1>3 DEF StartsAreDue
<1>7. CASE \E r : LeaveLogin(l, r)
  <2>1. /\ lockHolder' = NoLogin /\ loginFuture' = "none"
        /\ logins' = [logins EXCEPT ![l] = Idle]
    BY Zenon, <1>7 DEF LeaveLogin
  <2>2. \A k \in Logins : logins'[k].pc # "waiting"
    BY <1>4, <2>1, LoginFields DEF LockAgrees, TypeOK, LoginTypeOK
  <2>3. LockAgrees'
    BY <2>1, <2>2, LoginsAssumption DEF LockAgrees, Locked
  <2>4. QueueAgrees' /\ NoLostWakeup'
    BY <1>3, <1>5, <2>2 DEF QueueAgrees, NoLostWakeup
  <2>. QED
    BY <1>3, <1>6, <2>3, <2>4
<1>8. CASE /\ logins[l].attempt < LOGIN_ATTEMPTS /\ ~AnswerAtHand
           /\ logins' = [logins EXCEPT ![l] = Waiting(@.auto, @.attempt + 1)]
           /\ UNCHANGED <<lockHolder, loginFuture>>
  <2>1. logins[l].auto \in BOOLEAN /\ logins[l].attempt + 1 \in 0..LOGIN_ATTEMPTS
    BY <1>8, TimingAssumption DEF TypeOK, LoginTypeOK, LoginStates
  <2>2. logins' = [logins EXCEPT ![l] = Waiting(logins[l].auto, logins[l].attempt + 1)]
    BY <1>8
  <2>3. /\ logins'[l].pc = "waiting" /\ ~logins'[l].woken
        /\ \A k \in Logins \ {l} : logins'[k] = logins[k]
    BY <2>1, <2>2, LoginFields DEF TypeOK, LoginTypeOK
  <2>4. LockAgrees'
    BY <1>4, <1>8, <2>3 DEF LockAgrees, Locked
  <2>5. QueueAgrees'
    BY <1>3, <1>5 DEF QueueAgrees
  <2>6. NoLostWakeup'
    BY <1>4, <1>8, <2>3 DEF NoLostWakeup, LockAgrees, AnswerAtHand
  <2>. QED
    BY <1>3, <1>6, <2>4, <2>5, <2>6
<1>. QED
  BY Zenon, <1>7, <1>8 DEF ResumeLogin, Conclude

LEMMA SafeTick ==
    ASSUME Inv, Tick
    PROVE  LoginIsSafe'
<1>. USE DEF Inv, LoginIsSafe
<1>1. UNCHANGED <<ready, lockHolder, loginFuture, password>>
  BY Zenon DEF Tick, charger
<1>2. \A l \in Logins : logins[l] \in LoginStates
  BY DEF TypeOK, LoginTypeOK
<1>3. \A l \in Logins : /\ logins'[l].pc = logins[l].pc
                        /\ logins'[l].woken <=> logins[l].woken
  BY <1>2, LoginFields DEF Tick
<1>4. attemptAge \in 0..LOGIN_COOLDOWN /\ attemptAge' = Older(attemptAge, LOGIN_COOLDOWN)
  BY Zenon DEF Tick, TypeOK, AgesTypeOK
<1>5. attemptAge >= LOGIN_COOLDOWN => attemptAge' >= LOGIN_COOLDOWN
  BY <1>4, TimingAssumption DEF Older
<1>. QED
  BY <1>1, <1>3, <1>5
  DEF LockAgrees, QueueAgrees, NoLostWakeup, StartsComeFirst, StartsAreDue, Locked, Encodes

LEMMA SafeStep == Inv /\ [Next]_vars => LoginIsSafe'
<1> SUFFICES ASSUME Inv, [Next]_vars PROVE LoginIsSafe'
  OBVIOUS
<1>0. password' = password
  BY PasswordStays
<1>1. ASSUME NEW l \in Logins, StartAutoLogin(l) \/ HearAnswer(l) \/ ResumeLogin(l)
                                \/ UserLogin(l)
      PROVE  LoginIsSafe'
  BY Zenon, <1>1, SafeStart, SafeHearing, SafeResume, SafeUserLogin
<1>2. ASSUME NEW l \in Logins, CancelLogin(l) \/ WaitExpires(l) PROVE LoginIsSafe'
  <2>1. /\ QueueResume(l)
        /\ UNCHANGED <<attemptAge, lockHolder, loginFuture>>
    BY Zenon, <1>2 DEF CancelLogin, WaitExpires, device
  <2>2. \/ logins' = [logins EXCEPT ![l] = Cancelled(logins[l])]
        \/ logins' = [logins EXCEPT ![l] = TimedOut(logins[l])]
    BY Zenon, <1>2 DEF CancelLogin, WaitExpires
  <2>. QED
    BY Zenon, <1>0, <2>1, <2>2, SafeInterrupt, QueuesResemble DEF QueueResume
<1>3. CASE Taking
  BY Zenon, <1>0, <1>3, TakingLeaves, SafePacket
<1>4. CASE HandleLoginSuccess \/ HandlePasswordError
  <2>1. PICK m \in Handlers : Handles(m)
    BY Zenon, <1>4 DEF HandleLoginSuccess, HandlePasswordError, Events, Handlers
  <2>2. UNCHANGED <<attemptAge, lockHolder, logins, result, autoTask>>
    BY Zenon, <1>4 DEF HandleLoginSuccess, HandlePasswordError
  <2>3. CASE \E answer \in {"true", "false"} : Settle(answer)
    BY Zenon, <1>0, <2>1, <2>2, <2>3, SafeSettle
  <2>4. CASE ready' = Tail(ready) /\ loginFuture' = loginFuture
    <3>1. UNCHANGED <<login, attemptAge, password>>
      BY Zenon, <1>0, <2>2, <2>4 DEF login
    <3>. QED
      BY Zenon, <2>1, <2>4, <3>1, SafePacket
  <2>. QED
    BY Zenon, <1>4, <2>3, <2>4 DEF HandleLoginSuccess, HandlePasswordError
<1>5. CASE HandleAnnouncement
  <2>1. Handles("LOGIN_EVENT") /\ "LOGIN_EVENT" \in Handlers
        /\ UNCHANGED <<attemptAge, lockHolder, loginFuture, result>>
    BY Zenon, <1>5 DEF HandleAnnouncement, device, Events, Handlers
  <2>2. CASE ready' = Tail(ready) /\ UNCHANGED <<logins, autoTask>>
    <3>1. UNCHANGED <<login, attemptAge, password>>
      BY Zenon, <1>0, <2>1, <2>2 DEF login
    <3>. QED
      BY Zenon, <2>1, <2>2, <3>1, SafePacket
  <2>3. ASSUME MayAttemptLogin, NEW l \in Logins, Free(l),
               logins' = [logins EXCEPT ![l] = Queued],
               ready' = Append(Tail(ready), Start(l))
        PROVE  LoginIsSafe'
    BY Zenon, <2>1, <2>3, SafeAnnouncement
  <2>. QED
    BY Zenon, <1>5, <2>2, <2>3 DEF HandleAnnouncement
<1>6. CASE Close \/ Stop
  <2>1. UNCHANGED <<attemptAge, lockHolder, loginFuture, result, autoTask>>
    BY Zenon, <1>6 DEF Close, Stop
  <2>2. PICK q : CloseDevice(q) /\ Resembles(q)
    BY Zenon, <1>6, QueuesResemble DEF Close, Stop
  <2>3. CASE ready' = q /\ UNCHANGED logins
    <3>1. UNCHANGED <<login, attemptAge, password>>
      BY Zenon, <1>0, <2>1, <2>3 DEF login
    <3>. QED
      BY Zenon, <2>2, <2>3, <3>1, SafeReplacement
  <2>4. CASE /\ autoTask # NoLogin
             /\ logins' = [logins EXCEPT ![autoTask] = Cancelled(logins[autoTask])]
             /\ ready' = IF logins[autoTask].pc = "waiting" /\ ~logins[autoTask].woken
                         THEN Append(q, Resume(autoTask)) ELSE q
    <3>1. autoTask \in Logins
      BY <2>4 DEF Inv, TypeOK, LoginTypeOK
    <3>. QED
      BY Zenon, <1>0, <2>1, <2>2, <2>4, <3>1, SafeInterrupt
  <2>. QED
    BY Zenon, <2>2, <2>3, <2>4 DEF CloseDevice
<1>7. CASE Tick
  BY Zenon, <1>7, SafeTick
<1>8. ASSUME NEW m \in Events, Deliver(m) PROVE LoginIsSafe'
  <2>1. UNCHANGED <<login, attemptAge, password>>
    BY Zenon, <1>0, <1>8 DEF Deliver, device
  <2>2. ready' = ready \/ ready' = Append(ready, Packet(m))
    BY Zenon, <1>8 DEF Deliver
  <2>3. m \in Handlers
    BY DEF Handlers
  <2>. QED
    BY Zenon, <2>1, <2>2, <2>3, SafeElsewhere, SafeArrival
<1>9. CASE Aside \/ UNCHANGED vars
  <2>1. UNCHANGED <<login, ready, attemptAge, password>>
    BY Zenon, <1>0, <1>9, AsideLeaves DEF vars, device
  <2>. QED
    BY Zenon, <2>1, SafeElsewhere
<1>. QED
  BY Zenon, <1>1, <1>2, <1>3, <1>4, <1>5, <1>6, <1>7, <1>8, <1>9, StepsSorted

-----------------------------------------------------------------------------
(* The rest of the type invariant: the callback of a resolved future needs  *)
(* the lock to be held, so the queue is typed only together with LockAgrees. *)
LEMMA QueueStep == Inv /\ [Next]_vars => QueueTypeOK'
<1> SUFFICES ASSUME Inv, [Next]_vars PROVE QueueTypeOK'
  OBVIOUS
<1>1. /\ ready \in Seq(Entries)
      /\ loginFuture = "pending" => lockHolder \in Logins
      /\ autoTask \in Logins \cup {NoLogin}
  BY DEF Inv, LoginIsSafe, LockAgrees, Locked, TypeOK, LoginTypeOK, QueueTypeOK
<1>2. CASE ready' = ready
  BY <1>1, <1>2 DEF QueueTypeOK
<1>3. CASE ready # <<>> /\ ready' = Tail(ready)
  BY <1>1, <1>3, QueueType DEF QueueTypeOK
<1>4. CASE \E e \in Entries : ready' = Append(ready, e)
  BY <1>1, <1>4, QueueType DEF QueueTypeOK
<1>5. CASE \E e \in Entries : ready # <<>> /\ ready' = Append(Tail(ready), e)
  BY <1>1, <1>5, QueueType DEF QueueTypeOK
<1>6. ASSUME NEW l \in Logins,
             \/ StartAutoLogin(l) \/ HearAnswer(l) \/ ResumeLogin(l)
             \/ UserLogin(l) \/ CancelLogin(l) \/ WaitExpires(l)
      PROVE  QueueTypeOK'
  BY Zenon, <1>2, <1>3, <1>4, <1>5, <1>6, EntryType
  DEF StartAutoLogin, HearAnswer, ResumeLogin, UserLogin, CancelLogin, WaitExpires,
      QueueResume
<1>7. CASE Taking
  BY Zenon, <1>3, <1>7, TakingLeaves DEF Handles
<1>8. CASE HandleLoginSuccess \/ HandlePasswordError
  BY Zenon, <1>1, <1>3, <1>5, <1>8, EntryType
  DEF HandleLoginSuccess, HandlePasswordError, Handles, Settle
<1>9. CASE HandleAnnouncement
  BY Zenon, <1>3, <1>5, <1>9, EntryType DEF HandleAnnouncement, Handles
<1>10. CASE Close \/ Stop
  <2>1. PICK q : CloseDevice(q) /\ q \in Seq(Entries)
    BY Zenon, <1>10, QueuesResemble DEF Close, Stop, Resembles
  <2>2. autoTask # NoLogin => Resume(autoTask) \in Entries
    BY <1>1, EntryType
  <2>3. ready' = q \/ (Resume(autoTask) \in Entries /\ ready' = Append(q, Resume(autoTask)))
    BY Zenon, <2>1, <2>2 DEF CloseDevice
  <2>. QED
    BY <2>1, <2>3, QueueType DEF QueueTypeOK
<1>11. ASSUME NEW m \in Events, Deliver(m) PROVE QueueTypeOK'
  <2>1. m \in Handlers
    BY DEF Handlers
  <2>. QED
    BY Zenon, <1>2, <1>4, <1>11, <2>1, EntryType DEF Deliver
<1>12. CASE Tick \/ Aside \/ UNCHANGED vars
  BY Zenon, <1>2, <1>12, AsideLeaves DEF Tick, vars
<1>. QED
  BY Zenon, <1>6, <1>7, <1>8, <1>9, <1>10, <1>11, <1>12, StepsSorted

LEMMA NetworkStep == TypeOK /\ [Next]_vars => NetworkTypeOK'
<1> SUFFICES ASSUME TypeOK, [Next]_vars PROVE NetworkTypeOK'
  OBVIOUS
<1>1. toClient \in SUBSET Events /\ toCharger \in SUBSET Requests
  BY DEF TypeOK, NetworkTypeOK
<1>2. CASE UNCHANGED network
  BY <1>1, <1>2 DEF network, NetworkTypeOK
<1>3. CASE \E ms \in SUBSET Requests : SendToCharger(ms)
  BY <1>1, <1>3, InFlightType DEF SendToCharger, NetworkTypeOK
<1>4. CASE /\ \E m \in Events : SendToClient(m)
           /\ \E S : toCharger' = toCharger \ S
  BY <1>1, <1>4, InFlightType DEF SendToClient, NetworkTypeOK
<1>5. CASE /\ \E S : toClient' = toClient \ S
           /\ \E S : toCharger' = toCharger \ S
  BY <1>1, <1>5 DEF NetworkTypeOK
<1>6. /\ {"LOGIN_REQUEST"} \in SUBSET Requests /\ {"REQUEST"} \in SUBSET Requests
      /\ {"PROBE"} \in SUBSET Requests /\ {"LOGIN_CONFIRM"} \in SUBSET Requests
      /\ {"RESPONSE"} \in SUBSET Requests
      /\ {} \in SUBSET Requests /\ {} \cup {"REQUEST"} \in SUBSET Requests
      /\ {"LOGIN_REQUEST"} \cup {"REQUEST"} \in SUBSET Requests
  BY DEF Requests
<1>7. /\ "LOGIN_EVENT" \in Events /\ "HEADING" \in Events /\ "REPLY" \in Events
      /\ "REPORT" \in Events /\ "LOGIN_SUCCESS" \in Events /\ "PASSWORD_ERROR" \in Events
  BY DEF Events
<1>8. ASSUME NEW l \in Logins, StartAutoLogin(l) \/ UserLogin(l) PROVE NetworkTypeOK'
  BY Zenon, <1>2, <1>3, <1>6, <1>8 DEF StartAutoLogin, UserLogin, EnterLogin
<1>9. ASSUME NEW l \in Logins, ResumeLogin(l) PROVE NetworkTypeOK'
  BY Zenon, <1>2, <1>3, <1>6, <1>9 DEF ResumeLogin, Conclude
<1>10. ASSUME NEW l \in Logins, HearAnswer(l) \/ CancelLogin(l) \/ WaitExpires(l)
       PROVE NetworkTypeOK'
  BY Zenon, <1>2, <1>10 DEF HearAnswer, CancelLogin, WaitExpires
<1>11. CASE \/ HandleHeading \/ HandleReport \/ HandleLoginSuccess
            \/ Poll \/ ReadOn \/ RereadFires \/ Probe \/ \E task \in Tasks : Begin(task)
  BY Zenon, <1>2, <1>3, <1>6, <1>11
  DEF HandleHeading, HandleReport, HandleLoginSuccess, Poll, ReadOn, RereadFires, Probe, Begin,
      Respond
<1>12. CASE \/ HandleAnnouncement \/ HandlePasswordError \/ HandleReply \/ HandleCancelled
            \/ Close \/ Stop \/ ReadEnds \/ Tick \/ DropClient \/ UNCHANGED vars
  BY Zenon, <1>2, <1>12 DEF HandleAnnouncement, HandlePasswordError, HandleReply,
     HandleCancelled, Close, Stop, ReadEnds, Tick, DropClient, vars
<1>13. CASE Announce \/ SendHeading \/ SendReport \/ OtherClient
  <2>1. toCharger' = toCharger \ {}
    BY <1>13 DEF Announce, SendHeading, SendReport, OtherClient
  <2>. QED
    BY Zenon, <1>4, <1>7, <1>13, <2>1 DEF Announce, SendHeading, SendReport, OtherClient
<1>14. ASSUME NEW m \in Requests, ChargerReceives(m) PROVE NetworkTypeOK'
  <2>1. toCharger' = toCharger \ {m}
    BY <1>14 DEF ChargerReceives
  <2>2. (\E e \in Events : SendToClient(e)) \/ toClient' = toClient
    BY <1>7, <1>14 DEF ChargerReceives
  <2>3. toClient' = toClient => toClient' = toClient \ {}
    OBVIOUS
  <2>. QED
    BY Zenon, <1>4, <1>5, <2>1, <2>2, <2>3
<1>15. ASSUME NEW m, Deliver(m) \/ Lose(m) PROVE NetworkTypeOK'
  <2>1. toCharger' = toCharger \ {} \/ toCharger' = toCharger \ {m}
    BY <1>15 DEF Deliver, Lose
  <2>. QED
    BY Zenon, <1>5, <1>15, <2>1 DEF Deliver, Lose
<1>. QED
  BY Zenon, <1>8, <1>9, <1>10, <1>11, <1>12, <1>13, <1>14, <1>15, StepsSorted
  DEF Taking, Aside

-----------------------------------------------------------------------------
(* The theorems.                                                           *)
LEMMA InvInit == Init => Inv
<1> SUFFICES ASSUME Init PROVE Inv
  OBVIOUS
<1>1. TypeOK
  BY TypeInit
<1>2. \A x : ~Has(ready, x)
  BY DEF Init, Has
<1>3. \A x, y : AtMostOnce(ready, x) /\ Before(ready, x, y)
  BY DEF Init, AtMostOnce, Before
<1>4. \A l \in Logins : logins[l].pc = "idle"
  BY LoginFields DEF Init
<1>5. LockAgrees
  BY <1>4, LoginsAssumption DEF Init, LockAgrees, Locked
<1>. QED
  BY <1>1, <1>2, <1>3, <1>4, <1>5
  DEF Inv, LoginIsSafe, QueueAgrees, NoLostWakeup, StartsComeFirst, StartsAreDue

LEMMA InvStep == Inv /\ [Next]_vars => Inv'
BY FlagsStep, AgesStep, LoginStep, QueueStep, NetworkStep, SafeStep DEF Inv, TypeOK

LEMMA InvAlways == Spec => []Inv
BY InvInit, InvStep, PTL DEF Spec

\* Whatever the packets, timers, cancellations and other calls, and for every
\* number of logins and every timing, the session's state is well typed: no age,
\* wait or retry counter runs over its limit.
THEOREM TypeCorrect == Spec => []TypeOK
<1>1. Inv => TypeOK
  BY DEF Inv
<1>. QED
  BY <1>1, InvAlways, PTL

\* One caller at a time is inside login() (device.py:189-222), the lock and the
\* future are released with it, and a login that waits is never left asleep with
\* its answer, its timeout or its cancellation already there.
THEOREM LoginSafety == Spec => []LoginIsSafe
<1>1. Inv => LoginIsSafe
  BY DEF Inv
<1>. QED
  BY <1>1, InvAlways, PTL

-----------------------------------------------------------------------------
(* The throttle, and the refinement of LoginService.                       *)

\* Every step starts a queued task when it is due, and takes Service!Next on calls.
StepKeepsPromise ==
    /\ \A l \in Logins : (logins[l].pc = "queued" /\ logins'[l].pc = "waiting")
          => attemptAge >= LOGIN_COOLDOWN
    /\ [Service!Next]_(Service!vars)

LEMMA CallFields ==
    /\ CallOf(Idle) = "idle" /\ CallOf(Queued) = "queued"
    /\ \A auto \in BOOLEAN, n \in 0..LOGIN_ATTEMPTS : CallOf(Waiting(auto, n)) = "running"
    /\ \A s \in LoginStates :
          /\ CallOf(Woken(s)) = CallOf(s) /\ CallOf(TimedOut(s)) = CallOf(s)
          /\ CallOf(Cancelled(s)) = CallOf(s) /\ CallOf(Waited(s)) = CallOf(s)
          /\ CallOf(s) = "running" <=> s.pc = "waiting"
          /\ CallOf(s) = "queued" <=> s.pc = "queued"
          /\ CallOf(s) = "idle" <=> s.pc = "idle"
BY LoginFields DEF CallOf, LoginStates

\* A change of one login moves one call.
LEMMA CallMoves ==
    ASSUME LoginTypeOK, NEW l \in Logins, NEW s,
           logins' = [logins EXCEPT ![l] = s]
    PROVE  Calls' = [Calls EXCEPT ![l] = CallOf(s)]
BY DEF Calls, LoginTypeOK

LEMMA SomeoneInside == Inv => (Locked <=> \E l \in Logins : Calls[l] = "running")
<1> SUFFICES ASSUME Inv PROVE Locked <=> \E l \in Logins : Calls[l] = "running"
  OBVIOUS
<1>1. \A l \in Logins : Calls[l] = "running" <=> logins[l].pc = "waiting"
  BY CallFields DEF Inv, TypeOK, LoginTypeOK, Calls
<1>. QED
  BY <1>1, LoginsAssumption
  DEF Inv, TypeOK, LoginTypeOK, LoginIsSafe, LockAgrees, Locked

\* A step that moves no call.
LEMMA PromiseStutter ==
    ASSUME Inv, TypeOK', Calls' = Calls, result' = result
    PROVE  StepKeepsPromise
<1>1. \A l \in Logins : CallOf(logins'[l]) = CallOf(logins[l])
  BY DEF Calls
<1>2. \A l \in Logins : logins[l].pc = "queued" => logins'[l].pc # "waiting"
  BY <1>1, CallFields DEF Inv, TypeOK, LoginTypeOK
<1>3. authenticated' \in BOOLEAN
  BY Zenon DEF TypeOK, FlagsTypeOK
<1>4. Service!Reauthorise
  BY Zenon, <1>3 DEF Service!Reauthorise
<1>. QED
  BY Zenon, <1>2, <1>4 DEF StepKeepsPromise, Service!Next

\* A step that changes one login without moving its call.
LEMMA PromiseChange ==
    ASSUME Inv, TypeOK', NEW l \in Logins, NEW s, CallOf(s) = CallOf(logins[l]),
           logins' = [logins EXCEPT ![l] = s], result' = result
    PROVE  StepKeepsPromise
<1>1. Calls' = [Calls EXCEPT ![l] = CallOf(s)]
  BY CallMoves DEF Inv, TypeOK
<1>2. Calls' = Calls
  BY <1>1 DEF Calls
<1>. QED
  BY <1>2, PromiseStutter

\* A step in which a call returns.
LEMMA PromiseReturn ==
    ASSUME Inv, NEW l \in Logins, NEW r \in {"true", "false"}, result' = r,
           r = "true" => authenticated, authenticated' = authenticated,
           logins' = [logins EXCEPT ![l] = Idle],
           Locked \/ r = "false"
    PROVE  StepKeepsPromise
<1>1. Calls' = [Calls EXCEPT ![l] = "idle"]
  <2>1. Calls' = [Calls EXCEPT ![l] = CallOf(Idle)]
    BY Zenon, CallMoves DEF Inv, TypeOK
  <2>. QED
    BY Zenon, <2>1, CallFields
<1>2. \A k \in Logins : logins[k].pc = "queued" => logins'[k].pc # "waiting"
  BY LoginFields DEF Inv, TypeOK, LoginTypeOK
<1>3. (\E k \in Logins : Calls[k] = "running") \/ r = "false"
  BY SomeoneInside
<1>4. Service!Return(l, r)
  BY Zenon, <1>1, <1>3 DEF Service!Return, Service!SomeRunning
<1>. QED
  BY Zenon, <1>2, <1>4 DEF StepKeepsPromise, Service!Next

\* A step that lets a login in, the lock being free.
LEMMA PromiseEnter ==
    ASSUME Inv, ~Locked, NEW l \in Logins, NEW auto \in BOOLEAN, EnterLogin(l, auto),
           (Encodes /\ logins[l].pc = "queued") => attemptAge >= LOGIN_COOLDOWN,
           authenticated' = authenticated
    PROVE  StepKeepsPromise
<1>1. CASE /\ Encodes /\ result' = "none"
           /\ logins' = [logins EXCEPT ![l] = Waiting(auto, 1)]
  <2>1. Calls' = [Calls EXCEPT ![l] = "running"]
    <3>1. CallOf(Waiting(auto, 1)) = "running"
      BY CallFields, TimingAssumption
    <3>2. Calls' = [Calls EXCEPT ![l] = CallOf(Waiting(auto, 1))]
      BY Zenon, <1>1, CallMoves DEF Inv, TypeOK
    <3>. QED
      BY Zenon, <3>1, <3>2
  <2>2. \A k \in Logins \ {l} : logins'[k] = logins[k]
    BY <1>1 DEF Inv, TypeOK, LoginTypeOK
  <2>3. \A k \in Logins : Calls[k] # "running"
    BY SomeoneInside
  <2>4. Service!Begin(l)
    BY Zenon, <1>1, <2>1, <2>3 DEF Service!Begin, Service!SomeRunning
  <2>5. \A k \in Logins : (logins[k].pc = "queued" /\ logins'[k].pc = "waiting")
           => attemptAge >= LOGIN_COOLDOWN
    BY <1>1, <2>2
  <2>. QED
    BY Zenon, <2>4, <2>5 DEF StepKeepsPromise, Service!Next
<1>2. CASE LeaveLogin(l, "false")
  <2>1. "false" # "true"
    OBVIOUS
  <2>. QED
    BY Zenon, <1>2, <2>1, PromiseReturn DEF LeaveLogin
<1>. QED
  BY Zenon, <1>1, <1>2 DEF EnterLogin

LEMMA PromiseStart ==
    ASSUME Inv, TypeOK', NEW l \in Logins, StartAutoLogin(l)
    PROVE  StepKeepsPromise
<1>1. ready # <<>> /\ Head(ready) = Start(l) /\ authenticated' = authenticated
  BY Zenon DEF StartAutoLogin
<1>2. Has(ready, Start(l)) /\ logins[l].pc = "queued"
  BY <1>1, TailFacts DEF Inv, TypeOK, QueueTypeOK, LoginIsSafe, QueueAgrees
<1>3. CASE ~Locked /\ EnterLogin(l, TRUE)
  BY <1>1, <1>2, <1>3, PromiseEnter DEF Inv, LoginIsSafe, StartsAreDue
<1>4. CASE /\ Locked \/ logins[l].cancelled
           /\ logins' = [logins EXCEPT ![l] = Idle]
           /\ result' = IF Receiving /\ ~logins[l].cancelled THEN "true" ELSE "false"
  <2>1. CASE Receiving /\ ~logins[l].cancelled
    <3>1. authenticated /\ Locked /\ result' = "true"
      BY Zenon, <1>4, <2>1 DEF Receiving
    <3>. QED
      BY Zenon, <1>1, <1>4, <3>1, PromiseReturn
  <2>2. CASE ~(Receiving /\ ~logins[l].cancelled)
    <3>1. result' = "false" /\ "false" # "true"
      BY <1>4, <2>2
    <3>. QED
      BY Zenon, <1>1, <1>2, <1>4, <3>1, PromiseReturn
  <2>. QED
    BY Zenon, <2>1, <2>2
<1>. QED
  BY Zenon, <1>3, <1>4 DEF StartAutoLogin

LEMMA PromiseUser ==
    ASSUME Inv, TypeOK', NEW l \in Logins, UserLogin(l)
    PROVE  StepKeepsPromise
<1>1. Free(l) /\ authenticated' = authenticated
  BY Zenon DEF UserLogin
<1>2. logins[l].pc = "idle"
  BY <1>1, FreeFacts
<1>3. CASE ~Locked /\ EnterLogin(l, FALSE)
  BY <1>1, <1>2, <1>3, PromiseEnter
<1>4. CASE /\ Locked /\ UNCHANGED logins
           /\ result' = IF Receiving THEN "true" ELSE "false"
  <2>1. PICK r \in {"true", "false"} : result' = r /\ (r = "true" => authenticated)
    BY Zenon, <1>4 DEF Receiving
  <2>2. \E k \in Logins : Calls[k] = "running"
    BY <1>4, SomeoneInside
  <2>3. Calls' = Calls /\ Calls[l] = "idle"
    BY <1>2, <1>4 DEF Calls, CallOf
  <2>4. Calls' = [Calls EXCEPT ![l] = "idle"]
    BY <2>3 DEF Calls
  <2>5. Service!Return(l, r)
    BY Zenon, <1>1, <2>1, <2>2, <2>4 DEF Service!Return, Service!SomeRunning
  <2>6. \A k \in Logins : logins[k].pc = "queued" => logins'[k].pc # "waiting"
    BY <1>4
  <2>. QED
    BY Zenon, <2>5, <2>6 DEF StepKeepsPromise, Service!Next
<1>. QED
  BY Zenon, <1>3, <1>4 DEF UserLogin

LEMMA PromiseResume ==
    ASSUME Inv, TypeOK', NEW l \in Logins, ResumeLogin(l)
    PROVE  StepKeepsPromise
<1>1. ready # <<>> /\ Head(ready) = Resume(l) /\ authenticated' = authenticated
  BY Zenon DEF ResumeLogin, device
<1>2. logins[l].pc = "waiting" /\ Locked
  BY <1>1, TailFacts, LoginsAssumption
  DEF Inv, TypeOK, QueueTypeOK, LoginIsSafe, QueueAgrees, LockAgrees, Locked
<1>3. CASE LeaveLogin(l, "false")
  <2>1. "false" # "true"
    OBVIOUS
  <2>. QED
    BY Zenon, <1>1, <1>2, <1>3, <2>1, PromiseReturn DEF LeaveLogin
<1>4. CASE LeaveLogin(l, "true") /\ authenticated
  BY Zenon, <1>1, <1>2, <1>4, PromiseReturn DEF LeaveLogin
<1>5. CASE /\ logins[l].attempt < LOGIN_ATTEMPTS
           /\ logins' = [logins EXCEPT ![l] = Waiting(@.auto, @.attempt + 1)]
           /\ UNCHANGED result
  <2>1. logins[l].auto \in BOOLEAN /\ logins[l].attempt + 1 \in 0..LOGIN_ATTEMPTS
    BY <1>5, TimingAssumption DEF Inv, TypeOK, LoginTypeOK, LoginStates
  <2>2. CallOf(Waiting(logins[l].auto, logins[l].attempt + 1)) = CallOf(logins[l])
    BY <1>2, <2>1, CallFields DEF CallOf
  <2>. QED
    BY <1>5, <2>2, PromiseChange
<1>. QED
  BY Zenon, <1>3, <1>4, <1>5 DEF ResumeLogin, Conclude

LEMMA PromiseAnnouncement ==
    ASSUME Inv, TypeOK', HandleAnnouncement
    PROVE  StepKeepsPromise
<1>1. result' = result /\ authenticated' = authenticated
  BY Zenon DEF HandleAnnouncement, device
<1>2. CASE UNCHANGED logins
  <2>1. Calls' = Calls
    BY <1>2 DEF Calls
  <2>. QED
    BY <1>1, <2>1, PromiseStutter
<1>3. ASSUME NEW l \in Logins, Free(l), logins' = [logins EXCEPT ![l] = Queued]
      PROVE  StepKeepsPromise
  <2>1. Calls[l] = "idle"
    BY <1>3, FreeFacts DEF Calls, CallOf
  <2>2. Calls' = [Calls EXCEPT ![l] = "queued"]
    <3>1. Calls' = [Calls EXCEPT ![l] = CallOf(Queued)]
      BY Zenon, <1>3, CallMoves DEF Inv, TypeOK
    <3>. QED
      BY Zenon, <3>1, CallFields
  <2>3. Service!Spawn(l)
    BY Zenon, <1>1, <2>1, <2>2 DEF Service!Spawn
  <2>4. \A k \in Logins : logins[k].pc = "queued" => logins'[k].pc # "waiting"
    BY <1>3, LoginFields DEF Inv, TypeOK, LoginTypeOK
  <2>. QED
    BY Zenon, <2>3, <2>4 DEF StepKeepsPromise, Service!Next
<1>. QED
  BY Zenon, <1>2, <1>3 DEF HandleAnnouncement

LEMMA PromiseStep == Inv /\ TypeOK' /\ [Next]_vars => StepKeepsPromise
<1> SUFFICES ASSUME Inv, TypeOK', [Next]_vars PROVE StepKeepsPromise
  OBVIOUS
<1>1. ASSUME NEW l \in Logins, StartAutoLogin(l) \/ ResumeLogin(l) \/ UserLogin(l)
      PROVE  StepKeepsPromise
  BY Zenon, <1>1, PromiseStart, PromiseResume, PromiseUser
<1>2. CASE HandleAnnouncement
  BY Zenon, <1>2, PromiseAnnouncement
<1>3. ASSUME NEW l \in Logins, HearAnswer(l) \/ CancelLogin(l) \/ WaitExpires(l)
      PROVE  StepKeepsPromise
  <2>1. result' = result
    BY Zenon, <1>3 DEF HearAnswer, CancelLogin, WaitExpires
  <2>2. CASE UNCHANGED logins
    BY <2>1, <2>2, PromiseStutter DEF Calls
  <2>3. CASE \/ logins' = [logins EXCEPT ![l] = Woken(logins[l])]
             \/ logins' = [logins EXCEPT ![l] = Cancelled(logins[l])]
             \/ logins' = [logins EXCEPT ![l] = TimedOut(logins[l])]
    <3>1. logins[l] \in LoginStates
      BY DEF Inv, TypeOK, LoginTypeOK
    <3>. QED
      BY Zenon, <2>1, <2>3, <3>1, CallFields, PromiseChange
  <2>. QED
    BY Zenon, <1>3, <2>2, <2>3 DEF HearAnswer, CancelLogin, WaitExpires
<1>4. CASE Close \/ Stop
  <2>1. result' = result
    BY Zenon, <1>4 DEF Close, Stop
  <2>2. CASE UNCHANGED logins
    BY <2>1, <2>2, PromiseStutter DEF Calls
  <2>3. CASE /\ autoTask # NoLogin
             /\ logins' = [logins EXCEPT ![autoTask] = Cancelled(logins[autoTask])]
    <3>1. autoTask \in Logins /\ logins[autoTask] \in LoginStates
      BY <2>3 DEF Inv, TypeOK, LoginTypeOK
    <3>. QED
      BY Zenon, <2>1, <2>3, <3>1, CallFields, PromiseChange
  <2>. QED
    BY Zenon, <1>4, <2>2, <2>3 DEF Close, Stop, CloseDevice
<1>5. CASE Tick
  <2>1. result' = result
    BY Zenon, <1>5 DEF Tick
  <2>2. \A l \in Logins : CallOf(logins'[l]) = CallOf(logins[l])
    BY <1>5, CallFields DEF Tick, Inv, TypeOK, LoginTypeOK
  <2>3. Calls' = Calls
    BY <2>2 DEF Calls
  <2>. QED
    BY <2>1, <2>3, PromiseStutter
<1>6. CASE HandleLoginSuccess \/ HandlePasswordError
  <2>1. UNCHANGED <<logins, result>>
    BY Zenon, <1>6 DEF HandleLoginSuccess, HandlePasswordError
  <2>. QED
    BY <2>1, PromiseStutter DEF Calls
<1>7. CASE Taking \/ Aside \/ (\E m \in Events : Deliver(m)) \/ UNCHANGED vars
  <2>1. UNCHANGED login
    BY Zenon, <1>7, TakingLeaves, AsideLeaves DEF Deliver, vars
  <2>. QED
    BY <2>1, PromiseStutter DEF login, Calls
<1>. QED
  BY Zenon, <1>1, <1>2, <1>3, <1>4, <1>5, <1>6, <1>7, StepsSorted

LEMMA PromiseAlways == Spec => [][StepKeepsPromise]_vars
<1>1. Inv /\ Inv' /\ [Next]_vars => [StepKeepsPromise]_vars
  BY Zenon, PromiseStep DEF Inv
<1>. QED
  BY <1>1, InvAlways, PTL DEF Spec

\* An automatic login's first request never comes sooner than LOGIN_COOLDOWN after
\* the previous login began, although the check and the stamp lie in different
\* callbacks (device.py:195, 265-267): tasks start in the order of their creation,
\* and a login that ends leaves none behind it.
THEOREM Throttle == Spec => AutoLoginsAreThrottled
<1>1. StepKeepsPromise => \A l \in Logins :
         (logins[l].pc = "queued" /\ logins'[l].pc = "waiting")
            => attemptAge >= LOGIN_COOLDOWN
  BY DEF StepKeepsPromise
<1>. QED
  BY <1>1, PromiseAlways, PTL DEF AutoLoginsAreThrottled

\* login() implements LoginService: one handshake at a time, callers in between are
\* turned back, and True is returned only while is_authorised.
THEOREM LoginRefines == Spec => ImplementsLoginService
<1>1. Init => Service!Init
  BY LoginFields DEF Init, Service!Init, Calls, CallOf
<1>2. [StepKeepsPromise]_vars => [Service!Next]_(Service!vars)
  <2>1. UNCHANGED vars => UNCHANGED Service!vars
    BY DEF vars, login, device, Service!vars, Calls
  <2>. QED
    BY Zenon, <2>1 DEF StepKeepsPromise
<1>. QED
  BY <1>1, <1>2, PromiseAlways, PTL DEF Spec, ImplementsLoginService, Service!Spec
-----------------------------------------------------------------------------
(* A closed device at rest.                                                *)

Quiet == AtRest' /\ toCharger' \subseteq toCharger \cup {"PROBE"}

LEMMA QuietElsewhere ==
    ASSUME AtRest, UNCHANGED <<closed, ready, lockHolder, background>>,
           toCharger' \subseteq toCharger \cup {"PROBE"}
    PROVE  Quiet
BY Zenon DEF Quiet, AtRest, Locked

\* Nobody waits, nothing is queued and nothing goes on in the background, so what happens
\* is up to the consumer, the network, the charger and probes.
LEMMA RestStep == Inv /\ AtRest /\ [Next]_vars => ConsumerCalls \/ Quiet
<1> SUFFICES ASSUME Inv, AtRest, [Next]_vars, ~ConsumerCalls PROVE Quiet
  OBVIOUS
<1>1. closed # "no" /\ ready = <<>> /\ lockHolder = NoLogin
  BY Zenon DEF AtRest, Locked
<1>2. "history" \notin background /\ "reread" \notin background
  BY DEF AtRest
<1>3. \A l \in Logins : logins[l].pc # "waiting"
  BY <1>1, LoginsAssumption DEF Inv, LoginIsSafe, LockAgrees
<1>4. ~RunReady
  BY Zenon, <1>1 DEF RunReady, StartAutoLogin, HearAnswer, ResumeLogin, HandleHeading,
     HandleLoginSuccess, HandleAnnouncement, HandlePasswordError, HandleReply, HandleReport,
     HandleCancelled, Handles
<1>5. ASSUME NEW l \in Logins PROVE ~CancelLogin(l) /\ ~WaitExpires(l)
  BY Zenon, <1>1, <1>3 DEF CancelLogin, WaitExpires
<1>6. ~Close /\ ~Stop
  BY Zenon, <1>1 DEF Close, Stop
<1>7. ~ReadOn /\ ~ReadEnds /\ ~RereadFires
  BY Zenon, <1>2 DEF ReadOn, ReadEnds, RereadFires
<1>8. CASE Probe
  <2>1. toCharger' \subseteq toCharger \cup {"PROBE"}
    BY <1>8 DEF Probe, SendToCharger, InFlight
  <2>. QED
    BY Zenon, <1>8, <2>1, QuietElsewhere DEF Probe, device, login
<1>9. CASE \/ Tick \/ Announce \/ SendHeading \/ SendReport \/ DropClient \/ OtherClient
           \/ UNCHANGED vars
  <2>1. UNCHANGED <<closed, ready, lockHolder, background, toCharger>>
    BY Zenon, <1>9 DEF Tick, Announce, SendHeading, SendReport, DropClient, OtherClient, vars,
       device, login, network
  <2>2. toCharger' \subseteq toCharger \cup {"PROBE"}
    BY <2>1
  <2>. QED
    BY Zenon, <2>1, <2>2, QuietElsewhere
<1>10. ASSUME NEW m, Deliver(m) \/ ChargerReceives(m) \/ Lose(m) PROVE Quiet
  <2>1. UNCHANGED <<closed, ready, lockHolder, background>>
    BY Zenon, <1>1, <1>10 DEF Deliver, ChargerReceives, Lose, device, login
  <2>2. toCharger' = toCharger \/ toCharger' = toCharger \ {m}
    BY Zenon, <1>10 DEF Deliver, ChargerReceives, Lose
  <2>3. toCharger' \subseteq toCharger \cup {"PROBE"}
    BY <2>2
  <2>. QED
    BY Zenon, <2>1, <2>3, QuietElsewhere
<1>. QED
  BY Zenon, <1>4, <1>5, <1>6, <1>7, <1>8, <1>9, <1>10 DEF Next

\* Once a device that is gone has run what was queued, its logins are over and its reads
\* and timers too, it sends no more unless it is called (device.py:224-230), for any
\* logins, timing and surroundings: the lock being free, no login waits for a timer or an
\* answer that could still make it go on.
THEOREM RestStaysQuiet == Spec => RestIsQuiet
<1>1. Inv /\ [Next]_vars => [AtRest => ConsumerCalls \/ Quiet]_vars
  BY Zenon, RestStep
<1>2. [AtRest => ConsumerCalls \/ Quiet]_vars
        => [AtRest => \/ ConsumerCalls
                      \/ AtRest' /\ toCharger' \subseteq toCharger \cup {"PROBE"}]_vars
  BY Zenon DEF Quiet
<1>. QED
  BY <1>1, <1>2, InvAlways, PTL DEF Spec, RestIsQuiet
-----------------------------------------------------------------------------
(* A listener that has stopped.                                            *)

\* Every handler in a queue is a cancelled one.
OnlyCancelled(q) ==
    \A i \in 1..Len(q) : q[i].step = "packet" => q[i] = Packet("CANCELLED")

StoppedDeaf == closed = "stopped" => ~authenticated /\ OnlyCancelled(ready)

LEMMA OnlyCancelledFacts ==
    ASSUME NEW q \in Seq(Entries), OnlyCancelled(q)
    PROVE  /\ q # <<>> => OnlyCancelled(Tail(q))
           /\ \A e : e.step # "packet" => OnlyCancelled(Append(q, e))
           /\ \A e : (q # <<>> /\ e.step # "packet") => OnlyCancelled(Append(Tail(q), e))
<1>1. ASSUME NEW p \in Seq(Entries), OnlyCancelled(p), NEW e, e.step # "packet"
      PROVE  OnlyCancelled(Append(p, e))
  <2>1. /\ Len(Append(p, e)) = Len(p) + 1 /\ Len(p) \in Nat
        /\ \A i \in 1..Len(p) : Append(p, e)[i] = p[i]
        /\ Append(p, e)[Len(p) + 1] = e
    OBVIOUS
  <2>. QED
    BY <1>1, <2>1 DEF OnlyCancelled
<1>2. ASSUME q # <<>> PROVE OnlyCancelled(Tail(q)) /\ Tail(q) \in Seq(Entries)
  <2>1. /\ Len(q) \in Nat \ {0} /\ Len(Tail(q)) = Len(q) - 1
        /\ \A i \in 1..Len(q) - 1 : Tail(q)[i] = q[i + 1]
    BY <1>2
  <2>2. \A i \in 1..Len(q) - 1 : i + 1 \in 1..Len(q)
    BY <2>1
  <2>. QED
    BY <1>2, <2>1, <2>2 DEF OnlyCancelled
<1>. QED
  BY <1>1, <1>2

LEMMA StoppingCancels == Inv => OnlyCancelled(HandlersCancelled)
<1> SUFFICES ASSUME Inv PROVE OnlyCancelled(HandlersCancelled)
  OBVIOUS
<1>1. ready \in Seq(Entries)
  BY DEF Inv, TypeOK, QueueTypeOK
<1>2. Len(HandlersCancelled) = Len(ready) /\ DOMAIN ready = 1..Len(ready)
  BY <1>1, QueuesResemble DEF Resembles
<1>. QED
  BY <1>2 DEF OnlyCancelled, HandlersCancelled

\* Only its own steps are still queued for a device whose listener has stopped.
LEMMA StoppedQueue ==
    ASSUME Inv, [Next]_vars, closed = "stopped", OnlyCancelled(ready)
    PROVE  OnlyCancelled(ready')
<1>1. /\ ready \in Seq(Entries)
      /\ closed # "no"
  BY DEF Inv, TypeOK, QueueTypeOK
<1>2. CASE ready' = ready
  BY <1>2
<1>3. CASE ready # <<>> /\ ready' = Tail(ready)
  BY <1>1, <1>3, OnlyCancelledFacts
<1>4. CASE \E e : e.step # "packet" /\ ready' = Append(ready, e)
  BY <1>1, <1>4, OnlyCancelledFacts
<1>5. CASE \E e : ready # <<>> /\ e.step # "packet" /\ ready' = Append(Tail(ready), e)
  BY <1>1, <1>5, OnlyCancelledFacts
<1>6. \A l : Start(l).step # "packet" /\ Resume(l).step # "packet" /\ Answered(l).step # "packet"
  BY DEF Start, Resume, Answered
<1>7. ASSUME NEW l \in Logins,
             \/ StartAutoLogin(l) \/ HearAnswer(l) \/ ResumeLogin(l)
             \/ UserLogin(l) \/ CancelLogin(l) \/ WaitExpires(l)
      PROVE  OnlyCancelled(ready')
  BY Zenon, <1>2, <1>3, <1>4, <1>5, <1>6, <1>7
  DEF StartAutoLogin, HearAnswer, ResumeLogin, UserLogin, CancelLogin, WaitExpires, QueueResume
<1>8. CASE Taking
  BY Zenon, <1>3, <1>8, TakingLeaves DEF Handles
<1>9. CASE HandleLoginSuccess \/ HandlePasswordError \/ HandleAnnouncement
  BY Zenon, <1>3, <1>5, <1>6, <1>9
  DEF HandleLoginSuccess, HandlePasswordError, HandleAnnouncement, Handles, Settle
<1>10. CASE Close \/ Stop
  BY Zenon, <1>1, <1>10 DEF Close, Stop
<1>11. CASE Tick \/ Aside \/ (\E m \in Events : Deliver(m)) \/ UNCHANGED vars
  BY Zenon, <1>1, <1>2, <1>11, AsideLeaves DEF Tick, Deliver, vars
<1>. QED
  BY Zenon, <1>7, <1>8, <1>9, <1>10, <1>11, StepsSorted

LEMMA StoppedStep == Inv /\ StoppedDeaf /\ [Next]_vars => StoppedDeaf'
<1> SUFFICES ASSUME Inv, StoppedDeaf, [Next]_vars, closed' = "stopped"
             PROVE  ~authenticated' /\ OnlyCancelled(ready')
  BY DEF StoppedDeaf
<1>1. CASE Stop
  <2>1. ~authenticated' /\ CloseDevice(HandlersCancelled)
    BY Zenon, <1>1 DEF Stop, CloseDevice
  <2>2. HandlersCancelled \in Seq(Entries) /\ OnlyCancelled(HandlersCancelled)
    BY QueuesResemble, StoppingCancels DEF Resembles
  <2>3. Resume(autoTask).step # "packet"
    BY DEF Resume
  <2>4. ready' = HandlersCancelled \/ ready' = Append(HandlersCancelled, Resume(autoTask))
    BY Zenon, <2>1 DEF CloseDevice
  <2>. QED
    BY <2>1, <2>2, <2>3, <2>4, OnlyCancelledFacts
<1>2. CASE closed # "stopped"
  <2>1. ~Close
    BY <1>2 DEF Close
  <2>2. ASSUME ~Stop PROVE closed' = closed
    <3>1. ASSUME NEW l \in Logins,
                 \/ StartAutoLogin(l) \/ HearAnswer(l) \/ ResumeLogin(l)
                 \/ UserLogin(l) \/ CancelLogin(l) \/ WaitExpires(l)
          PROVE  closed' = closed
      BY Zenon, <3>1 DEF StartAutoLogin, HearAnswer, ResumeLogin, UserLogin, CancelLogin,
                         WaitExpires, device
    <3>2. CASE HandleLoginSuccess \/ HandlePasswordError \/ HandleAnnouncement
      BY Zenon, <3>2 DEF HandleLoginSuccess, HandlePasswordError, HandleAnnouncement, device
    <3>3. CASE Tick \/ (\E m \in Events : Deliver(m)) \/ UNCHANGED vars
      BY Zenon, <3>3 DEF Tick, Deliver, device, vars
    <3>. QED
      BY Zenon, <2>1, <2>2, <3>1, <3>2, <3>3, TakingLeaves, AsideLeaves, StepsSorted
  <2>. QED
    BY Zenon, <1>1, <1>2, <2>2
<1>3. CASE closed = "stopped"
  <2>1. ~authenticated /\ OnlyCancelled(ready)
    BY <1>3 DEF StoppedDeaf
  <2>2. OnlyCancelled(ready')
    BY <1>3, <2>1, StoppedQueue
  <2>3. ~HandleLoginSuccess
    <3>1. ASSUME ready # <<>>, Head(ready) = Packet("LOGIN_SUCCESS") PROVE FALSE
      <4>1. ready \in Seq(Entries)
        BY DEF Inv, TypeOK, QueueTypeOK
      <4>2. 1 \in 1..Len(ready) /\ ready[1] = Packet("LOGIN_SUCCESS")
        BY <3>1, <4>1
      <4>. QED
        BY <2>1, <4>2 DEF OnlyCancelled, Packet
    <3>. QED
      BY Zenon, <3>1 DEF HandleLoginSuccess, Handles
  <2>4. ASSUME NEW l \in Logins,
               \/ StartAutoLogin(l) \/ HearAnswer(l) \/ ResumeLogin(l)
               \/ UserLogin(l) \/ CancelLogin(l) \/ WaitExpires(l)
        PROVE  authenticated' = authenticated
    BY Zenon, <2>4 DEF StartAutoLogin, HearAnswer, ResumeLogin, UserLogin, CancelLogin,
                       WaitExpires, device
  <2>5. ASSUME HandlePasswordError \/ Close \/ Stop PROVE authenticated' = FALSE
    BY Zenon, <2>5 DEF HandlePasswordError, Close, Stop, CloseDevice
  <2>6. ASSUME \/ HandleAnnouncement \/ Tick \/ (\E m \in Events : Deliver(m))
               \/ UNCHANGED vars
        PROVE  authenticated' = authenticated
    BY Zenon, <2>6 DEF HandleAnnouncement, Tick, Deliver, device, vars
  <2>7. authenticated' = authenticated \/ authenticated' = FALSE
    BY Zenon, <2>3, <2>4, <2>5, <2>6, TakingLeaves, AsideLeaves, StepsSorted
  <2>8. ~authenticated'
    BY Zenon, <2>1, <2>7
  <2>. QED
    BY Zenon, <2>2, <2>8
<1>. QED
  BY <1>1, <1>2, <1>3

\* Once the listener has stopped, nothing that was queued authorises a device again: its
\* handlers are cancelled where they wait, whatever waits with them, and no datagram
\* queues another (listener.py:97-110).
THEOREM StopIsFinal == Spec => []StoppedStaysOut
<1>1. Init => StoppedDeaf
  BY DEF Init, StoppedDeaf
<1>2. Inv /\ StoppedDeaf /\ [Next]_vars => StoppedDeaf'
  BY StoppedStep
<1>3. StoppedDeaf => StoppedStaysOut
  BY Zenon DEF StoppedDeaf, StoppedStaysOut
<1>. QED
  BY <1>1, <1>2, <1>3, InvAlways, PTL DEF Spec
=============================================================================
