------------------------------ MODULE Session ------------------------------
(***************************************************************************)
(* The session of one EvseDevice with its charger: what authorises the     *)
(* device, what the device takes for a live registration, the login()      *)
(* coroutine with its lock, future, retries and cancellation, the          *)
(* automatic login that an announcement starts, and what goes on when the  *)
(* device is removed or its listener stops.                                *)
(*                                                                         *)
(* The client is one asyncio loop.  `ready' is its queue of runnable       *)
(* callbacks: packet handlers (which never await, so each is one step),    *)
(* logins about to start, and logins to resume.  Datagrams cross a network *)
(* that reorders and, if Env says so, loses them.  Timestamps are ages     *)
(* that Tick advances up to the limit the code compares them with; an age  *)
(* at its limit stands for "too old" and for None, which the code treats   *)
(* alike.                                                                  *)
(***************************************************************************)
EXTENDS Naturals, Sequences, FiniteSets

CONSTANTS
    Logins,                  \* identities of login() calls alive at once
    NoLogin,
    LOGIN_ATTEMPTS,          \* requests one login sends before it gives up
    LOGIN_RETRY_INTERVAL,    \* ticks a login waits for the answer to a request
    LOGIN_COOLDOWN,          \* ticks between automatic logins
    HEADING_TIMEOUT,         \* ticks a heading keeps the registration believed
    MaxReady,                \* bound: datagrams are taken up to this queue length
    MaxInFlight,             \* bound: kinds of datagram in flight each way
    ClientAtStart,           \* may the charger hold a registration at start?
    PasswordAtStart,         \* which of Passwords may the device have?
    Env                      \* what the surroundings of the device may do

\* Of the passwords that are wrong, one that is empty starts no automatic login, and one
\* that cannot be encoded fails whatever would send it.
Passwords == {"right", "wrong", "empty", "unsendable"}

EnvSteps == {"user", "cancel", "poll", "history", "reread", "late", "close", "stop",
             "report", "probe", "others", "drop", "lose"}

ASSUME LoginsAssumption == NoLogin \notin Logins
ASSUME TimingAssumption ==
    /\ LOGIN_ATTEMPTS \in Nat \ {0}
    /\ LOGIN_RETRY_INTERVAL \in Nat \ {0}
    /\ LOGIN_COOLDOWN \in Nat \ {0}
    /\ HEADING_TIMEOUT \in Nat \ {0}
ASSUME BoundsAssumption ==
    /\ MaxReady \in Nat \ {0} /\ MaxInFlight \in Nat \ {0}
    /\ ClientAtStart \subseteq BOOLEAN /\ PasswordAtStart \subseteq Passwords
    /\ Env \subseteq EnvSteps

VARIABLES
    authenticated,           \* _authenticated
    headingAge,              \* since _last_heading
    attemptAge,              \* since _last_login_attempt
    loginFuture,             \* _login_future
    lockHolder,              \* who is inside _login_lock
    logins,                  \* the login() coroutines
    result,                  \* what the last login() to return gave its caller
    autoTask,                \* _auto_login_task, NoLogin once it is done()
    ready,                   \* the event loop's queue of callbacks
    closed,                  \* close() ran: the device was removed, or the listener stopped
    background,              \* what else of the device is under way
    hasClient,               \* charger: holds a registration
    password,                \* password
    toClient, toCharger      \* datagrams in flight

device  == <<authenticated, headingAge, attemptAge, closed, background>>
login   == <<loginFuture, lockHolder, logins, result, autoTask>>
charger == <<hasClient, password>>
network == <<toClient, toCharger>>
vars    == <<device, login, ready, charger, network>>

\* REPLY answers a request, REPORT is sent unasked and wants an answer.
Events == {"HEADING", "LOGIN_SUCCESS", "LOGIN_EVENT", "PASSWORD_ERROR", "REPLY", "REPORT"}
Requests == {"LOGIN_REQUEST", "LOGIN_CONFIRM", "RESPONSE", "REQUEST", "PROBE"}
\* Queued handlers; those cancelled before they ran do nothing.
Handlers == Events \cup {"CANCELLED"}
\* A read_history() that runs, a timer of _rereads that is due to fire.
Tasks == {"history", "reread"}

Packet(m)   == [step |-> "packet",   arg |-> m]
Start(l)    == [step |-> "start",    arg |-> l]   \* first step of a created task
Answered(l) == [step |-> "answered", arg |-> l]   \* the shield hears of the future
Resume(l)   == [step |-> "resume",   arg |-> l]   \* the task runs again

Entries == {Packet(m) : m \in Handlers}
             \cup UNION {{Start(l), Answered(l), Resume(l)} : l \in Logins}

Receiving == authenticated /\ headingAge < HEADING_TIMEOUT
Locked == lockHolder # NoLogin
\* build_packet() can put the password into a packet.
Encodes == password # "unsendable"
\* The consumer calls a device that it has removed, or whose listener has stopped, only
\* if Env says so.
Called == closed = "no" \/ "late" \in Env
\* Mutant of MayAttemptLogin: the cooldown is forgotten.
MayAttemptUnthrottled == ~Locked
MayAttemptLogin == ~Locked /\ attemptAge >= LOGIN_COOLDOWN

\* Mutant of AnswerAtHand: every attempt waits on a future as if it were new.
NeverAtHand == FALSE
\* The future a new wait would shield is already resolved.
AnswerAtHand == loginFuture # "pending"

LoginStates ==
    [pc : {"idle", "queued", "waiting"}, auto : BOOLEAN, attempt : 0..LOGIN_ATTEMPTS,
     waited : 0..LOGIN_RETRY_INTERVAL, expired : BOOLEAN, cancelled : BOOLEAN,
     woken : BOOLEAN]

Idle ==
    [pc |-> "idle", auto |-> FALSE, attempt |-> 0, waited |-> 0, expired |-> FALSE,
     cancelled |-> FALSE, woken |-> FALSE]

Queued == [Idle EXCEPT !.pc = "queued", !.auto = TRUE]

Waiting(auto, n) == [Idle EXCEPT !.pc = "waiting", !.auto = auto, !.attempt = n]

\* What befalls a login from outside: its wait is over, timed out, or cancelled
\* (a task that has not started is cancelled without being woken).
Woken(s)     == [s EXCEPT !.woken = TRUE]
TimedOut(s)  == [s EXCEPT !.expired = TRUE, !.woken = TRUE]
Cancelled(s) == [s EXCEPT !.cancelled = TRUE, !.woken = (s.pc = "waiting")]

\* A sleeping login has its resumption queued, once.
QueueResume(l) ==
    ready' = IF logins[l].pc = "waiting" /\ ~logins[l].woken
             THEN Append(ready, Resume(l)) ELSE ready

\* An identity is taken up again once nothing refers to its last call.
Free(l) ==
    /\ logins[l].pc = "idle"
    /\ \A i \in 1..Len(ready) : ready[i].arg # l

\* Mutant of Older: an age the comparison no longer needs keeps growing.
OlderForever(age, limit) == age + 1
Older(age, limit) == IF age < limit THEN age + 1 ELSE age

Waited(s) == [s EXCEPT !.waited = Older(@, LOGIN_RETRY_INTERVAL)]

Init ==
    /\ authenticated = FALSE
    /\ headingAge = HEADING_TIMEOUT
    /\ attemptAge = LOGIN_COOLDOWN
    /\ loginFuture = "none"
    /\ lockHolder = NoLogin
    /\ logins = [l \in Logins |-> Idle]
    /\ result = "none"
    /\ autoTask = NoLogin
    /\ ready = <<>>
    /\ closed = "no"
    /\ background = {}
    /\ hasClient \in ClientAtStart
    /\ password \in PasswordAtStart
    /\ toClient = {}
    /\ toCharger = {}

\* The network holds MaxInFlight kinds of datagram each way and loses what is
\* sent into a full one.
InFlight(held, sent) ==
    IF Cardinality(held \cup sent) <= MaxInFlight THEN held \cup sent ELSE held

\* A listener that has stopped sends nothing.
SendToCharger(ms) ==
    /\ toCharger' = IF closed = "stopped" THEN toCharger ELSE InFlight(toCharger, ms)
    /\ UNCHANGED toClient
SendToClient(m)   == toClient' = InFlight(toClient, {m})

-----------------------------------------------------------------------------
(* login(): its first step, the wait, and what follows the wait.           *)

\* Mutant of LeaveLogin: no finally, so the lock stays taken.
LeaveLoginLocked(l, r) ==
    /\ logins' = [logins EXCEPT ![l] = Idle]
    /\ result' = r
    /\ lockHolder' = lockHolder
    /\ loginFuture' = "none"
    /\ autoTask' = IF autoTask = l THEN NoLogin ELSE autoTask

\* The call returns (or is cancelled): the future and the lock go, and a done
\* task is one that close() no longer cancels.
LeaveLogin(l, r) ==
    /\ logins' = [logins EXCEPT ![l] = Idle]
    /\ result' = r
    /\ lockHolder' = NoLogin
    /\ loginFuture' = "none"
    /\ autoTask' = IF autoTask = l THEN NoLogin ELSE autoTask

\* Inside the lock: stamp the attempt, make the future, send the first request.  If that
\* raises, the call is over at once.
EnterLogin(l, auto) ==
    /\ attemptAge' = 0
    /\ \/ /\ Encodes
          /\ lockHolder' = l
          /\ loginFuture' = "pending"
          /\ logins' = [logins EXCEPT ![l] = Waiting(auto, 1)]
          /\ result' = "none"
          /\ SendToCharger({"LOGIN_REQUEST"})
          /\ UNCHANGED autoTask
       \/ /\ ~Encodes
          /\ LeaveLogin(l, "false")
          /\ UNCHANGED network

\* Mutant of Conclude: request_essentials() does not check is_authorised.
ConcludeUnchecked(l, alsoSent) ==
    IF loginFuture = "true"
    THEN LeaveLogin(l, "true") /\ SendToCharger(alsoSent \cup {"REQUEST"})
    ELSE LeaveLogin(l, "false") /\ SendToCharger(alsoSent)

\* With the answer at hand: essentials are asked for while still authorised,
\* and the NotLoggedInError of a request that came too late makes it a failure.
Conclude(l, alsoSent) ==
    IF loginFuture = "true" /\ authenticated
    THEN LeaveLogin(l, "true") /\ SendToCharger(alsoSent \cup {"REQUEST"})
    ELSE LeaveLogin(l, "false") /\ SendToCharger(alsoSent)

\* The consumer calls login(); a call made while one is under way returns at once.
UserLogin(l) ==
    /\ "user" \in Env /\ Called
    /\ Free(l)
    /\ \/ /\ ~Locked
          /\ EnterLogin(l, FALSE)
       \/ /\ Locked
          /\ result' = IF Receiving THEN "true" ELSE "false"
          /\ UNCHANGED <<lockHolder, logins, attemptAge, loginFuture, autoTask, network>>
    /\ UNCHANGED <<authenticated, headingAge, closed, background, ready, charger>>

\* The task made for an announcement takes its first step.
StartAutoLogin(l) ==
    /\ ready # <<>> /\ Head(ready) = Start(l)
    /\ ready' = Tail(ready)
    /\ \/ /\ ~Locked /\ ~logins[l].cancelled
          /\ EnterLogin(l, TRUE)
       \/ /\ Locked \/ logins[l].cancelled
          /\ logins' = [logins EXCEPT ![l] = Idle]
          /\ result' = IF Receiving /\ ~logins[l].cancelled THEN "true" ELSE "false"
          /\ autoTask' = IF autoTask = l THEN NoLogin ELSE autoTask
          /\ UNCHANGED <<lockHolder, attemptAge, loginFuture, network>>
    /\ UNCHANGED <<authenticated, headingAge, closed, background, charger>>

\* The future was resolved: the shielded wait ends, unless it already has.
HearAnswer(l) ==
    /\ ready # <<>> /\ Head(ready) = Answered(l)
    /\ IF logins[l].pc = "waiting" /\ ~logins[l].woken
       THEN /\ logins' = [logins EXCEPT ![l] = Woken(@)]
            /\ ready' = Append(Tail(ready), Resume(l))
       ELSE ready' = Tail(ready) /\ UNCHANGED logins
    /\ UNCHANGED <<device, loginFuture, lockHolder, result, autoTask, charger, network>>

\* Mutant of WaitExpires: the answer is awaited without a timeout.
WaitForever(l) == FALSE /\ UNCHANGED vars

\* wait_for's timer: it cancels the wait, even one whose answer is already queued.
WaitExpires(l) ==
    /\ logins[l].pc = "waiting"
    /\ logins[l].waited = LOGIN_RETRY_INTERVAL
    /\ ~logins[l].expired
    /\ logins' = [logins EXCEPT ![l] = TimedOut(@)]
    /\ QueueResume(l)
    /\ UNCHANGED <<device, loginFuture, lockHolder, result, autoTask, charger, network>>

\* The task of a user's login is cancelled from outside.
CancelLogin(l) ==
    /\ "cancel" \in Env
    /\ logins[l].pc = "waiting" /\ ~logins[l].auto /\ ~logins[l].cancelled
    /\ logins' = [logins EXCEPT ![l] = Cancelled(@)]
    /\ QueueResume(l)
    /\ UNCHANGED <<device, loginFuture, lockHolder, result, autoTask, charger, network>>

\* The wait is over.  Cancellation goes first, then the timeout (which a late
\* answer does not undo before the next attempt), then the answer.
ResumeLogin(l) ==
    /\ ready # <<>> /\ Head(ready) = Resume(l)
    /\ ready' = Tail(ready)
    /\ \/ /\ logins[l].cancelled
          /\ LeaveLogin(l, "false")
          /\ UNCHANGED network
       \/ /\ ~logins[l].cancelled /\ ~logins[l].expired
          /\ Conclude(l, {})
       \/ /\ ~logins[l].cancelled /\ logins[l].expired
          /\ logins[l].attempt < LOGIN_ATTEMPTS /\ AnswerAtHand
          /\ Conclude(l, {"LOGIN_REQUEST"})
       \/ /\ ~logins[l].cancelled /\ logins[l].expired
          /\ logins[l].attempt < LOGIN_ATTEMPTS /\ ~AnswerAtHand
          /\ logins' = [logins EXCEPT ![l] = Waiting(@.auto, @.attempt + 1)]
          /\ SendToCharger({"LOGIN_REQUEST"})
          /\ UNCHANGED <<lockHolder, loginFuture, result, autoTask>>
       \/ /\ ~logins[l].cancelled /\ logins[l].expired
          /\ logins[l].attempt = LOGIN_ATTEMPTS
          /\ LeaveLogin(l, "false")
          /\ UNCHANGED network
    /\ UNCHANGED <<device, charger>>

-----------------------------------------------------------------------------
(* Packet handlers: EvseDevice._handle_packet.                             *)

Handles(m) == ready # <<>> /\ Head(ready) = Packet(m)

\* set_result on a pending future, which queues its callbacks.
Settle(answer) ==
    IF loginFuture = "pending"
    THEN loginFuture' = answer /\ ready' = Append(Tail(ready), Answered(lockHolder))
    ELSE ready' = Tail(ready) /\ UNCHANGED loginFuture

\* What a handler sends fails, and is caught, if the password does not encode.
Respond(ms) == IF Encodes THEN SendToCharger(ms) ELSE UNCHANGED network

\* Answered whether or not we are logged in.
HandleHeading ==
    /\ Handles("HEADING")
    /\ headingAge' = 0
    /\ Respond({"RESPONSE"})
    /\ ready' = Tail(ready)
    /\ UNCHANGED <<authenticated, attemptAge, closed, background, login, charger>>

\* If the confirmation raises, nothing behind it happens.
HandleLoginSuccess ==
    /\ Handles("LOGIN_SUCCESS")
    /\ \/ /\ Encodes
          /\ SendToCharger({"LOGIN_CONFIRM"})
          /\ authenticated' = TRUE
          /\ headingAge' = 0
          /\ Settle("true")
       \/ /\ ~Encodes
          /\ ready' = Tail(ready)
          /\ UNCHANGED <<authenticated, headingAge, loginFuture, network>>
    /\ UNCHANGED <<attemptAge, closed, background, lockHolder, logins, result, autoTask, charger>>

\* An announcement: with a password, no registration of ours and the cooldown over, a
\* login task is created and becomes the one that close() knows of.
HandleAnnouncement ==
    /\ Handles("LOGIN_EVENT")
    /\ \/ /\ password # "empty" /\ ~Receiving /\ MayAttemptLogin
          /\ \E l \in Logins :
                /\ Free(l)
                /\ logins' = [logins EXCEPT ![l] = Queued]
                /\ autoTask' = l
                /\ ready' = Append(Tail(ready), Start(l))
       \/ /\ password = "empty" \/ Receiving \/ ~MayAttemptLogin
          /\ ready' = Tail(ready)
          /\ UNCHANGED <<logins, autoTask>>
    /\ UNCHANGED <<device, loginFuture, lockHolder, result, charger, network>>

HandlePasswordError ==
    /\ Handles("PASSWORD_ERROR")
    /\ authenticated' = FALSE
    /\ headingAge' = HEADING_TIMEOUT
    /\ Settle("false")
    /\ UNCHANGED <<attemptAge, closed, background, lockHolder, logins, result, autoTask, charger, network>>

\* Mutant of HandleReply: any traffic counts as life.
HandleReplyAsLife ==
    /\ Handles("REPLY")
    /\ headingAge' = 0
    /\ ready' = Tail(ready)
    /\ UNCHANGED <<authenticated, attemptAge, closed, background, login, charger, network>>

\* Any answer to a request: status, settings, clock.  Nothing of the session moves.
HandleReply ==
    /\ Handles("REPLY")
    /\ ready' = Tail(ready)
    /\ UNCHANGED <<device, login, charger, network>>

\* What the charger sends unasked, its status, its charge or a record, is answered.
HandleReport ==
    /\ Handles("REPORT")
    /\ Respond({"RESPONSE"})
    /\ ready' = Tail(ready)
    /\ UNCHANGED <<device, login, charger>>

HandleCancelled ==
    /\ Handles("CANCELLED")
    /\ ready' = Tail(ready)
    /\ UNCHANGED <<device, login, charger, network>>

-----------------------------------------------------------------------------
(* The rest of the device, and its listener.                               *)

\* request_status() and the other commands an authorised device sends.
Poll ==
    /\ "poll" \in Env /\ Called
    /\ authenticated
    /\ SendToCharger({"REQUEST"})
    /\ UNCHANGED <<device, login, ready, charger>>

\* A command that goes on in the background: read_history(), or the set of a setting.
Begin(task) ==
    /\ task \in Env /\ Called
    /\ authenticated
    /\ background' = background \cup {task}
    /\ SendToCharger({"REQUEST"})
    /\ UNCHANGED <<authenticated, headingAge, attemptAge, closed, login, ready, charger>>

\* read_history() asks for another slot, whether or not we still are authorised.
ReadOn ==
    /\ "history" \in background
    /\ SendToCharger({"REQUEST"})
    /\ UNCHANGED <<device, login, ready, charger>>

\* read_history() is done, or gives up.
ReadEnds ==
    /\ "history" \in background
    /\ background' = background \ {"history"}
    /\ UNCHANGED <<authenticated, headingAge, attemptAge, closed, login, ready, charger, network>>

\* The timer after a set fires and gets the setting.
RereadFires ==
    /\ "reread" \in background
    /\ background' = background \ {"reread"}
    /\ SendToCharger({"REQUEST"})
    /\ UNCHANGED <<authenticated, headingAge, attemptAge, closed, login, ready, charger>>

\* EvseListener.probe(): a login request without a password, to everyone.
Probe ==
    /\ "probe" \in Env
    /\ SendToCharger({"PROBE"})
    /\ UNCHANGED <<device, login, ready, charger>>

\* EvseDevice.close(), with what the queue holds by then.  A read_history() goes on.
CloseDevice(queue) ==
    /\ authenticated' = FALSE
    /\ background' = background \ {"reread"}
    /\ \/ /\ autoTask = NoLogin
          /\ ready' = queue
          /\ UNCHANGED logins
       \/ /\ autoTask # NoLogin
          /\ logins' = [logins EXCEPT ![autoTask] = Cancelled(@)]
          /\ ready' = IF logins[autoTask].pc = "waiting" /\ ~logins[autoTask].woken
                      THEN Append(queue, Resume(autoTask)) ELSE queue

\* Removal of the device: close(), and the listener forgets it.  Handlers that are
\* already queued stay queued.
Close ==
    /\ "close" \in Env /\ closed = "no"
    /\ closed' = "removed"
    /\ CloseDevice(ready)
    /\ UNCHANGED <<headingAge, attemptAge, loginFuture, lockHolder, result, autoTask, charger, network>>

\* Mutant of HandlersCancelled: the queued handlers are left alone.
HandlersKept == ready

\* Queued handlers are cancelled, and so do nothing once it is their turn.
HandlersCancelled ==
    [i \in DOMAIN ready |-> IF ready[i].step = "packet" THEN Packet("CANCELLED") ELSE ready[i]]

\* EvseListener.stop(): the socket goes, every device is closed, every handler cancelled.
Stop ==
    /\ "stop" \in Env /\ closed = "no"
    /\ closed' = "stopped"
    /\ CloseDevice(HandlersCancelled)
    /\ UNCHANGED <<headingAge, attemptAge, loginFuture, lockHolder, result, autoTask, charger, network>>

\* The bound on the queue: datagrams wait in the network while it is full.
Arrives == closed # "no" \/ Len(ready) < MaxReady

\* Mutant of Deliver: the listener still routes to a device that is gone.
DeliverToClosed(m) ==
    /\ m \in toClient
    /\ toClient' = toClient \ {m}
    /\ Arrives
    /\ ready' = Append(ready, Packet(m))
    /\ UNCHANGED <<device, login, charger, toCharger>>

\* A datagram reaches the socket: its handler is queued, unless the device is gone.
Deliver(m) ==
    /\ m \in toClient
    /\ toClient' = toClient \ {m}
    /\ Arrives
    /\ ready' = IF closed = "no" THEN Append(ready, Packet(m)) ELSE ready
    /\ UNCHANGED <<device, login, charger, toCharger>>

Tick ==
    /\ headingAge' = Older(headingAge, HEADING_TIMEOUT)
    /\ attemptAge' = Older(attemptAge, LOGIN_COOLDOWN)
    /\ logins' = [l \in Logins |->
            IF logins[l].pc = "waiting" THEN Waited(logins[l]) ELSE logins[l]]
    /\ UNCHANGED <<authenticated, closed, background, loginFuture, lockHolder, result,
                   autoTask, ready, charger, network>>

-----------------------------------------------------------------------------
(* The charger (after evsemaster.testing.FakeEvse) and its surroundings.   *)

Announce ==
    /\ ~hasClient
    /\ SendToClient("LOGIN_EVENT")
    /\ UNCHANGED <<device, login, ready, charger, toCharger>>

SendHeading ==
    /\ hasClient
    /\ SendToClient("HEADING")
    /\ UNCHANGED <<device, login, ready, charger, toCharger>>

\* A status, a charge or a finished session, sent unasked.
SendReport ==
    /\ "report" \in Env /\ hasClient
    /\ SendToClient("REPORT")
    /\ UNCHANGED <<device, login, ready, charger, toCharger>>

\* Every frame is broadcast, so the answer to a probe reaches us all the same.
ChargerReceives(m) ==
    /\ m \in toCharger
    /\ toCharger' = toCharger \ {m}
    /\ hasClient' = (hasClient \/ m = "LOGIN_CONFIRM")
    /\ CASE m = "LOGIN_REQUEST" ->
              SendToClient(IF password = "right" THEN "LOGIN_SUCCESS" ELSE "PASSWORD_ERROR")
         [] m = "PROBE" -> SendToClient("PASSWORD_ERROR")
         [] m = "REQUEST" -> SendToClient("REPLY")
         [] OTHER -> UNCHANGED toClient
    /\ UNCHANGED <<device, login, ready, password>>

\* Power cycle, or any of the unknown reasons a charger has to forget its client.
DropClient ==
    /\ "drop" \in Env
    /\ hasClient
    /\ hasClient' = FALSE
    /\ UNCHANGED <<device, login, ready, password, network>>

\* Another client of the same charger logs in, or mistypes the password.
OtherClient ==
    /\ "others" \in Env
    /\ \/ SendToClient("LOGIN_SUCCESS") /\ hasClient' = TRUE
       \/ SendToClient("PASSWORD_ERROR") /\ UNCHANGED hasClient
    /\ UNCHANGED <<device, login, ready, password, toCharger>>

\* A datagram is lost at the moment it would have arrived.
Lose(m) ==
    /\ "lose" \in Env
    /\ \/ m \in toClient /\ Arrives
       \/ m \in toCharger
    /\ toClient' = toClient \ {m}
    /\ toCharger' = toCharger \ {m}
    /\ UNCHANGED <<device, login, ready, charger>>

-----------------------------------------------------------------------------
\* One callback of the event loop, whichever is at the head of the queue.
RunReady ==
    \/ \E l \in Logins : StartAutoLogin(l) \/ HearAnswer(l) \/ ResumeLogin(l)
    \/ HandleHeading
    \/ HandleLoginSuccess
    \/ HandleAnnouncement
    \/ HandlePasswordError
    \/ HandleReply
    \/ HandleReport
    \/ HandleCancelled

\* Calls of the consumer.
ConsumerCalls ==
    \/ \E l \in Logins : UserLogin(l)
    \/ Poll
    \/ \E task \in Tasks : Begin(task)

Next ==
    \/ RunReady
    \/ ConsumerCalls
    \/ \E l \in Logins : CancelLogin(l) \/ WaitExpires(l)
    \/ ReadOn
    \/ ReadEnds
    \/ RereadFires
    \/ Probe
    \/ Close
    \/ Stop
    \/ Tick
    \/ \E m \in Events : Deliver(m)
    \/ Announce
    \/ SendHeading
    \/ SendReport
    \/ \E m \in Requests : ChargerReceives(m)
    \/ DropClient
    \/ OtherClient
    \/ \E m \in Events \cup Requests : Lose(m)

Spec == Init /\ [][Next]_vars

\* The event loop runs what is queued, its timers fire, time passes, and a read of the
\* history, which asks for so many slots and no more, comes to its end.
LoopFairness ==
    /\ WF_vars(RunReady)
    /\ WF_vars(Tick)
    /\ WF_vars(ReadEnds)
    /\ WF_vars(RereadFires)
    /\ \A l \in Logins : WF_vars(WaitExpires(l))

\* The charger keeps its beat, of announcements or of headings, and a datagram of
\* the handshake or a beat that is sent again and again gets through.
NetworkFairness ==
    /\ WF_vars(Announce)
    /\ WF_vars(SendHeading)
    /\ SF_vars(ChargerReceives("LOGIN_REQUEST"))
    /\ \A m \in {"LOGIN_EVENT", "LOGIN_SUCCESS", "HEADING"} : SF_vars(Deliver(m))

LoopSpec == Spec /\ LoopFairness
FairSpec == LoopSpec /\ NetworkFairness

-----------------------------------------------------------------------------
(* Properties.                                                             *)

FlagsTypeOK ==
    /\ authenticated \in BOOLEAN /\ closed \in {"no", "removed", "stopped"}
    /\ background \subseteq Tasks
    /\ hasClient \in BOOLEAN /\ password \in Passwords

AgesTypeOK == headingAge \in 0..HEADING_TIMEOUT /\ attemptAge \in 0..LOGIN_COOLDOWN

LoginTypeOK ==
    /\ loginFuture \in {"none", "pending", "true", "false"}
    /\ lockHolder \in Logins \cup {NoLogin}
    /\ logins \in [Logins -> LoginStates]
    /\ result \in {"none", "true", "false"}
    /\ autoTask \in Logins \cup {NoLogin}

QueueTypeOK == ready \in Seq(Entries)

NetworkTypeOK == toClient \subseteq Events /\ toCharger \subseteq Requests

\* Types: no age and no retry counter runs over its limit, and only packets and
\* steps of known logins are ever queued.
TypeOK == FlagsTypeOK /\ AgesTypeOK /\ LoginTypeOK /\ QueueTypeOK /\ NetworkTypeOK

Has(q, e) == \E i \in 1..Len(q) : q[i] = e
AtMostOnce(q, e) == \A i, j \in 1..Len(q) : q[i] = e /\ q[j] = e => i = j
Before(q, a, b) == \A i, j \in 1..Len(q) : q[i] = a /\ q[j] = b => i < j

\* The lock, the future and the coroutines agree on who is inside login().
LockAgrees ==
    /\ \A l \in Logins : logins[l].pc = "waiting" <=> lockHolder = l
    /\ Locked <=> loginFuture # "none"

\* Only a created task starts and only a woken login resumes, and each once.
QueueAgrees ==
    \A l \in Logins :
        /\ Has(ready, Start(l)) => logins[l].pc = "queued"
        /\ Has(ready, Resume(l)) => logins[l].pc = "waiting" /\ logins[l].woken
        /\ AtMostOnce(ready, Start(l)) /\ AtMostOnce(ready, Resume(l))

\* A login that waits is woken for every reason to wake it: once marked, its
\* resumption is queued; while it sleeps, an answered future has its callback
\* queued (device.py:204-205, 260, 273: set_result may run between two waits).
NoLostWakeup ==
    \A l \in Logins : logins[l].pc = "waiting" =>
        /\ logins[l].woken => Has(ready, Resume(l))
        /\ (~logins[l].woken /\ loginFuture # "pending") => Has(ready, Answered(l))

\* What makes the throttle work: tasks created before a login began start before
\* it resumes, and while nobody is logging in a task waiting to start has the
\* cooldown behind it (but for logins that fail in their first step).
StartsComeFirst == \A k, l \in Logins : Before(ready, Start(k), Resume(l))
StartsAreDue ==
    \A l \in Logins :
        (Encodes /\ ~Locked /\ Has(ready, Start(l))) => attemptAge >= LOGIN_COOLDOWN

\* login() under every interleaving of its wait with answers, timers, cancellation
\* and other calls: one caller inside, nobody asleep on an answer, no step taken
\* twice or for a call that is over.
LoginIsSafe ==
    LockAgrees /\ QueueAgrees /\ NoLostWakeup /\ StartsComeFirst /\ StartsAreDue

\* However fast announcements arrive and however long the loop stalls, the login
\* an announcement starts never comes sooner than the cooldown after the previous
\* login, although the check (device.py:265) and the stamp (device.py:195) are in
\* different callbacks and two announcements can pass the check together.
AutoLoginsAreThrottled ==
    [][\A l \in Logins :
         (logins[l].pc = "queued" /\ logins'[l].pc = "waiting")
            => attemptAge >= LOGIN_COOLDOWN]_vars

\* A device that is gone, with nothing queued, nobody inside login() and nothing else
\* under way.
AtRest == closed # "no" /\ ready = <<>> /\ ~Locked /\ background = {}

\* "The device stops sending after this" (device.py:225), once it is at rest: whatever
\* still arrives, no timer, late answer or announcement makes it send again or begin
\* anything, unless the consumer calls it.
RestIsQuiet ==
    [][AtRest => \/ ConsumerCalls
                 \/ AtRest' /\ toCharger' \subseteq toCharger \cup {"PROBE"}]_vars

\* close() lets the handlers that are queued run, the login a user began and a read of
\* the history go on, and a handler begin another login (device.py:224-230), but all of
\* it comes to an end.
ComesToRest == closed # "no" ~> AtRest

\* No answer that was queued when the listener stopped authorises a device that was
\* dropped (listener.py:103-107).
StoppedStaysOut == closed = "stopped" => ~authenticated

\* login() keeps its promise: the device implements LoginService.
CallOf(s) == IF s.pc = "waiting" THEN "running" ELSE s.pc
Calls == [l \in Logins |-> CallOf(logins[l])]
Service == INSTANCE LoginService WITH call <- Calls, authorised <- authenticated

ImplementsLoginService == Service!Spec
EveryLoginReturns == Service!EveryCallReturns

\* A device with the right password that is not receiving logs in by itself
\* (README.md:108, device.py:262-267), whatever datagrams are lost.
LogsBackIn == password = "right" => (~Receiving ~> (Receiving \/ closed # "no"))

\* The same, asked only of runs in which probing has come to an end.
ProbingEnds == <>[]("PROBE" \notin toCharger /\ "PASSWORD_ERROR" \notin toClient)
LogsBackInAfterProbes ==
    (password = "right" /\ ProbingEnds) => (~Receiving ~> (Receiving \/ closed # "no"))

\* A charger that forgot its client is noticed even while it answers every poll
\* (device.py:122-132).
DropIsNoticed == ~hasClient ~> (hasClient \/ ~Receiving)
=============================================================================
