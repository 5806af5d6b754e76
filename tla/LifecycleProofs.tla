-------------------------- MODULE LifecycleProofs --------------------------
(* Proofs about Lifecycle, for any number of callers and sockets.             *)
EXTENDS Lifecycle, SequenceTheorems, FiniteSetTheorems, TLAPS

LEMMA CallbacksAreCallbacks ==
    /\ \A c \in Callers : Made(c) \in Callbacks /\ Resume(c) \in Callbacks
    /\ \A s \in Sockets : Lost(s) \in Callbacks
BY DEF Callbacks

LEMMA QueueTypes ==
    ASSUME NEW q \in Seq(Callbacks), NEW x \in Callbacks
    PROVE  /\ Append(q, x) \in Seq(Callbacks)
           /\ q # <<>> => Tail(q) \in Seq(Callbacks) /\ Append(Tail(q), x) \in Seq(Callbacks)
OBVIOUS

LEMMA CloseTypes ==
    ASSUME TypeOK, Close(transport)
    PROVE  /\ sock' \in [Sockets -> {"closed", "bound", "open", "closing"}]
           /\ ready' \in Seq(Callbacks)
<1>1. CASE transport = None
  BY <1>1 DEF Close, TypeOK
<1>2. CASE transport # None
  <2>1. Lost(transport) \in Callbacks
    BY <1>2, CallbacksAreCallbacks DEF TypeOK
  <2>2. ready \in Seq(Callbacks)
    BY DEF TypeOK
  <2>3. ready' \in Seq(Callbacks)
    BY <1>2, <2>1, <2>2, QueueTypes DEF Close
  <2> QED BY <1>2, <2>3 DEF Close, TypeOK
<1> QED BY <1>1, <1>2

LEMMA StartTypes == ASSUME TypeOK, NEW c \in Callers, Start(c) PROVE TypeOK'
<1>1. ready' \in Seq(Callbacks)
  BY CallbacksAreCallbacks, QueueTypes DEF Start, TypeOK
<1>2. PICK s \in Sockets : /\ sock' = [sock EXCEPT ![s] = "bound"]
                           /\ mine' = [mine EXCEPT ![c] = s]
  BY DEF Start
<1>3. pc' = [pc EXCEPT ![c] = "starting"]
  BY DEF Start
<1>4. /\ sock' \in [Sockets -> {"closed", "bound", "open", "closing"}]
      /\ mine' \in [Callers -> Sockets \cup {None}]
      /\ pc' \in [Callers -> {"idle", "starting", "cancelled", "stopping", "woken"}]
      /\ \A d \in Callers : pc'[d] # "idle" => mine'[d] # None
  BY <1>2, <1>3, NoneAssumption DEF TypeOK
<1>5. orderly' \in BOOLEAN
  BY DEF Start, Call
<1>6. UNCHANGED <<listenerVars, unsent>>
  BY DEF Start
<1> QED BY <1>1, <1>4, <1>5, <1>6 DEF TypeOK, listenerVars

LEMMA StopTypes == ASSUME TypeOK, NEW c \in Callers, Stop(c) PROVE TypeOK'
<1>1. /\ sock' \in [Sockets -> {"closed", "bound", "open", "closing"}]
      /\ ready' \in Seq(Callbacks)
  BY CloseTypes DEF Stop
<1>2. /\ mine' \in [Callers -> Sockets \cup {None}]
      /\ pc' \in [Callers -> {"idle", "starting", "cancelled", "stopping", "woken"}]
      /\ \A d \in Callers : pc'[d] # "idle" => mine'[d] # None
  <2>1. CASE protocol = None
    BY <2>1 DEF Stop, Await, TypeOK, callerVars
  <2>2. CASE protocol # None
    <3>1. pc' = [pc EXCEPT ![c] = "stopping"] /\ mine' = [mine EXCEPT ![c] = protocol]
      BY <2>2 DEF Stop, Await
    <3> QED BY <2>2, <3>1 DEF TypeOK
  <2> QED BY <2>1, <2>2
<1>3. orderly' \in BOOLEAN
  BY DEF Stop, Call
<1>4. transport' = None /\ protocol' = None /\ unsent' = unsent
  BY DEF Stop
<1> QED BY <1>1, <1>2, <1>3, <1>4 DEF TypeOK

LEMMA GiveUpTypes ==
    ASSUME TypeOK, NEW c \in Callers, WaitExpires(c) \/ Cancel(c)
    PROVE  TypeOK'
<1>1. ready' \in Seq(Callbacks)
  BY CallbacksAreCallbacks, QueueTypes DEF WaitExpires, Cancel, TypeOK
<1>2. /\ pc' \in [Callers -> {"idle", "starting", "cancelled", "stopping", "woken"}]
      /\ \A d \in Callers : pc'[d] # "idle" => mine[d] # None
  <2>1. pc[c] # "idle" /\ (\/ pc' = [pc EXCEPT ![c] = "woken"]
                           \/ pc' = [pc EXCEPT ![c] = "cancelled"])
    BY DEF WaitExpires, Cancel
  <2> QED BY <2>1 DEF TypeOK
<1>3. orderly' = FALSE /\ UNCHANGED <<listenerVars, mine, socketVars>>
  BY DEF WaitExpires, Cancel, GiveUp
<1> QED BY <1>1, <1>2, <1>3 DEF TypeOK, listenerVars, socketVars

LEMMA LostTypes ==
    ASSUME TypeOK, NEW s \in Sockets, NEW q \in Seq(Callbacks), ConnectionLost(s, q),
           unsent' \subseteq unsent
    PROVE  TypeOK'
<1>1. ready' \in Seq(Callbacks)
  BY CallbacksAreCallbacks, QueueTypes DEF ConnectionLost, Waiting
<1>2. /\ pc' = [c \in Callers |-> IF c \in Waiting(s) THEN "woken" ELSE pc[c]]
      /\ sock' = [sock EXCEPT ![s] = "closed"] /\ transport' = None
      /\ UNCHANGED <<protocol, mine, orderly>>
  BY DEF ConnectionLost
<1>3. \A c \in Callers : pc'[c] # "idle" => mine[c] # None
  BY <1>2 DEF TypeOK, Waiting
<1> QED BY <1>1, <1>2, <1>3 DEF TypeOK

LEMMA ReadyTypes == ASSUME TypeOK, RunReady PROVE TypeOK'
<1>1. ready \in Seq(Callbacks) /\ ready # <<>> /\ Tail(ready) \in Seq(Callbacks)
  BY DEF TypeOK, RunReady
<1>2. ASSUME NEW c \in Callers, ConnectionMade(c) PROVE TypeOK'
  <2>1. ready' \in Seq(Callbacks)
    BY <1>1, <1>2, CallbacksAreCallbacks, QueueTypes DEF ConnectionMade
  <2> QED BY <1>2, <2>1 DEF ConnectionMade, TypeOK, listenerVars, callerVars
<1>3. ASSUME NEW c \in Callers, ResumeStart(c) PROVE TypeOK'
  <2>1. mine[c] \in Sockets
    BY <1>3 DEF ResumeStart, TypeOK
  <2>2. ready' \in Seq(Callbacks)
    BY <1>1, <1>3, <2>1, CallbacksAreCallbacks, QueueTypes DEF ResumeStart
  <2>3. /\ transport' \in Sockets \cup {None} /\ protocol' \in Sockets \cup {None}
        /\ sock' \in [Sockets -> {"closed", "bound", "open", "closing"}]
    BY <1>3, <2>1 DEF ResumeStart, TypeOK
  <2>4. pc' = [pc EXCEPT ![c] = "idle"] /\ UNCHANGED <<mine, unsent, orderly>>
    BY <1>3 DEF ResumeStart
  <2> QED BY <2>2, <2>3, <2>4 DEF TypeOK
<1>4. ASSUME NEW c \in Callers, ResumeStop(c) PROVE TypeOK'
  BY <1>1, <1>4 DEF ResumeStop, TypeOK, listenerVars, socketVars
<1>5. ASSUME NEW s \in Sockets, ConnectionLost(s, Tail(ready)), UNCHANGED unsent PROVE TypeOK'
  BY <1>1, <1>5, LostTypes
<1> QED BY <1>2, <1>3, <1>4, <1>5 DEF RunReady

LEMMA NetworkTypes ==
    ASSUME TypeOK, Backlog \/ \E s \in Sockets : Flush(s)
    PROVE  TypeOK'
<1>1. CASE Backlog
  <2>1. transport \in Sockets
    BY <1>1 DEF Backlog, is_running, TypeOK
  <2> QED BY <1>1, <2>1 DEF Backlog, TypeOK, listenerVars, callerVars
<1>2. ASSUME NEW s \in Sockets, Flush(s) PROVE TypeOK'
  <2>1. unsent' \subseteq unsent /\ ready \in Seq(Callbacks)
    BY <1>2 DEF Flush, TypeOK
  <2>2. CASE ConnectionLost(s, ready)
    BY <2>1, <2>2, LostTypes
  <2>3. CASE UNCHANGED <<listenerVars, callerVars, sock, ready, orderly>>
    BY <2>1, <2>3 DEF TypeOK, listenerVars, callerVars
  <2> QED BY <1>2, <2>2, <2>3 DEF Flush
<1> QED BY <1>1, <1>2

LEMMA NextTypes == TypeOK /\ [Next]_vars => TypeOK'
<1> SUFFICES ASSUME TypeOK, [Next]_vars PROVE TypeOK'
  OBVIOUS
<1>1. CASE UNCHANGED vars
  BY <1>1 DEF vars, TypeOK
<1> QED BY <1>1, StartTypes, StopTypes, GiveUpTypes, ReadyTypes, NetworkTypes DEF Next

\* Types; and whoever waits, waits for a socket.
THEOREM LifecycleTypeCorrect == Spec => []TypeOK
<1>1. Init => TypeOK
  <2> SUFFICES ASSUME Init PROVE TypeOK
    OBVIOUS
  <2>1. ready \in Seq(Callbacks)
    BY DEF Init
  <2> QED BY <2>1 DEF Init, TypeOK
<1> QED BY <1>1, NextTypes, PTL DEF Spec

-----------------------------------------------------------------------------
(* Orderly use.  At most one call is under way, so the whole state is one  *)
(* of a few: stopped, being opened, open, being closed, closed.            *)

LEMMA CallbacksDiffer ==
    /\ \A c, d : Made(c) # Resume(d) /\ (Made(c) = Made(d) => c = d)
    /\ \A c, d : Resume(c) = Resume(d) => c = d
    /\ \A c, s : Lost(s) # Made(c) /\ Lost(s) # Resume(c)
    /\ \A s, t : Lost(s) = Lost(t) => s = t
<1>1. \A c : /\ Made(c).run = "connection_made" /\ Made(c).of = c
             /\ Resume(c).run = "resume" /\ Resume(c).of = c
             /\ Lost(c).run = "connection_lost" /\ Lost(c).of = c
  BY DEF Made, Resume, Lost
<1>2. \A c, d : Made(c) # Resume(d) /\ (Made(c) = Made(d) => c = d)
  BY <1>1
<1>3. \A c, d : Resume(c) = Resume(d) => c = d
  BY <1>1
<1>4. \A c, s : Lost(s) # Made(c) /\ Lost(s) # Resume(c)
  BY <1>1
<1>5. \A s, t : Lost(s) = Lost(t) => s = t
  BY <1>1
<1> QED BY <1>2, <1>3, <1>4, <1>5

LEMMA Singletons ==
    ASSUME NEW x, NEW y
    PROVE  /\ <<x>> # <<>> /\ Head(<<x>>) = x /\ Tail(<<x>>) = <<>>
           /\ Append(<<>>, x) = <<x>> /\ Append(Tail(<<x>>), y) = <<y>>
OBVIOUS

AllIdle == pc = [c \in Callers |-> "idle"]
OnlyCaller(c, what) == pc = [d \in Callers |-> IF d = c THEN what ELSE "idle"]
AllClosed == sock = [s \in Sockets |-> "closed"] /\ unsent = {}
OnlySocket(s, what) == sock = [t \in Sockets |-> IF t = s THEN what ELSE "closed"]
NoTransport == transport = None /\ protocol = None

Stopped == AllIdle /\ NoTransport /\ AllClosed /\ ready = <<>>

Open(s) ==
    /\ AllIdle /\ transport = s /\ protocol = s
    /\ OnlySocket(s, "open") /\ unsent \subseteq {s} /\ ready = <<>>

Opening(c, s) ==
    /\ OnlyCaller(c, "starting") /\ mine[c] = s /\ NoTransport /\ unsent = {}
    /\ \/ OnlySocket(s, "bound") /\ ready = <<Made(c)>>
       \/ OnlySocket(s, "open") /\ ready = <<Resume(c)>>

Closing(c, s) ==
    /\ OnlyCaller(c, "stopping") /\ mine[c] = s /\ NoTransport
    /\ OnlySocket(s, "closing")
    /\ \/ unsent = {s} /\ ready = <<>>
       \/ unsent = {} /\ ready = <<Lost(s)>>

Closed(c) == OnlyCaller(c, "woken") /\ NoTransport /\ AllClosed /\ ready = <<Resume(c)>>

Phases ==
    \/ Stopped
    \/ \E s \in Sockets : Open(s)
    \/ \E c \in Callers, s \in Sockets : Opening(c, s) \/ Closing(c, s)
    \/ \E c \in Callers : Closed(c)

OrderlyPhases == orderly => Phases

phaseVars == <<transport, protocol, pc, mine, sock, unsent, ready>>

LEMMA PhasesStay == ASSUME Phases, UNCHANGED phaseVars PROVE Phases'
BY DEF Phases, Stopped, Open, Opening, Closing, Closed, AllIdle, OnlyCaller, AllClosed,
       OnlySocket, NoTransport, phaseVars

\* A call that is orderly finds all callers idle.
LEMMA CallsFindIdle ==
    ASSUME TypeOK, Phases, NEW c \in Callers, \A d \in Callers : pc[d] = "idle"
    PROVE  Stopped \/ \E s \in Sockets : Open(s)
BY DEF Phases, Opening, Closing, Closed, OnlyCaller

LEMMA StartPhase ==
    ASSUME TypeOK, Stopped \/ \E s \in Sockets : Open(s), NEW c \in Callers, Start(c)
    PROVE  Phases'
<1>1. Stopped
  BY NoneAssumption DEF Start, is_running, Open
<1>2. PICK s \in Sockets : /\ sock' = [sock EXCEPT ![s] = "bound"]
                           /\ mine' = [mine EXCEPT ![c] = s]
  BY DEF Start
<1>3. OnlySocket(s, "bound")'
  BY <1>1, <1>2 DEF Stopped, AllClosed, OnlySocket
<1>4. OnlyCaller(c, "starting")'
  BY <1>1 DEF Start, Stopped, AllIdle, OnlyCaller
<1>5. ready' = <<Made(c)>>
  BY <1>1, Singletons DEF Start, Stopped
<1>6. mine'[c] = s
  BY <1>2 DEF TypeOK
<1>7. NoTransport' /\ unsent' = {}
  BY <1>1 DEF Start, Stopped, NoTransport, AllClosed, listenerVars
<1>8. Opening(c, s)'
  BY <1>3, <1>4, <1>5, <1>6, <1>7 DEF Opening
<1> QED BY <1>8 DEF Phases

LEMMA StopPhase ==
    ASSUME TypeOK, Stopped \/ \E s \in Sockets : Open(s), NEW c \in Callers, Stop(c)
    PROVE  Phases'
<1>1. CASE Stopped
  <2>1. UNCHANGED <<pc, mine, sock, ready, unsent>> /\ transport' = None /\ protocol' = None
    BY <1>1 DEF Stop, Stopped, NoTransport, Close, Await, callerVars
  <2> QED BY <1>1, <2>1 DEF Phases, Stopped, AllIdle, NoTransport, AllClosed
<1>2. ASSUME NEW s \in Sockets, Open(s) PROVE Phases'
  <2>1. transport = s /\ protocol = s /\ s # None
    BY <1>2, NoneAssumption DEF Open
  <2>2. /\ sock' = [sock EXCEPT ![s] = "closing"]
        /\ ready' = IF s \in unsent THEN ready ELSE Append(ready, Lost(s))
    BY <2>1 DEF Stop, Close
  <2>3. pc' = [pc EXCEPT ![c] = "stopping"] /\ mine' = [mine EXCEPT ![c] = s]
    BY <2>1 DEF Stop, Await
  <2>4. OnlySocket(s, "closing")'
    BY <1>2, <2>2 DEF Open, OnlySocket
  <2>5. OnlyCaller(c, "stopping")'
    BY <1>2, <2>3 DEF Open, AllIdle, OnlyCaller
  <2>6. mine'[c] = s
    BY <2>3 DEF TypeOK
  <2>7. \/ unsent' = {s} /\ ready' = <<>>
        \/ unsent' = {} /\ ready' = <<Lost(s)>>
    BY <1>2, <2>2, Singletons DEF Open, Stop
  <2>8. NoTransport'
    BY DEF Stop, NoTransport
  <2>9. Closing(c, s)'
    BY <2>4, <2>5, <2>6, <2>7, <2>8 DEF Closing
  <2> QED BY <2>9 DEF Phases
<1> QED BY <1>1, <1>2

LEMMA OpeningPhase ==
    ASSUME TypeOK, NEW c \in Callers, NEW s \in Sockets, Opening(c, s), RunReady
    PROVE  Phases'
<1>1. CASE OnlySocket(s, "bound") /\ ready = <<Made(c)>>
  <2>1. ConnectionMade(c)
    BY <1>1, Singletons, CallbacksDiffer DEF RunReady
  <2>2. pc[c] = "starting" /\ mine[c] = s
    BY DEF Opening, OnlyCaller
  <2>3. ready' = <<Resume(c)>>
    BY <1>1, <2>1, <2>2, Singletons DEF ConnectionMade
  <2>4. OnlySocket(s, "open")'
    BY <1>1, <2>1, <2>2 DEF ConnectionMade, OnlySocket
  <2>5. Opening(c, s)'
    BY <2>1, <2>3, <2>4 DEF ConnectionMade, Opening, OnlyCaller, NoTransport, listenerVars, callerVars
  <2> QED BY <2>5 DEF Phases
<1>2. CASE OnlySocket(s, "open") /\ ready = <<Resume(c)>>
  <2>1. ResumeStart(c) \/ ResumeStop(c)
    BY <1>2, Singletons, CallbacksDiffer DEF RunReady
  <2>2. pc[c] = "starting" /\ mine[c] = s
    BY DEF Opening, OnlyCaller
  <2>3. ResumeStart(c)
    BY <2>1, <2>2 DEF ResumeStop
  <2>4. transport' = s /\ protocol' = s /\ ready' = <<>> /\ sock' = sock /\ unsent' = unsent
    BY <1>2, <2>2, <2>3, Singletons DEF ResumeStart
  <2>5. AllIdle'
    BY <2>3 DEF ResumeStart, Opening, OnlyCaller, AllIdle
  <2>6. Open(s)'
    BY <1>2, <2>4, <2>5 DEF Open, Opening, OnlySocket
  <2> QED BY <2>6 DEF Phases
<1> QED BY <1>1, <1>2 DEF Opening

\* The wait ends with the socket's connection_lost(), after which all are closed.
LEMMA LostPhase ==
    ASSUME TypeOK, NEW c \in Callers, NEW s \in Sockets, Closing(c, s), ConnectionLost(s, <<>>),
           unsent' = {}
    PROVE  Phases'
<1>1. Waiting(s) = {c}
  BY DEF Closing, OnlyCaller, Waiting
<1>2. ready' = <<Resume(c)>>
  BY <1>1, Singletons DEF ConnectionLost
<1>3. OnlyCaller(c, "woken")'
  BY <1>1 DEF ConnectionLost, Closing, OnlyCaller
<1>4. AllClosed'
  BY DEF ConnectionLost, Closing, OnlySocket, AllClosed
<1>5. Closed(c)'
  BY <1>2, <1>3, <1>4 DEF Closed, ConnectionLost, Closing, NoTransport
<1> QED BY <1>5 DEF Phases

LEMMA ClosingPhase ==
    ASSUME TypeOK, NEW c \in Callers, NEW s \in Sockets, Closing(c, s),
           RunReady \/ \E t \in Sockets : Flush(t)
    PROVE  Phases'
<1>1. CASE RunReady
  <2>1. ready = <<Lost(s)>> /\ unsent = {}
    BY <1>1 DEF RunReady, Closing
  <2>2. ConnectionLost(s, <<>>) /\ unsent' = unsent
    BY <1>1, <2>1, Singletons, CallbacksDiffer DEF RunReady
  <2> QED BY <2>1, <2>2, LostPhase
<1>2. ASSUME NEW t \in Sockets, Flush(t) PROVE Phases'
  <2>1. t = s /\ unsent = {s} /\ ready = <<>>
    BY <1>2 DEF Flush, Closing
  <2>2. sock[s] = "closing"
    BY DEF Closing, OnlySocket
  <2>3. ConnectionLost(s, <<>>) /\ unsent' = {}
    BY <1>2, <2>1, <2>2 DEF Flush
  <2> QED BY <2>3, LostPhase
<1> QED BY <1>1, <1>2

LEMMA ClosedPhase ==
    ASSUME TypeOK, NEW c \in Callers, Closed(c), RunReady
    PROVE  Phases'
<1>1. ResumeStart(c) \/ ResumeStop(c)
  BY Singletons, CallbacksDiffer DEF RunReady, Closed
<1>2. pc[c] = "woken"
  BY DEF Closed, OnlyCaller
<1>3. ResumeStop(c)
  BY <1>1, <1>2 DEF ResumeStart
<1>4. ready' = <<>> /\ UNCHANGED <<transport, protocol, sock, unsent>>
  BY <1>3, Singletons DEF ResumeStop, Closed, listenerVars, socketVars
<1>5. AllIdle'
  BY <1>3 DEF ResumeStop, Closed, OnlyCaller, AllIdle
<1>6. Stopped'
  BY <1>4, <1>5 DEF Stopped, Closed, NoTransport, AllClosed
<1> QED BY <1>6 DEF Phases

LEMMA BacklogPhase == ASSUME TypeOK, Phases, Backlog PROVE Phases'
<1>1. PICK s \in Sockets : Open(s)
  BY DEF Backlog, is_running, Phases, Stopped, Opening, Closing, Closed, NoTransport
<1>2. unsent' \subseteq {s} /\ UNCHANGED <<transport, protocol, pc, sock, ready>>
  BY <1>1 DEF Backlog, Open, listenerVars, callerVars
<1>3. Open(s)'
  BY <1>1, <1>2 DEF Open, AllIdle, OnlySocket
<1> QED BY <1>3 DEF Phases

LEMMA FlushPhase ==
    ASSUME TypeOK, NEW s \in Sockets, Open(s), NEW t \in Sockets, Flush(t)
    PROVE  Phases'
<1>1. t = s /\ sock[t] # "closing" /\ unsent' = {}
  BY DEF Flush, Open, OnlySocket
<1>2. UNCHANGED <<transport, protocol, pc, sock, ready>>
  BY <1>1 DEF Flush, listenerVars, callerVars
<1>3. Open(s)'
  BY <1>1, <1>2 DEF Open, AllIdle, OnlySocket
<1> QED BY <1>3 DEF Phases

LEMMA LoopPhase ==
    ASSUME TypeOK, Phases, RunReady \/ \E t \in Sockets : Flush(t)
    PROVE  Phases'
<1>1. CASE Stopped
  BY <1>1 DEF RunReady, Flush, Stopped, AllClosed
<1>2. ASSUME NEW s \in Sockets, Open(s) PROVE Phases'
  BY <1>2, FlushPhase DEF RunReady, Open
<1>3. ASSUME NEW c \in Callers, NEW s \in Sockets, Opening(c, s) PROVE Phases'
  BY <1>3, OpeningPhase DEF Opening, Flush
<1>4. ASSUME NEW c \in Callers, NEW s \in Sockets, Closing(c, s) PROVE Phases'
  BY <1>4, ClosingPhase
<1>5. ASSUME NEW c \in Callers, Closed(c) PROVE Phases'
  BY <1>5, ClosedPhase DEF Closed, AllClosed, Flush
<1> QED BY <1>1, <1>2, <1>3, <1>4, <1>5 DEF Phases

LEMMA NextPhases ==
    ASSUME TypeOK, OrderlyPhases, [Next]_vars
    PROVE  OrderlyPhases'
<1> SUFFICES ASSUME orderly' PROVE Phases'
  BY DEF OrderlyPhases
<1>1. ASSUME NEW c \in Callers, Start(c) \/ Stop(c) PROVE Phases'
  <2>1. orderly /\ \A d \in Callers : pc[d] = "idle"
    BY <1>1 DEF Start, Stop, Call
  <2>2. Stopped \/ \E s \in Sockets : Open(s)
    BY <2>1, CallsFindIdle DEF OrderlyPhases
  <2> QED BY <1>1, <2>2, StartPhase, StopPhase
<1>2. ASSUME NEW c \in Callers, WaitExpires(c) \/ Cancel(c) PROVE FALSE
  BY <1>2 DEF WaitExpires, Cancel, GiveUp
<1>3. CASE RunReady \/ \E t \in Sockets : Flush(t)
  <2>1. orderly' = orderly
    BY <1>3 DEF RunReady, Flush, ConnectionMade, ResumeStart, ResumeStop, ConnectionLost
  <2> QED BY <1>3, <2>1, LoopPhase DEF OrderlyPhases
<1>4. CASE Backlog
  <2>1. orderly' = orderly
    BY <1>4 DEF Backlog
  <2> QED BY <1>4, <2>1, BacklogPhase DEF OrderlyPhases
<1>5. CASE UNCHANGED vars
  <2>1. orderly' = orderly /\ UNCHANGED phaseVars
    BY <1>5 DEF phaseVars, vars
  <2> QED BY <2>1, PhasesStay DEF OrderlyPhases
<1> QED BY <1>1, <1>2, <1>3, <1>4, <1>5 DEF Next

LEMMA PhasesAreSafe == ASSUME TypeOK, Phases PROVE
    /\ Cardinality(Bound) <= 1
    /\ (\A c \in Callers : pc[c] = "idle") => Bound = {transport} \ {None}
<1>1. ASSUME AllClosed PROVE Bound = {}
  BY <1>1 DEF AllClosed, Bound
<1>2. ASSUME NEW s \in Sockets, OnlySocket(s, "open") \/ OnlySocket(s, "bound") \/ OnlySocket(s, "closing")
      PROVE  Bound = {s}
  BY <1>2 DEF OnlySocket, Bound
<1>3. Bound = {} \/ \E s \in Sockets : Bound = {s}
  BY <1>1, <1>2 DEF Phases, Stopped, Open, Opening, Closing, Closed
<1>4. Cardinality(Bound) <= 1
  BY <1>3, FS_EmptySet, FS_Singleton
<1>5. ASSUME \A c \in Callers : pc[c] = "idle" PROVE Bound = {transport} \ {None}
  <2>1. Stopped \/ \E s \in Sockets : Open(s)
    BY <1>5 DEF Phases, Opening, Closing, Closed, OnlyCaller
  <2>2. CASE Stopped
    BY <1>1, <2>2 DEF Stopped, NoTransport
  <2>3. ASSUME NEW s \in Sockets, Open(s) PROVE Bound = {transport} \ {None}
    BY <1>2, <2>3, NoneAssumption DEF Open
  <2> QED BY <2>1, <2>2, <2>3
<1> QED BY <1>4, <1>5

\* In orderly use the port is never shared, no socket is left behind, and is_running
\* tells whether there is one.
THEOREM OrderlyIsSafe == Spec => []OrderlyUseIsSafe
<1>1. Init => OrderlyPhases
  BY DEF Init, OrderlyPhases, Phases, Stopped, AllIdle, NoTransport, AllClosed
<1>2. TypeOK /\ OrderlyPhases => OrderlyUseIsSafe
  BY PhasesAreSafe DEF OrderlyPhases, OrderlyUseIsSafe
<1> QED BY <1>1, <1>2, NextPhases, LifecycleTypeCorrect, PTL DEF Spec
-----------------------------------------------------------------------------
(* Any use.  What is queued for a socket or a caller tells what state it   *)
(* is in, whatever calls overlap.                                          *)

In(q, x) == \E i \in DOMAIN q : q[i] = x
Once(q, x) == \A i, j \in DOMAIN q : q[i] = x /\ q[j] = x => i = j
Precedes(q, x, y) == \A i, j \in DOMAIN q : q[i] = x /\ q[j] = y => i < j

\* No callback is queued twice, and a start is resumed after its connection is made.
Tidy(q) == (\A x : Once(q, x)) /\ \A c : Precedes(q, Made(c), Resume(c))

LEMMA AppendTidy ==
    ASSUME NEW q \in Seq(Callbacks), NEW e \in Callbacks
    PROVE  /\ \A x : In(Append(q, e), x) <=> (In(q, x) \/ x = e)
           /\ Tidy(q) /\ ~In(q, e) /\ (\A c : e = Made(c) => ~In(q, Resume(c)))
                => Tidy(Append(q, e))
<1>1. /\ Len(q) \in Nat /\ DOMAIN q = 1..Len(q) /\ DOMAIN Append(q, e) = 1..(Len(q) + 1)
      /\ \A i \in 1..Len(q) : Append(q, e)[i] = q[i]
      /\ Append(q, e)[Len(q) + 1] = e
  OBVIOUS
<1>2. \A i : i \in 1..(Len(q) + 1) <=> (i \in 1..Len(q) \/ i = Len(q) + 1)
  BY <1>1
<1>3. \A x : In(Append(q, e), x) <=> (In(q, x) \/ x = e)
  BY <1>1, <1>2 DEF In
<1>4. ASSUME Tidy(q), ~In(q, e), NEW x PROVE Once(Append(q, e), x)
  BY <1>1, <1>2, <1>4 DEF In, Once, Tidy
<1>5. ASSUME Tidy(q), NEW c, e = Made(c) => ~In(q, Resume(c))
      PROVE  Precedes(Append(q, e), Made(c), Resume(c))
  <2>1. Made(c) # Resume(c)
    BY CallbacksDiffer
  <2> QED BY <1>1, <1>2, <1>5, <2>1 DEF In, Precedes, Tidy
<1> QED BY <1>3, <1>4, <1>5 DEF Tidy

LEMMA TailTidy ==
    ASSUME NEW q \in Seq(Callbacks), q # <<>>, Tidy(q)
    PROVE  /\ Tail(q) \in Seq(Callbacks) /\ Tidy(Tail(q)) /\ In(q, Head(q))
           /\ \A x : In(Tail(q), x) <=> (In(q, x) /\ x # Head(q))
           /\ \A c : Head(q) = Resume(c) => ~In(q, Made(c))
<1>1. /\ Len(q) \in Nat \ {0} /\ DOMAIN q = 1..Len(q) /\ DOMAIN Tail(q) = 1..(Len(q) - 1)
      /\ \A i \in 1..(Len(q) - 1) : Tail(q)[i] = q[i + 1]
      /\ Head(q) = q[1] /\ Tail(q) \in Seq(Callbacks)
  OBVIOUS
<1>2. /\ \A i \in 1..(Len(q) - 1) : i + 1 \in 1..Len(q) /\ i + 1 # 1
      /\ \A i \in 1..Len(q) : i = 1 \/ (i - 1 \in 1..(Len(q) - 1) /\ (i - 1) + 1 = i)
      /\ 1 \in 1..Len(q)
  BY <1>1
<1>3. In(q, Head(q))
  BY <1>1, <1>2 DEF In
<1>4. ASSUME NEW x PROVE In(Tail(q), x) <=> (In(q, x) /\ x # Head(q))
  <2>1. Once(q, x)
    BY DEF Tidy
  <2>2. In(Tail(q), x) => In(q, x) /\ x # Head(q)
    BY <1>1, <1>2, <2>1 DEF In, Once
  <2>3. In(q, x) /\ x # Head(q) => In(Tail(q), x)
    <3> SUFFICES ASSUME In(q, x), x # Head(q) PROVE In(Tail(q), x)
      OBVIOUS
    <3>1. PICK i \in 1..Len(q) : q[i] = x
      BY <1>1 DEF In
    <3>2. i - 1 \in 1..(Len(q) - 1) /\ (i - 1) + 1 = i
      BY <1>1, <1>2, <3>1
    <3>3. Tail(q)[i - 1] = x
      BY <1>1, <3>1, <3>2
    <3> QED BY <1>1, <3>2, <3>3 DEF In
  <2> QED BY <2>2, <2>3
<1>5. ASSUME NEW x PROVE Once(Tail(q), x)
  <2>1. Once(q, x)
    BY DEF Tidy
  <2> QED BY <1>1, <1>2, <2>1 DEF Once
<1>6. ASSUME NEW c PROVE Precedes(Tail(q), Made(c), Resume(c))
  <2>1. Precedes(q, Made(c), Resume(c))
    BY DEF Tidy
  <2> QED BY <1>1, <1>2, <2>1 DEF Precedes
<1>7. ASSUME NEW c, Head(q) = Resume(c) PROVE ~In(q, Made(c))
  <2>1. Precedes(q, Made(c), Resume(c))
    BY DEF Tidy
  <2> QED BY <1>1, <1>2, <1>7, <2>1 DEF Precedes, In
<1> QED BY <1>1, <1>3, <1>4, <1>5, <1>6, <1>7 DEF Tidy

Starters == {c \in Callers : pc[c] \in {"starting", "cancelled"}}

\* Who starts has a socket of its own, bound or open, which is not the transport yet.
StartersOwn ==
    /\ \A c \in Starters : sock[mine[c]] \in {"bound", "open"} /\ mine[c] # transport
    /\ \A c, d \in Starters : mine[c] = mine[d] => c = d

MadeIsDue == \A c \in Callers : In(ready, Made(c)) => c \in Starters /\ sock[mine[c]] = "bound"

ResumeIsDue ==
    \A c \in Callers : In(ready, Resume(c)) =>
        /\ pc[c] \in {"starting", "cancelled", "woken"}
        /\ (pc[c] = "starting" => sock[mine[c]] = "open")

LostIsDue == \A s \in Sockets : In(ready, Lost(s)) => sock[s] = "closing"

UnsentIsHeld ==
    \A s \in unsent : /\ sock[s] \in {"open", "closing"} /\ ~In(ready, Lost(s))
                      /\ \A c \in Starters : mine[c] # s

QueueIsDue == MadeIsDue /\ ResumeIsDue /\ LostIsDue /\ Tidy(ready)
SocketInv == TypeOK /\ TransportIsOpen /\ StartersOwn /\ QueueIsDue /\ UnsentIsHeld

socketInvVars == <<transport, protocol, pc, mine, sock, unsent, ready>>

\* What the types say of the parts used below.
LEMMA PartTypes ==
    ASSUME TypeOK
    PROVE  /\ transport \in Sockets \cup {None} /\ None \notin Sockets
           /\ pc \in [Callers -> {"idle", "starting", "cancelled", "stopping", "woken"}]
           /\ mine \in [Callers -> Sockets \cup {None}]
           /\ \A c \in Callers : pc[c] # "idle" => mine[c] \in Sockets
           /\ sock \in [Sockets -> {"closed", "bound", "open", "closing"}]
           /\ unsent \subseteq Sockets /\ ready \in Seq(Callbacks)
BY NoneAssumption DEF TypeOK

\* What a callback more, or the head of the queue less, means for what is queued.
SameMade(q, r)   == \A d \in Callers : In(r, Made(d)) <=> In(q, Made(d))
SameResume(q, r) == \A d \in Callers : In(r, Resume(d)) <=> In(q, Resume(d))
SameLost(q, r)   == \A t \in Sockets : In(r, Lost(t)) <=> In(q, Lost(t))

LEMMA MadeAdded ==
    ASSUME NEW q \in Seq(Callbacks), NEW c \in Callers, Tidy(q), ~In(q, Made(c)), ~In(q, Resume(c))
    PROVE  /\ \A d \in Callers : In(Append(q, Made(c)), Made(d)) <=> (In(q, Made(d)) \/ d = c)
           /\ SameResume(q, Append(q, Made(c))) /\ SameLost(q, Append(q, Made(c)))
           /\ Tidy(Append(q, Made(c)))
<1>1. \A x : In(Append(q, Made(c)), x) <=> (In(q, x) \/ x = Made(c))
  BY AppendTidy, CallbacksAreCallbacks
<1>2. \A d \in Callers : In(Append(q, Made(c)), Made(d)) <=> (In(q, Made(d)) \/ d = c)
  BY <1>1, CallbacksDiffer, Zenon
<1>3. SameResume(q, Append(q, Made(c))) /\ SameLost(q, Append(q, Made(c)))
  BY <1>1, CallbacksDiffer, Zenon DEF SameResume, SameLost
<1>4. \A d : Made(c) = Made(d) => ~In(q, Resume(d))
  BY CallbacksDiffer
<1>5. Tidy(Append(q, Made(c)))
  BY <1>4, AppendTidy, CallbacksAreCallbacks
<1> QED BY <1>2, <1>3, <1>5

LEMMA ResumeAdded ==
    ASSUME NEW q \in Seq(Callbacks), NEW c \in Callers, Tidy(q), ~In(q, Resume(c))
    PROVE  /\ \A d \in Callers : In(Append(q, Resume(c)), Resume(d)) <=> (In(q, Resume(d)) \/ d = c)
           /\ SameMade(q, Append(q, Resume(c))) /\ SameLost(q, Append(q, Resume(c)))
           /\ Tidy(Append(q, Resume(c)))
<1>1. \A x : In(Append(q, Resume(c)), x) <=> (In(q, x) \/ x = Resume(c))
  BY AppendTidy, CallbacksAreCallbacks
<1>2. \A d \in Callers : In(Append(q, Resume(c)), Resume(d)) <=> (In(q, Resume(d)) \/ d = c)
  BY <1>1, CallbacksDiffer, Zenon
<1>3. SameMade(q, Append(q, Resume(c))) /\ SameLost(q, Append(q, Resume(c)))
  BY <1>1, CallbacksDiffer, Zenon DEF SameMade, SameLost
<1>4. \A d : Resume(c) # Made(d)
  BY CallbacksDiffer
<1>5. Tidy(Append(q, Resume(c)))
  BY <1>4, AppendTidy, CallbacksAreCallbacks
<1> QED BY <1>2, <1>3, <1>5

LEMMA LostAdded ==
    ASSUME NEW q \in Seq(Callbacks), NEW s \in Sockets, Tidy(q), ~In(q, Lost(s))
    PROVE  /\ \A t \in Sockets : In(Append(q, Lost(s)), Lost(t)) <=> (In(q, Lost(t)) \/ t = s)
           /\ SameMade(q, Append(q, Lost(s))) /\ SameResume(q, Append(q, Lost(s)))
           /\ Tidy(Append(q, Lost(s)))
<1>1. \A x : In(Append(q, Lost(s)), x) <=> (In(q, x) \/ x = Lost(s))
  BY AppendTidy, CallbacksAreCallbacks
<1>2. \A t \in Sockets : In(Append(q, Lost(s)), Lost(t)) <=> (In(q, Lost(t)) \/ t = s)
  BY <1>1, CallbacksDiffer, Zenon
<1>3. SameMade(q, Append(q, Lost(s))) /\ SameResume(q, Append(q, Lost(s)))
  BY <1>1, CallbacksDiffer, Zenon DEF SameMade, SameResume
<1>4. \A d : Lost(s) # Made(d)
  BY CallbacksDiffer
<1>5. Tidy(Append(q, Lost(s)))
  BY <1>4, AppendTidy, CallbacksAreCallbacks
<1> QED BY <1>2, <1>3, <1>5

LEMMA HeadTaken ==
    ASSUME NEW q \in Seq(Callbacks), q # <<>>, Tidy(q)
    PROVE  /\ Tail(q) \in Seq(Callbacks) /\ Tidy(Tail(q)) /\ In(q, Head(q))
           /\ \A d \in Callers : In(Tail(q), Made(d)) <=> (In(q, Made(d)) /\ Head(q) # Made(d))
           /\ \A d \in Callers : In(Tail(q), Resume(d)) <=> (In(q, Resume(d)) /\ Head(q) # Resume(d))
           /\ \A t \in Sockets : In(Tail(q), Lost(t)) <=> (In(q, Lost(t)) /\ Head(q) # Lost(t))
           /\ \A d \in Callers : Head(q) = Resume(d) => ~In(q, Made(d))
BY TailTidy

LEMMA StartKeeps == ASSUME SocketInv, NEW c \in Callers, Start(c) PROVE SocketInv'
<1>1. PICK s \in Sockets : /\ sock[s] = "closed" /\ sock' = [sock EXCEPT ![s] = "bound"]
                           /\ mine' = [mine EXCEPT ![c] = s]
  BY DEF Start
<1>2. /\ pc[c] = "idle" /\ pc' = [pc EXCEPT ![c] = "starting"]
      /\ ready' = Append(ready, Made(c))
      /\ UNCHANGED <<transport, protocol, unsent>>
  BY DEF Start, listenerVars
<1>t. TypeOK /\ TypeOK'
  BY StartTypes DEF SocketInv
<1>3. ~In(ready, Made(c)) /\ ~In(ready, Resume(c))
  BY <1>2 DEF SocketInv, QueueIsDue, MadeIsDue, ResumeIsDue, Starters
<1>4. /\ \A d \in Callers : In(ready', Made(d)) <=> (In(ready, Made(d)) \/ d = c)
      /\ SameResume(ready, ready') /\ SameLost(ready, ready') /\ Tidy(ready')
  BY <1>t, <1>2, <1>3, MadeAdded, PartTypes DEF SocketInv, QueueIsDue
<1>5. /\ sock'[s] = "bound" /\ \A t \in Sockets : t # s => sock'[t] = sock[t]
      /\ mine'[c] = s /\ \A d \in Callers : d # c => mine'[d] = mine[d]
      /\ pc'[c] = "starting" /\ \A d \in Callers : d # c => pc'[d] = pc[d]
  BY <1>t, <1>1, <1>2, PartTypes
<1>6. Starters' = Starters \cup {c} /\ \A d \in Starters : d # c /\ mine[d] # s /\ mine[d] \in Sockets
  BY <1>t, <1>1, <1>2, <1>5, PartTypes DEF Starters, SocketInv, StartersOwn
<1>7. transport # s /\ s \notin unsent /\ ~In(ready, Lost(s))
  BY <1>t, <1>1, PartTypes DEF SocketInv, TransportIsOpen, is_running, UnsentIsHeld, QueueIsDue, LostIsDue
<1>8. TransportIsOpen'
  BY <1>t, <1>2, <1>5, <1>7, PartTypes DEF SocketInv, TransportIsOpen, is_running
<1>9. StartersOwn'
  BY <1>2, <1>5, <1>6, <1>7 DEF SocketInv, StartersOwn, Starters
<1>10. MadeIsDue'
  BY <1>4, <1>5, <1>6 DEF SocketInv, QueueIsDue, MadeIsDue, Starters
<1>11. ResumeIsDue'
  <2>1. ASSUME NEW d \in Callers, In(ready', Resume(d)) PROVE
          /\ pc'[d] \in {"starting", "cancelled", "woken"}
          /\ (pc'[d] = "starting" => sock'[mine'[d]] = "open")
    <3>1. In(ready, Resume(d)) /\ d # c
      BY <1>3, <1>4, <2>1 DEF SameResume
    <3>2. pc[d] \in {"starting", "cancelled", "woken"} /\ (pc[d] = "starting" => sock[mine[d]] = "open")
      BY <3>1 DEF SocketInv, QueueIsDue, ResumeIsDue
    <3>3. pc[d] = "starting" => mine[d] # s /\ mine[d] \in Sockets
      BY <1>6 DEF Starters
    <3> QED BY <1>5, <3>1, <3>2, <3>3
  <2> QED BY <2>1 DEF ResumeIsDue
<1>12. LostIsDue'
  BY <1>4, <1>5, <1>7 DEF SocketInv, QueueIsDue, LostIsDue, SameLost
<1>13. UnsentIsHeld'
  <2>1. ASSUME NEW t \in unsent
        PROVE  /\ sock'[t] \in {"open", "closing"} /\ ~In(ready', Lost(t))
               /\ \A d \in Starters' : mine'[d] # t
    <3>1. t \in Sockets /\ t # s /\ sock[t] \in {"open", "closing"} /\ ~In(ready, Lost(t))
      BY <1>t, <1>7, PartTypes DEF SocketInv, UnsentIsHeld
    <3>2. \A d \in Starters : mine[d] # t
      BY DEF SocketInv, UnsentIsHeld
    <3>3. \A d \in Starters' : mine'[d] # t
      BY <1>5, <1>6, <3>1, <3>2 DEF Starters
    <3> QED BY <1>4, <1>5, <3>1, <3>3 DEF SameLost
  <2> QED BY <1>2, <2>1 DEF UnsentIsHeld
<1> QED BY <1>t, <1>4, <1>8, <1>9, <1>10, <1>11, <1>12, <1>13 DEF SocketInv, QueueIsDue

LEMMA StopKeeps == ASSUME SocketInv, NEW c \in Callers, Stop(c) PROVE SocketInv'
<1>t. TypeOK /\ TypeOK'
  BY StopTypes DEF SocketInv
<1>1. pc[c] = "idle" /\ transport' = None /\ protocol' = None /\ unsent' = unsent
  BY DEF Stop
<1>2. /\ pc'[c] \in {"idle", "stopping"}
      /\ \A d \in Callers : d # c => pc'[d] = pc[d] /\ mine'[d] = mine[d]
  BY <1>t, <1>1, PartTypes DEF Stop, Await, callerVars
<1>3. Starters' = Starters /\ c \notin Starters
  BY <1>1, <1>2 DEF Starters
<1>4. \A d \in Starters : mine'[d] = mine[d] /\ mine[d] # transport /\ mine[d] \in Sockets
  BY <1>t, <1>2, <1>3, PartTypes DEF Starters, SocketInv, StartersOwn
<1>5. \A t \in Sockets : /\ t # transport => sock'[t] = sock[t]
                         /\ t = transport => sock'[t] = "closing" /\ sock[t] = "open"
  BY <1>t, PartTypes DEF Stop, Close, SocketInv, TransportIsOpen, is_running
<1>6. /\ SameMade(ready, ready') /\ SameResume(ready, ready') /\ Tidy(ready')
      /\ \A t \in Sockets : In(ready', Lost(t))
                              <=> (In(ready, Lost(t)) \/ (t = transport /\ t \notin unsent))
  <2>1. CASE transport = None \/ transport \in unsent
    <3>1. ready' = ready
      BY <2>1 DEF Stop, Close
    <3>2. \A t \in Sockets : ~(t = transport /\ t \notin unsent)
      BY <1>t, <2>1, PartTypes
    <3> QED BY <3>1, <3>2 DEF SocketInv, QueueIsDue, SameMade, SameResume
  <2>2. CASE transport # None /\ transport \notin unsent
    <3>1. ready' = Append(ready, Lost(transport)) /\ transport \in Sockets
      BY <1>t, <2>2, PartTypes DEF Stop, Close
    <3>2. ~In(ready, Lost(transport))
      BY <1>5, <3>1 DEF SocketInv, QueueIsDue, LostIsDue
    <3> QED BY <1>t, <2>2, <3>1, <3>2, LostAdded, PartTypes DEF SocketInv, QueueIsDue
  <2> QED BY <2>1, <2>2
<1>7. TransportIsOpen'
  BY <1>1 DEF TransportIsOpen, is_running
<1>8. StartersOwn'
  <2>1. \A d \in Starters : sock'[mine'[d]] \in {"bound", "open"} /\ mine'[d] # None
    BY <1>t, <1>4, <1>5, PartTypes DEF SocketInv, StartersOwn
  <2> QED BY <1>1, <1>3, <1>4, <2>1 DEF SocketInv, StartersOwn
<1>9. MadeIsDue'
  BY <1>3, <1>4, <1>5, <1>6 DEF SocketInv, QueueIsDue, MadeIsDue, SameMade
<1>10. ResumeIsDue'
  <2>1. ASSUME NEW d \in Callers, In(ready', Resume(d)) PROVE
          /\ pc'[d] \in {"starting", "cancelled", "woken"}
          /\ (pc'[d] = "starting" => sock'[mine'[d]] = "open")
    <3>1. pc[d] \in {"starting", "cancelled", "woken"} /\ (pc[d] = "starting" => sock[mine[d]] = "open")
      BY <1>6, <2>1 DEF SocketInv, QueueIsDue, ResumeIsDue, SameResume
    <3>2. d # c
      BY <1>1, <3>1
    <3>3. pc[d] = "starting" => d \in Starters
      BY DEF Starters
    <3> QED BY <1>2, <1>4, <1>5, <3>1, <3>2, <3>3
  <2> QED BY <2>1 DEF ResumeIsDue
<1>11. LostIsDue'
  BY <1>5, <1>6 DEF SocketInv, QueueIsDue, LostIsDue
<1>12. UnsentIsHeld'
  <2>1. ASSUME NEW t \in unsent
        PROVE  /\ sock'[t] \in {"open", "closing"} /\ ~In(ready', Lost(t))
               /\ \A d \in Starters' : mine'[d] # t
    <3>1. t \in Sockets /\ sock[t] \in {"open", "closing"} /\ ~In(ready, Lost(t))
      BY <1>t, PartTypes DEF SocketInv, UnsentIsHeld
    <3>2. \A d \in Starters : mine[d] # t
      BY DEF SocketInv, UnsentIsHeld
    <3> QED BY <1>3, <1>4, <1>5, <1>6, <3>1, <3>2
  <2> QED BY <1>1, <2>1 DEF UnsentIsHeld
<1> QED BY <1>t, <1>6, <1>7, <1>8, <1>9, <1>10, <1>11, <1>12 DEF SocketInv, QueueIsDue

LEMMA GiveUpKeeps ==
    ASSUME SocketInv, NEW c \in Callers, WaitExpires(c) \/ Cancel(c)
    PROVE  SocketInv'
<1>t. TypeOK /\ TypeOK'
  BY GiveUpTypes DEF SocketInv
<1>1. UNCHANGED <<transport, protocol, mine, sock, unsent>>
  BY DEF WaitExpires, Cancel, listenerVars, socketVars
<1>2. /\ \/ pc[c] = "starting" /\ pc'[c] = "cancelled"
         \/ pc[c] = "stopping" /\ pc'[c] = "woken"
      /\ \A d \in Callers : d # c => pc'[d] = pc[d]
  BY <1>t, PartTypes DEF WaitExpires, Cancel
<1>3. Starters' = Starters
  BY <1>2 DEF Starters
<1>4. ready' = IF In(ready, Resume(c)) THEN ready ELSE Append(ready, Resume(c))
  <2>1. CASE WaitExpires(c)
    <3>1. ~In(ready, Resume(c))
      BY <2>1 DEF WaitExpires, SocketInv, QueueIsDue, ResumeIsDue
    <3> QED BY <2>1, <3>1 DEF WaitExpires
  <2>2. CASE Cancel(c)
    BY <2>2 DEF Cancel, Queued, In
  <2> QED BY <2>1, <2>2
<1>5. /\ \A d \in Callers : In(ready', Resume(d)) <=> (In(ready, Resume(d)) \/ d = c)
      /\ SameMade(ready, ready') /\ SameLost(ready, ready') /\ Tidy(ready')
  <2>1. CASE In(ready, Resume(c))
    BY <1>4, <2>1 DEF SocketInv, QueueIsDue, SameMade, SameLost
  <2>2. CASE ~In(ready, Resume(c))
    BY <1>t, <1>4, <2>2, ResumeAdded, PartTypes DEF SocketInv, QueueIsDue
  <2> QED BY <2>1, <2>2
<1>6. TransportIsOpen' /\ StartersOwn'
  BY <1>1, <1>3 DEF SocketInv, TransportIsOpen, is_running, StartersOwn
<1>7. MadeIsDue'
  BY <1>1, <1>3, <1>5 DEF SocketInv, QueueIsDue, MadeIsDue, SameMade
<1>8. ResumeIsDue'
  BY <1>1, <1>2, <1>5 DEF SocketInv, QueueIsDue, ResumeIsDue
<1>9. LostIsDue' /\ UnsentIsHeld'
  <2>1. LostIsDue'
    BY <1>1, <1>5 DEF SocketInv, QueueIsDue, LostIsDue, SameLost
  <2>2. \A t \in unsent : t \in Sockets
    BY <1>t, PartTypes
  <2>3. UnsentIsHeld'
    BY <1>1, <1>3, <1>5, <2>2 DEF SocketInv, UnsentIsHeld, SameLost
  <2> QED BY <2>1, <2>3
<1> QED BY <1>t, <1>5, <1>6, <1>7, <1>8, <1>9 DEF SocketInv, QueueIsDue

LEMMA MadeKeeps ==
    ASSUME SocketInv, RunReady, NEW c \in Callers, Head(ready) = Made(c), ConnectionMade(c), TypeOK'
    PROVE  SocketInv'
<1>t. TypeOK /\ ready # <<>>
  BY DEF SocketInv, RunReady
<1>q. /\ Tail(ready) \in Seq(Callbacks) /\ Tidy(Tail(ready)) /\ In(ready, Made(c))
      /\ \A d \in Callers : In(Tail(ready), Made(d)) => In(ready, Made(d)) /\ d # c
      /\ \A d \in Callers : In(Tail(ready), Resume(d)) <=> In(ready, Resume(d))
      /\ \A t \in Sockets : In(Tail(ready), Lost(t)) <=> In(ready, Lost(t))
  BY <1>t, HeadTaken, CallbacksDiffer, PartTypes DEF SocketInv, QueueIsDue
<1>1. c \in Starters /\ sock[mine[c]] = "bound" /\ mine[c] \in Sockets
  BY <1>t, <1>q, PartTypes DEF SocketInv, QueueIsDue, MadeIsDue, Starters
<1>2. /\ UNCHANGED <<transport, protocol, pc, mine, unsent>> /\ Starters' = Starters
      /\ sock'[mine[c]] = "open" /\ \A t \in Sockets : t # mine[c] => sock'[t] = sock[t]
  BY <1>t, <1>1, PartTypes DEF ConnectionMade, listenerVars, callerVars, Starters
<1>3. \A d \in Starters : mine[d] \in Sockets /\ (mine[d] = mine[c] => d = c)
  BY <1>t, <1>1, PartTypes DEF SocketInv, StartersOwn, Starters
<1>4. /\ \A d \in Callers : In(ready', Made(d)) => In(ready, Made(d)) /\ d # c
      /\ \A d \in Callers : In(ready', Resume(d))
                              <=> (In(ready, Resume(d)) \/ (d = c /\ pc[c] = "starting"))
      /\ \A t \in Sockets : In(ready', Lost(t)) <=> In(ready, Lost(t))
      /\ Tidy(ready')
  <2>1. CASE pc[c] = "starting"
    <3>1. ~In(Tail(ready), Resume(c))
      BY <1>q, <1>1, <2>1 DEF SocketInv, QueueIsDue, ResumeIsDue
    <3>2. ready' = Append(Tail(ready), Resume(c))
      BY <2>1 DEF ConnectionMade
    <3> QED BY <1>q, <2>1, <3>1, <3>2, ResumeAdded DEF SameMade, SameLost
  <2>2. CASE pc[c] # "starting"
    <3>1. ready' = Tail(ready)
      BY <2>2 DEF ConnectionMade
    <3> QED BY <1>q, <2>2, <3>1
  <2> QED BY <2>1, <2>2
<1>5. TransportIsOpen'
  BY <1>t, <1>2, PartTypes DEF SocketInv, TransportIsOpen, is_running
<1>6. StartersOwn'
  BY <1>2, <1>3 DEF SocketInv, StartersOwn
<1>7. MadeIsDue'
  BY <1>2, <1>3, <1>4 DEF SocketInv, QueueIsDue, MadeIsDue
<1>8. ResumeIsDue'
  <2>1. ASSUME NEW d \in Callers, In(ready', Resume(d)) PROVE
          pc[d] \in {"starting", "cancelled", "woken"} /\ (pc[d] = "starting" => sock'[mine[d]] = "open")
    <3>1. d = c \/ In(ready, Resume(d))
      BY <1>4, <2>1
    <3>2. CASE d = c
      BY <1>1, <1>2, <3>2 DEF Starters
    <3>3. CASE In(ready, Resume(d))
      <4>1. pc[d] \in {"starting", "cancelled", "woken"} /\ (pc[d] = "starting" => sock[mine[d]] = "open")
        BY <3>3 DEF SocketInv, QueueIsDue, ResumeIsDue
      <4>2. pc[d] = "starting" => mine[d] \in Sockets
        BY <1>3 DEF Starters
      <4> QED BY <1>2, <4>1, <4>2
    <3> QED BY <3>1, <3>2, <3>3
  <2> QED BY <1>2, <2>1 DEF ResumeIsDue
<1>9. LostIsDue'
  BY <1>1, <1>2, <1>4 DEF SocketInv, QueueIsDue, LostIsDue
<1>10. UnsentIsHeld'
  <2>1. \A t \in unsent : t \in Sockets /\ t # mine[c]
    BY <1>t, <1>1, PartTypes DEF SocketInv, UnsentIsHeld
  <2> QED BY <1>2, <1>4, <2>1 DEF SocketInv, UnsentIsHeld
<1> QED BY <1>4, <1>5, <1>6, <1>7, <1>8, <1>9, <1>10 DEF SocketInv, QueueIsDue

LEMMA ResumeKeeps ==
    ASSUME SocketInv, RunReady, NEW c \in Callers, Head(ready) = Resume(c),
           ResumeStart(c) \/ ResumeStop(c), TypeOK'
    PROVE  SocketInv'
<1>t. TypeOK /\ ready # <<>>
  BY DEF SocketInv, RunReady
<1>q. /\ Tail(ready) \in Seq(Callbacks) /\ Tidy(Tail(ready)) /\ In(ready, Resume(c))
      /\ \A d \in Callers : In(Tail(ready), Made(d)) => In(ready, Made(d)) /\ d # c
      /\ \A d \in Callers : In(Tail(ready), Resume(d)) => In(ready, Resume(d)) /\ d # c
      /\ \A t \in Sockets : In(Tail(ready), Lost(t)) <=> In(ready, Lost(t))
  BY <1>t, HeadTaken, CallbacksDiffer, PartTypes DEF SocketInv, QueueIsDue
<1>1. /\ UNCHANGED <<mine, unsent>>
      /\ pc'[c] = "idle" /\ \A d \in Callers : d # c => pc'[d] = pc[d]
  BY <1>t, PartTypes DEF ResumeStart, ResumeStop, socketVars
<1>2. Starters' = Starters \ {c}
  BY <1>1 DEF Starters
<1>3. \A d \in Starters : mine[d] \in Sockets
  BY <1>t, PartTypes DEF Starters
\* In each of the three ways: what it does to the transport, the sockets and the queue.
<1>4. /\ pc[c] # "starting" => UNCHANGED <<transport, protocol>>
      /\ pc[c] = "starting" => /\ transport' = mine[c] /\ protocol' = mine[c]
                               /\ sock[mine[c]] = "open" /\ c \in Starters
      /\ pc[c] # "cancelled" => sock' = sock /\ ready' = Tail(ready)
      /\ pc[c] = "cancelled" => /\ sock' = [sock EXCEPT ![mine[c]] = "closing"]
                                /\ ready' = Append(Tail(ready), Lost(mine[c]))
                                /\ c \in Starters
  <2>1. pc[c] = "starting" => sock[mine[c]] = "open"
    BY <1>q DEF SocketInv, QueueIsDue, ResumeIsDue
  <2> QED BY <2>1 DEF ResumeStart, ResumeStop, listenerVars, socketVars, Starters
<1>5. pc[c] = "cancelled" =>
        /\ sock[mine[c]] \in {"bound", "open"} /\ mine[c] # transport
        /\ \A d \in Starters : mine[d] = mine[c] => d = c
        /\ mine[c] \notin unsent /\ ~In(ready, Lost(mine[c]))
  BY <1>3, <1>4 DEF SocketInv, StartersOwn, UnsentIsHeld, QueueIsDue, LostIsDue
<1>6. /\ \A d \in Callers : In(ready', Made(d)) => In(ready, Made(d)) /\ d # c
      /\ \A d \in Callers : In(ready', Resume(d)) => In(ready, Resume(d)) /\ d # c
      /\ \A t \in Sockets : In(ready', Lost(t))
                              <=> (In(ready, Lost(t)) \/ (pc[c] = "cancelled" /\ t = mine[c]))
      /\ Tidy(ready')
  <2>1. CASE pc[c] # "cancelled"
    BY <1>q, <1>4, <2>1
  <2>2. CASE pc[c] = "cancelled"
    <3>1. mine[c] \in Sockets /\ ~In(Tail(ready), Lost(mine[c]))
      BY <1>q, <1>3, <1>4, <1>5, <2>2
    <3>2. ready' = Append(Tail(ready), Lost(mine[c]))
      BY <1>4, <2>2
    <3> QED BY <1>q, <2>2, <3>1, <3>2, LostAdded DEF SameMade, SameResume
  <2> QED BY <2>1, <2>2
<1>7. \A t \in Sockets : sock'[t] = IF pc[c] = "cancelled" /\ t = mine[c] THEN "closing" ELSE sock[t]
  BY <1>t, <1>4, PartTypes
<1>8. TransportIsOpen'
  <2>1. CASE pc[c] = "starting"
    BY <1>4, <2>1 DEF TransportIsOpen
  <2>2. CASE pc[c] # "starting"
    BY <1>t, <1>4, <1>5, <1>7, <2>2, PartTypes DEF SocketInv, TransportIsOpen, is_running
  <2> QED BY <2>1, <2>2
<1>9. StartersOwn'
  <2>1. ASSUME NEW d \in Starters' PROVE sock'[mine[d]] \in {"bound", "open"} /\ mine[d] # transport'
    <3>1. d \in Starters /\ d # c /\ mine[d] \in Sockets
      BY <1>2, <1>3
    <3>2. sock[mine[d]] \in {"bound", "open"} /\ mine[d] # transport
      BY <3>1 DEF SocketInv, StartersOwn
    <3>3. c \in Starters => mine[d] # mine[c]
      BY <3>1 DEF SocketInv, StartersOwn
    <3> QED BY <1>4, <1>7, <3>1, <3>2, <3>3
  <2> QED BY <1>1, <1>2, <2>1 DEF SocketInv, StartersOwn
<1>10. MadeIsDue'
  <2>1. ASSUME NEW d \in Callers, In(ready', Made(d)) PROVE d \in Starters' /\ sock'[mine[d]] = "bound"
    <3>1. d # c /\ d \in Starters /\ sock[mine[d]] = "bound"
      BY <1>6, <2>1 DEF SocketInv, QueueIsDue, MadeIsDue
    <3>2. pc[c] = "cancelled" => mine[d] # mine[c]
      BY <1>5, <3>1
    <3> QED BY <1>2, <1>3, <1>7, <3>1, <3>2
  <2> QED BY <1>1, <2>1 DEF MadeIsDue
<1>11. ResumeIsDue'
  <2>1. ASSUME NEW d \in Callers, In(ready', Resume(d)) PROVE
          pc'[d] \in {"starting", "cancelled", "woken"} /\ (pc'[d] = "starting" => sock'[mine[d]] = "open")
    <3>1. /\ d # c /\ pc[d] \in {"starting", "cancelled", "woken"}
          /\ pc[d] = "starting" => sock[mine[d]] = "open" /\ d \in Starters
      BY <1>6, <2>1 DEF SocketInv, QueueIsDue, ResumeIsDue, Starters
    <3>2. pc[c] = "cancelled" /\ pc[d] = "starting" => mine[d] # mine[c]
      BY <1>5, <3>1
    <3> QED BY <1>1, <1>3, <1>7, <3>1, <3>2
  <2> QED BY <1>1, <2>1 DEF ResumeIsDue
<1>12. LostIsDue'
  BY <1>6, <1>7 DEF SocketInv, QueueIsDue, LostIsDue
<1>13. UnsentIsHeld'
  <2>1. ASSUME NEW t \in unsent
        PROVE  /\ sock'[t] \in {"open", "closing"} /\ ~In(ready', Lost(t))
               /\ \A d \in Starters' : mine[d] # t
    <3>1. t \in Sockets /\ sock[t] \in {"open", "closing"} /\ ~In(ready, Lost(t))
      BY <1>t, PartTypes DEF SocketInv, UnsentIsHeld
    <3>2. \A d \in Starters : mine[d] # t
      BY DEF SocketInv, UnsentIsHeld
    <3> QED BY <1>2, <1>5, <1>6, <1>7, <3>1, <3>2
  <2> QED BY <1>1, <2>1 DEF UnsentIsHeld
<1> QED BY <1>6, <1>8, <1>9, <1>10, <1>11, <1>12, <1>13 DEF SocketInv, QueueIsDue

\* The transport of a start is never among the sockets that are lost.
LEMMA LostKeeps ==
    ASSUME SocketInv, NEW s \in Sockets, sock[s] = "closing", s \notin unsent',
           NEW q \in Seq(Callbacks), Tidy(q), ~In(q, Lost(s)),
           \A d \in Callers : In(q, Made(d)) => In(ready, Made(d)),
           \A d \in Callers : In(q, Resume(d)) => In(ready, Resume(d)),
           \A t \in Sockets : In(q, Lost(t)) => In(ready, Lost(t)),
           ConnectionLost(s, q), unsent' \subseteq unsent
    PROVE  SocketInv'
<1>t. TypeOK /\ TypeOK'
  BY LostTypes DEF SocketInv
<1>1. /\ transport' = None /\ mine' = mine
      /\ pc' = [d \in Callers |-> IF d \in Waiting(s) THEN "woken" ELSE pc[d]]
      /\ \A t \in Sockets : sock'[t] = IF t = s THEN "closed" ELSE sock[t]
  BY <1>t, PartTypes DEF ConnectionLost
<1>2. \A d \in Callers : pc'[d] = IF d \in Waiting(s) THEN "woken" ELSE pc[d]
  BY <1>1
<1>3. Starters' = Starters
  BY <1>2 DEF Starters, Waiting
<1>4. \A d \in Starters : mine[d] \in Sockets /\ mine[d] # s
  BY <1>t, PartTypes DEF Starters, SocketInv, StartersOwn
<1>5. /\ \A d \in Callers : In(ready', Made(d)) => In(ready, Made(d))
      /\ \A d \in Callers : In(ready', Resume(d)) => In(ready, Resume(d)) \/ d \in Waiting(s)
      /\ \A t \in Sockets : In(ready', Lost(t)) => In(ready, Lost(t)) /\ t # s
      /\ Tidy(ready')
  <2>1. CASE ready' = q
    BY <2>1
  <2>2. ASSUME NEW c \in Waiting(s), ready' = Append(q, Resume(c))
        PROVE  <1>5!:
    <3>1. c \in Callers /\ ~In(q, Resume(c))
      BY <2>2 DEF Waiting, SocketInv, QueueIsDue, ResumeIsDue
    <3> QED BY <2>2, <3>1, ResumeAdded DEF SameMade, SameLost
  <2> QED BY <2>1, <2>2 DEF ConnectionLost
<1>6. TransportIsOpen'
  BY <1>1 DEF TransportIsOpen, is_running
<1>7. StartersOwn'
  <2>1. \A d \in Starters : sock'[mine[d]] \in {"bound", "open"} /\ mine[d] # None
    BY <1>t, <1>1, <1>4, PartTypes DEF SocketInv, StartersOwn
  <2> QED BY <1>1, <1>3, <2>1 DEF SocketInv, StartersOwn
<1>8. MadeIsDue'
  BY <1>1, <1>3, <1>4, <1>5 DEF SocketInv, QueueIsDue, MadeIsDue
<1>9. ResumeIsDue'
  <2>1. ASSUME NEW d \in Callers, In(ready', Resume(d)) PROVE
          pc'[d] \in {"starting", "cancelled", "woken"} /\ (pc'[d] = "starting" => sock'[mine[d]] = "open")
    <3>1. CASE d \in Waiting(s)
      BY <1>2, <3>1
    <3>2. CASE d \notin Waiting(s)
      <4>1. pc'[d] = pc[d] /\ In(ready, Resume(d))
        BY <1>2, <1>5, <2>1, <3>2
      <4>2. /\ pc[d] \in {"starting", "cancelled", "woken"}
            /\ pc[d] = "starting" => sock[mine[d]] = "open" /\ d \in Starters
        BY <4>1 DEF SocketInv, QueueIsDue, ResumeIsDue, Starters
      <4> QED BY <1>1, <1>4, <4>1, <4>2
    <3> QED BY <3>1, <3>2
  <2> QED BY <1>1, <2>1 DEF ResumeIsDue
<1>10. LostIsDue'
  BY <1>1, <1>5 DEF SocketInv, QueueIsDue, LostIsDue
<1>11. UnsentIsHeld'
  <2>1. \A t \in unsent' : t \in Sockets /\ t # s /\ t \in unsent
    BY <1>t, PartTypes
  <2> QED BY <1>1, <1>3, <1>5, <2>1 DEF SocketInv, UnsentIsHeld
<1> QED BY <1>t, <1>5, <1>6, <1>7, <1>8, <1>9, <1>10, <1>11 DEF SocketInv, QueueIsDue

LEMMA LoopKeeps == ASSUME SocketInv, RunReady PROVE SocketInv'
<1>t. TypeOK /\ TypeOK'
  BY ReadyTypes DEF SocketInv
<1>1. ASSUME NEW s \in Sockets, Head(ready) = Lost(s), ConnectionLost(s, Tail(ready)), UNCHANGED unsent
      PROVE  SocketInv'
  <2>1. /\ Tail(ready) \in Seq(Callbacks) /\ Tidy(Tail(ready)) /\ In(ready, Lost(s))
        /\ ~In(Tail(ready), Lost(s))
        /\ \A d \in Callers : In(Tail(ready), Made(d)) => In(ready, Made(d))
        /\ \A d \in Callers : In(Tail(ready), Resume(d)) => In(ready, Resume(d))
        /\ \A t \in Sockets : In(Tail(ready), Lost(t)) => In(ready, Lost(t))
    BY <1>t, <1>1, HeadTaken, PartTypes DEF RunReady, SocketInv, QueueIsDue
  <2>2. sock[s] = "closing" /\ s \notin unsent' /\ unsent' \subseteq unsent
    BY <1>1, <2>1 DEF SocketInv, QueueIsDue, LostIsDue, UnsentIsHeld
  <2> QED BY <1>1, <2>1, <2>2, LostKeeps
<1> QED BY <1>t, <1>1, MadeKeeps, ResumeKeeps DEF RunReady

LEMMA NetworkKeeps ==
    ASSUME SocketInv, Backlog \/ \E s \in Sockets : Flush(s)
    PROVE  SocketInv'
<1>t. TypeOK /\ TypeOK'
  BY NetworkTypes DEF SocketInv
<1>1. ASSUME unsent' \subseteq Sockets, UNCHANGED <<transport, protocol, pc, mine, sock, ready>>,
             \A t \in unsent' \ unsent : /\ sock[t] = "open" /\ ~In(ready, Lost(t))
                                         /\ \A d \in Starters : mine[d] # t
      PROVE  SocketInv'
  <2>1. Starters' = Starters
    BY <1>1 DEF Starters
  <2>2. TransportIsOpen' /\ StartersOwn' /\ QueueIsDue'
    BY <1>1, <2>1 DEF SocketInv, TransportIsOpen, is_running, StartersOwn, QueueIsDue,
                      MadeIsDue, ResumeIsDue, LostIsDue
  <2>3. UnsentIsHeld'
    BY <1>1, <2>1 DEF SocketInv, UnsentIsHeld
  <2> QED BY <1>t, <2>2, <2>3 DEF SocketInv
<1>2. CASE Backlog
  <2>1. transport \in Sockets /\ sock[transport] = "open"
    BY <1>t, <1>2, PartTypes DEF Backlog, is_running, SocketInv, TransportIsOpen
  <2>2. ~In(ready, Lost(transport)) /\ \A d \in Starters : mine[d] # transport
    BY <2>1 DEF SocketInv, QueueIsDue, LostIsDue, StartersOwn
  <2>3. unsent' = unsent \cup {transport} /\ UNCHANGED <<transport, protocol, pc, mine, sock, ready>>
    BY <1>2 DEF Backlog, listenerVars, callerVars
  <2> QED BY <1>t, <1>1, <2>1, <2>2, <2>3, PartTypes
<1>3. ASSUME NEW s \in Sockets, Flush(s) PROVE SocketInv'
  <2>1. s \in unsent /\ unsent' = unsent \ {s}
    BY <1>3 DEF Flush
  <2>2. CASE sock[s] = "closing" /\ ConnectionLost(s, ready)
    <3>1. ~In(ready, Lost(s)) /\ Tidy(ready) /\ ready \in Seq(Callbacks)
      BY <1>t, <2>1, PartTypes DEF SocketInv, UnsentIsHeld, QueueIsDue
    <3> QED BY <2>1, <2>2, <3>1, LostKeeps
  <2>3. CASE UNCHANGED <<listenerVars, callerVars, sock, ready, orderly>>
    BY <1>t, <1>1, <2>1, <2>3, PartTypes DEF listenerVars, callerVars
  <2> QED BY <1>3, <2>2, <2>3 DEF Flush
<1> QED BY <1>2, <1>3

LEMMA NextKeeps == SocketInv /\ [Next]_vars => SocketInv'
<1> SUFFICES ASSUME SocketInv, [Next]_vars PROVE SocketInv'
  OBVIOUS
<1>1. ASSUME UNCHANGED socketInvVars PROVE SocketInv'
  <2>1. TypeOK'
    BY NextTypes DEF SocketInv
  <2>2. Starters' = Starters
    BY <1>1 DEF Starters, socketInvVars
  <2> QED BY <1>1, <2>1, <2>2 DEF SocketInv, socketInvVars, TransportIsOpen, is_running, StartersOwn,
                 QueueIsDue, MadeIsDue, ResumeIsDue, LostIsDue, UnsentIsHeld
<1>2. UNCHANGED vars => UNCHANGED socketInvVars
  BY DEF vars, socketInvVars
<1> QED BY <1>1, <1>2, StartKeeps, StopKeeps, GiveUpKeeps, LoopKeeps, NetworkKeeps DEF Next

\* Whatever calls overlap, are cancelled or give up, what is sent goes to an open socket.
THEOREM TransportStaysOpen == Spec => []TransportIsOpen
<1>1. Init => SocketInv
  <2> SUFFICES ASSUME Init PROVE SocketInv
    OBVIOUS
  <2>1. TypeOK
    <3>1. ready \in Seq(Callbacks)
      BY DEF Init
    <3> QED BY <3>1 DEF Init, TypeOK
  <2>2. \A x : ~In(ready, x)
    BY DEF Init, In
  <2>3. Tidy(ready)
    BY DEF Init, Tidy, Once, Precedes
  <2>4. Starters = {} /\ unsent = {} /\ transport = None
    BY DEF Init, Starters
  <2> QED BY <2>1, <2>2, <2>3, <2>4 DEF SocketInv, TransportIsOpen, is_running, StartersOwn,
                QueueIsDue, MadeIsDue, ResumeIsDue, LostIsDue, UnsentIsHeld
<1>2. SocketInv => TransportIsOpen
  BY DEF SocketInv
<1> QED BY <1>1, <1>2, NextKeeps, PTL DEF Spec
=============================================================================
