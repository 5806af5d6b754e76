----------------------------- MODULE Lifecycle -----------------------------
(***************************************************************************)
(* The listener's socket: start() and stop() as coroutines, cut at their   *)
(* awaits, and the callbacks of asyncio's transport between them.          *)
(*                                                                         *)
(* start() binds at once and is resumed two turns of the loop later with   *)
(* the transport; stop() closes the transport and waits, for two seconds   *)
(* at most, for connection_lost(), which is the turn that releases the     *)
(* socket.  A transport with unsent data is only lost once that is sent.   *)
(* SO_REUSEPORT lets a new socket bind while the old one is there: the     *)
(* kernel then gives each of them a part of the packets.                   *)
(*                                                                         *)
(* The transport (asyncio/selector_events.py) is external.                 *)
(***************************************************************************)
EXTENDS FiniteSets, Naturals, Sequences

CONSTANTS
    Callers,                 \* tasks of the consumer that call start() and stop()
    Sockets,                 \* bound: sockets there may be at once
    None                     \* no socket

ASSUME NoneAssumption == None \notin Sockets

VARIABLES
    transport, protocol,     \* _transport, _protocol: the socket they belong to
    pc,                      \* what each caller does
    mine,                    \* the socket a caller waits for
    sock,                    \* the sockets, as the transport has them
    unsent,                  \* sockets with data the kernel does not take yet
    ready,                   \* the loop's queue of callbacks
    orderly                  \* not in the code: see Call and GiveUp

vars == <<transport, protocol, pc, mine, sock, unsent, ready, orderly>>
listenerVars == <<transport, protocol>>
callerVars == <<pc, mine>>
socketVars == <<sock, unsent>>

Made(c)   == [run |-> "connection_made", of |-> c]
Resume(c) == [run |-> "resume", of |-> c]
Lost(s)   == [run |-> "connection_lost", of |-> s]

Callbacks == {Made(c) : c \in Callers} \cup {Resume(c) : c \in Callers}
               \cup {Lost(s) : s \in Sockets}

Queued(x) == \E i \in DOMAIN ready : ready[i] = x

is_running == transport # None

Init ==
    /\ transport = None /\ protocol = None
    /\ pc = [c \in Callers |-> "idle"]
    /\ mine = [c \in Callers |-> None]
    /\ sock = [s \in Sockets |-> "closed"]
    /\ unsent = {}
    /\ ready = <<>>
    /\ orderly = TRUE

\* Use is orderly while each call waits for the one before it, and none gives up.
Call   == orderly' = (orderly /\ \A c \in Callers : pc[c] = "idle")
GiveUp == orderly' = FALSE

-----------------------------------------------------------------------------
(* start() and stop().                                                     *)

\* start() with no transport, up to the await.  With one it returns True and with the
\* port in use it returns False, at once and without a change.
Start(c) ==
    /\ pc[c] = "idle"
    /\ ~is_running
    /\ \E s \in Sockets :
          /\ sock[s] = "closed"
          /\ sock' = [sock EXCEPT ![s] = "bound"]
          /\ mine' = [mine EXCEPT ![c] = s]
    /\ pc' = [pc EXCEPT ![c] = "starting"]
    /\ ready' = Append(ready, Made(c))
    /\ Call
    /\ UNCHANGED <<listenerVars, unsent>>

\* Mutant of Close: what is unsent, or whether there is a transport, makes no difference.
CloseAlways(s) ==
    /\ sock' = IF s = None THEN sock ELSE [sock EXCEPT ![s] = "closing"]
    /\ ready' = Append(ready, Lost(s))

\* transport.close(), of s that may be None; the loop learns of it when nothing is unsent.
Close(s) ==
    /\ sock' = IF s = None THEN sock ELSE [sock EXCEPT ![s] = "closing"]
    /\ ready' = IF s = None \/ s \in unsent THEN ready ELSE Append(ready, Lost(s))

\* The wait for the event of connection_lost(), which only comes after a close().
Await(c) ==
    IF protocol = None
    THEN UNCHANGED callerVars
    ELSE /\ pc' = [pc EXCEPT ![c] = "stopping"]
         /\ mine' = [mine EXCEPT ![c] = protocol]

\* Mutant of Stop: the transport stays until connection_lost() clears it.
StopWithoutSwap(c) ==
    /\ pc[c] = "idle"
    /\ Close(transport)
    /\ protocol' = None
    /\ Await(c)
    /\ Call
    /\ UNCHANGED <<transport, unsent>>

\* Mutant of Stop: it does not wait for the socket.
StopAtOnce(c) ==
    /\ pc[c] = "idle"
    /\ Close(transport)
    /\ transport' = None /\ protocol' = None
    /\ Call
    /\ UNCHANGED <<callerVars, unsent>>

\* stop(): everything before the wait, which is skipped without a protocol.  What it does
\* to the handler tasks and the devices (102-109) is Stop of Session and of Routing.
Stop(c) ==
    /\ pc[c] = "idle"
    /\ Close(transport)
    /\ transport' = None /\ protocol' = None
    /\ Await(c)
    /\ Call
    /\ UNCHANGED unsent

\* The await of start() is over: with the transport, or cancelled, which closes it.
ResumeStart(c) ==
    /\ \/ /\ pc[c] = "starting"
          /\ transport' = mine[c] /\ protocol' = mine[c]
          /\ ready' = Tail(ready)
          /\ UNCHANGED sock
       \/ /\ pc[c] = "cancelled"
          /\ sock' = [sock EXCEPT ![mine[c]] = "closing"]
          /\ ready' = Append(Tail(ready), Lost(mine[c]))
          /\ UNCHANGED <<transport, protocol>>
    /\ pc' = [pc EXCEPT ![c] = "idle"]
    /\ UNCHANGED <<mine, unsent, orderly>>

ResumeStop(c) ==
    /\ pc[c] = "woken"
    /\ ready' = Tail(ready)
    /\ pc' = [pc EXCEPT ![c] = "idle"]
    /\ UNCHANGED <<listenerVars, mine, socketVars, orderly>>

\* Mutant of WaitExpires: stop() waits for as long as the socket is there.
WaitGoesOn(c) ==
    /\ pc[c] = "stopping" /\ sock[mine[c]] = "closed"
    /\ pc' = [pc EXCEPT ![c] = "woken"]
    /\ ready' = Append(ready, Resume(c))
    /\ GiveUp
    /\ UNCHANGED <<listenerVars, mine, socketVars>>

\* The two seconds of stop() are over; they are longer than a turn of the loop.
WaitExpires(c) ==
    /\ pc[c] = "stopping" /\ ~Queued(Lost(mine[c]))
    /\ pc' = [pc EXCEPT ![c] = "woken"]
    /\ ready' = Append(ready, Resume(c))
    /\ GiveUp
    /\ UNCHANGED <<listenerVars, mine, socketVars>>

\* The consumer cancels a call.
Cancel(c) ==
    /\ \/ pc[c] = "starting" /\ pc' = [pc EXCEPT ![c] = "cancelled"]
       \/ pc[c] = "stopping" /\ pc' = [pc EXCEPT ![c] = "woken"]
    /\ ready' = IF Queued(Resume(c)) THEN ready ELSE Append(ready, Resume(c))
    /\ GiveUp
    /\ UNCHANGED <<listenerVars, mine, socketVars>>

-----------------------------------------------------------------------------
(* The transport's callbacks.                                              *)

\* connection_made(), the reader, and the result of the future start() awaits.
ConnectionMade(c) ==
    /\ sock' = [sock EXCEPT ![mine[c]] = "open"]
    /\ ready' = IF pc[c] = "starting" THEN Append(Tail(ready), Resume(c)) ELSE Tail(ready)
    /\ UNCHANGED <<listenerVars, callerVars, unsent, orderly>>

\* The stop that waits for s; no two wait for the same socket.
Waiting(s) == {c \in Callers : pc[c] = "stopping" /\ mine[c] = s}

\* connection_lost(): every transport's, not just the present one's, clears _transport.
ConnectionLost(s, queue) ==
    /\ transport' = None
    /\ sock' = [sock EXCEPT ![s] = "closed"]
    /\ pc' = [c \in Callers |-> IF c \in Waiting(s) THEN "woken" ELSE pc[c]]
    /\ \/ Waiting(s) = {} /\ ready' = queue
       \/ \E c \in Waiting(s) : ready' = Append(queue, Resume(c))
    /\ UNCHANGED <<protocol, mine, orderly>>

\* The loop runs its callbacks in order.
RunReady ==
    /\ ready # <<>>
    /\ \/ \E c \in Callers : Head(ready) = Made(c) /\ ConnectionMade(c)
       \/ \E c \in Callers : Head(ready) = Resume(c) /\ (ResumeStart(c) \/ ResumeStop(c))
       \/ \E s \in Sockets : /\ Head(ready) = Lost(s)
                             /\ ConnectionLost(s, Tail(ready))
                             /\ UNCHANGED unsent

\* A device sends, and the kernel's buffer is full.
Backlog ==
    /\ is_running
    /\ unsent' = unsent \cup {transport}
    /\ UNCHANGED <<listenerVars, callerVars, sock, ready, orderly>>

\* The kernel takes what is unsent; a transport that was closed is lost there and then.
Flush(s) ==
    /\ s \in unsent
    /\ unsent' = unsent \ {s}
    /\ \/ sock[s] = "closing" /\ ConnectionLost(s, ready)
       \/ sock[s] # "closing" /\ UNCHANGED <<listenerVars, callerVars, sock, ready, orderly>>

-----------------------------------------------------------------------------
Next ==
    \/ \E c \in Callers : Start(c) \/ Stop(c) \/ WaitExpires(c) \/ Cancel(c)
    \/ RunReady
    \/ Backlog
    \/ \E s \in Sockets : Flush(s)

Spec == Init /\ [][Next]_vars

\* The loop runs what is queued, and timers fire.
Fairness == WF_vars(RunReady) /\ \A c \in Callers : WF_vars(WaitExpires(c))

FairSpec == Spec /\ Fairness

-----------------------------------------------------------------------------
(* Properties.                                                             *)

\* Types; and whoever waits, waits for a socket.
TypeOK ==
    /\ transport \in Sockets \cup {None}
    /\ protocol \in Sockets \cup {None}
    /\ pc \in [Callers -> {"idle", "starting", "cancelled", "stopping", "woken"}]
    /\ mine \in [Callers -> Sockets \cup {None}]
    /\ \A c \in Callers : pc[c] # "idle" => mine[c] # None
    /\ sock \in [Sockets -> {"closed", "bound", "open", "closing"}]
    /\ unsent \subseteq Sockets
    /\ ready \in Seq(Callbacks)
    /\ orderly \in BOOLEAN

Bound == {s \in Sockets : sock[s] # "closed"}

\* In orderly use the port is never shared (listener.py:110-113), no socket is left
\* behind, and is_running tells whether there is one, whenever no call is under way.
OrderlyUseIsSafe ==
    orderly =>
      /\ Cardinality(Bound) <= 1
      /\ (\A c \in Callers : pc[c] = "idle") => Bound = {transport} \ {None}

\* Whatever calls overlap, are cancelled or give up: what is sent goes to an open socket,
\* never to one that is closing or gone (listener.py:39-42, 97-100).
TransportIsOpen == is_running => sock[transport] = "open" /\ protocol = transport

\* Every start() and stop() returns, although the network may never take what is unsent
\* (listener.py:114).
EveryCallReturns == \A c \in Callers : pc[c] # "idle" ~> pc[c] = "idle"
=============================================================================
