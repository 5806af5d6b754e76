------------------------------ MODULE History ------------------------------
(***************************************************************************)
(* read_history(): reads of the charger's ring of session records, one at  *)
(* a time.  A read asks for the ring's capacity, then for every slot, then *)
(* again for the slots that did not answer.                                *)
(*                                                                         *)
(* The network delays, reorders, repeats and loses.  How long a read waits *)
(* is left out: every reply may come before or after any wait is over.     *)
(* Every charger broadcasts, so replies to another client's read arrive.   *)
(***************************************************************************)
EXTENDS Naturals, Sequences

CONSTANTS
    Readers,                 \* identities of read_history() calls
    Capacity,                \* slots of the ring
    HISTORY_PASSES,          \* times a question is asked before it is given up
    Records, Empty,          \* what a slot may hold
    Short,                   \* the records that are told too short to be parsed
    NoHistory,
    RingsAtStart,            \* bound: what the charger's ring may hold at first
    Finishing                \* bound: sessions that may end meanwhile, as slot and record

Slots == 1..Capacity
Contents == Records \cup {Empty}

\* What a device takes for an empty slot.
Blank == Short \cup {Empty}

Partial == UNION {[S -> Contents] : S \in SUBSET Slots}

ASSUME PassesAssumption == HISTORY_PASSES \in Nat \ {0}
ASSUME CapacityAssumption == Capacity \in Nat
ASSUME EmptyAssumption == Empty \notin Records
ASSUME ShortAssumption == Short \subseteq Records
ASSUME NoHistoryAssumption == NoHistory \notin Partial
ASSUME RingsAssumption ==
    /\ RingsAtStart \subseteq [Slots -> Contents]
    /\ Finishing \subseteq Slots \X Records

VARIABLES
    authorised, closed,      \* is_authorised; close() ran and nothing is routed here
    queue,                   \* at _history_lock: the read inside, then those waiting
    pc,                      \* of the read inside; "idle" if there is none
    pass,                    \* its turn of the loop it is in
    count,                   \* _history_count
    history,                 \* _history
    missing, toAsk,          \* its missing slots, and those still to ask this pass
    result,                  \* what the last read to end gave its caller
    ring,                    \* charger: content of each slot
    countAsked, countTold,   \* in flight: a count request, a count reply
    requests, replies,       \* in flight: slots asked for, and told
    asked, held              \* times each was asked by this read; all it ever held

reading == <<pc, pass, count, history, missing, toAsk, result>>
network == <<countAsked, countTold, requests, replies>>
vars == <<authorised, closed, queue, reading, ring, network, asked, held>>

EmptyDict == [s \in {} |-> Empty]
NoResult == [done |-> FALSE, records |-> EmptyDict, unread |-> {}]

Init ==
    /\ authorised \in BOOLEAN /\ closed = FALSE
    /\ queue = <<>>
    /\ pc = "idle" /\ pass = 0
    /\ count = "none" /\ history = NoHistory
    /\ missing = {} /\ toAsk = {}
    /\ result = NoResult
    /\ ring \in RingsAtStart
    /\ countAsked = FALSE /\ countTold = FALSE
    /\ requests = {} /\ replies = {}
    /\ asked = [s \in Slots |-> 0]
    /\ held = [s \in Slots |-> {ring[s]}]

-----------------------------------------------------------------------------
(* The read inside the lock.                                               *)

\* One turn of _read_history_capacity(), up to its await.
AskCount(n) ==
    /\ pc' = "counting" /\ pass' = n
    /\ count' = "pending"
    /\ countAsked' = TRUE

\* A read gets the lock.
Begin ==
    /\ AskCount(1)
    /\ result' = NoResult
    /\ asked' = [s \in Slots |-> 0]
    /\ UNCHANGED <<history, missing, toAsk>>

\* Ask for the first slot of todo, or wait for the last replies.
Ask(todo) ==
    \/ /\ todo = {}
       /\ pc' = "settling" /\ toAsk' = {}
       /\ UNCHANGED <<requests, asked>>
    \/ \E s \in todo :
          /\ \A t \in todo : s <= t
          /\ pc' = "asking" /\ toAsk' = todo \ {s}
          /\ requests' = requests \cup {s}
          /\ asked' = [asked EXCEPT ![s] = @ + 1]

StartPass(n, slots) ==
    /\ pass' = n
    /\ missing' = slots
    /\ Ask(slots)

\* Mutant of Leave: no finally, the dictionary stays.
LeaveOpen(r) ==
    /\ pc' = "idle" /\ pass' = 0
    /\ count' = "none" /\ missing' = {} /\ toAsk' = {}
    /\ queue' = Tail(queue)
    /\ result' = r
    /\ UNCHANGED history

\* The finally clauses, and the lock is released.
Leave(r) ==
    /\ pc' = "idle" /\ pass' = 0
    /\ count' = "none" /\ history' = NoHistory /\ missing' = {} /\ toAsk' = {}
    /\ queue' = Tail(queue)
    /\ result' = r

\* Mutant of ReadHistory: a lock that is free is taken past those in line.
ReadHistoryBarging(r) ==
    /\ authorised /\ ~closed
    /\ \A i \in DOMAIN queue : queue[i] # r
    /\ queue' = Append(queue, r)
    /\ IF pc = "idle"
       THEN Begin
       ELSE UNCHANGED <<pc, pass, count, history, missing, toAsk, result, asked, countAsked>>
    /\ UNCHANGED <<authorised, closed, ring, countTold, requests, replies, held>>

\* read_history(): refused, or straight in, or behind the others.
ReadHistory(r) ==
    /\ authorised /\ ~closed
    /\ \A i \in DOMAIN queue : queue[i] # r
    /\ queue' = Append(queue, r)
    /\ IF queue = <<>>
       THEN Begin
       ELSE UNCHANGED <<pc, pass, count, history, missing, toAsk, result, asked, countAsked>>
    /\ UNCHANGED <<authorised, closed, ring, countTold, requests, replies, held>>

\* The next in line gets the lock; whether it is still authorised is not asked again.
Enter ==
    /\ pc = "idle" /\ queue # <<>>
    /\ Begin
    /\ UNCHANGED <<authorised, closed, queue, ring, countTold, requests, replies, held>>

\* wait_for()'s timer; it wins over an answer that the read has not seen yet.
CountExpires ==
    /\ count \in {"pending", "answered"}
    /\ count' = "expired"
    /\ UNCHANGED <<authorised, closed, queue, pc, pass, history, missing, toAsk, result,
                   ring, network, asked, held>>

\* The capacity is known: an empty dictionary, and the first pass begins.
CountArrives ==
    /\ count = "answered"
    /\ count' = "none"
    /\ history' = EmptyDict
    /\ StartPass(1, Slots)
    /\ UNCHANGED <<authorised, closed, queue, result, ring, countAsked, countTold,
                   replies, held>>

\* Mutant of CountFails: asked until the charger answers.
CountFailsForever ==
    /\ count = "expired"
    /\ AskCount(pass)
    /\ UNCHANGED <<authorised, closed, queue, history, missing, toAsk, result,
                   ring, countTold, requests, replies, asked, held>>

\* TimeoutError: ask again, or raise it to the caller.
CountFails ==
    /\ count = "expired"
    /\ \/ /\ pass < HISTORY_PASSES
          /\ AskCount(pass + 1)
          /\ UNCHANGED <<queue, history, missing, toAsk, result>>
       \/ /\ pass = HISTORY_PASSES
          /\ Leave(NoResult)
          /\ UNCHANGED countAsked
    /\ UNCHANGED <<authorised, closed, ring, countTold, requests, replies, asked, held>>

\* HISTORY_REQUEST_INTERVAL is over.
AskNext ==
    /\ pc = "asking"
    /\ Ask(toAsk)
    /\ UNCHANGED <<authorised, closed, queue, pass, count, history, missing, result,
                   ring, countAsked, countTold, replies, held>>

Filled == {s \in DOMAIN history : history[s] # Empty}
ChargeHistory(unread) ==
    [done |-> TRUE, records |-> [s \in Filled |-> history[s]], unread |-> unread]

\* Mutant of EndPass: the last pass does not look at what it brought.
EndPassUnchecked ==
    /\ pc = "settling"
    /\ LET left == missing \ DOMAIN history IN
          IF left = {} \/ pass = HISTORY_PASSES
          THEN /\ Leave(ChargeHistory(missing))
               /\ UNCHANGED <<requests, asked>>
          ELSE /\ StartPass(pass + 1, left)
               /\ UNCHANGED <<queue, count, history, result>>
    /\ UNCHANGED <<authorised, closed, ring, countAsked, countTold, replies, held>>

\* HISTORY_REPLY_WAIT is over: another pass, or back to the caller.
EndPass ==
    /\ pc = "settling"
    /\ LET left == missing \ DOMAIN history IN
          IF left = {} \/ pass = HISTORY_PASSES
          THEN /\ Leave(ChargeHistory(left))
               /\ UNCHANGED <<requests, asked>>
          ELSE /\ StartPass(pass + 1, left)
               /\ UNCHANGED <<queue, count, history, result>>
    /\ UNCHANGED <<authorised, closed, ring, countAsked, countTold, replies, held>>

\* The caller cancels a read, inside or in the line.
CancelRead(i) ==
    /\ i \in DOMAIN queue
    /\ IF i = 1 /\ pc # "idle"
       THEN Leave(NoResult)
       ELSE /\ queue' = SubSeq(queue, 1, i - 1) \o SubSeq(queue, i + 1, Len(queue))
            /\ UNCHANGED reading
    /\ UNCHANGED <<authorised, closed, ring, network, asked, held>>

-----------------------------------------------------------------------------
(* Packets, and the rest of the device.                                    *)

HandleCount ==
    /\ countTold /\ ~closed
    /\ countTold' = FALSE
    /\ count' = IF count = "pending" THEN "answered" ELSE count
    /\ UNCHANGED <<authorised, closed, queue, pc, pass, history, missing, toAsk, result,
                   ring, countAsked, requests, replies, asked, held>>

\* _handle_history_record(): filed under the slot that the reply names, as None if it is blank.
HandleRecord(m) ==
    /\ m \in replies /\ ~closed
    /\ replies' = replies \ {m}
    /\ history' = IF history = NoHistory THEN NoHistory
                  ELSE [s \in DOMAIN history \cup {m.slot} |->
                           IF s # m.slot THEN history[s]
                           ELSE IF m.content \in Blank THEN Empty ELSE m.content]
    /\ UNCHANGED <<authorised, closed, queue, pc, pass, count, missing, toAsk, result,
                   ring, countAsked, countTold, requests, asked, held>>

\* Logins and password errors: reads go on without noticing.
Reauthorise ==
    /\ ~closed
    /\ authorised' = ~authorised
    /\ UNCHANGED <<closed, queue, reading, ring, network, asked, held>>

Close ==
    /\ ~closed
    /\ closed' = TRUE /\ authorised' = FALSE
    /\ UNCHANGED <<queue, reading, ring, network, asked, held>>

-----------------------------------------------------------------------------
(* The charger (after FakeEvse), its other clients and the network.        *)

Told(s) == [slot |-> s, content |-> ring[s]]

AnswerCount ==
    /\ countAsked
    /\ countAsked' = FALSE /\ countTold' = TRUE
    /\ UNCHANGED <<authorised, closed, queue, reading, ring, requests, replies, asked, held>>

AnswerSlot(s) ==
    /\ s \in requests
    /\ requests' = requests \ {s}
    /\ replies' = replies \cup {Told(s)}
    /\ UNCHANGED <<authorised, closed, queue, reading, ring, countAsked, countTold,
                   asked, held>>

\* A session ends and overwrites a slot.
FinishSession(s, r) ==
    /\ ring' = [ring EXCEPT ![s] = r]
    /\ held' = [held EXCEPT ![s] = @ \cup {r}]
    /\ UNCHANGED <<authorised, closed, queue, reading, network, asked>>

\* Another client reads; the charger broadcasts.
OtherClientReads ==
    /\ \/ countTold' = TRUE /\ UNCHANGED replies
       \/ \E s \in Slots : replies' = replies \cup {Told(s)} /\ UNCHANGED countTold
    /\ UNCHANGED <<authorised, closed, queue, reading, ring, countAsked, requests,
                   asked, held>>

Lose ==
    /\ countAsked' \in {FALSE, countAsked} /\ countTold' \in {FALSE, countTold}
    /\ requests' \in SUBSET requests /\ replies' \in SUBSET replies
    /\ UNCHANGED <<authorised, closed, queue, reading, ring, asked, held>>

Loop == Enter \/ CountExpires \/ CountArrives \/ CountFails \/ AskNext \/ EndPass

Next ==
    \/ \E r \in Readers : ReadHistory(r)
    \/ Loop
    \/ \E i \in DOMAIN queue : CancelRead(i)
    \/ HandleCount
    \/ \E m \in replies : HandleRecord(m)
    \/ Reauthorise
    \/ Close
    \/ AnswerCount
    \/ \E s \in Slots : AnswerSlot(s)
    \/ \E f \in Finishing : FinishSession(f[1], f[2])
    \/ OtherClientReads
    \/ Lose

\* The loop runs what is due, and its timers fire.
Spec == Init /\ [][Next]_vars
FairSpec == Spec /\ WF_vars(Loop)

-----------------------------------------------------------------------------
(* Properties.                                                             *)

\* Types; the fields of a read are there exactly while their part of it runs, and the
\* lock is held while one does.
TypeOK ==
    /\ authorised \in BOOLEAN /\ closed \in BOOLEAN
    /\ queue \in Seq(Readers)
    /\ pc \in {"idle", "counting", "asking", "settling"}
    /\ pass \in 0..HISTORY_PASSES
    /\ count \in {"none", "pending", "answered", "expired"}
    /\ history \in Partial \cup {NoHistory}
    /\ missing \subseteq Slots /\ toAsk \subseteq missing
    /\ result.records \in Partial /\ result.unread \subseteq Slots /\ result.done \in BOOLEAN
    /\ ring \in [Slots -> Contents]
    /\ countAsked \in BOOLEAN /\ countTold \in BOOLEAN
    /\ requests \subseteq Slots
    /\ replies \subseteq [slot : Slots, content : Contents]
    /\ asked \in [Slots -> 0..HISTORY_PASSES]
    /\ held \in [Slots -> SUBSET Contents]
    /\ pc # "idle" => queue # <<>>
    /\ pc = "counting" <=> count # "none"
    /\ pc \in {"asking", "settling"} <=> history # NoHistory

\* What a read returns accounts for every slot: it is unread, and was asked in every
\* pass; or it has a record, which it did hold; or it was blank, that is, empty or with a
\* record too short to be parsed (README.md:85-86; data_types.py:306; device.py:379).
EverySlotIsAccounted ==
    result.done =>
        \A s \in Slots :
            \/ /\ s \in result.unread /\ s \notin DOMAIN result.records
               /\ asked[s] = HISTORY_PASSES
            \/ /\ s \notin result.unread /\ s \in DOMAIN result.records
               /\ result.records[s] \in held[s] \ Blank
            \/ /\ s \notin result.unread /\ s \notin DOMAIN result.records
               /\ held[s] \cap Blank # {}

\* read_history() keeps its promise (device.py:533-557): one read at a time, in the order
\* of the calls, each with an account of the ring, whoever is cancelled inside or in line.
Service == INSTANCE HistoryService WITH line <- queue, inside <- (pc # "idle")

ImplementsHistoryService == Service!Spec

\* Every read ends, whatever is lost and whoever is cancelled, closed or not
\* (device.py:537, 555, 570).
Reading(r) == \E i \in DOMAIN queue : queue[i] = r
EveryReadEnds == \A r \in Readers : Reading(r) ~> ~Reading(r)
=============================================================================
