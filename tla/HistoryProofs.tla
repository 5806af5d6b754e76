---------------------------- MODULE HistoryProofs ----------------------------
(* Proofs about History, for any readers, any ring, and any number of passes. *)
EXTENDS History, SequenceTheorems, TLAPS

\* What a device files for what a reply tells.
Taken(c) == IF c \in Blank THEN Empty ELSE c

\* What is under way, and what a read has noted, was in its slot at some time.
HeldIsKept ==
    /\ \A s \in Slots : ring[s] \in held[s]
    /\ \A m \in replies : m.content \in held[m.slot]
    /\ history # NoHistory =>
          \A s \in DOMAIN history : \E c \in held[s] : history[s] = Taken(c)

\* A missing slot was asked in every pass; one that is not missing has answered.
PassesAgree ==
    /\ pc # "idle" => pass # 0 /\ ~result.done
    /\ pc = "counting" => asked = [s \in Slots |-> 0]
    /\ pc = "settling" => toAsk = {}
    /\ pc \in {"asking", "settling"} =>
          \A s \in Slots : IF s \in missing
                           THEN asked[s] = IF s \in toAsk THEN pass - 1 ELSE pass
                           ELSE s \in DOMAIN history

Inv == TypeOK /\ HeldIsKept /\ PassesAgree /\ EverySlotIsAccounted

USE PassesAssumption, CapacityAssumption, EmptyAssumption, ShortAssumption, NoHistoryAssumption,
    RingsAssumption

LEMMA FinishingMeans == \A f \in Finishing : f[1] \in Slots /\ f[2] \in Records
OBVIOUS

LEMMA PartialMeans ==
    \A f : f \in Partial <=> DOMAIN f \subseteq Slots /\ f \in [DOMAIN f -> Contents]
BY DEF Partial

LEMMA EmptyIsPartial ==
    /\ EmptyDict \in Partial /\ DOMAIN EmptyDict = {}
    /\ NoResult.records = EmptyDict /\ NoResult.unread = {} /\ NoResult.done = FALSE
<1>1. DOMAIN EmptyDict = {}
  BY DEF EmptyDict
<1>2. EmptyDict \in [{} -> Contents]
  BY DEF EmptyDict
<1> QED BY <1>1, <1>2, PartialMeans DEF NoResult

LEMMA InitInv == Init => Inv
<1> SUFFICES ASSUME Init PROVE Inv  OBVIOUS
<1>1. TypeOK
  <2>1. ring \in [Slots -> Contents] /\ held \in [Slots -> SUBSET Contents]
    BY DEF Init
  <2>2. asked \in [Slots -> 0..HISTORY_PASSES]
    BY DEF Init
  <2>3. queue \in Seq(Readers) /\ pass \in 0..HISTORY_PASSES
    BY DEF Init
  <2>4. result.records \in Partial /\ result.unread \subseteq Slots /\ result.done \in BOOLEAN
    BY EmptyIsPartial DEF Init
  <2> QED BY <2>1, <2>2, <2>3, <2>4 DEF Init, TypeOK
<1>2. HeldIsKept /\ PassesAgree /\ EverySlotIsAccounted
  BY DEF Init, HeldIsKept, PassesAgree, EverySlotIsAccounted, NoResult
<1> QED BY <1>1, <1>2 DEF Inv

-----------------------------------------------------------------------------
\* Asking counts the slot that is asked, and no other.
LEMMA AskCounts ==
    ASSUME NEW todo \in SUBSET Slots, NEW n \in 1..HISTORY_PASSES, Ask(todo),
           requests \subseteq Slots, asked \in [Slots -> 0..HISTORY_PASSES],
           \A s \in todo : asked[s] = n - 1
    PROVE  /\ pc' \in {"asking", "settling"}
           /\ pc' = "settling" => toAsk' = {}
           /\ toAsk' \subseteq todo
           /\ requests' \subseteq Slots
           /\ asked' \in [Slots -> 0..HISTORY_PASSES]
           /\ \A s \in Slots : asked'[s] = IF s \in todo \ toAsk' THEN n ELSE asked[s]
<1>1. CASE todo = {} /\ pc' = "settling" /\ toAsk' = {} /\ UNCHANGED <<requests, asked>>
  BY <1>1
<1>2. ASSUME NEW s \in todo,
             pc' = "asking", toAsk' = todo \ {s}, requests' = requests \cup {s},
             asked' = [asked EXCEPT ![s] = @ + 1]
      PROVE  /\ pc' \in {"asking", "settling"}
             /\ pc' = "settling" => toAsk' = {}
             /\ toAsk' \subseteq todo
             /\ requests' \subseteq Slots
             /\ asked' \in [Slots -> 0..HISTORY_PASSES]
             /\ \A t \in Slots : asked'[t] = IF t \in todo \ toAsk' THEN n ELSE asked[t]
  <2>1. s \in Slots /\ asked[s] + 1 = n
    BY <1>2
  <2>2. \A t \in Slots : asked'[t] = IF t = s THEN n ELSE asked[t]
    BY <1>2, <2>1
  <2>3. asked' \in [Slots -> 0..HISTORY_PASSES]
    BY <1>2, <2>1
  <2> QED BY <1>2, <2>1, <2>2, <2>3
<1> QED BY <1>1, <1>2 DEF Ask

\* Leaving with a complete account, or without any.
LEMMA LeaveInv ==
    ASSUME Inv, NEW r, Leave(r), pc # "idle",
           r.records \in Partial, r.unread \subseteq Slots, r.done \in BOOLEAN,
           EverySlotIsAccounted',
           authorised' = authorised, closed' = closed, ring' = ring,
           countAsked' = countAsked, countTold' = countTold, requests' = requests,
           replies' = replies, asked' = asked, held' = held
    PROVE  Inv'
<1>1. queue' \in Seq(Readers)
  BY DEF Inv, TypeOK, Leave
<1>2. TypeOK'
  BY <1>1 DEF Inv, TypeOK, Leave
<1>3. HeldIsKept'
  BY DEF Inv, HeldIsKept, Leave
<1>4. PassesAgree'
  BY DEF PassesAgree, Leave
<1> QED BY <1>2, <1>3, <1>4 DEF Inv

\* A read that gets the lock starts from nothing.
LEMMA BeginInv ==
    ASSUME Inv, Begin, pc = "idle", queue' \in Seq(Readers), queue' # <<>>,
           UNCHANGED <<authorised, closed, ring, countTold, requests, replies, held>>
    PROVE  Inv'
<1>1. TypeOK'
  BY EmptyIsPartial DEF Inv, TypeOK, Begin, AskCount, NoResult
<1>2. HeldIsKept'
  BY DEF Inv, HeldIsKept, Begin
<1>3. PassesAgree' /\ EverySlotIsAccounted'
  BY DEF PassesAgree, EverySlotIsAccounted, Begin, AskCount, NoResult
<1> QED BY <1>1, <1>2, <1>3 DEF Inv

\* Steps that leave the reading alone, and with it what was asked.
LEMMA ElsewhereInv ==
    ASSUME Inv, authorised' \in BOOLEAN, closed' \in BOOLEAN,
           queue' \in Seq(Readers), pc # "idle" => queue' # <<>>,
           UNCHANGED reading, asked' = asked,
           ring' \in [Slots -> Contents], held' \in [Slots -> SUBSET Contents],
           \A s \in Slots : ring'[s] \in held'[s] /\ held[s] \subseteq held'[s],
           countAsked' \in BOOLEAN, countTold' \in BOOLEAN, requests' \subseteq Slots,
           \A m \in replies' : m \in replies \/ \E s \in Slots : m = Told(s)
    PROVE  Inv'
<1> USE DEF reading
<1>1. \A s \in Slots : /\ Told(s) \in [slot : Slots, content : Contents]
                       /\ Told(s).content \in held[Told(s).slot]
  BY DEF Inv, TypeOK, HeldIsKept, Told
<1>2. replies' \subseteq [slot : Slots, content : Contents]
  BY <1>1 DEF Inv, TypeOK
<1>3. TypeOK'
  BY <1>2 DEF Inv, TypeOK
<1>4. HeldIsKept'
  <2>1. \A m \in replies' : m.content \in held[m.slot] /\ m.slot \in Slots
    BY <1>1, <1>2 DEF Inv, HeldIsKept
  <2>2. history # NoHistory => DOMAIN history \subseteq Slots
    BY PartialMeans DEF Inv, TypeOK
  <2> QED BY <2>1, <2>2 DEF Inv, HeldIsKept
<1>5. PassesAgree'
  BY DEF Inv, PassesAgree
<1>6. EverySlotIsAccounted'
  BY DEF Inv, EverySlotIsAccounted
<1> QED BY <1>3, <1>4, <1>5, <1>6 DEF Inv

-----------------------------------------------------------------------------
LEMMA ReadHistoryInv ==
    ASSUME Inv, NEW r \in Readers, ReadHistory(r)
    PROVE  Inv'
<1>1. queue' \in Seq(Readers) /\ queue' # <<>>
  BY DEF Inv, TypeOK, ReadHistory
<1>2. CASE queue = <<>>
  <2>1. pc = "idle" /\ Begin
    BY <1>2 DEF Inv, TypeOK, ReadHistory
  <2> QED BY <1>1, <2>1, BeginInv DEF ReadHistory
<1>3. CASE queue # <<>>
  <2>1. UNCHANGED <<authorised, closed, reading, asked, ring, held, countAsked, countTold,
                    requests, replies>>
    BY <1>3 DEF ReadHistory, reading
  <2> QED BY <1>1, <2>1, ElsewhereInv DEF Inv, TypeOK, HeldIsKept
<1> QED BY <1>2, <1>3

LEMMA CountExpiresInv ==
    ASSUME Inv, CountExpires
    PROVE  Inv'
BY DEF Inv, CountExpires, TypeOK, HeldIsKept, PassesAgree, EverySlotIsAccounted, network

\* The first pass misses every slot.
LEMMA CountArrivesInv ==
    ASSUME Inv, CountArrives
    PROVE  Inv'
<1>1. /\ pc = "counting" /\ queue # <<>> /\ ~result.done
      /\ asked = [s \in Slots |-> 0] /\ requests \subseteq Slots
  BY DEF Inv, TypeOK, PassesAgree, CountArrives
<1>2. /\ count' = "none" /\ history' = EmptyDict
      /\ pass' = 1 /\ missing' = Slots /\ Ask(Slots)
      /\ UNCHANGED <<authorised, closed, queue, result, ring, countAsked, countTold,
                     replies, held>>
  BY DEF CountArrives, StartPass
<1>3. 1 \in 1..HISTORY_PASSES /\ \A s \in Slots : asked[s] = 1 - 1
  BY <1>1
<1>4. /\ pc' \in {"asking", "settling"}
      /\ pc' = "settling" => toAsk' = {}
      /\ toAsk' \subseteq Slots
      /\ requests' \subseteq Slots
      /\ asked' \in [Slots -> 0..HISTORY_PASSES]
      /\ \A s \in Slots : asked'[s] = IF s \in Slots \ toAsk' THEN 1 ELSE asked[s]
  BY <1>1, <1>2, <1>3, AskCounts DEF Inv, TypeOK
<1>5. history' \in Partial /\ DOMAIN history' = {} /\ history' # NoHistory
  BY <1>2, EmptyIsPartial
<1>6. TypeOK'
  BY <1>1, <1>2, <1>4, <1>5 DEF Inv, TypeOK
<1>7. HeldIsKept'
  BY <1>2, <1>5 DEF Inv, HeldIsKept
<1>8. PassesAgree'
  BY <1>1, <1>2, <1>3, <1>4 DEF PassesAgree
<1>9. EverySlotIsAccounted'
  BY <1>1, <1>2 DEF EverySlotIsAccounted
<1> QED BY <1>6, <1>7, <1>8, <1>9 DEF Inv

LEMMA CountFailsInv ==
    ASSUME Inv, CountFails
    PROVE  Inv'
<1>1. pc = "counting" /\ ~result.done
  BY DEF Inv, TypeOK, PassesAgree, CountFails
<1>2. CASE pass < HISTORY_PASSES /\ AskCount(pass + 1)
           /\ UNCHANGED <<queue, history, missing, toAsk, result>>
  <2> USE <1>1, <1>2 DEF CountFails, AskCount, Inv
  <2>1. TypeOK'  BY DEF TypeOK
  <2>2. HeldIsKept'  BY DEF HeldIsKept
  <2>3. PassesAgree'  BY DEF PassesAgree, TypeOK
  <2>4. EverySlotIsAccounted'  BY DEF EverySlotIsAccounted
  <2> QED BY <2>1, <2>2, <2>3, <2>4
<1>3. CASE Leave(NoResult) /\ UNCHANGED countAsked
  <2>1. EverySlotIsAccounted'
    BY <1>3 DEF EverySlotIsAccounted, Leave, NoResult
  <2>2. /\ NoResult.records \in Partial /\ NoResult.unread \subseteq Slots
        /\ NoResult.done \in BOOLEAN
    BY EmptyIsPartial DEF NoResult
  <2> QED BY <1>1, <1>3, <2>1, <2>2, LeaveInv DEF CountFails
<1> QED BY <1>2, <1>3 DEF CountFails

LEMMA AskNextInv ==
    ASSUME Inv, AskNext
    PROVE  Inv'
<1>1. /\ pc = "asking" /\ Ask(toAsk) /\ ~result.done /\ queue # <<>>
      /\ pass \in 1..HISTORY_PASSES /\ history # NoHistory /\ count = "none"
      /\ toAsk \subseteq missing /\ missing \subseteq Slots
      /\ UNCHANGED <<authorised, closed, queue, pass, count, history, missing, result,
                     ring, countAsked, countTold, replies, held>>
  BY DEF Inv, TypeOK, PassesAgree, AskNext
<1>2. \A s \in toAsk : asked[s] = pass - 1
  BY <1>1 DEF Inv, PassesAgree
<1>3. /\ pc' \in {"asking", "settling"}
      /\ pc' = "settling" => toAsk' = {}
      /\ toAsk' \subseteq toAsk
      /\ requests' \subseteq Slots
      /\ asked' \in [Slots -> 0..HISTORY_PASSES]
      /\ \A s \in Slots : asked'[s] = IF s \in toAsk \ toAsk' THEN pass ELSE asked[s]
  BY <1>1, <1>2, AskCounts DEF Inv, TypeOK
<1>4. TypeOK'
  BY <1>1, <1>3 DEF Inv, TypeOK
<1>5. HeldIsKept'
  BY <1>1 DEF Inv, HeldIsKept
<1>6. PassesAgree'
  BY <1>1, <1>2, <1>3 DEF Inv, PassesAgree
<1>7. EverySlotIsAccounted'
  BY <1>1 DEF EverySlotIsAccounted
<1> QED BY <1>4, <1>5, <1>6, <1>7 DEF Inv

\* A pass ends: what is still missing was asked in every pass and never answered.
LEMMA EndPassInv ==
    ASSUME Inv, EndPass
    PROVE  Inv'
<1> DEFINE left == missing \ DOMAIN history
<1>1. /\ pc = "settling" /\ ~result.done /\ queue # <<>> /\ toAsk = {}
      /\ pass \in 1..HISTORY_PASSES /\ history # NoHistory /\ count = "none"
      /\ history \in Partial /\ missing \subseteq Slots
      /\ UNCHANGED <<authorised, closed, ring, countAsked, countTold, replies, held>>
  BY DEF Inv, TypeOK, PassesAgree, EndPass
<1>2. \A s \in Slots : IF s \in missing THEN asked[s] = pass ELSE s \in DOMAIN history
  BY <1>1 DEF Inv, PassesAgree
<1>3. /\ DOMAIN history \subseteq Slots
      /\ \A s \in DOMAIN history : /\ history[s] \in Contents
                                   /\ \E c \in held[s] : history[s] = Taken(c)
  BY <1>1, PartialMeans DEF Inv, HeldIsKept
<1>4. CASE /\ left = {} \/ pass = HISTORY_PASSES
           /\ Leave(ChargeHistory(left))
           /\ UNCHANGED <<requests, asked>>
  <2> DEFINE account == ChargeHistory(left)
  <2>1. /\ account.done = TRUE /\ account.unread = left
        /\ account.records = [s \in Filled |-> history[s]]
    BY DEF ChargeHistory
  <2>2. /\ Filled \subseteq Slots
        /\ \A s \in Filled : /\ history[s] \in Contents
                             /\ history[s] \in held[s] \ Blank
    BY <1>3 DEF Filled, Taken, Blank
  <2>3. /\ DOMAIN account.records = Filled
        /\ \A s \in Filled : account.records[s] = history[s]
    BY <2>1
  <2>4. account.records \in Partial
    BY <2>1, <2>2, PartialMeans
  <2>5. result' = account
    BY <1>4 DEF Leave
  <2> HIDE DEF account
  <2>6. ASSUME NEW s \in Slots
        PROVE  \/ s \in left /\ s \notin Filled /\ asked[s] = HISTORY_PASSES
               \/ s \notin left /\ s \in Filled
               \/ s \notin left /\ s \notin Filled /\ held[s] \cap Blank # {}
    BY <1>2, <1>3, <1>4 DEF Filled, Taken, Blank
  <2>7. EverySlotIsAccounted'
    BY <1>1, <1>4, <2>1, <2>2, <2>3, <2>5, <2>6 DEF EverySlotIsAccounted
  <2> QED BY <1>1, <1>4, <2>1, <2>4, <2>7, LeaveInv DEF account
<1>5. CASE /\ ~(left = {} \/ pass = HISTORY_PASSES)
           /\ StartPass(pass + 1, left)
           /\ UNCHANGED <<queue, count, history, result>>
  <2>1. /\ pass + 1 \in 1..HISTORY_PASSES /\ left \in SUBSET Slots
        /\ pass' = pass + 1 /\ missing' = left /\ Ask(left)
        /\ \A s \in left : asked[s] = (pass + 1) - 1
    BY <1>1, <1>2, <1>5 DEF StartPass
  <2> HIDE DEF left
  <2>2. /\ pc' \in {"asking", "settling"}
        /\ pc' = "settling" => toAsk' = {}
        /\ toAsk' \subseteq left
        /\ requests' \subseteq Slots
        /\ asked' \in [Slots -> 0..HISTORY_PASSES]
        /\ \A s \in Slots : asked'[s] = IF s \in left \ toAsk' THEN pass + 1 ELSE asked[s]
    BY <2>1, AskCounts DEF Inv, TypeOK
  <2>3. TypeOK'
    BY <1>1, <1>5, <2>1, <2>2 DEF Inv, TypeOK
  <2>4. HeldIsKept'
    BY <1>1, <1>5 DEF Inv, HeldIsKept
  <2>5. PassesAgree'
    BY <1>1, <1>2, <1>5, <2>1, <2>2 DEF PassesAgree, left
  <2>6. EverySlotIsAccounted'
    BY <1>1, <1>5 DEF EverySlotIsAccounted
  <2> QED BY <2>3, <2>4, <2>5, <2>6 DEF Inv
<1> QED BY <1>4, <1>5 DEF EndPass

LEMMA CancelReadInv ==
    ASSUME Inv, NEW i \in DOMAIN queue, CancelRead(i)
    PROVE  Inv'
<1>1. CASE i = 1 /\ pc # "idle"
  <2>1. Leave(NoResult)
    BY <1>1 DEF CancelRead
  <2>2. EverySlotIsAccounted'
    BY <2>1 DEF EverySlotIsAccounted, Leave, NoResult
  <2>3. /\ NoResult.records \in Partial /\ NoResult.unread \subseteq Slots
        /\ NoResult.done \in BOOLEAN
    BY EmptyIsPartial DEF NoResult
  <2> QED BY <1>1, <2>1, <2>2, <2>3, LeaveInv DEF CancelRead, network
<1>2. CASE ~(i = 1 /\ pc # "idle")
  <2>1. /\ queue' = SubSeq(queue, 1, i - 1) \o SubSeq(queue, i + 1, Len(queue))
        /\ UNCHANGED <<authorised, closed, reading, ring, network, asked, held>>
    BY <1>2 DEF CancelRead
  <2>2. queue \in Seq(Readers) /\ i \in 1..Len(queue)
    BY DEF Inv, TypeOK
  <2>3. /\ SubSeq(queue, 1, i - 1) \in Seq(Readers)
        /\ SubSeq(queue, i + 1, Len(queue)) \in Seq(Readers)
        /\ Len(SubSeq(queue, 1, i - 1)) = i - 1
    BY <2>2, SubSeqProperties
  <2>4. queue' \in Seq(Readers)
    BY <2>1, <2>3, ConcatProperties
  <2>5. pc # "idle" => queue' # <<>>
    BY <1>2, <2>1, <2>2, <2>3, ConcatProperties, EmptySeq
  <2> QED BY <2>1, <2>4, <2>5, ElsewhereInv DEF Inv, TypeOK, HeldIsKept, network
<1> QED BY <1>1, <1>2

-----------------------------------------------------------------------------
LEMMA HandleCountInv ==
    ASSUME Inv, HandleCount
    PROVE  Inv'
<1> USE DEF Inv, HandleCount
<1>1. TypeOK'  BY DEF TypeOK
<1>2. HeldIsKept'  BY DEF HeldIsKept
<1>3. PassesAgree'  BY DEF PassesAgree
<1>4. EverySlotIsAccounted'  BY DEF EverySlotIsAccounted
<1> QED BY <1>1, <1>2, <1>3, <1>4

\* A reply is filed under its own slot, and no slot is lost from the dictionary.
LEMMA HandleRecordInv ==
    ASSUME Inv, NEW m \in replies, HandleRecord(m)
    PROVE  Inv'
<1>1. /\ replies' \subseteq replies
      /\ UNCHANGED <<authorised, closed, queue, pc, pass, count, missing, toAsk, result,
                     ring, countAsked, countTold, requests, asked, held>>
  BY DEF HandleRecord
<1>2. m.slot \in Slots /\ m.content \in Contents /\ m.content \in held[m.slot]
  BY DEF Inv, TypeOK, HeldIsKept
<1>3. CASE history = NoHistory
  <2>1. history' = NoHistory  BY <1>3 DEF HandleRecord
  <2>2. TypeOK'  BY <1>1, <1>3, <2>1 DEF Inv, TypeOK
  <2>3. HeldIsKept'  BY <1>1, <2>1 DEF Inv, HeldIsKept
  <2>4. PassesAgree'  BY <1>1, <1>3, <2>1 DEF Inv, PassesAgree
  <2>5. EverySlotIsAccounted'  BY <1>1 DEF Inv, EverySlotIsAccounted
  <2> QED BY <2>2, <2>3, <2>4, <2>5 DEF Inv
<1>4. CASE history # NoHistory
  <2>1. history' = [s \in DOMAIN history \cup {m.slot} |->
                       IF s # m.slot THEN history[s] ELSE Taken(m.content)]
    BY <1>4 DEF HandleRecord, Taken
  <2>2. /\ DOMAIN history \subseteq Slots
        /\ \A s \in DOMAIN history : /\ history[s] \in Contents
                                     /\ \E c \in held[s] : history[s] = Taken(c)
    BY <1>4, PartialMeans DEF Inv, TypeOK, HeldIsKept
  <2>3. /\ DOMAIN history' = DOMAIN history \cup {m.slot}
        /\ \A s \in DOMAIN history' : /\ history'[s] \in Contents
                                      /\ \E c \in held[s] : history'[s] = Taken(c)
    BY <1>2, <2>1, <2>2 DEF Taken, Contents
  <2>4. history' \in Partial
    BY <1>2, <2>1, <2>2, <2>3, PartialMeans
  <2>5. history' # NoHistory
    BY <2>4
  <2>6. TypeOK'  BY <1>1, <1>4, <2>4, <2>5 DEF Inv, TypeOK
  <2>7. HeldIsKept'  BY <1>1, <2>3 DEF Inv, HeldIsKept
  <2>8. PassesAgree'  BY <1>1, <2>3 DEF Inv, PassesAgree
  <2>9. EverySlotIsAccounted'  BY <1>1 DEF Inv, EverySlotIsAccounted
  <2> QED BY <2>6, <2>7, <2>8, <2>9 DEF Inv
<1> QED BY <1>3, <1>4

LEMMA StepInv == Inv /\ [Next]_vars => Inv'
<1> SUFFICES ASSUME Inv, [Next]_vars PROVE Inv'  OBVIOUS
<1> USE DEF network
<1>1. CASE \E r \in Readers : ReadHistory(r)
  BY <1>1, ReadHistoryInv
<1>2. CASE Loop
  <2>1. CASE Enter
    BY <2>1, BeginInv DEF Enter, Inv, TypeOK
  <2> QED BY <1>2, <2>1, CountExpiresInv, CountArrivesInv, CountFailsInv, AskNextInv,
             EndPassInv DEF Loop
<1>3. CASE \E i \in DOMAIN queue : CancelRead(i)
  BY <1>3, CancelReadInv
<1>4. CASE HandleCount
  BY <1>4, HandleCountInv
<1>5. CASE \E m \in replies : HandleRecord(m)
  BY <1>5, HandleRecordInv
<1>6. CASE Reauthorise \/ Close
  BY <1>6, ElsewhereInv DEF Reauthorise, Close, Inv, TypeOK, HeldIsKept
<1>7. CASE AnswerCount
  BY <1>7, ElsewhereInv DEF AnswerCount, Inv, TypeOK, HeldIsKept
<1>8. ASSUME NEW s \in Slots, AnswerSlot(s) PROVE Inv'
  BY <1>8, ElsewhereInv DEF AnswerSlot, Inv, TypeOK, HeldIsKept
<1>9. ASSUME NEW f \in Finishing, FinishSession(f[1], f[2]) PROVE Inv'
  <2> DEFINE s == f[1]
             r == f[2]
  <2>0. s \in Slots /\ r \in Records /\ FinishSession(s, r)
    BY <1>9, FinishingMeans
  <2> HIDE DEF s, r
  <2>1. ring' \in [Slots -> Contents] /\ held' \in [Slots -> SUBSET Contents]
    BY <2>0 DEF FinishSession, Inv, TypeOK, Contents
  <2>2. \A t \in Slots : ring'[t] \in held'[t] /\ held[t] \subseteq held'[t]
    BY <2>0 DEF FinishSession, Inv, TypeOK, HeldIsKept
  <2> QED BY <2>0, <2>1, <2>2, ElsewhereInv DEF FinishSession, Inv, TypeOK
<1>10. CASE OtherClientReads
  BY <1>10, ElsewhereInv DEF OtherClientReads, Inv, TypeOK, HeldIsKept
<1>11. CASE Lose
  BY <1>11, ElsewhereInv DEF Lose, Inv, TypeOK, HeldIsKept
<1>12. CASE UNCHANGED vars
  BY <1>12, ElsewhereInv DEF vars, Inv, TypeOK, HeldIsKept
<1> QED
  BY <1>1, <1>2, <1>3, <1>4, <1>5, <1>6, <1>7, <1>8, <1>9, <1>10, <1>11, <1>12 DEF Next

LEMMA InvHolds == Spec => []Inv
BY InitInv, StepInv, PTL DEF Spec

\* The variables keep their types; a read's fields are there just while it runs, and
\* only the holder of the lock runs.
THEOREM HistoryTypeCorrect == Spec => []TypeOK
<1>1. Inv => TypeOK  BY DEF Inv
<1> QED BY <1>1, InvHolds, PTL

\* A history accounts for every slot of the ring, for any ring and any number of passes:
\* an unread slot was asked in each, and what is said of the others was so
\* (README.md:85-86).
THEOREM SlotsAreAccounted == Spec => []EverySlotIsAccounted
<1>1. Inv => EverySlotIsAccounted  BY DEF Inv
<1> QED BY <1>1, InvHolds, PTL
-----------------------------------------------------------------------------
(* read_history() implements HistoryService.                               *)

\* The accounts that are returned are what the service understands by one.
LEMMA AccountsAreAccounts ==
    ASSUME TypeOK', EverySlotIsAccounted', result'.done, held' = held
    PROVE  Service!IsAccount(result')
<1>1. DOMAIN result'.records \subseteq Slots /\ result'.unread \subseteq Slots
  BY PartialMeans DEF TypeOK
<1>2. \A s \in Slots :
          \/ s \in result'.unread /\ s \notin DOMAIN result'.records
          \/ /\ s \notin result'.unread /\ s \in DOMAIN result'.records
             /\ result'.records[s] \in held[s] \ Blank
          \/ s \notin result'.unread /\ s \notin DOMAIN result'.records
             /\ held[s] \cap Blank # {}
  BY DEF EverySlotIsAccounted
<1> QED BY <1>1, <1>2 DEF Service!IsAccount

LEMMA LeaveServes ==
    ASSUME Inv, NEW r, Leave(r), pc # "idle", r = NoResult \/ Service!IsAccount(r),
           held' = held
    PROVE  Service!Leave
<1>1. queue' = Tail(queue) /\ pc' = "idle" /\ result' = r
  BY DEF Leave
<1> QED BY Zenon, <1>1 DEF Service!Leave

\* Steps inside a read, and those that have nothing to do with one.
LEMMA StutterServes ==
    ASSUME UNCHANGED <<queue, result, held>>, (pc' = "idle") = (pc = "idle")
    PROVE  UNCHANGED Service!vars
BY Zenon DEF Service!vars

LEMMA ReadHistoryServes ==
    ASSUME Inv, NEW r \in Readers, ReadHistory(r)
    PROVE  Service!Next
<1>1. /\ \A i \in DOMAIN queue : queue[i] # r
      /\ queue' = Append(queue, r) /\ held' = held
  BY Zenon DEF ReadHistory
<1>2. CASE queue = <<>>
  <2>1. pc' = "counting" /\ result' = NoResult
    BY Zenon, <1>2 DEF ReadHistory, Begin, AskCount
  <2>2. pc' # "idle"
    BY <2>1
  <2> QED BY Zenon, <1>1, <1>2, <2>1, <2>2 DEF Service!Next, Service!Join, Service!Begin
<1>3. CASE queue # <<>>
  <2>1. UNCHANGED <<pc, result>>
    BY Zenon, <1>3 DEF ReadHistory
  <2> QED BY Zenon, <1>1, <1>3, <2>1 DEF Service!Next, Service!Join
<1> QED BY Zenon, <1>2, <1>3

LEMMA EnterServes ==
    ASSUME Enter
    PROVE  Service!Next
<1>1. /\ pc = "idle" /\ queue # <<>> /\ UNCHANGED <<queue, held>>
      /\ pc' = "counting" /\ result' = NoResult
  BY Zenon DEF Enter, Begin, AskCount
<1>2. pc' # "idle"
  BY <1>1
<1> QED BY Zenon, <1>1, <1>2 DEF Service!Next, Service!Enter, Service!Begin

LEMMA EndPassServes ==
    ASSUME Inv, Inv', EndPass
    PROVE  Service!Next \/ UNCHANGED Service!vars
<1>1. pc = "settling" /\ held' = held
  BY Zenon DEF EndPass
<1>2. ASSUME NEW left, Leave(ChargeHistory(left)) PROVE Service!Next
  <2>1. result' = ChargeHistory(left) /\ ChargeHistory(left).done
    BY <1>2 DEF Leave, ChargeHistory
  <2>2. Service!IsAccount(result')
    BY <1>1, <2>1, AccountsAreAccounts DEF Inv
  <2>3. pc # "idle"
    BY <1>1
  <2> QED BY Zenon, <1>1, <1>2, <2>1, <2>2, <2>3, LeaveServes DEF Service!Next
<1>3. ASSUME NEW n, NEW left, StartPass(n, left), UNCHANGED <<queue, count, history, result>>
      PROVE  UNCHANGED Service!vars
  <2>1. pc' \in {"settling", "asking"}
    BY Zenon, <1>3 DEF StartPass, Ask
  <2>2. (pc' = "idle") = (pc = "idle")
    BY <1>1, <2>1
  <2> QED BY Zenon, <1>1, <1>3, <2>2, StutterServes
<1> QED BY Zenon, <1>2, <1>3 DEF EndPass

\* The turns of a read that are not its last.
LEMMA LoopServes ==
    ASSUME Inv, Inv', CountExpires \/ CountArrives \/ AskNext \/ CountFails
    PROVE  Service!Next \/ UNCHANGED Service!vars
<1>1. CASE CountExpires
  <2>1. UNCHANGED <<queue, result, held, pc>>
    BY Zenon, <1>1 DEF CountExpires
  <2> QED BY Zenon, <2>1, StutterServes
<1>2. CASE CountArrives
  <2>1. UNCHANGED <<queue, result, held>> /\ pc' \in {"settling", "asking"}
    BY Zenon, <1>2 DEF CountArrives, StartPass, Ask
  <2>2. pc = "counting"
    BY <1>2 DEF CountArrives, Inv, TypeOK
  <2>3. (pc' = "idle") = (pc = "idle")
    BY <2>1, <2>2
  <2> QED BY Zenon, <2>1, <2>3, StutterServes
<1>3. CASE AskNext
  <2>1. UNCHANGED <<queue, result, held>> /\ pc' \in {"settling", "asking"} /\ pc = "asking"
    BY Zenon, <1>3 DEF AskNext, Ask
  <2>2. (pc' = "idle") = (pc = "idle")
    BY <2>1
  <2> QED BY Zenon, <2>1, <2>2, StutterServes
<1>4. CASE CountFails
  <2>1. held' = held /\ pc = "counting"
    BY <1>4 DEF CountFails, Inv, TypeOK
  <2>2. CASE Leave(NoResult)
    <3>1. pc # "idle"
      BY <2>1
    <3> QED BY Zenon, <2>1, <2>2, <3>1, LeaveServes DEF Service!Next
  <2>3. CASE AskCount(pass + 1) /\ UNCHANGED <<queue, result>>
    <3>1. (pc' = "idle") = (pc = "idle")
      BY <2>1, <2>3 DEF AskCount
    <3> QED BY Zenon, <2>1, <2>3, <3>1, StutterServes
  <2> QED BY Zenon, <1>4, <2>2, <2>3 DEF CountFails
<1> QED BY Zenon, <1>1, <1>2, <1>3, <1>4

LEMMA CancelReadServes ==
    ASSUME Inv, NEW i \in DOMAIN queue, CancelRead(i)
    PROVE  Service!Next
<1>1. held' = held
  BY Zenon DEF CancelRead
<1>2. CASE i = 1 /\ pc # "idle"
  BY Zenon, <1>1, <1>2, LeaveServes DEF CancelRead, Service!Next
<1>3. CASE ~(i = 1 /\ pc # "idle")
  <2>1. /\ queue' = SubSeq(queue, 1, i - 1) \o SubSeq(queue, i + 1, Len(queue))
        /\ UNCHANGED <<pc, result>>
    BY Zenon, <1>3 DEF CancelRead, reading
  <2>2. Service!Withdraw(i)
    BY Zenon, <1>1, <1>3, <2>1 DEF Service!Withdraw
  <2> QED BY Zenon, <2>2 DEF Service!Next
<1> QED BY Zenon, <1>2, <1>3

LEMMA StepServes == Inv /\ Inv' /\ [Next]_vars => [Service!Next]_(Service!vars)
<1> SUFFICES ASSUME Inv, Inv', [Next]_vars PROVE Service!Next \/ UNCHANGED Service!vars
  OBVIOUS
<1>1. ASSUME NEW s \in Slots, NEW r \in Records, FinishSession(s, r) PROVE Service!Next
  <2>1. /\ held' = [held EXCEPT ![s] = @ \cup {r}] /\ r \in Contents
        /\ UNCHANGED <<queue, pc, result>>
    BY <1>1 DEF FinishSession, reading, Contents
  <2> QED BY Zenon, <2>1 DEF Service!Next, Service!Overwrite
<1>2. CASE \/ HandleCount \/ \E m \in replies : HandleRecord(m)
           \/ Reauthorise \/ Close \/ AnswerCount \/ \E s \in Slots : AnswerSlot(s)
           \/ OtherClientReads \/ Lose \/ UNCHANGED vars
  <2>1. UNCHANGED <<queue, pc, result, held>>
    BY Zenon, <1>2 DEF HandleCount, HandleRecord, Reauthorise, Close, AnswerCount,
       AnswerSlot, OtherClientReads, Lose, reading, vars
  <2> QED BY Zenon, <2>1, StutterServes
<1> QED BY Zenon, <1>1, <1>2, FinishingMeans, ReadHistoryServes, EnterServes, LoopServes, EndPassServes,
           CancelReadServes DEF Next, Loop

\* read_history() implements HistoryService: one read at a time, in the order of the
\* calls, each with an account of the ring (device.py:533-557), for any readers and ring.
THEOREM HistoryRefines == Spec => ImplementsHistoryService
<1>1. Init => Service!Init
  <2> SUFFICES ASSUME Init PROVE Service!Init  OBVIOUS
  <2>1. \A s \in Slots : held[s] # {}
    BY DEF Init
  <2> QED BY Zenon, <2>1 DEF Init, Service!Init
<1> QED BY <1>1, StepServes, InvHolds, PTL DEF Spec, ImplementsHistoryService, Service!Spec
=============================================================================
