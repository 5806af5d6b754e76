--------------------------- MODULE RecordDelivery ---------------------------
(***************************************************************************)
(* What becomes of charge records, and nothing of how: a record is kept by *)
(* whoever made it until it was offered to the consumer, or another client *)
(* has taken it.  It is offered once or more, never before it was made,    *)
(* and given up at most once.                                              *)
(***************************************************************************)

CONSTANT Sessions            \* each makes one record, when it is over

VARIABLES
    stage,                   \* [Sessions -> {"none", "kept", "done", "elsewhere"}]
    offered                  \* sessions whose record the consumer was offered

vars == <<stage, offered>>

Init ==
    /\ stage = [n \in Sessions |-> "none"]
    /\ offered = {}

Finish(n) ==
    /\ stage[n] = "none"
    /\ stage' = [stage EXCEPT ![n] = "kept"]
    /\ UNCHANGED offered

\* Also when it was offered, or even given up, before: a copy may be late.
Offer(n) ==
    /\ stage[n] # "none"
    /\ offered' = offered \cup {n}
    /\ UNCHANGED stage

GiveUp(n) ==
    /\ stage[n] = "kept"
    /\ n \in offered
    /\ stage' = [stage EXCEPT ![n] = "done"]
    /\ UNCHANGED offered

\* Another client takes the record, and it may never reach this one's consumer.
TakeElsewhere(n) ==
    /\ stage[n] = "kept"
    /\ stage' = [stage EXCEPT ![n] = "elsewhere"]
    /\ UNCHANGED offered

Next == \E n \in Sessions : Finish(n) \/ Offer(n) \/ GiveUp(n) \/ TakeElsewhere(n)

Spec == Init /\ [][Next]_vars
=============================================================================
