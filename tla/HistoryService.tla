--------------------------- MODULE HistoryService ---------------------------
(***************************************************************************)
(* What EvseDevice.read_history() promises, and nothing of how it keeps    *)
(* the promise: reads go one at a time and in the order of their calls,    *)
(* one that is given up costs no other its place, and what a read returns  *)
(* is an account of every slot.                                            *)
(***************************************************************************)
EXTENDS Naturals, Sequences

CONSTANTS
    Readers,                 \* identities of read_history() calls
    Slots,
    Contents,                \* what a slot may hold
    Blank,                   \* and what of that is no record to its reader
    NoResult                 \* a read that has not returned, or that raised

VARIABLES
    line,                    \* the reads, in the order of their calls
    inside,                  \* the first of them has begun
    result,                  \* what the last read to end gave its caller
    held                     \* everything each slot ever held

vars == <<line, inside, result, held>>

\* Each slot is unread, or has a record that it did hold, or was blank once.
IsAccount(a) ==
    /\ a.unread \subseteq Slots /\ DOMAIN a.records \subseteq Slots \ a.unread
    /\ \A s \in DOMAIN a.records : a.records[s] \in held[s] \ Blank
    /\ \A s \in Slots \ (a.unread \cup DOMAIN a.records) : held[s] \cap Blank # {}

Init ==
    /\ line = <<>>
    /\ inside = FALSE
    /\ result = NoResult
    /\ \A s \in Slots : held[s] # {}

Begin == inside' = TRUE /\ result' = NoResult

\* A call: straight in, or behind the others.
Join(r) ==
    /\ \A i \in DOMAIN line : line[i] # r
    /\ line' = Append(line, r)
    /\ IF line = <<>> THEN Begin ELSE UNCHANGED <<inside, result>>
    /\ UNCHANGED held

Enter ==
    /\ ~inside /\ line # <<>>
    /\ Begin
    /\ UNCHANGED <<line, held>>

\* The read inside ends, with an account or without a result.
Leave ==
    /\ inside
    /\ inside' = FALSE
    /\ line' = Tail(line)
    /\ result' = NoResult \/ IsAccount(result')
    /\ UNCHANGED held

\* One that has not begun is given up.
Withdraw(i) ==
    /\ inside => i # 1
    /\ line' = SubSeq(line, 1, i - 1) \o SubSeq(line, i + 1, Len(line))
    /\ UNCHANGED <<inside, result, held>>

\* A session ends and overwrites a slot.
Overwrite(s) ==
    /\ \E c \in Contents : held' = [held EXCEPT ![s] = @ \cup {c}]
    /\ UNCHANGED <<line, inside, result>>

Next ==
    \/ \E r \in Readers : Join(r)
    \/ Enter
    \/ Leave
    \/ \E i \in DOMAIN line : Withdraw(i)
    \/ \E s \in Slots : Overwrite(s)

Spec == Init /\ [][Next]_vars
=============================================================================
