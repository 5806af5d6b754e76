--------------------------- MODULE LoginService ---------------------------
(***************************************************************************)
(* What EvseDevice.login() promises its callers, and nothing of how it     *)
(* keeps the promise: one handshake at a time, a caller that finds one     *)
(* under way is turned back at once, True is given only while the device   *)
(* is authorised, and every call comes back.                               *)
(***************************************************************************)

CONSTANT Logins              \* identities of login() calls

VARIABLES
    call,                    \* [Logins -> {"idle", "queued", "running"}]
    result,                  \* what the last call to return gave; "false" is also
                             \* a call that raised CancelledError
    authorised               \* EvseDevice.is_authorised

vars == <<call, result, authorised>>

SomeRunning == \E l \in Logins : call[l] = "running"

Init ==
    /\ call = [l \in Logins |-> "idle"]
    /\ result = "none"
    /\ authorised = FALSE

\* create_task(login()): the call exists and has not taken a step.
Spawn(l) ==
    /\ call[l] = "idle"
    /\ call' = [call EXCEPT ![l] = "queued"]
    /\ UNCHANGED <<result, authorised>>

\* No handshake was under way: this call carries one.
Begin(l) ==
    /\ call[l] # "running"
    /\ ~SomeRunning
    /\ call' = [call EXCEPT ![l] = "running"]
    /\ result' = "none"
    /\ UNCHANGED authorised

\* The handshake ends, or the call was never needed or never wanted, or failed at once.
Return(l, r) ==
    /\ SomeRunning \/ r = "false"
    /\ r = "true" => authorised
    /\ call' = [call EXCEPT ![l] = "idle"]
    /\ result' = r
    /\ UNCHANGED authorised

\* The charger's answers, and closing the device, change what we are allowed.
Reauthorise ==
    /\ authorised' \in BOOLEAN
    /\ UNCHANGED <<call, result>>

Next ==
    \/ \E l \in Logins : Spawn(l) \/ Begin(l)
    \/ \E l \in Logins, r \in {"true", "false"} : Return(l, r)
    \/ Reauthorise

\* Every call to login() comes back to its caller.
EveryCallReturns == \A l \in Logins : (call[l] # "idle") ~> (call[l] = "idle")

Spec == Init /\ [][Next]_vars

LiveSpec == Spec /\ EveryCallReturns
=============================================================================
