----------------------------- MODULE MCRouting -----------------------------
(* Routing on a few devices, chargers and addresses, all interchangeable.   *)
EXTENDS Routing, TLC

Symmetries ==
    Permutations(Devices) \cup Permutations(Serials) \cup Permutations(Addresses)
=============================================================================
