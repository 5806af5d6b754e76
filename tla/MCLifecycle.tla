---------------------------- MODULE MCLifecycle ----------------------------
(* Lifecycle with two callers; one more socket than callers, for a leaked one. *)
EXTENDS Lifecycle, TLC
=============================================================================
