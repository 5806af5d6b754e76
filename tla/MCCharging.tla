----------------------------- MODULE MCCharging -----------------------------
(* Charging with the limits of the code.                                     *)
EXTENDS Charging, TLC
=============================================================================
