----------------------------- MODULE MCSettings -----------------------------
(* Settings with interchangeable values.                                     *)
EXTENDS Settings, TLC

ValueSymmetry == Permutations(Values)
=============================================================================
