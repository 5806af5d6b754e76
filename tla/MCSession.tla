----------------------------- MODULE MCSession -----------------------------
(* Session on two login() identities; the .cfg files choose the times and   *)
(* what the surroundings do.                                                *)
EXTENDS Session, TLC

CONSTANTS l1, l2

MCLogins == {l1, l2}
LoginSymmetry == Permutations(MCLogins)
=============================================================================
