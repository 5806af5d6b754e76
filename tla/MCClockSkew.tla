---------------------------- MODULE MCClockSkew ----------------------------
(* ClockSkew with the durations of the code: skews on both sides of every   *)
(* comparison, and of a month as in the field.                              *)
EXTENDS ClockSkew

MCSkews ==
    {-2678400, -86430, -86400, 0, 86400, 86401, 86460, 86461, 86521, 2678400}
MCLeads == {7200, 172800}
=============================================================================
