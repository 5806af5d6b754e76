------------------------------ MODULE MCHistory ------------------------------
(* History on two reads of a small ring.                                      *)
EXTENDS History

CONSTANTS record, short

\* A slot whose record is told too short, and an empty one that may get a record meanwhile.
MCRings == {<<short, Empty>>}
MCFinishing == {<<2, record>>}
=============================================================================
