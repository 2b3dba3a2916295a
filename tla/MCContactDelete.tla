-------------------------- MODULE MCContactDelete --------------------------
(***************************************************************************)
(* An instance of ContactDelete: the clock of device a is ahead, and a can *)
(* run two handlers at once.                                               *)
(***************************************************************************)
EXTENDS ContactDelete, TLC

CONSTANTS a, b, s1, s2

MCSlots == [d \in Linked |-> IF d = a THEN {s1, s2} ELSE {s1}]
MCSkew == [d \in Linked |-> IF d = a THEN 1 ELSE 0]

============================================================================
