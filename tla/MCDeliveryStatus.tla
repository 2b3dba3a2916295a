-------------------------- MODULE MCDeliveryStatus --------------------------
(* Model-checking instance of DeliveryStatus: a contact with two devices,   *)
(* which are interchangeable, and every kind of fault.                      *)
EXTENDS DeliveryStatus, TLC

CONSTANTS e1, e2

MCTwo == {e1, e2}
MCAllFaults == {"drop", "store", "list"}
MCSymTwo == Permutations(MCTwo)
=============================================================================
