--------------------------- MODULE MCCircuitRenew ---------------------------
(* CircuitRenew for TLC; requests are interchangeable.                      *)
EXTENDS CircuitRenew, TLC

CONSTANTS r1, r2

Requests2 == {r1, r2}
Symmetry == Permutations(Requests2)
=============================================================================
