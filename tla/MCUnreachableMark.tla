-------------------------- MODULE MCUnreachableMark --------------------------
(* UnreachableMark for TLC; workers are interchangeable.                    *)
EXTENDS UnreachableMark, TLC

CONSTANTS w1, w2

Workers == {w1, w2}
Symmetry == Permutations(Workers)
=============================================================================
