----------------------------- MODULE MCRotation -----------------------------
(* Instances of Rotation for TLC. *)
EXTENDS Rotation, TLC

\* Ends and rotation ids are interchangeable.
Symmetry == Permutations(Ends) \cup Permutations(Rots)
=============================================================================
