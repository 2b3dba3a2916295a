----------------------------- MODULE MCGapFill -----------------------------
(***************************************************************************)
(* An instance of GapFill: one message of a contact both devices know,     *)
(* which also arrives live, and one of a contact only the answerer knows.  *)
(***************************************************************************)
EXTENDS GapFill, TLC

CONSTANTS m1, m2

============================================================================
