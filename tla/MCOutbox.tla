------------------------------ MODULE MCOutbox ------------------------------
EXTENDS Outbox, TLC
CONSTANTS e1, e2, d1, d2

OneEnv == e1 :> d1
SameDest == e1 :> d1 @@ e2 :> d1
TwoDests == e1 :> d1 @@ e2 :> d2
=============================================================================
