----------------------------- MODULE MCReceipts -----------------------------
(* Model-checking instance of Receipts: two devices, and on each of them a  *)
(* request that opens the chat beside one that handles an arrival.          *)
EXTENDS Receipts, TLC

CONSTANTS d1, d2, open, arrival

MCDevices == {d1, d2}
MCTwo == {open, arrival}
MCSym == Permutations(MCDevices) \cup Permutations(MCTwo)
=============================================================================
