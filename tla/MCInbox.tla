------------------------------ MODULE MCInbox -------------------------------
(* Inbox for TLC: two envelopes, of one message or of two.                 *)
EXTENDS Inbox

CONSTANTS e1, e2, m1, m2

SameMsg == (e1 :> m1) @@ (e2 :> m1)
TwoMsgs == (e1 :> m1) @@ (e2 :> m2)
=============================================================================
