------------------------------ MODULE Delivery ------------------------------
(***************************************************************************)
(* What the receiving side of a device promises about messages, without    *)
(* the inbox, the event stream and the reader that keep the promise: a     *)
(* message it has answered for is accepted, an accepted message stays      *)
(* accepted until it stands in the timeline, readable or as a row that     *)
(* says it could not be read.  Excused is only a message whose handling    *)
(* was cut between opening and showing it.                                 *)
(***************************************************************************)
CONSTANT Msg

VARIABLES
    accepted,   \* messages the device holds or has shown
    acked,      \* messages whose sender was told so
    shown,      \* messages with a readable row
    garbled,    \* messages with a row that could not be read
    excused     \* messages whose handling was cut

dvars == <<accepted, acked, shown, garbled, excused>>

DInit == accepted = {} /\ acked = {} /\ shown = {} /\ garbled = {} /\ excused = {}

Accept(m) ==
    /\ m \notin accepted
    /\ accepted' = accepted \cup {m}
    /\ UNCHANGED <<acked, shown, garbled, excused>>

Acknowledge(m) ==
    /\ m \in accepted \cup excused
    /\ acked' = acked \cup {m}
    /\ UNCHANGED <<accepted, shown, garbled, excused>>

Show(m) ==
    /\ m \in (accepted \cup excused) \ shown
    /\ shown' = shown \cup {m} /\ accepted' = accepted \cup {m}
    /\ UNCHANGED <<acked, garbled, excused>>

Garble(m) ==
    /\ m \in (accepted \cup excused) \ garbled
    /\ garbled' = garbled \cup {m} /\ accepted' = accepted \cup {m}
    /\ UNCHANGED <<acked, shown, excused>>

Cut(m) ==
    /\ m \in accepted
    /\ excused' = excused \cup {m}
    /\ UNCHANGED <<accepted, acked, shown, garbled>>

Forget(m) ==
    /\ m \in (accepted \cap excused) \ (shown \cup garbled)
    /\ accepted' = accepted \ {m}
    /\ UNCHANGED <<acked, shown, garbled, excused>>

DNext ==
    \E m \in Msg : \/ Accept(m) \/ Acknowledge(m) \/ Show(m) \/ Garble(m)
                   \/ Cut(m) \/ Forget(m)

DSpec == DInit /\ [][DNext]_dvars
=============================================================================
