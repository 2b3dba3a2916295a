--------------------------- MODULE RotationProofs ---------------------------
(***************************************************************************)
(* Proofs about the rotation of onion addresses, for any number of         *)
(* rotations, failed calls, restarts and lost Tor connections, in three    *)
(* layers: the manager's records and its busy mark (ManagerInv), the       *)
(* onions each end serves (OnionInv), and, without trouble, how the two    *)
(* ends reach each other (ConnInv).                                        *)
(***************************************************************************)
EXTENDS Rotation, TLAPS

\* The part of TypeOK the argument needs.
ManagerType ==
    /\ rec \in [Ends -> [Rots -> Record]]
    /\ perPeer \in [Ends -> Rots \cup {None}]
    /\ used \subseteq Rots
    /\ DOMAIN hand = Ends /\ DOMAIN inbox = Ends /\ DOMAIN cleanup = Ends

\* Every id in a record, an envelope or the reader's hand has been minted.
RecIds == \A p \in Ends, r \in Rots : rec[p][r].state # "none" => r \in used
NetIds == \A m \in net : m.rot \in used
InboxIds == \A p \in Ends : \A m \in inbox[p] : m.rot \in used
CleanIds == \A p \in Ends, r \in Rots : <<"cancel", r>> \in cleanup[p] => r \in used
HandIds == \A p \in Ends : hand[p].pc # "idle" => hand[p].msg.rot \in used

Early == {"none", "proposed", "requested", "accepted"}

\* The peer's confirm counts only once the addresses are exchanged ...
Unconfirmed ==
    \A p \in Ends, r \in Rots : rec[p][r].state \in Early => ~rec[p][r].peerConfirmed

\* ... and while the reader is on its way to our own confirm it takes no other.
ShipsFirst ==
    \A p \in Ends : hand[p].pc \in {"overlay", "ship"}
                        => ~rec[p][hand[p].msg.rot].peerConfirmed

ManagerInv ==
    /\ ManagerType /\ PerPeerExact
    /\ RecIds /\ CleanIds /\ NetIds /\ InboxIds /\ HandIds
    /\ Unconfirmed /\ ShipsFirst

-----------------------------------------------------------------------------
\* What a step may do to the one record it touches: a failed record stays
\* failed, the peer's confirm is noted by an idle reader only, and the busy mark
\* follows the record.
Touch(p, r, new) ==
    /\ rec' = [rec EXCEPT ![p][r] = new]
    /\ r \in used'
    /\ rec[p][r].state = "failed" => new.state = "failed"
    /\ new.state \in Early => ~new.peerConfirmed
    /\ new.peerConfirmed => rec[p][r].peerConfirmed \/ hand[p].pc = "idle"
    /\ \/ /\ perPeer' = perPeer
          /\ new.state \in Open <=> rec[p][r].state \in Open
       \/ /\ perPeer' = [perPeer EXCEPT ![p] = None]
          /\ rec[p][r].state \in Open /\ new.state \notin Open
       \/ /\ perPeer' = [perPeer EXCEPT ![p] = r]
          /\ perPeer[p] = None /\ new.state \in Open

Forget(p) ==
    /\ rec' = [rec EXCEPT ![p] = [r \in Rots |-> NoRecord]]
    /\ perPeer' = [perPeer EXCEPT ![p] = None]

ManagerStep ==
    \/ rec' = rec /\ perPeer' = perPeer
    \/ \E p \in Ends, r \in Rots : \E new \in Record : Touch(p, r, new)
    \/ \E p \in Ends : Forget(p)

\* A record replaced by another record leaves a well-formed table.
LEMMA TouchedRec ==
    ASSUME ManagerType, NEW p \in Ends, NEW r \in Rots, NEW new \in Record,
           rec' = [rec EXCEPT ![p][r] = new]
    PROVE  /\ rec' \in [Ends -> [Rots -> Record]]
           /\ rec'[p][r] = new
           /\ \A q \in Ends, s \in Rots : q # p \/ s # r => rec'[q][s] = rec[q][s]
BY DEF ManagerType

\* The absent record is a record nobody confirmed.
LEMMA NoRecordType == NoRecord \in Record /\ NoRecord.state = "none"
                      /\ NoRecord.peerConfirmed = FALSE
BY DEF NoRecord, Record, Open, Terminal

\* A step of that shape keeps the busy mark exact.
LEMMA StepBusy ==
    ASSUME ManagerType, PerPeerExact, ManagerStep
    PROVE  /\ rec' \in [Ends -> [Rots -> Record]]
           /\ perPeer' \in [Ends -> Rots \cup {None}]
           /\ PerPeerExact'
<1>0. None \notin Rots
  BY RotationAssumption
<1>1. CASE rec' = rec /\ perPeer' = perPeer
  BY <1>1 DEF ManagerType, PerPeerExact
<1>2. ASSUME NEW p \in Ends, NEW r \in Rots, NEW new \in Record, Touch(p, r, new)
      PROVE  /\ rec' \in [Ends -> [Rots -> Record]]
             /\ perPeer' \in [Ends -> Rots \cup {None}]
             /\ PerPeerExact'
  <2>0. rec' = [rec EXCEPT ![p][r] = new]
    BY <1>2 DEF Touch
  <2>1. /\ rec' \in [Ends -> [Rots -> Record]]
        /\ rec'[p][r] = new
        /\ \A q \in Ends, s \in Rots : q # p \/ s # r => rec'[q][s] = rec[q][s]
    BY <2>0, TouchedRec
  <2>2. perPeer' \in [Ends -> Rots \cup {None}]
    BY <1>2 DEF Touch, ManagerType
  <2>3. ASSUME NEW q \in Ends
        PROVE  {s \in Rots : rec'[q][s].state \in Open} = {perPeer'[q]} \ {None}
    <3>1. {s \in Rots : rec[q][s].state \in Open} = {perPeer[q]} \ {None}
      BY DEF PerPeerExact
    <3>2. CASE q # p
      <4>1. perPeer'[q] = perPeer[q]
        BY <1>2, <3>2 DEF Touch, ManagerType
      <4>2. \A s \in Rots : rec'[q][s] = rec[q][s]
        BY <2>1, <3>2
      <4> QED BY <3>1, <4>1, <4>2
    <3>3. CASE q = p
      <4>1. \A s \in Rots : s # r => rec'[p][s] = rec[p][s]
        BY <2>1
      <4>2. CASE perPeer' = perPeer /\ (new.state \in Open <=> rec[p][r].state \in Open)
        BY <2>1, <3>1, <3>3, <4>1, <4>2
      <4>3. CASE /\ perPeer' = [perPeer EXCEPT ![p] = None]
                 /\ rec[p][r].state \in Open /\ new.state \notin Open
        <5>1. perPeer'[p] = None
          BY <4>3 DEF ManagerType
        <5>2. perPeer[p] = r
          BY <3>1, <3>3, <4>3
        <5>3. \A s \in Rots : rec'[p][s].state \notin Open
          BY <2>1, <3>1, <3>3, <4>1, <4>3, <5>2
        <5> QED BY <3>3, <5>1, <5>3
      <4>4. CASE /\ perPeer' = [perPeer EXCEPT ![p] = r]
                 /\ perPeer[p] = None /\ new.state \in Open
        <5>1. perPeer'[p] = r
          BY <4>4 DEF ManagerType
        <5>2. \A s \in Rots : rec[p][s].state \notin Open
          BY <3>1, <3>3, <4>4
        <5>3. \A s \in Rots : rec'[p][s].state \in Open <=> s = r
          BY <2>1, <4>1, <4>4, <5>2
        <5> QED BY <1>0, <3>3, <5>1, <5>3
      <4> QED BY <1>2, <4>2, <4>3, <4>4 DEF Touch
    <3> QED BY <3>2, <3>3
  <2> QED BY <2>1, <2>2, <2>3 DEF PerPeerExact
<1>3. ASSUME NEW p \in Ends, Forget(p)
      PROVE  /\ rec' \in [Ends -> [Rots -> Record]]
             /\ perPeer' \in [Ends -> Rots \cup {None}]
             /\ PerPeerExact'
  <2>1. /\ rec' \in [Ends -> [Rots -> Record]]
        /\ perPeer' \in [Ends -> Rots \cup {None}]
    BY <1>3, NoRecordType DEF Forget, ManagerType
  <2>2. ASSUME NEW q \in Ends
        PROVE  {s \in Rots : rec'[q][s].state \in Open} = {perPeer'[q]} \ {None}
    <3>1. {s \in Rots : rec[q][s].state \in Open} = {perPeer[q]} \ {None}
      BY DEF PerPeerExact
    <3>2. CASE q # p
      BY <1>3, <3>1, <3>2 DEF Forget, ManagerType
    <3>3. CASE q = p
      <4>1. perPeer'[q] = None
        BY <1>3, <3>3 DEF Forget, ManagerType
      <4>2. \A s \in Rots : rec'[q][s] = NoRecord
        BY <1>3, <3>3 DEF Forget, ManagerType
      <4>3. \A s \in Rots : rec'[q][s].state \notin Open
        BY <4>2, NoRecordType DEF Open
      <4> QED BY <4>1, <4>3
    <3> QED BY <3>2, <3>3
  <2> QED BY <2>1, <2>2 DEF PerPeerExact
<1> QED
  BY <1>1, <1>2, <1>3 DEF ManagerStep

\* A step of that shape keeps the peer's confirm in its place, and leaves a
\* failed record failed.
LEMMA StepFlags ==
    ASSUME ManagerType, RecIds, Unconfirmed, ManagerStep, used \subseteq used'
    PROVE  /\ RecIds' /\ Unconfirmed'
           /\ \A p \in Ends, r \in Rots :
                 rec[p][r].state = "failed" => rec'[p][r].state \in {"failed", "none"}
<1>1. CASE rec' = rec /\ perPeer' = perPeer
  BY <1>1 DEF RecIds, Unconfirmed
<1>2. ASSUME NEW p \in Ends, NEW r \in Rots, NEW new \in Record, Touch(p, r, new)
      PROVE  /\ RecIds' /\ Unconfirmed'
             /\ \A q \in Ends, s \in Rots :
                   rec[q][s].state = "failed" => rec'[q][s].state \in {"failed", "none"}
  <2>0. rec' = [rec EXCEPT ![p][r] = new]
    BY <1>2 DEF Touch
  <2>1. /\ rec'[p][r] = new
        /\ \A q \in Ends, s \in Rots : q # p \/ s # r => rec'[q][s] = rec[q][s]
    BY <2>0, TouchedRec
  <2> QED
    BY <1>2, <2>1 DEF Touch, RecIds, Unconfirmed
<1>3. ASSUME NEW p \in Ends, Forget(p)
      PROVE  /\ RecIds' /\ Unconfirmed'
             /\ \A q \in Ends, s \in Rots :
                   rec[q][s].state = "failed" => rec'[q][s].state \in {"failed", "none"}
  <2>1. \A q \in Ends, s \in Rots :
           rec'[q][s] = (IF q = p THEN NoRecord ELSE rec[q][s])
    BY <1>3 DEF Forget, ManagerType
  <2> QED
    BY <2>1, NoRecordType DEF RecIds, Unconfirmed
<1> QED
  BY <1>1, <1>2, <1>3 DEF ManagerStep

\* What a step may do to the reader's hand.
HandStep ==
    \A q \in Ends : hand'[q].pc \in {"overlay", "ship"} =>
        hand'[q] = hand[q] \/ ~rec'[q][hand'[q].msg.rot].peerConfirmed

\* Both together keep the reader's own confirm ahead of the peer's.
LEMMA StepShips ==
    ASSUME ManagerType, HandIds, ShipsFirst, ManagerStep, HandStep
    PROVE  ShipsFirst'
<1> SUFFICES ASSUME NEW q \in Ends, hand'[q].pc \in {"overlay", "ship"}
             PROVE  ~rec'[q][hand'[q].msg.rot].peerConfirmed
  BY DEF ShipsFirst
<1> DEFINE s == hand[q].msg.rot
<1>1. CASE ~rec'[q][hand'[q].msg.rot].peerConfirmed
  BY <1>1
<1>2. CASE hand'[q] = hand[q]
  <2>1. hand[q].pc # "idle" /\ ~rec[q][s].peerConfirmed /\ s \in Rots
    BY <1>2 DEF ShipsFirst, HandIds, ManagerType
  <2>2. CASE rec' = rec
    BY <1>2, <2>1, <2>2
  <2>3. ASSUME NEW p \in Ends, NEW r \in Rots, NEW new \in Record, Touch(p, r, new)
        PROVE  ~rec'[q][s].peerConfirmed
    <3>0. rec' = [rec EXCEPT ![p][r] = new]
      BY <2>3 DEF Touch
    <3>1. /\ rec'[p][r] = new
          /\ \A x \in Ends, y \in Rots : x # p \/ y # r => rec'[x][y] = rec[x][y]
      BY <3>0, TouchedRec
    <3> QED
      BY <2>1, <2>3, <3>1 DEF Touch
  <2>4. ASSUME NEW p \in Ends, Forget(p)
        PROVE  ~rec'[q][s].peerConfirmed
    <3>1. rec'[q][s] = (IF q = p THEN NoRecord ELSE rec[q][s])
      BY <2>1, <2>4 DEF Forget, ManagerType
    <3> QED
      BY <2>1, <3>1, NoRecordType
  <2> QED
    BY <1>2, <2>2, <2>3, <2>4 DEF ManagerStep
<1> QED
  BY <1>1, <1>2 DEF HandStep

\* Everything an action is shown to do.
GoodStep ==
    /\ ManagerStep /\ HandStep
    /\ used \subseteq used' /\ used' \subseteq Rots
    /\ DOMAIN hand' = Ends /\ DOMAIN inbox' = Ends /\ DOMAIN cleanup' = Ends
    /\ CleanIds' /\ NetIds' /\ InboxIds' /\ HandIds'

\* A step of that shape preserves the whole invariant.
LEMMA GoodStepInv ==
    ASSUME ManagerInv, GoodStep
    PROVE  ManagerInv'
BY StepBusy, StepFlags, StepShips DEF ManagerInv, GoodStep, ManagerType
-----------------------------------------------------------------------------
(* The parts actions are made of *)

WireStep ==
    /\ DOMAIN hand' = Ends /\ DOMAIN inbox' = Ends
    /\ InboxIds' /\ HandIds' /\ HandStep

\* The reader finishes an entry.
LEMMA AckWire ==
    ASSUME ManagerInv, used \subseteq used', NEW p \in Ends, NEW m, Ack(p, m)
    PROVE  WireStep
<1>1. /\ DOMAIN hand' = Ends
      /\ \A q \in Ends : hand'[q] = (IF q = p THEN Idle ELSE hand[q])
  BY DEF Ack, ManagerInv, ManagerType
<1>2. Idle.pc = "idle"
  BY DEF Idle
<1>3. HandIds' /\ HandStep
  BY <1>1, <1>2 DEF HandIds, HandStep, ManagerInv
<1>4. DOMAIN inbox' = Ends /\ \A q \in Ends : inbox'[q] \subseteq inbox[q]
  BY DEF Ack, ManagerInv, ManagerType
<1> QED
  BY <1>1, <1>3, <1>4 DEF WireStep, InboxIds, ManagerInv

\* The reader goes on with an entry; on the way to its confirm the peer has not
\* confirmed.
LEMMA StayWire ==
    ASSUME ManagerInv, used \subseteq used', NEW p \in Ends, NEW pc, NEW m,
           m.rot \in used, Stay(p, pc, m),
           pc \notin {"overlay", "ship"} \/ ~rec'[p][m.rot].peerConfirmed
    PROVE  WireStep
<1>1. /\ DOMAIN hand' = Ends
      /\ \A q \in Ends : hand'[q] = (IF q = p THEN [pc |-> pc, msg |-> m, old |-> None]
                                     ELSE hand[q])
  BY DEF Stay, ManagerInv, ManagerType
<1>2. HandIds' /\ HandStep
  BY <1>1 DEF HandIds, HandStep, ManagerInv
<1>3. inbox' = inbox
  BY DEF Stay
<1> QED
  BY <1>1, <1>2, <1>3 DEF WireStep, InboxIds, ManagerInv, ManagerType

\* The reader is not involved.
LEMMA IdleWire ==
    ASSUME ManagerInv, used \subseteq used', hand' = hand, inbox' = inbox
    PROVE  WireStep
BY DEF WireStep, HandStep, HandIds, InboxIds, ManagerInv, ManagerType

\* A message about a minted id is sent, or none is.
LEMMA SendNet ==
    ASSUME ManagerInv, used \subseteq used', NEW p, NEW kind, NEW r \in used',
           net' = net \/ Send(p, kind, r)
    PROVE  NetIds'
<1>1. Msg(p, kind, r).rot = r
  BY DEF Msg
<1> QED
  BY <1>1 DEF Send, NetIds, ManagerInv

\* Failing an open record.
LEMMA FailedRecord ==
    ASSUME ManagerInv, NEW p \in Ends, NEW r \in Rots, used' = used,
           rec[p][r].state \in Open,
           SetRec(p, r, [rec[p][r] EXCEPT !.state = "failed"]), Release(p)
    PROVE  ManagerStep
<1> DEFINE new == [rec[p][r] EXCEPT !.state = "failed"]
<1>1. rec[p][r] \in Record
  BY DEF ManagerInv, ManagerType
<1>2. new \in Record /\ new.state = "failed" /\ new.peerConfirmed = rec[p][r].peerConfirmed
  BY <1>1 DEF Record, Terminal
<1>3. r \in used'
  BY DEF ManagerInv, RecIds, Open
<1>4. Touch(p, r, new)
  BY <1>2, <1>3 DEF Touch, SetRec, Release, Early, Open
<1> HIDE DEF new
<1> QED
  BY <1>2, <1>4 DEF ManagerStep

\* The cancel owed for a rotation names a minted id.
LEMMA OwedCancel ==
    ASSUME ManagerInv, used \subseteq used', NEW p \in Ends, NEW r \in used',
           \/ cleanup' = cleanup
           \/ cleanup' = [cleanup EXCEPT ![p] = @ \cup {<<"cancel", r>>}]
           \/ cleanup' = [cleanup EXCEPT ![p] = @ \cup {<<"del", r>>, <<"cancel", r>>}]
    PROVE  DOMAIN cleanup' = Ends /\ CleanIds'
<1>1. DOMAIN cleanup' = Ends
  BY DEF ManagerInv, ManagerType
<1>2. \A q \in Ends, s \in Rots :
         <<"cancel", s>> \in cleanup'[q] => <<"cancel", s>> \in cleanup[q] \/ s = r
  BY DEF ManagerInv, ManagerType
<1> QED
  BY <1>1, <1>2 DEF CleanIds, ManagerInv

\* fail on any record: an open one is failed, a terminal one left alone.
LEMMA FailStep ==
    ASSUME ManagerInv, NEW p \in Ends, NEW r \in Rots, used' = used, Fail(p, r)
    PROVE  ManagerStep /\ DOMAIN cleanup' = Ends /\ CleanIds'
<1>1. ManagerStep
  BY FailedRecord DEF Fail, ManagerStep
<1>2. CASE rec[p][r].state \in Open
  <2>1. r \in used'
    BY <1>2 DEF ManagerInv, RecIds, Open
  <2>2. FailOwes(p, r) \in {{<<"cancel", r>>}, {<<"del", r>>, <<"cancel", r>>}}
    BY DEF FailOwes
  <2>3. cleanup' = [cleanup EXCEPT ![p] = @ \cup FailOwes(p, r)]
    BY <1>2 DEF Fail
  <2> QED
    BY <1>1, <2>1, <2>2, <2>3, OwedCancel
<1>3. CASE rec[p][r].state \notin Open
  BY <1>1, <1>3 DEF Fail, CleanIds, ManagerInv, ManagerType
<1> QED
  BY <1>2, <1>3

\* A new record is well-formed and not confirmed by anyone.
LEMMA NewRecType ==
    ASSUME NEW role \in {"initiator", "responder"}, NEW state \in Open \cup Terminal
    PROVE  /\ NewRec(role, state) \in Record
           /\ NewRec(role, state).state = state
           /\ ~NewRec(role, state).peerConfirmed
<1>1. NoRecord \in Record /\ ~NoRecord.peerConfirmed
  BY NoRecordType
<1>2. ASSUME NEW x \in Record
      PROVE  /\ [x EXCEPT !.role = role, !.state = state] \in Record
             /\ [x EXCEPT !.role = role, !.state = state].state = state
             /\ [x EXCEPT !.role = role, !.state = state].peerConfirmed = x.peerConfirmed
  BY DEF Record
<1> QED
  BY <1>1, <1>2 DEF NewRec

\* A new record takes the free slot of its peer.
LEMMA NewRecord ==
    ASSUME ManagerInv, NEW p \in Ends, NEW r \in Rots, r \in used',
           rec[p][r].state = "none",
           NEW role \in {"initiator", "responder"},
           NEW state \in {"proposed", "requested"},
           perPeer[p] = None, SetRec(p, r, NewRec(role, state)),
           perPeer' = [perPeer EXCEPT ![p] = r]
    PROVE  ManagerStep
<1>1. state \in Open
  BY DEF Open
<1>2. /\ NewRec(role, state) \in Record
      /\ NewRec(role, state).state = state
      /\ ~NewRec(role, state).peerConfirmed
  BY <1>1, NewRecType
<1>3. Touch(p, r, NewRec(role, state))
  BY <1>1, <1>2 DEF Touch, SetRec
<1> QED
  BY <1>2, <1>3 DEF ManagerStep

\* Begin, also when its request cannot be sent.
LEMMA BeginStep ==
    ASSUME ManagerInv, NEW p \in Ends, NEW r \in Rots, Begin(p, r)
    PROVE  GoodStep
<1>1. used \subseteq used' /\ used' \subseteq Rots /\ r \in used'
  BY DEF Begin, ManagerInv, ManagerType
<1>2. rec[p][r].state = "none" /\ perPeer[p] = None
  BY DEF Begin, ManagerInv, RecIds
<1>3. WireStep
  BY <1>1, IdleWire DEF Begin
<1>4. NetIds'
  BY <1>1, SendNet DEF Begin
<1>5. ManagerStep
  <2>1. CASE /\ SetRec(p, r, NewRec("initiator", "proposed"))
             /\ perPeer' = [perPeer EXCEPT ![p] = r]
    BY <1>1, <1>2, <2>1, NewRecord
  <2>2. CASE SetRec(p, r, NewRec("initiator", "failed")) /\ perPeer' = perPeer
    <3>1. "failed" \in Open \cup Terminal /\ "failed" \notin Open \cup Early
      BY DEF Open, Terminal, Early
    <3>2. NewRec("initiator", "failed") \in Record
          /\ NewRec("initiator", "failed").state = "failed"
          /\ ~NewRec("initiator", "failed").peerConfirmed
      BY <3>1, NewRecType
    <3>3. Touch(p, r, NewRec("initiator", "failed"))
      BY <1>1, <1>2, <2>2, <3>1, <3>2 DEF Touch, SetRec, Open
    <3> QED
      BY <3>2, <3>3 DEF ManagerStep
  <2> QED
    BY <2>1, <2>2 DEF Begin
<1>6. DOMAIN cleanup' = Ends /\ CleanIds'
  BY <1>1, OwedCancel DEF Begin
<1> QED
  BY <1>1, <1>3, <1>4, <1>5, <1>6 DEF GoodStep, WireStep

\* Tick, UserDecline, Cancel, and the clean-up after them.
LEMMA AbandonStep ==
    ASSUME ManagerInv, NEW p \in Ends, NEW r \in Rots,
           Abandon(p, r) \/ CleanDel(p, r) \/ CleanCancel(p, r)
    PROVE  GoodStep
<1>1. used' = used /\ used \subseteq Rots /\ hand' = hand /\ inbox' = inbox
  BY DEF Abandon, CleanDel, CleanCancel, wire, ManagerInv, ManagerType
<1>2. WireStep
  BY <1>1, IdleWire
<1>3. ManagerStep /\ DOMAIN cleanup' = Ends /\ CleanIds'
  <2>1. CASE Abandon(p, r)
    BY <1>1, <2>1, FailStep DEF Abandon
  <2>2. CASE CleanDel(p, r) \/ CleanCancel(p, r)
    <3>1. DOMAIN cleanup' = Ends /\ \A q \in Ends : cleanup'[q] \subseteq cleanup[q]
      BY <2>2 DEF CleanDel, CleanCancel, ManagerInv, ManagerType
    <3> QED
      BY <1>1, <2>2, <3>1 DEF CleanDel, CleanCancel, ManagerStep, CleanIds, ManagerInv
  <2> QED
    BY <2>1, <2>2
<1>4. NetIds'
  <2>1. net' = net \/ (r \in used' /\ Send(p, "cancel", r))
    BY <1>1 DEF Abandon, CleanDel, CleanCancel, wire, ManagerInv, CleanIds
  <2> QED
    BY <1>1, <2>1, SendNet DEF NetIds, ManagerInv
<1> QED
  BY <1>1, <1>2, <1>3, <1>4 DEF GoodStep, WireStep
-----------------------------------------------------------------------------
(* Inbound messages *)

\* Nothing happens to the manager.
LEMMA QuietManager ==
    ASSUME ManagerInv, rec' = rec, perPeer' = perPeer, used' = used,
           cleanup' = cleanup, WireStep, NetIds'
    PROVE  GoodStep
BY DEF GoodStep, WireStep, ManagerStep, CleanIds, ManagerInv, ManagerType

\* The manager takes a step of its own.
LEMMA BusyManager ==
    ASSUME ManagerInv, used' = used, ManagerStep, DOMAIN cleanup' = Ends, CleanIds',
           WireStep, NetIds'
    PROVE  GoodStep
BY DEF GoodStep, WireStep, ManagerInv, ManagerType

\* UserAccept, whoever calls it.
LEMMA AcceptStep ==
    ASSUME ManagerInv, NEW p \in Ends, NEW r \in used, used' = used, Accept(p, r)
    PROVE  ManagerStep /\ DOMAIN cleanup' = Ends /\ CleanIds' /\ NetIds'
<1> DEFINE new == [rec[p][r] EXCEPT !.state = "accepted"]
<1>1. r \in Rots /\ rec[p][r] \in Record
  BY DEF ManagerInv, ManagerType
<1>2. CASE /\ rec[p][r].state = "requested" /\ SetRec(p, r, new)
           /\ Send(p, "accept", r) /\ UNCHANGED <<perPeer, cleanup>>
  <2>1. new \in Record /\ new.state = "accepted" /\ new.peerConfirmed = rec[p][r].peerConfirmed
    BY <1>1 DEF Record, Open
  <2>2. ~rec[p][r].peerConfirmed
    BY <1>1, <1>2 DEF ManagerInv, Unconfirmed, Early
  <2>3. Touch(p, r, new)
    BY <1>2, <2>1, <2>2 DEF Touch, SetRec, Open
  <2> HIDE DEF new
  <2>4. ManagerStep
    BY <1>1, <2>1, <2>3 DEF ManagerStep
  <2> QED
    BY <1>2, <2>4, SendNet DEF CleanIds, ManagerInv, ManagerType
<1>3. CASE Fail(p, r) /\ UNCHANGED net
  BY <1>1, <1>3, FailStep DEF NetIds, ManagerInv
<1>4. CASE UNCHANGED <<rec, perPeer, cleanup, net>>
  BY <1>4 DEF ManagerStep, CleanIds, NetIds, ManagerInv, ManagerType
<1> QED
  BY <1>2, <1>3, <1>4 DEF Accept

\* The user's client accepts.
LEMMA ClientAcceptStep ==
    ASSUME ManagerInv, NEW p \in Ends, NEW r \in Rots, ClientAccept(p, r)
    PROVE  GoodStep
<1>1. used' = used /\ hand' = hand /\ inbox' = inbox /\ r \in used /\ Accept(p, r)
  BY DEF ClientAccept, ManagerInv, RecIds
<1>2. ManagerStep /\ DOMAIN cleanup' = Ends /\ CleanIds' /\ NetIds'
  BY <1>1, AcceptStep
<1>3. WireStep
  BY <1>1, IdleWire
<1> QED
  BY <1>1, <1>2, <1>3, BusyManager

\* A request is refused, or takes the free slot.
LEMMA RequestStep ==
    ASSUME ManagerInv, NEW p \in Ends, NEW m \in inbox[p],
           RefuseRequest(p, m) \/ OnRequest(p, m)
    PROVE  GoodStep
<1>1. m.rot \in used /\ m.rot \in Rots
  BY DEF ManagerInv, InboxIds, ManagerType
<1>2. CASE RefuseRequest(p, m)
  <2>1. UNCHANGED <<rec, perPeer, used, cleanup>> /\ Ack(p, m)
    BY <1>2 DEF RefuseRequest, manager
  <2>2. WireStep
    BY <2>1, AckWire
  <2>3. NetIds'
    BY <1>1, <1>2, <2>1, SendNet DEF RefuseRequest
  <2> QED
    BY <2>1, <2>2, <2>3, QuietManager
<1>3. CASE OnRequest(p, m)
  <2>1. /\ used' = used /\ cleanup' = cleanup /\ net' = net
        /\ perPeer[p] = None /\ rec[p][m.rot].state = "none"
        /\ SetRec(p, m.rot, NewRec("responder", "requested"))
        /\ perPeer' = [perPeer EXCEPT ![p] = m.rot]
        /\ Stay(p, "accept", m)
    BY <1>3 DEF OnRequest
  <2>2. ManagerStep
    BY <1>1, <2>1, NewRecord
  <2>3. WireStep
    BY <1>1, <2>1, StayWire
  <2> QED
    BY <2>1, <2>2, <2>3 DEF GoodStep, WireStep, CleanIds, NetIds, ManagerInv, ManagerType
<1> QED
  BY <1>2, <1>3

\* The reader accepts at once.
LEMMA AutoAcceptStep ==
    ASSUME ManagerInv, NEW p \in Ends, AutoAccept(p)
    PROVE  GoodStep
<1>1. /\ used' = used /\ hand[p].msg.rot \in used
      /\ Accept(p, hand[p].msg.rot) /\ Ack(p, hand[p].msg)
  BY DEF AutoAccept, At, ManagerInv, HandIds
<1>2. ManagerStep /\ DOMAIN cleanup' = Ends /\ CleanIds' /\ NetIds'
  BY <1>1, AcceptStep
<1>3. WireStep
  BY <1>1, AckWire
<1> QED
  BY <1>1, <1>2, <1>3, BusyManager

\* OnAddress: the peer has not confirmed yet.
LEMMA AddressStep ==
    ASSUME ManagerInv, NEW p \in Ends, NEW m \in inbox[p], OnAddress(p, m)
    PROVE  GoodStep
<1> DEFINE r == m.rot
           new == [rec[p][r] EXCEPT !.theirs = TRUE, !.state = "address_exchanged"]
<1>1. r \in used /\ r \in Rots /\ rec[p][r] \in Record
  BY DEF ManagerInv, InboxIds, ManagerType
<1>2. UNCHANGED <<perPeer, used, cleanup, net>>
  BY DEF OnAddress
<1>3. NetIds' /\ CleanIds' /\ DOMAIN cleanup' = Ends
  BY <1>2 DEF NetIds, CleanIds, ManagerInv, ManagerType
<1>4. CASE rec[p][r].state = "accepted"
  <2>1. SetRec(p, r, new) /\ Stay(p, "overlay", m)
    BY <1>4 DEF OnAddress
  <2>2. /\ new \in Record /\ new.state = "address_exchanged"
        /\ new.peerConfirmed = rec[p][r].peerConfirmed
    BY <1>1 DEF Record, Open
  <2>3. ~rec[p][r].peerConfirmed
    BY <1>1, <1>4 DEF ManagerInv, Unconfirmed, Early
  <2>4. Touch(p, r, new)
    BY <1>1, <1>2, <1>4, <2>1, <2>2, <2>3 DEF Touch, SetRec, Open, Early
  <2>5. rec' = [rec EXCEPT ![p][r] = new]
    BY <2>1 DEF SetRec
  <2> HIDE DEF new
  <2>6. rec'[p][r] = new
    BY <1>1, <2>2, <2>5, TouchedRec DEF ManagerInv
  <2>7. ManagerStep
    BY <1>1, <2>2, <2>4 DEF ManagerStep
  <2>8. WireStep
    BY <1>1, <1>2, <2>1, <2>2, <2>3, <2>6, StayWire
  <2> QED
    BY <1>2, <1>3, <2>7, <2>8, BusyManager
<1>5. CASE rec[p][r].state # "accepted"
  <2>1. Ack(p, m) /\ rec' = rec
    BY <1>5 DEF OnAddress
  <2>2. WireStep
    BY <1>2, <2>1, AckWire
  <2> QED
    BY <1>2, <1>3, <2>1, <2>2, QuietManager
<1> QED
  BY <1>4, <1>5

\* The new address is put in front, or the rotation fails.
LEMMA OverlayStep ==
    ASSUME ManagerInv, NEW p \in Ends, Overlay(p)
    PROVE  GoodStep
<1> DEFINE m == hand[p].msg
<1>1. /\ used' = used /\ net' = net /\ hand[p].pc = "overlay"
      /\ m.rot \in used /\ m.rot \in Rots
  BY DEF Overlay, At, ManagerInv, HandIds, ManagerType
<1>2. NetIds'
  BY <1>1 DEF NetIds, ManagerInv
<1>3. CASE Stay(p, "ship", m) /\ UNCHANGED <<rec, perPeer, cleanup>>
  <2>1. ~rec'[p][m.rot].peerConfirmed
    BY <1>1, <1>3 DEF ManagerInv, ShipsFirst
  <2>2. WireStep
    BY <1>1, <1>3, <2>1, StayWire
  <2> QED
    BY <1>1, <1>2, <1>3, <2>2, QuietManager
<1>4. CASE Fail(p, m.rot) /\ Ack(p, m)
  <2>1. ManagerStep /\ DOMAIN cleanup' = Ends /\ CleanIds'
    BY <1>1, <1>4, FailStep
  <2>2. WireStep
    BY <1>1, <1>4, AckWire
  <2> QED
    BY <1>1, <1>2, <2>1, <2>2, BusyManager
<1> QED
  BY <1>3, <1>4 DEF Overlay

\* A cancel fails an open record and no other.
LEMMA CancelStep ==
    ASSUME ManagerInv, NEW p \in Ends, NEW m \in inbox[p], OnCancel(p, m)
    PROVE  GoodStep
<1>1. /\ UNCHANGED <<used, cleanup, net>>
      /\ m.rot \in used /\ m.rot \in Rots
  BY DEF OnCancel, ManagerInv, InboxIds, ManagerType
<1>2. NetIds' /\ CleanIds' /\ DOMAIN cleanup' = Ends
  BY <1>1 DEF NetIds, CleanIds, ManagerInv, ManagerType
<1>3. WireStep
  BY <1>1, AckWire, StayWire DEF OnCancel
<1>4. CASE rec[p][m.rot].state \in Open
  <2>1. ManagerStep
    BY <1>1, <1>4, FailedRecord DEF OnCancel
  <2> QED
    BY <1>1, <1>2, <1>3, <2>1, BusyManager
<1>5. CASE rec[p][m.rot].state \notin Open
  BY <1>1, <1>2, <1>3, <1>5, QuietManager DEF OnCancel
<1> QED
  BY <1>4, <1>5

\* An accept mints an onion, or fails.
LEMMA OnAcceptStep ==
    ASSUME ManagerInv, NEW p \in Ends, NEW m \in inbox[p], OnAccept(p, m)
    PROVE  GoodStep
<1>1. UNCHANGED <<used, net>> /\ m.rot \in used /\ m.rot \in Rots
  BY DEF OnAccept, ManagerInv, InboxIds, ManagerType
<1>2. NetIds'
  BY <1>1 DEF NetIds, ManagerInv
<1>3. WireStep
  BY <1>1, AckWire, StayWire DEF OnAccept
<1>4. CASE Fail(p, m.rot)
  <2>1. ManagerStep /\ DOMAIN cleanup' = Ends /\ CleanIds'
    BY <1>1, <1>4, FailStep
  <2> QED
    BY <1>1, <1>2, <1>3, <2>1, BusyManager
<1>5. CASE UNCHANGED <<rec, perPeer, cleanup>>
  BY <1>1, <1>2, <1>3, <1>5, QuietManager
<1> QED
  BY <1>4, <1>5 DEF OnAccept

\* The second look after the mint.
LEMMA AfterMintStep ==
    ASSUME ManagerInv, NEW p \in Ends, AfterMint(p)
    PROVE  GoodStep
<1> DEFINE m == hand[p].msg
           r == m.rot
           new == [rec[p][r] EXCEPT !.minted = TRUE, !.state = "address_exchanged"]
           lost == [new EXCEPT !.state = "failed"]
<1>1. used' = used /\ r \in used /\ r \in Rots /\ rec[p][r] \in Record
  BY DEF AfterMint, At, ManagerInv, HandIds, ManagerType
<1>2. /\ new \in Record /\ new.state = "address_exchanged"
      /\ new.peerConfirmed = rec[p][r].peerConfirmed
  BY <1>1 DEF Record, Open
<1>3. CASE /\ rec[p][r].state = "proposed" /\ SetRec(p, r, new) /\ Send(p, "address", r)
           /\ Stay(p, "ship", m) /\ UNCHANGED <<perPeer, cleanup>>
  <2>1. ~rec[p][r].peerConfirmed
    BY <1>1, <1>3 DEF ManagerInv, Unconfirmed, Early
  <2>2. Touch(p, r, new)
    BY <1>1, <1>2, <1>3, <2>1 DEF Touch, SetRec, Open, Early
  <2>3. rec' = [rec EXCEPT ![p][r] = new]
    BY <1>3 DEF SetRec
  <2> HIDE DEF new
  <2>4. rec'[p][r] = new
    BY <1>1, <1>2, <2>3, TouchedRec DEF ManagerInv
  <2>5. ManagerStep
    BY <1>1, <1>2, <2>2 DEF ManagerStep
  <2>6. WireStep
    BY <1>1, <1>2, <1>3, <2>1, <2>4, StayWire
  <2>7. NetIds' /\ DOMAIN cleanup' = Ends /\ CleanIds'
    BY <1>1, <1>3, SendNet DEF CleanIds, ManagerInv, ManagerType
  <2> QED
    BY <1>1, <2>5, <2>6, <2>7, BusyManager
<1>4. CASE /\ rec[p][r].state = "proposed" /\ SetRec(p, r, lost) /\ Release(p)
           /\ cleanup' = [cleanup EXCEPT ![p] = @ \cup {<<"del", r>>, <<"cancel", r>>}]
           /\ Ack(p, m) /\ UNCHANGED net
  <2> HIDE DEF new
  <2>1. lost \in Record /\ lost.state = "failed" /\ lost.peerConfirmed = rec[p][r].peerConfirmed
    BY <1>2 DEF Record, Terminal
  <2>2. Touch(p, r, lost)
    BY <1>1, <1>4, <2>1 DEF Touch, SetRec, Release, Open, Early
  <2> HIDE DEF lost
  <2>3. ManagerStep
    BY <1>1, <2>1, <2>2 DEF ManagerStep
  <2>4. WireStep /\ DOMAIN cleanup' = Ends /\ CleanIds' /\ NetIds'
    BY <1>1, <1>4, AckWire, OwedCancel DEF NetIds, ManagerInv
  <2> QED
    BY <1>1, <2>3, <2>4, BusyManager
<1>5. CASE Stay(p, "unmint", m) /\ UNCHANGED <<rec, perPeer, cleanup, net>>
  <2>1. WireStep /\ NetIds'
    BY <1>1, <1>5, StayWire DEF NetIds, ManagerInv
  <2> QED
    BY <1>1, <1>5, <2>1, QuietManager
<1> QED
  BY <1>3, <1>4, <1>5 DEF AfterMint, UnwindMint
-----------------------------------------------------------------------------
(* Confirming *)

\* shipConfirm never finds the peer's confirm already noted.
LEMMA ShipStep ==
    ASSUME ManagerInv, NEW p \in Ends, ShipConfirm(p)
    PROVE  GoodStep
<1> DEFINE m == hand[p].msg
           r == m.rot
           flagged == [rec[p][r] EXCEPT !.iConfirmed = TRUE]
<1>1. used' = used /\ r \in used /\ r \in Rots /\ rec[p][r] \in Record
  BY DEF ShipConfirm, At, ManagerInv, HandIds, ManagerType
<1>2. ~rec[p][r].peerConfirmed
  BY DEF ShipConfirm, At, ManagerInv, ShipsFirst
<1>3. /\ flagged \in Record /\ flagged.state = rec[p][r].state
      /\ flagged.peerConfirmed = rec[p][r].peerConfirmed
  BY <1>1 DEF Record
<1>4. CASE Send(p, "confirm", r) /\ Confirms(p, r, flagged) /\ Ack(p, m) /\ UNCHANGED cleanup
  <2> HIDE DEF flagged
  <2>1. SetRec(p, r, flagged) /\ perPeer' = perPeer
    BY <1>2, <1>3, <1>4 DEF Confirms
  <2>2. Touch(p, r, flagged)
    BY <1>1, <1>2, <1>3, <2>1 DEF Touch, SetRec
  <2>3. ManagerStep
    BY <1>1, <1>3, <2>2 DEF ManagerStep
  <2>4. WireStep /\ NetIds' /\ DOMAIN cleanup' = Ends /\ CleanIds'
    BY <1>1, <1>4, AckWire, SendNet DEF CleanIds, ManagerInv, ManagerType
  <2> QED
    BY <1>1, <2>3, <2>4, BusyManager
<1>5. CASE Fail(p, r) /\ Ack(p, m) /\ UNCHANGED net
  <2>1. ManagerStep /\ DOMAIN cleanup' = Ends /\ CleanIds'
    BY <1>1, <1>5, FailStep
  <2>2. WireStep /\ NetIds'
    BY <1>1, <1>5, AckWire DEF NetIds, ManagerInv
  <2> QED
    BY <1>1, <2>1, <2>2, BusyManager
<1> QED
  BY <1>2, <1>3, <1>4, <1>5 DEF ShipConfirm

\* The peer's confirm counts once, on an open record, with the reader idle before.
LEMMA OnConfirmStep ==
    ASSUME ManagerInv, NEW p \in Ends, NEW m \in inbox[p], OnConfirm(p, m)
    PROVE  GoodStep
<1> DEFINE r == m.rot
           flagged == [rec[p][r] EXCEPT !.peerConfirmed = TRUE]
           done == [flagged EXCEPT !.state = "confirmed"]
<1>1. /\ UNCHANGED <<used, cleanup, net>> /\ hand[p].pc = "idle"
      /\ r \in used /\ r \in Rots /\ rec[p][r] \in Record
  BY DEF OnConfirm, Takes, ManagerInv, InboxIds, ManagerType
<1>2. NetIds' /\ CleanIds' /\ DOMAIN cleanup' = Ends
  BY <1>1 DEF NetIds, CleanIds, ManagerInv, ManagerType
<1>3. WireStep
  BY <1>1, AckWire, StayWire DEF OnConfirm
<1>4. flagged \in Record /\ flagged.state = rec[p][r].state
  BY <1>1 DEF Record
<1>5. CASE rec[p][r].state = "address_exchanged" /\ Confirms(p, r, flagged)
  <2> HIDE DEF flagged
  <2>1. done \in Record /\ done.state = "confirmed"
    BY <1>4 DEF Record, Terminal
  <2>2. CASE SetRec(p, r, done) /\ Release(p)
    <3> HIDE DEF done
    <3>1. Touch(p, r, done)
      BY <1>1, <1>5, <2>1, <2>2 DEF Touch, SetRec, Release, Open, Early
    <3>2. ManagerStep
      BY <1>1, <2>1, <3>1 DEF ManagerStep
    <3> QED
      BY <1>1, <1>2, <1>3, <3>2, BusyManager
  <2>3. CASE SetRec(p, r, flagged) /\ perPeer' = perPeer
    <3>1. Touch(p, r, flagged)
      BY <1>1, <1>4, <1>5, <2>3 DEF Touch, SetRec, Early
    <3>2. ManagerStep
      BY <1>1, <1>4, <3>1 DEF ManagerStep
    <3> QED
      BY <1>1, <1>2, <1>3, <3>2, BusyManager
  <2> QED
    BY <1>5, <2>2, <2>3 DEF Confirms
<1>6. CASE UNCHANGED <<rec, perPeer>>
  BY <1>1, <1>2, <1>3, <1>6, QuietManager
<1> QED
  BY <1>5, <1>6 DEF OnConfirm, MayConfirm

\* The reader's steps that leave the manager alone.
LEMMA ApplyStep ==
    ASSUME ManagerInv, NEW p \in Ends,
           Unmint(p) \/ ApplyOwn(p) \/ DelOld(p) \/ ApplyTheirs(p)
    PROVE  GoodStep
<1>1. UNCHANGED <<rec, perPeer, used, cleanup, net>>
  BY DEF Unmint, ApplyOwn, DelOld, ApplyTheirs, manager
<1>2. NetIds'
  BY <1>1 DEF NetIds, ManagerInv
<1>3. hand[p].pc # "idle" /\ hand[p].msg.rot \in used
  BY DEF Unmint, ApplyOwn, DelOld, ApplyTheirs, At, ManagerInv, HandIds
<1>4. CASE Ack(p, hand[p].msg)
  <2>1. WireStep
    BY <1>1, <1>4, AckWire
  <2> QED
    BY <1>1, <1>2, <2>1, QuietManager
<1>5. ASSUME NEW x, inbox' = inbox,
             hand' = [hand EXCEPT ![p] = [pc |-> "delold", msg |-> hand[p].msg, old |-> x]]
      PROVE  GoodStep
  <2>1. /\ DOMAIN hand' = Ends
        /\ \A q \in Ends : q # p => hand'[q] = hand[q]
        /\ hand'[p].pc = "delold" /\ hand'[p].msg = hand[p].msg
    BY <1>5 DEF ManagerInv, ManagerType
  <2>2. HandIds' /\ HandStep
    BY <1>1, <1>3, <2>1 DEF HandIds, HandStep, ManagerInv
  <2>3. WireStep
    BY <1>1, <1>5, <2>1, <2>2 DEF WireStep, InboxIds, ManagerInv, ManagerType
  <2> QED
    BY <1>1, <1>2, <2>3, QuietManager
<1> QED
  BY <1>4, <1>5 DEF Unmint, ApplyOwn, DelOld, ApplyTheirs
-----------------------------------------------------------------------------
(* Transport, time and failures *)

\* An envelope moves to the inbox or is refused.
LEMMA ArriveStep ==
    ASSUME ManagerInv, NEW m \in net, Arrive(m)
    PROVE  GoodStep
<1>1. UNCHANGED <<rec, perPeer, used, cleanup, hand>> /\ net' \subseteq net
  BY DEF Arrive, manager
<1>2. DOMAIN inbox' = Ends /\ \A q \in Ends : inbox'[q] \subseteq inbox[q] \cup {m}
  BY DEF Arrive, ManagerInv, ManagerType
<1>3. InboxIds' /\ NetIds'
  BY <1>1, <1>2 DEF InboxIds, NetIds, ManagerInv
<1>4. WireStep
  BY <1>1, <1>2, <1>3 DEF WireStep, HandStep, HandIds, ManagerInv, ManagerType
<1> QED
  BY <1>1, <1>3, <1>4, QuietManager

\* Steps of the address book, the clock and Tor.
LEMMA ElsewhereStep ==
    ASSUME ManagerInv, UNCHANGED <<manager, wire>>
    PROVE  GoodStep
<1>1. UNCHANGED <<rec, perPeer, used, cleanup, hand, inbox, net>>
  BY DEF manager, wire
<1>2. WireStep /\ NetIds'
  BY <1>1, IdleWire DEF NetIds, ManagerInv
<1> QED
  BY <1>1, <1>2, QuietManager

\* A restart forgets every record, the busy mark and the clean-up of one end.
LEMMA CrashStep ==
    ASSUME ManagerInv, NEW p \in Ends, Crash(p)
    PROVE  GoodStep
<1>1. UNCHANGED <<used, net>> /\ Forget(p)
  BY DEF Crash, Forget, Release
<1>0. DOMAIN inbox' = Ends /\ \A q \in Ends : inbox'[q] \subseteq inbox[q]
  BY DEF Crash, ManagerInv, ManagerType
<1>2. /\ DOMAIN hand' = Ends
      /\ \A q \in Ends : hand'[q] = (IF q = p THEN Idle ELSE hand[q])
  BY DEF Crash, ManagerInv, ManagerType
<1>3. Idle.pc = "idle"
  BY DEF Idle
<1>4. HandIds' /\ HandStep
  BY <1>1, <1>2, <1>3 DEF HandIds, HandStep, ManagerInv
<1>5. DOMAIN cleanup' = Ends /\ \A q \in Ends : cleanup'[q] \subseteq cleanup[q]
  BY DEF Crash, ManagerInv, ManagerType
<1>6. CleanIds' /\ NetIds' /\ InboxIds'
  BY <1>0, <1>1, <1>5 DEF CleanIds, NetIds, InboxIds, ManagerInv
<1>7. ManagerStep
  BY <1>1 DEF ManagerStep
<1> QED
  BY <1>0, <1>1, <1>2, <1>4, <1>5, <1>6, <1>7, BusyManager DEF WireStep, ManagerInv, ManagerType

\* Every step of either end, of the network and of time.
LEMMA NextStep ==
    ASSUME ManagerInv, Next
    PROVE  GoodStep
<1>1. ASSUME NEW p \in Ends, NEW r \in Rots,
             \/ Begin(p, r) \/ Abandon(p, r) \/ CleanDel(p, r) \/ CleanCancel(p, r)
             \/ ClientAccept(p, r)
      PROVE  GoodStep
  BY <1>1, BeginStep, AbandonStep, ClientAcceptStep
<1>2. ASSUME NEW p \in Ends, Inbound(p)
      PROVE  GoodStep
  <2>1. ASSUME NEW m \in inbox[p],
               \/ RefuseRequest(p, m) \/ OnRequest(p, m) \/ OnAccept(p, m)
               \/ OnAddress(p, m) \/ OnConfirm(p, m) \/ OnCancel(p, m)
        PROVE  GoodStep
    BY <2>1, RequestStep, OnAcceptStep, AddressStep, OnConfirmStep, CancelStep
  <2>2. CASE AutoAccept(p) \/ AfterMint(p) \/ Overlay(p) \/ ShipConfirm(p)
    BY <2>2, AutoAcceptStep, AfterMintStep, OverlayStep, ShipStep
  <2>3. CASE Unmint(p) \/ ApplyOwn(p) \/ DelOld(p) \/ ApplyTheirs(p)
    BY <2>3, ApplyStep
  <2> QED
    BY <1>2, <2>1, <2>2, <2>3 DEF Inbound
<1>3. ASSUME NEW p \in Ends, GraceEnds(p) \/ SweepOwn(p) \/ Reconnect(p)
      PROVE  GoodStep
  BY <1>3, ElsewhereStep DEF GraceEnds, SweepOwn, Reconnect
<1>4. ASSUME NEW p \in Ends, Crash(p)
      PROVE  GoodStep
  BY <1>4, CrashStep
<1>5. ASSUME NEW p \in Ends, NEW a \in Addr, SweepAddr(p, a)
      PROVE  GoodStep
  BY <1>5, ElsewhereStep DEF SweepAddr
<1>6. ASSUME NEW m \in net, Arrive(m)
      PROVE  GoodStep
  BY <1>6, ArriveStep
<1> QED
  BY <1>1, <1>2, <1>3, <1>4, <1>5, <1>6 DEF Next

\* The invariant holds before the first rotation,
LEMMA InvInit == Init => ManagerInv
<1> SUFFICES ASSUME Init PROVE ManagerInv
  OBVIOUS
<1>1. None \notin Rots
  BY RotationAssumption
<1>2. \A p \in Ends, r \in Rots : rec[p][r] = NoRecord /\ perPeer[p] = None
  BY DEF Init
<1>3. ManagerType
  BY NoRecordType DEF Init, ManagerType
<1>4. \A p \in Ends, r \in Rots : rec[p][r].state = "none" /\ ~rec[p][r].peerConfirmed
  BY <1>2, NoRecordType
<1>5. PerPeerExact
  <2> SUFFICES ASSUME NEW p \in Ends
               PROVE  {r \in Rots : rec[p][r].state \in Open} = {perPeer[p]} \ {None}
    BY DEF PerPeerExact
  <2>1. perPeer[p] = None
    BY DEF Init
  <2>2. \A r \in Rots : rec[p][r].state \notin Open
    BY <1>4 DEF Open
  <2> QED
    BY <2>1, <2>2
<1>6. RecIds /\ Unconfirmed
  BY <1>4 DEF RecIds, Unconfirmed
<1>7. CleanIds /\ NetIds /\ InboxIds
  BY DEF Init, CleanIds, NetIds, InboxIds
<1>8. \A p \in Ends : hand[p].pc = "idle"
  BY DEF Init, Idle
<1>9. HandIds /\ ShipsFirst
  BY <1>8 DEF HandIds, ShipsFirst
<1> QED
  BY <1>3, <1>5, <1>6, <1>7, <1>9 DEF ManagerInv

\* and every step preserves it.
LEMMA InvStep == ManagerInv /\ [Next]_vars => ManagerInv'
<1> SUFFICES ASSUME ManagerInv, [Next]_vars PROVE ManagerInv'
  OBVIOUS
<1>1. CASE Next
  BY <1>1, NextStep, GoodStepInv
<1>2. CASE UNCHANGED vars
  BY <1>2, ElsewhereStep, GoodStepInv DEF vars
<1> QED
  BY <1>1, <1>2

-----------------------------------------------------------------------------
\* The busy mark of Manager.perPeer is set exactly while one rotation with the
\* peer is open, in every run of the protocol: a rotation that failed, was
\* cancelled, timed out or was forgotten by a restart never blocks the next one,
\* and none frees the slot of another.
THEOREM RotationPerPeerExact == Spec => []PerPeerExact
<1>1. ManagerInv => PerPeerExact
  BY DEF ManagerInv
<1> QED
  BY <1>1, InvInit, InvStep, PTL DEF Spec

\* A rotation that failed is never confirmed afterwards, although shipConfirm
\* sets the state without looking at it: the reader that is about to ship its
\* own confirm cannot have taken the peer's.
THEOREM RotationFailedIsFinal == Spec => FailedIsFinal
<1>1. ASSUME ManagerInv, [Next]_vars
      PROVE  [\A p \in Ends, r \in Rots : rec[p][r].state = "failed"
                 => rec'[p][r].state \in {"failed", "none"}]_vars
  <2>1. CASE Next
    <3>1. GoodStep
      BY <2>1, <1>1, NextStep
    <3> QED
      BY <1>1, <3>1, StepFlags DEF ManagerInv, GoodStep
  <2>2. CASE UNCHANGED vars
    BY <2>2
  <2> QED
    BY <1>1, <2>1, <2>2
<1> QED
  BY <1>1, InvInit, InvStep, PTL DEF Spec, FailedIsFinal

-----------------------------------------------------------------------------
(* The onions an end serves *)

\* The onions the end has in use: its own, the one before, and the one before
\* that while it is still to be deleted.
Own(p) == {my[p], prev[p], hand[p].old}

\* A message of this kind about this rotation is under way to the end.
Mail(p, kind, r) ==
    \/ \E m \in net : m.kind = kind /\ m.to = p /\ m.rot = r
    \/ \E m \in inbox[p] : m.kind = kind /\ m.rot = r

\* The peer has asked for this rotation, and the request is still to be handled.
Asked(p, r) == Mail(p, "request", r)

\* The reader is at this step of this rotation.
Reads(p, r, pc) == hand[p].pc = pc /\ hand[p].msg.rot = r

\* An onion of this end was minted for a rotation it began itself: no request
\* of the peer names it, so its record is never made anew after a restart.
OwnRotation(p, r) ==
    r \in Own(p) \cup served[p] \/ rec[p][r].role = "initiator"
        => r \in used /\ ~Asked(p, r)

\* Only the initiator mints, only the responder learns an address.
RoleFits(p, r) ==
    /\ rec[p][r].minted \/ rec[p][r].state = "proposed" => rec[p][r].role = "initiator"
    /\ rec[p][r].theirs \/ rec[p][r].state \in {"requested", "accepted"}
           => rec[p][r].role = "responder"

\* What is in use belongs to a rotation that is finished or forgotten.
UseIsFinal(p, r) ==
    r \in Own(p) =>
        /\ rec[p][r].state \in {"confirmed", "none"}
        /\ ~Reads(p, r, "minted") /\ ~Reads(p, r, "unmint") /\ ~Reads(p, r, "apply")

\* Only the onion of a failed rotation is to be deleted.
DeletesFailed(p, r) ==
    /\ <<"del", r>> \in cleanup[p] => rec[p][r].state = "failed"
    /\ Reads(p, r, "unmint") => rec[p][r].state = "failed"
    /\ Reads(p, r, "minted") => /\ rec[p][r].role = "initiator"
                                /\ rec[p][r].state \in {"proposed", "failed"}
    /\ Reads(p, r, "apply") => rec[p][r].state = "confirmed"

\* The onion of a rotation under way is served until it is taken into use ...
MintServed(p, r) ==
    reconnects = 0 =>
        /\ rec[p][r].minted /\ (rec[p][r].state \in Open \/ Reads(p, r, "apply"))
               => r \in served[p]
        /\ Reads(p, r, "minted") /\ rec[p][r].state = "proposed" => r \in served[p]

\* ... and one that is served was noted as minted, or is about to be.
ServedMinted(p, r) ==
    r \in served[p] /\ (rec[p][r].state \in Open \/ Reads(p, r, "apply"))
        => rec[p][r].minted \/ Reads(p, r, "minted")

\* NoOrphanOnion for an onion minted for a rotation.
HasOwner(p, r) ==
    Untroubled /\ r \in served[p] =>
        \/ r \in Own(p) \/ rec[p][r].state \in Open
        \/ <<"del", r>> \in cleanup[p]
        \/ Reads(p, r, "minted") \/ Reads(p, r, "unmint") \/ Reads(p, r, "apply")

RotInv(p, r) ==
    /\ OwnRotation(p, r) /\ RoleFits(p, r) /\ UseIsFinal(p, r) /\ DeletesFailed(p, r)
    /\ MintServed(p, r) /\ ServedMinted(p, r) /\ HasOwner(p, r)

\* The address book of one end: three different onions, and what it names is
\* served while the control connection lasts.
BookInv(p) ==
    /\ my[p] # prev[p]
    /\ hand[p].old # None => hand[p].pc = "delold" /\ hand[p].old \notin {my[p], prev[p]}
    /\ cooling[p] => prev[p] # None
    /\ reconnects = 0 => my[p] \in served[p] /\ (prev[p] # None => prev[p] \in served[p])
    /\ Untroubled => \A a \in Ends : a \in served[p] => a \in Own(p)

EndInv(p) == BookInv(p) /\ \A r \in Rots : RotInv(p, r)

OnionType ==
    /\ my \in [Ends -> Addr] /\ prev \in [Ends -> Addr \cup {None}]
    /\ cooling \in [Ends -> BOOLEAN] /\ served \in [Ends -> SUBSET Addr]
    /\ faults \in Nat /\ crashes \in Nat /\ reconnects \in Nat

OnionInv == OnionType /\ \A p \in Ends : EndInv(p)
-----------------------------------------------------------------------------
\* What no step of the system does: forget an id, undo a trouble, or ask for a
\* rotation that was begun before.
OnlyGrows ==
    /\ used \subseteq used'
    /\ \A q \in Ends, s \in Rots : Asked(q, s)' => Asked(q, s) \/ s \notin used
    /\ reconnects' = 0 => reconnects = 0
    /\ Untroubled' => Untroubled
    /\ faults' \in Nat /\ crashes' \in Nat /\ reconnects' \in Nat

\* Messages that are not requests, and requests for new ids.
LEMMA AskedSend ==
    ASSUME NEW n, NEW k, NEW id, net' \subseteq net \cup {n}, n.kind = k, n.rot = id,
           k # "request" \/ id \notin used,
           \A q \in Ends : inbox'[q] \subseteq inbox[q]
    PROVE  \A q \in Ends, s \in Rots : Asked(q, s)' => Asked(q, s) \/ s \notin used
BY DEF Asked, Mail

\* No new envelope, no new request.
LEMMA AskedQuiet ==
    ASSUME net' \subseteq net, \A q \in Ends : inbox'[q] \subseteq inbox[q]
    PROVE  \A q \in Ends, s \in Rots : Asked(q, s)' => Asked(q, s) \/ s \notin used
BY DEF Asked, Mail

\* What an envelope says of itself.
LEMMA MsgFields ==
    ASSUME NEW p, NEW k, NEW r
    PROVE  Msg(p, k, r).kind = k /\ Msg(p, k, r).rot = r
BY DEF Msg

\* An entry dealt with, and one kept in hand: the inbox only shrinks.
LEMMA AckInbox ==
    ASSUME ManagerInv, NEW p \in Ends, NEW m, Ack(p, m)
    PROVE  /\ \A q \in Ends : inbox'[q] \subseteq inbox[q]
           /\ hand'[p] = Idle /\ \A q \in Ends \ {p} : hand'[q] = hand[q]
BY DEF Ack, ManagerInv, ManagerType

\* The same for one that stays in hand.
LEMMA StayInbox ==
    ASSUME ManagerInv, NEW p \in Ends, NEW pc, NEW m, Stay(p, pc, m)
    PROVE  /\ \A q \in Ends : inbox'[q] \subseteq inbox[q]
           /\ hand'[p].pc = pc /\ hand'[p].msg = m /\ hand'[p].old = None
           /\ \A q \in Ends \ {p} : hand'[q] = hand[q]
BY DEF Stay, ManagerInv, ManagerType

\* A counter of troubles stays or rises by one.
CountStep ==
    /\ faults' \in {faults, faults + 1}
    /\ crashes' \in {crashes, crashes + 1} /\ reconnects' \in {reconnects, reconnects + 1}

\* An envelope handed over is no request, or one for a new id.
WireGrows ==
    /\ \/ net' \subseteq net
       \/ \E p \in Ends, k \in Kinds, r \in Rots :
             Send(p, k, r) /\ (k # "request" \/ r \notin used)
    /\ \A q \in Ends : inbox'[q] \subseteq inbox[q]

\* A step with such counters and envelopes forgets and asks nothing.
LEMMA Grows ==
    ASSUME OnionType, CountStep, used \subseteq used', WireGrows
    PROVE  OnlyGrows
<1>1. \A q \in Ends, s \in Rots : Asked(q, s)' => Asked(q, s) \/ s \notin used
  <2>1. CASE net' \subseteq net
    BY <2>1, AskedQuiet DEF WireGrows
  <2>2. ASSUME NEW p \in Ends, NEW k \in Kinds, NEW r \in Rots,
               Send(p, k, r), k # "request" \/ r \notin used
        PROVE  \A q \in Ends, s \in Rots : Asked(q, s)' => Asked(q, s) \/ s \notin used
    BY <2>2, MsgFields, AskedSend DEF WireGrows, Send
  <2> QED
    BY <2>1, <2>2 DEF WireGrows
<1>2. /\ (reconnects' = 0 => reconnects = 0) /\ (Untroubled' => Untroubled)
      /\ faults' \in Nat /\ crashes' \in Nat /\ reconnects' \in Nat
  BY DEF OnionType, CountStep, Untroubled
<1> QED
  BY <1>1, <1>2 DEF OnlyGrows

\* The steps of one end's clients and clean-up,
LEMMA ClientGrows ==
    ASSUME ManagerInv, OnionType, NEW p \in Ends, NEW r \in Rots,
           \/ Begin(p, r) \/ Abandon(p, r) \/ CleanDel(p, r) \/ CleanCancel(p, r)
           \/ ClientAccept(p, r)
    PROVE  OnlyGrows
<1>1. used \subseteq used' /\ inbox' = inbox
  BY DEF Begin, Abandon, CleanDel, CleanCancel, ClientAccept, wire
<1>2. CountStep
  BY DEF Begin, Abandon, CleanDel, CleanCancel, ClientAccept, counters, Fault, CountStep,
         Accept
<1>3. WireGrows
  <2>1. CASE Begin(p, r)
    BY <1>1, <2>1 DEF Begin, WireGrows, Kinds
  <2>2. CASE Abandon(p, r) \/ CleanDel(p, r)
    BY <1>1, <2>2 DEF Abandon, CleanDel, wire, WireGrows
  <2>3. CASE CleanCancel(p, r)
    BY <1>1, <2>3 DEF CleanCancel, WireGrows, Kinds
  <2>4. CASE ClientAccept(p, r)
    BY <1>1, <2>4 DEF ClientAccept, Accept, WireGrows, Kinds
  <2> QED
    BY <2>1, <2>2, <2>3, <2>4
<1> QED
  BY <1>1, <1>2, <1>3, Grows

\* the inbound entries,
LEMMA EntryGrows ==
    ASSUME ManagerInv, OnionType, NEW p \in Ends, NEW m \in inbox[p],
           \/ RefuseRequest(p, m) \/ OnRequest(p, m) \/ OnAccept(p, m)
           \/ OnAddress(p, m) \/ OnConfirm(p, m) \/ OnCancel(p, m)
    PROVE  OnlyGrows
<1>1. used' = used /\ m.rot \in Rots
  BY DEF RefuseRequest, OnRequest, OnAccept, OnAddress, OnConfirm, OnCancel, manager,
         ManagerInv, InboxIds, ManagerType
<1>2. \A q \in Ends : inbox'[q] \subseteq inbox[q]
  BY AckInbox, StayInbox DEF RefuseRequest, OnRequest, OnAccept, OnAddress, OnConfirm, OnCancel
<1>3. crashes' = crashes /\ reconnects' = reconnects /\ faults' \in {faults, faults + 1}
  BY DEF RefuseRequest, OnRequest, OnAccept, OnAddress, OnConfirm, OnCancel, Fault
<1>5. WireGrows
  BY <1>1, <1>2 DEF RefuseRequest, OnRequest, OnAccept, OnAddress, OnConfirm, OnCancel,
                    WireGrows, Kinds
<1> QED
  BY <1>1, <1>3, <1>5, Grows DEF CountStep

\* the further steps of the reader,
LEMMA ReaderGrows ==
    ASSUME ManagerInv, OnionType, NEW p \in Ends,
           \/ AutoAccept(p) \/ AfterMint(p) \/ Unmint(p) \/ Overlay(p) \/ ShipConfirm(p)
           \/ ApplyOwn(p) \/ DelOld(p) \/ ApplyTheirs(p)
    PROVE  OnlyGrows
<1>1. used' = used /\ hand[p].msg.rot \in Rots
  BY DEF AutoAccept, AfterMint, Unmint, Overlay, ShipConfirm, ApplyOwn, DelOld, ApplyTheirs,
         manager, At, ManagerInv, HandIds, ManagerType
<1>2. \A q \in Ends : inbox'[q] \subseteq inbox[q]
  BY AckInbox, StayInbox DEF AutoAccept, AfterMint, Unmint, Overlay, ShipConfirm, ApplyOwn,
     DelOld, ApplyTheirs, UnwindMint
<1>3. crashes' = crashes /\ reconnects' = reconnects
  BY DEF AutoAccept, AfterMint, Unmint, Overlay, ShipConfirm, ApplyOwn, DelOld, ApplyTheirs
<1>4. faults' \in {faults, faults + 1}
  BY DEF AutoAccept, AfterMint, Unmint, Overlay, ShipConfirm, ApplyOwn, DelOld, ApplyTheirs,
         Fault, Accept
<1>6. net' \subseteq net \/ \E k \in Kinds \ {"request"} : Send(p, k, hand[p].msg.rot)
  BY DEF AutoAccept, AfterMint, Unmint, Overlay, ShipConfirm, ApplyOwn, DelOld, ApplyTheirs,
         Accept, Kinds
<1>7. WireGrows
  BY <1>1, <1>2, <1>6 DEF WireGrows
<1> QED
  BY <1>1, <1>3, <1>4, <1>7, Grows DEF CountStep

\* time, sweeps, restarts and lost connections,
LEMMA OtherGrows ==
    ASSUME ManagerInv, OnionType, NEW p \in Ends,
           \/ GraceEnds(p) \/ SweepOwn(p) \/ Crash(p) \/ Reconnect(p)
           \/ \E a \in Addr : SweepAddr(p, a)
    PROVE  OnlyGrows
<1>1. used' = used /\ net' = net /\ \A q \in Ends : inbox'[q] \subseteq inbox[q]
  <2>1. CASE Crash(p)
    BY <2>1 DEF Crash, ManagerInv, ManagerType
  <2>2. CASE ~Crash(p)
    BY <2>2 DEF GraceEnds, SweepOwn, Reconnect, SweepAddr, manager, wire
  <2> QED
    BY <2>1, <2>2
<1>2. CountStep
  BY DEF GraceEnds, SweepOwn, Crash, Reconnect, SweepAddr, counters, CountStep
<1> QED
  BY <1>1, <1>2, Grows DEF WireGrows

\* and the transport.
LEMMA ArriveGrows ==
    ASSUME ManagerInv, OnionType, NEW m \in net, Arrive(m)
    PROVE  OnlyGrows
<1>1. used' = used /\ net' \subseteq net /\ UNCHANGED counters
  BY DEF Arrive, manager
<1>2. \A q \in Ends : inbox'[q] \subseteq inbox[q] \/ (q = m.to /\ inbox'[q] = inbox[q] \cup {m})
  BY DEF Arrive, ManagerInv, ManagerType
<1>3. \A q \in Ends, s \in Rots : Asked(q, s)' => Asked(q, s)
  BY <1>1, <1>2 DEF Asked, Mail
<1> QED
  BY <1>1, <1>3 DEF OnlyGrows, Untroubled, counters, OnionType

SameReads(p, r) ==
    \A pc \in {"minted", "unmint", "apply"} : Reads(p, r, pc)' <=> Reads(p, r, pc)

\* The record is the same but for the confirms.
SameRec(p, r) ==
    /\ rec'[p][r].role = rec[p][r].role /\ rec'[p][r].state = rec[p][r].state
    /\ rec'[p][r].minted = rec[p][r].minted /\ rec'[p][r].theirs = rec[p][r].theirs

\* A step that leaves a rotation of one end alone.  An onion taken off Tor was in
\* use or of a failed rotation, and what leaves the book or the clean-up is not
\* served any longer, unless something failed.
LEMMA RotKept ==
    ASSUME OnlyGrows, NEW p \in Ends, NEW s \in Rots, RotInv(p, s),
           SameRec(p, s), SameReads(p, s),
           s \in Own(p)' => s \in Own(p),
           s \in served'[p] => s \in served[p],
           s \in served[p] => \/ s \in served'[p] \/ s \in Own(p)
                              \/ rec[p][s].state = "failed" \/ reconnects' # 0,
           <<"del", s>> \in cleanup'[p] => <<"del", s>> \in cleanup[p],
           Untroubled' /\ s \in served'[p] =>
               /\ s \in Own(p) => s \in Own(p)'
               /\ <<"del", s>> \in cleanup[p] => <<"del", s>> \in cleanup'[p]
    PROVE  RotInv(p, s)'
<1>1. OwnRotation(p, s)'
  BY DEF OwnRotation, RotInv, OnlyGrows, SameRec
<1>2. RoleFits(p, s)'
  BY DEF RoleFits, RotInv, SameRec
<1>3. UseIsFinal(p, s)' /\ DeletesFailed(p, s)'
  BY DEF UseIsFinal, DeletesFailed, RotInv, SameReads, SameRec
<1>4. MintServed(p, s)'
  BY DEF MintServed, UseIsFinal, DeletesFailed, RotInv, SameReads, SameRec, OnlyGrows, Open
<1>5. ServedMinted(p, s)'
  BY DEF ServedMinted, RotInv, SameReads, SameRec
<1>6. HasOwner(p, s)'
  BY DEF HasOwner, RotInv, SameReads, SameRec, OnlyGrows
<1> QED
  BY <1>1, <1>2, <1>3, <1>4, <1>5, <1>6 DEF RotInv

\* The end takes no part in the step.
Aside(q) ==
    /\ rec'[q] = rec[q] /\ hand'[q] = hand[q] /\ cleanup'[q] = cleanup[q]
    /\ my'[q] = my[q] /\ prev'[q] = prev[q] /\ cooling'[q] = cooling[q]
    /\ served'[q] = served[q]

\* The end that takes no part in a step keeps its invariant.
LEMMA AsideKept ==
    ASSUME OnlyGrows, NEW q \in Ends, Aside(q), EndInv(q)
    PROVE  EndInv(q)'
<1>1. \A r \in Rots : SameReads(q, r)
  BY DEF SameReads, Reads, Aside
<1>2. Own(q)' = Own(q)
  BY DEF Own, Aside
<1>3. BookInv(q)'
  BY <1>2 DEF BookInv, Aside, EndInv, OnlyGrows
<1>4. ASSUME NEW s \in Rots PROVE RotInv(q, s)'
  BY <1>1, <1>2, RotKept DEF Aside, EndInv, SameRec
<1> QED
  BY <1>3, <1>4 DEF EndInv

\* One end steps, and leaves its address book and its onions alone: what is left
\* is the rotation it is about.
Quiet(p) == my' = my /\ prev' = prev /\ cooling' = cooling /\ served' = served

\* A step of one end that leaves its onions alone.
LEMMA QuietKept ==
    ASSUME ManagerInv, OnionInv, OnlyGrows, NEW p \in Ends, NEW r \in Rots, Quiet(p),
           \A q \in Ends \ {p} : rec'[q] = rec[q] /\ hand'[q] = hand[q] /\ cleanup'[q] = cleanup[q],
           \A s \in Rots \ {r} :
               /\ rec'[p][s] = rec[p][s]
               /\ <<"del", s>> \in cleanup'[p] <=> <<"del", s>> \in cleanup[p],
           hand'[p] = hand[p] \/ (hand[p].pc \in {"idle", "delold"} \/ hand[p].msg.rot = r),
           \/ hand'[p] = hand[p]
           \/ hand'[p].old = None /\ (hand'[p].pc = "idle" \/ hand'[p].msg.rot = r)
              /\ hand[p].old = None,
           RotInv(p, r)'
    PROVE  OnionInv'
<1>1. ASSUME NEW q \in Ends \ {p} PROVE EndInv(q)'
  BY <1>1, AsideKept DEF Aside, Quiet, OnionInv
<1>2. Own(p)' = Own(p)
  BY DEF Own, Quiet
<1>3. BookInv(p)'
  BY <1>2 DEF BookInv, Quiet, OnionInv, EndInv, OnlyGrows
<1>4. ASSUME NEW s \in Rots \ {r} PROVE RotInv(p, s)'
  <2>1. SameReads(p, s)
    BY DEF SameReads, Reads
  <2> QED
    BY <1>2, <2>1, RotKept DEF Quiet, OnionInv, EndInv, SameRec
<1> QED
  BY <1>1, <1>3, <1>4 DEF OnionInv, EndInv, OnionType, OnlyGrows, Quiet

\* The rotation a step names, but does not change.
LEMMA RotUntouched ==
    ASSUME OnlyGrows, NEW p \in Ends, NEW r \in Rots, RotInv(p, r), Quiet(p),
           SameRec(p, r), SameReads(p, r), hand'[p].old = hand[p].old,
           <<"del", r>> \in cleanup'[p] <=> <<"del", r>> \in cleanup[p]
    PROVE  RotInv(p, r)'
<1>1. Own(p)' = Own(p)
  BY DEF Own, Quiet
<1> QED
  BY <1>1, RotKept DEF Quiet

\* An open rotation fails: the onion minted for it is noted for deletion.
LEMMA RotFails ==
    ASSUME OnlyGrows, NEW p \in Ends, NEW r \in Rots, RotInv(p, r), Quiet(p),
           rec[p][r].state \in Open, rec'[p][r].state = "failed",
           rec'[p][r].role = rec[p][r].role, rec'[p][r].minted = rec[p][r].minted,
           rec'[p][r].theirs = rec[p][r].theirs,
           hand'[p].old = hand[p].old, SameReads(p, r),
           rec[p][r].minted => <<"del", r>> \in cleanup'[p]
    PROVE  RotInv(p, r)'
<1>1. Own(p)' = Own(p)
  BY DEF Own, Quiet
<1>2. OwnRotation(p, r)' /\ RoleFits(p, r)'
  BY <1>1 DEF OwnRotation, RoleFits, RotInv, OnlyGrows, Quiet
<1>3. r \notin Own(p) /\ ~Reads(p, r, "apply")
  BY DEF UseIsFinal, DeletesFailed, RotInv, Open
<1>4. UseIsFinal(p, r)' /\ DeletesFailed(p, r)'
  BY <1>1, <1>3 DEF UseIsFinal, DeletesFailed, RotInv, SameReads
<1>5. MintServed(p, r)' /\ ServedMinted(p, r)'
  BY <1>3 DEF MintServed, ServedMinted, SameReads, Open
<1>6. HasOwner(p, r)'
  BY DEF HasOwner, ServedMinted, RotInv, SameReads, Quiet
<1> QED
  BY <1>2, <1>4, <1>5, <1>6 DEF RotInv

\* fail, with the reader where it was or back at its queue.
LEMMA FailKept ==
    ASSUME ManagerInv, OnionInv, OnlyGrows, NEW p \in Ends, NEW r \in Rots, Quiet(p),
           Fail(p, r), hand'[p].old = hand[p].old, SameReads(p, r)
    PROVE  RotInv(p, r)'
<1>1. RotInv(p, r)
  BY DEF OnionInv, EndInv
<1>2. CASE rec[p][r].state \in Open
  <2> DEFINE new == [rec[p][r] EXCEPT !.state = "failed"]
  <2>1. rec[p][r] \in Record
    BY DEF ManagerInv, ManagerType
  <2>2. /\ new \in Record /\ new.state = "failed" /\ new.role = rec[p][r].role
        /\ new.minted = rec[p][r].minted /\ new.theirs = rec[p][r].theirs
    BY <2>1 DEF Record, Terminal
  <2>3. rec' = [rec EXCEPT ![p][r] = new]
    BY <1>2 DEF Fail, SetRec
  <2> HIDE DEF new
  <2>4. rec'[p][r] = new
    BY <2>2, <2>3, TouchedRec DEF ManagerInv
  <2>5. rec[p][r].minted => <<"del", r>> \in cleanup'[p]
    BY <1>2 DEF Fail, FailOwes, ManagerInv, ManagerType
  <2> QED
    BY <1>1, <1>2, <2>2, <2>4, <2>5, RotFails
<1>3. CASE rec[p][r].state \notin Open
  BY <1>1, <1>3, RotUntouched DEF Fail, SameRec
<1> QED
  BY <1>2, <1>3

\* ... and what it leaves alone.
LEMMA FailAside ==
    ASSUME ManagerInv, NEW p \in Ends, NEW r \in Rots, Fail(p, r)
    PROVE  /\ \A q \in Ends \ {p} : rec'[q] = rec[q] /\ cleanup'[q] = cleanup[q]
           /\ \A s \in Rots \ {r} :
                  /\ rec'[p][s] = rec[p][s]
                  /\ <<"del", s>> \in cleanup'[p] <=> <<"del", s>> \in cleanup[p]
<1>1. CASE rec[p][r].state \in Open
  <2>1. \A q \in Ends \ {p} : rec'[q] = rec[q] /\ cleanup'[q] = cleanup[q]
    BY <1>1 DEF Fail, SetRec, ManagerInv, ManagerType
  <2>2. \A s \in Rots \ {r} : rec'[p][s] = rec[p][s]
    BY <1>1 DEF Fail, SetRec, ManagerInv, ManagerType
  <2>3. cleanup'[p] = cleanup[p] \cup FailOwes(p, r)
    BY <1>1 DEF Fail, ManagerInv, ManagerType
  <2> QED
    BY <2>1, <2>2, <2>3 DEF FailOwes
<1>2. CASE rec[p][r].state \notin Open
  BY <1>2 DEF Fail
<1> QED
  BY <1>1, <1>2

\* One record changes.
LEMMA SetAside ==
    ASSUME ManagerInv, NEW p \in Ends, NEW r \in Rots, NEW new, SetRec(p, r, new)
    PROVE  /\ \A q \in Ends \ {p} : rec'[q] = rec[q]
           /\ \A s \in Rots \ {r} : rec'[p][s] = rec[p][s]
           /\ rec'[p][r] = new
BY DEF SetRec, ManagerInv, ManagerType

\* The reader's steps seen from the rotations.
LEMMA AckReads ==
    ASSUME ManagerInv, NEW p \in Ends, NEW m, NEW r \in Rots, Ack(p, m),
           hand[p].pc \notin {"minted", "unmint", "apply"}
    PROVE  SameReads(p, r) /\ hand'[p].old = None
<1>1. hand'[p] = Idle
  BY AckInbox
<1> QED
  BY <1>1 DEF SameReads, Reads, Idle

\* What the reader is at when it keeps an entry,
LEMMA StayReads ==
    ASSUME ManagerInv, NEW p \in Ends, NEW pc, NEW m, NEW r \in Rots, Stay(p, pc, m),
           {pc, hand[p].pc} \cap {"minted", "unmint", "apply"} = {}
    PROVE  SameReads(p, r) /\ hand'[p].old = None
<1>1. hand'[p].pc = pc /\ hand'[p].old = None
  BY StayInbox
<1> QED
  BY <1>1 DEF SameReads, Reads
-----------------------------------------------------------------------------
\* and when it has none.
LEMMA IdleReads ==
    ASSUME NEW p \in Ends, NEW r \in Rots, hand' = hand
    PROVE  SameReads(p, r)
BY DEF SameReads, Reads

\* A deadline or a user fails a rotation whose onion is not in use.
LEMMA AbandonOnion ==
    ASSUME ManagerInv, OnionInv, NEW p \in Ends, NEW r \in Rots, Abandon(p, r)
    PROVE  OnionInv'
<1>1. OnlyGrows
  BY ClientGrows DEF OnionInv
<1>2. Quiet(p) /\ hand' = hand /\ Fail(p, r)
  BY DEF Abandon, book, wire, Quiet
<1>3. RotInv(p, r)'
  BY <1>1, <1>2, FailKept, IdleReads
<1> QED
  BY <1>1, <1>2, <1>3, FailAside, QuietKept

\* A rotation begins or goes on: nothing is minted by that.
LEMMA RotGoesOn ==
    ASSUME OnlyGrows, NEW p \in Ends, NEW r \in Rots, RotInv(p, r), Quiet(p),
           SameReads(p, r), ~Reads(p, r, "minted"), hand'[p].old = hand[p].old,
           <<"del", r>> \in cleanup'[p] <=> <<"del", r>> \in cleanup[p],
           rec'[p][r].state \in Open,
           \/ rec[p][r].state \in Open /\ rec'[p][r].minted = rec[p][r].minted
           \/ /\ rec[p][r].state = "none" /\ ~rec'[p][r].minted
              /\ r \notin Own(p) \cup served[p],
           RoleFits(p, r)',
           rec'[p][r].role = "initiator" =>
               \/ rec[p][r].role = "initiator"
               \/ r \in used' /\ ~Asked(p, r)'
    PROVE  RotInv(p, r)'
<1>1. Own(p)' = Own(p)
  BY DEF Own, Quiet
<1>2. OwnRotation(p, r)'
  BY <1>1 DEF OwnRotation, RotInv, OnlyGrows, Quiet
<1>3. r \notin Own(p) /\ ~Reads(p, r, "apply") /\ ~Reads(p, r, "unmint")
      /\ <<"del", r>> \notin cleanup[p]
  BY DEF UseIsFinal, DeletesFailed, RotInv, Open
<1>4. UseIsFinal(p, r)' /\ DeletesFailed(p, r)'
  BY <1>1, <1>3 DEF UseIsFinal, DeletesFailed, SameReads
<1>5. MintServed(p, r)' /\ ServedMinted(p, r)'
  BY <1>3 DEF MintServed, ServedMinted, RoleFits, RotInv, SameReads, Quiet, OnlyGrows, OwnRotation
<1>6. HasOwner(p, r)'
  BY DEF HasOwner
<1> QED
  BY <1>2, <1>4, <1>5, <1>6 DEF RotInv

\* A new record is neither minted nor told an address.
LEMMA NewRecFields ==
    ASSUME NEW role \in {"initiator", "responder"}, NEW state \in Open \cup Terminal
    PROVE  /\ NewRec(role, state).role = role /\ NewRec(role, state).state = state
           /\ ~NewRec(role, state).minted /\ ~NewRec(role, state).theirs
<1>1. NoRecord \in Record /\ ~NoRecord.minted /\ ~NoRecord.theirs
  BY NoRecordType DEF NoRecord
<1>2. ASSUME NEW x \in Record
      PROVE  /\ [x EXCEPT !.role = role, !.state = state].role = role
             /\ [x EXCEPT !.role = role, !.state = state].state = state
             /\ [x EXCEPT !.role = role, !.state = state].minted = x.minted
             /\ [x EXCEPT !.role = role, !.state = state].theirs = x.theirs
  BY DEF Record
<1> QED
  BY <1>1, <1>2 DEF NewRec

\* A request is sent for a new id only, and never to the end that sends it.
LEMMA NotAsked ==
    ASSUME ManagerInv, NEW p \in Ends, NEW r \in Rots, r \notin used
    PROVE  ~Asked(p, r)
BY DEF Asked, Mail, ManagerInv, NetIds, InboxIds

\* There are two ends.
LEMMA OtherEnd ==
    ASSUME NEW p \in Ends
    PROVE  Other(p) \in Ends /\ Other(p) # p /\ \A q \in Ends : q = p \/ q = Other(p)
<1>1. PICK a \in Ends, b \in Ends : a # b /\ Ends = {a, b}
  BY RotationAssumption
<1>2. \E q \in Ends : q # p
  BY <1>1
<1>3. Other(p) \in Ends /\ Other(p) # p
  BY <1>2 DEF Other
<1> QED
  BY <1>1, <1>3

\* A new rotation has a new id, so no onion of that name is in use.
LEMMA BeginOnion ==
    ASSUME ManagerInv, OnionInv, NEW p \in Ends, NEW r \in Rots, Begin(p, r)
    PROVE  OnionInv'
<1>1. OnlyGrows
  BY ClientGrows DEF OnionInv
<1>2. Quiet(p) /\ hand' = hand /\ inbox' = inbox /\ r \notin used /\ r \in used'
  BY DEF Begin, book, Quiet
<1>3. /\ rec[p][r].state = "none" /\ rec[p][r].role # "initiator"
      /\ r \notin Own(p) \cup served[p] /\ RotInv(p, r)
  BY <1>2 DEF ManagerInv, RecIds, OnionInv, EndInv, RotInv, OwnRotation
<1>4. /\ SameReads(p, r)
      /\ ~Reads(p, r, "minted") /\ ~Reads(p, r, "apply") /\ ~Reads(p, r, "unmint")
      /\ <<"del", r>> \notin cleanup[p]
  BY <1>2, <1>3, IdleReads DEF RotInv, DeletesFailed
<1>5. ~Asked(p, r)'
  <2>1. ~Asked(p, r)
    BY <1>2, NotAsked
  <2>2. net' = net \/ net' = net \cup {Msg(p, "request", r)}
    BY DEF Begin, Send
  <2>3. Msg(p, "request", r).to # p
    BY OtherEnd DEF Msg
  <2> QED
    BY <1>2, <2>1, <2>2, <2>3 DEF Asked, Mail
<1>6. CASE /\ SetRec(p, r, NewRec("initiator", "proposed")) /\ cleanup' = cleanup
  <2>1. "proposed" \in Open
    BY DEF Open
  <2>2. /\ rec'[p][r] = NewRec("initiator", "proposed")
        /\ \A q \in Ends \ {p} : rec'[q] = rec[q]
        /\ \A s \in Rots \ {r} : rec'[p][s] = rec[p][s]
    BY <1>6, SetAside
  <2>3. /\ rec'[p][r].role = "initiator" /\ rec'[p][r].state = "proposed"
        /\ ~rec'[p][r].minted /\ ~rec'[p][r].theirs
    BY <2>1, <2>2, NewRecFields
  <2>4. RotInv(p, r)'
    BY <1>1, <1>2, <1>3, <1>4, <1>5, <1>6, <2>1, <2>3, RotGoesOn DEF RoleFits
  <2> QED
    BY <1>1, <1>2, <1>6, <2>2, <2>4, QuietKept
<1>7. CASE /\ SetRec(p, r, NewRec("initiator", "failed"))
           /\ cleanup' = [cleanup EXCEPT ![p] = @ \cup {<<"cancel", r>>}]
  <2>1. "failed" \in Terminal
    BY DEF Terminal
  <2>2. /\ rec'[p][r] = NewRec("initiator", "failed")
        /\ \A q \in Ends \ {p} : rec'[q] = rec[q]
        /\ \A s \in Rots \ {r} : rec'[p][s] = rec[p][s]
    BY <1>7, SetAside
  <2>3. /\ rec'[p][r].role = "initiator" /\ rec'[p][r].state = "failed"
        /\ ~rec'[p][r].minted /\ ~rec'[p][r].theirs
    BY <2>1, <2>2, NewRecFields
  <2>4. /\ \A q \in Ends \ {p} : cleanup'[q] = cleanup[q]
        /\ cleanup'[p] = cleanup[p] \cup {<<"cancel", r>>}
    BY <1>7 DEF ManagerInv, ManagerType
  <2>5. r \notin Own(p)' /\ r \notin served'[p]
    BY <1>2, <1>3 DEF Own, Quiet
  <2>6. RotInv(p, r)'
    BY <1>2, <1>4, <1>5, <2>3, <2>4, <2>5
       DEF RotInv, OwnRotation, RoleFits, UseIsFinal, DeletesFailed, MintServed, ServedMinted,
           HasOwner, SameReads, Open
  <2> QED
    BY <1>1, <1>2, <2>2, <2>4, <2>6, QuietKept
<1> QED
  BY <1>6, <1>7 DEF Begin

\* UserAccept.
LEMMA AcceptKept ==
    ASSUME ManagerInv, OnionInv, OnlyGrows, NEW p \in Ends, NEW r \in Rots, Quiet(p),
           Accept(p, r), hand'[p].old = hand[p].old, SameReads(p, r)
    PROVE  /\ RotInv(p, r)'
           /\ \A q \in Ends \ {p} : rec'[q] = rec[q] /\ cleanup'[q] = cleanup[q]
           /\ \A s \in Rots \ {r} :
                  /\ rec'[p][s] = rec[p][s]
                  /\ <<"del", s>> \in cleanup'[p] <=> <<"del", s>> \in cleanup[p]
<1> DEFINE new == [rec[p][r] EXCEPT !.state = "accepted"]
<1>1. RotInv(p, r) /\ rec[p][r] \in Record
  BY DEF OnionInv, EndInv, ManagerInv, ManagerType
<1>2. CASE /\ rec[p][r].role = "responder" /\ rec[p][r].state = "requested"
           /\ SetRec(p, r, new) /\ cleanup' = cleanup
  <2>1. /\ new.state = "accepted" /\ new.role = rec[p][r].role
        /\ new.minted = rec[p][r].minted /\ new.theirs = rec[p][r].theirs
    BY <1>1 DEF Record
  <2> HIDE DEF new
  <2>2. /\ rec'[p][r] = new /\ \A q \in Ends \ {p} : rec'[q] = rec[q]
        /\ \A s \in Rots \ {r} : rec'[p][s] = rec[p][s]
    BY <1>2, SetAside
  <2>3. ~Reads(p, r, "minted")
    BY <1>1, <1>2 DEF RotInv, DeletesFailed
  <2>4. RoleFits(p, r)'
    BY <1>1, <1>2, <2>1, <2>2 DEF RotInv, RoleFits
  <2>5. RotInv(p, r)'
    BY <1>1, <1>2, <2>1, <2>2, <2>3, <2>4, RotGoesOn DEF Open
  <2> QED
    BY <1>2, <2>2, <2>5
<1>3. CASE Fail(p, r)
  BY <1>3, FailKept, FailAside
<1>4. CASE UNCHANGED <<rec, cleanup>>
  BY <1>1, <1>4, RotUntouched DEF SameRec
<1> QED
  BY <1>2, <1>3, <1>4 DEF Accept

\* The user's client accepts, or the accept cannot be sent.
LEMMA ClientAcceptOnion ==
    ASSUME ManagerInv, OnionInv, NEW p \in Ends, NEW r \in Rots, ClientAccept(p, r)
    PROVE  OnionInv'
<1>1. OnlyGrows
  BY ClientGrows DEF OnionInv
<1>2. Quiet(p) /\ hand' = hand /\ Accept(p, r)
  BY DEF ClientAccept, book, Quiet
<1>3. SameReads(p, r)
  BY <1>2, IdleReads
<1> QED
  BY <1>1, <1>2, <1>3, AcceptKept, QuietKept

\* The reader accepts.
LEMMA AutoAcceptOnion ==
    ASSUME ManagerInv, OnionInv, NEW p \in Ends, AutoAccept(p)
    PROVE  OnionInv'
<1> DEFINE r == hand[p].msg.rot
<1>1. OnlyGrows
  BY ReaderGrows DEF OnionInv
<1>2. Quiet(p) /\ hand[p].pc = "accept" /\ Accept(p, r) /\ Ack(p, hand[p].msg)
  BY DEF AutoAccept, book, Quiet, At
<1>3. r \in Rots /\ hand[p].old = None
  BY <1>2 DEF ManagerInv, HandIds, ManagerType, OnionInv, EndInv, BookInv
<1>4. SameReads(p, r) /\ hand'[p].old = None
  BY <1>2, <1>3, AckReads
<1>5. hand'[p].pc = "idle" /\ \A q \in Ends \ {p} : hand'[q] = hand[q]
  BY <1>2, AckInbox DEF Idle
<1> HIDE DEF r
<1> QED
  BY <1>1, <1>2, <1>3, <1>4, <1>5, AcceptKept, QuietKept DEF r

\* The reader finishes an entry that changes no record.
LEMMA AckQuiet ==
    ASSUME ManagerInv, OnionInv, OnlyGrows, NEW p \in Ends, NEW m, m.rot \in Rots,
           Quiet(p), rec' = rec, cleanup' = cleanup, Ack(p, m), hand[p].old = None,
           hand[p].pc = "idle" \/ (hand[p].pc \in {"overlay", "ship"} /\ hand[p].msg = m)
    PROVE  OnionInv'
<1> DEFINE r == m.rot
<1>1. SameReads(p, r) /\ hand'[p].old = None
  BY AckReads
<1>2. hand'[p].pc = "idle" /\ \A q \in Ends \ {p} : hand'[q] = hand[q]
  BY AckInbox DEF Idle
<1>3. RotInv(p, r) /\ SameRec(p, r)
  BY DEF OnionInv, EndInv, SameRec
<1>4. RotInv(p, r)'
  BY <1>1, <1>3, RotUntouched
<1> QED
  BY <1>1, <1>2, <1>4, QuietKept

\* The reader takes up an entry: nothing is left of the entry before.
LEMMA TakesIdle ==
    ASSUME ManagerInv, OnionInv, NEW p \in Ends, NEW m \in inbox[p], hand[p].pc = "idle"
    PROVE  hand[p].old = None /\ m.rot \in Rots /\ RotInv(p, m.rot)
           /\ rec[p][m.rot] \in Record
           /\ ~Reads(p, m.rot, "minted") /\ ~Reads(p, m.rot, "unmint")
           /\ ~Reads(p, m.rot, "apply")
BY DEF ManagerInv, InboxIds, ManagerType, OnionInv, EndInv, BookInv, Reads

\* A request refused changes no onion.
LEMMA RefuseOnion ==
    ASSUME ManagerInv, OnionInv, NEW p \in Ends, NEW m \in inbox[p], RefuseRequest(p, m)
    PROVE  OnionInv'
<1>1. OnlyGrows
  BY EntryGrows DEF OnionInv
<1>2. Quiet(p) /\ rec' = rec /\ cleanup' = cleanup /\ Ack(p, m) /\ hand[p].pc = "idle"
  BY DEF RefuseRequest, book, manager, Quiet, Takes
<1> QED
  BY <1>1, <1>2, TakesIdle, AckQuiet

\* A request taken up: the peer asked, so no onion of ours has that name.
LEMMA OnRequestOnion ==
    ASSUME ManagerInv, OnionInv, NEW p \in Ends, NEW m \in inbox[p], OnRequest(p, m)
    PROVE  OnionInv'
<1> DEFINE r == m.rot
<1>1. OnlyGrows
  BY EntryGrows DEF OnionInv
<1>2. /\ Quiet(p) /\ cleanup' = cleanup /\ Stay(p, "accept", m) /\ hand[p].pc = "idle"
      /\ SetRec(p, r, NewRec("responder", "requested")) /\ rec[p][r].state = "none"
      /\ m.kind = "request"
  BY DEF OnRequest, book, Quiet, Takes
<1>3. r \in Rots /\ RotInv(p, r) /\ ~Reads(p, r, "minted") /\ hand[p].old = None
  BY <1>2, TakesIdle
<1>4. r \notin Own(p) \cup served[p]
  BY <1>2, <1>3 DEF RotInv, OwnRotation, Asked, Mail
<1>5. SameReads(p, r) /\ hand'[p].old = None
  BY <1>2, <1>3, StayReads
<1>6. hand'[p].msg = m /\ \A q \in Ends \ {p} : hand'[q] = hand[q]
  BY <1>2, StayInbox
<1>7. "requested" \in Open
  BY DEF Open
<1>8. /\ rec'[p][r] = NewRec("responder", "requested")
      /\ \A q \in Ends \ {p} : rec'[q] = rec[q]
      /\ \A s \in Rots \ {r} : rec'[p][s] = rec[p][s]
  BY <1>2, <1>3, SetAside
<1>9. /\ rec'[p][r].role = "responder" /\ rec'[p][r].state = "requested"
      /\ ~rec'[p][r].minted /\ ~rec'[p][r].theirs
  BY <1>7, <1>8, NewRecFields
<1>10. RotInv(p, r)'
  BY <1>1, <1>2, <1>3, <1>4, <1>5, <1>7, <1>9, RotGoesOn DEF RoleFits
<1> QED
  BY <1>1, <1>2, <1>3, <1>5, <1>6, <1>8, <1>10, QuietKept

\* The peer's new address is noted.
LEMMA OnAddressOnion ==
    ASSUME ManagerInv, OnionInv, NEW p \in Ends, NEW m \in inbox[p], OnAddress(p, m)
    PROVE  OnionInv'
<1> DEFINE r == m.rot
           new == [rec[p][r] EXCEPT !.theirs = TRUE, !.state = "address_exchanged"]
<1>1. OnlyGrows
  BY EntryGrows DEF OnionInv
<1>2. Quiet(p) /\ cleanup' = cleanup /\ hand[p].pc = "idle"
  BY DEF OnAddress, book, Quiet, Takes
<1>3. /\ r \in Rots /\ RotInv(p, r) /\ ~Reads(p, r, "minted") /\ hand[p].old = None
      /\ rec[p][r] \in Record
  BY <1>2, TakesIdle
<1>4. CASE rec[p][r].state = "accepted" /\ SetRec(p, r, new) /\ Stay(p, "overlay", m)
  <2>1. /\ new.state = "address_exchanged" /\ new.role = rec[p][r].role
        /\ new.minted = rec[p][r].minted
    BY <1>3 DEF Record
  <2> HIDE DEF new
  <2>2. /\ rec'[p][r] = new /\ \A q \in Ends \ {p} : rec'[q] = rec[q]
        /\ \A s \in Rots \ {r} : rec'[p][s] = rec[p][s]
    BY <1>3, <1>4, SetAside
  <2>3. SameReads(p, r) /\ hand'[p].old = None
    BY <1>2, <1>3, <1>4, StayReads
  <2>4. hand'[p].msg = m /\ \A q \in Ends \ {p} : hand'[q] = hand[q]
    BY <1>4, StayInbox
  <2>5. RoleFits(p, r)'
    BY <1>3, <1>4, <2>1, <2>2 DEF RotInv, RoleFits
  <2>6. RotInv(p, r)'
    BY <1>1, <1>2, <1>3, <1>4, <2>1, <2>2, <2>3, <2>5, RotGoesOn DEF Open
  <2> QED
    BY <1>1, <1>2, <1>3, <2>2, <2>3, <2>4, <2>6, QuietKept
<1>5. CASE Ack(p, m) /\ rec' = rec
  BY <1>1, <1>2, <1>3, <1>5, AckQuiet
<1> QED
  BY <1>4, <1>5 DEF OnAddress

\* A step of the reader that fails the rotation, with nothing minted by it.
LEMMA AckFails ==
    ASSUME ManagerInv, OnionInv, OnlyGrows, NEW p \in Ends, NEW m, m.rot \in Rots,
           Quiet(p), Fail(p, m.rot), Ack(p, m), hand[p].old = None,
           hand[p].pc = "idle" \/ (hand[p].pc \in {"overlay", "ship"} /\ hand[p].msg = m)
    PROVE  OnionInv'
<1> DEFINE r == m.rot
<1>1. SameReads(p, r) /\ hand'[p].old = None
  BY AckReads
<1>2. hand'[p].pc = "idle" /\ \A q \in Ends \ {p} : hand'[q] = hand[q]
  BY AckInbox DEF Idle
<1>3. RotInv(p, r)'
  BY <1>1, FailKept
<1>4. /\ \A q \in Ends \ {p} : rec'[q] = rec[q] /\ cleanup'[q] = cleanup[q]
      /\ \A s \in Rots \ {r} :
             /\ rec'[p][s] = rec[p][s]
             /\ <<"del", s>> \in cleanup'[p] <=> <<"del", s>> \in cleanup[p]
  BY FailAside
<1> QED
  BY <1>1, <1>2, <1>3, <1>4, QuietKept

\* What is known of the entry in hand.
LEMMA HandFacts ==
    ASSUME ManagerInv, OnionInv, NEW p \in Ends, hand[p].pc \notin {"idle", "delold"}
    PROVE  hand[p].old = None /\ hand[p].msg.rot \in Rots /\ RotInv(p, hand[p].msg.rot)
           /\ rec[p][hand[p].msg.rot] \in Record
BY DEF ManagerInv, HandIds, ManagerType, OnionInv, EndInv, BookInv

\* The overlay concerns the peer's address, not our onions.
LEMMA OverlayOnion ==
    ASSUME ManagerInv, OnionInv, NEW p \in Ends, Overlay(p)
    PROVE  OnionInv'
<1>0. PICK m : m = hand[p].msg
  OBVIOUS
<1> DEFINE r == m.rot
<1>1. OnlyGrows
  BY ReaderGrows DEF OnionInv
<1>2. Quiet(p) /\ hand[p].pc = "overlay" /\ hand[p].msg = m
  BY <1>0 DEF Overlay, Quiet, At
<1>3. r \in Rots /\ RotInv(p, r) /\ hand[p].old = None
  BY <1>2, HandFacts
<1>4. CASE Stay(p, "ship", m) /\ UNCHANGED <<rec, cleanup>>
  <2>1. SameReads(p, r) /\ hand'[p].old = None
    BY <1>2, <1>3, <1>4, StayReads
  <2>2. hand'[p].msg = m /\ \A q \in Ends \ {p} : hand'[q] = hand[q]
    BY <1>4, StayInbox
  <2>3. RotInv(p, r)'
    BY <1>1, <1>2, <1>3, <1>4, <2>1, RotUntouched DEF SameRec
  <2> QED
    BY <1>1, <1>2, <1>3, <1>4, <2>1, <2>2, <2>3, QuietKept
<1>5. CASE Fail(p, r) /\ Ack(p, m)
  BY <1>1, <1>2, <1>3, <1>5, AckFails
<1> QED
  BY <1>0, <1>4, <1>5 DEF Overlay

\* A cancel: the reader goes on to delete what was minted.
LEMMA OnCancelOnion ==
    ASSUME ManagerInv, OnionInv, NEW p \in Ends, NEW m \in inbox[p], OnCancel(p, m)
    PROVE  OnionInv'
<1> DEFINE r == m.rot
           new == [rec[p][r] EXCEPT !.state = "failed"]
<1>1. OnlyGrows
  BY EntryGrows DEF OnionInv
<1>2. Quiet(p) /\ cleanup' = cleanup /\ hand[p].pc = "idle"
  BY DEF OnCancel, book, Quiet, Takes
<1>3. /\ r \in Rots /\ RotInv(p, r) /\ hand[p].old = None /\ rec[p][r] \in Record
      /\ ~Reads(p, r, "minted") /\ ~Reads(p, r, "unmint") /\ ~Reads(p, r, "apply")
  BY <1>2, TakesIdle
<1>4. CASE rec[p][r].state \in Open
  <2>1. SetRec(p, r, new) /\ (IF rec[p][r].minted THEN Stay(p, "unmint", m) ELSE Ack(p, m))
    BY <1>4 DEF OnCancel
  <2>2. /\ new.state = "failed" /\ new.role = rec[p][r].role
        /\ new.minted = rec[p][r].minted /\ new.theirs = rec[p][r].theirs
    BY <1>3 DEF Record
  <2> HIDE DEF new
  <2>3. /\ rec'[p][r] = new /\ \A q \in Ends \ {p} : rec'[q] = rec[q]
        /\ \A s \in Rots \ {r} : rec'[p][s] = rec[p][s]
    BY <1>3, <2>1, SetAside
  <2>4. CASE Ack(p, m) /\ ~rec[p][r].minted
    <3>1. SameReads(p, r) /\ hand'[p].old = None
      BY <1>2, <1>3, <2>4, AckReads
    <3>2. hand'[p].pc = "idle" /\ \A q \in Ends \ {p} : hand'[q] = hand[q]
      BY <2>4, AckInbox DEF Idle
    <3>3. RotInv(p, r)'
      BY <1>1, <1>2, <1>3, <1>4, <2>2, <2>3, <2>4, <3>1, RotFails
    <3> QED
      BY <1>1, <1>2, <1>3, <2>3, <3>1, <3>2, <3>3, QuietKept
  <2>5. CASE Stay(p, "unmint", m) /\ rec[p][r].minted
    <3>1. /\ hand'[p].pc = "unmint" /\ hand'[p].msg = m /\ hand'[p].old = None
          /\ \A q \in Ends \ {p} : hand'[q] = hand[q]
      BY <2>5, StayInbox
    <3>2. /\ Reads(p, r, "unmint")' /\ ~Reads(p, r, "minted")' /\ ~Reads(p, r, "apply")'
          /\ Own(p)' = Own(p)
      BY <1>2, <1>3, <3>1 DEF Reads, Own, Quiet
    <3>3. r \notin Own(p)
      BY <1>3, <1>4 DEF RotInv, UseIsFinal, Open
    <3>4. OwnRotation(p, r)' /\ RoleFits(p, r)'
      BY <1>1, <1>2, <1>3, <2>2, <2>3, <3>2 DEF RotInv, OwnRotation, RoleFits, OnlyGrows, Quiet
    <3>5. UseIsFinal(p, r)' /\ DeletesFailed(p, r)'
      BY <2>2, <2>3, <3>2, <3>3 DEF UseIsFinal, DeletesFailed
    <3>6. MintServed(p, r)' /\ ServedMinted(p, r)' /\ HasOwner(p, r)'
      BY <2>2, <2>3, <3>2 DEF MintServed, ServedMinted, HasOwner, Open
    <3>7. RotInv(p, r)'
      BY <3>4, <3>5, <3>6 DEF RotInv
    <3> QED
      BY <1>1, <1>2, <1>3, <2>3, <3>1, <3>7, QuietKept
  <2> QED
    BY <2>1, <2>4, <2>5
<1>5. CASE rec[p][r].state \notin Open
  BY <1>1, <1>2, <1>3, <1>5, AckQuiet DEF OnCancel
<1> QED
  BY <1>4, <1>5

\* The step serves the onion of the rotation it is about, or takes it down; it
\* takes down none in use.
LEMMA ServedKept ==
    ASSUME ManagerInv, OnionInv, OnlyGrows, NEW p \in Ends, NEW r \in Rots,
           my' = my, prev' = prev, cooling' = cooling,
           \/ served' = [served EXCEPT ![p] = @ \cup {r}]
           \/ served' = [served EXCEPT ![p] = @ \ {r}] /\ r \notin Own(p),
           \A q \in Ends \ {p} : rec'[q] = rec[q] /\ hand'[q] = hand[q] /\ cleanup'[q] = cleanup[q],
           \A s \in Rots \ {r} :
               /\ rec'[p][s] = rec[p][s]
               /\ <<"del", s>> \in cleanup'[p] <=> <<"del", s>> \in cleanup[p],
           hand'[p] = hand[p] \/ (hand[p].pc \in {"idle", "delold"} \/ hand[p].msg.rot = r),
           \/ hand'[p] = hand[p]
           \/ hand'[p].old = None /\ (hand'[p].pc = "idle" \/ hand'[p].msg.rot = r)
              /\ hand[p].old = None,
           RotInv(p, r)'
    PROVE  OnionInv'
<1>0. /\ r \notin Ends /\ r \in Addr
      /\ \A q \in Ends \ {p} : served'[q] = served[q]
      /\ \A a \in Addr : a # r => (a \in served'[p] <=> a \in served[p])
      /\ r \in served'[p] \/ r \notin Own(p)
      /\ served' \in [Ends -> SUBSET Addr] /\ Ends \subseteq Addr /\ Rots \subseteq Addr
  BY RotationAssumption DEF OnionInv, OnionType, Addr
<1>1. ASSUME NEW q \in Ends \ {p} PROVE EndInv(q)'
  BY <1>0, <1>1, AsideKept DEF Aside, OnionInv
<1>2. Own(p)' = Own(p)
  BY DEF Own
<1>3. BookInv(p)'
  BY <1>0, <1>2 DEF BookInv, OnionInv, EndInv, OnlyGrows, OnionType, Own
<1>4. ASSUME NEW s \in Rots \ {r} PROVE RotInv(p, s)'
  <2>1. SameReads(p, s)
    BY DEF SameReads, Reads
  <2> QED
    BY <1>0, <1>2, <2>1, RotKept DEF OnionInv, EndInv, SameRec
<1> QED
  BY <1>0, <1>1, <1>3, <1>4 DEF OnionInv, EndInv, OnionType, OnlyGrows

\* The onion is minted: served before the record says so.
LEMMA OnAcceptOnion ==
    ASSUME ManagerInv, OnionInv, NEW p \in Ends, NEW m \in inbox[p], OnAccept(p, m)
    PROVE  OnionInv'
<1> DEFINE r == m.rot
<1>1. OnlyGrows
  BY EntryGrows DEF OnionInv
<1>2. my' = my /\ prev' = prev /\ cooling' = cooling /\ hand[p].pc = "idle"
  BY DEF OnAccept, book, Takes
<1>3. /\ r \in Rots /\ RotInv(p, r) /\ hand[p].old = None /\ rec[p][r] \in Record
      /\ ~Reads(p, r, "minted") /\ ~Reads(p, r, "unmint") /\ ~Reads(p, r, "apply")
  BY <1>2, TakesIdle
<1>4. CASE /\ rec[p][r].role = "initiator" /\ rec[p][r].state = "proposed"
           /\ served' = [served EXCEPT ![p] = @ \cup {r}]
           /\ Stay(p, "minted", m) /\ UNCHANGED <<rec, cleanup>>
  <2>1. /\ hand'[p].pc = "minted" /\ hand'[p].msg = m /\ hand'[p].old = None
        /\ \A q \in Ends \ {p} : hand'[q] = hand[q]
    BY <1>4, StayInbox
  <2>2. /\ Reads(p, r, "minted")' /\ ~Reads(p, r, "unmint")' /\ ~Reads(p, r, "apply")'
        /\ Own(p)' = Own(p)
    BY <1>2, <1>3, <2>1 DEF Reads, Own
  <2>3. r \notin Own(p)
    BY <1>3, <1>4 DEF RotInv, UseIsFinal
  <2>4. r \in served'[p]
    BY <1>4 DEF OnionInv, OnionType
  <2>5. OwnRotation(p, r)' /\ RoleFits(p, r)'
    BY <1>1, <1>3, <1>4 DEF RotInv, OwnRotation, RoleFits, OnlyGrows
  <2>6. UseIsFinal(p, r)' /\ DeletesFailed(p, r)'
    BY <1>3, <1>4, <2>2, <2>3 DEF UseIsFinal, DeletesFailed, RotInv
  <2>7. MintServed(p, r)' /\ ServedMinted(p, r)' /\ HasOwner(p, r)'
    BY <2>2, <2>4 DEF MintServed, ServedMinted, HasOwner
  <2>8. RotInv(p, r)'
    BY <2>5, <2>6, <2>7 DEF RotInv
  <2> QED
    BY <1>1, <1>2, <1>3, <1>4, <2>1, <2>8, ServedKept
<1>5. CASE Fail(p, r) /\ Ack(p, m) /\ UNCHANGED served
  BY <1>1, <1>2, <1>3, <1>5, AckFails DEF Quiet
<1>6. CASE Ack(p, m) /\ UNCHANGED <<rec, cleanup, served>>
  BY <1>1, <1>2, <1>3, <1>6, AckQuiet DEF Quiet
<1> QED
  BY <1>4, <1>5, <1>6 DEF OnAccept

\* The second look: the onion is noted in the record, or is to be deleted.
LEMMA AfterMintOnion ==
    ASSUME ManagerInv, OnionInv, NEW p \in Ends, AfterMint(p)
    PROVE  OnionInv'
<1>0. PICK m : m = hand[p].msg
  OBVIOUS
<1> DEFINE r == m.rot
           new == [rec[p][r] EXCEPT !.minted = TRUE, !.state = "address_exchanged"]
           lost == [new EXCEPT !.state = "failed"]
<1>1. OnlyGrows
  BY ReaderGrows DEF OnionInv
<1>2. Quiet(p) /\ hand[p].pc = "minted" /\ hand[p].msg = m
  BY <1>0 DEF AfterMint, book, Quiet, At
<1>3. r \in Rots /\ RotInv(p, r) /\ hand[p].old = None /\ rec[p][r] \in Record
  BY <1>2, HandFacts
<1>4. Reads(p, r, "minted") /\ ~Reads(p, r, "apply") /\ ~Reads(p, r, "unmint")
      /\ rec[p][r].role = "initiator" /\ rec[p][r].state \in {"proposed", "failed"}
      /\ r \notin Own(p)
  BY <1>2, <1>3 DEF Reads, RotInv, DeletesFailed, UseIsFinal
<1>5. /\ new \in Record /\ new.state = "address_exchanged" /\ new.role = rec[p][r].role
      /\ new.minted /\ new.theirs = rec[p][r].theirs
  BY <1>3 DEF Record, Open
<1>6. ~rec[p][r].theirs
  BY <1>3, <1>4 DEF RotInv, RoleFits
<1>7. CASE /\ rec[p][r].state = "proposed" /\ SetRec(p, r, new)
           /\ Stay(p, "ship", m) /\ UNCHANGED cleanup
  <2> HIDE DEF new
  <2>1. /\ rec'[p][r] = new /\ \A q \in Ends \ {p} : rec'[q] = rec[q]
        /\ \A s \in Rots \ {r} : rec'[p][s] = rec[p][s]
    BY <1>3, <1>7, SetAside
  <2>2. /\ hand'[p].pc = "ship" /\ hand'[p].msg = m /\ hand'[p].old = None
        /\ \A q \in Ends \ {p} : hand'[q] = hand[q]
    BY <1>7, StayInbox
  <2>3. /\ ~Reads(p, r, "minted")' /\ ~Reads(p, r, "unmint")' /\ ~Reads(p, r, "apply")'
        /\ Own(p)' = Own(p)
    BY <1>2, <1>3, <2>2 DEF Reads, Own, Quiet
  <2>4. OwnRotation(p, r)' /\ RoleFits(p, r)'
    BY <1>1, <1>3, <1>4, <1>5, <1>6, <2>1 DEF RotInv, OwnRotation, RoleFits, OnlyGrows
  <2>5. UseIsFinal(p, r)' /\ DeletesFailed(p, r)'
    BY <1>3, <1>4, <1>7, <2>3 DEF UseIsFinal, DeletesFailed, RotInv
  <2>6. MintServed(p, r)' /\ ServedMinted(p, r)' /\ HasOwner(p, r)'
    BY <1>1, <1>2, <1>3, <1>4, <1>5, <1>7, <2>1, <2>3
       DEF MintServed, ServedMinted, HasOwner, RotInv, OnlyGrows, Quiet, Open
  <2>7. RotInv(p, r)'
    BY <2>4, <2>5, <2>6 DEF RotInv
  <2> QED
    BY <1>1, <1>2, <1>3, <1>7, <2>1, <2>2, <2>7, QuietKept
<1>8. CASE /\ rec[p][r].state = "proposed" /\ SetRec(p, r, lost)
           /\ cleanup' = [cleanup EXCEPT ![p] = @ \cup {<<"del", r>>, <<"cancel", r>>}]
           /\ Ack(p, m)
  <2> HIDE DEF new
  <2>0. lost.state = "failed" /\ lost.role = new.role /\ lost.minted = new.minted
        /\ lost.theirs = new.theirs
    BY <1>5 DEF Record
  <2> HIDE DEF lost
  <2>1. /\ rec'[p][r] = lost /\ \A q \in Ends \ {p} : rec'[q] = rec[q]
        /\ \A s \in Rots \ {r} : rec'[p][s] = rec[p][s]
    BY <1>3, <1>8, SetAside
  <2>2. hand'[p] = Idle /\ \A q \in Ends \ {p} : hand'[q] = hand[q]
    BY <1>8, AckInbox
  <2>3. /\ ~Reads(p, r, "minted")' /\ ~Reads(p, r, "unmint")' /\ ~Reads(p, r, "apply")'
        /\ Own(p)' = Own(p) /\ hand'[p].pc = "idle" /\ hand'[p].old = None
    BY <1>2, <1>3, <2>2 DEF Reads, Own, Quiet, Idle
  <2>4. /\ \A q \in Ends \ {p} : cleanup'[q] = cleanup[q]
        /\ cleanup'[p] = cleanup[p] \cup {<<"del", r>>, <<"cancel", r>>}
    BY <1>8 DEF ManagerInv, ManagerType
  <2>5. OwnRotation(p, r)' /\ RoleFits(p, r)'
    BY <1>1, <1>3, <1>4, <1>5, <1>6, <2>0, <2>1 DEF RotInv, OwnRotation, RoleFits, OnlyGrows
  <2>6. UseIsFinal(p, r)' /\ DeletesFailed(p, r)'
    BY <1>4, <2>0, <2>1, <2>3 DEF UseIsFinal, DeletesFailed
  <2>7. MintServed(p, r)' /\ ServedMinted(p, r)' /\ HasOwner(p, r)'
    BY <2>0, <2>1, <2>3, <2>4 DEF MintServed, ServedMinted, HasOwner, Open
  <2>8. RotInv(p, r)'
    BY <2>5, <2>6, <2>7 DEF RotInv
  <2>9. \A s \in Rots \ {r} : <<"del", s>> \in cleanup'[p] <=> <<"del", s>> \in cleanup[p]
    BY <2>4
  <2> QED
    BY <1>1, <1>2, <1>3, <2>1, <2>2, <2>3, <2>4, <2>8, <2>9, QuietKept
<1>9. CASE rec[p][r].state # "proposed" /\ Stay(p, "unmint", m) /\ UNCHANGED <<rec, cleanup>>
  <2>1. /\ hand'[p].pc = "unmint" /\ hand'[p].msg = m /\ hand'[p].old = None
        /\ \A q \in Ends \ {p} : hand'[q] = hand[q]
    BY <1>9, StayInbox
  <2>2. /\ ~Reads(p, r, "minted")' /\ Reads(p, r, "unmint")' /\ ~Reads(p, r, "apply")'
        /\ Own(p)' = Own(p) /\ rec[p][r].state = "failed"
    BY <1>2, <1>3, <1>4, <1>9, <2>1 DEF Reads, Own, Quiet
  <2>3. OwnRotation(p, r)' /\ RoleFits(p, r)'
    BY <1>1, <1>3, <1>4, <1>9 DEF RotInv, OwnRotation, RoleFits, OnlyGrows
  <2>4. UseIsFinal(p, r)' /\ DeletesFailed(p, r)'
    BY <1>4, <1>9, <2>2 DEF UseIsFinal, DeletesFailed
  <2>5. MintServed(p, r)' /\ ServedMinted(p, r)' /\ HasOwner(p, r)'
    BY <1>9, <2>2 DEF MintServed, ServedMinted, HasOwner, Open
  <2>6. RotInv(p, r)'
    BY <2>3, <2>4, <2>5 DEF RotInv
  <2> QED
    BY <1>1, <1>2, <1>3, <1>9, <2>1, <2>6, QuietKept
<1> QED
  BY <1>0, <1>7, <1>8, <1>9 DEF AfterMint, UnwindMint

\* shipConfirm sets our flag only.
LEMMA ShipOnion ==
    ASSUME ManagerInv, OnionInv, NEW p \in Ends, ShipConfirm(p)
    PROVE  OnionInv'
<1>0. PICK m : m = hand[p].msg
  OBVIOUS
<1> DEFINE r == m.rot
           flagged == [rec[p][r] EXCEPT !.iConfirmed = TRUE]
<1>1. OnlyGrows
  BY ReaderGrows DEF OnionInv
<1>2. Quiet(p) /\ hand[p].pc = "ship" /\ hand[p].msg = m
  BY <1>0 DEF ShipConfirm, book, Quiet, At
<1>3. r \in Rots /\ RotInv(p, r) /\ hand[p].old = None /\ rec[p][r] \in Record
  BY <1>2, HandFacts
<1>4. /\ flagged.state = rec[p][r].state /\ flagged.role = rec[p][r].role
      /\ flagged.minted = rec[p][r].minted /\ flagged.theirs = rec[p][r].theirs
      /\ ~flagged.peerConfirmed
  BY <1>2, <1>3 DEF Record, ManagerInv, ShipsFirst
<1>5. CASE Confirms(p, r, flagged) /\ Ack(p, m) /\ UNCHANGED cleanup
  <2> HIDE DEF flagged
  <2>1. SetRec(p, r, flagged)
    BY <1>4, <1>5 DEF Confirms
  <2>2. /\ rec'[p][r] = flagged /\ \A q \in Ends \ {p} : rec'[q] = rec[q]
        /\ \A s \in Rots \ {r} : rec'[p][s] = rec[p][s]
    BY <1>3, <2>1, SetAside
  <2>3. SameReads(p, r) /\ hand'[p].old = None
    BY <1>2, <1>3, <1>5, AckReads
  <2>4. hand'[p].pc = "idle" /\ \A q \in Ends \ {p} : hand'[q] = hand[q]
    BY <1>5, AckInbox DEF Idle
  <2>5. RotInv(p, r)'
    BY <1>1, <1>2, <1>3, <1>4, <1>5, <2>2, <2>3, RotUntouched DEF SameRec
  <2> QED
    BY <1>1, <1>2, <1>3, <1>5, <2>2, <2>3, <2>4, <2>5, QuietKept
<1>6. CASE Fail(p, r) /\ Ack(p, m)
  BY <1>1, <1>2, <1>3, <1>6, AckFails
<1> QED
  BY <1>0, <1>4, <1>5, <1>6 DEF ShipConfirm

\* The peer's confirm: with ours it ends the rotation, and the reader goes on to
\* take the onion into use.
LEMMA OnConfirmOnion ==
    ASSUME ManagerInv, OnionInv, NEW p \in Ends, NEW m \in inbox[p], OnConfirm(p, m)
    PROVE  OnionInv'
<1> DEFINE r == m.rot
           flagged == [rec[p][r] EXCEPT !.peerConfirmed = TRUE]
           done == [flagged EXCEPT !.state = "confirmed"]
<1>1. OnlyGrows
  BY EntryGrows DEF OnionInv
<1>2. Quiet(p) /\ cleanup' = cleanup /\ hand[p].pc = "idle"
  BY DEF OnConfirm, book, Quiet, Takes
<1>3. /\ r \in Rots /\ RotInv(p, r) /\ hand[p].old = None /\ rec[p][r] \in Record
      /\ ~Reads(p, r, "minted") /\ ~Reads(p, r, "unmint") /\ ~Reads(p, r, "apply")
  BY <1>2, TakesIdle
<1>4. /\ flagged \in Record /\ flagged.state = rec[p][r].state /\ flagged.role = rec[p][r].role
      /\ flagged.minted = rec[p][r].minted /\ flagged.theirs = rec[p][r].theirs
      /\ flagged.peerConfirmed
  BY <1>3 DEF Record
<1> HIDE DEF flagged
<1>5. /\ done.state = "confirmed" /\ done.role = rec[p][r].role
      /\ done.minted = rec[p][r].minted /\ done.theirs = rec[p][r].theirs
  BY <1>4 DEF Record
<1> HIDE DEF done
<1>6. CASE rec[p][r].state = "address_exchanged" /\ SetRec(p, r, done) /\ Stay(p, "apply", m)
  <2>1. /\ rec'[p][r] = done /\ \A q \in Ends \ {p} : rec'[q] = rec[q]
        /\ \A s \in Rots \ {r} : rec'[p][s] = rec[p][s]
    BY <1>3, <1>6, SetAside
  <2>2. /\ hand'[p].pc = "apply" /\ hand'[p].msg = m /\ hand'[p].old = None
        /\ \A q \in Ends \ {p} : hand'[q] = hand[q]
    BY <1>6, StayInbox
  <2>3. /\ ~Reads(p, r, "minted")' /\ ~Reads(p, r, "unmint")' /\ Reads(p, r, "apply")'
        /\ Own(p)' = Own(p)
    BY <1>2, <1>3, <2>2 DEF Reads, Own, Quiet
  <2>4. r \notin Own(p) /\ <<"del", r>> \notin cleanup[p] /\ rec[p][r].state \in Open
    BY <1>3, <1>6 DEF RotInv, UseIsFinal, DeletesFailed, Open
  <2>5. OwnRotation(p, r)' /\ RoleFits(p, r)'
    BY <1>1, <1>2, <1>3, <1>5, <2>1, <2>3 DEF RotInv, OwnRotation, RoleFits, OnlyGrows, Quiet
  <2>6. UseIsFinal(p, r)' /\ DeletesFailed(p, r)'
    BY <1>2, <1>5, <2>1, <2>3, <2>4 DEF UseIsFinal, DeletesFailed
  <2>7. MintServed(p, r)' /\ ServedMinted(p, r)' /\ HasOwner(p, r)'
    BY <1>1, <1>2, <1>3, <1>5, <2>1, <2>3, <2>4
       DEF MintServed, ServedMinted, HasOwner, RotInv, OnlyGrows, Quiet
  <2>8. RotInv(p, r)'
    BY <2>5, <2>6, <2>7 DEF RotInv
  <2> QED
    BY <1>1, <1>2, <1>3, <2>1, <2>2, <2>8, QuietKept
<1>7. CASE SetRec(p, r, flagged) /\ Ack(p, m)
  <2>1. /\ rec'[p][r] = flagged /\ \A q \in Ends \ {p} : rec'[q] = rec[q]
        /\ \A s \in Rots \ {r} : rec'[p][s] = rec[p][s]
    BY <1>3, <1>7, SetAside
  <2>2. SameReads(p, r) /\ hand'[p].old = None
    BY <1>2, <1>3, <1>7, AckReads
  <2>3. hand'[p].pc = "idle" /\ \A q \in Ends \ {p} : hand'[q] = hand[q]
    BY <1>7, AckInbox DEF Idle
  <2>4. RotInv(p, r)'
    BY <1>1, <1>2, <1>3, <1>4, <2>1, <2>2, RotUntouched DEF SameRec
  <2> QED
    BY <1>1, <1>2, <1>3, <2>1, <2>2, <2>3, <2>4, QuietKept
<1>8. CASE Ack(p, m) /\ rec' = rec
  BY <1>1, <1>2, <1>3, <1>8, AckQuiet
<1>9. CASE rec[p][r].state = "address_exchanged" /\ Confirms(p, r, flagged)
           /\ (IF flagged.iConfirmed THEN Stay(p, "apply", m) ELSE Ack(p, m))
  BY <1>4, <1>6, <1>7, <1>9 DEF Confirms, done
<1> QED
  BY <1>8, <1>9 DEF OnConfirm, MayConfirm, flagged

\* The clean-up of a failed rotation deletes no onion in use.
LEMMA CleanOnion ==
    ASSUME ManagerInv, OnionInv, NEW p \in Ends, NEW r \in Rots,
           CleanDel(p, r) \/ CleanCancel(p, r)
    PROVE  OnionInv'
<1>1. OnlyGrows
  BY ClientGrows DEF OnionInv
<1>2. /\ rec' = rec /\ hand' = hand /\ my' = my /\ prev' = prev /\ cooling' = cooling
      /\ RotInv(p, r)
  BY DEF CleanDel, CleanCancel, book, wire, OnionInv, EndInv
<1>3. /\ \A q \in Ends \ {p} : cleanup'[q] = cleanup[q]
      /\ \A s \in Rots \ {r} : <<"del", s>> \in cleanup'[p] <=> <<"del", s>> \in cleanup[p]
      /\ <<"del", r>> \in cleanup'[p] => <<"del", r>> \in cleanup[p]
  BY DEF CleanDel, CleanCancel, ManagerInv, ManagerType
<1>4. SameReads(p, r) /\ SameRec(p, r) /\ Own(p)' = Own(p)
  BY <1>2, IdleReads DEF SameRec, Own
<1>5. CASE served' = served /\ (CleanDel(p, r) => ~Untroubled')
  <2>1. Untroubled' => (<<"del", r>> \in cleanup[p] => <<"del", r>> \in cleanup'[p])
    BY <1>5 DEF CleanCancel, ManagerInv, ManagerType
  <2>2. RotInv(p, r)'
    BY <1>1, <1>2, <1>3, <1>4, <1>5, <2>1, RotKept
  <2> QED
    BY <1>1, <1>2, <1>3, <1>5, <2>2, QuietKept DEF Quiet
<1>6. CASE CleanDel(p, r) /\ served' = [served EXCEPT ![p] = @ \ {r}]
  <2>1. rec[p][r].state = "failed"
    BY <1>2, <1>6 DEF CleanDel, RotInv, DeletesFailed
  <2>2. r \notin Own(p)
    BY <1>2, <2>1 DEF RotInv, UseIsFinal
  <2>3. r \notin served'[p]
    BY <1>6 DEF OnionInv, OnionType
  <2>4. RotInv(p, r)'
    BY <1>1, <1>2, <1>3, <1>4, <2>1, <2>3, RotKept
  <2> QED
    BY <1>1, <1>2, <1>3, <1>6, <2>2, <2>4, ServedKept
<1>7. CleanCancel(p, r) => served' = served
  BY DEF CleanCancel
<1>8. CleanDel(p, r) /\ Fault => ~Untroubled'
  BY DEF Fault, Untroubled, OnionInv, OnionType
<1> QED
  BY <1>5, <1>6, <1>7, <1>8 DEF CleanDel

\* The reader deletes the onion of a rotation that failed while it was minted.
LEMMA UnmintOnion ==
    ASSUME ManagerInv, OnionInv, NEW p \in Ends, Unmint(p)
    PROVE  OnionInv'
<1>0. PICK m : m = hand[p].msg
  OBVIOUS
<1> DEFINE r == m.rot
<1>1. OnlyGrows
  BY ReaderGrows DEF OnionInv
<1>2. /\ rec' = rec /\ cleanup' = cleanup /\ my' = my /\ prev' = prev /\ cooling' = cooling
      /\ hand[p].pc = "unmint" /\ hand[p].msg = m /\ Ack(p, m)
  BY <1>0 DEF Unmint, manager, book, At
<1>3. r \in Rots /\ RotInv(p, r) /\ hand[p].old = None
  BY <1>2, HandFacts
<1>4. Reads(p, r, "unmint") /\ ~Reads(p, r, "minted") /\ ~Reads(p, r, "apply")
      /\ rec[p][r].state = "failed" /\ r \notin Own(p)
  BY <1>2, <1>3 DEF Reads, RotInv, DeletesFailed, UseIsFinal
<1>5. /\ hand'[p].pc = "idle" /\ hand'[p].old = None
      /\ \A q \in Ends \ {p} : hand'[q] = hand[q]
  BY <1>2, AckInbox DEF Idle
<1>6. /\ ~Reads(p, r, "minted")' /\ ~Reads(p, r, "unmint")' /\ ~Reads(p, r, "apply")'
      /\ Own(p)' = Own(p)
  BY <1>2, <1>3, <1>5 DEF Reads, Own
<1>7. \/ served' = [served EXCEPT ![p] = @ \ {r}]
      \/ served' = served /\ ~Untroubled'
  BY <1>0 DEF Unmint, Fault, Untroubled, OnionInv, OnionType
<1>8. (r \in served'[p] => r \in served[p]) /\ (r \notin served'[p] \/ ~Untroubled')
  BY <1>7 DEF OnionInv, OnionType
<1>9. OwnRotation(p, r)' /\ RoleFits(p, r)'
  BY <1>1, <1>2, <1>3, <1>6, <1>8 DEF RotInv, OwnRotation, RoleFits, OnlyGrows
<1>10. UseIsFinal(p, r)' /\ DeletesFailed(p, r)'
  BY <1>2, <1>4, <1>6 DEF UseIsFinal, DeletesFailed
<1>11. MintServed(p, r)' /\ ServedMinted(p, r)' /\ HasOwner(p, r)'
  BY <1>2, <1>4, <1>6, <1>8 DEF MintServed, ServedMinted, HasOwner, Open
<1>12. RotInv(p, r)'
  BY <1>9, <1>10, <1>11 DEF RotInv
<1>13. CASE served' = [served EXCEPT ![p] = @ \ {r}]
  BY <1>1, <1>2, <1>3, <1>4, <1>5, <1>12, <1>13, ServedKept
<1>14. CASE served' = served
  BY <1>1, <1>2, <1>3, <1>5, <1>12, <1>14, QuietKept DEF Quiet
<1> QED
  BY <1>7, <1>13, <1>14

\* One end steps and only it.
LEMMA EndSteps ==
    ASSUME OnionInv, OnlyGrows, NEW p \in Ends, EndInv(p)',
           \A q \in Ends \ {p} : Aside(q),
           my' \in [Ends -> Addr], prev' \in [Ends -> Addr \cup {None}],
           cooling' \in [Ends -> BOOLEAN], served' \in [Ends -> SUBSET Addr]
    PROVE  OnionInv'
<1>1. \A q \in Ends \ {p} : EndInv(q)'
  BY AsideKept DEF OnionInv
<1> QED
  BY <1>1 DEF OnionInv, OnionType, OnlyGrows

\* The onion minted becomes the own one, the own one the one before, and that one
\* is to be deleted.
LEMMA ApplyOwnOnion ==
    ASSUME ManagerInv, OnionInv, NEW p \in Ends, ApplyOwn(p)
    PROVE  OnionInv'
<1>0. PICK m : m = hand[p].msg
  OBVIOUS
<1> DEFINE r == m.rot
<1>1. OnlyGrows
  BY ReaderGrows DEF OnionInv
<1>2. /\ rec' = rec /\ cleanup' = cleanup /\ served' = served
      /\ hand[p].pc = "apply" /\ hand[p].msg = m /\ rec[p][r].minted
  BY <1>0 DEF ApplyOwn, manager, At
<1>3. r \in Rots /\ RotInv(p, r) /\ hand[p].old = None /\ EndInv(p)
  BY <1>2, HandFacts DEF OnionInv
<1>4. Reads(p, r, "apply") /\ ~Reads(p, r, "minted") /\ ~Reads(p, r, "unmint")
      /\ rec[p][r].state = "confirmed" /\ r \notin Own(p)
      /\ (reconnects = 0 => r \in served[p])
  BY <1>2, <1>3 DEF Reads, RotInv, DeletesFailed, UseIsFinal, MintServed
<1>5. \A q \in Ends \ {p} : hand'[q] = hand[q]
  BY <1>0, AckInbox DEF ApplyOwn, ManagerInv, ManagerType
<1>6. None \notin Rots /\ r \in Addr /\ None \notin Addr /\ p \in Addr
  BY <1>3, RotationAssumption DEF Addr
<1>7. CASE /\ RotateOwnOnion(p, r)
           /\ \/ /\ prev[p] \notin {None, r}
                 /\ hand' = [hand EXCEPT ![p] = [pc |-> "delold", msg |-> m, old |-> prev[p]]]
              \/ prev[p] \in {None, r} /\ Ack(p, m)
  <2>1. /\ my'[p] = r /\ prev'[p] = my[p] /\ cooling'[p]
        /\ \A q \in Ends \ {p} : my'[q] = my[q] /\ prev'[q] = prev[q] /\ cooling'[q] = cooling[q]
        /\ my' \in [Ends -> Addr] /\ prev' \in [Ends -> Addr \cup {None}]
        /\ cooling' \in [Ends -> BOOLEAN]
    BY <1>6, <1>7 DEF RotateOwnOnion, OnionInv, OnionType
  <2>2. \/ prev[p] # None /\ hand'[p].pc = "delold" /\ hand'[p].msg = m /\ hand'[p].old = prev[p]
        \/ prev[p] = None /\ hand'[p].pc = "idle" /\ hand'[p].old = None
    <3>1. prev[p] # r
      BY <1>4 DEF Own
    <3> QED
      BY <1>7, <3>1, AckInbox DEF ManagerInv, ManagerType, Idle
  <2>3. \A s \in Rots : /\ s \in Own(p)' <=> s = r \/ s \in Own(p)
                        /\ ~Reads(p, s, "minted")' /\ ~Reads(p, s, "unmint")'
                        /\ ~Reads(p, s, "apply")'
    BY <1>3, <1>6, <2>1, <2>2 DEF Own, Reads
  <2>4. BookInv(p)'
    <3>1. my'[p] # prev'[p]
      BY <1>4, <2>1 DEF Own
    <3>2. hand'[p].old # None
              => hand'[p].pc = "delold" /\ hand'[p].old \notin {my'[p], prev'[p]}
      BY <1>3, <1>4, <2>1, <2>2 DEF Own, EndInv, BookInv
    <3>3. cooling'[p] => prev'[p] # None
      BY <1>6, <2>1 DEF OnionInv, OnionType
    <3>4. reconnects' = 0 => my'[p] \in served'[p] /\ (prev'[p] # None => prev'[p] \in served'[p])
      BY <1>1, <1>2, <1>3, <1>4, <2>1 DEF EndInv, BookInv, OnlyGrows
    <3>5. ASSUME Untroubled', NEW a \in Ends, a \in served'[p] PROVE a \in Own(p)'
      <4>1. a \in Own(p) /\ a # None
        BY <1>1, <1>2, <1>3, <3>5, RotationAssumption DEF EndInv, BookInv, OnlyGrows
      <4> QED
        BY <1>3, <2>1, <2>2, <4>1 DEF Own
    <3> QED
      BY <3>1, <3>2, <3>3, <3>4, <3>5 DEF BookInv
  <2>5. ASSUME NEW s \in Rots, s # r PROVE RotInv(p, s)'
    <3>1. SameReads(p, s)
      BY <1>2, <2>3, <2>5 DEF SameReads, Reads
    <3> QED
      BY <1>1, <1>2, <1>3, <2>3, <2>5, <3>1, RotKept DEF EndInv, SameRec
  <2>6. RotInv(p, r)'
    <3>1. OwnRotation(p, r)' /\ RoleFits(p, r)'
      BY <1>1, <1>2, <1>3, <2>3 DEF RotInv, OwnRotation, RoleFits, OnlyGrows
    <3>2. UseIsFinal(p, r)' /\ DeletesFailed(p, r)'
      BY <1>2, <1>3, <1>4, <2>3 DEF UseIsFinal, DeletesFailed, RotInv
    <3>3. MintServed(p, r)' /\ ServedMinted(p, r)' /\ HasOwner(p, r)'
      BY <1>2, <1>3, <1>4, <2>3 DEF MintServed, ServedMinted, HasOwner, Open
    <3> QED
      BY <3>1, <3>2, <3>3 DEF RotInv
  <2>7. EndInv(p)'
    BY <2>4, <2>5, <2>6 DEF EndInv
  <2>8. \A q \in Ends \ {p} : Aside(q)
    BY <1>2, <1>5, <2>1 DEF Aside
  <2> QED
    BY <1>1, <1>2, <2>1, <2>7, <2>8, EndSteps DEF OnionInv, OnionType
<1>8. CASE Fault /\ Ack(p, m) /\ UNCHANGED <<my, prev, cooling>>
  <2>1. hand'[p].pc = "idle" /\ hand'[p].old = None /\ ~Untroubled'
    BY <1>8, AckInbox DEF Idle, Fault, Untroubled, OnionInv, OnionType
  <2>2. /\ ~Reads(p, r, "minted")' /\ ~Reads(p, r, "unmint")' /\ ~Reads(p, r, "apply")'
        /\ Own(p)' = Own(p)
    BY <1>3, <1>8, <2>1 DEF Reads, Own
  <2>3. OwnRotation(p, r)' /\ RoleFits(p, r)'
    BY <1>1, <1>2, <1>3, <2>2 DEF RotInv, OwnRotation, RoleFits, OnlyGrows
  <2>4. UseIsFinal(p, r)' /\ DeletesFailed(p, r)'
    BY <1>2, <1>3, <1>4, <2>2 DEF UseIsFinal, DeletesFailed, RotInv
  <2>5. MintServed(p, r)' /\ ServedMinted(p, r)' /\ HasOwner(p, r)'
    BY <1>2, <1>4, <2>1, <2>2 DEF MintServed, ServedMinted, HasOwner, Open
  <2>6. RotInv(p, r)'
    BY <2>3, <2>4, <2>5 DEF RotInv
  <2> QED
    BY <1>1, <1>2, <1>3, <1>5, <1>8, <2>1, <2>6, QuietKept DEF Quiet
<1> QED
  BY <1>0, <1>7, <1>8 DEF ApplyOwn, Evicted

\* The end that was told an address minted nothing.
LEMMA ApplyTheirsOnion ==
    ASSUME ManagerInv, OnionInv, NEW p \in Ends, ApplyTheirs(p)
    PROVE  OnionInv'
<1>0. PICK m : m = hand[p].msg
  OBVIOUS
<1> DEFINE r == m.rot
<1>1. OnlyGrows
  BY ReaderGrows DEF OnionInv
<1>2. /\ rec' = rec /\ cleanup' = cleanup /\ Quiet(p)
      /\ hand[p].pc = "apply" /\ hand[p].msg = m /\ rec[p][r].theirs /\ Ack(p, m)
  BY <1>0 DEF ApplyTheirs, manager, At, Quiet
<1>3. r \in Rots /\ RotInv(p, r) /\ hand[p].old = None
  BY <1>2, HandFacts
<1>4. Reads(p, r, "apply") /\ ~Reads(p, r, "minted") /\ ~Reads(p, r, "unmint")
      /\ rec[p][r].state = "confirmed" /\ r \notin Own(p) /\ r \notin served[p]
  BY <1>2, <1>3 DEF Reads, RotInv, DeletesFailed, UseIsFinal, ServedMinted, RoleFits
<1>5. /\ hand'[p].pc = "idle" /\ hand'[p].old = None
      /\ \A q \in Ends \ {p} : hand'[q] = hand[q]
  BY <1>2, AckInbox DEF Idle
<1>6. /\ ~Reads(p, r, "minted")' /\ ~Reads(p, r, "unmint")' /\ ~Reads(p, r, "apply")'
      /\ Own(p)' = Own(p) /\ r \notin served'[p]
  BY <1>2, <1>3, <1>4, <1>5 DEF Reads, Own, Quiet
<1>7. OwnRotation(p, r)' /\ RoleFits(p, r)'
  BY <1>1, <1>2, <1>3, <1>4, <1>6 DEF RotInv, OwnRotation, RoleFits, OnlyGrows
<1>8. UseIsFinal(p, r)' /\ DeletesFailed(p, r)'
  BY <1>2, <1>3, <1>4, <1>6 DEF UseIsFinal, DeletesFailed, RotInv
<1>9. MintServed(p, r)' /\ ServedMinted(p, r)' /\ HasOwner(p, r)'
  BY <1>2, <1>4, <1>6 DEF MintServed, ServedMinted, HasOwner, Open
<1>10. RotInv(p, r)'
  BY <1>7, <1>8, <1>9 DEF RotInv
<1> QED
  BY <1>1, <1>2, <1>3, <1>5, <1>10, QuietKept

\* What leaves the book or the hand of the reader, and Tor with it.
LEMMA DropsOne ==
    ASSUME ManagerInv, OnionInv, OnlyGrows, NEW p \in Ends, NEW a,
           rec' = rec, cleanup' = cleanup,
           \A q \in Ends \ {p} : Aside(q),
           my' = my, cooling' \in [Ends -> BOOLEAN],
           prev' \in [Ends -> Addr \cup {None}], served' \in [Ends -> SUBSET Addr],
           \A s \in Rots : SameReads(p, s),
           BookInv(p)', Own(p)' \subseteq Own(p) \cup {None},
           \A x \in Own(p) : x = a \/ x \in Own(p)',
           a \in Own(p), served'[p] \subseteq served[p],
           \A x \in served[p] : x = a \/ x \in served'[p],
           Untroubled' => a \notin served'[p]
    PROVE  OnionInv'
<1>0. None \notin Rots
  BY RotationAssumption
<1>1. ASSUME NEW s \in Rots PROVE RotInv(p, s)'
  BY <1>0, RotKept DEF OnionInv, EndInv, SameRec
<1> QED
  BY <1>1, EndSteps DEF EndInv, OnionInv, OnionType

\* The onion evicted by a rotation is none the book still names.
LEMMA DelOldOnion ==
    ASSUME ManagerInv, OnionInv, NEW p \in Ends, DelOld(p)
    PROVE  OnionInv'
<1>0. PICK a : a = hand[p].old
  OBVIOUS
<1>1. OnlyGrows
  BY ReaderGrows DEF OnionInv
<1>2. /\ rec' = rec /\ cleanup' = cleanup /\ my' = my /\ prev' = prev /\ cooling' = cooling
      /\ hand[p].pc = "delold" /\ Ack(p, hand[p].msg)
  BY DEF DelOld, manager, book, At
<1>3. /\ hand'[p].pc = "idle" /\ hand'[p].old = None
      /\ \A q \in Ends \ {p} : hand'[q] = hand[q]
  BY <1>2, AckInbox DEF Idle
<1>4. \/ served' = [served EXCEPT ![p] = @ \ {a}]
      \/ served' = served /\ ~Untroubled'
  BY <1>0 DEF DelOld, Fault, Untroubled, OnionInv, OnionType
<1>5. /\ served' \in [Ends -> SUBSET Addr] /\ \A q \in Ends \ {p} : served'[q] = served[q]
      /\ served'[p] \subseteq served[p] /\ \A x \in served[p] : x = a \/ x \in served'[p]
      /\ Untroubled' => a \notin served'[p]
  BY <1>4 DEF OnionInv, OnionType
<1>6. EndInv(p) /\ my[p] \in Addr /\ None \notin Addr
  BY RotationAssumption DEF OnionInv, OnionType, Addr
<1>7. Own(p)' \subseteq Own(p) \cup {None} /\ \A x \in Own(p) : x = a \/ x \in Own(p)'
  BY <1>0, <1>2, <1>3 DEF Own
<1>8. BookInv(p)'
  <2>1. reconnects' = 0 => my'[p] \in served'[p] /\ (prev'[p] # None => prev'[p] \in served'[p])
    BY <1>0, <1>1, <1>2, <1>5, <1>6 DEF EndInv, BookInv, OnlyGrows
  <2>2. Untroubled' => \A x \in Ends : x \in served'[p] => x \in Own(p)'
    BY <1>1, <1>5, <1>6, <1>7 DEF EndInv, BookInv, OnlyGrows
  <2> QED
    BY <1>2, <1>3, <1>6, <2>1, <2>2 DEF EndInv, BookInv
<1>9. \A s \in Rots : SameReads(p, s)
  BY <1>2, <1>3 DEF SameReads, Reads
<1>10. \A q \in Ends \ {p} : Aside(q)
  BY <1>2, <1>3, <1>5 DEF Aside
<1>11. a \in Own(p)
  BY <1>0 DEF Own
<1> QED
  BY <1>1, <1>2, <1>5, <1>7, <1>8, <1>9, <1>10, <1>11, DropsOne DEF OnionInv, OnionType

\* The previous onion goes once its grace time is over.
LEMMA SweepOwnOnion ==
    ASSUME ManagerInv, OnionInv, NEW p \in Ends, SweepOwn(p)
    PROVE  OnionInv'
<1>0. PICK a : a = prev[p]
  OBVIOUS
<1>1. OnlyGrows
  BY OtherGrows DEF OnionInv
<1>2. /\ rec' = rec /\ cleanup' = cleanup /\ my' = my /\ hand' = hand /\ cooling' = cooling
      /\ ~cooling[p] /\ a # None
  BY <1>0 DEF SweepOwn, manager, wire
<1>3. /\ prev' \in [Ends -> Addr \cup {None}] /\ prev'[p] = None
      /\ \A q \in Ends \ {p} : prev'[q] = prev[q]
  BY DEF SweepOwn, OnionInv, OnionType
<1>4. /\ served' \in [Ends -> SUBSET Addr] /\ \A q \in Ends \ {p} : served'[q] = served[q]
      /\ served'[p] = served[p] \ {a}
  BY <1>0 DEF SweepOwn, OnionInv, OnionType
<1>5. EndInv(p) /\ my[p] \in Addr /\ None \notin Addr
  BY RotationAssumption DEF OnionInv, OnionType, Addr
<1>6. Own(p)' \subseteq Own(p) \cup {None} /\ \A x \in Own(p) : x = a \/ x \in Own(p)'
  BY <1>0, <1>2, <1>3 DEF Own
<1>7. BookInv(p)'
  <2>1. reconnects' = 0 => my'[p] \in served'[p] /\ (prev'[p] # None => prev'[p] \in served'[p])
    BY <1>0, <1>1, <1>2, <1>3, <1>4, <1>5 DEF EndInv, BookInv, OnlyGrows
  <2>2. Untroubled' => \A x \in Ends : x \in served'[p] => x \in Own(p)'
    BY <1>1, <1>4, <1>5, <1>6 DEF EndInv, BookInv, OnlyGrows
  <2>3. my'[p] # prev'[p] /\ (hand'[p].old # None
              => hand'[p].pc = "delold" /\ hand'[p].old \notin {my'[p], prev'[p]})
    BY <1>2, <1>3, <1>5 DEF EndInv, BookInv
  <2> QED
    BY <1>2, <2>1, <2>2, <2>3 DEF BookInv
<1>8. \A s \in Rots : SameReads(p, s)
  BY <1>2, IdleReads
<1>9. \A q \in Ends \ {p} : Aside(q)
  BY <1>2, <1>3, <1>4 DEF Aside
<1>10. a \in Own(p)
  BY <1>0 DEF Own
<1> QED
  BY <1>1, <1>2, <1>3, <1>4, <1>6, <1>7, <1>8, <1>9, <1>10, DropsOne DEF OnionInv, OnionType

\* Steps that touch neither the manager nor the onions of either end.
LEMMA NobodySteps ==
    ASSUME OnionInv, OnlyGrows,
           UNCHANGED <<rec, cleanup, hand, my, prev, cooling, served>>
    PROVE  OnionInv'
<1>1. \A q \in Ends : Aside(q)
  BY DEF Aside
<1> QED
  BY <1>1, AsideKept DEF OnionInv, OnionType, OnlyGrows

\* The grace time ends.
LEMMA GraceOnion ==
    ASSUME ManagerInv, OnionInv, NEW p \in Ends, GraceEnds(p)
    PROVE  OnionInv'
<1>1. OnlyGrows
  BY OtherGrows DEF OnionInv
<1>2. UNCHANGED <<rec, cleanup, hand, my, prev, served>>
  BY DEF GraceEnds, manager, wire
<1>3. /\ cooling' \in [Ends -> BOOLEAN] /\ ~cooling'[p]
      /\ \A q \in Ends \ {p} : cooling'[q] = cooling[q]
  BY DEF GraceEnds, OnionInv, OnionType
<1>4. Own(p)' = Own(p) /\ EndInv(p)
  BY <1>2 DEF Own, OnionInv
<1>5. BookInv(p)'
  BY <1>1, <1>2, <1>3, <1>4 DEF BookInv, EndInv, OnlyGrows
<1>6. ASSUME NEW s \in Rots PROVE RotInv(p, s)'
  BY <1>1, <1>2, <1>4, IdleReads, RotKept DEF EndInv, SameRec
<1>7. \A q \in Ends \ {p} : Aside(q)
  BY <1>2, <1>3 DEF Aside
<1> QED
  BY <1>1, <1>2, <1>3, <1>5, <1>6, <1>7, EndSteps DEF EndInv, OnionInv, OnionType

\* A restart forgets the records; what is served stays, without an owner.
LEMMA CrashOnion ==
    ASSUME ManagerInv, OnionInv, NEW p \in Ends, Crash(p)
    PROVE  OnionInv'
<1>1. OnlyGrows
  BY OtherGrows DEF OnionInv
<1>2. UNCHANGED <<my, prev, cooling, served>> /\ ~Untroubled'
  BY DEF Crash, book, Untroubled, OnionInv, OnionType
<1>3. /\ \A q \in Ends \ {p} :
            rec'[q] = rec[q] /\ hand'[q] = hand[q] /\ cleanup'[q] = cleanup[q]
      /\ hand'[p] = Idle /\ cleanup'[p] = {}
      /\ \A s \in Rots : rec'[p][s] = NoRecord
  BY DEF Crash, ManagerInv, ManagerType
<1>4. /\ NoRecord.role = "none" /\ NoRecord.state = "none" /\ ~NoRecord.minted
      /\ ~NoRecord.theirs /\ Idle.pc = "idle" /\ Idle.old = None
  BY DEF NoRecord, Idle
<1>5. EndInv(p) /\ None \notin Rots
  BY RotationAssumption DEF OnionInv
<1>6. BookInv(p)'
  BY <1>1, <1>2, <1>3, <1>4, <1>5 DEF BookInv, EndInv, OnlyGrows
<1>7. ASSUME NEW s \in Rots PROVE RotInv(p, s)'
  <2>1. /\ ~Reads(p, s, "minted")' /\ ~Reads(p, s, "unmint")' /\ ~Reads(p, s, "apply")'
        /\ s \in Own(p)' => s \in Own(p)
    BY <1>2, <1>3, <1>4, <1>5 DEF Reads, Own
  <2>2. OwnRotation(p, s)' /\ RoleFits(p, s)'
    BY <1>1, <1>2, <1>3, <1>4, <1>5, <2>1
       DEF RotInv, EndInv, OwnRotation, RoleFits, OnlyGrows
  <2>3. UseIsFinal(p, s)' /\ DeletesFailed(p, s)'
    BY <1>3, <1>4, <2>1 DEF UseIsFinal, DeletesFailed
  <2>4. MintServed(p, s)' /\ ServedMinted(p, s)' /\ HasOwner(p, s)'
    BY <1>2, <1>3, <1>4, <2>1 DEF MintServed, ServedMinted, HasOwner, Open
  <2> QED
    BY <2>2, <2>3, <2>4 DEF RotInv
<1>8. \A q \in Ends \ {p} : Aside(q)
  BY <1>2, <1>3 DEF Aside
<1> QED
  BY <1>1, <1>2, <1>6, <1>7, <1>8, EndSteps DEF EndInv, OnionInv, OnionType

\* Tor forgets every onion that is not in the address book.
LEMMA ReconnectOnion ==
    ASSUME ManagerInv, OnionInv, NEW p \in Ends, Reconnect(p)
    PROVE  OnionInv'
<1>1. OnlyGrows
  BY OtherGrows DEF OnionInv
<1>2. UNCHANGED <<rec, cleanup, hand, my, prev, cooling>> /\ reconnects' # 0
  BY DEF Reconnect, manager, wire, book, OnionInv, OnionType
<1>3. EndInv(p) /\ my[p] \in Addr /\ (cooling[p] => prev[p] \in Addr)
  BY DEF OnionInv, OnionType, EndInv, BookInv
<1>4. /\ served'[p] = {my[p]} \cup (IF cooling[p] THEN {prev[p]} ELSE {})
      /\ \A q \in Ends \ {p} : served'[q] = served[q]
      /\ served' \in [Ends -> SUBSET Addr]
  BY <1>3 DEF Reconnect, OnionInv, OnionType
<1>5. /\ Own(p)' = Own(p) /\ \A s \in Rots : SameReads(p, s)
      /\ \A a \in served'[p] : a \in Own(p)
  BY <1>2, <1>4, IdleReads DEF Own
<1>6. BookInv(p)'
  BY <1>2, <1>3, <1>5 DEF BookInv, EndInv, Untroubled
<1>7. ASSUME NEW s \in Rots PROVE RotInv(p, s)'
  <2>1. RotInv(p, s) /\ SameReads(p, s)
    BY <1>3, <1>5 DEF EndInv
  <2>2. OwnRotation(p, s)' /\ RoleFits(p, s)'
    BY <1>1, <1>2, <1>5, <2>1 DEF RotInv, OwnRotation, RoleFits, OnlyGrows
  <2>3. UseIsFinal(p, s)' /\ DeletesFailed(p, s)'
    BY <1>2, <1>5, <2>1 DEF UseIsFinal, DeletesFailed, RotInv, SameReads
  <2>4. MintServed(p, s)' /\ ServedMinted(p, s)' /\ HasOwner(p, s)'
    BY <1>2, <1>5, <2>1
       DEF MintServed, ServedMinted, HasOwner, Untroubled, UseIsFinal, RotInv, SameReads, Open
  <2> QED
    BY <2>2, <2>3, <2>4 DEF RotInv
<1>8. \A q \in Ends \ {p} : Aside(q)
  BY <1>2, <1>4 DEF Aside
<1> QED
  BY <1>1, <1>2, <1>4, <1>6, <1>7, <1>8, EndSteps DEF EndInv, OnionInv, OnionType

\* Every step.
LEMMA OnionNext ==
    ASSUME ManagerInv, OnionInv, Next
    PROVE  OnionInv'
<1>1. ASSUME NEW p \in Ends, NEW r \in Rots,
             \/ Begin(p, r) \/ Abandon(p, r) \/ CleanDel(p, r) \/ CleanCancel(p, r)
             \/ ClientAccept(p, r)
      PROVE  OnionInv'
  BY <1>1, BeginOnion, AbandonOnion, CleanOnion, ClientAcceptOnion
<1>2. ASSUME NEW p \in Ends, Inbound(p)
      PROVE  OnionInv'
  <2>1. ASSUME NEW m \in inbox[p],
               \/ RefuseRequest(p, m) \/ OnRequest(p, m) \/ OnAccept(p, m)
               \/ OnAddress(p, m) \/ OnConfirm(p, m) \/ OnCancel(p, m)
        PROVE  OnionInv'
    BY <2>1, RefuseOnion, OnRequestOnion, OnAcceptOnion, OnAddressOnion, OnConfirmOnion,
       OnCancelOnion
  <2>2. CASE AutoAccept(p) \/ AfterMint(p) \/ Overlay(p) \/ ShipConfirm(p)
    BY <2>2, AutoAcceptOnion, AfterMintOnion, OverlayOnion, ShipOnion
  <2>3. CASE Unmint(p) \/ ApplyOwn(p) \/ DelOld(p) \/ ApplyTheirs(p)
    BY <2>3, UnmintOnion, ApplyOwnOnion, DelOldOnion, ApplyTheirsOnion
  <2> QED
    BY <1>2, <2>1, <2>2, <2>3 DEF Inbound
<1>3. ASSUME NEW p \in Ends, GraceEnds(p) \/ SweepOwn(p) \/ Reconnect(p) \/ Crash(p)
      PROVE  OnionInv'
  BY <1>3, GraceOnion, SweepOwnOnion, ReconnectOnion, CrashOnion
<1>4. ASSUME NEW p \in Ends, NEW a \in Addr, SweepAddr(p, a)
      PROVE  OnionInv'
  <2>1. OnlyGrows
    BY <1>4, OtherGrows DEF OnionInv
  <2> QED
    BY <1>4, <2>1, NobodySteps DEF SweepAddr, manager, wire
<1>5. ASSUME NEW m \in net, Arrive(m)
      PROVE  OnionInv'
  <2>1. OnlyGrows
    BY <1>5, ArriveGrows DEF OnionInv
  <2> QED
    BY <1>5, <2>1, NobodySteps DEF Arrive, manager, book
<1> QED
  BY <1>1, <1>2, <1>3, <1>4, <1>5 DEF Next

\* At the start each end serves its first onion.
LEMMA OnionInit == Init => OnionInv
<1> SUFFICES ASSUME Init PROVE OnionInv
  OBVIOUS
<1>1. /\ None \notin Ends \cup Rots /\ Ends \cap Rots = {} /\ Ends \subseteq Addr
  BY RotationAssumption DEF Addr
<1>2. OnionType
  BY <1>1 DEF Init, OnionType
<1>3. /\ NoRecord.role = "none" /\ NoRecord.state = "none" /\ ~NoRecord.minted
      /\ ~NoRecord.theirs /\ Idle.pc = "idle" /\ Idle.old = None
  BY DEF NoRecord, Idle
<1>4. ASSUME NEW p \in Ends PROVE EndInv(p)
  <2>1. /\ my[p] = p /\ prev[p] = None /\ cooling[p] = FALSE /\ hand[p] = Idle
        /\ served[p] = {p} /\ cleanup[p] = {}
        /\ \A r \in Rots : rec[p][r] = NoRecord
    BY DEF Init
  <2>2. p \in Own(p) /\ \A r \in Rots : r \notin Own(p) \cup served[p]
    BY <1>1, <1>3, <2>1 DEF Own
  <2>3. BookInv(p)
    BY <1>1, <1>3, <2>1, <2>2 DEF BookInv
  <2>4. ASSUME NEW r \in Rots PROVE RotInv(p, r)
    <3>1. ~Reads(p, r, "minted") /\ ~Reads(p, r, "unmint") /\ ~Reads(p, r, "apply")
      BY <1>3, <2>1 DEF Reads
    <3> QED
      BY <1>3, <2>1, <2>2, <3>1 DEF RotInv, OwnRotation, RoleFits, UseIsFinal, DeletesFailed,
         MintServed, ServedMinted, HasOwner, Open
  <2> QED
    BY <2>3, <2>4 DEF EndInv
<1> QED
  BY <1>2, <1>4 DEF OnionInv

\* The invariant of the onions is inductive, given that of the manager.
LEMMA OnionStep == ManagerInv /\ OnionInv /\ [Next]_vars => OnionInv'
<1> SUFFICES ASSUME ManagerInv, OnionInv, [Next]_vars PROVE OnionInv'
  OBVIOUS
<1>1. CASE Next
  BY <1>1, OnionNext
<1>2. CASE UNCHANGED vars
  <2>1. UNCHANGED <<rec, cleanup, hand, my, prev, cooling, served, used, net, inbox, reconnects,
                    faults, crashes>>
    BY <1>2 DEF vars, manager, wire, book, counters
  <2>2. OnlyGrows
    BY <2>1 DEF OnlyGrows, Asked, Mail, Untroubled, OnionInv, OnionType
  <2> QED
    BY <2>1, <2>2, NobodySteps
<1> QED
  BY <1>1, <1>2

\* While the Tor control connection lasts, the onion the address book names as
\* ours, and the one before it through its grace time, are served: no clean-up
\* (CleanDel, Unmint, DelOld, SweepOwn) deletes an onion in use, whatever fails
\* or restarts, for any number of rotations.
THEOREM RotationOwnOnionServed == Spec => []OwnOnionServed
<1>1. OnionInv => OwnOnionServed
  BY DEF OnionInv, EndInv, BookInv, OwnOnionServed
<1> QED
  BY <1>1, InvInit, InvStep, OnionInit, OnionStep, PTL DEF Spec

\* Without failures every onion an end's Tor serves is in its address book,
\* belongs to an open rotation, or is about to be deleted: the clean-ups of
\* terminateAsFailed, OnCancel and the second look of OnAccept leave none
\* behind, for any number of rotations begun by both ends at once.
THEOREM RotationNoOrphanOnion == Spec => []NoOrphanOnion
<1>1. ManagerInv /\ OnionInv => NoOrphanOnion
  <2> SUFFICES ASSUME ManagerInv, OnionInv, Untroubled, NEW p \in Ends,
                      NEW a \in served[p] \ {my[p], prev[p]}
               PROVE  \/ hand[p].old = a
                      \/ a \in Rots /\ rec[p][a].state \in Open
                      \/ <<"del", a>> \in cleanup[p]
                      \/ hand[p].pc \in {"minted", "unmint", "apply"} /\ hand[p].msg.rot = a
    BY DEF NoOrphanOnion
  <2>1. a \in Ends \/ a \in Rots
    BY DEF OnionInv, OnionType, Addr
  <2>2. CASE a \in Ends
    BY <2>2 DEF OnionInv, EndInv, BookInv, Own
  <2>3. CASE a \in Rots
    BY <2>3 DEF OnionInv, EndInv, RotInv, HasOwner, Own, Reads
  <2> QED
    BY <2>1, <2>2, <2>3
<1> QED
  BY <1>1, InvInit, InvStep, OnionInit, OnionStep, PTL DEF Spec

-----------------------------------------------------------------------------
(* What the two ends know of a rotation, in a run without trouble *)

\* The peer's new address was put in front of the book, at some time.
Overlaid(q, r) == rec[q][r].theirs /\ ~Reads(q, r, "overlay")

\* What a record and the reader's hand say of each other, at one end.
Near(p, r) ==
    /\ rec[p][r].role = "none" <=> rec[p][r].state = "none"
    /\ rec[p][r].theirs => rec[p][r].state \notin {"none", "requested", "accepted"}
    /\ rec[p][r].state = "confirmed" => rec[p][r].peerConfirmed
    /\ rec[p][r].state \in {"address_exchanged", "confirmed"}
           => rec[p][r].minted \/ rec[p][r].theirs
    /\ Reads(p, r, "ship") => rec[p][r].minted \/ rec[p][r].theirs
    /\ Reads(p, r, "overlay") => rec[p][r].theirs

\* What the end q knows of a rotation the end p began, and p of q: whoever got
\* that far has had the message before it from the other.
Talk(p, q, r) ==
    /\ rec[q][r].role = "responder" \/ Mail(q, "request", r)
           => rec[p][r].role = "initiator"
    /\ Mail(p, "accept", r) \/ Reads(p, r, "minted") \/ rec[p][r].minted
           => rec[q][r].role = "responder"
    /\ Mail(q, "address", r) \/ rec[q][r].theirs => rec[p][r].minted
    /\ rec[p][r].role = "initiator" /\ (Mail(p, "confirm", r) \/ rec[p][r].peerConfirmed)
           => Overlaid(q, r)

TalkInv ==
    /\ \A p \in Ends, r \in Rots : Near(p, r)
    /\ \A p \in Ends, q \in Ends, r \in Rots : p # q => Talk(p, q, r)
-----------------------------------------------------------------------------
(* The steps of an untroubled run, seen from the records *)

Steps == {"minted", "overlay", "ship", "apply"}

\* A step of one end about one rotation.
StepOf(e, r) ==
    /\ \A f \in Ends \ {e} : rec'[f] = rec[f] /\ hand'[f] = hand[f]
    /\ \A s \in Rots \ {r} : rec'[e][s] = rec[e][s]

\* It sends nothing but messages of this kind to the other end.
Sends(e, kind, r) ==
    \A f \in Ends, k \in Kinds, s \in Rots :
        Mail(f, k, s)' => Mail(f, k, s) \/ (f # e /\ k = kind /\ s = r)

Becomes(e, r, role, state, minted, theirs, peerConfirmed) ==
    /\ rec'[e][r].role = role /\ rec'[e][r].state = state
    /\ rec'[e][r].minted = minted /\ rec'[e][r].theirs = theirs
    /\ rec'[e][r].peerConfirmed = peerConfirmed

Moves(e, r, state) ==
    Becomes(e, r, rec[e][r].role, state, rec[e][r].minted, rec[e][r].theirs,
            rec[e][r].peerConfirmed)

\* The reader is then at this step of the rotation, or at none that matters.
HandTo(e, r, pc) == hand'[e].pc = pc /\ hand'[e].msg.rot = r
HandOff(e) == hand'[e].pc \notin Steps
HandFree(e) == hand[e].pc \notin Steps

SameBook == UNCHANGED <<my, known, front, retired, keys>>

MoveBegin(e, r) ==
    /\ r \notin used /\ rec[e][r].role = "none" /\ ~rec[e][r].minted /\ ~rec[e][r].theirs
    /\ Becomes(e, r, "initiator", "proposed", FALSE, FALSE, FALSE)
    /\ hand' = hand /\ Sends(e, "request", r) /\ SameBook

MoveFail(e, r) ==
    /\ rec[e][r].state \in Open /\ Moves(e, r, "failed")
    /\ hand'[e] = hand[e] \/ (HandFree(e) /\ HandOff(e))
    /\ Sends(e, "cancel", r) /\ SameBook

MoveAccept(e, r) ==
    /\ rec[e][r].role = "responder" /\ rec[e][r].state = "requested"
    /\ Moves(e, r, "accepted")
    /\ hand'[e] = hand[e] \/ (HandFree(e) /\ HandOff(e))
    /\ Sends(e, "accept", r) /\ SameBook

MoveAsk(e, r) ==
    /\ Mail(e, "request", r) /\ rec[e][r].state = "none" /\ perPeer[e] = None
    /\ Becomes(e, r, "responder", "requested", FALSE, FALSE, FALSE)
    /\ HandFree(e) /\ HandOff(e) /\ Sends(e, "cancel", r) /\ SameBook

MoveAddress(e, r) ==
    /\ Mail(e, "address", r) /\ rec[e][r].state = "accepted"
    /\ Becomes(e, r, rec[e][r].role, "address_exchanged", rec[e][r].minted, TRUE,
               rec[e][r].peerConfirmed)
    /\ HandFree(e) /\ HandTo(e, r, "overlay") /\ Sends(e, "cancel", r) /\ SameBook

MoveOverlay(e, r) ==
    /\ Reads(e, r, "overlay") /\ HandTo(e, r, "ship") /\ rec' = rec
    /\ Sends(e, "cancel", r) /\ OverlayPeerAddress(e, r)
    /\ UNCHANGED <<my, retired>>

MoveMint(e, r) ==
    /\ Mail(e, "accept", r) /\ rec[e][r].role = "initiator" /\ rec[e][r].state = "proposed"
    /\ HandFree(e) /\ HandTo(e, r, "minted") /\ rec' = rec
    /\ Sends(e, "cancel", r) /\ SameBook

MoveMinted(e, r) ==
    /\ Reads(e, r, "minted") /\ rec[e][r].state = "proposed"
    /\ Becomes(e, r, rec[e][r].role, "address_exchanged", TRUE, rec[e][r].theirs,
               rec[e][r].peerConfirmed)
    /\ HandTo(e, r, "ship") /\ Sends(e, "address", r) /\ SameBook

MoveShip(e, r) ==
    /\ Reads(e, r, "ship") /\ Moves(e, r, rec[e][r].state)
    /\ HandOff(e) /\ Sends(e, "confirm", r) /\ SameBook

MoveConfirm(e, r) ==
    /\ Mail(e, "confirm", r) /\ rec[e][r].state = "address_exchanged"
    /\ rec'[e][r].role = rec[e][r].role
    /\ rec'[e][r].minted = rec[e][r].minted /\ rec'[e][r].theirs = rec[e][r].theirs
    /\ rec'[e][r].peerConfirmed
    /\ HandFree(e)
    /\ \/ rec'[e][r].state = "address_exchanged" /\ HandOff(e)
       \/ rec'[e][r].state = "confirmed" /\ HandTo(e, r, "apply")
    /\ Sends(e, "cancel", r) /\ SameBook

MoveApplyOwn(e, r) ==
    /\ Reads(e, r, "apply") /\ rec[e][r].minted /\ HandOff(e) /\ rec' = rec
    /\ my' = [my EXCEPT ![e] = r]
    /\ Sends(e, "cancel", r) /\ UNCHANGED <<known, front, retired, keys>>

MoveApplyTheirs(e, r) ==
    /\ Reads(e, r, "apply") /\ rec[e][r].theirs /\ HandOff(e) /\ rec' = rec
    /\ CollapsePeerAddress(e, r)
    /\ Sends(e, "cancel", r) /\ UNCHANGED <<my, keys>>

\* Nothing of this: the reader ends a step that does not matter, or gives up what
\* it has just minted.
MoveQuiet(e, r) ==
    /\ rec' = rec
    /\ hand'[e] = hand[e] \/ (HandOff(e) /\ (HandFree(e) \/ hand[e].pc = "minted"))
    /\ Sends(e, "cancel", r) /\ SameBook

RecMove(e, r) ==
    \/ MoveBegin(e, r) \/ MoveFail(e, r) \/ MoveAccept(e, r) \/ MoveAsk(e, r)
    \/ MoveAddress(e, r) \/ MoveMinted(e, r) \/ MoveShip(e, r) \/ MoveConfirm(e, r)

HandMove(e, r) ==
    \/ MoveOverlay(e, r) \/ MoveMint(e, r) \/ MoveApplyOwn(e, r) \/ MoveApplyTheirs(e, r)
    \/ MoveQuiet(e, r)

Move(e, r) == StepOf(e, r) /\ (RecMove(e, r) \/ HandMove(e, r))
-----------------------------------------------------------------------------
\* Before an id is used nobody knows it.
LEMMA UnusedId ==
    ASSUME ManagerInv, OnionInv, NEW r \in Rots, r \notin used, NEW p \in Ends
    PROVE  /\ rec[p][r].state = "none" /\ rec[p][r].role # "initiator"
           /\ \A k \in Kinds : ~Mail(p, k, r)
           /\ \A pc \in Steps : ~Reads(p, r, pc)
           /\ r \notin Own(p) \cup served[p]
<1>1. rec[p][r].state = "none" /\ rec[p][r].role # "initiator" /\ r \notin Own(p) \cup served[p]
  BY DEF ManagerInv, RecIds, OnionInv, EndInv, RotInv, OwnRotation
<1>2. \A k \in Kinds : ~Mail(p, k, r)
  BY DEF Mail, ManagerInv, NetIds, InboxIds
<1>3. \A pc \in Steps : ~Reads(p, r, pc)
  BY DEF Reads, Steps, ManagerInv, HandIds
<1> QED
  BY <1>1, <1>2, <1>3

\* At most one rotation of an end is open.
LEMMA OneOpen ==
    ASSUME ManagerInv, NEW p \in Ends, NEW r \in Rots, NEW s \in Rots,
           rec[p][r].state \in Open, rec[p][s].state \in Open
    PROVE  r = s /\ perPeer[p] # None
<1>1. {x \in Rots : rec[p][x].state \in Open} = {perPeer[p]} \ {None}
  BY DEF ManagerInv, PerPeerExact
<1> QED
  BY <1>1

\* The steps about other rotations.
LEMMA OtherRots ==
    ASSUME NEW e \in Ends, NEW r \in Rots, Move(e, r), NEW s \in Rots, s # r, NEW p \in Ends
    PROVE  /\ rec'[p][s] = rec[p][s]
           /\ \A pc \in Steps : Reads(p, s, pc)' => Reads(p, s, pc)
           /\ \A pc \in Steps \ {"minted"} : Reads(p, s, pc) => Reads(p, s, pc)'
           /\ \A k \in Kinds : Mail(p, k, s)' => Mail(p, k, s)
<1>1. rec'[p][s] = rec[p][s]
  BY DEF Move, StepOf
<1>2. \A k \in Kinds : Mail(p, k, s)' => Mail(p, k, s)
  BY DEF Move, RecMove, HandMove, MoveBegin, MoveFail, MoveAccept, MoveAsk, MoveAddress,
     MoveMinted, MoveShip, MoveConfirm, MoveOverlay, MoveMint, MoveApplyOwn, MoveApplyTheirs,
     MoveQuiet, Sends
<1>3. \/ hand'[p] = hand[p]
      \/ /\ hand'[p].pc \in Steps => hand'[p].msg.rot = r
         /\ hand[p].pc \in Steps \ {"minted"} => hand[p].msg.rot = r
  BY DEF Move, StepOf, RecMove, HandMove, MoveBegin, MoveFail, MoveAccept, MoveAsk, MoveAddress,
     MoveMinted, MoveShip, MoveConfirm, MoveOverlay, MoveMint, MoveApplyOwn, MoveApplyTheirs,
     MoveQuiet, HandTo, HandOff, HandFree, Steps, Reads
<1> QED
  BY <1>1, <1>2, <1>3 DEF Reads, Steps

\* What a step keeps of rotations it is not about.
LEMMA OtherTalk ==
    ASSUME NEW e \in Ends, NEW r \in Rots, Move(e, r), NEW s \in Rots, s # r, TalkInv
    PROVE  /\ \A p \in Ends : Near(p, s)'
           /\ \A p \in Ends, q \in Ends : p # q => Talk(p, q, s)'
<1>1. ASSUME NEW p \in Ends PROVE Near(p, s)'
  BY OtherRots DEF Near, TalkInv, Steps
<1>2. ASSUME NEW p \in Ends, NEW q \in Ends, p # q PROVE Talk(p, q, s)'
  <2>1. Overlaid(q, s) => Overlaid(q, s)'
    BY OtherRots DEF Overlaid, Steps
  <2> QED
    BY <1>2, <2>1, OtherRots DEF Talk, TalkInv, Steps, Kinds
<1> QED
  BY <1>1, <1>2

\* The other end, in a step about its own rotation.
LEMMA OtherSide ==
    ASSUME NEW e \in Ends, NEW r \in Rots, StepOf(e, r), NEW o \in Ends, o # e
    PROVE  /\ rec'[o][r] = rec[o][r]
           /\ \A pc \in Steps : Reads(o, r, pc)' <=> Reads(o, r, pc)
           /\ Overlaid(o, r)' <=> Overlaid(o, r)
BY DEF StepOf, Reads, Overlaid, Steps

\* Every step keeps what the two ends know of the rotation it is about: the
\* record of one end ...
LEMMA MoveNear ==
    ASSUME OnionInv, TalkInv, NEW e \in Ends, NEW r \in Rots, Move(e, r)
    PROVE  Near(e, r)'
<1>1. Near(e, r) /\ RoleFits(e, r)
  BY DEF TalkInv, OnionInv, EndInv, RotInv
<1>2. CASE RecMove(e, r)
  BY <1>1, <1>2 DEF RecMove, MoveBegin, MoveFail, MoveAccept, MoveAsk, MoveAddress, MoveMinted,
     MoveShip, MoveConfirm, Near, Becomes, Moves, HandTo, HandOff, HandFree, Reads, Steps, Open,
     RoleFits
<1>3. CASE HandMove(e, r)
  BY <1>1, <1>3 DEF HandMove, MoveOverlay, MoveMint, MoveApplyOwn, MoveApplyTheirs,
     MoveQuiet, Near, HandTo, HandOff, HandFree, Reads, Steps
<1> QED
  BY <1>2, <1>3 DEF Move

\* ... and of both, whoever began it.
LEMMA MoveTalk ==
    ASSUME ManagerInv, OnionInv, TalkInv, NEW e \in Ends, NEW r \in Rots, NEW o \in Ends, o # e,
           Move(e, r)
    PROVE  Talk(e, o, r)' /\ Talk(o, e, r)'
<1>1. /\ Near(e, r) /\ Near(o, r) /\ Talk(e, o, r) /\ Talk(o, e, r)
      /\ RoleFits(e, r) /\ RoleFits(o, r)
  BY DEF TalkInv, OnionInv, EndInv, RotInv
<1>2. /\ rec'[o][r] = rec[o][r]
      /\ \A pc \in Steps : Reads(o, r, pc)' <=> Reads(o, r, pc)
      /\ Overlaid(o, r)' <=> Overlaid(o, r)
  BY OtherSide DEF Move
<1>3. CASE RecMove(e, r)
  <2>1. Talk(e, o, r)'
    BY <1>1, <1>2, <1>3, UnusedId DEF RecMove, MoveBegin, MoveFail, MoveAccept, MoveAsk,
       MoveAddress, MoveMinted, MoveShip, MoveConfirm, Near, Talk, Becomes, Moves, HandTo,
       HandOff, HandFree, Reads, Steps, Sends, Kinds, Overlaid, RoleFits, Open
  <2>2. Talk(o, e, r)'
    BY <1>1, <1>2, <1>3, UnusedId DEF RecMove, MoveBegin, MoveFail, MoveAccept, MoveAsk,
       MoveAddress, MoveMinted, MoveShip, MoveConfirm, Near, Talk, Becomes, Moves, HandTo,
       HandOff, HandFree, Reads, Steps, Sends, Kinds, Overlaid, RoleFits, Open
  <2> QED
    BY <2>1, <2>2
<1>4. CASE HandMove(e, r)
  BY <1>1, <1>2, <1>4 DEF HandMove, MoveOverlay, MoveMint, MoveApplyOwn, MoveApplyTheirs,
     MoveQuiet, Near, Talk, HandTo, HandOff, HandFree, Reads, Steps, Sends, Kinds,
     Overlaid, RoleFits
<1> QED
  BY <1>3, <1>4 DEF Move

\* So what the two ends know of each other holds throughout.
LEMMA TalkKept ==
    ASSUME ManagerInv, OnionInv, TalkInv, NEW e \in Ends, NEW r \in Rots, Move(e, r)
    PROVE  TalkInv'
<1>1. ASSUME NEW p \in Ends, NEW s \in Rots PROVE Near(p, s)'
  <2>1. CASE s # r
    BY <2>1, OtherTalk
  <2>2. CASE s = r /\ p # e
    BY <2>2, OtherSide DEF Move, Near, TalkInv, Steps
  <2> QED
    BY <2>1, <2>2, MoveNear
<1>2. ASSUME NEW p \in Ends, NEW q \in Ends, p # q, NEW s \in Rots PROVE Talk(p, q, s)'
  <2>1. CASE s # r
    BY <1>2, <2>1, OtherTalk
  <2>2. e = p \/ e = q
    BY <1>2, RotationAssumption
  <2> QED
    BY <1>2, <2>1, <2>2, MoveTalk
<1> QED
  BY <1>1, <1>2 DEF TalkInv

-----------------------------------------------------------------------------
(* How the two ends reach each other *)

\* A rotation the end began is under way, or confirmed and not yet applied.
Current(p, r) ==
    rec[p][r].role = "initiator" /\ (rec[p][r].state \in Open \/ Reads(p, r, "apply"))

\* Once the peer has taken up our rotation r it has nothing left to do for the
\* ones before it.
Turn(p, q, r) ==
    Current(p, r) /\ rec[q][r].role = "responder" =>
        \A s \in Rots \ {r} : rec[p][s].minted =>
            rec[q][s].state \notin Open /\ ~Reads(q, s, "overlay") /\ ~Reads(q, s, "apply")

\* What stands in front of the peer's book: the onion of our rotation under way,
\* once it was overlaid there ...
Leads(p, q, r) ==
    rec[p][r].minted /\ Current(p, r) /\ Overlaid(q, r) => front[q] = r

\* ... and, seen from the responder, that of the rotation it is still at.
Fronted(q, r) ==
    Overlaid(q, r) /\ (rec[q][r].state \in Open \/ Reads(q, r, "ship") \/ Reads(q, r, "apply"))
        => front[q] = r

\* While the responder is about to overlay an address it has no other rotation
\* of the peer open.
Sole(q, r) ==
    Reads(q, r, "overlay") =>
        \A s \in Rots \ {r} : rec[q][s].role = "responder" => rec[q][s].state \notin Open

\* An initiator that is done while the responder is not has its onion rotated,
\* or is about to.
Rotated(p, q, r) ==
    /\ rec[p][r].role = "initiator" /\ rec[p][r].state = "confirmed"
    /\ rec[q][r].role = "responder" /\ (rec[q][r].state \in Open \/ Reads(q, r, "apply"))
    => Reads(p, r, "apply") \/ my[p] = r

\* The book of one end: what it sends to is listed, what is listed resolves, and
\* an address minted for a rotation is there because it was overlaid.
Shelf(q) ==
    /\ front[q] \in known[q] /\ known[q] \subseteq keys[q] /\ known[q] \cap retired[q] = {}
    /\ \A r \in Rots : r \in known[q] \cup retired[q] => Overlaid(q, r)

\* What q sends to is the onion p has in use, or one it minted and has either
\* still at hand or failed.
Aims(p, q) ==
    \/ front[q] = my[p]
    \/ /\ front[q] \in Rots /\ rec[p][front[q]].minted
       /\ Current(p, front[q]) \/ rec[p][front[q]].state = "failed"

\* The responder q has finished the rotation, p has not (Ahead, by both names).
Outruns(p, q, r) ==
    /\ rec[q][r].role = "responder" /\ rec[q][r].state = "confirmed"
    /\ rec[p][r].state # "confirmed" \/ Reads(p, r, "apply")

\* q lists the onion p has in use, or is ahead of it in some rotation.
Lists(p, q) == my[p] \in known[q] \/ \E r \in Rots : Outruns(p, q, r)

BookType ==
    /\ my \in [Ends -> Addr]
    /\ DOMAIN known = Ends /\ DOMAIN front = Ends /\ DOMAIN retired = Ends /\ DOMAIN keys = Ends

PathInv ==
    /\ BookType
    /\ \A q \in Ends : Shelf(q) /\ \A r \in Rots : Fronted(q, r) /\ Sole(q, r)
    /\ \A p \in Ends, q \in Ends : p # q =>
          /\ Aims(p, q) /\ Lists(p, q)
          /\ \A r \in Rots : Turn(p, q, r) /\ Leads(p, q, r) /\ Rotated(p, q, r)
-----------------------------------------------------------------------------
\* Which step can have brought about what it is that a state says.
LEMMA Recs ==
    ASSUME OnionInv, TalkInv, NEW e \in Ends, NEW r \in Rots, Move(e, r),
           NEW p \in Ends, NEW s \in Rots
    PROVE  /\ rec'[p][s].state \in Open =>
                 rec[p][s].state \in Open \/ MoveBegin(p, s) \/ MoveAsk(p, s)
           /\ rec'[p][s].role = "responder" => rec[p][s].role = "responder" \/ MoveAsk(p, s)
           /\ rec'[p][s].role = "initiator" => rec[p][s].role = "initiator" \/ MoveBegin(p, s)
           /\ rec[p][s].role # "none" => rec'[p][s].role = rec[p][s].role
           /\ rec'[p][s].minted => rec[p][s].minted \/ MoveMinted(p, s)
           /\ rec[p][s].minted => rec'[p][s].minted
           /\ rec'[p][s].theirs => rec[p][s].theirs \/ MoveAddress(p, s)
           /\ rec[p][s].theirs => rec'[p][s].theirs
           /\ rec'[p][s].state = "confirmed" => rec[p][s].state = "confirmed" \/ MoveConfirm(p, s)
           /\ rec[p][s].state \in {"confirmed", "failed"} => rec'[p][s].state = rec[p][s].state
           /\ rec[p][s].state \in Open =>
                 rec'[p][s].state \in Open \/ rec'[p][s].state = "failed" \/ MoveConfirm(p, s)
<1>1. CASE p # e \/ s # r
  BY <1>1 DEF Move, StepOf
<1>2. CASE p = e /\ s = r
  <2>0. Near(e, r) /\ RoleFits(e, r)
    BY DEF TalkInv, OnionInv, EndInv, RotInv
  <2>1. CASE HandMove(e, r)
    BY <1>2, <2>1 DEF HandMove, MoveOverlay, MoveMint, MoveApplyOwn, MoveApplyTheirs,
       MoveQuiet
  <2>2. CASE MoveBegin(e, r)
    BY <1>2, <2>0, <2>2 DEF MoveBegin, Becomes, Near, Open
  <2>3. CASE MoveFail(e, r) \/ MoveAccept(e, r) \/ MoveShip(e, r)
    BY <1>2, <2>3 DEF MoveFail, MoveAccept, MoveShip, Moves, Becomes, Open
  <2>4. CASE MoveAsk(e, r)
    BY <1>2, <2>0, <2>4 DEF MoveAsk, Becomes, Near, Open, RoleFits
  <2>5. CASE MoveAddress(e, r) \/ MoveMinted(e, r)
    BY <1>2, <2>5 DEF MoveAddress, MoveMinted, Becomes, Open
  <2>6. CASE MoveConfirm(e, r)
    BY <1>2, <2>6 DEF MoveConfirm, Open
  <2> QED
    BY <2>1, <2>2, <2>3, <2>4, <2>5, <2>6 DEF Move, RecMove
<1> QED
  BY <1>1, <1>2

\* The same for what the reader is at,
LEMMA Hands ==
    ASSUME TalkInv, NEW e \in Ends, NEW r \in Rots, Move(e, r),
           NEW p \in Ends, NEW s \in Rots
    PROVE  /\ Reads(p, s, "overlay")' => Reads(p, s, "overlay") \/ MoveAddress(p, s)
           /\ Reads(p, s, "ship")' => Reads(p, s, "ship") \/ MoveOverlay(p, s) \/ MoveMinted(p, s)
           /\ Reads(p, s, "apply")' => Reads(p, s, "apply") \/ MoveConfirm(p, s)
           /\ Reads(p, s, "overlay") => Reads(p, s, "overlay")' \/ MoveOverlay(p, s)
           /\ Reads(p, s, "apply") =>
                 Reads(p, s, "apply")' \/ MoveApplyOwn(p, s) \/ MoveApplyTheirs(p, s)
<1>1. CASE p # e
  BY <1>1 DEF Move, StepOf, Reads
<1>2. CASE s # r
  BY <1>2, OtherRots DEF Steps
<1>3. CASE p = e /\ s = r
  <2>1. CASE RecMove(e, r)
    BY <1>3, <2>1 DEF RecMove, MoveBegin, MoveFail, MoveAccept, MoveAsk, MoveAddress, MoveMinted,
       MoveShip, MoveConfirm, HandTo, HandOff, HandFree, Reads, Steps
  <2>2. CASE HandMove(e, r)
    BY <1>3, <2>2 DEF HandMove, MoveOverlay, MoveMint, MoveApplyOwn, MoveApplyTheirs,
       MoveQuiet, HandTo, HandOff, HandFree, Reads, Steps
  <2> QED
    BY <2>1, <2>2 DEF Move
<1> QED
  BY <1>1, <1>2, <1>3

\* and for the addresses that were overlaid: that is never undone.
LEMMA Overlays ==
    ASSUME OnionInv, TalkInv, NEW e \in Ends, NEW r \in Rots, Move(e, r),
           NEW p \in Ends, NEW s \in Rots
    PROVE  /\ Overlaid(p, s)' => Overlaid(p, s) \/ MoveOverlay(p, s)
           /\ Overlaid(p, s) => Overlaid(p, s)'
<1>1. Near(p, s)
  BY DEF TalkInv
<1>2. Overlaid(p, s)' => Overlaid(p, s) \/ MoveOverlay(p, s)
  <2>1. ~(MoveAddress(p, s) /\ ~Reads(p, s, "overlay")')
    BY DEF MoveAddress, HandTo, Reads
  <2> QED
    BY <2>1, Recs, Hands DEF Overlaid
<1>3. Overlaid(p, s) => Overlaid(p, s)'
  <2>1. ~(MoveAddress(p, s) /\ rec[p][s].theirs)
    BY <1>1 DEF MoveAddress, Near
  <2> QED
    BY <2>1, Recs, Hands DEF Overlaid
<1> QED
  BY <1>2, <1>3

\* The address book: only the three steps that call the registry, and the sweep,
\* change it.
LEMMA Books ==
    ASSUME NEW e \in Ends, NEW r \in Rots, Move(e, r)
    PROVE  \/ SameBook
           \/ MoveOverlay(e, r) \/ MoveApplyOwn(e, r) \/ MoveApplyTheirs(e, r)
BY DEF Move, RecMove, HandMove, MoveBegin, MoveFail, MoveAccept, MoveAsk, MoveAddress,
   MoveMinted, MoveShip, MoveConfirm, MoveMint, MoveQuiet

\* Applying the peer's address leaves the front of the book as it is.
LEMMA FrontStep ==
    ASSUME OnionInv, PathInv, NEW e \in Ends, NEW r \in Rots, Move(e, r), NEW q \in Ends
    PROVE  \/ front'[q] = front[q]
           \/ q = e /\ MoveOverlay(e, r) /\ front'[q] = r
<1>1. CASE MoveOverlay(e, r)
  BY <1>1 DEF MoveOverlay, OverlayPeerAddress, PathInv, BookType
<1>2. CASE MoveApplyTheirs(e, r)
  <2>1. Overlaid(e, r) /\ Reads(e, r, "apply")
    BY <1>2 DEF MoveApplyTheirs, Overlaid, Reads
  <2>2. front[e] = r
    BY <2>1 DEF PathInv, Fronted
  <2> QED
    BY <1>2, <2>2 DEF MoveApplyTheirs, CollapsePeerAddress, PathInv, BookType
<1>3. CASE SameBook \/ MoveApplyOwn(e, r)
  BY <1>3 DEF SameBook, MoveApplyOwn
<1> QED
  BY <1>1, <1>2, <1>3, Books

\* Our own onion changes only when it is rotated.
LEMMA MyStep ==
    ASSUME OnionInv, PathInv, NEW e \in Ends, NEW r \in Rots, Move(e, r), NEW p \in Ends
    PROVE  \/ my'[p] = my[p]
           \/ p = e /\ MoveApplyOwn(e, r) /\ my'[p] = r
<1>1. CASE MoveApplyOwn(e, r)
  BY <1>1 DEF MoveApplyOwn, PathInv, BookType
<1>2. CASE SameBook \/ MoveOverlay(e, r) \/ MoveApplyTheirs(e, r)
  BY <1>2 DEF SameBook, MoveOverlay, MoveApplyTheirs
<1> QED
  BY <1>1, <1>2, Books

\* A new request is not taken up in the middle of an overlay.
LEMMA KeepsSole ==
    ASSUME ManagerInv, OnionInv, TalkInv, PathInv, NEW e \in Ends, NEW r \in Rots, Move(e, r),
           NEW q \in Ends, NEW s \in Rots
    PROVE  Sole(q, s)'
<1> SUFFICES ASSUME Reads(q, s, "overlay")', NEW x \in Rots \ {s},
                    rec'[q][x].role = "responder", rec'[q][x].state \in Open
             PROVE  FALSE
  BY DEF Sole
<1>1. ~MoveAsk(q, x)
  BY DEF MoveAsk, HandOff, Reads, Steps
<1>2. rec[q][x].role = "responder"
  BY <1>1, Recs
<1>3. ~MoveBegin(q, x)
  BY <1>2 DEF MoveBegin
<1>4. rec[q][x].state \in Open
  BY <1>1, <1>3, Recs
<1>5. CASE Reads(q, s, "overlay")
  BY <1>2, <1>4, <1>5 DEF PathInv, Sole
<1>6. CASE MoveAddress(q, s)
  BY <1>4, <1>6, OneOpen DEF MoveAddress, Open
<1> QED
  BY <1>5, <1>6, Hands

\* A responder takes up a rotation only when it has no other.
LEMMA KeepsTurn ==
    ASSUME ManagerInv, OnionInv, TalkInv, PathInv, NEW e \in Ends, NEW r \in Rots, Move(e, r),
           NEW p \in Ends, NEW q \in Ends, p # q, NEW s \in Rots
    PROVE  Turn(p, q, s)'
<1> SUFFICES ASSUME Current(p, s)', rec'[q][s].role = "responder",
                    NEW x \in Rots \ {s}, rec'[p][x].minted,
                    \/ rec'[q][x].state \in Open
                    \/ Reads(q, x, "overlay")' \/ Reads(q, x, "apply")'
             PROVE  FALSE
  BY DEF Turn
<1>0. /\ Near(p, s) /\ Near(q, s) /\ Near(p, x) /\ Near(q, x) /\ Talk(p, q, s) /\ Talk(p, q, x)
      /\ RoleFits(p, x)
  BY DEF TalkInv, OnionInv, EndInv, RotInv
<1>1. Current(p, s)
  <2>1. ~MoveBegin(p, s)
    <3>1. SUFFICES ASSUME MoveBegin(p, s) PROVE FALSE
      OBVIOUS
    <3>2. rec[q][s].state = "none" /\ ~Mail(q, "request", s)
      BY <3>1, UnusedId DEF MoveBegin, Kinds
    <3>3. rec[q][s].role # "responder"
      BY <1>0, <3>2 DEF Near
    <3> QED
      BY <3>2, <3>3, Recs DEF MoveAsk
  <2>2. ~(MoveAsk(p, s) /\ rec[p][s].role = "initiator")
    BY <1>0 DEF MoveAsk, Near
  <2>3. MoveConfirm(p, s) => rec[p][s].state \in Open
    BY DEF MoveConfirm, Open
  <2> QED
    BY <2>1, <2>2, <2>3, Recs, Hands DEF Current
<1>2. rec[p][x].minted
  <2>1. SUFFICES ASSUME MoveMinted(p, x) PROVE FALSE
    BY Recs
  <2>2. rec[p][x].state \in Open /\ ~Reads(p, s, "apply")
    BY <2>1 DEF MoveMinted, Reads, Open
  <2> QED
    BY <1>1, <2>2, OneOpen DEF Current
<1>3. rec[q][x].role = "responder" /\ rec[q][x].state # "none"
  BY <1>0, <1>2 DEF Talk, Near
<1>4. \/ rec[q][x].state \in Open
      \/ Reads(q, x, "overlay") \/ Reads(q, x, "apply")
  <2>1. ~MoveAsk(q, x) /\ ~MoveBegin(q, x)
    BY <1>3 DEF MoveAsk, MoveBegin
  <2>2. MoveAddress(q, x) \/ MoveConfirm(q, x) => rec[q][x].state \in Open
    BY DEF MoveAddress, MoveConfirm, Open
  <2> QED
    BY <2>1, <2>2, Recs, Hands
<1>5. CASE rec[q][s].role = "responder"
  BY <1>1, <1>2, <1>4, <1>5 DEF PathInv, Turn
<1>6. CASE MoveAsk(q, s)
  <2>1. rec[q][x].state \notin Open
    BY <1>6, OneOpen DEF MoveAsk
  <2> QED
    BY <1>4, <1>6, <2>1 DEF MoveAsk, HandFree, Reads, Steps
<1> QED
  BY <1>5, <1>6, Recs

\* So no older rotation overlays or collapses over the initiator's current one,
LEMMA KeepsLeads ==
    ASSUME ManagerInv, OnionInv, TalkInv, PathInv, NEW e \in Ends, NEW r \in Rots, Move(e, r),
           NEW p \in Ends, NEW q \in Ends, p # q, NEW s \in Rots
    PROVE  Leads(p, q, s)'
<1> SUFFICES ASSUME rec'[p][s].minted, Current(p, s)', Overlaid(q, s)', front'[q] # s
             PROVE  FALSE
  BY DEF Leads
<1>0. /\ Near(p, s) /\ Near(q, s) /\ Near(q, r) /\ Talk(p, q, s) /\ Talk(p, q, r)
      /\ RoleFits(p, s) /\ RoleFits(q, s)
  BY DEF TalkInv, OnionInv, EndInv, RotInv
<1>1. Overlaid(q, s)
  <2>1. MoveOverlay(q, s) => front'[q] = s
    BY DEF MoveOverlay, OverlayPeerAddress, PathInv, BookType
  <2> QED
    BY <2>1, Overlays
<1>2. rec[p][s].minted /\ rec[q][s].role = "responder"
  BY <1>0, <1>1 DEF Overlaid, Talk, RoleFits
<1>3. Current(p, s)
  <2>1. rec[p][s].role = "initiator" /\ rec[p][s].state # "none"
    BY <1>0, <1>2 DEF RoleFits, Near
  <2>2. ~MoveBegin(p, s) /\ ~MoveAsk(p, s)
    BY <2>1 DEF MoveBegin, MoveAsk
  <2>3. MoveConfirm(p, s) => rec[p][s].state \in Open
    BY DEF MoveConfirm, Open
  <2> QED
    BY <2>1, <2>2, <2>3, Recs, Hands DEF Current
<1>4. front[q] = s
  BY <1>1, <1>2, <1>3 DEF PathInv, Leads
<1>5. q = e /\ r # s /\ Reads(q, r, "overlay")
  BY <1>4, FrontStep DEF MoveOverlay
<1>6. rec[p][r].minted
  BY <1>0, <1>5 DEF Near, Talk
<1> QED
  BY <1>2, <1>3, <1>5, <1>6 DEF PathInv, Turn

\* nor over the one the responder is at.
LEMMA KeepsFronted ==
    ASSUME ManagerInv, OnionInv, TalkInv, PathInv, NEW e \in Ends, NEW r \in Rots, Move(e, r),
           NEW q \in Ends, NEW s \in Rots
    PROVE  Fronted(q, s)'
<1> SUFFICES ASSUME Overlaid(q, s)', front'[q] # s,
                    \/ rec'[q][s].state \in Open
                    \/ Reads(q, s, "ship")' \/ Reads(q, s, "apply")'
             PROVE  FALSE
  BY DEF Fronted
<1>0. Near(q, s) /\ RoleFits(q, s) /\ DeletesFailed(q, s)
  BY DEF TalkInv, OnionInv, EndInv, RotInv
<1>1. ~MoveOverlay(q, s)
  BY DEF MoveOverlay, OverlayPeerAddress, PathInv, BookType
<1>2. Overlaid(q, s) /\ rec[q][s].theirs /\ rec[q][s].role = "responder"
      /\ rec[q][s].state # "none"
  BY <1>0, <1>1, Overlays DEF Overlaid, RoleFits, Near
<1>3. \/ rec[q][s].state \in Open
      \/ Reads(q, s, "ship") \/ Reads(q, s, "apply")
  <2>1. ~MoveBegin(q, s) /\ ~MoveAsk(q, s)
    BY <1>2 DEF MoveBegin, MoveAsk
  <2>2. ~MoveMinted(q, s)
    BY <1>0, <1>2 DEF MoveMinted, DeletesFailed
  <2>3. MoveConfirm(q, s) => rec[q][s].state \in Open
    BY DEF MoveConfirm, Open
  <2> QED
    BY <1>1, <2>1, <2>2, <2>3, Recs, Hands
<1>4. front[q] = s
  BY <1>2, <1>3 DEF PathInv, Fronted
<1>5. q = e /\ r # s /\ Reads(q, r, "overlay")
  BY <1>4, FrontStep DEF MoveOverlay
<1>6. rec[q][s].state \in Open
  BY <1>3, <1>5 DEF Reads
<1> QED
  BY <1>2, <1>5, <1>6 DEF PathInv, Sole

\* A finished initiator does not rotate away before the responder is done.
LEMMA KeepsRotated ==
    ASSUME ManagerInv, OnionInv, TalkInv, PathInv, NEW e \in Ends, NEW r \in Rots, Move(e, r),
           NEW p \in Ends, NEW q \in Ends, p # q, NEW s \in Rots
    PROVE  Rotated(p, q, s)'
<1> SUFFICES ASSUME rec'[p][s].role = "initiator", rec'[p][s].state = "confirmed",
                    rec'[q][s].role = "responder",
                    rec'[q][s].state \in Open \/ Reads(q, s, "apply")',
                    ~Reads(p, s, "apply")', my'[p] # s
             PROVE  FALSE
  BY DEF Rotated
<1>0. /\ Near(p, s) /\ Near(q, s) /\ Talk(p, q, s) /\ RoleFits(p, s) /\ RoleFits(p, r)
      /\ Talk(p, q, r) /\ RoleFits(q, s)
  BY DEF TalkInv, OnionInv, EndInv, RotInv
<1>1. rec[p][s].state = "confirmed"
  <2>1. ~MoveConfirm(p, s)
    BY DEF MoveConfirm, HandTo, Reads
  <2> QED
    BY <2>1, Recs
<1>2. rec[p][s].role = "initiator"
  BY <1>0, <1>1, Recs DEF Near
<1>3. rec[p][s].minted /\ rec[q][s].role = "responder" /\ rec[q][s].state # "none"
  BY <1>0, <1>1, <1>2 DEF Near, RoleFits, Talk
<1>4. rec[q][s].state \in Open \/ Reads(q, s, "apply")
  <2>1. ~MoveBegin(q, s) /\ ~MoveAsk(q, s)
    BY <1>3 DEF MoveBegin, MoveAsk
  <2>2. MoveConfirm(q, s) => rec[q][s].state \in Open
    BY DEF MoveConfirm, Open
  <2> QED
    BY <2>1, <2>2, Recs, Hands
<1>5. Reads(p, s, "apply") \/ my[p] = s
  BY <1>1, <1>2, <1>3, <1>4 DEF PathInv, Rotated
<1>6. CASE Reads(p, s, "apply")
  <2>1. ~MoveApplyTheirs(p, s)
    BY <1>0, <1>2 DEF MoveApplyTheirs, RoleFits
  <2>2. MoveApplyOwn(p, s) => my'[p] = s
    BY DEF MoveApplyOwn, PathInv, BookType
  <2> QED
    BY <1>6, <2>1, <2>2, Hands
<1>7. CASE my[p] = s
  <2>1. p = e /\ r # s /\ Reads(p, r, "apply") /\ rec[p][r].minted
    BY <1>7, MyStep DEF MoveApplyOwn
  <2>2. Current(p, r) /\ rec[q][r].role = "responder"
    BY <1>0, <2>1 DEF Current, RoleFits, Talk
  <2> QED
    BY <1>3, <1>4, <2>1, <2>2 DEF PathInv, Turn
<1> QED
  BY <1>5, <1>6, <1>7

\* Overlay and collapse keep the book in order.
LEMMA KeepsShelf ==
    ASSUME ManagerInv, OnionInv, TalkInv, PathInv, NEW e \in Ends, NEW r \in Rots, Move(e, r),
           NEW q \in Ends
    PROVE  Shelf(q)'
<1>0. Shelf(q) /\ Shelf(e) /\ Near(e, r) /\ BookType
  BY DEF PathInv, TalkInv
<1>1. ASSUME NEW s \in Rots, Overlaid(q, s) PROVE Overlaid(q, s)'
  BY <1>1, Overlays
<1>2. CASE SameBook \/ MoveApplyOwn(e, r)
  BY <1>0, <1>1, <1>2 DEF SameBook, MoveApplyOwn, Shelf
<1>3. CASE MoveOverlay(e, r)
  <2>1. CASE q # e
    BY <1>0, <1>1, <1>3, <2>1 DEF MoveOverlay, OverlayPeerAddress, Shelf, BookType
  <2>2. CASE q = e
    <3>1. Overlaid(e, r)'
      BY <1>0, <1>3 DEF MoveOverlay, HandTo, Overlaid, Reads, Near
    <3>2. ~Overlaid(e, r)
      BY <1>3 DEF MoveOverlay, Overlaid
    <3>3. /\ known'[e] = known[e] \cup {r} /\ front'[e] = r /\ retired'[e] = retired[e]
          /\ keys'[e] = keys[e] \cup (IF front[e] = r THEN {} ELSE {r})
      BY <1>0, <1>3 DEF MoveOverlay, OverlayPeerAddress, BookType
    <3>4. r \notin retired[e]
      BY <1>0, <3>2 DEF Shelf
    <3> QED
      BY <1>0, <1>1, <2>2, <3>1, <3>3, <3>4 DEF Shelf
  <2> QED
    BY <2>1, <2>2
<1>4. CASE MoveApplyTheirs(e, r)
  <2>1. CASE q # e
    BY <1>0, <1>1, <1>4, <2>1 DEF MoveApplyTheirs, CollapsePeerAddress, Shelf, BookType
  <2>2. CASE q = e
    BY <1>0, <1>1, <1>4, <2>2 DEF MoveApplyTheirs, CollapsePeerAddress, Shelf, BookType
  <2> QED
    BY <2>1, <2>2
<1> QED
  BY <1>2, <1>3, <1>4, Books

\* The initiator applies only what the responder has in front.
LEMMA AppliesFront ==
    ASSUME OnionInv, TalkInv, PathInv, NEW e \in Ends, NEW r \in Rots,
           MoveApplyOwn(e, r), NEW q \in Ends, e # q
    PROVE  front[q] = r
<1>0. /\ Near(e, r) /\ Talk(e, q, r) /\ RoleFits(e, r) /\ DeletesFailed(e, r)
  BY DEF TalkInv, OnionInv, EndInv, RotInv
<1>1. Reads(e, r, "apply") /\ rec[e][r].minted
  BY DEF MoveApplyOwn
<1>2. rec[e][r].role = "initiator" /\ rec[e][r].peerConfirmed
  BY <1>0, <1>1 DEF RoleFits, DeletesFailed, Near
<1>3. Overlaid(q, r)
  BY <1>0, <1>2 DEF Talk
<1> QED
  BY <1>1, <1>2, <1>3 DEF PathInv, Leads, Current

\* What q sends to is in use, still at hand, or failed.
LEMMA KeepsAims ==
    ASSUME ManagerInv, OnionInv, TalkInv, PathInv, NEW e \in Ends, NEW r \in Rots, Move(e, r),
           NEW p \in Ends, NEW q \in Ends, p # q
    PROVE  Aims(p, q)'
<1>0. /\ Near(p, r) /\ Talk(p, q, r) /\ RoleFits(p, r) /\ Near(q, r)
      /\ rec \in [Ends -> [Rots -> Record]]
  BY DEF TalkInv, OnionInv, EndInv, RotInv, ManagerInv, ManagerType
<1>1. CASE front'[q] # front[q]
  <2>1. q = e /\ MoveOverlay(q, r) /\ front'[q] = r
    BY <1>1, FrontStep
  <2>2. Reads(q, r, "overlay") /\ rec' = rec /\ hand'[p] = hand[p]
    BY <2>1 DEF MoveOverlay, Move, StepOf
  <2>3. rec[p][r].minted /\ rec[p][r].role = "initiator" /\ rec[p][r].state # "none"
    BY <1>0, <2>2 DEF Near, Talk, RoleFits
  <2>4. rec[p][r].state # "confirmed"
    BY <1>0, <2>2, <2>3 DEF Near, Talk, Overlaid
  <2>5. rec[p][r].state \in Open \/ rec[p][r].state = "failed"
    BY <1>0, <2>3, <2>4 DEF Record, Terminal
  <2> QED
    BY <2>1, <2>2, <2>3, <2>5 DEF Aims, Current
<1>2. CASE my'[p] # my[p]
  <2>1. p = e /\ MoveApplyOwn(p, r) /\ my'[p] = r
    BY <1>2, MyStep
  <2>2. front[q] = r
    BY <2>1, AppliesFront
  <2>3. front'[q] = front[q]
    BY <2>1 DEF MoveApplyOwn
  <2> QED
    BY <2>1, <2>2, <2>3 DEF Aims
<1>3. CASE front'[q] = front[q] /\ my'[p] = my[p] /\ front[q] # my[p]
  <2>1. PICK f : f = front[q]
    OBVIOUS
  <2>2. /\ f \in Rots /\ rec[p][f].minted
        /\ Current(p, f) \/ rec[p][f].state = "failed"
    BY <1>3, <2>1 DEF PathInv, Aims
  <2>3. RoleFits(p, f) /\ Near(p, f)
    BY <2>2 DEF OnionInv, EndInv, RotInv, TalkInv
  <2>4. rec[p][f].role = "initiator" /\ rec'[p][f].role = "initiator" /\ rec'[p][f].minted
    BY <2>2, <2>3, Recs DEF RoleFits
  <2>5. MoveConfirm(p, f) => Reads(p, f, "apply")' \/ rec'[p][f].state \in Open
    BY DEF MoveConfirm, HandTo, Reads, Open
  <2>6. ~MoveApplyTheirs(p, f)
    BY <2>3, <2>4 DEF MoveApplyTheirs, RoleFits
  <2>7. ~MoveApplyOwn(p, f)
    <3>1. SUFFICES ASSUME MoveApplyOwn(p, f) PROVE FALSE
      OBVIOUS
    <3>2. my'[p] = f
      BY <3>1 DEF MoveApplyOwn, PathInv, BookType
    <3> QED
      BY <1>3, <2>1, <3>2
  <2>8. Current(p, f)' \/ rec'[p][f].state = "failed"
    BY <2>2, <2>4, <2>5, <2>6, <2>7, Recs, Hands DEF Current
  <2> QED
    BY <1>3, <2>1, <2>2, <2>4, <2>8 DEF Aims
<1> QED
  BY <1>1, <1>2, <1>3 DEF Aims

\* The onion in use stays listed: when the responder collapses to a new address
\* the initiator has rotated to it, or is behind.
LEMMA KeepsLists ==
    ASSUME ManagerInv, OnionInv, TalkInv, PathInv, NEW e \in Ends, NEW r \in Rots, Move(e, r),
           NEW p \in Ends, NEW q \in Ends, p # q
    PROVE  Lists(p, q)'
<1>0. /\ BookType /\ Shelf(q) /\ RoleFits(q, r) /\ DeletesFailed(q, r) /\ Talk(p, q, r)
      /\ \A s \in Rots : Talk(p, q, s) /\ RoleFits(p, s)
  BY DEF PathInv, TalkInv, OnionInv, EndInv, RotInv
<1>1. CASE MoveApplyOwn(p, r) /\ p = e
  <2>1. front[q] = r /\ my'[p] = r /\ known'[q] = known[q]
    BY <1>0, <1>1, AppliesFront DEF MoveApplyOwn, BookType
  <2> QED
    BY <1>0, <2>1 DEF Lists, Shelf
<1>2. CASE MoveApplyTheirs(q, r) /\ q = e
  <2>1. /\ Reads(q, r, "apply") /\ rec[q][r].theirs /\ rec' = rec /\ my' = my
        /\ hand'[p] = hand[p]
    BY <1>2 DEF MoveApplyTheirs, Move, StepOf
  <2>2. rec[q][r].role = "responder" /\ rec[q][r].state = "confirmed"
        /\ rec[p][r].role = "initiator"
    BY <1>0, <2>1 DEF RoleFits, DeletesFailed, Talk
  <2>3. front[q] = r
    BY <2>1 DEF PathInv, Fronted, Overlaid, Reads
  <2>4. known'[q] = {r}
    BY <1>0, <1>2, <2>3 DEF MoveApplyTheirs, CollapsePeerAddress, Shelf, BookType
  <2>5. CASE rec[p][r].state # "confirmed" \/ Reads(p, r, "apply")
    <3>1. Outruns(p, q, r)'
      BY <2>1, <2>2, <2>5 DEF Outruns, Reads
    <3> QED
      BY <3>1 DEF Lists
  <2>6. CASE rec[p][r].state = "confirmed" /\ ~Reads(p, r, "apply")
    <3>1. my[p] = r
      BY <2>1, <2>2, <2>6 DEF PathInv, Rotated
    <3> QED
      BY <2>1, <2>4, <3>1 DEF Lists
  <2> QED
    BY <2>5, <2>6
<1>3. CASE ~(MoveApplyOwn(p, r) /\ p = e) /\ ~(MoveApplyTheirs(q, r) /\ q = e)
  <2>1. my'[p] = my[p]
    BY <1>3, MyStep
  <2>2. known[q] \subseteq known'[q]
    BY <1>0, <1>3, Books DEF SameBook, MoveOverlay, OverlayPeerAddress, MoveApplyOwn,
       MoveApplyTheirs, CollapsePeerAddress, BookType
  <2>3. ASSUME NEW s \in Rots, Outruns(p, q, s) PROVE Outruns(p, q, s)'
    <3>1. rec'[q][s].role = "responder" /\ rec'[q][s].state = "confirmed"
      BY <2>3, Recs DEF Outruns
    <3>2. rec[p][s].role = "initiator"
      BY <1>0, <2>3 DEF Outruns, Talk
    <3>3. ~MoveApplyTheirs(p, s)
      BY <1>0, <3>2 DEF MoveApplyTheirs, RoleFits
    <3>4. ~MoveApplyOwn(p, s)
      <4>1. SUFFICES ASSUME MoveApplyOwn(p, s) PROVE FALSE
        OBVIOUS
      <4>2. Reads(p, s, "apply") /\ HandOff(p) /\ my'[p] = s
        BY <1>0, <4>1 DEF MoveApplyOwn, BookType
      <4>3. my[p] = s
        BY <2>1, <4>2
      <4> QED
        BY <4>2, <4>3 DEF OnionInv, EndInv, RotInv, UseIsFinal, Own
    <3>5. MoveConfirm(p, s) => Reads(p, s, "apply")' \/ rec'[p][s].state # "confirmed"
      BY DEF MoveConfirm, HandTo, Reads
    <3>6. rec'[p][s].state # "confirmed" \/ Reads(p, s, "apply")'
      BY <2>3, <3>3, <3>4, <3>5, Recs, Hands DEF Outruns
    <3> QED
      BY <3>1, <3>6 DEF Outruns
  <2> QED
    BY <2>1, <2>2, <2>3 DEF PathInv, Lists
<1> QED
  BY <1>1, <1>2, <1>3

\* So every part of the paths between the two ends is kept.
LEMMA PathKept ==
    ASSUME ManagerInv, OnionInv, TalkInv, PathInv, NEW e \in Ends, NEW r \in Rots, Move(e, r)
    PROVE  PathInv'
<1>1. BookType'
  <2>0. BookType /\ r \in Addr
    BY DEF PathInv, Addr
  <2> QED
    BY <2>0, Books DEF SameBook, MoveOverlay, OverlayPeerAddress, MoveApplyOwn, MoveApplyTheirs,
       CollapsePeerAddress, BookType
<1> QED
  BY <1>1, KeepsShelf, KeepsFronted, KeepsSole, KeepsAims, KeepsLists, KeepsTurn, KeepsLeads,
     KeepsRotated DEF PathInv

\* Nothing the argument looks at changes.
LEMMA StillKept ==
    ASSUME TalkInv, PathInv, UNCHANGED <<rec, hand, net, inbox, my, known, front, retired, keys>>
    PROVE  TalkInv' /\ PathInv'
<1>1. TalkInv'
  BY DEF TalkInv, Near, Talk, Mail, Reads, Overlaid
<1>2. PathInv'
  BY DEF PathInv, Shelf, Fronted, Sole, Aims, Lists, Outruns, Turn, Leads, Rotated, BookType,
     Current, Reads, Overlaid
<1> QED
  BY <1>1, <1>2

\* An address whose time is over is neither listed nor sent to.
LEMMA SweepKept ==
    ASSUME TalkInv, PathInv, NEW p \in Ends, NEW a, SweepAddr(p, a)
    PROVE  TalkInv' /\ PathInv'
<1>0. UNCHANGED <<rec, hand, net, inbox, my, known, front>>
  BY DEF SweepAddr, manager, wire
<1>1. TalkInv'
  BY <1>0 DEF TalkInv, Near, Talk, Mail, Reads, Overlaid
<1>2. ASSUME NEW q \in Ends PROVE Shelf(q)'
  <2>1. Shelf(q) /\ BookType
    BY DEF PathInv
  <2>2. /\ retired'[q] = (IF q = p THEN retired[q] \ {a} ELSE retired[q])
        /\ keys'[q] = (IF q = p THEN keys[q] \ {a} ELSE keys[q])
        /\ q = p => a \in retired[q]
    BY <2>1 DEF SweepAddr, BookType
  <2> QED
    BY <1>0, <2>1, <2>2 DEF Shelf, Overlaid, Reads
<1>3. BookType'
  BY <1>0 DEF SweepAddr, PathInv, BookType
<1>4. PathInv'
  BY <1>0, <1>2, <1>3 DEF PathInv, Fronted, Sole, Aims, Lists, Outruns, Turn, Leads, Rotated,
     Current, Reads, Overlaid
<1> QED
  BY <1>1, <1>4

\* An envelope moves from the outbox to the inbox: nothing new is under way.
LEMMA ArriveKept ==
    ASSUME ManagerInv, OnionInv, TalkInv, PathInv, NEW m \in net, Arrive(m)
    PROVE  TalkInv' /\ PathInv'
<1>0. /\ UNCHANGED <<rec, hand, my, known, front, retired, keys>>
      /\ DOMAIN inbox = Ends
  BY DEF Arrive, manager, book, ManagerInv, ManagerType
<1>1. ASSUME NEW f \in Ends, NEW k \in Kinds, NEW s \in Rots, Mail(f, k, s)'
      PROVE  Mail(f, k, s)
  <2>1. net' \subseteq net
    BY DEF Arrive
  <2>2. ASSUME NEW n \in inbox'[f] PROVE n \in inbox[f] \/ (n = m /\ f = m.to)
    BY <1>0, <2>2 DEF Arrive
  <2> QED
    BY <1>1, <2>1, <2>2 DEF Mail
<1>2. TalkInv'
  BY <1>0, <1>1 DEF TalkInv, Near, Talk, Reads, Overlaid, Kinds
<1>3. PathInv'
  BY <1>0 DEF PathInv, Shelf, Fronted, Sole, Aims, Lists, Outruns, Turn, Leads, Rotated, BookType,
     Current, Reads, Overlaid
<1> QED
  BY <1>2, <1>3
-----------------------------------------------------------------------------
(* The actions are such steps *)

\* Without trouble no call fails.
LEMMA Calm ==
    ASSUME OnionInv, Untroubled'
    PROVE  ~Fault /\ \A p \in Ends : ~Crash(p) /\ ~Reconnect(p)
BY DEF OnionInv, OnionType, Untroubled, Fault, Crash, Reconnect

\* A step that replaces one record,
LEMMA TouchMove ==
    ASSUME ManagerInv, NEW p \in Ends, NEW r \in Rots, NEW new, SetRec(p, r, new),
           \A q \in Ends \ {p} : hand'[q] = hand[q]
    PROVE  StepOf(p, r) /\ rec'[p][r] = new
BY DEF SetRec, StepOf, ManagerInv, ManagerType

\* and one that replaces none.
LEMMA SameMove ==
    ASSUME NEW p \in Ends, NEW r \in Rots, rec' = rec,
           \A q \in Ends \ {p} : hand'[q] = hand[q]
    PROVE  StepOf(p, r)
BY DEF StepOf

\* A send puts one envelope under way, to the other end,
LEMMA MailSend ==
    ASSUME NEW p \in Ends, NEW k \in Kinds, NEW r \in Rots, Send(p, k, r),
           \A q \in Ends : inbox'[q] \subseteq inbox[q]
    PROVE  Sends(p, k, r)
<1>1. Msg(p, k, r).kind = k /\ Msg(p, k, r).rot = r /\ Msg(p, k, r).to = Other(p)
  BY DEF Msg
<1>2. Other(p) # p
  BY RotationAssumption DEF Other
<1>3. PICK n : n = Msg(p, k, r)
  OBVIOUS
<1> QED
  BY <1>1, <1>2, <1>3 DEF Sends, Send, Mail

\* and without one nothing new is.
LEMMA MailQuiet ==
    ASSUME NEW p \in Ends, NEW k \in Kinds, NEW r \in Rots, net' \subseteq net,
           \A q \in Ends : inbox'[q] \subseteq inbox[q]
    PROVE  Sends(p, k, r)
BY DEF Sends, Mail

\* The fields of a record with one of them replaced.
LEMMA Restated ==
    ASSUME NEW old \in Record, NEW st
    PROVE  /\ [old EXCEPT !.state = st].state = st
           /\ [old EXCEPT !.state = st].role = old.role
           /\ [old EXCEPT !.state = st].minted = old.minted
           /\ [old EXCEPT !.state = st].theirs = old.theirs
           /\ [old EXCEPT !.state = st].iConfirmed = old.iConfirmed
           /\ [old EXCEPT !.state = st].peerConfirmed = old.peerConfirmed
BY DEF Record

\* A step that changes the state in one record.
LEMMA RestateMove ==
    ASSUME ManagerInv, NEW p \in Ends, NEW r \in Rots, NEW st,
           SetRec(p, r, [rec[p][r] EXCEPT !.state = st]),
           \A q \in Ends \ {p} : hand'[q] = hand[q]
    PROVE  StepOf(p, r) /\ Moves(p, r, st)
<1>1. rec[p][r] \in Record
  BY DEF ManagerInv, ManagerType
<1>2. PICK old \in Record : old = rec[p][r]
  BY <1>1
<1>3. PICK new : new = [old EXCEPT !.state = st]
  OBVIOUS
<1>4. StepOf(p, r) /\ rec'[p][r] = new
  BY <1>2, <1>3, TouchMove
<1> QED
  BY <1>2, <1>3, <1>4, Restated DEF Moves, Becomes

\* Begin.
LEMMA BeginMove ==
    ASSUME ManagerInv, OnionInv, TalkInv, Untroubled', NEW p \in Ends, NEW r \in Rots, Begin(p, r)
    PROVE  Move(p, r)
<1>1. /\ r \notin used /\ hand' = hand /\ inbox' = inbox
      /\ SetRec(p, r, NewRec("initiator", "proposed")) /\ Send(p, "request", r)
      /\ UNCHANGED <<my, known, front, retired, keys>>
  BY Calm DEF Begin, book
<1>2. rec[p][r].role = "none" /\ ~rec[p][r].minted /\ ~rec[p][r].theirs
  <2>1. Near(p, r) /\ RoleFits(p, r)
    BY DEF TalkInv, OnionInv, EndInv, RotInv
  <2>2. rec[p][r].state = "none"
    BY <1>1, UnusedId
  <2> QED
    BY <2>1, <2>2 DEF Near, RoleFits
<1>3. StepOf(p, r) /\ rec'[p][r] = NewRec("initiator", "proposed")
  BY <1>1, TouchMove
<1>4. Becomes(p, r, "initiator", "proposed", FALSE, FALSE, FALSE)
  BY <1>3 DEF Becomes, NewRec, NoRecord
<1>5. Sends(p, "request", r)
  BY <1>1, MailSend DEF Kinds
<1>6. MoveBegin(p, r)
  BY <1>1, <1>2, <1>4, <1>5 DEF MoveBegin, SameBook
<1> QED
  BY <1>3, <1>6 DEF Move, RecMove

\* Deadline, decline or cancel.
LEMMA AbandonMove ==
    ASSUME ManagerInv, NEW p \in Ends, NEW r \in Rots, Abandon(p, r)
    PROVE  Move(p, r)
<1>1. /\ rec[p][r].state \in Open /\ hand' = hand /\ inbox' = inbox /\ net' = net
      /\ SetRec(p, r, [rec[p][r] EXCEPT !.state = "failed"])
      /\ UNCHANGED <<my, known, front, retired, keys>>
  BY DEF Abandon, Fail, book, wire
<1>2. StepOf(p, r) /\ Moves(p, r, "failed")
  BY <1>1, RestateMove
<1>3. Sends(p, "cancel", r)
  BY <1>1, MailQuiet DEF Kinds
<1> QED
  BY <1>1, <1>2, <1>3 DEF Move, RecMove, MoveFail, SameBook

\* The cancel that follows a failure.
LEMMA CancelMove ==
    ASSUME ManagerInv, OnionInv, Untroubled', NEW p \in Ends, NEW r \in Rots, CleanCancel(p, r)
    PROVE  Move(p, r)
<1>1. /\ hand' = hand /\ inbox' = inbox /\ Send(p, "cancel", r) /\ rec' = rec
      /\ UNCHANGED <<my, known, front, retired, keys>>
  BY Calm DEF CleanCancel, book
<1>2. Sends(p, "cancel", r)
  BY <1>1, MailSend DEF Kinds
<1> QED
  BY <1>1, <1>2, SameMove DEF Move, HandMove, MoveQuiet, SameBook

\* An accept by the user's client.
LEMMA ClientAcceptMove ==
    ASSUME ManagerInv, OnionInv, Untroubled', NEW p \in Ends, NEW r \in Rots, ClientAccept(p, r)
    PROVE  Move(p, r)
<1>1. /\ rec[p][r].role = "responder" /\ rec[p][r].state = "requested"
      /\ hand' = hand /\ inbox' = inbox /\ Send(p, "accept", r)
      /\ SetRec(p, r, [rec[p][r] EXCEPT !.state = "accepted"])
      /\ UNCHANGED <<my, known, front, retired, keys>>
  BY Calm DEF ClientAccept, Accept, book
<1>2. StepOf(p, r) /\ Moves(p, r, "accepted")
  BY <1>1, RestateMove
<1>3. Sends(p, "accept", r)
  BY <1>1, MailSend DEF Kinds
<1> QED
  BY <1>1, <1>2, <1>3 DEF Move, RecMove, MoveAccept, SameBook

\* The reader takes up an entry.
LEMMA Taken ==
    ASSUME ManagerInv, NEW p \in Ends, NEW m, NEW k, Takes(p, m, k)
    PROVE  m.rot \in Rots /\ HandFree(p) /\ Mail(p, k, m.rot) /\ rec[p][m.rot] \in Record
<1>1. m \in inbox[p] /\ hand[p].pc = "idle" /\ m.kind = k
  BY DEF Takes
<1>2. m.rot \in Rots
  BY <1>1 DEF ManagerInv, InboxIds, ManagerType
<1> QED
  BY <1>1, <1>2 DEF Mail, HandFree, Steps, ManagerInv, ManagerType

\* It goes on with the one in hand.
LEMMA InHand ==
    ASSUME ManagerInv, NEW p \in Ends, hand[p].pc # "idle"
    PROVE  hand[p].msg.rot \in Rots /\ rec[p][hand[p].msg.rot] \in Record
BY DEF ManagerInv, HandIds, ManagerType

\* The hand after an entry was dealt with, and when it is kept.
LEMMA AckHand ==
    ASSUME ManagerInv, NEW p \in Ends, NEW m, Ack(p, m)
    PROVE  /\ HandOff(p) /\ \A q \in Ends \ {p} : hand'[q] = hand[q]
           /\ \A q \in Ends : inbox'[q] \subseteq inbox[q]
<1>1. Idle.pc = "idle"
  BY DEF Idle
<1> QED
  BY <1>1, AckInbox DEF HandOff, Steps

\* The same when the entry stays in hand.
LEMMA StayHand ==
    ASSUME ManagerInv, NEW p \in Ends, NEW pc, NEW m, Stay(p, pc, m)
    PROVE  /\ HandTo(p, m.rot, pc) /\ \A q \in Ends \ {p} : hand'[q] = hand[q]
           /\ pc \notin Steps => HandOff(p)
           /\ \A q \in Ends : inbox'[q] \subseteq inbox[q]
BY StayInbox DEF HandOff, HandTo

\* An entry that changes nothing.
LEMMA QuietMove ==
    ASSUME ManagerInv, NEW p \in Ends, NEW r \in Rots, rec' = rec,
           HandFree(p) \/ hand[p].pc = "minted", HandOff(p),
           \A q \in Ends \ {p} : hand'[q] = hand[q],
           \A q \in Ends : inbox'[q] \subseteq inbox[q],
           net' \subseteq net \/ Send(p, "cancel", r), SameBook
    PROVE  Move(p, r)
<1>1. Sends(p, "cancel", r)
  BY MailSend, MailQuiet DEF Kinds
<1> QED
  BY <1>1, SameMove DEF Move, HandMove, MoveQuiet

\* A request refused,
LEMMA RefuseMove ==
    ASSUME ManagerInv, OnionInv, Untroubled', NEW p \in Ends, NEW m, RefuseRequest(p, m)
    PROVE  m.rot \in Rots /\ Move(p, m.rot)
<1>1. /\ Takes(p, m, "request") /\ Ack(p, m) /\ Send(p, "cancel", m.rot) /\ rec' = rec /\ SameBook
  BY Calm DEF RefuseRequest, manager, book, SameBook
<1> QED
  BY <1>1, Taken, AckHand, QuietMove

\* a request taken up,
LEMMA AskMove ==
    ASSUME ManagerInv, OnionInv, Untroubled', NEW p \in Ends, NEW m, OnRequest(p, m)
    PROVE  m.rot \in Rots /\ Move(p, m.rot)
<1>1. /\ Takes(p, m, "request") /\ Stay(p, "accept", m) /\ net' = net /\ SameBook
      /\ perPeer[p] = None /\ rec[p][m.rot].state = "none"
      /\ SetRec(p, m.rot, NewRec("responder", "requested"))
  BY DEF OnRequest, book, SameBook
<1>2. /\ m.rot \in Rots /\ HandFree(p) /\ Mail(p, "request", m.rot)
      /\ HandOff(p) /\ \A q \in Ends \ {p} : hand'[q] = hand[q]
      /\ \A q \in Ends : inbox'[q] \subseteq inbox[q]
  BY <1>1, Taken, StayHand DEF Steps
<1>3. StepOf(p, m.rot) /\ rec'[p][m.rot] = NewRec("responder", "requested")
  BY <1>1, <1>2, TouchMove
<1>4. Becomes(p, m.rot, "responder", "requested", FALSE, FALSE, FALSE)
  BY <1>3 DEF Becomes, NewRec, NoRecord
<1>5. Sends(p, "cancel", m.rot)
  BY <1>1, <1>2, MailQuiet DEF Kinds
<1>6. MoveAsk(p, m.rot)
  BY <1>1, <1>2, <1>4, <1>5 DEF MoveAsk
<1> QED
  BY <1>2, <1>3, <1>6 DEF Move, RecMove

\* the new address,
LEMMA AddressMove ==
    ASSUME ManagerInv, NEW p \in Ends, NEW m, OnAddress(p, m)
    PROVE  m.rot \in Rots /\ Move(p, m.rot)
<1>1. Takes(p, m, "address") /\ net' = net /\ SameBook
  BY DEF OnAddress, book, SameBook
<1>2. m.rot \in Rots /\ HandFree(p) /\ Mail(p, "address", m.rot) /\ rec[p][m.rot] \in Record
  BY <1>1, Taken
<1>3. CASE rec[p][m.rot].state = "accepted"
  <2>1. PICK old \in Record : old = rec[p][m.rot]
    BY <1>2
  <2>2. PICK new : new = [old EXCEPT !.theirs = TRUE, !.state = "address_exchanged"]
    OBVIOUS
  <2>3. SetRec(p, m.rot, new) /\ Stay(p, "overlay", m)
    BY <1>3, <2>1, <2>2 DEF OnAddress
  <2>4. /\ HandTo(p, m.rot, "overlay") /\ \A q \in Ends \ {p} : hand'[q] = hand[q]
        /\ \A q \in Ends : inbox'[q] \subseteq inbox[q]
    BY <2>3, StayHand
  <2>5. StepOf(p, m.rot) /\ rec'[p][m.rot] = new
    BY <1>2, <2>3, <2>4, TouchMove
  <2>6. /\ new.role = old.role /\ new.state = "address_exchanged" /\ new.minted = old.minted
        /\ new.theirs = TRUE /\ new.peerConfirmed = old.peerConfirmed
    BY <2>2 DEF Record
  <2>7. Sends(p, "cancel", m.rot)
    BY <1>1, <1>2, <2>4, MailQuiet DEF Kinds
  <2>8. MoveAddress(p, m.rot)
    BY <1>1, <1>2, <1>3, <2>1, <2>4, <2>5, <2>6, <2>7 DEF MoveAddress, Becomes
  <2> QED
    BY <1>2, <2>5, <2>8 DEF Move, RecMove
<1>4. CASE rec[p][m.rot].state # "accepted"
  <2>1. Ack(p, m) /\ rec' = rec
    BY <1>4 DEF OnAddress
  <2> QED
    BY <1>1, <1>2, <2>1, AckHand, QuietMove
<1> QED
  BY <1>3, <1>4

\* a cancel,
LEMMA OnCancelMove ==
    ASSUME ManagerInv, NEW p \in Ends, NEW m, OnCancel(p, m)
    PROVE  m.rot \in Rots /\ Move(p, m.rot)
<1>1. Takes(p, m, "cancel") /\ net' = net /\ SameBook
  BY DEF OnCancel, book, SameBook
<1>2. m.rot \in Rots /\ HandFree(p)
  BY <1>1, Taken
<1>3. CASE rec[p][m.rot].state \in Open
  <2>1. /\ SetRec(p, m.rot, [rec[p][m.rot] EXCEPT !.state = "failed"])
        /\ Stay(p, "unmint", m) \/ Ack(p, m)
    BY <1>3 DEF OnCancel
  <2>2. /\ HandOff(p) /\ \A q \in Ends \ {p} : hand'[q] = hand[q]
        /\ \A q \in Ends : inbox'[q] \subseteq inbox[q]
    BY <2>1, StayHand, AckHand DEF Steps
  <2>3. StepOf(p, m.rot) /\ Moves(p, m.rot, "failed")
    BY <1>2, <2>1, <2>2, RestateMove
  <2>4. Sends(p, "cancel", m.rot)
    BY <1>1, <1>2, <2>2, MailQuiet DEF Kinds
  <2> QED
    BY <1>1, <1>2, <1>3, <2>2, <2>3, <2>4 DEF Move, RecMove, MoveFail
<1>4. CASE rec[p][m.rot].state \notin Open
  <2>1. Ack(p, m) /\ rec' = rec
    BY <1>4 DEF OnCancel
  <2> QED
    BY <1>1, <1>2, <2>1, AckHand, QuietMove
<1> QED
  BY <1>3, <1>4

\* an accept,
LEMMA MintMove ==
    ASSUME ManagerInv, OnionInv, Untroubled', NEW p \in Ends, NEW m, OnAccept(p, m)
    PROVE  m.rot \in Rots /\ Move(p, m.rot)
<1>1. Takes(p, m, "accept") /\ net' = net /\ SameBook
  BY DEF OnAccept, book, SameBook
<1>2. m.rot \in Rots /\ HandFree(p) /\ Mail(p, "accept", m.rot)
  BY <1>1, Taken
<1>3. CASE rec[p][m.rot].role = "initiator" /\ rec[p][m.rot].state = "proposed"
  <2>1. Stay(p, "minted", m) /\ rec' = rec
    BY <1>3, Calm DEF OnAccept
  <2>2. /\ HandTo(p, m.rot, "minted") /\ \A q \in Ends \ {p} : hand'[q] = hand[q]
        /\ \A q \in Ends : inbox'[q] \subseteq inbox[q]
    BY <2>1, StayHand
  <2>3. Sends(p, "cancel", m.rot)
    BY <1>1, <1>2, <2>2, MailQuiet DEF Kinds
  <2> QED
    BY <1>1, <1>2, <1>3, <2>1, <2>2, <2>3, SameMove DEF Move, HandMove, MoveMint
<1>4. CASE ~(rec[p][m.rot].role = "initiator" /\ rec[p][m.rot].state = "proposed")
  <2>1. Ack(p, m) /\ rec' = rec
    BY <1>4 DEF OnAccept
  <2> QED
    BY <1>1, <1>2, <2>1, AckHand, QuietMove
<1> QED
  BY <1>3, <1>4

\* and a confirm, the first or the second of the two.
LEMMA ConfirmMove ==
    ASSUME ManagerInv, NEW p \in Ends, NEW m, OnConfirm(p, m)
    PROVE  m.rot \in Rots /\ Move(p, m.rot)
<1>1. Takes(p, m, "confirm") /\ net' = net /\ SameBook
  BY DEF OnConfirm, book, SameBook
<1>2. m.rot \in Rots /\ HandFree(p) /\ Mail(p, "confirm", m.rot) /\ rec[p][m.rot] \in Record
  BY <1>1, Taken
<1>3. CASE MayConfirm(p, m.rot)
  <2>1. PICK old \in Record : old = rec[p][m.rot]
    BY <1>2
  <2>2. PICK flagged : flagged = [old EXCEPT !.peerConfirmed = TRUE]
    OBVIOUS
  <2>3. /\ flagged \in Record /\ flagged.peerConfirmed /\ flagged.role = old.role
        /\ flagged.minted = old.minted /\ flagged.theirs = old.theirs
        /\ flagged.state = "address_exchanged"
    BY <1>3, <2>1, <2>2 DEF Record, MayConfirm
  <2>4. /\ Confirms(p, m.rot, flagged)
        /\ IF flagged.iConfirmed THEN Stay(p, "apply", m) ELSE Ack(p, m)
    BY <1>3, <2>1, <2>2 DEF OnConfirm
  <2>5. CASE flagged.iConfirmed
    <3>1. PICK new : new = [flagged EXCEPT !.state = "confirmed"]
      OBVIOUS
    <3>2. SetRec(p, m.rot, new) /\ Stay(p, "apply", m)
      BY <2>3, <2>4, <2>5, <3>1 DEF Confirms
    <3>3. /\ HandTo(p, m.rot, "apply") /\ \A q \in Ends \ {p} : hand'[q] = hand[q]
          /\ \A q \in Ends : inbox'[q] \subseteq inbox[q]
      BY <3>2, StayHand
    <3>4. StepOf(p, m.rot) /\ rec'[p][m.rot] = new
      BY <1>2, <3>2, <3>3, TouchMove
    <3>5. /\ new.state = "confirmed" /\ new.role = old.role /\ new.minted = old.minted
          /\ new.theirs = old.theirs /\ new.peerConfirmed
      BY <2>3, <3>1, Restated
    <3>6. Sends(p, "cancel", m.rot)
      BY <1>1, <1>2, <3>3, MailQuiet DEF Kinds
    <3>7. MoveConfirm(p, m.rot)
      BY <1>1, <1>2, <1>3, <2>1, <3>3, <3>4, <3>5, <3>6 DEF MoveConfirm, MayConfirm
    <3> QED
      BY <1>2, <3>4, <3>7 DEF Move, RecMove
  <2>6. CASE ~flagged.iConfirmed
    <3>2. SetRec(p, m.rot, flagged) /\ Ack(p, m)
      BY <2>3, <2>4, <2>6 DEF Confirms
    <3>3. /\ HandOff(p) /\ \A q \in Ends \ {p} : hand'[q] = hand[q]
          /\ \A q \in Ends : inbox'[q] \subseteq inbox[q]
      BY <3>2, AckHand
    <3>4. StepOf(p, m.rot) /\ rec'[p][m.rot] = flagged
      BY <1>2, <3>2, <3>3, TouchMove
    <3>6. Sends(p, "cancel", m.rot)
      BY <1>1, <1>2, <3>3, MailQuiet DEF Kinds
    <3>7. MoveConfirm(p, m.rot)
      BY <1>1, <1>2, <1>3, <2>1, <2>3, <3>3, <3>4, <3>6 DEF MoveConfirm, MayConfirm
    <3> QED
      BY <1>2, <3>4, <3>7 DEF Move, RecMove
  <2> QED
    BY <2>5, <2>6
<1>4. CASE ~MayConfirm(p, m.rot)
  <2>1. Ack(p, m) /\ rec' = rec
    BY <1>4 DEF OnConfirm
  <2> QED
    BY <1>1, <1>2, <2>1, AckHand, QuietMove
<1> QED
  BY <1>3, <1>4

\* The reader accepts,
LEMMA AutoAcceptMove ==
    ASSUME ManagerInv, OnionInv, Untroubled', NEW p \in Ends, AutoAccept(p)
    PROVE  \E r \in Rots : Move(p, r)
<1>1. PICK m : m = hand[p].msg
  OBVIOUS
<1>2. /\ hand[p].pc = "accept" /\ Accept(p, m.rot) /\ Ack(p, m) /\ SameBook
  BY <1>1 DEF AutoAccept, At, book, SameBook
<1>3. m.rot \in Rots /\ HandFree(p)
  BY <1>1, <1>2, InHand DEF HandFree, Steps
<1>4. /\ HandOff(p) /\ \A q \in Ends \ {p} : hand'[q] = hand[q]
      /\ \A q \in Ends : inbox'[q] \subseteq inbox[q]
  BY <1>2, AckHand
<1>5. CASE rec[p][m.rot].role = "responder" /\ rec[p][m.rot].state = "requested"
  <2>1. /\ SetRec(p, m.rot, [rec[p][m.rot] EXCEPT !.state = "accepted"])
        /\ Send(p, "accept", m.rot)
    BY <1>2, <1>5, Calm DEF Accept
  <2>2. StepOf(p, m.rot) /\ Moves(p, m.rot, "accepted")
    BY <1>3, <1>4, <2>1, RestateMove
  <2>3. Sends(p, "accept", m.rot)
    BY <1>3, <1>4, <2>1, MailSend DEF Kinds
  <2> QED
    BY <1>2, <1>3, <1>4, <1>5, <2>2, <2>3 DEF Move, RecMove, MoveAccept
<1>6. CASE ~(rec[p][m.rot].role = "responder" /\ rec[p][m.rot].state = "requested")
  <2>1. rec' = rec /\ net' = net
    BY <1>2, <1>6 DEF Accept
  <2> QED
    BY <1>2, <1>3, <1>4, <2>1, QuietMove
<1> QED
  BY <1>5, <1>6

\* overlays the peer's address,
LEMMA OverlayMove ==
    ASSUME ManagerInv, OnionInv, Untroubled', NEW p \in Ends, Overlay(p)
    PROVE  \E r \in Rots : Move(p, r)
<1>1. PICK m : m = hand[p].msg
  OBVIOUS
<1>2. /\ hand[p].pc = "overlay" /\ OverlayPeerAddress(p, m.rot) /\ Stay(p, "ship", m)
      /\ rec' = rec /\ net' = net /\ UNCHANGED <<my, retired>>
  BY <1>1, Calm DEF Overlay, At
<1>3. m.rot \in Rots /\ Reads(p, m.rot, "overlay")
  BY <1>1, <1>2, InHand DEF Reads
<1>4. /\ HandTo(p, m.rot, "ship") /\ \A q \in Ends \ {p} : hand'[q] = hand[q]
      /\ \A q \in Ends : inbox'[q] \subseteq inbox[q]
  BY <1>2, StayHand
<1>5. Sends(p, "cancel", m.rot)
  BY <1>2, <1>3, <1>4, MailQuiet DEF Kinds
<1>6. MoveOverlay(p, m.rot)
  BY <1>2, <1>3, <1>4, <1>5 DEF MoveOverlay
<1> QED
  BY <1>2, <1>3, <1>4, <1>6, SameMove DEF Move, HandMove

\* looks again after minting,
LEMMA AfterMintMove ==
    ASSUME ManagerInv, OnionInv, Untroubled', NEW p \in Ends, AfterMint(p)
    PROVE  \E r \in Rots : Move(p, r)
<1>1. PICK m : m = hand[p].msg
  OBVIOUS
<1>2. hand[p].pc = "minted" /\ SameBook
  BY DEF AfterMint, At, book, SameBook
<1>3. m.rot \in Rots /\ Reads(p, m.rot, "minted") /\ rec[p][m.rot] \in Record
  BY <1>1, <1>2, InHand DEF Reads
<1>4. CASE rec[p][m.rot].state = "proposed"
  <2>1. PICK old \in Record : old = rec[p][m.rot]
    BY <1>3
  <2>2. PICK new : new = [old EXCEPT !.minted = TRUE, !.state = "address_exchanged"]
    OBVIOUS
  <2>3. SetRec(p, m.rot, new) /\ Send(p, "address", m.rot) /\ Stay(p, "ship", m)
    BY <1>1, <1>4, <2>1, <2>2, Calm DEF AfterMint
  <2>4. /\ HandTo(p, m.rot, "ship") /\ \A q \in Ends \ {p} : hand'[q] = hand[q]
        /\ \A q \in Ends : inbox'[q] \subseteq inbox[q]
    BY <2>3, StayHand
  <2>5. StepOf(p, m.rot) /\ rec'[p][m.rot] = new
    BY <1>3, <2>3, <2>4, TouchMove
  <2>6. /\ new.role = old.role /\ new.state = "address_exchanged" /\ new.minted = TRUE
        /\ new.theirs = old.theirs /\ new.peerConfirmed = old.peerConfirmed
    BY <2>2 DEF Record
  <2>7. Sends(p, "address", m.rot)
    BY <1>3, <2>3, <2>4, MailSend DEF Kinds
  <2>8. MoveMinted(p, m.rot)
    BY <1>2, <1>3, <1>4, <2>1, <2>4, <2>5, <2>6, <2>7 DEF MoveMinted, Becomes
  <2> QED
    BY <1>3, <2>5, <2>8 DEF Move, RecMove
<1>5. CASE rec[p][m.rot].state # "proposed"
  <2>1. Stay(p, "unmint", m) /\ rec' = rec /\ net' = net
    BY <1>1, <1>5 DEF AfterMint, UnwindMint
  <2>2. /\ HandOff(p) /\ \A q \in Ends \ {p} : hand'[q] = hand[q]
        /\ \A q \in Ends : inbox'[q] \subseteq inbox[q]
    BY <2>1, StayHand DEF Steps
  <2> QED
    BY <1>2, <1>3, <2>1, <2>2, QuietMove
<1> QED
  BY <1>4, <1>5

\* confirms (never as the second one, by ShipsFirst),
LEMMA ShipMove ==
    ASSUME ManagerInv, OnionInv, Untroubled', NEW p \in Ends, ShipConfirm(p)
    PROVE  \E r \in Rots : Move(p, r)
<1>1. PICK m : m = hand[p].msg
  OBVIOUS
<1>2. hand[p].pc = "ship" /\ SameBook
  BY DEF ShipConfirm, At, book, SameBook
<1>3. m.rot \in Rots /\ Reads(p, m.rot, "ship") /\ rec[p][m.rot] \in Record
  BY <1>1, <1>2, InHand DEF Reads
<1>4. PICK old \in Record : old = rec[p][m.rot]
  BY <1>3
<1>5. PICK flagged : flagged = [old EXCEPT !.iConfirmed = TRUE]
  OBVIOUS
<1>6. ~old.peerConfirmed
  BY <1>1, <1>2, <1>4 DEF ManagerInv, ShipsFirst
<1>7. /\ flagged.peerConfirmed = old.peerConfirmed /\ flagged.role = old.role
      /\ flagged.state = old.state /\ flagged.minted = old.minted
      /\ flagged.theirs = old.theirs
  BY <1>5 DEF Record
<1>8. SetRec(p, m.rot, flagged) /\ Send(p, "confirm", m.rot) /\ Ack(p, m)
  BY <1>1, <1>4, <1>5, <1>6, <1>7, Calm DEF ShipConfirm, Confirms
<1>9. /\ HandOff(p) /\ \A q \in Ends \ {p} : hand'[q] = hand[q]
      /\ \A q \in Ends : inbox'[q] \subseteq inbox[q]
  BY <1>8, AckHand
<1>10. StepOf(p, m.rot) /\ rec'[p][m.rot] = flagged
  BY <1>3, <1>8, <1>9, TouchMove
<1>11. Sends(p, "confirm", m.rot)
  BY <1>3, <1>8, <1>9, MailSend DEF Kinds
<1>12. MoveShip(p, m.rot)
  BY <1>2, <1>3, <1>4, <1>7, <1>9, <1>10, <1>11 DEF MoveShip, Moves, Becomes
<1> QED
  BY <1>3, <1>10, <1>12 DEF Move, RecMove

\* deletes an onion,
LEMMA UnmintMove ==
    ASSUME ManagerInv, NEW p \in Ends, Unmint(p) \/ DelOld(p)
    PROVE  \E r \in Rots : Move(p, r)
<1>1. PICK m : m = hand[p].msg
  OBVIOUS
<1>2. /\ hand[p].pc \in {"unmint", "delold"} /\ Ack(p, m) /\ rec' = rec /\ net' = net /\ SameBook
  BY <1>1 DEF Unmint, DelOld, At, manager, book, SameBook
<1>3. m.rot \in Rots /\ HandFree(p)
  BY <1>1, <1>2, InHand DEF HandFree, Steps
<1> QED
  BY <1>2, <1>3, AckHand, QuietMove

\* rotates to the onion minted,
LEMMA ApplyOwnMove ==
    ASSUME ManagerInv, OnionInv, Untroubled', NEW p \in Ends, ApplyOwn(p)
    PROVE  \E r \in Rots : Move(p, r)
<1>1. PICK m : m = hand[p].msg
  OBVIOUS
<1>2. /\ hand[p].pc = "apply" /\ rec[p][m.rot].minted /\ RotateOwnOnion(p, m.rot)
      /\ rec' = rec /\ net' = net /\ UNCHANGED <<known, front, retired, keys>>
      /\ \/ /\ hand' = [hand EXCEPT ![p] = [pc |-> "delold", msg |-> m, old |-> Evicted(p)]]
            /\ inbox' = inbox
         \/ Ack(p, m)
  BY <1>1, Calm DEF ApplyOwn, At, manager
<1>3. m.rot \in Rots /\ Reads(p, m.rot, "apply")
  BY <1>1, <1>2, InHand DEF Reads
<1>4. /\ HandOff(p) /\ \A q \in Ends \ {p} : hand'[q] = hand[q]
      /\ \A q \in Ends : inbox'[q] \subseteq inbox[q]
  BY <1>2, AckHand DEF HandOff, Steps, ManagerInv, ManagerType
<1>5. Sends(p, "cancel", m.rot)
  BY <1>2, <1>3, <1>4, MailQuiet DEF Kinds
<1>6. MoveApplyOwn(p, m.rot)
  BY <1>2, <1>3, <1>4, <1>5 DEF MoveApplyOwn, RotateOwnOnion
<1> QED
  BY <1>2, <1>3, <1>4, <1>6, SameMove DEF Move, HandMove

\* and collapses to the peer's address.
LEMMA ApplyTheirsMove ==
    ASSUME ManagerInv, OnionInv, Untroubled', NEW p \in Ends, ApplyTheirs(p)
    PROVE  \E r \in Rots : Move(p, r)
<1>1. PICK m : m = hand[p].msg
  OBVIOUS
<1>2. /\ hand[p].pc = "apply" /\ rec[p][m.rot].theirs /\ CollapsePeerAddress(p, m.rot)
      /\ rec' = rec /\ net' = net /\ UNCHANGED <<my, keys>> /\ Ack(p, m)
  BY <1>1, Calm DEF ApplyTheirs, At, manager
<1>3. m.rot \in Rots /\ Reads(p, m.rot, "apply")
  BY <1>1, <1>2, InHand DEF Reads
<1>4. /\ HandOff(p) /\ \A q \in Ends \ {p} : hand'[q] = hand[q]
      /\ \A q \in Ends : inbox'[q] \subseteq inbox[q]
  BY <1>2, AckHand
<1>5. Sends(p, "cancel", m.rot)
  BY <1>2, <1>3, <1>4, MailQuiet DEF Kinds
<1>6. MoveApplyTheirs(p, m.rot)
  BY <1>2, <1>3, <1>4, <1>5 DEF MoveApplyTheirs
<1> QED
  BY <1>2, <1>3, <1>4, <1>6, SameMove DEF Move, HandMove
-----------------------------------------------------------------------------
\* In a run without trouble: what the two ends know and how they reach each other.
ConnInv == Untroubled => TalkInv /\ PathInv

\* Every step of a run without trouble keeps what the two ends know and how they
\* reach each other.
LEMMA ConnNext ==
    ASSUME ManagerInv, OnionInv, TalkInv, PathInv, Untroubled', Next
    PROVE  TalkInv' /\ PathInv'
<1>0. ASSUME NEW p \in Ends, NEW r \in Rots, Move(p, r) PROVE TalkInv' /\ PathInv'
  BY <1>0, TalkKept, PathKept
<1>1. ASSUME NEW p \in Ends, NEW r \in Rots,
             \/ Begin(p, r) \/ Abandon(p, r) \/ CleanCancel(p, r) \/ ClientAccept(p, r)
      PROVE  TalkInv' /\ PathInv'
  BY <1>0, <1>1, BeginMove, AbandonMove, CancelMove, ClientAcceptMove
<1>2. ASSUME NEW p \in Ends, NEW r \in Rots, CleanDel(p, r)
      PROVE  TalkInv' /\ PathInv'
  BY <1>2, StillKept DEF CleanDel, wire, book
<1>3. ASSUME NEW p \in Ends, Inbound(p)
      PROVE  TalkInv' /\ PathInv'
  <2>1. ASSUME NEW m \in inbox[p],
               \/ RefuseRequest(p, m) \/ OnRequest(p, m) \/ OnAccept(p, m)
               \/ OnAddress(p, m) \/ OnConfirm(p, m) \/ OnCancel(p, m)
        PROVE  m.rot \in Rots /\ Move(p, m.rot)
    BY <2>1, RefuseMove, AskMove, MintMove, AddressMove, ConfirmMove, OnCancelMove
  <2>2. CASE \/ AutoAccept(p) \/ AfterMint(p) \/ Unmint(p) \/ Overlay(p) \/ ShipConfirm(p)
             \/ ApplyOwn(p) \/ DelOld(p) \/ ApplyTheirs(p)
    <3>1. \E r \in Rots : Move(p, r)
      BY <2>2, AutoAcceptMove, AfterMintMove, UnmintMove, OverlayMove, ShipMove, ApplyOwnMove,
         ApplyTheirsMove
    <3> QED
      BY <1>0, <3>1
  <2> QED
    BY <1>0, <1>3, <2>1, <2>2 DEF Inbound
<1>4. ASSUME NEW p \in Ends, GraceEnds(p) \/ SweepOwn(p)
      PROVE  TalkInv' /\ PathInv'
  BY <1>4, StillKept DEF GraceEnds, SweepOwn, manager, wire
<1>5. ASSUME NEW p \in Ends, NEW a \in Addr, SweepAddr(p, a)
      PROVE  TalkInv' /\ PathInv'
  BY <1>5, SweepKept
<1>6. ASSUME NEW m \in net, Arrive(m)
      PROVE  TalkInv' /\ PathInv'
  BY <1>6, ArriveKept
<1>7. \A p \in Ends : ~Crash(p) /\ ~Reconnect(p)
  BY Calm
<1> QED
  BY <1>1, <1>2, <1>3, <1>4, <1>5, <1>6, <1>7 DEF Next

\* Every step of the system only grows.
LEMMA NextGrows ==
    ASSUME ManagerInv, OnionType, Next
    PROVE  OnlyGrows
<1>1. ASSUME NEW p \in Ends, Inbound(p) PROVE OnlyGrows
  BY <1>1, EntryGrows, ReaderGrows DEF Inbound
<1>2. ASSUME NEW p \in Ends, NEW r \in Rots,
             \/ Begin(p, r) \/ Abandon(p, r) \/ CleanDel(p, r) \/ CleanCancel(p, r)
             \/ ClientAccept(p, r)
      PROVE  OnlyGrows
  BY <1>2, ClientGrows
<1>3. ASSUME NEW p \in Ends,
             \/ GraceEnds(p) \/ SweepOwn(p) \/ Crash(p) \/ Reconnect(p)
             \/ \E a \in Addr : SweepAddr(p, a)
      PROVE  OnlyGrows
  BY <1>3, OtherGrows
<1>4. ASSUME NEW m \in net, Arrive(m) PROVE OnlyGrows
  BY <1>4, ArriveGrows
<1> QED
  BY <1>1, <1>2, <1>3, <1>4 DEF Next

\* Once in trouble the invariant claims nothing, and trouble is never undone.
LEMMA ConnStep == ManagerInv /\ OnionInv /\ ConnInv /\ [Next]_vars => ConnInv'
<1> SUFFICES ASSUME ManagerInv, OnionInv, ConnInv, [Next]_vars, Untroubled'
             PROVE  TalkInv' /\ PathInv'
  BY DEF ConnInv
<1>1. CASE Next
  <2>1. Untroubled
    BY <1>1, NextGrows DEF OnionInv, OnlyGrows
  <2> QED
    BY <1>1, <2>1, ConnNext DEF ConnInv
<1>2. CASE UNCHANGED vars
  BY <1>2, StillKept DEF ConnInv, vars, manager, wire, book, counters, Untroubled
<1> QED
  BY <1>1, <1>2

\* At the start each end lists the first onion of the other.
LEMMA ConnInit == Init => ConnInv
<1> SUFFICES ASSUME Init PROVE TalkInv /\ PathInv
  BY DEF ConnInv
<1>1. /\ NoRecord.role = "none" /\ NoRecord.state = "none" /\ ~NoRecord.minted
      /\ ~NoRecord.theirs /\ ~NoRecord.peerConfirmed /\ Idle.pc = "idle"
  BY DEF NoRecord, Idle
<1>2. /\ \A p \in Ends, r \in Rots : rec[p][r] = NoRecord
      /\ \A p \in Ends : hand[p] = Idle /\ inbox[p] = {} /\ my[p] = p
      /\ net = {}
  BY DEF Init
<1>3. \A p \in Ends, r \in Rots : \A pc \in Steps : ~Reads(p, r, pc)
  BY <1>1, <1>2 DEF Reads, Steps
<1>4. \A p \in Ends, r \in Rots, k \in Kinds : ~Mail(p, k, r)
  BY <1>2 DEF Mail
<1>5. TalkInv
  BY <1>1, <1>2, <1>3, <1>4 DEF TalkInv, Near, Talk, Steps, Kinds
<1>6. BookType
  BY DEF Init, BookType, Addr
<1>7. ASSUME NEW q \in Ends PROVE Shelf(q) /\ Other(q) \in Ends \ Rots
  <2>1. Other(q) \in Ends /\ Ends \cap Rots = {}
    BY RotationAssumption DEF Other
  <2> QED
    BY <2>1 DEF Init, Shelf
<1>8. ASSUME NEW p \in Ends, NEW q \in Ends, p # q PROVE Aims(p, q) /\ Lists(p, q)
  <2>1. Other(q) = p
    BY <1>8, RotationAssumption DEF Other
  <2> QED
    BY <1>2, <2>1 DEF Init, Aims, Lists
<1>9. PathInv
  BY <1>1, <1>2, <1>3, <1>6, <1>7, <1>8 DEF PathInv, Fronted, Sole, Turn, Leads, Rotated, Steps,
     Current, Open
<1> QED
  BY <1>5, <1>9

\* Without failures, and whatever the two ends begin, decline, cancel or let run
\* out in whatever order, what either end sends goes to an onion the other serves
\* and names one the other resolves, but for the two exceptions NotCutOff and
\* ReachesPeer state: OverlayPeerAddress, CollapsePeerAddress and RotateOwnOnion
\* never cut the two off, for any number of rotations.
THEOREM RotationStaysConnected == Spec => []StaysConnected
<1>1. OnionInv /\ ConnInv => StaysConnected
  <2> SUFFICES ASSUME OnionInv, Untroubled, TalkInv, PathInv, NEW p \in Ends
               PROVE  /\ my[p] \in keys[Other(p)] \/ \E r \in Rots : Ahead(Other(p), r)
                      /\ \/ front[p] \in served[Other(p)]
                         \/ \E r \in Rots : front[p] = r /\ rec[Other(p)][r].state = "failed"
    BY DEF ConnInv, StaysConnected, NotCutOff, ReachesPeer
  <2>1. PICK q \in Ends : q = Other(p) /\ q # p /\ Other(q) = p
    BY RotationAssumption DEF Other
  <2>2. my[p] \in keys[q] \/ \E r \in Rots : Ahead(q, r)
    <3>1. Lists(p, q) /\ Shelf(q)
      BY <2>1 DEF PathInv
    <3>2. ASSUME NEW r \in Rots, Outruns(p, q, r) PROVE Ahead(q, r)
      BY <2>1, <3>2 DEF Outruns, Ahead, Reads
    <3> QED
      BY <3>1, <3>2 DEF Lists, Shelf
  <2>3. \/ front[p] \in served[q]
        \/ \E r \in Rots : front[p] = r /\ rec[q][r].state = "failed"
    <3>1. Aims(q, p)
      BY <2>1 DEF PathInv
    <3>2. reconnects = 0 /\ my[q] \in served[q] /\ \A r \in Rots : MintServed(q, r)
      BY DEF Untroubled, OnionInv, EndInv, BookInv, RotInv
    <3> QED
      BY <3>1, <3>2 DEF Aims, MintServed, Current
  <2> QED
    BY <2>1, <2>2, <2>3
<1> QED
  BY <1>1, InvInit, InvStep, OnionInit, OnionStep, ConnInit, ConnStep, PTL DEF Spec
=============================================================================
