--------------------------- MODULE SiblingProofs ----------------------------
(***************************************************************************)
(* The devices of one person keep their logs together.  First the read     *)
(* receipt that only one of them answers with, for any number of devices,  *)
(* handlers and envelopes; then the sweep by which one device pulls from   *)
(* another what it missed, for any number of messages, any batch size and  *)
(* any trouble; last the delete of a person on two linked devices, for any *)
(* number of deletes, pairings, handlers, failures and stops and any       *)
(* clocks.                                                                 *)
(***************************************************************************)
EXTENDS Receipts, GapFill, ContactDelete, FiniteSetTheorems, WellFoundedInduction, TLAPS

-----------------------------------------------------------------------------
(* Read receipts: what the devices know and who stands by it *)


Times == Nat \ {0}
Steps == [pc : {"idle", "send", "stamp", "record"}, env : Nat, at : Nat]

ReceiptTypes ==
    /\ stamp \in [Devices -> {Suppressed} \cup Nat]
    /\ origin \in [Devices -> BOOLEAN]
    /\ gen \in [Devices -> Nat]
    /\ records \in [Devices -> SUBSET (Envelopes \X Times)]
    /\ ship \in [Devices -> [Handlers -> Steps]]
    /\ out \in [Envelopes -> {"none", "queued", "sent", "failed"}]
    /\ owner \in [Envelopes -> Devices \cup {"none"}]
    /\ reports \subseteq Envelopes
    /\ claims \subseteq Devices \X Times \X Nat
    /\ now \in Times
    /\ cut \in BOOLEAN

\* Whoever ships has a time, and past the send an envelope of its own; only
\* settled envelopes are reported; only a real stamp is first-hand.
InHand ==
    /\ \A d \in Devices, h \in Handlers :
          /\ ship[d][h].pc # "idle" => ship[d][h].at \in Times
          /\ ship[d][h].pc \in {"stamp", "record"} =>
                /\ ship[d][h].env \in Envelopes
                /\ owner[ship[d][h].env] = d /\ out[ship[d][h].env] # "none"
    /\ \A e \in reports : out[e] \in {"sent", "failed"}
    /\ \A e \in Envelopes : out[e] # "none" => owner[e] \in Devices
    /\ \A d \in Devices : origin[d] => stamp[d] \in Times

\* The envelope e stands behind the stamp of d: sent, on record, or about to be.
Stands(d, e) ==
    /\ owner[e] = d /\ out[e] # "none"
    /\ \/ out[e] = "sent"
       \/ <<e, stamp[d]>> \in records[d]
       \/ \E h \in Handlers : ship[d][h] = [pc |-> "record", env |-> e, at |-> stamp[d]]

\* A first-hand stamp has its envelope, unless a stop came in between.
Witnessed == \A d \in Devices : origin[d] => cut \/ \E e \in Envelopes : Stands(d, e)

\* A claim of this generation is outdated, or its device still stands by it.
Backed(g) == \E x \in Devices : gen[x] > g \/ (gen[x] = g /\ origin[x])

\* The newest generation is that of a device which is not acknowledged, or is so
\* first-hand.
Top(x) ==
    /\ \A y \in Devices : gen[y] <= gen[x]
    /\ stamp[x] \in {0, Suppressed} \/ origin[x]

ReceiptInv ==
    /\ ReceiptTypes /\ InHand /\ Witnessed
    /\ \A c \in claims : Backed(c[3])
    /\ \E x \in Devices : Top(x)

-----------------------------------------------------------------------------
\* Nothing is stamped and nothing under way at the start.
LEMMA InitReceipt == ReceiptsInit => ReceiptInv
<1> SUFFICES ASSUME ReceiptsInit PROVE ReceiptInv
  OBVIOUS
<1>1. idle \in Steps /\ idle.pc = "idle"
  BY DEF idle, Steps
<1>2. ReceiptTypes
  <2>1. ship \in [Devices -> [Handlers -> Steps]]
    BY <1>1 DEF ReceiptsInit
  <2>2. 0 \in Nat /\ 1 \in Times
    BY DEF Times
  <2>3. QED
    BY <2>1, <2>2 DEF ReceiptsInit, ReceiptTypes
<1>3. InHand /\ Witnessed
  <2>1. \A d \in Devices, h \in Handlers : ship[d][h].pc = "idle"
    BY <1>1 DEF ReceiptsInit
  <2>2. (\A d \in Devices : ~origin[d]) /\ (\A e \in Envelopes : out[e] = "none") /\ reports = {}
    BY DEF ReceiptsInit
  <2>3. QED
    BY <2>1, <2>2 DEF InHand, Witnessed
<1>4. \E x \in Devices : Top(x)
  <2>1. PICK x \in Devices : TRUE
    BY ConstantsAssumption
  <2>2. Top(x)
    BY DEF ReceiptsInit, Top
  <2>3. QED
    BY <2>2
<1>5. QED
  BY <1>2, <1>3, <1>4 DEF ReceiptsInit, ReceiptInv

\* What an outcome does to the row of one device.
LEMMA OutcomeRow ==
    ASSUME ReceiptTypes, NEW d \in Devices, NEW e \in Envelopes,
           applyReceiptOutcome(d, e) \/ EntryNotFound(d, e)
    PROVE  /\ records' \in [Devices -> SUBSET (Envelopes \X Times)]
           /\ \/ UNCHANGED <<stamp, origin, gen>>
              \/ /\ stamp[d] \in Times
                 /\ stamp' = [stamp EXCEPT ![d] = 0]
                 /\ origin' = [origin EXCEPT ![d] = FALSE]
                 /\ gen' = [gen EXCEPT ![d] = @ + 1]
           /\ \A x \in Devices : \A r \in records[x] : r \in records'[x] \/
                 (x = d /\ r[1] = e /\ (out[e] # "failed" \/ stamp[d] # r[2] \/ stamp' = [stamp EXCEPT ![d] = 0]))
<1>1. CASE UNCHANGED <<records, stamp, origin, gen>>
  BY <1>1 DEF ReceiptTypes
<1>2. ASSUME NEW r \in records[d], r[1] = e,
             records' = [records EXCEPT ![d] = @ \ {r}],
             \/ ClearReceiptEnvelope(d, r)
             \/ out[e] # "failed" /\ UNCHANGED <<stamp, origin, gen>>
      PROVE  /\ records' \in [Devices -> SUBSET (Envelopes \X Times)]
             /\ \/ UNCHANGED <<stamp, origin, gen>>
                \/ /\ stamp[d] \in Times
                   /\ stamp' = [stamp EXCEPT ![d] = 0]
                   /\ origin' = [origin EXCEPT ![d] = FALSE]
                   /\ gen' = [gen EXCEPT ![d] = @ + 1]
             /\ \A x \in Devices : \A q \in records[x] : q \in records'[x] \/
                   (x = d /\ q[1] = e /\ (out[e] # "failed" \/ stamp[d] # q[2] \/ stamp' = [stamp EXCEPT ![d] = 0]))
  <2>1. records[d] \subseteq Envelopes \X Times /\ r[2] \in Times
    BY DEF ReceiptTypes
  <2>2. records' \in [Devices -> SUBSET (Envelopes \X Times)]
    BY <1>2, <2>1 DEF ReceiptTypes
  <2>3. \A x \in Devices : \A q \in records[x] : q \in records'[x] \/ (x = d /\ q = r)
    BY <1>2 DEF ReceiptTypes
  <2>4. QED
    BY <1>2, <2>1, <2>2, <2>3 DEF ClearReceiptEnvelope
<1>3. QED
  BY <1>1, <1>2 DEF applyReceiptOutcome, EntryNotFound, ClearReceiptEnvelope

\* Every variable keeps its type.
LEMMA ReceiptTypesStep == ASSUME ReceiptTypes, InHand, ReceiptsNext PROVE ReceiptTypes'
<1>0. idle \in Steps
  BY DEF idle, Steps
<1>1. ASSUME NEW d \in Devices, NEW h \in Handlers,
             MarkRead(d, h) \/ Send(d, h) \/ MarkReadReceiptSent(d, h) \/ RecordReceiptEnvelope(d, h)
      PROVE  ReceiptTypes'
  <2>0. ship[d][h] \in Steps
    BY DEF ReceiptTypes
  <2>1. CASE MarkRead(d, h)
    <3>1. [pc |-> "send", env |-> 0, at |-> now] \in Steps
      BY DEF Steps, ReceiptTypes, Times
    <3>2. ship' \in [Devices -> [Handlers -> Steps]]
      <4>1. CASE ship' = ship
        BY <4>1 DEF ReceiptTypes
      <4>2. CASE ship' = [ship EXCEPT ![d][h] = [pc |-> "send", env |-> 0, at |-> now]]
        BY <3>1, <4>2 DEF ReceiptTypes
      <4>3. QED
        BY <2>1, <4>1, <4>2 DEF MarkRead
    <3>3. /\ stamp' \in [Devices -> {Suppressed} \cup Nat]
          /\ origin' \in [Devices -> BOOLEAN]
      <4>1. CASE disabled[d]
        BY <2>1, <4>1 DEF MarkRead, ReceiptTypes
      <4>2. CASE ~disabled[d]
        BY <2>1, <4>2 DEF MarkRead, ReceiptTypes
      <4>3. QED
        BY <4>1, <4>2
    <3>4. QED
      BY <2>1, <3>2, <3>3 DEF MarkRead, ReceiptTypes
  <2>2. CASE Send(d, h)
    <3>1. ASSUME NEW e \in Envelopes, out' = [out EXCEPT ![e] = "queued"], owner' = [owner EXCEPT ![e] = d],
                 ship' = [ship EXCEPT ![d][h] = [@ EXCEPT !.pc = "stamp", !.env = e]]
          PROVE  ReceiptTypes'
      <4>1. e \in Nat
        BY ConstantsAssumption DEF Envelopes
      <4>2. [ship[d][h] EXCEPT !.pc = "stamp", !.env = e] \in Steps
        BY <4>1, <2>0 DEF Steps
      <4>4. ship' \in [Devices -> [Handlers -> Steps]]
        <5>1. DEFINE new == [ship[d][h] EXCEPT !.pc = "stamp", !.env = e]
        <5>2. new \in Steps /\ ship' = [ship EXCEPT ![d][h] = new]
          BY <3>1, <4>2
        <5>3. HIDE DEF new
        <5>4. QED
          BY <5>2 DEF ReceiptTypes
      <4>5. QED
        BY <2>2, <3>1, <4>4 DEF Send, ReceiptTypes
    <3>2. ASSUME ship' = [ship EXCEPT ![d][h] = idle], UNCHANGED <<out, owner>> PROVE ReceiptTypes'
      <4>1. ship' \in [Devices -> [Handlers -> Steps]]
        BY <3>2, <1>0 DEF ReceiptTypes
      <4>2. QED
        BY <2>2, <3>2, <4>1 DEF Send, ReceiptTypes
    <3>3. QED
      BY <2>2, <3>1, <3>2 DEF Send
  <2>3. CASE MarkReadReceiptSent(d, h)
    <3>1. [ship[d][h] EXCEPT !.pc = "record"] \in Steps
      BY <2>0 DEF Steps
    <3>2. ship' \in [Devices -> [Handlers -> Steps]]
      BY <2>3, <3>1 DEF MarkReadReceiptSent, ReceiptTypes
    <3>3. stamp' \in [Devices -> {Suppressed} \cup Nat] /\ origin' \in [Devices -> BOOLEAN]
      BY <2>3, <2>0 DEF MarkReadReceiptSent, ReceiptTypes, Steps
    <3>4. QED
      BY <2>3, <3>2, <3>3 DEF MarkReadReceiptSent, ReceiptTypes
  <2>4. CASE RecordReceiptEnvelope(d, h)
    <3>1. <<ship[d][h].env, ship[d][h].at>> \in Envelopes \X Times
      BY <2>4 DEF RecordReceiptEnvelope, InHand
    <3>2. records' \in [Devices -> SUBSET (Envelopes \X Times)]
      BY <2>4, <3>1 DEF RecordReceiptEnvelope, ReceiptTypes
    <3>3. ship' \in [Devices -> [Handlers -> Steps]]
      BY <2>4, <1>0 DEF RecordReceiptEnvelope, ReceiptTypes
    <3>4. QED
      BY <2>4, <3>2, <3>3 DEF RecordReceiptEnvelope, ReceiptTypes
  <2>5. QED
    BY <1>1, <2>1, <2>2, <2>3, <2>4
<1>2. ASSUME NEW d \in Devices, Snapshot(d) PROVE ReceiptTypes'
  <2>1. stamp[d] \in Times
    BY <1>2 DEF Snapshot, ReceiptTypes, Times, Suppressed
  <2>2. claims' \subseteq Devices \X Times \X Nat
    BY <1>2, <2>1 DEF Snapshot, ReceiptTypes
  <2>3. QED
    BY <1>2, <2>2 DEF Snapshot, ReceiptTypes
<1>3. ASSUME NEW d \in Devices, SetDisableReadReceipts(d) \/ SuppressPendingReadReceipts(d)
      PROVE  ReceiptTypes'
  BY <1>3 DEF SetDisableReadReceipts, SuppressPendingReadReceipts, ReceiptTypes
<1>12. ASSUME NEW d \in Devices, NEW h \in Handlers, StampFails(d, h) \/ RecordFails(d, h)
       PROVE  ReceiptTypes'
  <2>1. ship[d][h] \in Steps
    BY DEF ReceiptTypes
  <2>2. [ship[d][h] EXCEPT !.pc = "record"] \in Steps
    BY <2>1 DEF Steps
  <2>3. ship' \in [Devices -> [Handlers -> Steps]]
    <3>1. CASE StampFails(d, h)
      BY <2>2, <3>1 DEF StampFails, ReceiptTypes
    <3>2. CASE RecordFails(d, h)
      BY <1>0, <3>2 DEF RecordFails, ReceiptTypes
    <3>3. QED
      BY <1>12, <3>1, <3>2
  <2>4. QED
    BY <1>12, <2>3 DEF StampFails, RecordFails, ReceiptTypes
<1>4. ASSUME NEW d \in Devices, Restart(d) PROVE ReceiptTypes'
  <2>1. ship' \in [Devices -> [Handlers -> Steps]]
    BY <1>4, <1>0 DEF Restart, ReceiptTypes
  <2>2. QED
    BY <1>4, <2>1 DEF Restart, ReceiptTypes
<1>5. ASSUME NEW d \in Devices, NEW e \in Envelopes,
             applyReceiptOutcome(d, e) \/ EntryNotFound(d, e),
             UNCHANGED <<ship, out, owner, claims, now, cut>>, reports' \subseteq reports
      PROVE  ReceiptTypes'
  <2>1. /\ stamp' \in [Devices -> {Suppressed} \cup Nat]
        /\ origin' \in [Devices -> BOOLEAN] /\ gen' \in [Devices -> Nat]
    <3>1. CASE UNCHANGED <<stamp, origin, gen>>
      BY <3>1 DEF ReceiptTypes
    <3>2. CASE /\ stamp' = [stamp EXCEPT ![d] = 0]
               /\ origin' = [origin EXCEPT ![d] = FALSE]
               /\ gen' = [gen EXCEPT ![d] = @ + 1]
      BY <3>2 DEF ReceiptTypes
    <3>3. QED
      BY <1>5, <3>1, <3>2, OutcomeRow
  <2>2. records' \in [Devices -> SUBSET (Envelopes \X Times)]
    BY <1>5, OutcomeRow
  <2>3. QED
    BY <1>5, <2>1, <2>2 DEF ReceiptTypes
<1>6. ASSUME NEW d \in Devices, NEW e \in Envelopes, reconcileReceiptEnvelopes(d, e) PROVE ReceiptTypes'
  BY <1>5, <1>6 DEF reconcileReceiptEnvelopes
<1>7. ASSUME NEW e \in Envelopes, OnDelivery(e) PROVE ReceiptTypes'
  <2>1. owner[e] \in Devices
    BY <1>7 DEF OnDelivery, InHand
  <2>2. QED
    BY <1>5, <1>7, <2>1 DEF OnDelivery
<1>8. ASSUME NEW e \in Envelopes, NEW s \in {"sent", "failed"}, Settle(e, s) PROVE ReceiptTypes'
  <2>1. reports' \subseteq Envelopes
    BY <1>8 DEF Settle, ReceiptTypes
  <2>2. QED
    BY <1>8, <2>1 DEF Settle, ReceiptTypes
<1>9. ASSUME NEW c \in claims, ApplyReceiptSentClaim(c) PROVE ReceiptTypes'
  <2>1. c[1] \in Devices /\ c[2] \in Times /\ c[3] \in Nat
    BY DEF ReceiptTypes
  <2>2. QED
    BY <1>9, <2>1 DEF ApplyReceiptSentClaim, ReceiptTypes, Times
<1>10. CASE Tick
  BY <1>10 DEF Tick, ReceiptTypes, Times
<1>11. QED
  BY <1>1, <1>2, <1>3, <1>4, <1>6, <1>7, <1>8, <1>9, <1>10, <1>12 DEF ReceiptsNext

\* Whoever ships goes on with its own envelope and time.
LEMMA InHandStep == ASSUME ReceiptTypes, InHand, ReceiptsNext PROVE InHand'
<1>1. ASSUME NEW d \in Devices, NEW h \in Handlers,
             MarkRead(d, h) \/ Send(d, h) \/ MarkReadReceiptSent(d, h) \/ RecordReceiptEnvelope(d, h)
      PROVE  InHand'
  <2>0. ship[d][h] \in Steps
    BY DEF ReceiptTypes
  <2>1. CASE MarkRead(d, h)
    <3>1. CASE disabled[d]
      BY <2>1, <3>1 DEF MarkRead, ReceiptTypes, InHand
    <3>2. CASE ~disabled[d]
      <4>1. \A x \in Devices, k \in Handlers :
               ship'[x][k] = ship[x][k] \/ ship'[x][k] = [pc |-> "send", env |-> 0, at |-> now]
        BY <2>1, <3>2 DEF MarkRead, ReceiptTypes
      <4>2. now \in Times /\ UNCHANGED <<out, owner, reports, origin, stamp>>
        BY <2>1, <3>2 DEF MarkRead, ReceiptTypes
      <4>3. QED
        BY <4>1, <4>2 DEF InHand
    <3>3. QED
      BY <3>1, <3>2
  <2>2. CASE Send(d, h)
    <3>1. ASSUME NEW e \in Envelopes, out[e] = "none",
                 out' = [out EXCEPT ![e] = "queued"], owner' = [owner EXCEPT ![e] = d],
                 ship' = [ship EXCEPT ![d][h] = [@ EXCEPT !.pc = "stamp", !.env = e]]
          PROVE  InHand'
      <4>1. /\ ship'[d][h].pc = "stamp" /\ ship'[d][h].env = e /\ ship'[d][h].at = ship[d][h].at
            /\ \A x \in Devices, k \in Handlers : x # d \/ k # h => ship'[x][k] = ship[x][k]
        BY <2>0, <3>1 DEF ReceiptTypes, Steps
      <4>2. \A f \in Envelopes : f # e => out'[f] = out[f] /\ owner'[f] = owner[f]
        BY <3>1 DEF ReceiptTypes
      <4>3. out'[e] = "queued" /\ owner'[e] = d
        BY <3>1 DEF ReceiptTypes
      <4>4. reports' = reports /\ origin' = origin /\ stamp' = stamp
        BY <2>2 DEF Send
      <4>5. ASSUME NEW x \in Devices, NEW k \in Handlers
            PROVE  /\ ship'[x][k].pc # "idle" => ship'[x][k].at \in Times
                   /\ ship'[x][k].pc \in {"stamp", "record"} =>
                         /\ ship'[x][k].env \in Envelopes
                         /\ owner'[ship'[x][k].env] = x /\ out'[ship'[x][k].env] # "none"
        <5>1. CASE x = d /\ k = h
          BY <5>1, <2>2, <4>1, <4>3 DEF Send, InHand
        <5>2. CASE x # d \/ k # h
          <6>1. ship'[x][k] = ship[x][k]
            BY <4>1, <5>2
          <6>2. ship[x][k].pc \in {"stamp", "record"} => ship[x][k].env # e
            BY <3>1 DEF InHand
          <6>3. QED
            BY <4>2, <6>1, <6>2 DEF InHand
        <5>3. QED
          BY <5>1, <5>2
      <4>6. \A f \in reports' : out'[f] \in {"sent", "failed"}
        BY <3>1, <4>2, <4>4 DEF InHand, ReceiptTypes
      <4>7. QED
        BY <4>2, <4>3, <4>4, <4>5, <4>6 DEF InHand
    <3>2. ASSUME ship' = [ship EXCEPT ![d][h] = idle], UNCHANGED <<out, owner>> PROVE InHand'
      BY <2>2, <3>2 DEF Send, ReceiptTypes, InHand, idle
    <3>3. QED
      BY <2>2, <3>1, <3>2 DEF Send
  <2>3. CASE MarkReadReceiptSent(d, h)
    <3>1. \A x \in Devices, k \in Handlers :
             /\ ship'[x][k].env = ship[x][k].env /\ ship'[x][k].at = ship[x][k].at
             /\ ship'[x][k].pc = ship[x][k].pc \/ (x = d /\ k = h)
      BY <2>0, <2>3 DEF MarkReadReceiptSent, ReceiptTypes, Steps
    <3>2. \A x \in Devices : origin'[x] => stamp'[x] \in Times
      <4>1. ship[d][h].at \in Times
        BY <2>3 DEF MarkReadReceiptSent, InHand
      <4>2. CASE stamp[d] # 0
        BY <2>3, <4>2 DEF MarkReadReceiptSent, InHand
      <4>3. CASE stamp[d] = 0
        <5>1. stamp'[d] = ship[d][h].at
          BY <2>3, <4>3 DEF MarkReadReceiptSent, ReceiptTypes
        <5>2. \A x \in Devices : x # d => origin'[x] = origin[x] /\ stamp'[x] = stamp[x]
          BY <2>3, <4>3 DEF MarkReadReceiptSent, ReceiptTypes
        <5>3. QED
          BY <4>1, <5>1, <5>2 DEF InHand
      <4>4. QED
        BY <4>2, <4>3
    <3>3. QED
      BY <2>3, <3>1, <3>2 DEF MarkReadReceiptSent, InHand
  <2>4. CASE RecordReceiptEnvelope(d, h)
    BY <2>4 DEF RecordReceiptEnvelope, ReceiptTypes, InHand, idle
  <2>5. QED
    BY <1>1, <2>1, <2>2, <2>3, <2>4
<1>2. ASSUME NEW d \in Devices, Snapshot(d) PROVE InHand'
  BY <1>2 DEF Snapshot, InHand
<1>3. ASSUME NEW d \in Devices, SetDisableReadReceipts(d) \/ SuppressPendingReadReceipts(d)
      PROVE  InHand'
  <2>1. \A x \in Devices : stamp[x] \in Times => stamp'[x] = stamp[x]
    BY <1>3 DEF SetDisableReadReceipts, SuppressPendingReadReceipts, ReceiptTypes, Times
  <2>2. UNCHANGED <<origin, ship, owner, out, reports>>
    BY <1>3 DEF SetDisableReadReceipts, SuppressPendingReadReceipts
  <2>3. QED
    BY <2>1, <2>2 DEF InHand
<1>12. ASSUME NEW d \in Devices, NEW h \in Handlers, StampFails(d, h) \/ RecordFails(d, h)
       PROVE  InHand'
  <2>1. ship[d][h] \in Steps
    BY DEF ReceiptTypes
  <2>2. CASE StampFails(d, h)
    <3>1. \A x \in Devices, k \in Handlers :
             /\ ship'[x][k].env = ship[x][k].env /\ ship'[x][k].at = ship[x][k].at
             /\ ship'[x][k].pc = ship[x][k].pc \/ (x = d /\ k = h)
      BY <2>1, <2>2 DEF StampFails, ReceiptTypes, Steps
    <3>2. QED
      BY <2>2, <3>1 DEF StampFails, InHand
  <2>3. CASE RecordFails(d, h)
    BY <2>3 DEF RecordFails, ReceiptTypes, InHand, idle
  <2>4. QED
    BY <1>12, <2>2, <2>3
<1>4. ASSUME NEW d \in Devices, Restart(d) PROVE InHand'
  <2>1. \A x \in Devices, k \in Handlers : ship'[x][k] = ship[x][k] \/ ship'[x][k].pc = "idle"
    BY <1>4 DEF Restart, ReceiptTypes, idle
  <2>2. QED
    BY <1>4, <2>1 DEF Restart, InHand
<1>5. ASSUME NEW d \in Devices, NEW e \in Envelopes,
             applyReceiptOutcome(d, e) \/ EntryNotFound(d, e),
             UNCHANGED <<ship, out, owner, claims, now, cut>>, reports' \subseteq reports
      PROVE  InHand'
  <2>1. \A x \in Devices : origin'[x] => origin[x] /\ stamp'[x] = stamp[x]
    <3>1. CASE UNCHANGED <<stamp, origin, gen>>
      BY <3>1
    <3>2. CASE /\ stamp' = [stamp EXCEPT ![d] = 0]
               /\ origin' = [origin EXCEPT ![d] = FALSE]
      BY <3>2 DEF ReceiptTypes
    <3>3. QED
      BY <1>5, <3>1, <3>2, OutcomeRow
  <2>2. QED
    BY <1>5, <2>1 DEF InHand
<1>6. ASSUME NEW d \in Devices, NEW e \in Envelopes, reconcileReceiptEnvelopes(d, e) PROVE InHand'
  BY <1>5, <1>6 DEF reconcileReceiptEnvelopes
<1>7. ASSUME NEW e \in Envelopes, OnDelivery(e) PROVE InHand'
  <2>1. owner[e] \in Devices
    BY <1>7 DEF OnDelivery, InHand
  <2>2. QED
    BY <1>5, <1>7, <2>1 DEF OnDelivery
<1>8. ASSUME NEW e \in Envelopes, NEW s \in {"sent", "failed"}, Settle(e, s) PROVE InHand'
  <2>1. \A f \in Envelopes : out'[f] = out[f] \/ (f = e /\ out'[f] \in {"sent", "failed"} /\ out[f] = "queued")
    BY <1>8 DEF Settle, ReceiptTypes
  <2>2. \A f \in reports' : out'[f] \in {"sent", "failed"}
    BY <1>8, <2>1 DEF Settle, InHand, ReceiptTypes
  <2>3. UNCHANGED <<ship, owner, origin, stamp>>
    BY <1>8 DEF Settle
  <2>4. QED
    BY <2>1, <2>2, <2>3 DEF InHand
<1>9. ASSUME NEW c \in claims, ApplyReceiptSentClaim(c) PROVE InHand'
  <2>1. c[1] \in Devices
    BY DEF ReceiptTypes
  <2>2. \A x \in Devices : origin'[x] => origin[x] /\ stamp'[x] = stamp[x]
    BY <1>9, <2>1 DEF ApplyReceiptSentClaim, ReceiptTypes
  <2>3. QED
    BY <1>9, <2>2 DEF ApplyReceiptSentClaim, InHand
<1>10. CASE Tick
  BY <1>10 DEF Tick, InHand
<1>11. QED
  BY <1>1, <1>2, <1>3, <1>4, <1>6, <1>7, <1>8, <1>9, <1>10, <1>12 DEF ReceiptsNext

\* A first-hand stamp keeps its envelope.
LEMMA WitnessedStep == ASSUME ReceiptTypes, InHand, Witnessed, ReceiptsNext PROVE Witnessed'
<1>0. SUFFICES ASSUME NEW x \in Devices, origin'[x], ~cut'
               PROVE  \E f \in Envelopes : Stands(x, f)'
  BY DEF Witnessed
<1>a. cut' \/ cut' = cut \/ \E d \in Devices : Restart(d)
  BY DEF ReceiptsNext, MarkRead, Send, MarkReadReceiptSent, StampFails, RecordReceiptEnvelope,
         RecordFails, Snapshot, SetDisableReadReceipts, SuppressPendingReadReceipts,
         reconcileReceiptEnvelopes, OnDelivery, Settle, ApplyReceiptSentClaim, Tick
<1>b. ~cut
  BY <1>0, <1>a DEF Restart, ReceiptTypes
<1>c. origin[x] => \E f \in Envelopes : Stands(x, f)
  BY <1>b DEF Witnessed
<1>d. ASSUME UNCHANGED <<stamp, origin, records, ship, owner>>,
             \A f \in Envelopes : /\ out[f] # "none" => out'[f] # "none"
                                  /\ out[f] = "sent" => out'[f] = "sent"
      PROVE  \E f \in Envelopes : Stands(x, f)'
  <2>1. PICK f \in Envelopes : Stands(x, f)
    BY <1>0, <1>c, <1>d
  <2>2. Stands(x, f)'
    BY <1>d, <2>1 DEF Stands
  <2>3. QED
    BY <2>2
<1>1. ASSUME NEW d \in Devices, NEW h \in Handlers, MarkRead(d, h)
      PROVE  \E f \in Envelopes : Stands(x, f)'
  <2>1. origin[x] /\ stamp'[x] = stamp[x]
    BY <1>0, <1>1 DEF MarkRead, ReceiptTypes, InHand, Times
  <2>2. PICK f \in Envelopes : Stands(x, f)
    BY <1>c, <2>1
  <2>3. \A k \in Handlers : ship[x][k].pc = "record" => ship'[x][k] = ship[x][k]
    BY <1>1 DEF MarkRead, ReceiptTypes
  <2>4. UNCHANGED <<owner, out, records>>
    BY <1>1 DEF MarkRead
  <2>5. Stands(x, f)'
    BY <2>1, <2>2, <2>3, <2>4 DEF Stands
  <2>6. QED
    BY <2>5
<1>2. ASSUME NEW d \in Devices, NEW h \in Handlers, Send(d, h)
      PROVE  \E f \in Envelopes : Stands(x, f)'
  <2>1. origin[x] /\ stamp'[x] = stamp[x] /\ records' = records
    BY <1>0, <1>2 DEF Send
  <2>2. PICK f \in Envelopes : Stands(x, f)
    BY <1>c, <2>1
  <2>3. \A k \in Handlers : ship[x][k].pc = "record" => ship'[x][k] = ship[x][k]
    <3>1. ASSUME NEW s, ship' = [ship EXCEPT ![d][h] = s]
          PROVE  \A k \in Handlers : ship[x][k].pc = "record" => ship'[x][k] = ship[x][k]
      BY <1>2, <3>1 DEF Send, ReceiptTypes
    <3>2. QED
      BY <1>2, <3>1 DEF Send
  <2>4. out'[f] = out[f] /\ owner'[f] = owner[f]
    BY <1>2, <2>2 DEF Send, ReceiptTypes, Stands
  <2>5. Stands(x, f)'
    BY <2>1, <2>2, <2>3, <2>4 DEF Stands
  <2>6. QED
    BY <2>5
<1>3. ASSUME NEW d \in Devices, NEW h \in Handlers, MarkReadReceiptSent(d, h)
      PROVE  \E f \in Envelopes : Stands(x, f)'
  <2>0. ship[d][h] \in Steps /\ ship[d][h].pc = "stamp"
    BY <1>3 DEF ReceiptTypes, MarkReadReceiptSent
  <2>1. \A k \in Handlers : ship[x][k].pc = "record" => ship'[x][k] = ship[x][k]
    BY <1>3 DEF MarkReadReceiptSent, ReceiptTypes
  <2>2. UNCHANGED <<owner, out, records>>
    BY <1>3 DEF MarkReadReceiptSent
  <2>3. CASE origin[x] /\ stamp'[x] = stamp[x]
    <3>1. PICK f \in Envelopes : Stands(x, f)
      BY <1>c, <2>3
    <3>2. Stands(x, f)'
      BY <2>1, <2>2, <2>3, <3>1 DEF Stands
    <3>3. QED
      BY <3>2
  <2>4. CASE x = d /\ stamp[d] = 0
    <3>1. stamp'[d] = ship[d][h].at
      BY <1>3, <2>4 DEF MarkReadReceiptSent, ReceiptTypes
    <3>2. ship'[d][h] = [pc |-> "record", env |-> ship[d][h].env, at |-> ship[d][h].at]
      BY <1>3, <2>0 DEF MarkReadReceiptSent, ReceiptTypes, Steps
    <3>3. ship[d][h].env \in Envelopes /\ owner[ship[d][h].env] = d /\ out[ship[d][h].env] # "none"
      BY <2>0 DEF InHand
    <3>4. PICK e \in Envelopes : e = ship[d][h].env
      BY <3>3
    <3>5. Stands(x, e)'
      BY <2>2, <2>4, <3>1, <3>2, <3>3, <3>4 DEF Stands
    <3>6. QED
      BY <3>5
  <2>5. QED
    BY <1>0, <1>3, <2>3, <2>4 DEF MarkReadReceiptSent, ReceiptTypes
<1>4. ASSUME NEW d \in Devices, NEW h \in Handlers, RecordReceiptEnvelope(d, h)
      PROVE  \E f \in Envelopes : Stands(x, f)'
  <2>1. origin[x] /\ stamp' = stamp /\ out' = out /\ owner' = owner
    BY <1>0, <1>4 DEF RecordReceiptEnvelope
  <2>2. PICK f \in Envelopes : Stands(x, f)
    BY <1>c, <2>1
  <2>3. records[x] \subseteq records'[x]
    BY <1>4 DEF RecordReceiptEnvelope, ReceiptTypes
  <2>4. \A k \in Handlers : ship[x][k] = [pc |-> "record", env |-> f, at |-> stamp[x]] =>
           ship'[x][k] = ship[x][k] \/ <<f, stamp[x]>> \in records'[x]
    BY <1>4 DEF RecordReceiptEnvelope, ReceiptTypes
  <2>5. Stands(x, f)'
    BY <2>1, <2>2, <2>3, <2>4 DEF Stands
  <2>6. QED
    BY <2>5
<1>5. ASSUME NEW d \in Devices, Snapshot(d) PROVE \E f \in Envelopes : Stands(x, f)'
  BY <1>5, <1>d DEF Snapshot
<1>15. ASSUME NEW d \in Devices, NEW h \in Handlers, StampFails(d, h) \/ RecordFails(d, h)
       PROVE  \E f \in Envelopes : Stands(x, f)'
  <2>1. StampFails(d, h)
    BY <1>0, <1>15 DEF RecordFails
  <2>2. origin[x] /\ UNCHANGED <<stamp, owner, out, records>>
    BY <1>0, <2>1 DEF StampFails
  <2>3. \A k \in Handlers : ship[x][k].pc = "record" => ship'[x][k] = ship[x][k]
    BY <2>1 DEF StampFails, ReceiptTypes
  <2>4. PICK f \in Envelopes : Stands(x, f)
    BY <1>c, <2>2
  <2>5. Stands(x, f)'
    BY <2>2, <2>3, <2>4 DEF Stands
  <2>6. QED
    BY <2>5
<1>6. ASSUME NEW d \in Devices, SetDisableReadReceipts(d) \/ SuppressPendingReadReceipts(d)
      PROVE  \E f \in Envelopes : Stands(x, f)'
  <2>1. origin[x] /\ stamp'[x] = stamp[x] /\ UNCHANGED <<owner, out, records, ship>>
    BY <1>0, <1>6 DEF SetDisableReadReceipts, SuppressPendingReadReceipts, ReceiptTypes, InHand, Times
  <2>2. PICK f \in Envelopes : Stands(x, f)
    BY <1>c, <2>1
  <2>3. Stands(x, f)'
    BY <2>1, <2>2 DEF Stands
  <2>4. QED
    BY <2>3
<1>7. ASSUME NEW d \in Devices, Restart(d) PROVE \E f \in Envelopes : Stands(x, f)'
  <2>1. \A h \in Handlers : ship[d][h].pc # "record"
    BY <1>0, <1>7 DEF Restart
  <2>2. \A h \in Handlers : ship[x][h].pc = "record" => ship'[x][h] = ship[x][h]
    BY <1>7, <2>1 DEF Restart, ReceiptTypes
  <2>3. origin[x] /\ UNCHANGED <<stamp, out, owner, records>>
    BY <1>0, <1>7 DEF Restart
  <2>4. PICK f \in Envelopes : Stands(x, f)
    BY <1>c, <2>3
  <2>5. Stands(x, f)'
    BY <2>2, <2>3, <2>4 DEF Stands
  <2>6. QED
    BY <2>5
<1>8. ASSUME NEW d \in Devices, NEW e \in Envelopes,
             applyReceiptOutcome(d, e) \/ EntryNotFound(d, e),
             out[e] \in {"sent", "failed"}, UNCHANGED <<ship, out, owner>>
      PROVE  \E f \in Envelopes : Stands(x, f)'
  <2>1. origin[x] /\ stamp'[x] = stamp[x]
    <3>1. CASE UNCHANGED <<stamp, origin, gen>>
      BY <1>0, <3>1
    <3>2. CASE /\ stamp' = [stamp EXCEPT ![d] = 0]
               /\ origin' = [origin EXCEPT ![d] = FALSE]
      BY <1>0, <3>2 DEF ReceiptTypes
    <3>3. QED
      BY <1>8, <3>1, <3>2, OutcomeRow
  <2>2. PICK f \in Envelopes : Stands(x, f)
    BY <1>c, <2>1
  <2>3. <<f, stamp[x]>> \in records[x] => <<f, stamp[x]>> \in records'[x] \/ out[f] = "sent"
    <3>1. SUFFICES ASSUME <<f, stamp[x]>> \in records[x], <<f, stamp[x]>> \notin records'[x]
                   PROVE  out[f] = "sent"
      OBVIOUS
    <3>2. /\ x = d /\ f = e
          /\ out[e] # "failed" \/ stamp[d] # stamp[x] \/ stamp' = [stamp EXCEPT ![d] = 0]
      <4>1. \E q \in records[x] : q[1] = f /\ q[2] = stamp[x] /\ q \notin records'[x]
        <5>1. <<f, stamp[x]>>[1] = f /\ <<f, stamp[x]>>[2] = stamp[x]
          OBVIOUS
        <5>2. QED
          BY <3>1, <5>1, Zenon
      <4>2. PICK q \in records[x] : q[1] = f /\ q[2] = stamp[x] /\ q \notin records'[x]
        BY <4>1
      <4>3. \A y \in Devices : \A r \in records[y] : r \in records'[y] \/
              (y = d /\ r[1] = e /\ (out[e] # "failed" \/ stamp[d] # r[2] \/ stamp' = [stamp EXCEPT ![d] = 0]))
        BY <1>8, OutcomeRow
      <4>4. x = d /\ q[1] = e /\ (out[e] # "failed" \/ stamp[d] # q[2] \/ stamp' = [stamp EXCEPT ![d] = 0])
        BY <4>2, <4>3
      <4>5. QED
        BY <4>2, <4>4
    <3>3. stamp' # [stamp EXCEPT ![d] = 0]
      BY <2>1, <3>2 DEF InHand, Times, ReceiptTypes
    <3>4. QED
      BY <1>8, <3>2, <3>3
  <2>4. Stands(x, f)'
    BY <1>8, <2>1, <2>2, <2>3 DEF Stands
  <2>5. QED
    BY <2>4
<1>9. ASSUME NEW e \in Envelopes, OnDelivery(e) PROVE \E f \in Envelopes : Stands(x, f)'
  <2>1. owner[e] \in Devices /\ out[e] \in {"sent", "failed"}
    BY <1>9 DEF OnDelivery, InHand
  <2>2. QED
    BY <1>8, <1>9, <2>1 DEF OnDelivery
<1>10. ASSUME NEW e \in Envelopes, NEW s \in {"sent", "failed"}, Settle(e, s)
       PROVE  \E f \in Envelopes : Stands(x, f)'
  BY <1>10, <1>d DEF Settle, ReceiptTypes
<1>11. ASSUME NEW c \in claims, ApplyReceiptSentClaim(c) PROVE \E f \in Envelopes : Stands(x, f)'
  <2>0. c[1] \in Devices
    BY DEF ReceiptTypes
  <2>1. origin[x] /\ stamp'[x] = stamp[x]
    BY <1>0, <1>11, <2>0 DEF ApplyReceiptSentClaim, ReceiptTypes
  <2>2. PICK f \in Envelopes : Stands(x, f)
    BY <1>c, <2>1
  <2>3. Stands(x, f)'
    BY <1>11, <2>1, <2>2 DEF ApplyReceiptSentClaim, Stands
  <2>4. QED
    BY <2>3
<1>12. CASE Tick
  BY <1>12, <1>d DEF Tick
<1>13. ASSUME NEW d \in Devices, NEW e \in Envelopes, reconcileReceiptEnvelopes(d, e)
       PROVE  \E f \in Envelopes : Stands(x, f)'
  BY <1>8, <1>13 DEF reconcileReceiptEnvelopes
<1>14. QED
  BY <1>1, <1>2, <1>3, <1>4, <1>5, <1>6, <1>7, <1>9, <1>10, <1>11, <1>12, <1>13,
     <1>15 DEF ReceiptsNext

\* How generations and stamps move: a generation rises only where a stamp is
\* taken back or a claim taken over.
RowMoves(d) ==
    \/ UNCHANGED <<stamp, origin, gen>>
    \/ /\ stamp[d] = 0 /\ gen' = gen
       /\ \A x \in Devices : x # d => stamp'[x] = stamp[x] /\ origin'[x] = origin[x]
       /\ stamp'[d] \in {0, Suppressed} \/ origin'[d]
    \/ /\ stamp[d] \in Times
       /\ stamp' = [stamp EXCEPT ![d] = 0]
       /\ origin' = [origin EXCEPT ![d] = FALSE]
       /\ gen' = [gen EXCEPT ![d] = @ + 1]

\* Every step but taking over a claim moves one row like that.
LEMMA RowStep ==
    ASSUME ReceiptTypes, InHand, ReceiptsNext,
           ~ \E c \in claims : ApplyReceiptSentClaim(c)
    PROVE  /\ \E d \in Devices : RowMoves(d)
           /\ claims' \subseteq claims \/
              \E d \in Devices : Snapshot(d)
<1>0. \E d \in Devices : TRUE
  BY ConstantsAssumption
<1>1. ASSUME NEW d \in Devices, NEW h \in Handlers, MarkRead(d, h)
      PROVE  RowMoves(d) /\ claims' = claims
  BY <1>1 DEF MarkRead, RowMoves, ReceiptTypes
<1>2. ASSUME NEW d \in Devices, NEW h \in Handlers,
             Send(d, h) \/ RecordReceiptEnvelope(d, h) \/ StampFails(d, h) \/ RecordFails(d, h)
      PROVE  RowMoves(d) /\ claims' = claims
  BY <1>2 DEF Send, RecordReceiptEnvelope, StampFails, RecordFails, RowMoves
<1>3. ASSUME NEW d \in Devices, NEW h \in Handlers, MarkReadReceiptSent(d, h)
      PROVE  RowMoves(d) /\ claims' = claims
  BY <1>3 DEF MarkReadReceiptSent, RowMoves, ReceiptTypes
<1>4. ASSUME NEW d \in Devices, Snapshot(d) PROVE RowMoves(d)
  BY <1>4 DEF Snapshot, RowMoves
<1>5. ASSUME NEW d \in Devices, SetDisableReadReceipts(d) \/ SuppressPendingReadReceipts(d)
      PROVE  RowMoves(d) /\ claims' = claims
  BY <1>5 DEF SetDisableReadReceipts, SuppressPendingReadReceipts, RowMoves, ReceiptTypes
<1>6. ASSUME NEW d \in Devices, Restart(d) PROVE RowMoves(d) /\ claims' = claims
  BY <1>6 DEF Restart, RowMoves
<1>7. ASSUME NEW d \in Devices, NEW e \in Envelopes, reconcileReceiptEnvelopes(d, e)
      PROVE  RowMoves(d) /\ claims' = claims
  BY <1>7, OutcomeRow DEF reconcileReceiptEnvelopes, RowMoves
<1>8. ASSUME NEW e \in Envelopes, OnDelivery(e)
      PROVE  owner[e] \in Devices /\ RowMoves(owner[e]) /\ claims' = claims
  <2>1. owner[e] \in Devices
    BY <1>8 DEF OnDelivery, InHand
  <2>2. QED
    BY <1>8, <2>1, OutcomeRow DEF OnDelivery, RowMoves
<1>9. ASSUME UNCHANGED <<stamp, origin, gen, claims>>
      PROVE  (\E d \in Devices : RowMoves(d)) /\ claims' = claims
  BY <1>0, <1>9 DEF RowMoves
<1>10. ASSUME NEW e \in Envelopes, NEW s \in {"sent", "failed"}, Settle(e, s)
       PROVE  UNCHANGED <<stamp, origin, gen, claims>>
  BY <1>10 DEF Settle
<1>11. ASSUME Tick PROVE UNCHANGED <<stamp, origin, gen, claims>>
  BY <1>11 DEF Tick
<1>12. QED
  BY <1>1, <1>2, <1>3, <1>4, <1>5, <1>6, <1>7, <1>8, <1>9, <1>10, <1>11 DEF ReceiptsNext

\* A claim stays backed: its device stands by it or has raised its generation.
LEMMA StaysBacked ==
    ASSUME ReceiptTypes, InHand, NEW d \in Devices, RowMoves(d), NEW g \in Nat, Backed(g)
    PROVE  Backed(g)'
<1>1. PICK x \in Devices : gen[x] > g \/ (gen[x] = g /\ origin[x])
  BY DEF Backed
<1>2. gen[x] \in Nat /\ (origin[x] => stamp[x] # 0)
  BY DEF ReceiptTypes, InHand, Times
<1>3. gen'[x] > gen[x] \/ (gen'[x] = gen[x] /\ (origin[x] => origin'[x]))
  BY <1>2 DEF RowMoves, ReceiptTypes
<1>4. gen'[x] \in Nat
  BY <1>2 DEF RowMoves, ReceiptTypes
<1>5. QED
  BY <1>1, <1>2, <1>3, <1>4 DEF Backed

\* The newest generation stays with a device that is pending or first-hand.
LEMMA StaysTop ==
    ASSUME ReceiptTypes, InHand, NEW d \in Devices, RowMoves(d), NEW x \in Devices, Top(x)
    PROVE  \E y \in Devices : Top(y)'
<1>1. CASE UNCHANGED <<stamp, origin, gen>>
  BY <1>1 DEF Top
<1>2. CASE /\ stamp[d] = 0 /\ gen' = gen
           /\ \A y \in Devices : y # d => stamp'[y] = stamp[y] /\ origin'[y] = origin[y]
           /\ stamp'[d] \in {0, Suppressed} \/ origin'[d]
  BY <1>2 DEF Top
<1>3. CASE /\ stamp' = [stamp EXCEPT ![d] = 0]
           /\ origin' = [origin EXCEPT ![d] = FALSE]
           /\ gen' = [gen EXCEPT ![d] = @ + 1]
  <2>1. /\ gen'[d] = gen[d] + 1 /\ stamp'[d] = 0
        /\ \A y \in Devices : gen[y] \in Nat
        /\ \A y \in Devices : y # d => gen'[y] = gen[y] /\ stamp'[y] = stamp[y] /\ origin'[y] = origin[y]
    BY <1>3 DEF ReceiptTypes
  <2>2. CASE gen[d] = gen[x]
    <3>1. Top(d)'
      BY <2>1, <2>2 DEF Top
    <3>2. QED
      BY <3>1
  <2>3. CASE gen[d] # gen[x]
    <3>1. Top(x)'
      BY <2>1, <2>3 DEF Top
    <3>2. QED
      BY <3>1
  <2>4. QED
    BY <2>2, <2>3
<1>4. QED
  BY <1>1, <1>2, <1>3 DEF RowMoves

\* Taking over a claim keeps both.
LEMMA ClaimTaken ==
    ASSUME ReceiptInv, NEW c \in claims, ApplyReceiptSentClaim(c)
    PROVE  (\A b \in claims' : Backed(b[3])') /\ \E x \in Devices : Top(x)'
<1>1. ReceiptTypes /\ InHand /\ c[1] \in Devices /\ c[2] \in Times /\ c[3] \in Nat /\ claims' \subseteq claims
  BY DEF ReceiptInv, ReceiptTypes, ApplyReceiptSentClaim
<1>2. PICK x \in Devices : Top(x)
  BY DEF ReceiptInv
<1>3. CASE UNCHANGED <<stamp, origin, gen>>
  <2>1. \A b \in claims' : Backed(b[3])'
    BY <1>1, <1>3 DEF ReceiptInv, Backed
  <2>2. Top(x)'
    BY <1>2, <1>3 DEF Top
  <2>3. QED
    BY <2>1, <2>2
<1>4. CASE /\ stamp[c[1]] = 0 /\ c[3] >= gen[c[1]]
           /\ stamp' = [stamp EXCEPT ![c[1]] = c[2]]
           /\ origin' = [origin EXCEPT ![c[1]] = FALSE]
           /\ gen' = [gen EXCEPT ![c[1]] = c[3]]
  <2>1. /\ gen'[c[1]] = c[3] /\ \A y \in Devices : gen[y] \in Nat
        /\ \A y \in Devices : y # c[1] => gen'[y] = gen[y] /\ stamp'[y] = stamp[y] /\ origin'[y] = origin[y]
    BY <1>1, <1>4 DEF ReceiptTypes
  <2>2. ~origin[c[1]]
    BY <1>1, <1>4 DEF InHand, Times
  <2>3. ASSUME NEW b \in claims' PROVE Backed(b[3])'
    <3>1. b[3] \in Nat /\ Backed(b[3])
      BY <1>1 DEF ReceiptInv, ReceiptTypes
    <3>2. PICK y \in Devices : gen[y] > b[3] \/ (gen[y] = b[3] /\ origin[y])
      BY <3>1 DEF Backed
    <3>3. gen'[y] > b[3] \/ (gen'[y] = b[3] /\ origin'[y])
      BY <1>1, <1>4, <2>1, <2>2, <3>1, <3>2
    <3>4. QED
      BY <3>3 DEF Backed
  <2>4. PICK z \in Devices : gen[z] > c[3] \/ (gen[z] = c[3] /\ origin[z])
    BY DEF ReceiptInv, Backed
  <2>5. CASE x # c[1]
    <3>1. Top(x)'
      BY <1>1, <1>2, <2>1, <2>4, <2>5 DEF Top
    <3>2. QED
      BY <2>3, <3>1
  <2>6. CASE x = c[1]
    <3>1. gen[z] = c[3] /\ origin[z] /\ z # c[1]
      BY <1>1, <1>2, <1>4, <2>1, <2>2, <2>4, <2>6 DEF Top
    <3>2. Top(z)'
      BY <1>1, <1>2, <1>4, <2>1, <2>6, <3>1 DEF Top
    <3>3. QED
      BY <2>3, <3>2
  <2>7. QED
    BY <2>5, <2>6
<1>5. QED
  <2>1. c[3] < gen[c[1]] \/ c[3] >= gen[c[1]]
    BY <1>1 DEF ReceiptTypes
  <2>2. QED
    BY <1>3, <1>4, <2>1 DEF ApplyReceiptSentClaim

\* Every step keeps the invariant.
LEMMA ReceiptStep == ASSUME ReceiptInv, [ReceiptsNext]_receiptsVars PROVE ReceiptInv'
<1>1. CASE UNCHANGED receiptsVars
  BY <1>1 DEF receiptsVars, ReceiptInv, ReceiptTypes, InHand, Witnessed, Stands, Backed, Top
<1>2. CASE ReceiptsNext
  <2>0. ReceiptTypes /\ InHand /\ Witnessed
    BY DEF ReceiptInv
  <2>1. ReceiptTypes' /\ InHand' /\ Witnessed'
    BY <1>2, <2>0, ReceiptTypesStep, InHandStep, WitnessedStep
  <2>2. CASE \E c \in claims : ApplyReceiptSentClaim(c)
    BY <2>1, <2>2, ClaimTaken DEF ReceiptInv
  <2>3. CASE ~ \E c \in claims : ApplyReceiptSentClaim(c)
    <3>1. PICK d \in Devices : RowMoves(d)
      BY <1>2, <2>0, <2>3, RowStep
    <3>2. \E x \in Devices : Top(x)'
      BY <2>0, <3>1, StaysTop DEF ReceiptInv
    <3>3. \A c \in claims : Backed(c[3])'
      BY <2>0, <3>1, StaysBacked DEF ReceiptInv, ReceiptTypes
    <3>4. CASE claims' \subseteq claims
      BY <2>1, <3>2, <3>3, <3>4 DEF ReceiptInv
    <3>5. CASE \E x \in Devices : Snapshot(x)
      <4>1. PICK x \in Devices : Snapshot(x)
        BY <3>5
      <4>2. PICK t \in Devices \ {x} : claims' = claims \cup {<<t, stamp[x], gen[x]>>}
        BY <4>1 DEF Snapshot
      <4>3. origin[x] /\ UNCHANGED <<gen, origin>>
        BY <4>1 DEF Snapshot
      <4>4. Backed(gen[x])'
        BY <4>3 DEF Backed
      <4>5. \A c \in claims' : c \in claims \/ c[3] = gen[x]
        BY <4>2
      <4>6. \A c \in claims' : Backed(c[3])'
        BY <3>3, <4>3, <4>4, <4>5 DEF Backed
      <4>7. QED
        BY <2>1, <3>2, <4>6 DEF ReceiptInv
    <3>6. QED
      BY <1>2, <2>0, <2>3, <3>4, <3>5, RowStep
  <2>4. QED
    BY <2>2, <2>3
<1>3. QED
  BY <1>1, <1>2

\* Where the newest generation is first-hand, its envelope is alive.
LEMMA InvMeansNotLost == ReceiptInv => ReceiptNotLost
<1> SUFFICES ASSUME ReceiptInv, \A d \in Devices : stamp[d] \notin {0, Suppressed}, ~cut
             PROVE  \E e \in Envelopes : Alive(e)
  BY DEF ReceiptNotLost
<1>1. PICK x \in Devices : Top(x)
  BY DEF ReceiptInv
<1>2. origin[x]
  BY <1>1 DEF Top
<1>3. PICK e \in Envelopes : Stands(x, e)
  BY <1>2 DEF ReceiptInv, Witnessed
<1>4. out[e] \in {"none", "queued", "sent", "failed"}
  BY DEF ReceiptInv, ReceiptTypes
<1>5. Alive(e)
  BY <1>3, <1>4 DEF Stands, Alive
<1>6. QED
  BY <1>5

\* ClearReceiptEnvelope, ApplyReceiptSentClaim: the devices never all take the
\* message for acknowledged when every receipt has failed, for any number of
\* devices, handlers, receipts, restarts, failed writes and changes of the
\* setting.
THEOREM ReceiptsNotLost == ReceiptsSpec => []ReceiptNotLost
<1>1. ReceiptsInit => ReceiptInv
  BY InitReceipt
<1>2. ReceiptInv /\ [ReceiptsNext]_receiptsVars => ReceiptInv'
  BY ReceiptStep
<1>3. ReceiptInv => ReceiptNotLost
  BY InvMeansNotLost
<1>4. QED
  BY <1>1, <1>2, <1>3, PTL DEF ReceiptsSpec

\* SuppressPendingReadReceipts: a suppressed row stays so, whichever failure or
\* claim arrives later and however often the setting is changed.
THEOREM ReceiptsSuppressedStays == ReceiptsSpec => SuppressedStays
<1>1. ReceiptsInit => ReceiptInv
  BY InitReceipt
<1>2. ReceiptInv /\ [ReceiptsNext]_receiptsVars => ReceiptInv'
  BY ReceiptStep
<1>3. ASSUME ReceiptInv, ReceiptsNext
      PROVE  \A d \in Devices : stamp[d] = Suppressed => stamp'[d] = Suppressed
  <2>2. CASE \E c \in claims : ApplyReceiptSentClaim(c)
    <3>1. PICK c \in claims : ApplyReceiptSentClaim(c)
      BY <2>2
    <3>2. c[1] \in Devices
      BY <1>3 DEF ReceiptInv, ReceiptTypes
    <3>3. QED
      BY <1>3, <3>1, <3>2 DEF ApplyReceiptSentClaim, ReceiptInv, ReceiptTypes, Suppressed
  <2>3. CASE ~ \E c \in claims : ApplyReceiptSentClaim(c)
    <3>1. PICK d \in Devices : RowMoves(d)
      BY <1>3, <2>3, RowStep DEF ReceiptInv
    <3>2. QED
      BY <1>3, <3>1 DEF RowMoves, ReceiptInv, ReceiptTypes, Suppressed, Times
  <2>4. QED
    BY <2>2, <2>3
<1>4. ReceiptInv /\ [ReceiptsNext]_receiptsVars =>
         [\A d \in Devices : stamp[d] = Suppressed => stamp'[d] = Suppressed]_receiptsVars
  BY <1>3
<1>5. QED
  BY <1>1, <1>2, <1>4, PTL DEF ReceiptsSpec, SuppressedStays

-----------------------------------------------------------------------------
(* The sweep: what it has handled and what it still owes *)

AnswerTypes(p) ==
    /\ DOMAIN p.rows \subseteq Msgs /\ DOMAIN p.seq = DOMAIN p.rows
    /\ \A m \in DOMAIN p.rows : p.rows[m] \in Rows /\ p.seq[m] \in Nat

\* What brings rows to the asker: the answers under way and the handlers of answers.
Answers == {p \in wire : p.kind = "answer"}
Bringers == Answers \cup applying

IsHandler(h) == DOMAIN h = {"rows", "seq", "end", "more", "full", "held", "hand", "seen", "pc"}

HandlerTypes(h) ==
    /\ IsHandler(h)
    /\ h.end \in Nat /\ {h.held, h.more, h.full} \subseteq BOOLEAN
    /\ h.pc \in {"rows", "put", "ask"}
    /\ h.pc # "rows" => DOMAIN h.rows = {}
    /\ h.pc = "put" => ~h.held
    /\ h.hand \subseteq DOMAIN h.rows
    /\ h.seen \in Rows /\ (h.seen.gone => h.seen.here)

\* Types; a row of the asker is deleted only where it is.
GapTypes ==
    /\ bRow \in [Msgs -> Rows] /\ aRow \in [Msgs -> Rows]
    /\ \A m \in Msgs : aRow[m].gone => aRow[m].here
    /\ bSeq \in [Msgs -> Nat] /\ told \in [Msgs -> Nat]
    /\ head \in Nat /\ ack \in Nat /\ wm \in Nat /\ reached \in Nat
    /\ paired \in BOOLEAN /\ met \in BOOLEAN
    /\ answering \subseteq BOOLEAN
    /\ \A p \in wire :
          /\ p.kind \in {"backfill", "snapshot", "query", "answer"}
          /\ p.full \in BOOLEAN /\ p.paired \in BOOLEAN /\ p.more \in BOOLEAN
          /\ p.wm \in Nat /\ p.end \in Nat
    /\ \A p \in Bringers : AnswerTypes(p)
    /\ \A h \in applying : HandlerTypes(h)

\* Nothing is ahead of the journal, no request and no acknowledgement ahead of
\* the highest watermark.
Reach ==
    /\ ack <= reached /\ wm <= reached /\ reached <= head
    /\ \A m \in Msgs : bSeq[m] <= head /\ told[m] <= head
    /\ \A p \in wire : p.kind = "query" => p.wm <= reached
    /\ \A p \in Bringers : p.end <= head /\ \A m \in DOMAIN p.rows : p.seq[m] <= head

\* An answer shows the row as it is, or the row was written since, which the
\* sequence numbers tell.
Sourced(p, m) ==
    \/ p.rows[m] = bRow[m]
    \/ p.seq[m] < bSeq[m]
    \/ bSeq[m] = 0 /\ (p.seq[m] < told[m] \/ m \in passed \cup skipped)
Contents == \A p \in Bringers : \A m \in DOMAIN p.rows : bRow[m].here => Sourced(p, m)

\* An edited body is that of its stamp, and until the first edit every copy but
\* one the asker edited has the body as sent.
Bodies == \A m \in Msgs :
    /\ (bRow[m].here /\ ~bRow[m].gone) => bRow[m].body = 2 * bRow[m].at
    /\ bRow[m].at = 0 => bRow[m].body = 0
    /\ (bRow[m].at = 0 /\ bRow[m] # Removed) =>
          /\ aRow[m].at = 0 => aRow[m].body = 0
          /\ \A p \in Bringers : m \in DOMAIN p.rows => p.rows[m].body = 0

Handled(m) == bSeq[m] <= told[m] \/ m \in passed \cup skipped

\* A row the asker has handled shows what the answerer's says.
ToldShows == \A m \in Msgs \ (passed \cup skipped \cup overtaken) :
    (bSeq[m] <= told[m] /\ bRow[m].here) => Shows(aRow[m], bRow[m])

\* What lies up to the end of an answer was handled, or the answer brings it.
Brings(p) == \A m \in Msgs : bSeq[m] <= p.end =>
                Handled(m) \/ (m \in DOMAIN p.rows /\ p.seq[m] = bSeq[m])

\* Below every watermark there has been everything was handled; an answer, and a
\* handler that holds no row back, bring what lies up to their end.
Below ==
    /\ \A m \in Msgs : bSeq[m] <= reached => Handled(m)
    /\ \A p \in Answers : Brings(p)
    /\ \A h \in applying : ~h.held => Brings(h)
    /\ answering # {} => \A m \in Msgs : bSeq[m] <= reached \/ m \in passed

SafeInv == GapTypes /\ Reach /\ Contents /\ Bodies /\ ToldShows /\ Below

\* One chain at a time.
Single ==
    /\ \A p, q \in wire : p = q
    /\ \A x, y \in answering : x = y
    /\ \A h, k \in applying : h = k
    /\ wire = {} \/ (answering = {} /\ applying = {})
    /\ answering = {} \/ applying = {}

Finite == IsFiniteSet(wire) /\ IsFiniteSet(answering) /\ IsFiniteSet(applying)

Numbered ==
    /\ \A m, n \in Msgs : (bSeq[m] = bSeq[n] /\ bSeq[m] > 0) => m = n
    /\ \A m \in Strange : (bSeq[m] > 0 \/ bRow[m].here) => paired

\* An entry a sweep still owes.
Owes(m) == m \in owed /\ bSeq[m] > told[m]

\* It is among the rows, or lies beyond them and more is promised.
Sent(p, m) == \/ m \in DOMAIN p.rows /\ p.seq[m] = bSeq[m]
              \/ bSeq[m] > p.end /\ p.more

\* Who brings it.
Coming(m) ==
    /\ bSeq[m] > wm
    /\ answering = {} /\ (wire # {} \/ applying # {})
    /\ \A p \in wire :
          /\ ~p.full
          /\ p.kind = "snapshot" => (m \in Strange => p.paired)
          /\ p.kind \in {"query", "answer"} => Placed(m)
          /\ p.kind = "query" => bSeq[m] > p.wm
          /\ p.kind = "answer" => Sent(p, m)
    /\ \A h \in applying : ~h.full /\ Placed(m) /\ Sent(h, m)

SweepInv == /\ Finite /\ Numbered
            /\ owed \subseteq Msgs
            /\ trouble = {} => (Single /\ \A m \in Msgs : Owes(m) => Coming(m))

-----------------------------------------------------------------------------
(* Rows *)

\* What the constructors of rows yield.
LEMMA RowValues ==
    /\ ~NoRow.here /\ NoRow.at = 0 /\ NoRow.body = 0 /\ ~NoRow.gone
    /\ ~Removed.here /\ Removed.at = 0 /\ Removed.body = 0 /\ Removed.gone
    /\ Fresh.here /\ Fresh.at = 0 /\ Fresh.body = 0 /\ ~Fresh.gone
BY DEF NoRow, Removed, Fresh

\* They are rows.
LEMMA RowTypes == NoRow \in Rows /\ Removed \in Rows /\ Fresh \in Rows
<1>1. 0 \in 0 .. MaxStamp /\ 0 \in 0 .. 2 * MaxStamp + 1
  BY Limits
<1>2. NoRow \in Rows
  BY <1>1 DEF NoRow, Rows
<1>3. QED
  BY <1>2 DEF Removed, Fresh, Rows

\* An edited row.
LEMMA EditedRow ==
    ASSUME NEW r \in Rows, NEW t \in 0 .. MaxStamp, NEW b \in 0 .. 2 * MaxStamp + 1
    PROVE  /\ Edited(r, t, b).here = r.here /\ Edited(r, t, b).gone = r.gone
           /\ Edited(r, t, b).at = t /\ Edited(r, t, b).body = b
           /\ Edited(r, t, b) \in Rows
BY DEF Edited, Rows

\* A deleted row.
LEMMA DeletedRow ==
    ASSUME NEW r \in Rows
    PROVE  /\ Deleted(r).here = r.here /\ Deleted(r).gone
           /\ Deleted(r).at = r.at /\ Deleted(r).body = 0
           /\ Deleted(r) \in Rows
<1>1. 0 \in 0 .. 2 * MaxStamp + 1
  BY Limits
<1>2. QED
  BY <1>1 DEF Deleted, Rows

\* A row inserted from a snapshot.
LEMMA InsertedRow ==
    ASSUME NEW b \in 0 .. 2 * MaxStamp + 1
    PROVE  LET r == [Fresh EXCEPT !.body = b] IN
           r \in Rows /\ r.here /\ ~r.gone /\ r.at = 0 /\ r.body = b
BY RowTypes, RowValues DEF Rows

\* Fields of a row.
LEMMA RowFields ==
    ASSUME NEW r \in Rows
    PROVE  /\ r.here \in BOOLEAN /\ r.gone \in BOOLEAN
           /\ r.at \in Nat /\ r.body \in Nat
           /\ r.at \in 0 .. MaxStamp /\ r.body \in 0 .. 2 * MaxStamp + 1
BY Limits DEF Rows

\* A row read, decided about and written with nothing in between.
Merged(a, in) == Applied(Decide(a, in), a, in)

\* A write of a handler yields a row, whatever became of the row it had read; what
\* is deleted stays deleted, a decision taken about a deleted row writes nothing, and
\* an unedited row is given the incoming body or none.
LEMMA AppliedRow ==
    ASSUME NEW s \in Rows, NEW a \in Rows, NEW in \in Rows, s.gone => s.here, a.gone => a.here
    PROVE  LET w == Applied(Decide(s, in), a, in) IN
           /\ w \in Rows
           /\ w.gone => w.here
           /\ Decide(s, in) = "none" => w = a
           /\ s.gone => w = a
           /\ a.gone => w.gone
           /\ w.at = 0 => \/ a.at = 0 /\ w.body \in {0, a.body}
                          \/ w.body = in.body
<1> DEFINE w == Applied(Decide(s, in), a, in)
<1>0. /\ a.here \in BOOLEAN /\ a.gone \in BOOLEAN /\ in.here \in BOOLEAN /\ in.gone \in BOOLEAN
      /\ s.here \in BOOLEAN /\ s.gone \in BOOLEAN
      /\ s.at \in Nat /\ a.at \in Nat /\ in.at \in Nat /\ a.body \in Nat /\ in.body \in Nat
  BY RowFields
<1>1. Decide(s, in) \in {"delete", "insert", "edit", "none"}
  BY DEF Decide
<1>2. CASE w = a
  <2>1. s.gone => Decide(s, in) = "none"
    BY <1>0 DEF Decide
  <2>2. QED
    BY <1>2, <2>1
<1>3. CASE Decide(s, in) = "insert" /\ w # a
  <2>1. w = [Fresh EXCEPT !.body = in.body] /\ ~a.here /\ ~s.here
    BY <1>0, <1>3 DEF Applied, Decide
  <2>2. in.body \in 0 .. 2 * MaxStamp + 1
    BY RowFields
  <2> HIDE DEF w
  <2>3. w \in Rows /\ w.here /\ ~w.gone /\ w.body = in.body
    BY <2>1, <2>2, InsertedRow
  <2>4. QED
    BY <1>3, <2>1, <2>3 DEF w
<1>4. CASE Decide(s, in) = "edit" /\ w # a
  <2>1. w = Edited(a, in.at, in.body) /\ a.here
    BY <1>0, <1>4 DEF Applied
  <2>2. in.at \in 0 .. MaxStamp /\ in.body \in 0 .. 2 * MaxStamp + 1
    BY RowFields
  <2>3. in.at > 0 /\ ~s.gone
    BY <1>0, <1>4 DEF Decide
  <2> HIDE DEF w
  <2>4. w \in Rows /\ w.here = a.here /\ w.gone = a.gone /\ w.at = in.at /\ w.body = in.body
    BY <2>1, <2>2, EditedRow
  <2>5. QED
    BY <1>0, <1>4, <2>1, <2>3, <2>4 DEF w
<1>5. CASE Decide(s, in) = "delete" /\ w # a
  <2>1. w = Deleted(a) /\ a.here
    BY <1>0, <1>5 DEF Applied
  <2>2. ~s.gone
    BY <1>0, <1>5 DEF Decide
  <2> HIDE DEF w
  <2>3. w \in Rows /\ w.here = a.here /\ w.gone /\ w.at = a.at /\ w.body = 0
    BY <2>1, DeletedRow
  <2>4. QED
    BY <1>0, <1>5, <2>1, <2>2, <2>3 DEF w
<1>6. CASE Decide(s, in) = "none"
  <2>1. w = a
    BY <1>6 DEF Applied
  <2>2. QED
    BY <1>2, <2>1
<1>7. QED
  BY <1>1, <1>2, <1>3, <1>4, <1>5, <1>6

\* A row merged with the answerer's shows what that says.
LEMMA MergeShows ==
    ASSUME NEW a \in Rows, NEW b \in Rows, a.gone => a.here, b.here,
           ~b.gone => b.body = 2 * b.at, b.at = 0 /\ a.at = 0 => a.body = 0
    PROVE  Shows(Merged(a, b), b)
<1>0. /\ a.here \in BOOLEAN /\ a.gone \in BOOLEAN /\ b.here \in BOOLEAN /\ b.gone \in BOOLEAN
      /\ a.at \in Nat /\ b.at \in Nat /\ a.body \in Nat /\ b.body \in Nat
      /\ b.at \in 0 .. MaxStamp /\ b.body \in 0 .. 2 * MaxStamp + 1
  BY RowFields
<1>1. Decide(a, b) \in {"delete", "insert", "edit", "none"}
  BY DEF Decide
<1>2. CASE Decide(a, b) = "insert"
  <2>1. Merged(a, b) = [Fresh EXCEPT !.body = b.body] /\ ~b.gone
    BY <1>0, <1>2 DEF Merged, Applied, Decide
  <2>2. QED
    BY <1>0, <2>1, InsertedRow DEF Shows
<1>3. CASE Decide(a, b) = "edit"
  <2>1. Merged(a, b) = Edited(a, b.at, b.body) /\ a.here /\ ~b.gone
    BY <1>0, <1>3 DEF Merged, Applied, Decide
  <2>2. QED
    BY <1>0, <2>1, EditedRow DEF Shows
<1>4. CASE Decide(a, b) = "delete"
  <2>1. Merged(a, b) = Deleted(a)
    BY <1>0, <1>4 DEF Merged, Applied, Decide
  <2>2. QED
    BY <2>1, DeletedRow DEF Shows
<1>5. CASE Decide(a, b) = "none"
  <2>1. Merged(a, b) = a
    BY <1>5 DEF Merged, Applied
  <2>2. Shows(a, b)
    BY <1>0, <1>5 DEF Shows, Decide
  <2>3. QED
    BY <2>1, <2>2
<1>6. QED
  BY <1>1, <1>2, <1>3, <1>4, <1>5

\* An edit that arrives in order keeps the asker's row at least as new.
LEMMA EditShows ==
    ASSUME NEW a \in Rows, NEW b \in Rows, NEW t \in Stamps, a.here, InOrder(a, t),
           b.here, ~b.gone => b.body = 2 * b.at, Shows(a, b)
    PROVE  Shows(Edited(a, t, 2 * t + 1), b)
<1>0. /\ a.here \in BOOLEAN /\ a.gone \in BOOLEAN /\ b.here \in BOOLEAN /\ b.gone \in BOOLEAN
      /\ a.at \in Nat /\ b.at \in Nat /\ a.body \in Nat /\ b.body \in Nat
  BY RowFields
<1>1. t \in 0 .. MaxStamp /\ 2 * t + 1 \in 0 .. 2 * MaxStamp + 1
  BY Limits DEF Stamps
<1>2. ~b.gone
  BY <1>0 DEF Shows, InOrder
<1>3. t > b.at
  <2>1. CASE a.body = b.body
    <3>1. BodyAt(a.body) = b.at
      BY <1>0, <1>2, <2>1 DEF BodyAt
    <3>2. QED
      BY <3>1 DEF InOrder
  <2>2. CASE a.body # b.body
    BY <1>0, <1>1, <1>2, <2>2 DEF Shows, InOrder
  <2>3. QED
    BY <2>1, <2>2
<1>4. QED
  BY <1>0, <1>1, <1>2, <1>3, EditedRow DEF Shows

-----------------------------------------------------------------------------
(* Batches *)

\* A set of numbers that is not empty has a least one.
LEMMA HasLeast ==
    ASSUME NEW S \in SUBSET Nat, S # {}
    PROVE  \E h \in S : \A x \in S : h <= x
<1> DEFINE less == OpToRel(<, Nat)
<1>1. IsWellFoundedOn(less, Nat)
  BY NatLessThanWellFounded
<1>2. PICK h \in S : \A x \in S : ~(<<x, h>> \in less)
  <2> HIDE DEF less
  <2>1. QED
    BY <1>1, WFMin
<1>3. \A x \in S : ~(x < h)
  BY <1>2 DEF OpToRel
<1>4. QED
  BY <1>3

\* A bounded one has a greatest.
LEMMA HasGreatest ==
    ASSUME NEW n \in Nat, NEW S \in SUBSET (0 .. n), S # {}
    PROVE  \E h \in S : \A x \in S : x <= h
<1> DEFINE T == {n - x : x \in S}
<1>1. T \subseteq Nat /\ T # {}
  <2>1. \A x \in S : n - x \in Nat
    OBVIOUS
  <2>2. PICK x \in S : TRUE
    OBVIOUS
  <2>3. n - x \in T
    BY <2>2
  <2>4. QED
    BY <2>1, <2>3
<1>2. PICK t \in T : \A u \in T : t <= u
  <2> HIDE DEF T
  <2>1. QED
    BY <1>1, HasLeast
<1>3. PICK h \in S : t = n - h
  OBVIOUS
<1>4. \A x \in S : n - x \in T
  OBVIOUS
<1>5. ASSUME NEW x \in S PROVE x <= h
  <2>1. n - h <= n - x
    BY <1>2, <1>3, <1>4
  <2>2. QED
    BY <2>1
<1>6. QED
  BY <1>5

\* The end of a batch.
LEMMA MaxOfBatch ==
    ASSUME GapTypes, Reach, NEW B \in SUBSET Msgs, B # {}
    PROVE  LET end == MaxOf({bSeq[m] : m \in B}) IN
           /\ end \in Nat /\ end <= head
           /\ \E x \in B : bSeq[x] = end
           /\ \A m \in B : bSeq[m] <= end
<1> DEFINE S == {bSeq[m] : m \in B}
<1>1. S \in SUBSET (0 .. head) /\ head \in Nat
  BY DEF GapTypes, Reach
<1>2. S # {}
  OBVIOUS
<1>3. \E h \in S : \A x \in S : x <= h
  <2> HIDE DEF S
  <2>1. QED
    BY <1>1, <1>2, HasGreatest
<1>4. MaxOf(S) \in S /\ \A x \in S : x <= MaxOf(S)
  <2> HIDE DEF S
  <2>1. QED
    BY <1>3 DEF MaxOf
<1>5. MaxOf(S) \in Nat /\ MaxOf(S) <= head
  <2> HIDE DEF S
  <2>1. \A x \in S : x \in Nat /\ x <= head
    BY <1>1
  <2>2. QED
    BY <1>4, <2>1, Zenon
<1>6. \E x \in B : bSeq[x] = MaxOf(S)
  BY <1>4
<1>7. \A m \in B : bSeq[m] \in S
  OBVIOUS
<1>8. \A m \in B : bSeq[m] <= MaxOf(S)
  <2> HIDE DEF S
  <2>1. QED
    BY <1>4, <1>7
<1>9. QED
  BY <1>5, <1>6, <1>8

\* The rank of an entry among those above a cursor.
Rank(c, m) == {n \in Above(c) : bSeq[n] < bSeq[m]}

\* Ranks are finite, and follow the sequence numbers.
LEMMA Ranks ==
    ASSUME GapTypes, NEW c
    PROVE  /\ IsFiniteSet(Above(c)) /\ IsFiniteSet(Since(c))
           /\ \A m \in Msgs : IsFiniteSet(Rank(c, m)) /\ Cardinality(Rank(c, m)) \in Nat
           /\ \A m, n \in Msgs : bSeq[m] <= bSeq[n] => Cardinality(Rank(c, m)) <= Cardinality(Rank(c, n))
<1>1. IsFiniteSet(Above(c))
  BY Limits, FS_Subset DEF Above
<1>2. IsFiniteSet(Since(c))
  BY <1>1, FS_Subset DEF Since
<1>3. \A m \in Msgs : IsFiniteSet(Rank(c, m)) /\ Cardinality(Rank(c, m)) \in Nat
  <2>1. SUFFICES ASSUME NEW m \in Msgs PROVE IsFiniteSet(Rank(c, m)) /\ Cardinality(Rank(c, m)) \in Nat
    OBVIOUS
  <2>2. Rank(c, m) \in SUBSET Above(c)
    BY DEF Rank
  <2>3. QED
    BY <1>1, <2>2, FS_Subset, FS_CardinalityType
<1>4. ASSUME NEW m \in Msgs, NEW n \in Msgs, bSeq[m] <= bSeq[n]
      PROVE  Cardinality(Rank(c, m)) <= Cardinality(Rank(c, n))
  <2>1. Rank(c, m) \in SUBSET Rank(c, n)
    BY <1>4 DEF Rank, Above, GapTypes
  <2>2. QED
    BY <1>3, <2>1, FS_Subset
<1>5. QED
  BY <1>1, <1>2, <1>3, <1>4

\* The batch: entries above the cursor of small rank.
LEMMA SinceRank ==
    ASSUME NEW c, NEW m
    PROVE  m \in Since(c) <=> m \in Above(c) /\ Cardinality(Rank(c, m)) < BatchRows
BY DEF Since, Rank

\* JournalSince: a batch has every entry up to its last.
LEMMA SinceFirst ==
    ASSUME GapTypes, NEW c, NEW m \in Above(c), NEW x \in Since(c), bSeq[m] <= bSeq[x]
    PROVE  m \in Since(c)
<1>1. m \in Msgs /\ x \in Msgs /\ x \in Above(c)
  BY DEF Above, Since
<1>2. Cardinality(Rank(c, m)) <= Cardinality(Rank(c, x))
  BY <1>1, Ranks
<1>3. Cardinality(Rank(c, m)) \in Nat /\ Cardinality(Rank(c, x)) \in Nat
  BY <1>1, Ranks
<1>4. QED
  BY <1>2, <1>3, SinceRank, Limits

\* The batch is empty only when nothing lies above the cursor.
LEMMA SinceSome ==
    ASSUME GapTypes, NEW c, Above(c) # {}
    PROVE  Since(c) # {}
<1> DEFINE S == {bSeq[n] : n \in Above(c)}
<1>1. S \in SUBSET Nat /\ S # {}
  <2>1. \A n \in Above(c) : bSeq[n] \in Nat
    BY DEF Above, GapTypes
  <2>2. PICK n \in Above(c) : TRUE
    OBVIOUS
  <2>3. bSeq[n] \in S
    OBVIOUS
  <2>4. QED
    BY <2>1, <2>3
<1>2. PICK h \in S : \A x \in S : h <= x
  <2> HIDE DEF S
  <2>1. QED
    BY <1>1, HasLeast
<1>3. PICK m \in Above(c) : bSeq[m] = h
  OBVIOUS
<1>4. \A n \in Above(c) : bSeq[m] <= bSeq[n]
  BY <1>2, <1>3
<1>5. Rank(c, m) = {}
  BY <1>4 DEF Rank, Above, GapTypes
<1>6. Cardinality(Rank(c, m)) = 0
  BY <1>5, FS_EmptySet
<1>7. m \in Since(c)
  BY <1>6, SinceRank, Limits
<1>8. QED
  BY <1>7

\* A batch that leaves an entry out is full: More says so.
LEMMA SinceFull ==
    ASSUME GapTypes, Reach, Numbered, NEW c \in Nat, NEW m \in Above(c), m \notin Since(c)
    PROVE  Cardinality(Since(c)) = BatchRows
<1>0. /\ Since(c) \subseteq Above(c) /\ Above(c) \subseteq Msgs
      /\ \A n \in Above(c) : bSeq[n] \in Nat /\ bSeq[n] > 0
  BY DEF Since, Above, GapTypes
<1>1. Cardinality(Since(c)) \in Nat /\ IsFiniteSet(Since(c))
  BY Ranks, FS_CardinalityType
<1>2. Cardinality(Since(c)) >= BatchRows
  <2> DEFINE S == {bSeq[n] : n \in Above(c) \ Since(c)}
  <2>1. S \in SUBSET Nat /\ S # {}
    BY <1>0
  <2>2. PICK h \in S : \A x \in S : h <= x
    <3> HIDE DEF S
    <3>1. QED
      BY <2>1, HasLeast
  <2>3. PICK y \in Above(c) \ Since(c) : bSeq[y] = h
    OBVIOUS
  <2>4. Rank(c, y) \in SUBSET Since(c)
    <3>1. \A n \in Above(c) \ Since(c) : bSeq[n] \in S
      OBVIOUS
    <3>2. QED
      BY <1>0, <2>2, <2>3, <3>1 DEF Rank
  <2>5. Cardinality(Rank(c, y)) <= Cardinality(Since(c))
    BY <1>1, <2>4, FS_Subset
  <2>6. Cardinality(Rank(c, y)) \in Nat /\ ~(Cardinality(Rank(c, y)) < BatchRows)
    BY <1>0, <2>3, Ranks, SinceRank
  <2>7. QED
    BY <1>1, <2>5, <2>6, Limits
<1>3. Cardinality(Since(c)) <= BatchRows
  <2>1. Since(c) # {} /\ Since(c) \in SUBSET Msgs
    BY <1>0, SinceSome
  <2>2. PICK x \in Since(c) : \A n \in Since(c) : bSeq[n] <= bSeq[x]
    BY <2>1, MaxOfBatch
  <2>3. Since(c) \ {x} \in SUBSET Rank(c, x)
    BY <1>0, <2>2 DEF Rank, Numbered
  <2>4. Cardinality(Since(c) \ {x}) = Cardinality(Since(c)) - 1
    BY <1>1, <2>2, FS_RemoveElement
  <2>5. Cardinality(Since(c) \ {x}) <= Cardinality(Rank(c, x))
    BY <1>0, <2>2, <2>3, Ranks, FS_Subset
  <2>6. Cardinality(Rank(c, x)) \in Nat /\ Cardinality(Rank(c, x)) < BatchRows
    BY <1>0, <2>2, Ranks, SinceRank
  <2>7. QED
    BY <1>1, <2>4, <2>5, <2>6, Limits
<1>4. QED
  BY <1>1, <1>2, <1>3, Limits

-----------------------------------------------------------------------------
(* Nothing is passed over *)

\* Types of an envelope.
PacketTypes(p) ==
    /\ p.kind \in {"backfill", "snapshot", "query", "answer"}
    /\ p.full \in BOOLEAN /\ p.paired \in BOOLEAN /\ p.more \in BOOLEAN
    /\ p.wm \in Nat /\ p.end \in Nat

\* The envelopes of a sweep that are not answers.
LEMMA Packets1 ==
    ASSUME NEW full \in BOOLEAN, NEW w \in Nat, NEW b \in BOOLEAN
    PROVE  /\ PacketTypes(Packet("backfill", full)) /\ Packet("backfill", full).kind = "backfill"
           /\ Packet("backfill", full).full = full
           /\ LET s == [Packet("snapshot", full) EXCEPT !.paired = b] IN
              PacketTypes(s) /\ s.kind = "snapshot" /\ s.full = full /\ s.paired = b
           /\ PacketTypes(Query(w, full)) /\ Query(w, full).kind = "query"
           /\ Query(w, full).full = full /\ Query(w, full).wm = w
BY DEF PacketTypes, Packet, Query

\* An answer.
LEMMA Packets2 ==
    ASSUME NEW full \in BOOLEAN, NEW end \in Nat, NEW more \in BOOLEAN, NEW batch
    PROVE  LET p == Answer(batch, end, more, full) IN
           /\ PacketTypes(p) /\ p.kind = "answer" /\ p.full = full /\ p.end = end /\ p.more = more
           /\ p.rows = [m \in batch |-> bRow[m]] /\ p.seq = [m \in batch |-> bSeq[m]]
BY DEF PacketTypes, Packet, Answer

\* Nothing is written and nothing asked for at the start.
LEMMA InitSafe == Init => SafeInv
<1> SUFFICES ASSUME Init PROVE SafeInv
  OBVIOUS
<1>0. Bringers = {} /\ Answers = {} /\ wire = {} /\ applying = {} /\ answering = {}
  BY DEF Init, Bringers, Answers
<1>1. GapTypes
  BY <1>0, RowTypes, RowValues DEF Init, GapTypes
<1>2. \A m \in Msgs : ~bRow[m].here /\ bSeq[m] = 0 /\ told[m] = 0 /\ aRow[m].body = 0 /\ bRow[m].body = 0
  BY RowValues DEF Init
<1>3. Reach /\ Contents /\ Bodies /\ ToldShows
  BY <1>0, <1>2 DEF Init, Reach, Contents, Bodies, ToldShows
<1>4. Below
  BY <1>0, <1>2 DEF Init, Below, Handled
<1>5. QED
  BY <1>1, <1>3, <1>4 DEF SafeInv

\* A step that writes no row, does not move the watermark and puts no answer under
\* way; a handler may find that nothing lies above the watermark.
LEMMA QuietSafe ==
    ASSUME SafeInv,
           UNCHANGED <<bRow, bSeq, head, aRow, wm, reached, told, passed, skipped, overtaken>>,
           ack' \in Nat, ack' <= reached, applying' \subseteq applying,
           \/ answering' \subseteq answering
           \/ answering' \subseteq BOOLEAN /\ \A m \in Msgs : bSeq[m] <= reached,
           paired' \in BOOLEAN, met' \in BOOLEAN,
           \A p \in wire' : p \in wire \/
              /\ PacketTypes(p) /\ p.kind # "answer"
              /\ p.kind = "query" => p.wm <= reached
    PROVE  SafeInv'
<1>0. Answers' \subseteq Answers /\ Bringers' \subseteq Bringers
  BY DEF Answers, Bringers
<1>1. GapTypes'
  BY <1>0 DEF SafeInv, GapTypes, PacketTypes, AnswerTypes, HandlerTypes
<1>2. Reach'
  BY <1>0 DEF SafeInv, Reach
<1>3. Contents' /\ Bodies'
  BY <1>0 DEF SafeInv, Contents, Bodies, Sourced
<1>4. ToldShows'
  BY DEF SafeInv, ToldShows
<1>5. Below'
  BY <1>0 DEF SafeInv, Below, Brings, Handled
<1>6. QED
  BY <1>1, <1>2, <1>3, <1>4, <1>5 DEF SafeInv

\* The answerer writes a row and touches its journal entry.
LEMMA WriteSafe ==
    ASSUME SafeInv, NEW m \in Msgs, NEW r \in Rows,
           bRow' = [bRow EXCEPT ![m] = r], Touch(m), AtAnswerer, paired' = paired,
           (r.here /\ ~r.gone) => r.body = 2 * r.at,
           r.at = 0 => (r.body = 0 /\ bRow[m].at = 0 /\ bRow[m] # Removed)
    PROVE  SafeInv'
<1>1. /\ bRow'[m] = r /\ \A n \in Msgs : n # m => bRow'[n] = bRow[n]
      /\ bSeq'[m] = head + 1 /\ \A n \in Msgs : n # m => bSeq'[n] = bSeq[n]
      /\ head' = head + 1 /\ head \in Nat
      /\ \A n \in Msgs : n # m => (n \in passed' <=> n \in passed)
      /\ \A n \in Msgs : n # m => (n \in skipped' <=> n \in skipped)
      /\ answering # {} => m \in passed'
  BY DEF Touch, SafeInv, GapTypes
<1>2. UNCHANGED <<ack, aRow, met, wm, wire, answering, applying, reached, told, overtaken>>
      /\ Answers' = Answers /\ Bringers' = Bringers
  BY DEF AtAnswerer, Answers, Bringers
<1>3. GapTypes'
  <2>1. bRow' \in [Msgs -> Rows] /\ bSeq' \in [Msgs -> Nat]
    BY <1>1 DEF Touch, SafeInv, GapTypes
  <2>2. QED
    BY <1>1, <1>2, <2>1 DEF SafeInv, GapTypes, AnswerTypes, HandlerTypes
<1>4. Reach'
  BY <1>1, <1>2 DEF SafeInv, Reach, GapTypes, AnswerTypes, HandlerTypes, Bringers, Answers
<1>5. Contents'
  <2>1. SUFFICES ASSUME NEW p \in Bringers, NEW n \in DOMAIN p.rows, bRow'[n].here
                 PROVE  Sourced(p, n)'
    BY <1>2 DEF Contents
  <2>2. n \in Msgs /\ p.seq[n] \in Nat /\ p.seq[n] <= head
    BY <2>1 DEF SafeInv, GapTypes, AnswerTypes, Reach
  <2>3. CASE n = m
    BY <1>1, <2>2, <2>3 DEF Sourced
  <2>4. CASE n # m
    BY <1>1, <1>2, <2>1, <2>2, <2>4 DEF Sourced, SafeInv, Contents
  <2>5. QED
    BY <2>3, <2>4
<1>6. Bodies'
  BY <1>1, <1>2 DEF SafeInv, Bodies
<1>7. ToldShows'
  BY <1>1, <1>2 DEF SafeInv, ToldShows, Reach, GapTypes
<1>8. Below'
  <2>0. \A n \in Msgs : n # m => (Handled(n)' <=> Handled(n))
    BY <1>1, <1>2 DEF Handled
  <2>1. ASSUME NEW n \in Msgs, bSeq'[n] <= reached' PROVE Handled(n)'
    BY <1>1, <1>2, <2>0, <2>1 DEF SafeInv, Below, Reach, GapTypes
  <2>2. ASSUME NEW p \in Bringers, Brings(p) PROVE Brings(p)'
    <3>1. SUFFICES ASSUME NEW n \in Msgs, bSeq'[n] <= p.end
                   PROVE  Handled(n)' \/ (n \in DOMAIN p.rows /\ p.seq[n] = bSeq'[n])
      BY DEF Brings
    <3>2. p.end \in Nat /\ p.end <= head
      BY DEF SafeInv, GapTypes, HandlerTypes, Reach, Bringers, Answers
    <3>3. n # m
      BY <1>1, <3>1, <3>2
    <3>4. QED
      BY <1>1, <2>0, <2>2, <3>1, <3>3 DEF Brings
  <2>4. ASSUME answering' # {}, NEW n \in Msgs PROVE bSeq'[n] <= reached' \/ n \in passed'
    BY <1>1, <1>2, <2>4 DEF SafeInv, Below
  <2>5. \A p \in Answers : Brings(p)'
    BY <2>2 DEF SafeInv, Below, Bringers
  <2>6. \A h \in applying : ~h.held => Brings(h)'
    BY <2>2 DEF SafeInv, Below, Bringers
  <2>7. QED
    BY <1>2, <2>1, <2>4, <2>5, <2>6 DEF Below
<1>9. QED
  BY <1>3, <1>4, <1>5, <1>6, <1>7, <1>8 DEF SafeInv

\* A row is removed: its entry stays.
LEMMA RemoveSafe == ASSUME SafeInv, NEW m \in Msgs, RemoveRow(m) PROVE SafeInv'
<1>1. /\ bRow'[m] = Removed /\ \A n \in Msgs : n # m => bRow'[n] = bRow[n]
      /\ UNCHANGED <<ack, aRow, met, wm, wire, answering, applying, told, overtaken, bSeq, head,
                     reached, passed, skipped, paired>>
      /\ Answers' = Answers /\ Bringers' = Bringers
  BY DEF RemoveRow, AtAnswerer, SafeInv, GapTypes, Answers, Bringers
<1>2. GapTypes'
  <2>1. bRow' \in [Msgs -> Rows]
    BY RowTypes DEF RemoveRow, SafeInv, GapTypes
  <2>2. QED
    BY <1>1, <2>1 DEF SafeInv, GapTypes, AnswerTypes, HandlerTypes
<1>3. Reach' /\ Below'
  BY <1>1 DEF SafeInv, Reach, Below, Brings, Handled
<1>4. Contents'
  <2>1. SUFFICES ASSUME NEW p \in Bringers, NEW n \in DOMAIN p.rows, bRow'[n].here
                 PROVE  Sourced(p, n)'
    BY <1>1 DEF Contents
  <2>2. n \in Msgs /\ n # m
    BY <1>1, <2>1, RowValues DEF SafeInv, GapTypes, AnswerTypes
  <2>3. QED
    BY <1>1, <2>1, <2>2 DEF Sourced, SafeInv, Contents
<1>5. Bodies' /\ ToldShows'
  BY <1>1, RowValues DEF SafeInv, Bodies, ToldShows
<1>6. QED
  BY <1>2, <1>3, <1>4, <1>5 DEF SafeInv

\* The asker's own row changes: it stays as new as it was, or is noted.
LEMMA LiveSafe ==
    ASSUME SafeInv, NEW m \in Msgs, NEW r \in Rows, r.gone => r.here,
           aRow' = [aRow EXCEPT ![m] = r], AtAsker, overtaken \subseteq overtaken',
           r.at = 0 => r.body = 0,
           m \in overtaken' \/ ((bRow[m].here /\ Shows(aRow[m], bRow[m])) => Shows(r, bRow[m]))
    PROVE  SafeInv'
<1>1. /\ aRow'[m] = r /\ \A n \in Msgs : n # m => aRow'[n] = aRow[n]
      /\ UNCHANGED <<bRow, bSeq, head, ack, paired, met, wm, wire, answering, applying, reached,
                     passed, skipped, told>>
      /\ Answers' = Answers /\ Bringers' = Bringers
  BY DEF AtAsker, SafeInv, GapTypes, Answers, Bringers
<1>2. GapTypes'
  <2>1. aRow' \in [Msgs -> Rows]
    BY DEF SafeInv, GapTypes
  <2>2. QED
    BY <1>1, <2>1 DEF SafeInv, GapTypes, AnswerTypes, HandlerTypes
<1>3. Reach' /\ Below' /\ Contents'
  BY <1>1 DEF SafeInv, Reach, Below, Brings, Handled, Contents, Sourced
<1>4. Bodies'
  BY <1>1 DEF SafeInv, Bodies
<1>5. ToldShows'
  BY <1>1 DEF SafeInv, ToldShows
<1>6. QED
  BY <1>2, <1>3, <1>4, <1>5 DEF SafeInv

\* Everything written on either side.
LEMMA WritesSafe == ASSUME SafeInv, Writes PROVE SafeInv'
<1>0. GapTypes /\ Bodies /\ ack \in Nat /\ ack <= reached
  BY DEF SafeInv, GapTypes, Reach
<1>1. CASE Pair
  <2>1. paired' \in BOOLEAN
    BY <1>1 DEF Pair
  <2>2. UNCHANGED <<bRow, bSeq, head, ack, aRow, met, wm, wire, answering, applying, reached, told,
                    passed, skipped, overtaken>>
    BY <1>1 DEF Pair, AtAnswerer
  <2>3. ack' \in Nat /\ ack' <= reached /\ met' \in BOOLEAN
    BY <1>0, <2>2 DEF GapTypes
  <2>4. \A p \in wire' : p \in wire
    BY <2>2
  <2>5. answering' \subseteq answering /\ applying' \subseteq applying
    BY <2>2
  <2>6. QED
    BY <2>1, <2>2, <2>3, <2>4, <2>5, QuietSafe
<1>2. ASSUME NEW m \in Msgs, AppendRow(m) PROVE SafeInv'
  <2>1. bRow[m].at = 0 /\ bRow[m] # Removed
    BY <1>2, RowValues DEF AppendRow
  <2>2. Fresh \in Rows /\ Fresh.body = 2 * Fresh.at /\ Fresh.body = 0
    BY RowTypes, RowValues
  <2>3. bRow' = [bRow EXCEPT ![m] = Fresh] /\ Touch(m) /\ AtAnswerer /\ paired' = paired
    BY <1>2 DEF AppendRow
  <2>4. QED
    BY <2>1, <2>2, <2>3, WriteSafe
<1>3. ASSUME NEW m \in Msgs, NEW t \in Stamps, ApplyEdit(m, t) PROVE SafeInv'
  <2>1. t \in 0 .. MaxStamp /\ 2 * t \in 0 .. 2 * MaxStamp + 1 /\ t # 0 /\ bRow[m] \in Rows
    BY <1>0, Limits DEF Stamps, GapTypes
  <2>2. LET r == Edited(bRow[m], t, 2 * t) IN r \in Rows /\ r.at = t /\ r.body = 2 * t
    BY <2>1, EditedRow
  <2>3. QED
    BY <1>3, <2>1, <2>2, WriteSafe DEF ApplyEdit
<1>4. ASSUME NEW m \in Msgs, ApplyDelete(m) PROVE SafeInv'
  <2>1. bRow[m] \in Rows /\ bRow[m].here /\ bRow[m] # Removed
    BY <1>0, <1>4, RowValues DEF ApplyDelete, GapTypes
  <2>2. LET r == Deleted(bRow[m]) IN r \in Rows /\ r.gone /\ r.at = bRow[m].at /\ r.body = 0
    BY <2>1, DeletedRow
  <2>3. QED
    BY <1>4, <2>1, <2>2, WriteSafe DEF ApplyDelete
<1>5. ASSUME NEW m \in Msgs, RemoveRow(m) PROVE SafeInv'
  BY <1>5, RemoveSafe
<1>6. ASSUME NEW m \in Live, LiveAppend(m) PROVE SafeInv'
  <2>1. m \in Msgs /\ aRow[m] \in Rows /\ bRow[m] \in Rows /\ ~aRow[m].here /\ ~aRow[m].gone
    BY <1>0, <1>6, Limits DEF LiveAppend, GapTypes
  <2>2. overtaken \subseteq overtaken' /\ (m \in overtaken' \/ ~bRow[m].gone)
    BY <1>6 DEF LiveAppend, LateUnless
  <2>3. m \in overtaken' \/ ~Shows(aRow[m], bRow[m])
    BY <2>1, <2>2, RowFields DEF Shows
  <2>4. QED
    BY <1>6, <2>1, <2>2, <2>3, RowTypes, RowValues, LiveSafe DEF LiveAppend
<1>7. ASSUME NEW m \in Live, NEW t \in Stamps, LiveEdit(m, t) PROVE SafeInv'
  <2>1. m \in Msgs /\ aRow[m] \in Rows /\ bRow[m] \in Rows /\ aRow[m].here
    BY <1>0, <1>7, Limits DEF LiveEdit, GapTypes
  <2>2. t \in 0 .. MaxStamp /\ 2 * t + 1 \in 0 .. 2 * MaxStamp + 1 /\ t # 0
    BY Limits DEF Stamps
  <2>3. overtaken \subseteq overtaken' /\ (m \in overtaken' \/ InOrder(aRow[m], t))
    BY <1>7 DEF LiveEdit, LateUnless
  <2>4. LET r == Edited(aRow[m], t, 2 * t + 1) IN r \in Rows /\ r.here /\ r.at = t
    BY <2>1, <2>2, EditedRow
  <2>5. (bRow[m].here /\ Shows(aRow[m], bRow[m]) /\ InOrder(aRow[m], t)) =>
           Shows(Edited(aRow[m], t, 2 * t + 1), bRow[m])
    BY <1>0, <2>1, EditShows DEF Bodies
  <2>6. QED
    BY <1>7, <2>1, <2>2, <2>3, <2>4, <2>5, LiveSafe DEF LiveEdit
<1>8. ASSUME NEW m \in Live, LiveDelete(m) PROVE SafeInv'
  <2>1. m \in Msgs /\ aRow[m] \in Rows /\ aRow[m].here
    BY <1>0, <1>8, Limits DEF LiveDelete, GapTypes
  <2>2. LET r == Deleted(aRow[m]) IN r \in Rows /\ r.gone /\ r.here /\ r.body = 0
    BY <2>1, DeletedRow
  <2>3. Shows(Deleted(aRow[m]), bRow[m])
    BY <2>2 DEF Shows
  <2>4. QED
    BY <1>8, <2>1, <2>2, <2>3, LiveSafe DEF LiveDelete
<1>9. QED
  BY <1>1, <1>2, <1>3, <1>4, <1>5, <1>6, <1>7, <1>8 DEF Writes

\* An answer under way adds nothing but itself; what it leaves out is noted as skipped.
LEMMA AnswerSafe ==
    ASSUME SafeInv, NEW p, PacketTypes(p), p.kind = "answer", AnswerTypes(p), p.end <= head,
           UNCHANGED <<bRow, bSeq, head, aRow, met, paired, wm, reached, told, passed, overtaken,
                       applying>>,
           skipped \subseteq skipped', ack' \in Nat, ack' <= reached,
           wire' \subseteq wire \cup {p}, answering' \subseteq answering,
           \A m \in DOMAIN p.rows : p.rows[m] = bRow[m] /\ p.seq[m] = bSeq[m],
           \A m \in Msgs : bSeq[m] <= p.end => (Handled(m)' \/ m \in DOMAIN p.rows)
    PROVE  SafeInv'
<1>0. DOMAIN p.rows \subseteq Msgs
  BY DEF AnswerTypes
<1>00. Answers' \subseteq Answers \cup {p} /\ Bringers' \subseteq Bringers \cup {p}
  BY DEF Answers, Bringers
<1>1. GapTypes'
  <2>1. \A q \in wire' : /\ q.kind \in {"backfill", "snapshot", "query", "answer"}
                         /\ q.full \in BOOLEAN /\ q.paired \in BOOLEAN /\ q.more \in BOOLEAN
                         /\ q.wm \in Nat /\ q.end \in Nat
    BY DEF SafeInv, GapTypes, PacketTypes
  <2>2. \A q \in Bringers' : AnswerTypes(q)
    BY <1>00 DEF SafeInv, GapTypes
  <2>3. QED
    BY <2>1, <2>2 DEF SafeInv, GapTypes, AnswerTypes, HandlerTypes
<1>2. Reach'
  BY <1>0, <1>00 DEF SafeInv, Reach
<1>3. Contents'
  BY <1>00 DEF SafeInv, Contents, Sourced
<1>4. Bodies'
  BY <1>0, <1>00 DEF SafeInv, Bodies
<1>5. ToldShows'
  BY DEF SafeInv, ToldShows
<1>6. Below'
  <2>1. \A m \in Msgs : Handled(m) => Handled(m)'
    BY DEF Handled
  <2>2. \A q : Brings(q) => Brings(q)'
    BY <2>1 DEF Brings
  <2>3. Brings(p)'
    BY DEF Brings
  <2>4. QED
    BY <1>00, <2>1, <2>2, <2>3 DEF SafeInv, Below
<1>7. QED
  BY <1>1, <1>2, <1>3, <1>4, <1>5, <1>6 DEF SafeInv

\* handleGapRequest: what it lists is all there is up to the last entry listed.
LEMMA RequestSafe == ASSUME SafeInv, NEW p \in wire, HandleGapRequest(p) PROVE SafeInv'
<1> DEFINE c == IF p.full THEN 0 ELSE p.wm
           batch == Since(c)
<1>0. GapTypes /\ Reach /\ Below
  BY DEF SafeInv
<1>1. c \in Nat /\ c <= reached /\ p.full \in BOOLEAN /\ p.kind = "query" /\ p.wm \in Nat
      /\ p.wm <= reached /\ reached \in Nat /\ ack \in Nat /\ ack <= reached
  BY <1>0 DEF GapTypes, Reach, HandleGapRequest
<1>2. ack' \in Nat /\ ack' <= reached
  BY <1>1 DEF HandleGapRequest, AckedBy, Max2
<1>3. UNCHANGED <<bRow, bSeq, head, paired, aRow, met, wm, applying, reached, told, passed, overtaken>>
  BY DEF HandleGapRequest
<1>4. batch \subseteq Msgs /\ Above(c) \subseteq Msgs
  BY DEF Since, Above
<1>10. PICK unread \in SUBSET batch :
          /\ skipped' = skipped \cup unread
          /\ batch = {} => (answering' = answering \cup {p.full} /\ wire' = wire \ {p})
          /\ batch # {} =>
                /\ wire' = (wire \ {p}) \cup
                      {Answer(batch \ unread, MaxOf({bSeq[m] : m \in batch}), More(batch), p.full)}
                /\ answering' = answering
  <2> HIDE DEF batch, c
  <2>1. QED
    BY DEF HandleGapRequest, batch, c
<1>5. CASE batch = {}
  <2>1. answering' = answering \cup {p.full} /\ wire' = wire \ {p} /\ skipped' = skipped
    BY <1>5, <1>10
  <2>2. Above(c) = {}
    <3> HIDE DEF c
    <3>1. QED
      BY <1>0, <1>5, SinceSome
  <2>3. \A m \in Msgs : bSeq[m] <= reached
    <3> HIDE DEF c
    <3>1. QED
      BY <1>0, <1>1, <2>2 DEF Above, GapTypes
  <2>4. answering' \subseteq BOOLEAN /\ paired' \in BOOLEAN /\ met' \in BOOLEAN
    BY <1>0, <1>1, <1>3, <2>1 DEF GapTypes
  <2>5. QED
    BY <1>2, <1>3, <2>1, <2>3, <2>4, QuietSafe
<1>6. CASE batch # {}
  <2> DEFINE end == MaxOf({bSeq[m] : m \in batch})
             more == More(batch)
             left == batch \ unread
             a == Answer(left, end, more, p.full)
  <2>1. wire' = (wire \ {p}) \cup {a} /\ answering' = answering /\ skipped' = skipped \cup unread
    BY <1>6, <1>10
  <2>2. /\ end \in Nat /\ end <= head
        /\ \E x \in batch : bSeq[x] = end
        /\ \A m \in batch : bSeq[m] <= end
    <3> HIDE DEF batch
    <3>1. QED
      BY <1>0, <1>4, <1>6, MaxOfBatch
  <2>3. more \in BOOLEAN
    BY DEF More
  <2> HIDE DEF end, more, batch, c, left
  <2>4. /\ PacketTypes(a) /\ a.kind = "answer" /\ a.end = end
        /\ a.rows = [m \in left |-> bRow[m]] /\ a.seq = [m \in left |-> bSeq[m]]
    BY <1>1, <2>2, <2>3, Packets2
  <2> HIDE DEF a
  <2>5. AnswerTypes(a) /\ DOMAIN a.rows = batch \ unread
        /\ \A m \in DOMAIN a.rows : a.rows[m] = bRow[m] /\ a.seq[m] = bSeq[m]
    BY <1>0, <1>4, <2>4 DEF AnswerTypes, GapTypes, left
  <2>6. ASSUME NEW m \in Msgs, bSeq[m] <= end PROVE Handled(m)' \/ m \in batch \ unread
    <3>1. CASE m \in Above(c)
      <4>1. m \in batch
        BY <1>0, <2>2, <2>6, <3>1, SinceFirst DEF batch
      <4>2. m \in unread => Handled(m)'
        BY <2>1 DEF Handled
      <4>3. QED
        BY <4>1, <4>2
    <3>2. CASE m \notin Above(c)
      <4>1. Handled(m)
        BY <1>0, <1>1, <3>2 DEF Above, Below, GapTypes
      <4>2. QED
        BY <1>3, <2>1, <4>1 DEF Handled
    <3>3. QED
      BY <3>1, <3>2
  <2>7. QED
    BY <1>2, <1>3, <2>1, <2>2, <2>4, <2>5, <2>6, AnswerSafe
<1>7. QED
  BY <1>5, <1>6

\* handleGapRequest with nothing to send: whatever was written since the list is
\* noted as passed.
LEMMA HeadSafe == ASSUME SafeInv, NEW full \in answering, ReadHead(full) PROVE SafeInv'
<1> DEFINE a == Answer({}, head, FALSE, full)
<1>0. GapTypes /\ Reach /\ Below /\ full \in BOOLEAN /\ head \in Nat /\ ack \in Nat /\ ack <= reached
  BY DEF SafeInv, GapTypes, Reach
<1>1. wire' = wire \cup {a} /\ answering' \subseteq answering
      /\ UNCHANGED <<bRow, bSeq, head, ack, paired, aRow, met, wm, applying, reached, told, passed,
                     skipped, overtaken>>
  BY DEF ReadHead
<1>2. /\ PacketTypes(a) /\ a.kind = "answer" /\ a.end = head
      /\ DOMAIN a.rows = {} /\ DOMAIN a.seq = {}
  BY <1>0 DEF PacketTypes, Packet, Answer
<1> HIDE DEF a
<1>3. AnswerTypes(a)
  BY <1>2 DEF AnswerTypes
<1>4. \A m \in Msgs : Handled(m)'
  BY <1>0, <1>1 DEF Below, Handled
<1>5. QED
  BY <1>0, <1>1, <1>2, <1>3, <1>4, AnswerSafe

\* handleGapResponse: the handler holds what the answer brought.
LEMMA ResponseSafe == ASSUME SafeInv, NEW p \in wire, HandleGapResponse(p) PROVE SafeInv'
<1> DEFINE h == Handler(p)
<1>0. /\ wire' = wire \ {p} /\ applying' = applying \cup {h} /\ p \in Answers
      /\ UNCHANGED <<bRow, bSeq, head, ack, paired, aRow, met, wm, answering, reached, passed,
                     skipped, told, overtaken>>
  BY DEF HandleGapResponse, Answers
<1>1. /\ h.rows = p.rows /\ h.seq = p.seq /\ h.end = p.end /\ h.more = p.more /\ h.full = p.full
      /\ ~h.held /\ h.held \in BOOLEAN /\ h.hand = {} /\ h.seen = NoRow /\ h.pc = "rows"
      /\ IsHandler(h)
  BY DEF Handler, IsHandler
<1> HIDE DEF h
<1>2. Answers' \subseteq Answers /\ Bringers' \subseteq Bringers \cup {h} /\ p \in Bringers
  BY <1>0 DEF Answers, Bringers
<1>3. GapTypes'
  <2>1. HandlerTypes(h)
    BY <1>1, RowTypes, RowValues DEF SafeInv, GapTypes, HandlerTypes
  <2>2. \A q \in Bringers' : AnswerTypes(q)
    BY <1>1, <1>2 DEF SafeInv, GapTypes, AnswerTypes
  <2>3. QED
    BY <1>0, <2>1, <2>2 DEF SafeInv, GapTypes, AnswerTypes, HandlerTypes
<1>4. Reach'
  BY <1>0, <1>1, <1>2 DEF SafeInv, Reach
<1>5. Contents' /\ Bodies' /\ ToldShows'
  BY <1>0, <1>1, <1>2 DEF SafeInv, Contents, Sourced, Bodies, ToldShows
<1>6. Below'
  BY <1>0, <1>1, <1>2 DEF SafeInv, Below, Brings, Handled
<1>7. QED
  BY <1>3, <1>4, <1>5, <1>6 DEF SafeInv

\* A handler goes on without a row: it reads one, or turns to the watermark.
LEMMA TurnSafe ==
    ASSUME SafeInv, NEW h \in applying, NEW k, HandlerTypes(k),
           k.rows = h.rows, k.seq = h.seq, k.end = h.end, k.held = h.held,
           applying' = (applying \ {h}) \cup {k},
           UNCHANGED <<bRow, bSeq, head, ack, paired, aRow, met, wire, answering, passed, skipped,
                       told, overtaken>>,
           \/ wm' = wm /\ reached' = reached
           \/ /\ wm' = h.end /\ reached' = Max2(reached, h.end)
              /\ ~h.held /\ DOMAIN h.rows = {}
    PROVE  SafeInv'
<1>1. Answers' = Answers /\ Bringers' \subseteq Bringers \cup {k} /\ h \in Bringers
  BY DEF Answers, Bringers
<1>2. /\ wm \in Nat /\ reached \in Nat /\ h.end \in Nat /\ head \in Nat /\ h.end <= head
      /\ ack \in Nat /\ ack <= reached /\ wm <= reached /\ reached <= head
  BY <1>1 DEF SafeInv, GapTypes, HandlerTypes, Reach
<1>3. /\ wm' \in Nat /\ reached' \in Nat /\ reached <= reached' /\ wm' <= reached' /\ reached' <= head
      /\ reached' = reached \/ (reached' = h.end /\ ~h.held /\ DOMAIN h.rows = {})
  BY <1>2 DEF Max2
<1>4. GapTypes'
  <2>1. \A q \in Bringers' : AnswerTypes(q)
    BY <1>1 DEF SafeInv, GapTypes, AnswerTypes
  <2>2. QED
    BY <1>3, <2>1 DEF SafeInv, GapTypes, AnswerTypes, HandlerTypes
<1>5. Reach'
  <2>1. \A p \in wire : p.kind = "query" => p.wm <= reached'
    BY <1>2, <1>3 DEF SafeInv, Reach, GapTypes
  <2>2. ack <= reached'
    BY <1>2, <1>3
  <2>3. QED
    BY <1>1, <1>3, <2>1, <2>2 DEF SafeInv, Reach
<1>6. Contents' /\ Bodies' /\ ToldShows'
  BY <1>1 DEF SafeInv, Contents, Sourced, Bodies, ToldShows
<1>7. Below'
  <2>1. \A m \in Msgs : Handled(m) => Handled(m)'
    BY DEF Handled
  <2>2. ASSUME NEW m \in Msgs, bSeq[m] <= reached' PROVE Handled(m)'
    BY <1>3, <2>1, <2>2 DEF SafeInv, Below, Brings
  <2>3. \A q : Brings(q) => Brings(q)'
    BY <2>1 DEF Brings
  <2>4. ~k.held => Brings(k)'
    BY <2>1 DEF SafeInv, Below, Brings
  <2>5. answering # {} => \A m \in Msgs : bSeq[m] <= reached' \/ m \in passed
    BY <1>2, <1>3 DEF SafeInv, Below, GapTypes
  <2>6. QED
    BY <1>1, <2>2, <2>3, <2>4, <2>5 DEF SafeInv, Below
<1>8. QED
  BY <1>4, <1>5, <1>6, <1>7 DEF SafeInv

\* What a handler has left once it is done with a row.
LEMMA Narrows ==
    ASSUME NEW h, HandlerTypes(h), NEW m, NEW k, k = RowDone(h, m)
    PROVE  /\ IsHandler(k)
           /\ DOMAIN k.rows = DOMAIN h.rows \ {m} /\ DOMAIN k.seq = DOMAIN h.seq \ {m}
           /\ \A n \in DOMAIN h.rows \ {m} : k.rows[n] = h.rows[n]
           /\ \A n \in DOMAIN h.seq \ {m} : k.seq[n] = h.seq[n]
           /\ k.end = h.end /\ k.more = h.more /\ k.full = h.full /\ k.held = h.held
           /\ k.pc = h.pc /\ k.hand = {} /\ k.seen = NoRow
<1>1. DOMAIN RowDone(h, m) = DOMAIN h
  BY DEF RowDone
<1>2. IsHandler(k)
  BY <1>1 DEF IsHandler, HandlerTypes
<1>3. QED
  BY <1>2 DEF RowDone, Without

\* And if the row is held.
LEMMA NarrowsHeld ==
    ASSUME NEW h, HandlerTypes(h), NEW m, NEW k, k = RowHeld(h, m)
    PROVE  /\ IsHandler(k)
           /\ DOMAIN k.rows = DOMAIN h.rows \ {m} /\ DOMAIN k.seq = DOMAIN h.seq \ {m}
           /\ \A n \in DOMAIN h.rows \ {m} : k.rows[n] = h.rows[n]
           /\ \A n \in DOMAIN h.seq \ {m} : k.seq[n] = h.seq[n]
           /\ k.end = h.end /\ k.more = h.more /\ k.full = h.full /\ k.held /\ k.held \in BOOLEAN
           /\ k.pc = h.pc /\ k.hand = {} /\ k.seen = NoRow
<1>1. DOMAIN RowDone(h, m) = DOMAIN h
  BY DEF RowDone
<1>2. IsHandler(k)
  BY <1>1 DEF IsHandler, HandlerTypes, RowHeld
<1>3. QED
  BY <1>2 DEF RowHeld, RowDone, Without

\* A handler is done with a row: the row is as new as the answer, or noted.
LEMMA RowSafe ==
    ASSUME SafeInv, NEW h \in applying, NEW m \in DOMAIN h.rows, NEW k, NEW r \in Rows,
           k = RowDone(h, m) \/ k = RowHeld(h, m),
           applying' = (applying \ {h}) \cup {k}, AtHandler,
           UNCHANGED <<wm, wire, reached>>,
           aRow' = [aRow EXCEPT ![m] = r], r.gone => r.here,
           r.at = 0 => ((aRow[m].at = 0 /\ r.body \in {0, aRow[m].body}) \/ r.body = h.rows[m].body),
           told' = told \/ Tell(h, m),
           skipped \subseteq skipped', overtaken \subseteq overtaken',
           \/ m \in passed \cup skipped' \cup overtaken'
           \/ ((bSeq[m] <= told'[m] /\ bRow[m].here) => Shows(r, bRow[m])),
           k.held \/ (h.seq[m] = bSeq[m] => Handled(m)')
    PROVE  SafeInv'
<1>0. GapTypes /\ Reach /\ Contents /\ Bodies /\ ToldShows /\ Below /\ HandlerTypes(h)
  BY DEF SafeInv, GapTypes
<1>1. Answers' = Answers /\ Bringers' \subseteq Bringers \cup {k} /\ h \in Bringers
  BY DEF Answers, Bringers
<1>2. /\ IsHandler(k) /\ DOMAIN k.rows = DOMAIN h.rows \ {m} /\ DOMAIN k.seq = DOMAIN h.seq \ {m}
      /\ \A n \in DOMAIN k.rows : k.rows[n] = h.rows[n]
      /\ \A n \in DOMAIN k.seq : k.seq[n] = h.seq[n]
      /\ k.end = h.end /\ k.more = h.more /\ k.full = h.full /\ (h.held => k.held)
      /\ k.held \in BOOLEAN /\ k.pc = h.pc /\ k.hand = {} /\ k.seen = NoRow
  <2>1. h.held \in BOOLEAN
    BY <1>0 DEF HandlerTypes
  <2>2. CASE k = RowDone(h, m)
    <3>1. /\ IsHandler(k) /\ DOMAIN k.rows = DOMAIN h.rows \ {m} /\ DOMAIN k.seq = DOMAIN h.seq \ {m}
          /\ \A n \in DOMAIN h.rows \ {m} : k.rows[n] = h.rows[n]
          /\ \A n \in DOMAIN h.seq \ {m} : k.seq[n] = h.seq[n]
          /\ k.end = h.end /\ k.more = h.more /\ k.full = h.full /\ k.held = h.held
          /\ k.pc = h.pc /\ k.hand = {} /\ k.seen = NoRow
      BY <1>0, <2>2, Narrows
    <3>2. QED
      BY <2>1, <3>1
  <2>3. CASE k = RowHeld(h, m)
    <3>1. /\ IsHandler(k) /\ DOMAIN k.rows = DOMAIN h.rows \ {m} /\ DOMAIN k.seq = DOMAIN h.seq \ {m}
          /\ \A n \in DOMAIN h.rows \ {m} : k.rows[n] = h.rows[n]
          /\ \A n \in DOMAIN h.seq \ {m} : k.seq[n] = h.seq[n]
          /\ k.end = h.end /\ k.more = h.more /\ k.full = h.full /\ k.held /\ k.held \in BOOLEAN
          /\ k.pc = h.pc /\ k.hand = {} /\ k.seen = NoRow
      BY <1>0, <2>3, NarrowsHeld
    <3>2. QED
      BY <3>1
  <2>4. QED
    BY <2>2, <2>3
<1>3. UNCHANGED <<bRow, bSeq, head, ack, paired, met, answering, passed, wm, wire, reached>>
  BY DEF AtHandler
<1>4. /\ AnswerTypes(h) /\ m \in Msgs /\ h.seq[m] \in Nat /\ h.seq[m] <= head /\ h.rows[m] \in Rows
      /\ h.pc = "rows" /\ DOMAIN h.seq = DOMAIN h.rows
  BY <1>0, <1>1 DEF GapTypes, AnswerTypes, Reach, HandlerTypes
<1>5. \A n \in Msgs : /\ told[n] \in Nat /\ told'[n] \in Nat /\ told[n] <= told'[n] /\ told'[n] <= head
                      /\ bSeq[n] \in Nat /\ head \in Nat
                      /\ n # m => (told'[n] = told[n] /\ aRow'[n] = aRow[n])
  BY <1>0, <1>4 DEF GapTypes, Reach, Tell, Max2
<1>6. aRow'[m] = r /\ aRow' \in [Msgs -> Rows] /\ told' \in [Msgs -> Nat]
  BY <1>0, <1>4 DEF GapTypes, Tell, Max2
<1>7. AnswerTypes(k) /\ HandlerTypes(k)
  <2>1. AnswerTypes(k)
    BY <1>2, <1>4 DEF AnswerTypes
  <2>2. k.end \in Nat /\ {k.held, k.more, k.full} \subseteq BOOLEAN
    BY <1>0, <1>2 DEF HandlerTypes
  <2>3. QED
    BY <1>2, <1>4, <2>1, <2>2, RowTypes, RowValues DEF HandlerTypes
<1>8. GapTypes'
  <2>1. \A q \in Bringers' : AnswerTypes(q)
    BY <1>0, <1>1, <1>7 DEF GapTypes
  <2>2. \A n \in Msgs : aRow'[n].gone => aRow'[n].here
    BY <1>0, <1>5, <1>6 DEF GapTypes
  <2>3. \A q \in applying' : HandlerTypes(q)
    BY <1>0, <1>7 DEF GapTypes
  <2>4. QED
    BY <1>0, <1>3, <1>6, <2>1, <2>2, <2>3 DEF GapTypes, AnswerTypes, HandlerTypes
<1>9. Reach'
  <2>1. k.end <= head /\ \A n \in DOMAIN k.rows : k.seq[n] <= head
    BY <1>0, <1>1, <1>2, <1>4 DEF Reach
  <2>2. QED
    BY <1>0, <1>1, <1>3, <1>5, <2>1 DEF Reach
<1>10. Contents'
  <2>1. SUFFICES ASSUME NEW q \in Bringers \cup {k}, NEW n \in DOMAIN q.rows, bRow[n].here
                 PROVE  Sourced(q, n)'
    BY <1>1, <1>3 DEF Contents
  <2>2. PICK b \in Bringers : n \in DOMAIN b.rows /\ b.rows[n] = q.rows[n] /\ b.seq[n] = q.seq[n]
    BY <1>1, <1>2, <1>4, <2>1
  <2>3. n \in Msgs /\ b.seq[n] \in Nat /\ Sourced(b, n)
    BY <1>0, <2>1, <2>2 DEF Contents, GapTypes, AnswerTypes
  <2>4. QED
    BY <1>3, <1>5, <2>2, <2>3 DEF Sourced
<1>11. Bodies'
  <2>1. ASSUME NEW n \in Msgs, bRow[n].at = 0, bRow[n] # Removed, aRow'[n].at = 0
        PROVE  aRow'[n].body = 0
    <3>1. CASE n = m
      <4>1. h.rows[m].body = 0
        BY <1>0, <1>1, <2>1, <3>1 DEF Bodies
      <4>2. aRow[m].at = 0 => aRow[m].body = 0
        BY <1>0, <2>1, <3>1 DEF Bodies
      <4>3. QED
        BY <1>6, <2>1, <3>1, <4>1, <4>2
    <3>2. CASE n # m
      BY <1>0, <1>5, <2>1, <3>2 DEF Bodies
    <3>3. QED
      BY <3>1, <3>2
  <2>2. ASSUME NEW n \in Msgs, bRow[n].at = 0, bRow[n] # Removed, NEW q \in Bringers', n \in DOMAIN q.rows
        PROVE  q.rows[n].body = 0
    BY <1>0, <1>1, <1>2, <2>2 DEF Bodies
  <2>3. QED
    BY <1>0, <1>3, <2>1, <2>2 DEF Bodies
<1>12. ToldShows'
  <2>1. SUFFICES ASSUME NEW n \in Msgs \ (passed \cup skipped' \cup overtaken'),
                        bSeq[n] <= told'[n], bRow[n].here
                 PROVE  Shows(aRow'[n], bRow[n])
    BY <1>3 DEF ToldShows
  <2>2. CASE n = m
    BY <1>6, <2>1, <2>2
  <2>3. CASE n # m
    BY <1>0, <1>5, <2>1, <2>3 DEF ToldShows
  <2>4. QED
    BY <2>2, <2>3
<1>13. Below'
  <2>1. \A n \in Msgs : Handled(n) => Handled(n)'
    BY <1>3, <1>5 DEF Handled
  <2>2. \A q : Brings(q) => Brings(q)'
    BY <1>3, <2>1 DEF Brings
  <2>3. ASSUME ~k.held PROVE Brings(k)'
    <3>1. SUFFICES ASSUME NEW n \in Msgs, bSeq[n] <= k.end, ~Handled(n)'
                   PROVE  n \in DOMAIN k.rows /\ k.seq[n] = bSeq[n]
      BY <1>3 DEF Brings
    <3>2. Brings(h)
      BY <1>0, <1>2, <2>3 DEF Below
    <3>3. n \in DOMAIN h.rows /\ h.seq[n] = bSeq[n]
      BY <1>2, <2>1, <3>1, <3>2 DEF Brings
    <3>4. n # m
      BY <2>3, <3>1, <3>3
    <3>5. QED
      BY <1>2, <1>4, <3>3, <3>4
  <2>4. QED
    BY <1>0, <1>1, <1>3, <2>1, <2>2, <2>3 DEF Below
<1>14. QED
  BY <1>8, <1>9, <1>10, <1>11, <1>12, <1>13 DEF SafeInv

\* A row the answer shows as it is, or an entry that was handled since.
LEMMA Newest ==
    ASSUME SafeInv, NEW h \in applying, NEW m \in DOMAIN h.rows, bRow[m].here,
           m \notin passed \cup skipped, bSeq[m] <= Max2(told[m], h.seq[m])
    PROVE  h.rows[m] = bRow[m] \/ (bSeq[m] <= told[m] /\ h.seq[m] < told[m])
<1>1. h \in Bringers /\ m \in Msgs /\ h.seq[m] \in Nat /\ told[m] \in Nat /\ bSeq[m] \in Nat
  BY DEF SafeInv, GapTypes, AnswerTypes, Bringers
<1>2. Sourced(h, m)
  BY <1>1 DEF SafeInv, Contents
<1>3. QED
  BY <1>1, <1>2 DEF Sourced, Max2

\* applyGapRow: a row of a contact not met holds the handler back, one that fails is
\* noted, and one that needs no change shows what the answer says.
LEMMA PassRowSafe ==
    ASSUME SafeInv, NEW h \in applying, NEW m \in Msgs,
           HoldRow(h, m) \/ SkipRow(h, m) \/ ReadRow(h, m)
    PROVE  SafeInv'
<1>0. /\ aRow \in [Msgs -> Rows] /\ aRow[m] \in Rows /\ bRow[m] \in Rows /\ HandlerTypes(h)
      /\ (aRow[m].gone => aRow[m].here) /\ told[m] \in Nat /\ bSeq[m] \in Nat
      /\ GapTypes /\ Bodies /\ ToldShows
  BY DEF SafeInv, GapTypes
<1>1. m \in DOMAIN h.rows /\ h.seq[m] \in Nat /\ h.rows[m] \in Rows /\ h \in Bringers
  BY DEF HoldRow, SkipRow, ReadRow, First, SafeInv, GapTypes, AnswerTypes, Bringers
<1>2. aRow = [aRow EXCEPT ![m] = aRow[m]]
  BY <1>0
<1>3. (m \notin passed \cup skipped \cup overtaken /\ bSeq[m] <= told[m] /\ bRow[m].here)
        => Shows(aRow[m], bRow[m])
  BY <1>0 DEF ToldShows
<1>4. CASE HoldRow(h, m)
  <2> DEFINE k == RowHeld(h, m)
  <2>1. /\ applying' = (applying \ {h}) \cup {k} /\ AtHandler
        /\ UNCHANGED <<aRow, wm, wire, reached, skipped, told, overtaken>>
    BY <1>4 DEF HoldRow, TurnsInto
  <2>2. k.held
    BY <1>0, NarrowsHeld
  <2> HIDE DEF k
  <2>3. QED
    BY <1>0, <1>1, <1>2, <1>3, <2>1, <2>2, RowSafe DEF k
<1>5. CASE SkipRow(h, m)
  <2> DEFINE k == RowDone(h, m)
  <2>1. /\ applying' = (applying \ {h}) \cup {k} /\ AtHandler
        /\ UNCHANGED <<aRow, wm, wire, reached, told, overtaken>>
        /\ skipped' = IF h.seq[m] = bSeq[m] THEN skipped \cup {m} ELSE skipped
    BY <1>5 DEF SkipRow, TurnsInto
  <2>2. h.seq[m] = bSeq[m] => Handled(m)'
    BY <2>1 DEF Handled
  <2>3. skipped \subseteq skipped'
    BY <2>1
  <2> HIDE DEF k
  <2>4. \/ m \in passed \cup skipped' \cup overtaken'
        \/ (bSeq[m] <= told'[m] /\ bRow[m].here) => Shows(aRow[m], bRow[m])
    BY <1>3, <2>1
  <2>5. QED
    BY <1>0, <1>1, <1>2, <2>1, <2>2, <2>3, <2>4, RowSafe DEF k
<1>6. CASE ReadRow(h, m) /\ Decide(aRow[m], h.rows[m]) = "none"
  <2> DEFINE k == RowDone(h, m)
  <2>1. /\ applying' = (applying \ {h}) \cup {k} /\ AtHandler /\ Tell(h, m)
        /\ UNCHANGED <<aRow, wm, wire, reached, skipped, overtaken>>
    BY <1>6 DEF ReadRow, TurnsInto
  <2>2. told'[m] = Max2(told[m], h.seq[m])
    BY <1>0, <2>1 DEF Tell, GapTypes
  <2>3. h.seq[m] = bSeq[m] => Handled(m)'
    BY <1>0, <1>1, <2>1, <2>2 DEF Handled, Max2, AtHandler
  <2>4. ASSUME m \notin passed \cup skipped \cup overtaken, bSeq[m] <= told'[m], bRow[m].here
        PROVE  Shows(aRow[m], bRow[m])
    <3>1. CASE h.rows[m] = bRow[m]
      <4>1. /\ ~bRow[m].gone => bRow[m].body = 2 * bRow[m].at
            /\ (bRow[m].at = 0 /\ aRow[m].at = 0) => aRow[m].body = 0
        <5>1. bRow[m] # Removed
          BY <2>4, RowValues
        <5>2. QED
          BY <1>0, <2>4, <5>1 DEF Bodies
      <4>2. Merged(aRow[m], bRow[m]) = aRow[m]
        BY <1>6, <3>1 DEF Merged, Applied
      <4>3. QED
        BY <1>0, <2>4, <4>1, <4>2, MergeShows
    <3>2. CASE h.rows[m] # bRow[m]
      BY <1>1, <1>3, <2>2, <2>4, <3>2, Newest
    <3>3. QED
      BY <3>1, <3>2
  <2> HIDE DEF k
  <2>5. \/ m \in passed \cup skipped' \cup overtaken'
        \/ (bSeq[m] <= told'[m] /\ bRow[m].here) => Shows(aRow[m], bRow[m])
    BY <2>1, <2>4
  <2>6. QED
    BY <1>0, <1>1, <1>2, <2>1, <2>3, <2>5, RowSafe DEF k
<1>7. CASE ReadRow(h, m) /\ Decide(aRow[m], h.rows[m]) # "none"
  <2> DEFINE k == [h EXCEPT !.hand = {m}, !.seen = aRow[m]]
  <2>1. /\ applying' = (applying \ {h}) \cup {k} /\ AtHandler
        /\ UNCHANGED <<aRow, wm, wire, reached, skipped, told, overtaken>>
    BY <1>7 DEF ReadRow, TurnsInto
  <2>2. IsHandler(k)
    BY <1>0 DEF IsHandler, HandlerTypes
  <2>3. /\ k.rows = h.rows /\ k.seq = h.seq /\ k.end = h.end /\ k.held = h.held /\ k.more = h.more
        /\ k.full = h.full /\ k.pc = h.pc /\ k.hand = {m} /\ k.seen = aRow[m]
    BY <1>0 DEF IsHandler, HandlerTypes
  <2> HIDE DEF k
  <2>4. HandlerTypes(k)
    BY <1>0, <1>1, <2>2, <2>3 DEF HandlerTypes
  <2>5. QED
    BY <2>1, <2>3, <2>4, TurnSafe DEF AtHandler
<1>8. QED
  BY <1>4, <1>5, <1>6, <1>7

\* applyGapRow, the write: the row becomes at least as new as the answer, and one that
\* changed since it was read, or goes back, is noted as overtaken.
LEMMA WriteRowSafe == ASSUME SafeInv, NEW h \in applying, NEW m \in Msgs, WriteRow(h, m) PROVE SafeInv'
<1> DEFINE k == RowDone(h, m)
           w == Applied(Decide(h.seen, h.rows[m]), aRow[m], h.rows[m])
<1>0. /\ aRow \in [Msgs -> Rows] /\ aRow[m] \in Rows /\ bRow[m] \in Rows /\ HandlerTypes(h)
      /\ (aRow[m].gone => aRow[m].here) /\ told[m] \in Nat /\ bSeq[m] \in Nat
      /\ GapTypes /\ Bodies
  BY DEF SafeInv, GapTypes
<1>1. /\ m \in DOMAIN h.rows /\ h.seq[m] \in Nat /\ h.rows[m] \in Rows /\ h \in Bringers
      /\ h.seen \in Rows /\ (h.seen.gone => h.seen.here)
  BY DEF WriteRow, SafeInv, GapTypes, HandlerTypes, AnswerTypes, Bringers
<1>2. /\ applying' = (applying \ {h}) \cup {k} /\ AtHandler /\ Tell(h, m)
      /\ aRow' = [aRow EXCEPT ![m] = w]
      /\ overtaken' = IF (h.seq[m] < told[m] \/ aRow[m] # h.seen) THEN overtaken \cup {m} ELSE overtaken
      /\ UNCHANGED <<wm, wire, reached, skipped>>
  BY DEF WriteRow, TurnsInto
<1>3. /\ w \in Rows /\ (w.gone => w.here)
      /\ w.at = 0 => ((aRow[m].at = 0 /\ w.body \in {0, aRow[m].body}) \/ w.body = h.rows[m].body)
  BY <1>0, <1>1, AppliedRow
<1>4. told'[m] = Max2(told[m], h.seq[m])
  BY <1>0, <1>2 DEF Tell, GapTypes
<1>5. h.seq[m] = bSeq[m] => Handled(m)'
  BY <1>0, <1>1, <1>2, <1>4 DEF Handled, Max2, AtHandler
<1>6. ASSUME m \notin passed \cup skipped \cup overtaken', bSeq[m] <= told'[m], bRow[m].here
      PROVE  Shows(w, bRow[m])
  <2>1. aRow[m] = h.seen /\ ~(h.seq[m] < told[m])
    BY <1>2, <1>6
  <2>2. h.rows[m] = bRow[m]
    BY <1>1, <1>4, <1>6, <2>1, Newest
  <2>3. /\ ~bRow[m].gone => bRow[m].body = 2 * bRow[m].at
        /\ (bRow[m].at = 0 /\ aRow[m].at = 0) => aRow[m].body = 0
    <3>1. bRow[m] # Removed
      BY <1>6, RowValues
    <3>2. QED
      BY <1>0, <1>6, <3>1 DEF Bodies
  <2>4. w = Merged(aRow[m], bRow[m])
    BY <2>1, <2>2 DEF Merged
  <2> HIDE DEF w
  <2>5. QED
    BY <1>0, <1>6, <2>3, <2>4, MergeShows
<1> HIDE DEF k, w
<1>7. overtaken \subseteq overtaken' /\ skipped \subseteq skipped'
  BY <1>2
<1>8. \/ m \in passed \cup skipped' \cup overtaken'
      \/ (bSeq[m] <= told'[m] /\ bRow[m].here) => Shows(w, bRow[m])
  BY <1>2, <1>6
<1>9. QED
  BY <1>1, <1>2, <1>3, <1>5, <1>7, <1>8, RowSafe DEF k

\* Watermarks.Advance and askSibling: the watermark moves over what was handled, or back
\* to what was, and never beyond what was reached does the asker ask.
LEMMA CursorSafe ==
    ASSUME SafeInv, NEW h \in applying, GetWatermark(h) \/ PutWatermark(h) \/ AskAgain(h)
    PROVE  SafeInv'
<1>0. /\ HandlerTypes(h) /\ ack \in Nat /\ wm \in Nat /\ reached \in Nat /\ ack <= reached
      /\ wm <= reached /\ paired \in BOOLEAN /\ met \in BOOLEAN
  BY DEF SafeInv, GapTypes, Reach
<1>1. CASE GetWatermark(h)
  <2> DEFINE pc == IF Advances(h, wm) THEN "put" ELSE "ask"
             k == [h EXCEPT !.pc = pc]
  <2>1. /\ applying' = (applying \ {h}) \cup {k} /\ DOMAIN h.rows = {}
        /\ UNCHANGED <<aRow, wm, wire, reached, skipped, told, overtaken>> /\ AtHandler
    BY <1>1 DEF GetWatermark, TurnsInto
  <2>2. IsHandler(k)
    BY <1>0 DEF IsHandler, HandlerTypes
  <2>3. /\ k.rows = h.rows /\ k.seq = h.seq /\ k.end = h.end /\ k.held = h.held /\ k.more = h.more
        /\ k.full = h.full /\ k.pc = pc /\ k.hand = h.hand /\ k.seen = h.seen
    BY <1>0 DEF IsHandler, HandlerTypes
  <2>4. pc \in {"put", "ask"} /\ (pc = "put" => ~h.held)
    BY DEF Advances
  <2> HIDE DEF k, pc
  <2>5. HandlerTypes(k)
    BY <1>0, <2>1, <2>2, <2>3, <2>4 DEF HandlerTypes
  <2>6. QED
    BY <2>1, <2>3, <2>5, TurnSafe DEF AtHandler
<1>2. CASE PutWatermark(h)
  <2> DEFINE k == [h EXCEPT !.pc = "ask"]
  <2>1. /\ applying' = (applying \ {h}) \cup {k} /\ DOMAIN h.rows = {} /\ ~h.held
        /\ UNCHANGED <<aRow, wire, skipped, told, overtaken>> /\ AtHandler
        /\ \/ wm' = wm /\ reached' = reached
           \/ wm' = h.end /\ reached' = Max2(reached, h.end)
    BY <1>0, <1>2 DEF PutWatermark, TurnsInto, HandlerTypes
  <2>2. IsHandler(k)
    BY <1>0 DEF IsHandler, HandlerTypes
  <2>3. /\ k.rows = h.rows /\ k.seq = h.seq /\ k.end = h.end /\ k.held = h.held /\ k.more = h.more
        /\ k.full = h.full /\ k.pc = "ask" /\ k.hand = h.hand /\ k.seen = h.seen
    BY <1>0 DEF IsHandler, HandlerTypes
  <2> HIDE DEF k
  <2>4. HandlerTypes(k)
    BY <1>0, <2>1, <2>2, <2>3 DEF HandlerTypes
  <2>5. QED
    BY <2>1, <2>3, <2>4, TurnSafe DEF AtHandler
<1>3. CASE AskAgain(h)
  <2> DEFINE q == Query(wm, h.full)
  <2>1. /\ applying' \subseteq applying /\ AtHandler
        /\ UNCHANGED <<aRow, wm, reached, skipped, told, overtaken>>
        /\ \A p \in wire' : (p \in wire \/ p = q)
    BY <1>3 DEF AskAgain
  <2>2. h.full \in BOOLEAN
    BY <1>0 DEF HandlerTypes
  <2>3. PacketTypes(q) /\ q.kind = "query" /\ q.wm = wm
    BY <1>0, <2>2, Packets1
  <2> HIDE DEF q
  <2>4. \A p \in wire' : p \in wire \/
              (PacketTypes(p) /\ p.kind # "answer" /\ (p.kind = "query" => p.wm <= reached))
    BY <1>0, <2>1, <2>3
  <2>5. QED
    BY <1>0, <2>1, <2>4, QuietSafe DEF AtHandler
<1>4. QED
  BY <1>1, <1>2, <1>3

\* What is pruned was acknowledged, so the asker has handled it.
LEMMA PruneSafe == ASSUME SafeInv, Prune PROVE SafeInv'
<1> DEFINE floor == IF ack < ThirdAck THEN ack ELSE ThirdAck
<1>0. GapTypes /\ Reach /\ Contents /\ Bodies /\ ToldShows /\ Below
  BY DEF SafeInv
<1>1. floor \in Nat /\ floor <= reached /\ reached \in Nat
  BY <1>0, Limits DEF GapTypes, Reach
<1>2. bSeq' = [m \in Msgs |-> IF bSeq[m] <= floor THEN 0 ELSE bSeq[m]]
      /\ UNCHANGED <<bRow, head, ack, paired, aRow, met, wm, wire, answering, applying,
                     reached, passed, skipped, told, overtaken>>
      /\ Answers' = Answers /\ Bringers' = Bringers
  BY DEF Prune, Answers, Bringers
<1> HIDE DEF floor
<1>3. \A m \in Msgs : /\ bSeq[m] \in Nat /\ bSeq'[m] \in Nat /\ told[m] \in Nat
                      /\ bSeq'[m] = bSeq[m] \/ (bSeq'[m] = 0 /\ Handled(m))
  BY <1>0, <1>1, <1>2 DEF GapTypes, Below
<1>4. GapTypes'
  <2>1. bSeq' \in [Msgs -> Nat]
    BY <1>2, <1>3
  <2>2. QED
    BY <1>0, <1>2, <2>1 DEF GapTypes, AnswerTypes, HandlerTypes
<1>5. Reach' /\ Bodies'
  BY <1>0, <1>2, <1>3 DEF Reach, Bodies, GapTypes
<1>6. Contents'
  <2>1. SUFFICES ASSUME NEW q \in Bringers, NEW m \in DOMAIN q.rows, bRow[m].here
                 PROVE  Sourced(q, m)'
    BY <1>2 DEF Contents
  <2>2. m \in Msgs /\ q.seq[m] \in Nat /\ Sourced(q, m)
    BY <1>0, <2>1 DEF Contents, GapTypes, AnswerTypes
  <2>3. QED
    BY <1>2, <1>3, <2>2 DEF Sourced, Handled
<1>7. ToldShows'
  BY <1>0, <1>2, <1>3 DEF ToldShows, Handled
<1>8. Below'
  <2>1. \A m \in Msgs : Handled(m) => Handled(m)'
    BY <1>2, <1>3 DEF Handled
  <2>2. \A m \in Msgs : bSeq'[m] = bSeq[m] \/ (bSeq'[m] <= reached /\ Handled(m)')
    BY <1>1, <1>3, <2>1
  <2>3. \A q : Brings(q) => Brings(q)'
    BY <2>1, <2>2 DEF Brings
  <2>4. QED
    BY <1>0, <1>2, <2>1, <2>2, <2>3 DEF Below
<1>9. QED
  BY <1>4, <1>5, <1>6, <1>7, <1>8 DEF SafeInv

\* The snapshot that begins a sweep, a loss and a stop.
LEMMA SnapshotSafe ==
    ASSUME SafeInv,
           \/ \E full \in Fulls : Sweep(full)
           \/ \E p \in wire : AnswerBackfill(p) \/ HandleBackfill(p) \/ Lose(p)
           \/ Stop
    PROVE  SafeInv'
<1>0. /\ ack \in Nat /\ ack <= reached /\ wm \in Nat /\ wm <= reached /\ paired \in BOOLEAN /\ met \in BOOLEAN
      /\ \A p \in wire : p.full \in BOOLEAN /\ p.paired \in BOOLEAN
  BY DEF SafeInv, GapTypes, Reach
<1>1. ASSUME NEW full \in Fulls, Sweep(full) PROVE SafeInv'
  <2>1. UNCHANGED <<bRow, bSeq, head, aRow, wm, reached, told, passed, skipped, overtaken, ack, paired, met,
                    answering, applying>>
        /\ wire' = wire \cup {Packet("backfill", full)}
    BY <1>1 DEF Sweep
  <2>2. full \in BOOLEAN
    BY Limits
  <2>3. PacketTypes(Packet("backfill", full)) /\ Packet("backfill", full).kind = "backfill"
    BY <1>0, <2>2, Packets1
  <2>4. QED
    BY <1>0, <2>1, <2>3, QuietSafe
<1>2. ASSUME NEW p \in wire, AnswerBackfill(p) PROVE SafeInv'
  <2> DEFINE s == [Packet("snapshot", p.full) EXCEPT !.paired = paired]
  <2>1. UNCHANGED <<bRow, bSeq, head, aRow, wm, reached, told, passed, skipped, overtaken, ack, paired, met,
                    answering, applying>>
        /\ wire' = (wire \ {p}) \cup {s}
    BY <1>2 DEF AnswerBackfill
  <2>2. PacketTypes(s) /\ s.kind = "snapshot"
    BY <1>0, Packets1
  <2> HIDE DEF s
  <2>3. QED
    BY <1>0, <2>1, <2>2, QuietSafe
<1>3. ASSUME NEW p \in wire, HandleBackfill(p) PROVE SafeInv'
  <2>1. UNCHANGED <<bRow, bSeq, head, aRow, wm, reached, told, passed, skipped, overtaken, ack, paired,
                    answering, applying>>
        /\ wire' = (wire \ {p}) \cup {Query(wm, p.full)} /\ met' = (met \/ p.paired)
    BY <1>3 DEF HandleBackfill
  <2>0. p.full \in BOOLEAN /\ wm \in Nat
    BY <1>0
  <2>2. LET q == Query(wm, p.full) IN PacketTypes(q) /\ q.kind = "query" /\ q.wm = wm
    BY <2>0, Packets1
  <2>3. met' \in BOOLEAN
    BY <1>0, <2>1
  <2>4. \A q \in wire' : q \in wire \/ (PacketTypes(q) /\ q.kind = "query" /\ q.wm = wm)
    BY <2>1, <2>2
  <2>5. \A q \in wire' : q \in wire \/ 
              (PacketTypes(q) /\ q.kind # "answer" /\ (q.kind = "query" => q.wm <= reached))
    BY <1>0, <2>4
  <2>6. QED
    BY <1>0, <2>1, <2>3, <2>5, QuietSafe
<1>4. ASSUME NEW p \in wire, Lose(p) PROVE SafeInv'
  <2>1. UNCHANGED <<bRow, bSeq, head, aRow, wm, reached, told, passed, skipped, overtaken, ack, paired, met,
                    answering, applying>>
        /\ wire' \subseteq wire
    BY <1>4 DEF Lose
  <2>2. QED
    BY <1>0, <2>1, QuietSafe
<1>5. CASE Stop
  <2>1. UNCHANGED <<bRow, bSeq, head, aRow, wm, reached, told, passed, skipped, overtaken, ack, paired, met, wire>>
        /\ answering' \subseteq answering /\ applying' \subseteq applying
    BY <1>5 DEF Stop
  <2>2. QED
    BY <1>0, <2>1, QuietSafe
<1>6. QED
  BY <1>1, <1>2, <1>3, <1>4, <1>5

\* Every step keeps the invariant.
LEMMA SafeStep == SafeInv /\ [Next]_vars => SafeInv'
<1> SUFFICES ASSUME SafeInv, [Next]_vars PROVE SafeInv'
  OBVIOUS
<1>1. CASE Writes
  BY <1>1, WritesSafe
<1>2. CASE \E full \in Fulls : Sweep(full)
  BY <1>2, SnapshotSafe
<1>3. ASSUME NEW p \in wire,
             AnswerBackfill(p) \/ HandleBackfill(p) \/ HandleGapRequest(p)
                \/ HandleGapResponse(p) \/ Lose(p)
      PROVE  SafeInv'
  BY <1>3, SnapshotSafe, RequestSafe, ResponseSafe
<1>4. ASSUME NEW full \in answering, ReadHead(full) PROVE SafeInv'
  BY <1>4, HeadSafe
<1>5. ASSUME NEW h \in applying,
             \/ \E m \in Msgs : HoldRow(h, m) \/ SkipRow(h, m) \/ ReadRow(h, m) \/ WriteRow(h, m)
             \/ GetWatermark(h) \/ PutWatermark(h) \/ AskAgain(h)
      PROVE  SafeInv'
  BY <1>5, PassRowSafe, WriteRowSafe, CursorSafe
<1>6. CASE Prune
  BY <1>6, PruneSafe
<1>7. CASE Stop
  BY <1>7, SnapshotSafe
<1>8. CASE UNCHANGED vars
  <2>1. /\ ack \in Nat /\ ack <= reached /\ paired \in BOOLEAN /\ met \in BOOLEAN
    BY DEF SafeInv, GapTypes, Reach
  <2>2. UNCHANGED <<bRow, bSeq, head, aRow, wm, reached, told, passed, skipped, overtaken, ack, paired, met, wire,
                    answering, applying>>
    BY <1>8 DEF vars
  <2>3. QED
    BY <2>1, <2>2, QuietSafe
<1>9. QED
  BY <1>1, <1>2, <1>3, <1>4, <1>5, <1>6, <1>7, <1>8 DEF Next

\* The invariant of the sweep's safety.
LEMMA GapSafe == Spec => []SafeInv
BY InitSafe, SafeStep, PTL DEF Spec

\* What lies below the watermark was handled, and what was handled is shown.
LEMMA SafeMeans == SafeInv => JournalSafe
<1> SUFFICES ASSUME SafeInv PROVE JournalSafe
  OBVIOUS
<1>1. ASSUME NEW m \in Msgs, Behind(m), m \notin passed \cup skipped \cup overtaken PROVE FALSE
  BY <1>1 DEF Behind, SafeInv, Below, Handled, ToldShows
<1>2. QED
  BY <1>1 DEF JournalSafe, NothingPassed, AckBehindWatermark, SafeInv, Reach

\* handleGapRequest, handleGapResponse, pruneJournalForSiblings: no row is passed over
\* by a batch's limit, a held row, a lost envelope, overtaking answers, a watermark
\* written back, a prune or a stop, and nothing is pruned that the asker has not
\* passed, for any number of messages, any batch size and any trouble.  The rows the
\* code does pass over are the ones its histories name.
THEOREM GapJournalSafe == Spec => []JournalSafe
BY GapSafe, SafeMeans, PTL

\* A deleted row of the asker changes only by a live edit, and then "late" is met, or
\* by a handler that had read it before.
LEMMA DeletedStays ==
    SafeInv /\ [Next]_vars =>
        [\A m \in Msgs : (aRow[m].here /\ aRow[m].gone) =>
            /\ aRow'[m].gone
            /\ \/ aRow'[m].body = aRow[m].body
               \/ "late" \in trouble' \ trouble
               \/ \E h \in applying \ applying' : m \in h.hand /\ ~h.seen.gone]_vars
<1> SUFFICES ASSUME SafeInv, Next, NEW m \in Msgs, aRow[m].here, aRow[m].gone
             PROVE  /\ aRow'[m].gone
                    /\ \/ aRow'[m].body = aRow[m].body
                       \/ "late" \in trouble' \ trouble
                       \/ \E h \in applying \ applying' : m \in h.hand /\ ~h.seen.gone
  OBVIOUS
<1>0. aRow \in [Msgs -> Rows] /\ aRow[m] \in Rows
  BY DEF SafeInv, GapTypes
<1>1. CASE aRow'[m] = aRow[m]
  BY <1>1
<1>2. ASSUME NEW n \in Live, LiveAppend(n) \/ LiveDelete(n) PROVE aRow'[m] = aRow[m]
  BY <1>0, <1>2 DEF LiveAppend, LiveDelete
<1>3. ASSUME NEW n \in Live, NEW t \in Stamps, LiveEdit(n, t), n = m
      PROVE  aRow'[m].gone /\ "late" \in trouble' \ trouble
  <2>1. t \in 0 .. MaxStamp /\ 2 * t + 1 \in 0 .. 2 * MaxStamp + 1
    BY Limits DEF Stamps
  <2>2. aRow'[m] = Edited(aRow[m], t, 2 * t + 1)
    BY <1>0, <1>3 DEF LiveEdit
  <2>3. aRow'[m].gone
    BY <1>0, <2>1, <2>2, EditedRow
  <2>4. "late" \in trouble' \ trouble
    BY <1>3 DEF LiveEdit, LateUnless, MeetUnless, Meet, InOrder
  <2>5. QED
    BY <2>3, <2>4
<1>4. ASSUME NEW n \in Live, NEW t \in Stamps, LiveEdit(n, t), n # m PROVE aRow'[m] = aRow[m]
  BY <1>0, <1>4 DEF LiveEdit
<1>5. ASSUME NEW h \in applying, NEW n \in Msgs, WriteRow(h, n), n # m PROVE aRow'[m] = aRow[m]
  BY <1>0, <1>5 DEF WriteRow
<1>6. ASSUME NEW h \in applying, NEW n \in Msgs, WriteRow(h, n), n = m
      PROVE  /\ aRow'[m].gone
             /\ aRow'[m] = aRow[m] \/ (h \in applying \ applying' /\ m \in h.hand /\ ~h.seen.gone)
  <2> DEFINE w == Applied(Decide(h.seen, h.rows[m]), aRow[m], h.rows[m])
             k == RowDone(h, m)
  <2>1. /\ aRow'[m] = w /\ m \in h.hand
        /\ applying' = (applying \ {h}) \cup {k}
    BY <1>0, <1>6 DEF WriteRow, TurnsInto
  <2>2. /\ HandlerTypes(h) /\ m \in DOMAIN h.rows /\ h.rows[m] \in Rows
        /\ h.seen \in Rows /\ (h.seen.gone => h.seen.here) /\ (aRow[m].gone => aRow[m].here)
    BY <2>1 DEF SafeInv, GapTypes, HandlerTypes, AnswerTypes, Bringers
  <2>3. (h.seen.gone => w = aRow[m]) /\ (aRow[m].gone => w.gone)
    BY <1>0, <2>2, AppliedRow
  <2>4. k.hand = {}
    BY <2>2, Narrows
  <2> HIDE DEF w, k
  <2>5. k # h
    BY <2>1, <2>4
  <2>6. QED
    BY <2>1, <2>3, <2>5
<1>7. CASE Writes
  <2>1. ASSUME Pair \/ \E n \in Msgs : \/ AppendRow(n) \/ ApplyDelete(n) \/ RemoveRow(n)
                                       \/ \E t \in Stamps : ApplyEdit(n, t)
        PROVE  aRow' = aRow
    BY <2>1 DEF Pair, AppendRow, ApplyDelete, RemoveRow, ApplyEdit, AtAnswerer
  <2>2. QED
    BY <1>1, <1>2, <1>3, <1>4, <1>7, <2>1 DEF Writes
<1>8. CASE \/ \E full \in Fulls : Sweep(full)
           \/ \E p \in wire : \/ AnswerBackfill(p) \/ HandleBackfill(p) \/ HandleGapRequest(p)
                             \/ HandleGapResponse(p) \/ Lose(p)
           \/ \E full \in answering : ReadHead(full)
           \/ \E h \in applying : \/ \E n \in Msgs : HoldRow(h, n) \/ SkipRow(h, n) \/ ReadRow(h, n)
                                 \/ GetWatermark(h) \/ PutWatermark(h) \/ AskAgain(h)
           \/ Prune
           \/ Stop
  <2>1. aRow' = aRow
    BY <1>8 DEF Sweep, AnswerBackfill, HandleBackfill, HandleGapRequest, HandleGapResponse, Lose,
                ReadHead, HoldRow, SkipRow, ReadRow, GetWatermark, PutWatermark, AskAgain, Prune, Stop
  <2>2. QED
    BY <1>1, <2>1
<1>9. QED
  BY <1>1, <1>5, <1>6, <1>7, <1>8 DEF Next

\* gapfill.Decide, applyGapRow: what was deleted on the asker stays deleted, and no sweep
\* that reads the row deleted gives it a body again, whichever answers arrive in
\* whichever order; only a handler that had read it before the delete still does.
THEOREM GapNoResurrection == Spec => NoResurrection
BY GapSafe, DeletedStays, PTL DEF Spec, NoResurrection

-----------------------------------------------------------------------------
(* A sweep does its work *)

\* What a step without trouble keeps.
Works == Single /\ \A m \in Msgs : Owes(m) => Coming(m)

\* A set that takes an element more, or exchanges one, stays finite.
LEMMA StaysFinite ==
    ASSUME NEW S, IsFiniteSet(S), NEW x, NEW y
    PROVE  IsFiniteSet(S \cup {x}) /\ IsFiniteSet(S \ {y}) /\ IsFiniteSet((S \ {y}) \cup {x})
<1>1. IsFiniteSet(S \ {y})
  BY FS_RemoveElement
<1>2. QED
  BY <1>1, FS_AddElement

\* No chain is under way.
LEMMA NoChain ==
    ASSUME Finite, Chains = 0
    PROVE  wire = {} /\ answering = {} /\ applying = {}
<1>1. Cardinality(wire) \in Nat /\ Cardinality(answering) \in Nat /\ Cardinality(applying) \in Nat
  BY FS_CardinalityType DEF Finite
<1>2. Cardinality(wire) = 0 /\ Cardinality(answering) = 0 /\ Cardinality(applying) = 0
  BY <1>1 DEF Chains
<1>3. QED
  BY <1>2, FS_EmptySet DEF Finite

\* Trouble is never forgotten.
LEMMA TroubleStays == ASSUME Next, trouble' = {} PROVE trouble = {}
BY DEF Next, Writes, Pair, AppendRow, ApplyEdit, ApplyDelete, RemoveRow, LiveAppend, LiveEdit,
       LiveDelete, LateUnless, MeetUnless, Meet, Sweep, AnswerBackfill, HandleBackfill,
       HandleGapRequest, HandleGapResponse, ReadHead, HoldRow, SkipRow, ReadRow, WriteRow,
       GetWatermark, PutWatermark, AskAgain, Prune, Lose, Stop

\* Nothing under way, nothing owed.
LEMMA InitSweep == Init => SweepInv
<1> SUFFICES ASSUME Init PROVE SweepInv
  OBVIOUS
<1>1. Finite
  BY FS_EmptySet DEF Init, Finite
<1>2. Numbered
  BY RowValues, Limits DEF Init, Numbered
<1>3. QED
  BY <1>1, <1>2 DEF Init, SweepInv, Single, Owes

\* A step that leaves the chain alone: a row is written, which it no longer owes.
LEMMA TouchSweep ==
    ASSUME SafeInv, SweepInv, NEW m \in Msgs, NEW r \in Rows, bRow' = [bRow EXCEPT ![m] = r],
           Touch(m), AtAnswerer, paired' = paired, trouble' = {} => trouble = {},
           m \in Strange => paired
    PROVE  SweepInv'
<1>0. UNCHANGED <<met, wm, wire, answering, applying, told>>
  BY DEF AtAnswerer
<1>1. /\ bRow'[m] = r /\ \A n \in Msgs : n # m => bRow'[n] = bRow[n]
      /\ bSeq'[m] = head + 1 /\ \A n \in Msgs : n # m => bSeq'[n] = bSeq[n]
      /\ head \in Nat /\ owed' = owed \ {m}
  BY DEF Touch, SafeInv, GapTypes
<1>2. Finite' /\ owed' \subseteq Msgs
  BY <1>0, <1>1 DEF SweepInv, Finite
<1>3. Numbered'
  <2>1. \A n, k \in Msgs : (bSeq'[n] = bSeq'[k] /\ bSeq'[n] > 0) => n = k
    BY <1>1 DEF SweepInv, Numbered, SafeInv, Reach, GapTypes
  <2>2. \A n \in Strange : (bSeq'[n] > 0 \/ bRow'[n].here) => paired'
    <3>1. Strange \subseteq Msgs
      BY Limits
    <3>2. QED
      BY <1>1, <3>1 DEF SweepInv, Numbered
  <2>3. QED
    BY <2>1, <2>2 DEF Numbered
<1>4. ASSUME trouble' = {} PROVE Works'
  <2>1. Single' /\ trouble = {}
    BY <1>0, <1>4 DEF SweepInv, Single
  <2>2. ASSUME NEW n \in Msgs, Owes(n)' PROVE Coming(n)'
    <3>1. n # m /\ Owes(n) /\ bSeq'[n] = bSeq[n]
      BY <1>0, <1>1, <2>2 DEF Owes
    <3>2. Coming(n)
      BY <2>1, <3>1 DEF SweepInv
    <3>3. QED
      BY <1>0, <3>1, <3>2 DEF Coming, Placed, Sent
  <2>3. QED
    BY <2>1, <2>2 DEF Works
<1>5. QED
  BY <1>2, <1>3, <1>4 DEF SweepInv, Works

\* A step that touches neither the chain nor the journal.
LEMMA ElsewhereSweep ==
    ASSUME SweepInv, UNCHANGED <<bSeq, met, wm, wire, answering, applying, told, owed>>,
           trouble' = {} => trouble = {}, paired => paired',
           \A m \in Strange : bRow'[m].here => bRow[m].here
    PROVE  SweepInv'
<1>1. Finite' /\ Numbered' /\ owed' \subseteq Msgs
  BY DEF SweepInv, Finite, Numbered
<1>2. ASSUME trouble = {} PROVE Works'
  <2>1. Single'
    BY <1>2 DEF SweepInv, Single
  <2>2. ASSUME NEW n \in Msgs, Owes(n)' PROVE Coming(n)'
    <3>1. Owes(n)
      BY <2>2 DEF Owes
    <3>2. Coming(n)
      BY <1>2, <3>1 DEF SweepInv
    <3>3. QED
      BY <3>2 DEF Coming, Placed, Sent
  <2>3. QED
    BY <2>1, <2>2 DEF Works
<1>3. QED
  BY <1>1, <1>2 DEF SweepInv, Works

\* Everything written on either side.
LEMMA WritesSweep == ASSUME SafeInv, SweepInv, Writes PROVE SweepInv'
<1>0. trouble' = {} => trouble = {}
  BY TroubleStays DEF Next
<1>1. /\ bRow \in [Msgs -> Rows] /\ GapTypes
      /\ \A m \in Strange : bRow[m].here => paired
      /\ Strange \subseteq Msgs /\ Live \subseteq Msgs
  BY Limits DEF SafeInv, GapTypes, SweepInv, Numbered
<1>2. CASE Pair
  <2>1. UNCHANGED <<bRow, bSeq, met, wm, wire, answering, applying, told, owed>> /\ paired'
    BY <1>2 DEF Pair, AtAnswerer
  <2>2. QED
    BY <1>0, <2>1, ElsewhereSweep
<1>3. ASSUME NEW m \in Msgs, AppendRow(m) PROVE SweepInv'
  <2>1. bRow' = [bRow EXCEPT ![m] = Fresh] /\ Touch(m) /\ AtAnswerer /\ paired' = paired
        /\ (m \in Strange => paired) /\ Fresh \in Rows
    BY <1>3, RowTypes DEF AppendRow
  <2>2. QED
    BY <1>0, <2>1, TouchSweep
<1>4. ASSUME NEW m \in Msgs, NEW t \in Stamps, ApplyEdit(m, t) PROVE SweepInv'
  <2> DEFINE r == Edited(bRow[m], t, 2 * t)
  <2>1. bRow' = [bRow EXCEPT ![m] = r] /\ Touch(m) /\ AtAnswerer /\ paired' = paired
        /\ (m \in Strange => paired)
    BY <1>1, <1>4 DEF ApplyEdit
  <2>2. t \in 0 .. MaxStamp /\ 2 * t \in 0 .. 2 * MaxStamp + 1
    BY Limits DEF Stamps
  <2>3. r \in Rows
    BY <1>1, <2>2, EditedRow
  <2> HIDE DEF r
  <2>4. QED
    BY <1>0, <2>1, <2>3, TouchSweep
<1>5. ASSUME NEW m \in Msgs, ApplyDelete(m) PROVE SweepInv'
  <2> DEFINE r == Deleted(bRow[m])
  <2>1. bRow' = [bRow EXCEPT ![m] = r] /\ Touch(m) /\ AtAnswerer /\ paired' = paired
        /\ (m \in Strange => paired)
    BY <1>1, <1>5 DEF ApplyDelete
  <2>2. r \in Rows
    BY <1>1, DeletedRow
  <2> HIDE DEF r
  <2>3. QED
    BY <1>0, <2>1, <2>2, TouchSweep
<1>6. ASSUME NEW m \in Msgs, RemoveRow(m) PROVE SweepInv'
  <2>1. UNCHANGED <<bSeq, met, wm, wire, answering, applying, told, owed, paired>>
        /\ bRow' = [bRow EXCEPT ![m] = Removed]
    BY <1>6 DEF RemoveRow, AtAnswerer
  <2>2. \A n \in Strange : bRow'[n].here => bRow[n].here
    BY <1>1, <2>1, RowValues
  <2>3. QED
    BY <1>0, <2>1, <2>2, ElsewhereSweep
<1>7. ASSUME NEW m \in Live, LiveAppend(m) \/ LiveDelete(m) \/ \E t \in Stamps : LiveEdit(m, t)
      PROVE  SweepInv'
  <2>1. UNCHANGED <<bRow, bSeq, met, wm, wire, answering, applying, told, owed, paired>>
    BY <1>7 DEF LiveAppend, LiveDelete, LiveEdit, AtAsker
  <2>2. QED
    BY <1>0, <2>1, ElsewhereSweep
<1>8. QED
  BY <1>2, <1>3, <1>4, <1>5, <1>6, <1>7 DEF Writes

\* A step that moves the chain on and writes no row: it is shown to owe nothing
\* that it does not bring.
LEMMA ChainSweep ==
    ASSUME SafeInv, SweepInv, UNCHANGED <<bRow, bSeq, paired>>, Finite', owed' \subseteq Msgs,
           trouble' = {} => Works'
    PROVE  SweepInv'
<1>1. Numbered'
  BY DEF SweepInv, Numbered
<1>2. QED
  BY <1>1 DEF SweepInv, Works

\* sweepGapFill: the sweep owes what lies above the watermark.
LEMMA BeginSweep == ASSUME SafeInv, SweepInv, NEW full \in Fulls, Sweep(full) PROVE SweepInv'
<1> DEFINE b == Packet("backfill", full)
<1>0. full \in BOOLEAN /\ GapTypes /\ Finite
  BY Limits DEF SafeInv, SweepInv
<1>1. /\ wire' = wire \cup {b} /\ UNCHANGED <<bRow, bSeq, paired, met, wm, answering, applying, told>>
      /\ owed' = IF full \/ Chains > 0 THEN {} ELSE Above(wm)
  BY DEF Sweep
<1>2. b.kind = "backfill" /\ b.full = full
  BY DEF Packet
<1> HIDE DEF b
<1>3. Finite' /\ owed' \subseteq Msgs
  <2>1. IsFiniteSet(wire')
    BY <1>0, <1>1, StaysFinite DEF Finite
  <2>2. QED
    BY <1>0, <1>1, <2>1 DEF Finite, Above
<1>4. ASSUME trouble' = {} PROVE Works'
  <2>1. Chains = 0
    BY <1>4 DEF Sweep, MeetUnless, Meet
  <2>2. wire' = {b} /\ answering' = {} /\ applying' = {}
    BY <1>0, <1>1, <2>1, NoChain
  <2>3. ASSUME NEW m \in Msgs, Owes(m)' PROVE Coming(m)'
    <3>1. ~full /\ m \in Above(wm)
      BY <1>1, <2>3 DEF Owes
    <3>2. bSeq'[m] > wm'
      BY <1>1, <3>1 DEF Above
    <3>3. QED
      BY <1>2, <2>2, <3>1, <3>2 DEF Coming
  <2>4. QED
    BY <2>2, <2>3 DEF Works, Single
<1>5. QED
  BY <1>1, <1>3, <1>4, ChainSweep

\* handleBackfillRequest: the snapshot knows every contact whose rows are owed.
LEMMA SnapshotSweep == ASSUME SafeInv, SweepInv, NEW p \in wire, AnswerBackfill(p) PROVE SweepInv'
<1> DEFINE s == [Packet("snapshot", p.full) EXCEPT !.paired = paired]
<1>0. /\ GapTypes /\ Finite /\ Numbered /\ p.kind = "backfill" /\ owed \subseteq Msgs
      /\ trouble = {} => Works
  BY DEF SafeInv, SweepInv, AnswerBackfill, Works
<1>1. /\ wire' = (wire \ {p}) \cup {s}
      /\ UNCHANGED <<bRow, bSeq, paired, met, wm, answering, applying, told, owed, trouble>>
  BY DEF AnswerBackfill
<1>2. s.kind = "snapshot" /\ s.full = p.full /\ s.paired = paired
  BY DEF Packet
<1> HIDE DEF s
<1>3. Finite'
  <2>1. IsFiniteSet(wire')
    BY <1>0, <1>1, StaysFinite DEF Finite
  <2>2. QED
    BY <1>0, <1>1, <2>1 DEF Finite
<1>4. ASSUME trouble = {} PROVE Works'
  <2>1. wire' = {s} /\ answering' = {} /\ applying' = {}
    BY <1>0, <1>1, <1>4 DEF Works, Single
  <2>2. ASSUME NEW m \in Msgs, Owes(m)' PROVE Coming(m)'
    <3>1. Owes(m)
      BY <1>1, <2>2 DEF Owes
    <3>2. Coming(m)
      BY <1>0, <1>4, <3>1 DEF Works
    <3>3. m \in Strange => paired
      BY <1>0, <3>1 DEF Owes, Numbered, GapTypes
    <3>4. QED
      BY <1>1, <1>2, <2>1, <3>2, <3>3 DEF Coming
  <2>3. QED
    BY <2>1, <2>2 DEF Works, Single
<1>5. QED
  BY <1>0, <1>1, <1>3, <1>4, ChainSweep

\* handleBackfillResponse: those contacts are met before the rows are asked for.
LEMMA MeetSweep == ASSUME SafeInv, SweepInv, NEW p \in wire, HandleBackfill(p) PROVE SweepInv'
<1> DEFINE q == Query(wm, p.full)
<1>0. /\ GapTypes /\ Finite /\ p.kind = "snapshot" /\ owed \subseteq Msgs
      /\ trouble = {} => Works
  BY DEF SafeInv, SweepInv, HandleBackfill, Works
<1>1. /\ wire' = (wire \ {p}) \cup {q} /\ met' = (met \/ p.paired)
      /\ UNCHANGED <<bRow, bSeq, paired, wm, answering, applying, told, owed, trouble>>
  BY DEF HandleBackfill
<1>2. q.kind = "query" /\ q.full = p.full /\ q.wm = wm
  BY DEF Packet, Query
<1> HIDE DEF q
<1>3. Finite'
  <2>1. IsFiniteSet(wire')
    BY <1>0, <1>1, StaysFinite DEF Finite
  <2>2. QED
    BY <1>0, <1>1, <2>1 DEF Finite
<1>4. ASSUME trouble = {} PROVE Works'
  <2>1. wire' = {q} /\ answering' = {} /\ applying' = {}
    BY <1>0, <1>1, <1>4 DEF Works, Single
  <2>2. ASSUME NEW m \in Msgs, Owes(m)' PROVE Coming(m)'
    <3>1. Owes(m)
      BY <1>1, <2>2 DEF Owes
    <3>2. Coming(m)
      BY <1>0, <1>4, <3>1 DEF Works
    <3>3. Placed(m)'
      BY <1>0, <1>1, <3>2 DEF Coming, Placed, Sent
    <3>4. QED
      BY <1>1, <1>2, <2>1, <3>2, <3>3 DEF Coming
  <2>3. QED
    BY <2>1, <2>2 DEF Works, Single
<1>5. QED
  BY <1>0, <1>1, <1>3, <1>4, ChainSweep

\* handleGapRequest: an entry owed is in the batch, or the batch is full.
LEMMA RequestSweep == ASSUME SafeInv, SweepInv, NEW p \in wire, HandleGapRequest(p) PROVE SweepInv'
<1> DEFINE c == IF p.full THEN 0 ELSE p.wm
           batch == Since(c)
<1>0. /\ GapTypes /\ Reach /\ Finite /\ Numbered /\ p.kind = "query" /\ owed \subseteq Msgs
      /\ trouble = {} => Works
  BY DEF SafeInv, SweepInv, HandleGapRequest, Works
<1>1. UNCHANGED <<bRow, bSeq, paired, met, wm, applying, told, owed>>
  BY DEF HandleGapRequest
<1>2. c \in Nat /\ p.full \in BOOLEAN /\ wm \in Nat /\ \A m \in Msgs : Coming(m) => bSeq[m] > c
  BY <1>0 DEF GapTypes, Reach, Coming
<1>10. PICK unread \in SUBSET batch :
          /\ MeetUnless(unread = {}, "failed")
          /\ batch = {} => (answering' = answering \cup {p.full} /\ wire' = wire \ {p})
          /\ batch # {} =>
                /\ wire' = (wire \ {p}) \cup
                      {Answer(batch \ unread, MaxOf({bSeq[m] : m \in batch}), More(batch), p.full)}
                /\ answering' = answering
  <2> HIDE DEF batch, c
  <2>1. QED
    BY DEF HandleGapRequest, batch, c
<1>11. ASSUME trouble' = {} PROVE trouble = {} /\ unread = {}
  BY <1>10, <1>11 DEF MeetUnless, Meet
<1>3. CASE batch = {}
  <2>1. answering' = answering \cup {p.full} /\ wire' = wire \ {p}
    BY <1>3, <1>10
  <2>2. Finite'
    <3>1. IsFiniteSet(wire') /\ IsFiniteSet(answering')
      BY <1>0, <2>1, StaysFinite DEF Finite
    <3>2. QED
      BY <1>0, <1>1, <3>1 DEF Finite
  <2>3. ASSUME trouble' = {} PROVE Works'
    <3>0. trouble = {}
      BY <1>11, <2>3
    <3>1. wire' = {} /\ answering' = {p.full} /\ applying' = {}
      BY <1>0, <1>1, <2>1, <3>0 DEF Works, Single
    <3>2. ASSUME NEW m \in Msgs, Owes(m)' PROVE FALSE
      <4>1. Owes(m)
        BY <1>1, <3>2 DEF Owes
      <4>2. Coming(m)
        BY <1>0, <3>0, <4>1 DEF Works
      <4>3. m \in Above(c)
        <5> HIDE DEF c
        <5>1. QED
          BY <1>2, <4>2 DEF Above
      <4>4. QED
        BY <1>0, <1>3, <4>3, SinceSome
    <3>3. QED
      BY <3>1, <3>2 DEF Works, Single
  <2>4. QED
    BY <1>0, <1>1, <2>2, <2>3, ChainSweep
<1>4. CASE batch # {}
  <2> DEFINE end == MaxOf({bSeq[m] : m \in batch})
             more == More(batch)
             left == batch \ unread
             a == Answer(left, end, more, p.full)
  <2>1. wire' = (wire \ {p}) \cup {a} /\ answering' = answering
    BY <1>4, <1>10
  <2>2. \E x \in batch : bSeq[x] = end
    <3>1. batch \in SUBSET Msgs
      BY DEF Since, Above
    <3> HIDE DEF batch
    <3>2. QED
      BY <1>0, <1>4, <3>1, MaxOfBatch
  <2>3. /\ a.kind = "answer" /\ a.full = p.full /\ a.end = end /\ a.more = more
        /\ DOMAIN a.rows = left /\ \A m \in left : a.seq[m] = bSeq[m]
    <3> HIDE DEF batch, end, more, left
    <3>1. QED
      BY DEF Answer, Packet
  <2>4. Finite'
    <3>1. IsFiniteSet(wire')
      <4> HIDE DEF a
      <4>1. QED
        BY <1>0, <2>1, StaysFinite DEF Finite
    <3>2. QED
      BY <1>0, <1>1, <2>1, <3>1 DEF Finite
  <2> HIDE DEF a, end
  <2>5. ASSUME trouble' = {} PROVE Works'
    <3>0. trouble = {} /\ left = batch
      BY <1>11, <2>5
    <3>1. wire' = {a} /\ answering' = {} /\ applying' = {}
      BY <1>0, <1>1, <2>1, <3>0 DEF Works, Single
    <3>2. ASSUME NEW m \in Msgs, Owes(m)' PROVE Coming(m)'
      <4>1. Owes(m)
        BY <1>1, <3>2 DEF Owes
      <4>2. Coming(m)
        BY <1>0, <3>0, <4>1 DEF Works
      <4>3. m \in Above(c)
        <5> HIDE DEF c
        <5>1. QED
          BY <1>2, <4>2 DEF Above
      <4>4. m \in batch \/ (bSeq[m] > end /\ more)
        <5>1. SUFFICES ASSUME m \notin batch PROVE bSeq[m] > end /\ more
          OBVIOUS
        <5> HIDE DEF c
        <5>2. more
          BY <1>0, <1>2, <4>3, <5>1, SinceFull DEF More
        <5>3. PICK x \in batch : bSeq[x] = end
          BY <2>2
        <5>4. ~(bSeq[m] <= bSeq[x])
          BY <1>0, <4>3, <5>1, SinceFirst
        <5>5. bSeq[m] \in Nat /\ bSeq[x] \in Nat
          BY <1>0 DEF Since, Above, GapTypes
        <5>6. QED
          BY <5>2, <5>3, <5>4, <5>5
      <4> HIDE DEF batch, more, left
      <4>5. ~p.full /\ Placed(m)
        BY <1>0, <4>2 DEF Coming
      <4>6. Placed(m)' /\ bSeq'[m] = bSeq[m] /\ bSeq'[m] > wm'
        BY <1>1, <4>2, <4>5 DEF Placed, Coming
      <4>7. QED
        BY <2>3, <3>0, <3>1, <4>4, <4>5, <4>6 DEF Coming, Sent
    <3>3. QED
      BY <3>1, <3>2 DEF Works, Single
  <2>6. QED
    BY <1>0, <1>1, <2>4, <2>5, ChainSweep
<1>5. QED
  BY <1>3, <1>4

\* handleGapRequest with nothing to send: nothing was owed.
LEMMA HeadSweep == ASSUME SafeInv, SweepInv, NEW full \in answering, ReadHead(full) PROVE SweepInv'
<1>0. Finite /\ owed \subseteq Msgs /\ (trouble = {} => Works)
  BY DEF SweepInv, Works
<1>1. PICK a : /\ wire' = wire \cup {a} /\ answering' = answering \ {full}
               /\ UNCHANGED <<bRow, bSeq, paired, met, wm, applying, told, owed, trouble>>
  BY DEF ReadHead
<1>2. Finite'
  <2>1. IsFiniteSet(wire') /\ IsFiniteSet(answering')
    BY <1>0, <1>1, StaysFinite DEF Finite
  <2>2. QED
    BY <1>0, <1>1, <2>1 DEF Finite
<1>3. ASSUME trouble = {} PROVE Works'
  <2>1. wire' = {a} /\ answering' = {} /\ applying' = {}
    BY <1>0, <1>1, <1>3 DEF Works, Single
  <2>2. ASSUME NEW m \in Msgs, Owes(m)' PROVE FALSE
    <3>1. Owes(m)
      BY <1>1, <2>2 DEF Owes
    <3>2. QED
      BY <1>0, <1>3, <3>1 DEF Works, Coming
  <2>3. QED
    BY <2>1, <2>2 DEF Works, Single
<1>4. QED
  BY <1>0, <1>1, <1>2, <1>3, ChainSweep

\* handleGapResponse: the handler holds what the answer brought.
LEMMA ResponseSweep == ASSUME SafeInv, SweepInv, NEW p \in wire, HandleGapResponse(p) PROVE SweepInv'
<1> DEFINE h == Handler(p)
<1>0. /\ Finite /\ p.kind = "answer" /\ owed \subseteq Msgs
      /\ trouble = {} => Works
  BY DEF SweepInv, HandleGapResponse, Works
<1>1. /\ applying' = applying \cup {h} /\ wire' = wire \ {p}
      /\ UNCHANGED <<bRow, bSeq, paired, met, wm, answering, trouble, told, owed>>
  BY DEF HandleGapResponse
<1>2. h.rows = p.rows /\ h.seq = p.seq /\ h.end = p.end /\ h.more = p.more /\ h.full = p.full
  BY DEF Handler
<1> HIDE DEF h
<1>3. Finite'
  <2>1. IsFiniteSet(wire') /\ IsFiniteSet(applying')
    BY <1>0, <1>1, StaysFinite DEF Finite
  <2>2. QED
    BY <1>0, <1>1, <2>1 DEF Finite
<1>4. ASSUME trouble = {} PROVE Works'
  <2>1. wire' = {} /\ answering' = {} /\ applying' = {h}
    BY <1>0, <1>1, <1>4 DEF Works, Single
  <2>2. ASSUME NEW m \in Msgs, Owes(m)' PROVE Coming(m)'
    <3>1. Owes(m)
      BY <1>1, <2>2 DEF Owes
    <3>2. Coming(m)
      BY <1>0, <1>4, <3>1 DEF Works
    <3>3. ~h.full /\ Placed(m) /\ Sent(h, m) /\ bSeq[m] > wm
      BY <1>0, <1>2, <3>2 DEF Coming, Sent
    <3>4. Placed(m)' /\ Sent(h, m)' /\ bSeq'[m] > wm'
      BY <1>1, <3>3 DEF Placed, Sent
    <3>5. QED
      BY <2>1, <3>3, <3>4 DEF Coming
  <2>3. QED
    BY <2>1, <2>2 DEF Works, Single
<1>5. QED
  BY <1>0, <1>1, <1>3, <1>4, ChainSweep

\* A handler goes on, and still brings what is owed.
LEMMA TurnSweep ==
    ASSUME SafeInv, SweepInv, NEW h \in applying, NEW k, applying' = (applying \ {h}) \cup {k},
           UNCHANGED <<bRow, bSeq, paired, met, wire, answering, owed>>,
           trouble' = {} => trouble = {},
           \A m \in Msgs : Owes(m)' => Owes(m),
           \A m \in Msgs : (Owes(m)' /\ Coming(m)) => (bSeq[m] > wm' /\ ~k.full /\ Sent(k, m))
    PROVE  SweepInv'
<1>0. Finite /\ owed \subseteq Msgs /\ (trouble = {} => Works)
  BY DEF SweepInv, Works
<1>1. Finite'
  <2>1. IsFiniteSet(applying')
    BY <1>0, StaysFinite DEF Finite
  <2>2. QED
    BY <1>0, <2>1 DEF Finite
<1>2. ASSUME trouble' = {} PROVE Works'
  <2>1. wire' = {} /\ answering' = {} /\ applying' = {k}
    BY <1>0, <1>2 DEF Works, Single
  <2>2. ASSUME NEW m \in Msgs, Owes(m)' PROVE Coming(m)'
    <3>1. Coming(m)
      BY <1>0, <1>2, <2>2 DEF Works
    <3>2. bSeq[m] > wm' /\ ~k.full /\ Sent(k, m) /\ Placed(m)
      BY <2>2, <3>1 DEF Coming
    <3>3. bSeq'[m] > wm' /\ Sent(k, m)' /\ Placed(m)'
      BY <3>2 DEF Sent, Placed
    <3>4. QED
      BY <2>1, <3>2, <3>3 DEF Coming
  <2>3. QED
    BY <2>1, <2>2 DEF Works, Single
<1>3. QED
  BY <1>0, <1>1, <1>2, ChainSweep

\* applyGapRow: a row done with is handled, and one that is owed is never held back.
LEMMA RowSweep ==
    ASSUME SafeInv, SweepInv, NEW h \in applying, NEW m \in Msgs,
           HoldRow(h, m) \/ SkipRow(h, m) \/ ReadRow(h, m) \/ WriteRow(h, m)
    PROVE  SweepInv'
<1>0. /\ HandlerTypes(h) /\ AnswerTypes(h) /\ told \in [Msgs -> Nat] /\ bSeq \in [Msgs -> Nat]
      /\ wm' = wm /\ AtHandler /\ wire' = wire
  BY DEF SafeInv, GapTypes, Bringers, HoldRow, SkipRow, ReadRow, WriteRow
<1>00. UNCHANGED <<bRow, bSeq, paired, met, wire, answering, owed>>
  BY <1>0 DEF AtHandler
<1>1. m \in DOMAIN h.rows /\ h.seq[m] \in Nat
  BY <1>0 DEF HoldRow, SkipRow, ReadRow, WriteRow, First, HandlerTypes, AnswerTypes
<1>2. ASSUME NEW k, DOMAIN k.rows = DOMAIN h.rows \ {m}, k.end = h.end, k.more = h.more,
             k.full = h.full, \A n \in DOMAIN h.seq \ {m} : k.seq[n] = h.seq[n]
      PROVE  \A n \in Msgs : (Coming(n) /\ n # m) => (bSeq[n] > wm' /\ ~k.full /\ Sent(k, n))
  BY <1>0, <1>2 DEF Coming, Sent, AnswerTypes
<1>3. ASSUME Coming(m) PROVE ~h.full /\ Placed(m) /\ (h.seq[m] = bSeq[m] \/ (bSeq[m] > h.end /\ h.more))
  BY <1>3 DEF Coming, Sent
<1>4. CASE HoldRow(h, m)
  <2> DEFINE k == RowHeld(h, m)
  <2>1. applying' = (applying \ {h}) \cup {k} /\ UNCHANGED <<trouble, told>> /\ ~Placed(m)
    BY <1>4 DEF HoldRow, TurnsInto
  <2>2. /\ DOMAIN k.rows = DOMAIN h.rows \ {m} /\ k.end = h.end /\ k.more = h.more /\ k.full = h.full
        /\ \A n \in DOMAIN h.seq \ {m} : k.seq[n] = h.seq[n]
    BY <1>0, NarrowsHeld
  <2> HIDE DEF k
  <2>3. \A n \in Msgs : (Owes(n)' /\ Coming(n)) => (bSeq[n] > wm' /\ ~k.full /\ Sent(k, n))
    BY <1>2, <1>3, <2>1, <2>2
  <2>4. \A n \in Msgs : Owes(n)' => Owes(n)
    BY <1>00, <2>1 DEF Owes
  <2>5. QED
    BY <1>00, <2>1, <2>3, <2>4, TurnSweep
<1>5. CASE SkipRow(h, m)
  <2> DEFINE k == RowDone(h, m)
  <2>1. applying' = (applying \ {h}) \cup {k} /\ trouble' # {}
    BY <1>5 DEF SkipRow, TurnsInto, Meet
  <2> HIDE DEF k
  <2>2. Finite'
    <3>1. IsFiniteSet(applying')
      BY <2>1, StaysFinite DEF SweepInv, Finite
    <3>2. QED
      BY <1>00, <3>1 DEF SweepInv, Finite
  <2>3. QED
    BY <1>00, <2>1, <2>2, ChainSweep DEF SweepInv
<1>6. CASE (ReadRow(h, m) /\ Decide(aRow[m], h.rows[m]) = "none") \/ WriteRow(h, m)
  <2> DEFINE k == RowDone(h, m)
  <2>1. applying' = (applying \ {h}) \cup {k} /\ trouble' = trouble /\ Tell(h, m)
    BY <1>6 DEF ReadRow, WriteRow, TurnsInto
  <2>2. /\ DOMAIN k.rows = DOMAIN h.rows \ {m} /\ k.end = h.end /\ k.more = h.more /\ k.full = h.full
        /\ \A n \in DOMAIN h.seq \ {m} : k.seq[n] = h.seq[n]
    BY <1>0, Narrows
  <2> HIDE DEF k
  <2>3. told'[m] = Max2(told[m], h.seq[m]) /\ \A n \in Msgs : n # m => told'[n] = told[n]
    BY <1>0, <2>1 DEF Tell
  <2>4. ASSUME NEW n \in Msgs, Owes(n)' PROVE Owes(n) /\ ~(n = m /\ h.seq[m] = bSeq[m])
    BY <1>0, <1>00, <1>1, <2>3, <2>4 DEF Owes, Max2
  <2>5. ASSUME NEW n \in Msgs, Owes(n)', Coming(n) PROVE bSeq[n] > wm' /\ ~k.full /\ Sent(k, n)
    <3>1. CASE n # m
      BY <1>2, <2>2, <2>5, <3>1
    <3>2. CASE n = m
      <4>1. ~h.full /\ bSeq[m] > h.end /\ h.more
        BY <1>3, <2>4, <2>5, <3>2
      <4>2. QED
        BY <1>0, <2>2, <2>5, <3>2, <4>1 DEF Sent, Coming
    <3>3. QED
      BY <3>1, <3>2
  <2>6. QED
    BY <1>00, <2>1, <2>4, <2>5, TurnSweep
<1>7. CASE ReadRow(h, m) /\ Decide(aRow[m], h.rows[m]) # "none"
  <2> DEFINE k == [h EXCEPT !.hand = {m}, !.seen = aRow[m]]
  <2>1. applying' = (applying \ {h}) \cup {k} /\ UNCHANGED <<trouble, told>>
    BY <1>7 DEF ReadRow, TurnsInto
  <2>2. k.rows = h.rows /\ k.seq = h.seq /\ k.end = h.end /\ k.more = h.more /\ k.full = h.full
    BY <1>0 DEF IsHandler, HandlerTypes
  <2> HIDE DEF k
  <2>3. \A n \in Msgs : Coming(n) => (bSeq[n] > wm' /\ ~k.full /\ Sent(k, n))
    BY <1>0, <2>2 DEF Coming, Sent
  <2>4. \A n \in Msgs : Owes(n)' => Owes(n)
    BY <1>00, <2>1 DEF Owes
  <2>5. QED
    BY <1>00, <2>1, <2>3, <2>4, TurnSweep
<1>8. QED
  BY <1>4, <1>5, <1>6, <1>7

\* Watermarks.Advance: the watermark moves to the end of the answer, beyond which what
\* is owed lies.
LEMMA CursorSweep ==
    ASSUME SafeInv, SweepInv, NEW h \in applying, GetWatermark(h) \/ PutWatermark(h)
    PROVE  SweepInv'
<1> DEFINE pc == IF GetWatermark(h) /\ Advances(h, wm) THEN "put" ELSE "ask"
           k == [h EXCEPT !.pc = pc]
<1>0. /\ HandlerTypes(h) /\ DOMAIN h.rows = {} /\ told' = told /\ AtHandler /\ wire' = wire
      /\ wm' = wm \/ wm' = h.end
      /\ trouble' = {} => trouble = {}
  BY DEF SafeInv, GapTypes, HandlerTypes, GetWatermark, PutWatermark, Meet
<1>00. UNCHANGED <<bRow, bSeq, paired, met, wire, answering, owed>>
  BY <1>0 DEF AtHandler
<1>1. applying' = (applying \ {h}) \cup {k}
  <2>1. CASE GetWatermark(h)
    BY <2>1 DEF GetWatermark, TurnsInto
  <2>2. CASE ~GetWatermark(h)
    BY <2>2 DEF PutWatermark, TurnsInto
  <2>3. QED
    BY <2>1, <2>2
<1> HIDE DEF pc
<1>2. k.rows = h.rows /\ k.seq = h.seq /\ k.end = h.end /\ k.more = h.more /\ k.full = h.full
  BY <1>0 DEF IsHandler, HandlerTypes
<1> HIDE DEF k
<1>3. \A n \in Msgs : Coming(n) => (bSeq[n] > wm' /\ ~k.full /\ Sent(k, n))
  BY <1>0, <1>2 DEF Coming, Sent
<1>4. \A n \in Msgs : Owes(n)' => Owes(n)
  BY <1>00, <1>0 DEF Owes
<1>5. QED
  BY <1>0, <1>00, <1>1, <1>3, <1>4, TurnSweep

\* askSibling: the handler asks again for what is still owed.
LEMMA AskSweep == ASSUME SafeInv, SweepInv, NEW h \in applying, AskAgain(h) PROVE SweepInv'
<1> DEFINE q == Query(wm, h.full)
<1>0. /\ Finite /\ owed \subseteq Msgs /\ (trouble = {} => Works)
      /\ DOMAIN h.rows = {}
  BY DEF SafeInv, GapTypes, HandlerTypes, SweepInv, Works, AskAgain
<1>1. /\ applying' = applying \ {h}
      /\ wire' = IF h.more THEN wire \cup {q} ELSE wire
      /\ UNCHANGED <<bRow, bSeq, paired, met, wm, answering, told, owed, trouble>>
  BY DEF AskAgain, AtHandler
<1>2. q.kind = "query" /\ q.full = h.full /\ q.wm = wm
  BY DEF Packet, Query
<1> HIDE DEF q
<1>4. Finite'
  <2>1. IsFiniteSet(wire') /\ IsFiniteSet(applying')
    BY <1>0, <1>1, StaysFinite DEF Finite
  <2>2. QED
    BY <1>0, <1>1, <2>1 DEF Finite
<1>5. ASSUME trouble = {} PROVE Works'
  <2>1. wire = {} /\ answering' = {} /\ applying' = {} /\ wire' \subseteq {q} /\ (h.more => wire' = {q})
    BY <1>0, <1>1, <1>5 DEF Works, Single
  <2>2. ASSUME NEW m \in Msgs, Owes(m)' PROVE Coming(m)'
    <3>1. Owes(m)
      BY <1>1, <2>2 DEF Owes
    <3>2. Coming(m)
      BY <1>0, <1>5, <3>1 DEF Works
    <3>3. ~h.full /\ Placed(m) /\ h.more /\ bSeq[m] > wm
      BY <1>0, <3>2 DEF Coming, Sent
    <3>4. Placed(m)' /\ bSeq'[m] > wm' /\ bSeq'[m] > q.wm
      BY <1>1, <1>2, <3>3 DEF Placed
    <3>5. QED
      BY <1>2, <2>1, <3>3, <3>4 DEF Coming
  <2>3. QED
    BY <2>1, <2>2 DEF Works, Single
<1>6. QED
  BY <1>0, <1>1, <1>4, <1>5, ChainSweep

\* A pruned entry is owed no longer.
LEMMA PruneSweep == ASSUME SafeInv, SweepInv, Prune PROVE SweepInv'
<1> DEFINE floor == IF ack < ThirdAck THEN ack ELSE ThirdAck
<1>0. GapTypes /\ Finite /\ Numbered /\ owed \subseteq Msgs /\ Strange \subseteq Msgs
      /\ (trouble = {} => Works)
  BY Limits DEF SafeInv, SweepInv, Works
<1>1. bSeq' = [m \in Msgs |-> IF bSeq[m] <= floor THEN 0 ELSE bSeq[m]]
      /\ UNCHANGED <<bRow, paired, met, wm, wire, answering, applying, trouble, told, owed>>
  BY DEF Prune
<1> HIDE DEF floor
<1>2. \A m \in Msgs : /\ bSeq[m] \in Nat /\ told[m] \in Nat
                      /\ bSeq'[m] = bSeq[m] \/ bSeq'[m] = 0
  BY <1>0, <1>1 DEF GapTypes
<1>3. Finite' /\ owed' \subseteq Msgs
  BY <1>0, <1>1 DEF Finite
<1>4. Numbered'
  BY <1>0, <1>1, <1>2 DEF Numbered
<1>5. ASSUME trouble = {} PROVE Works'
  <2>1. Single'
    BY <1>0, <1>1, <1>5 DEF Works, Single
  <2>2. ASSUME NEW m \in Msgs, Owes(m)' PROVE Coming(m)'
    <3>1. bSeq'[m] = bSeq[m] /\ Owes(m)
      BY <1>1, <1>2, <2>2 DEF Owes
    <3>2. Coming(m)
      BY <1>0, <1>5, <3>1 DEF Works
    <3>3. QED
      BY <1>1, <3>1, <3>2 DEF Coming, Placed, Sent
  <2>3. QED
    BY <2>1, <2>2 DEF Works
<1>6. QED
  BY <1>1, <1>3, <1>4, <1>5 DEF SweepInv, Works

\* A loss and a stop are trouble.
LEMMA TroubleSweep ==
    ASSUME SafeInv, SweepInv, Stop \/ \E p \in wire : Lose(p)
    PROVE  SweepInv'
<1>1. /\ trouble' # {} /\ UNCHANGED <<bRow, bSeq, paired, owed>>
      /\ wire' \in SUBSET wire /\ answering' \in SUBSET answering /\ applying' \in SUBSET applying
  BY DEF Stop, Lose, Meet
<1>2. Finite'
  BY <1>1, FS_Subset DEF SweepInv, Finite
<1>3. QED
  BY <1>1, <1>2, ChainSweep DEF SweepInv

\* Every step keeps the sweep's invariant.
LEMMA SweepStep == SafeInv /\ SweepInv /\ [Next]_vars => SweepInv'
<1> SUFFICES ASSUME SafeInv, SweepInv, [Next]_vars PROVE SweepInv'
  OBVIOUS
<1>1. CASE Writes
  BY <1>1, WritesSweep
<1>2. ASSUME NEW full \in Fulls, Sweep(full) PROVE SweepInv'
  BY <1>2, BeginSweep
<1>3. ASSUME NEW p \in wire,
             AnswerBackfill(p) \/ HandleBackfill(p) \/ HandleGapRequest(p)
                \/ HandleGapResponse(p) \/ Lose(p)
      PROVE  SweepInv'
  BY <1>3, SnapshotSweep, MeetSweep, RequestSweep, ResponseSweep, TroubleSweep
<1>4. ASSUME NEW full \in answering, ReadHead(full) PROVE SweepInv'
  BY <1>4, HeadSweep
<1>5. ASSUME NEW h \in applying,
             \/ \E m \in Msgs : HoldRow(h, m) \/ SkipRow(h, m) \/ ReadRow(h, m) \/ WriteRow(h, m)
             \/ GetWatermark(h) \/ PutWatermark(h) \/ AskAgain(h)
      PROVE  SweepInv'
  BY <1>5, RowSweep, CursorSweep, AskSweep
<1>6. CASE Prune
  BY <1>6, PruneSweep
<1>7. CASE Stop
  BY <1>7, TroubleSweep
<1>8. CASE UNCHANGED vars
  <2>1. UNCHANGED <<bRow, bSeq, met, wm, wire, answering, applying, told, owed, trouble, paired>>
    BY <1>8 DEF vars
  <2>2. QED
    BY <2>1, ElsewhereSweep
<1>9. QED
  BY <1>1, <1>2, <1>3, <1>4, <1>5, <1>6, <1>7, <1>8 DEF Next

\* With no chain under way nothing is owed.
LEMMA SweepMeans == SweepInv /\ SafeInv => SweepDelivers
<1> SUFFICES ASSUME SweepInv, SafeInv, Chains = 0, trouble = {}, NEW m \in owed
             PROVE  bSeq[m] <= told[m]
  BY DEF SweepDelivers
<1>1. wire = {} /\ applying = {} /\ m \in Msgs
  BY NoChain DEF SweepInv
<1>2. ~Coming(m)
  BY <1>1 DEF Coming
<1>3. ~Owes(m)
  BY <1>1, <1>2 DEF SweepInv
<1>4. QED
  BY <1>1, <1>3 DEF Owes, SafeInv, GapTypes

\* sweepGapFill: a sweep for what was missed that meets no trouble has handled every
\* entry it found when it is over, batch by batch, for any number of messages and any
\* batch size, while rows are written and pruned beside it.
THEOREM GapSweepDelivers == Spec => []SweepDelivers
<1>1. Init => SafeInv /\ SweepInv
  BY InitSafe, InitSweep
<1>2. SafeInv /\ SweepInv /\ [Next]_vars => SafeInv' /\ SweepInv'
  BY SafeStep, SweepStep
<1>3. QED
  BY <1>1, <1>2, SweepMeans, PTL DEF Spec

-----------------------------------------------------------------------------
(* Deleting a person: what the devices hold and what a handler has done *)

TombT == [at : Nat, applied : Nat, done : BOOLEAN]
ChatT == [held : BOOLEAN, routes : SUBSET Nat, created : Nat]
JobT == [pc : Pcs, src : {"none", "operator", "push", "sweep"}, at : Nat, seen : Int,
         offered : BOOLEAN, held : TombT, doomed : SUBSET Nat, kept : SUBSET Nat, cur : Nat,
         keptChat : BOOLEAN, ok : BOOLEAN]
JobsT(js) == /\ js \in [Linked -> UNION {[Slots[d] -> JobT] : d \in Linked}]
             /\ \A d \in Linked : js[d] \in [Slots[d] -> JobT]

StoreTypes ==
    /\ clock \in Nat \ {0}
    /\ pairs \in [Linked -> SUBSET Nat] /\ live \in [Linked -> SUBSET Nat]
    /\ chat \in [Linked -> ChatT] /\ person \in [Linked -> BOOLEAN]
    /\ tomb \in [Linked -> TombT]
    /\ made \in SUBSET Nat /\ deletes \in Nat /\ disturbed \subseteq Linked
    /\ JobsT(jobs)

\* Pairings that were ever made.
Ever == made \cup {1}

\* Each device holds pairings that were made, and the backend's are among them;
\* nothing is of the future.
Store(d) ==
    /\ live[d] \subseteq pairs[d] /\ pairs[d] \subseteq Ever
    /\ \A p \in pairs[d] : p <= Now(d)
    /\ chat[d].created <= Now(d)
    /\ tomb[d].at = 0 => ~tomb[d].done
    /\ tomb[d].at > 0 => 0 < tomb[d].applied /\ tomb[d].applied <= Now(d)

\* A handler at work on a delete has a tombstone not newer than the one held, and
\* what it is about to forget is gone from the backend.
AtWork(d, s) ==
    /\ jobs[d][s].pc \in DeletingPcs =>
         /\ jobs[d][s].held.at > 0 /\ jobs[d][s].held.at <= tomb[d].at
         /\ jobs[d][s].held.at = tomb[d].at => jobs[d][s].held.applied = tomb[d].applied
    /\ jobs[d][s].pc = "forget" => jobs[d][s].cur \in Ever \ live[d]
    /\ jobs[d][s].pc \in DeletingPcs \ {"read"} => jobs[d][s].doomed \subseteq Ever
    /\ jobs[d][s].seen \in Ever \cup {0, Nobody}
    /\ jobs[d][s].pc = "mark" => jobs[d][s].at > 0

Base == /\ StoreTypes
        /\ \A d \in Linked : Store(d) /\ (Overlapping(jobs[d]) => d \in disturbed)
        /\ \A d \in Linked : \A s \in Slots[d] : AtWork(d, s)

\* The delete that d holds was neither overtaken by a pairing nor disturbed.
Plain(d) == tomb[d].at > 0 /\ NotMetSince(d) /\ d \notin disturbed

\* A handler at work on that delete, and what it has done already.
OnIt(d, s) == jobs[d][s].pc \in DeletingPcs /\ jobs[d][s].held.at = tomb[d].at
DoneSoFar(d, s) == OnIt(d, s) =>
    /\ jobs[d][s].pc # "read" => jobs[d][s].kept = {}
    /\ jobs[d][s].ok =>
         /\ jobs[d][s].pc \in {"chat", "pair", "forget"} => live[d] \subseteq jobs[d][s].doomed
         /\ jobs[d][s].pc \in {"person", "finish"} => live[d] = {}
    /\ jobs[d][s].pc \in {"pair", "forget", "person", "finish"} =>
         ~chat[d].held /\ ~jobs[d][s].keptChat
    /\ jobs[d][s].pc = "finish" => ~person[d]

\* Nobody who could bring the person back is past its check.
NoneBack(d) == \A s \in Slots[d] : jobs[d][s].pc \notin {"merge", "adopt"}

\* The person is gone when nobody is at work on the delete.
Gone(d) == Plain(d) =>
    /\ NoneBack(d)
    /\ \A s \in Slots[d] : DoneSoFar(d, s)
    /\ (\A s \in Slots[d] : ~OnIt(d, s)) => ~person[d] /\ ~chat[d].held
    /\ tomb[d].done => live[d] = {}
    /\ chat[d].held => chat[d].created <= tomb[d].applied

GoneInv == Base /\ \A d \in Linked : Gone(d)

-----------------------------------------------------------------------------
\* The other device.
LEMMA Others == \A d \in Linked : Other(d) \in Linked /\ Other(d) # d
BY TwoDevices DEF Other

\* Values.
LEMMA Values ==
    /\ Idle \in JobT /\ NoTomb \in TombT /\ NoChat \in ChatT
    /\ Idle.pc = "idle" /\ Idle.src = "none" /\ Idle.at = 0 /\ Idle.seen = Nobody /\ ~Idle.offered
    /\ Idle.doomed = {} /\ Idle.kept = {} /\ Idle.cur = 0 /\ ~Idle.keptChat /\ Idle.ok
    /\ NoTomb.at = 0 /\ NoTomb.applied = 0 /\ ~NoTomb.done
    /\ ~NoChat.held /\ NoChat.routes = {} /\ NoChat.created = 0
<1>1. NoTomb \in TombT /\ NoTomb.at = 0 /\ NoTomb.applied = 0 /\ ~NoTomb.done
  BY DEF NoTomb, TombT
<1>2. NoChat \in ChatT /\ ~NoChat.held /\ NoChat.routes = {} /\ NoChat.created = 0
  BY DEF NoChat, ChatT
<1>3. Idle \in JobT
  BY <1>1 DEF Idle, JobT, Pcs, Nobody
<1>4. QED
  BY <1>1, <1>2, <1>3 DEF Idle

\* A job of a slot changes.
LEMMA JobChanges ==
    ASSUME StoreTypes, NEW d \in Linked, NEW s \in Slots[d], NEW job \in JobT, Becomes(d, s, job)
    PROVE  /\ JobsT(jobs') /\ jobs'[d][s] = job
           /\ \A e \in Linked : e # d => jobs'[e] = jobs[e]
           /\ \A t \in Slots[d] : t # s => jobs'[d][t] = jobs[d][t]
           /\ disturbed \subseteq disturbed' /\ disturbed' \subseteq Linked
           /\ \A e \in Linked : Overlapping(jobs'[e]) => e \in disturbed'
<1>1. jobs' = [jobs EXCEPT ![d] = [jobs[d] EXCEPT ![s] = job]] /\ JobsT(jobs)
  BY DEF Becomes, JobsBecome, StoreTypes
<1>2. /\ disturbed \subseteq disturbed' /\ disturbed' \subseteq Linked
      /\ \A e \in Linked : Overlapping(jobs'[e]) => e \in disturbed'
  BY DEF Becomes, JobsBecome, StoreTypes
<1>3. jobs \in [Linked -> UNION {[Slots[e] -> JobT] : e \in Linked}] /\ jobs[d] \in [Slots[d] -> JobT]
  BY <1>1 DEF JobsT
<1>4. [jobs[d] EXCEPT ![s] = job] \in [Slots[d] -> JobT]
  BY <1>1, <1>3
<1>5. [jobs[d] EXCEPT ![s] = job] \in UNION {[Slots[e] -> JobT] : e \in Linked}
  BY <1>4
<1>6. jobs'[d] = [jobs[d] EXCEPT ![s] = job] /\ \A e \in Linked : e # d => jobs'[e] = jobs[e]
  BY <1>1, <1>2, <1>3
<1>7. jobs' \in [Linked -> UNION {[Slots[e] -> JobT] : e \in Linked}]
  BY <1>1, <1>2, <1>3, <1>5
<1>8. JobsT(jobs')
  BY <1>4, <1>6, <1>7, <1>1 DEF JobsT
<1>9. jobs'[d][s] = job /\ \A t \in Slots[d] : t # s => jobs'[d][t] = jobs[d][t]
  BY <1>1, <1>3, <1>6
<1>10. QED
  BY <1>1, <1>2, <1>6, <1>8, <1>9

\* A job begins in a free slot.
LEMMA JobBegins ==
    ASSUME NEW js, JobsT(js), disturbed \subseteq Linked, NEW d \in Linked, NEW job \in JobT,
           Begin(js, d, job)
    PROVE  \E s \in Slots[d] :
           /\ jobs[d][s].pc = "idle"
           /\ JobsT(jobs') /\ jobs'[d][s] = job
           /\ \A e \in Linked : e # d => jobs'[e] = js[e]
           /\ \A t \in Slots[d] : t # s => jobs'[d][t] = js[d][t]
           /\ disturbed \subseteq disturbed' /\ disturbed' \subseteq Linked
           /\ \A e \in Linked : Overlapping(jobs'[e]) => e \in disturbed'
<1> DEFINE s == CHOOSE s \in Free(d) : TRUE
<1>1. s \in Slots[d] /\ jobs[d][s].pc = "idle"
  BY DEF Begin, Free
<1>2. /\ jobs' = [js EXCEPT ![d] = [js[d] EXCEPT ![s] = job]]
      /\ disturbed' = disturbed \cup {e \in Linked : Overlapping(jobs'[e])}
  BY DEF Begin, JobsBecome
<1> HIDE DEF s
<1>3. js \in [Linked -> UNION {[Slots[e] -> JobT] : e \in Linked}] /\ js[d] \in [Slots[d] -> JobT]
  BY JobsT(js) DEF JobsT
<1>4. [js[d] EXCEPT ![s] = job] \in [Slots[d] -> JobT]
  BY <1>1, <1>3
<1>5. [js[d] EXCEPT ![s] = job] \in UNION {[Slots[e] -> JobT] : e \in Linked}
  BY <1>4
<1>6. jobs'[d] = [js[d] EXCEPT ![s] = job] /\ \A e \in Linked : e # d => jobs'[e] = js[e]
  BY <1>1, <1>2, <1>3
<1>7. jobs' \in [Linked -> UNION {[Slots[e] -> JobT] : e \in Linked}]
  BY <1>1, <1>2, <1>3, <1>5
<1>8. JobsT(jobs')
  BY <1>4, <1>6, <1>7, JobsT(js) DEF JobsT
<1>9. jobs'[d][s] = job /\ \A t \in Slots[d] : t # s => jobs'[d][t] = js[d][t]
  BY <1>1, <1>3, <1>6
<1>10. QED
  BY <1>1, <1>2, <1>6, <1>8, <1>9

\* What a delete has done so far, and that the person is gone, survives every step
\* that brings nothing back and lets nobody leave work half done.
LEMMA GoneStays ==
    ASSUME NEW e \in Linked, Gone(e), tomb'[e].at = tomb[e].at, tomb'[e].applied = tomb[e].applied,
           made \subseteq made', disturbed \subseteq disturbed',
           Plain(e)' => /\ live'[e] \subseteq live[e] /\ (person'[e] => person[e])
                        /\ chat'[e].held => chat[e].held /\ chat'[e].created = chat[e].created
                        /\ tomb'[e].done /\ ~tomb[e].done => live'[e] = {}
                        /\ \A t \in Slots[e] : \/ jobs'[e][t] = jobs[e][t]
                                               \/ /\ jobs'[e][t].pc \notin {"merge", "adopt"}
                                                  /\ DoneSoFar(e, t)'
                        /\ \/ \A t \in Slots[e] : OnIt(e, t) => OnIt(e, t)'
                           \/ ~person'[e] /\ ~chat'[e].held
    PROVE  Gone(e)'
<1> SUFFICES ASSUME Plain(e)'
             PROVE  /\ NoneBack(e)' /\ \A s \in Slots[e] : DoneSoFar(e, s)'
                    /\ (\A s \in Slots[e] : ~OnIt(e, s)') => ~person'[e] /\ ~chat'[e].held
                    /\ tomb'[e].done => live'[e] = {}
                    /\ chat'[e].held => chat'[e].created <= tomb'[e].applied
  BY DEF Gone
<1>1. Plain(e)
  BY DEF Plain, NotMetSince, Bound
<1>2. /\ NoneBack(e) /\ \A s \in Slots[e] : DoneSoFar(e, s)
      /\ (\A s \in Slots[e] : ~OnIt(e, s)) => ~person[e] /\ ~chat[e].held
      /\ tomb[e].done => live[e] = {}
      /\ chat[e].held => chat[e].created <= tomb[e].applied
  BY <1>1 DEF Gone
<1>3. NoneBack(e)'
  BY <1>2 DEF NoneBack
<1>4. ASSUME NEW s \in Slots[e] PROVE DoneSoFar(e, s)'
  <2>1. CASE jobs'[e][s] = jobs[e][s]
    BY <1>2, <2>1 DEF DoneSoFar, OnIt
  <2>2. QED
    BY <2>1
<1>5. QED
  BY <1>2, <1>3, <1>4

-----------------------------------------------------------------------------
\* What a step at one device leaves alone elsewhere.
Rest(d) == \A e \in Linked : e # d =>
    /\ pairs'[e] = pairs[e] /\ live'[e] = live[e] /\ chat'[e] = chat[e]
    /\ person'[e] = person[e] /\ tomb'[e] = tomb[e] /\ jobs'[e] = jobs[e]

\* The values one device stores.
LEMMA Facts ==
    ASSUME StoreTypes, NEW d \in Linked
    PROVE  /\ pairs[d] \subseteq Nat /\ live[d] \subseteq Nat /\ chat[d] \in ChatT
           /\ person[d] \in BOOLEAN /\ tomb[d] \in TombT /\ Skew[d] \in Nat
           /\ Now(d) \in Nat /\ Now(d) >= 1
           /\ \A s \in Slots[d] : jobs[d][s] \in JobT
<1>1. /\ pairs[d] \subseteq Nat /\ live[d] \subseteq Nat /\ chat[d] \in ChatT
      /\ person[d] \in BOOLEAN /\ tomb[d] \in TombT
  BY DEF StoreTypes
<1>2. \A s \in Slots[d] : jobs[d][s] \in JobT
  BY DEF StoreTypes, JobsT
<1>3. Skew[d] \in Nat /\ clock \in Nat \ {0}
  BY ClocksPositive DEF StoreTypes
<1>4. Now(d) \in Nat /\ Now(d) >= 1
  BY <1>3 DEF Now
<1>5. QED
  BY <1>1, <1>2, <1>3, <1>4

\* The same after a step.
LEMMA FactsNext ==
    ASSUME StoreTypes', NEW d \in Linked
    PROVE  /\ pairs'[d] \subseteq Nat /\ live'[d] \subseteq Nat /\ chat'[d] \in ChatT
           /\ person'[d] \in BOOLEAN /\ tomb'[d] \in TombT
           /\ Now(d)' \in Nat /\ Now(d)' >= 1
           /\ \A s \in Slots[d] : jobs'[d][s] \in JobT
<1>1. /\ pairs'[d] \subseteq Nat /\ live'[d] \subseteq Nat /\ chat'[d] \in ChatT
      /\ person'[d] \in BOOLEAN /\ tomb'[d] \in TombT
  BY DEF StoreTypes
<1>2. \A s \in Slots[d] : jobs'[d][s] \in JobT
  BY DEF StoreTypes, JobsT
<1>3. Skew[d] \in Nat /\ clock' \in Nat \ {0}
  BY ClocksPositive DEF StoreTypes
<1>4. Now(d)' \in Nat /\ Now(d)' >= 1
  BY <1>3 DEF Now
<1>5. QED
  BY <1>1, <1>2, <1>4

\* A handler that does not move stays in order, whatever delete is held then.
LEMMA AtWorkStays ==
    ASSUME NEW e \in Linked, NEW t \in Slots[e], AtWork(e, t), jobs'[e][t] = jobs[e][t],
           StoreTypes, StoreTypes',
           \/ tomb'[e].at = tomb[e].at /\ tomb'[e].applied = tomb[e].applied
           \/ tomb'[e].at > tomb[e].at,
           made \subseteq made', live'[e] \cap Ever \subseteq live[e]
    PROVE  AtWork(e, t)'
<1>1. jobs[e][t].held.at \in Nat /\ tomb[e].at \in Nat /\ tomb'[e].at \in Nat
  BY Facts, FactsNext DEF JobT, TombT
<1>2. Ever \subseteq Ever'
  BY DEF Ever
<1>3. QED
  BY <1>1, <1>2 DEF AtWork

\* A step of one device leaves the other one's part of the invariant alone.
LEMMA Untouched ==
    ASSUME GoneInv, StoreTypes', NEW d \in Linked, Rest(d), NEW e \in Linked, e # d,
           clock <= clock', made \subseteq made', disturbed \subseteq disturbed'
    PROVE  Store(e)' /\ (\A t \in Slots[e] : AtWork(e, t)') /\ Gone(e)'
<1>1. /\ pairs'[e] = pairs[e] /\ live'[e] = live[e] /\ chat'[e] = chat[e]
      /\ person'[e] = person[e] /\ tomb'[e] = tomb[e] /\ jobs'[e] = jobs[e]
  BY DEF Rest
<1>2. Base /\ StoreTypes /\ Store(e) /\ Gone(e) /\ \A t \in Slots[e] : AtWork(e, t)
  BY DEF GoneInv, Base
<1>3. Store(e)'
  <2>1. Now(e) <= Now(e)' /\ Now(e) \in Nat /\ Now(e)' \in Nat
    BY <1>2, Facts, FactsNext, ClocksPositive DEF Now, StoreTypes
  <2>2. tomb[e].applied \in Nat /\ chat[e].created \in Nat /\ pairs[e] \subseteq Nat
    BY <1>2, Facts DEF TombT, ChatT
  <2>3. QED
    BY <1>1, <1>2, <2>1, <2>2 DEF Store, Ever
<1>4. \A t \in Slots[e] : AtWork(e, t)'
  BY <1>1, <1>2, AtWorkStays
<1>5. Gone(e)'
  <2>1. /\ live'[e] \subseteq live[e] /\ (person'[e] => person[e])
        /\ chat'[e].held => chat[e].held /\ chat'[e].created = chat[e].created
        /\ ~(tomb'[e].done /\ ~tomb[e].done)
        /\ \A t \in Slots[e] : jobs'[e][t] = jobs[e][t]
        /\ \A t \in Slots[e] : OnIt(e, t) => OnIt(e, t)'
    BY <1>1 DEF OnIt
  <2>2. QED
    BY <1>1, <1>2, <2>1, GoneStays
<1>6. QED
  BY <1>3, <1>4, <1>5

\* So the invariant is kept when the device that steps keeps its own part.
LEMMA OneDevice ==
    ASSUME GoneInv, StoreTypes', NEW d \in Linked, Rest(d),
           clock <= clock', made \subseteq made', disturbed \subseteq disturbed',
           \A e \in Linked : Overlapping(jobs'[e]) => e \in disturbed',
           Store(d)', \A t \in Slots[d] : AtWork(d, t)', Gone(d)'
    PROVE  GoneInv'
<1>1. ASSUME NEW e \in Linked PROVE Store(e)' /\ (\A t \in Slots[e] : AtWork(e, t)') /\ Gone(e)'
  BY Untouched
<1>2. QED
  BY <1>1 DEF GoneInv, Base

\* Where a delete is plain, everything known of the person is covered by it.
LEMMA AllCovered ==
    ASSUME Base, NEW d \in Linked, Plain(d)
    PROVE  /\ \A p \in Ever : Covers(tomb[d], p)
           /\ \A p \in Ever \cup {0, Nobody} : p <= tomb[d].at
           /\ \A p \in pairs[d] : Covers(tomb[d], p)
<1>1. tomb[d] \in TombT /\ made \subseteq Nat /\ Store(d) /\ tomb[d].at > 0 /\ NotMetSince(d)
  BY Facts DEF Base, StoreTypes, Plain
<1>2. tomb[d].at \in Nat /\ tomb[d].applied \in Nat /\ tomb[d].applied > 0
  BY <1>1 DEF TombT, Store
<1>3. Bound(tomb[d]) \in Nat /\ Bound(tomb[d]) >= 1 /\ Bound(tomb[d]) <= tomb[d].at
  BY <1>1, <1>2 DEF Bound
<1>4. \A p \in Ever : p \in Nat /\ p <= Bound(tomb[d])
  BY <1>1, <1>3 DEF Ever, NotMetSince
<1>5. QED
  BY <1>1, <1>2, <1>3, <1>4 DEF Covers, Nobody, Store

-----------------------------------------------------------------------------
(* Steps of one handler *)

\* Only the job in slot s of d changes, and an overlap is noted.
SlotOnly(d, s) ==
    /\ JobsT(jobs')
    /\ \A e \in Linked : e # d => jobs'[e] = jobs[e]
    /\ \A t \in Slots[d] : t # s => jobs'[d][t] = jobs[d][t]
    /\ disturbed \subseteq disturbed' /\ disturbed' \subseteq Linked
    /\ \A e \in Linked : Overlapping(jobs'[e]) => e \in disturbed'

\* The records of the other devices stay.
StoreRest(d) == \A e \in Linked : e # d =>
    /\ pairs'[e] = pairs[e] /\ live'[e] = live[e] /\ chat'[e] = chat[e]
    /\ person'[e] = person[e] /\ tomb'[e] = tomb[e]

\* A handler that moves changes its own slot only.
LEMMA SlotChanges ==
    ASSUME StoreTypes, NEW d \in Linked, NEW s \in Slots[d], NEW job \in JobT, Becomes(d, s, job)
    PROVE  SlotOnly(d, s) /\ jobs'[d][s] = job
BY JobChanges DEF SlotOnly

\* A handler whose step fails changes its own slot only, and its device is noted.
LEMMA SlotFails ==
    ASSUME Base, NEW d \in Linked, NEW s \in Slots[d], NEW job \in JobT,
           jobs' = [jobs EXCEPT ![d] = [jobs[d] EXCEPT ![s] = job]], disturbed' = disturbed \cup {d}
    PROVE  SlotOnly(d, s) /\ jobs'[d][s] = job
<1>1. jobs \in [Linked -> UNION {[Slots[e] -> JobT] : e \in Linked}] /\ jobs[d] \in [Slots[d] -> JobT]
      /\ JobsT(jobs) /\ disturbed \subseteq Linked
  BY DEF Base, StoreTypes, JobsT
<1>2. [jobs[d] EXCEPT ![s] = job] \in [Slots[d] -> JobT]
  BY <1>1
<1>3. [jobs[d] EXCEPT ![s] = job] \in UNION {[Slots[e] -> JobT] : e \in Linked}
  BY <1>2
<1>4. jobs'[d] = [jobs[d] EXCEPT ![s] = job] /\ \A e \in Linked : e # d => jobs'[e] = jobs[e]
  BY <1>1
<1>5. jobs' \in [Linked -> UNION {[Slots[e] -> JobT] : e \in Linked}]
  BY <1>1, <1>3
<1>6. JobsT(jobs')
  BY <1>1, <1>2, <1>4, <1>5 DEF JobsT
<1>7. jobs'[d][s] = job /\ \A t \in Slots[d] : t # s => jobs'[d][t] = jobs[d][t]
  BY <1>1, <1>4
<1>8. \A e \in Linked : Overlapping(jobs'[e]) => e \in disturbed'
  BY <1>4 DEF Base
<1>9. QED
  BY <1>1, <1>4, <1>6, <1>7, <1>8 DEF SlotOnly

\* A merge or an adoption beside a delete is noted.
LEMMA Beside ==
    ASSUME NEW d \in Linked, JobsT(jobs'), NEW s \in Slots[d], NEW t \in Slots[d],
           jobs'[d][s].pc \in {"merge", "adopt"}, jobs'[d][t].pc \in DeletingPcs,
           \A e \in Linked : Overlapping(jobs'[e]) => e \in disturbed'
    PROVE  d \in disturbed'
<1>1. DOMAIN jobs'[d] = Slots[d]
  BY DEF JobsT
<1>2. Overlapping(jobs'[d])
  BY <1>1 DEF Overlapping
<1>3. QED
  BY <1>2

\* A handler's step that brings nothing back keeps its device's part of the
\* invariant.
LEMMA DeviceStep ==
    ASSUME GoneInv, NEW d \in Linked, NEW s \in Slots[d],
           \A t \in Slots[d] : t # s => jobs'[d][t] = jobs[d][t],
           disturbed \subseteq disturbed', StoreTypes', made' = made,
           tomb'[d].at = tomb[d].at, tomb'[d].applied = tomb[d].applied, live'[d] \subseteq live[d],
           AtWork(d, s)',
           Plain(d) => /\ (person'[d] => person[d])
                       /\ chat'[d].held => chat[d].held /\ chat'[d].created = chat[d].created
                       /\ tomb'[d].done /\ ~tomb[d].done => live'[d] = {}
                       /\ jobs'[d][s].pc \in {"merge", "adopt"} => d \in disturbed'
                       /\ DoneSoFar(d, s)'
                       /\ \/ OnIt(d, s) => OnIt(d, s)'
                          \/ ~person'[d] /\ ~chat'[d].held
    PROVE  (\A t \in Slots[d] : AtWork(d, t)') /\ Gone(d)'
<1>1. StoreTypes /\ Gone(d) /\ \A t \in Slots[d] : AtWork(d, t)
  BY DEF GoneInv, Base
<1>2. ASSUME NEW t \in Slots[d] PROVE AtWork(d, t)'
  BY <1>1, AtWorkStays
<1>3. Gone(d)'
  <2> SUFFICES ASSUME Plain(d)' PROVE Gone(d)'
    BY DEF Gone
  <2>1. Plain(d) /\ d \notin disturbed'
    BY <1>1 DEF Plain, NotMetSince, Bound
  <2>2. \A t \in Slots[d] : \/ jobs'[d][t] = jobs[d][t]
                            \/ jobs'[d][t].pc \notin {"merge", "adopt"} /\ DoneSoFar(d, t)'
    BY <1>1, <2>1
  <2>3. \/ \A t \in Slots[d] : OnIt(d, t) => OnIt(d, t)'
        \/ ~person'[d] /\ ~chat'[d].held
    <3>1. ASSUME NEW t \in Slots[d], t # s, OnIt(d, t) PROVE OnIt(d, t)'
      BY <1>1, <3>1 DEF OnIt
    <3>2. QED
      BY <2>1, <3>1
  <2>4. /\ made \subseteq made' /\ live'[d] \subseteq live[d] /\ (person'[d] => person[d])
        /\ chat'[d].held => chat[d].held /\ chat'[d].created = chat[d].created
        /\ tomb'[d].done /\ ~tomb[d].done => live'[d] = {}
    BY <2>1
  <2>5. QED
    BY <1>1, <2>2, <2>3, <2>4, GoneStays
<1>4. QED
  BY <1>2, <1>3

\* And so the whole invariant.
LEMMA SlotStep ==
    ASSUME GoneInv, NEW d \in Linked, NEW s \in Slots[d], SlotOnly(d, s), StoreRest(d),
           StoreTypes', clock' = clock, made' = made,
           tomb'[d].at = tomb[d].at, tomb'[d].applied = tomb[d].applied, live'[d] \subseteq live[d],
           Store(d)', AtWork(d, s)',
           Plain(d) => /\ (person'[d] => person[d])
                       /\ chat'[d].held => chat[d].held /\ chat'[d].created = chat[d].created
                       /\ tomb'[d].done /\ ~tomb[d].done => live'[d] = {}
                       /\ jobs'[d][s].pc \in {"merge", "adopt"} => d \in disturbed'
                       /\ DoneSoFar(d, s)'
                       /\ \/ OnIt(d, s) => OnIt(d, s)'
                          \/ ~person'[d] /\ ~chat'[d].held
    PROVE  GoneInv'
<1>1. /\ disturbed \subseteq disturbed' /\ \A t \in Slots[d] : t # s => jobs'[d][t] = jobs[d][t]
      /\ \A e \in Linked : Overlapping(jobs'[e]) => e \in disturbed'
  BY DEF SlotOnly
<1>2. Rest(d)
  BY DEF Rest, SlotOnly, StoreRest
<1>3. (\A t \in Slots[d] : AtWork(d, t)') /\ Gone(d)'
  BY <1>1, DeviceStep
<1>4. clock <= clock' /\ made \subseteq made'
  BY DEF GoneInv, Base, StoreTypes
<1>5. QED
  BY <1>1, <1>2, <1>3, <1>4, OneDevice

\* A step that stores nothing leaves the records in order.
LEMMA SameStore ==
    ASSUME StoreTypes, UNCHANGED <<store, clock, made>>, NEW d \in Linked
    PROVE  StoreRest(d) /\ (Store(d) => Store(d)')
BY DEF StoreRest, Store, store, Ever, Now

\* What the parts of the invariant say of a handler.
LEMMA Here ==
    ASSUME GoneInv, NEW d \in Linked, NEW s \in Slots[d]
    PROVE  /\ StoreTypes /\ Base /\ Store(d) /\ AtWork(d, s) /\ Gone(d)
           /\ jobs[d][s] \in JobT /\ tomb[d] \in TombT /\ chat[d] \in ChatT
           /\ person[d] \in BOOLEAN /\ Now(d) \in Nat
BY Facts DEF GoneInv, Base

\* A plain delete refuses whatever comes while nobody is at work on it.
LEMMA Refused ==
    ASSUME GoneInv, NEW d \in Linked, Plain(d), \A t \in Slots[d] : ~OnIt(d, t)
    PROVE  PersonDeletedHere(d) /\ \A p \in Ever \cup {0, Nobody} : Refuses(d, p)
<1>1. ~person[d] /\ tomb[d].at > 0 /\ Base
  BY DEF GoneInv, Gone, Plain
<1>2. PersonDeletedHere(d)
  BY <1>1, AllCovered DEF PersonDeletedHere
<1>3. QED
  BY <1>1, <1>2, AllCovered DEF Refuses

\* A check lets nothing through beside a plain delete.
LEMMA CheckHolds ==
    ASSUME GoneInv, NEW d \in Linked, NEW s \in Slots[d], SlotOnly(d, s), Plain(d), ~OnIt(d, s),
           jobs'[d][s].pc \in {"merge", "adopt"},
           ~(PersonDeletedHere(d) /\ \A p \in Ever \cup {0, Nobody} : Refuses(d, p))
    PROVE  d \in disturbed'
<1>1. PICK t \in Slots[d] : OnIt(d, t)
  BY Refused
<1>2. jobs'[d][t] = jobs[d][t] /\ jobs[d][t].pc \in DeletingPcs
  BY <1>1 DEF SlotOnly, OnIt
<1>3. QED
  BY <1>2, Beside DEF SlotOnly

\* The check of a contacts answer: a plain delete lets nothing through.
LEMMA CheckContactKeeps ==
    ASSUME GoneInv, NEW d \in Linked, NEW s \in Slots[d], CheckContact(d, s)
    PROVE  GoneInv'
<1>1. /\ StoreTypes /\ Base /\ Store(d) /\ AtWork(d, s) /\ Gone(d) /\ jobs[d][s] \in JobT
      /\ jobs[d][s].pc = "contact" /\ jobs[d][s].seen \in Ever \cup {0, Nobody}
  BY Here DEF CheckContact, AtWork
<1>2. UNCHANGED <<store, clock, made, deletes>> /\ ~OnIt(d, s)
  BY <1>1 DEF CheckContact, counts, OnIt, DeletingPcs
<1>3. PICK pc \in {"chats", "merge"} : /\ Becomes(d, s, [jobs[d][s] EXCEPT !.pc = pc])
                                       /\ pc = "merge" => ~Refuses(d, jobs[d][s].seen)
  BY DEF CheckContact, Moves
<1>4. [jobs[d][s] EXCEPT !.pc = pc] \in JobT
  BY <1>1 DEF JobT, Pcs
<1>5. SlotOnly(d, s) /\ jobs'[d][s] = [jobs[d][s] EXCEPT !.pc = pc]
  BY <1>1, <1>3, <1>4, SlotChanges
<1>6. /\ jobs'[d][s].pc = pc /\ jobs'[d][s].seen = jobs[d][s].seen
  BY <1>1, <1>5 DEF JobT
<1>7. StoreTypes' /\ StoreRest(d) /\ Store(d)'
  BY <1>1, <1>2, <1>5, SameStore DEF StoreTypes, SlotOnly, store
<1>8. AtWork(d, s)' /\ DoneSoFar(d, s)'
  BY <1>1, <1>2, <1>6 DEF AtWork, DoneSoFar, OnIt, DeletingPcs, Ever
<1>9. Plain(d) /\ pc = "merge" => d \in disturbed'
  BY <1>1, <1>2, <1>3, <1>5, <1>6, CheckHolds
<1>10. QED
  BY <1>1, <1>2, <1>5, <1>6, <1>7, <1>8, <1>9, SlotStep DEF store

\* The person record is merged only where the delete is not plain.
LEMMA MergePersonKeeps ==
    ASSUME GoneInv, NEW d \in Linked, NEW s \in Slots[d], MergePerson(d, s)
    PROVE  GoneInv'
<1>1. /\ StoreTypes /\ Base /\ Store(d) /\ AtWork(d, s) /\ Gone(d) /\ jobs[d][s] \in JobT
      /\ jobs[d][s].pc = "merge" /\ Becomes(d, s, [jobs[d][s] EXCEPT !.pc = "chats"])
      /\ UNCHANGED <<pairs, live, chat, tomb, clock, made, deletes>>
      /\ person' = [person EXCEPT ![d] = TRUE]
  BY Here DEF MergePerson, Moves, counts
<1>2. [jobs[d][s] EXCEPT !.pc = "chats"] \in JobT
  BY <1>1 DEF JobT, Pcs
<1>3. SlotOnly(d, s) /\ jobs'[d][s] = [jobs[d][s] EXCEPT !.pc = "chats"]
  BY <1>1, <1>2, SlotChanges
<1>4. jobs'[d][s].pc = "chats" /\ jobs'[d][s].seen = jobs[d][s].seen
  BY <1>1, <1>3 DEF JobT
<1>5. StoreTypes' /\ StoreRest(d) /\ Store(d)'
  BY <1>1, <1>3 DEF StoreTypes, SlotOnly, StoreRest, Store, Now, Ever
<1>6. AtWork(d, s)'
  BY <1>1, <1>4 DEF AtWork, DeletingPcs, Ever
<1>7. ~Plain(d)
  BY <1>1 DEF Gone, NoneBack
<1>8. QED
  BY <1>1, <1>3, <1>5, <1>6, <1>7, SlotStep

\* Reading the chats of an answer stores nothing.
LEMMA ReadChatsKeeps ==
    ASSUME GoneInv, NEW d \in Linked, NEW s \in Slots[d], ReadChats(d, s)
    PROVE  GoneInv'
<1>1. /\ StoreTypes /\ Base /\ Store(d) /\ AtWork(d, s) /\ Gone(d) /\ jobs[d][s] \in JobT
      /\ jobs[d][s].pc = "chats" /\ UNCHANGED <<store, clock, made, deletes>>
  BY Here DEF ReadChats, counts
<1>2. ~OnIt(d, s)
  BY <1>1 DEF OnIt, DeletingPcs
<1>3. PICK job \in {Idle, [Idle EXCEPT !.pc = "chatcheck"]} : Becomes(d, s, job)
  BY DEF ReadChats
<1>4. job \in JobT /\ job.pc \in {"idle", "chatcheck"} /\ job.seen = Nobody
  BY Values DEF JobT, Pcs
<1>5. SlotOnly(d, s) /\ jobs'[d][s] = job
  BY <1>1, <1>3, <1>4, SlotChanges
<1>6. StoreTypes' /\ StoreRest(d) /\ Store(d)'
  BY <1>1, <1>5, SameStore DEF StoreTypes, SlotOnly, store
<1>7. AtWork(d, s)' /\ DoneSoFar(d, s)'
  BY <1>4, <1>5 DEF AtWork, DoneSoFar, OnIt, DeletingPcs
<1>8. QED
  BY <1>1, <1>2, <1>4, <1>5, <1>6, <1>7, SlotStep DEF store

\* The check of a chats answer.
LEMMA CheckChatKeeps ==
    ASSUME GoneInv, NEW d \in Linked, NEW s \in Slots[d], CheckChat(d, s)
    PROVE  GoneInv'
<1>1. /\ StoreTypes /\ Base /\ Store(d) /\ AtWork(d, s) /\ Gone(d) /\ jobs[d][s] \in JobT
      /\ jobs[d][s].pc = "chatcheck" /\ UNCHANGED <<store, clock, made, deletes>>
  BY Here DEF CheckChat, counts
<1>2. ~OnIt(d, s)
  BY <1>1 DEF OnIt, DeletingPcs
<1>3. PICK job \in {Idle, [jobs[d][s] EXCEPT !.pc = "adopt"]} :
          Becomes(d, s, job) /\ (job # Idle => ~PersonDeletedHere(d))
  BY DEF CheckChat, Moves
<1>4. /\ job \in JobT /\ job.pc \in {"idle", "adopt"} /\ job.seen \in {Nobody, jobs[d][s].seen}
      /\ job.pc = "adopt" => job # Idle
  BY <1>1, Values DEF JobT, Pcs
<1>5. SlotOnly(d, s) /\ jobs'[d][s] = job
  BY <1>1, <1>3, <1>4, SlotChanges
<1>6. StoreTypes' /\ StoreRest(d) /\ Store(d)'
  BY <1>1, <1>5, SameStore DEF StoreTypes, SlotOnly, store
<1>7. AtWork(d, s)' /\ DoneSoFar(d, s)'
  BY <1>1, <1>4, <1>5 DEF AtWork, DoneSoFar, OnIt, DeletingPcs, Ever
<1>8. Plain(d) /\ job.pc = "adopt" => d \in disturbed'
  BY <1>1, <1>2, <1>3, <1>4, <1>5, CheckHolds
<1>9. QED
  BY <1>1, <1>2, <1>4, <1>5, <1>6, <1>7, <1>8, SlotStep DEF store

\* A chat is adopted only where the delete is not plain.
LEMMA AdoptChatKeeps ==
    ASSUME GoneInv, NEW d \in Linked, NEW s \in Slots[d], AdoptChat(d, s)
    PROVE  GoneInv'
<1>1. /\ StoreTypes /\ Base /\ Store(d) /\ AtWork(d, s) /\ Gone(d) /\ jobs[d][s] \in JobT
      /\ jobs[d][s].pc = "adopt" /\ Becomes(d, s, Idle) /\ chat[d] \in ChatT /\ Now(d) \in Nat
      /\ UNCHANGED <<pairs, live, person, tomb, clock, made, deletes>>
      /\ chat' = [chat EXCEPT ![d] = IF @.held THEN @
                                     ELSE [held |-> TRUE, routes |-> {}, created |-> Now(d)]]
  BY Here DEF AdoptChat, counts
<1>2. SlotOnly(d, s) /\ jobs'[d][s] = Idle
  BY <1>1, Values, SlotChanges
<1>3. chat'[d] \in ChatT /\ (chat'[d].created = chat[d].created \/ chat'[d].created = Now(d))
  BY <1>1 DEF ChatT, StoreTypes
<1>4. StoreTypes' /\ StoreRest(d)
  BY <1>1, <1>2, <1>3 DEF StoreTypes, SlotOnly, StoreRest
<1>5. Store(d)'
  BY <1>1, <1>3 DEF Store, Now, Ever
<1>6. AtWork(d, s)'
  BY <1>2, Values DEF AtWork, DeletingPcs
<1>7. ~Plain(d)
  BY <1>1 DEF Gone, NoneBack
<1>8. QED
  BY <1>1, <1>2, <1>4, <1>5, <1>6, <1>7, SlotStep

-----------------------------------------------------------------------------
(* Steps of a delete *)

\* A handler on the delete held covers what that delete covers.
LEMMA SameBound ==
    ASSUME GoneInv, NEW d \in Linked, NEW s \in Slots[d], OnIt(d, s)
    PROVE  /\ jobs[d][s].held.applied = tomb[d].applied /\ tomb[d].applied > 0
           /\ \A p : Covers(jobs[d][s].held, p) <=> Covers(tomb[d], p)
<1>1. /\ jobs[d][s].held.at = tomb[d].at /\ jobs[d][s].held.applied = tomb[d].applied
      /\ tomb[d].at > 0 /\ tomb[d].applied > 0
  BY Here DEF AtWork, OnIt, Store
<1>2. QED
  BY <1>1 DEF Covers, Bound

\* A plain delete dooms every pairing stored.
LEMMA ReadPairingsKeeps ==
    ASSUME GoneInv, NEW d \in Linked, NEW s \in Slots[d], ReadPairings(d, s)
    PROVE  GoneInv'
<1> DEFINE doomed == {p \in pairs[d] : Covers(jobs[d][s].held, p)}
           kept == pairs[d] \ doomed
           job == [jobs[d][s] EXCEPT !.pc = "chat", !.doomed = doomed, !.kept = kept]
<1>1. /\ StoreTypes /\ Base /\ Store(d) /\ AtWork(d, s) /\ Gone(d) /\ jobs[d][s] \in JobT
      /\ jobs[d][s].pc = "read" /\ UNCHANGED <<store, clock, made, deletes>>
      /\ Becomes(d, s, job)
  BY Here DEF ReadPairings, counts
<1>2. pairs[d] \subseteq Nat
  BY <1>1, Facts
<1>3. Plain(d) /\ OnIt(d, s) => kept = {} /\ live[d] \subseteq doomed
  BY <1>1, AllCovered, SameBound DEF Store
<1>4. doomed \subseteq pairs[d] /\ kept \subseteq pairs[d]
  OBVIOUS
<1> HIDE DEF doomed, kept
<1>5. job \in JobT
  BY <1>1, <1>2, <1>4 DEF JobT, Pcs, DeletingPcs
<1>6. /\ job.pc = "chat" /\ job.doomed = doomed /\ job.kept = kept /\ job.held = jobs[d][s].held
      /\ job.seen = jobs[d][s].seen
  BY <1>1 DEF JobT
<1> HIDE DEF job
<1>7. SlotOnly(d, s) /\ jobs'[d][s] = job
  BY <1>1, <1>5, SlotChanges
<1>8. StoreTypes' /\ StoreRest(d) /\ Store(d)'
  BY <1>1, <1>7, SameStore DEF StoreTypes, SlotOnly, store
<1>9. AtWork(d, s)'
  BY <1>1, <1>4, <1>6, <1>7 DEF AtWork, DeletingPcs, Ever, Store, store
<1>10. Plain(d) => DoneSoFar(d, s)' /\ (OnIt(d, s) => OnIt(d, s)')
  BY <1>1, <1>3, <1>6, <1>7 DEF DoneSoFar, OnIt, DeletingPcs, store
<1>11. QED
  BY <1>1, <1>6, <1>7, <1>8, <1>9, <1>10, SlotStep DEF store

\* A plain delete keeps no chat.
LEMMA ChatGoes ==
    ASSUME GoneInv, NEW d \in Linked, NEW s \in Slots[d], Plain(d), OnIt(d, s),
           jobs[d][s].pc = "chat", chat[d].held
    PROVE  ~ChatGoesOn(chat[d], jobs[d][s])
<1>1. jobs[d][s].kept = {} /\ chat[d].created <= tomb[d].applied
  BY DEF GoneInv, Gone, DoneSoFar
<1>2. chat[d].created \in Nat /\ tomb[d].applied \in Nat
  BY Here DEF ChatT, TombT
<1>3. QED
  BY <1>1, <1>2, SameBound DEF ChatGoesOn

\* The chat's transaction: a plain delete leaves no chat.
LEMMA DropChatKeeps ==
    ASSUME GoneInv, NEW d \in Linked, NEW s \in Slots[d], DropChat(d, s)
    PROVE  GoneInv'
<1> DEFINE goesOn == chat[d].held /\ ChatGoesOn(chat[d], jobs[d][s])
           job == [jobs[d][s] EXCEPT !.pc = "pair", !.keptChat = goesOn]
           c == IF chat[d].held THEN ChatAfter(chat[d], jobs[d][s]) ELSE chat[d]
<1>1. /\ StoreTypes /\ Base /\ Store(d) /\ AtWork(d, s) /\ Gone(d) /\ jobs[d][s] \in JobT
      /\ chat[d] \in ChatT /\ tomb[d] \in TombT /\ Now(d) \in Nat
      /\ jobs[d][s].pc = "chat" /\ UNCHANGED <<pairs, live, person, tomb, clock, made, deletes>>
      /\ Becomes(d, s, job) /\ chat' = [chat EXCEPT ![d] = c]
  BY Here DEF DropChat, counts
<1>2. goesOn \in BOOLEAN
  BY <1>1 DEF ChatGoesOn, ChatT
<1>3. Plain(d) /\ OnIt(d, s) => ~goesOn /\ c.held = FALSE
  BY <1>1, ChatGoes, Values DEF ChatAfter, ChatT
<1>4. /\ c \in ChatT /\ (c.held => chat[d].held /\ c.created = chat[d].created)
      /\ c.created <= Now(d)
  <2>1. [chat[d] EXCEPT !.routes = @ \ jobs[d][s].doomed] \in ChatT
    BY <1>1 DEF ChatT
  <2>2. c \in {chat[d], NoChat, [chat[d] EXCEPT !.routes = @ \ jobs[d][s].doomed]}
    BY DEF ChatAfter
  <2>3. chat[d].created \in Nat /\ chat[d].created <= Now(d)
    BY <1>1 DEF ChatT, Store
  <2>4. c = chat[d] \/ c = NoChat \/ (chat[d].held /\ c = [chat[d] EXCEPT !.routes = @ \ jobs[d][s].doomed])
    BY DEF ChatAfter
  <2>5. CASE c = NoChat
    BY <1>1, <2>5, Values
  <2>6. CASE chat[d].held /\ c = [chat[d] EXCEPT !.routes = @ \ jobs[d][s].doomed]
    BY <1>1, <2>1, <2>3, <2>6 DEF ChatT
  <2>7. CASE c = chat[d]
    BY <1>1, <2>3, <2>7
  <2>8. QED
    BY <2>4, <2>5, <2>6, <2>7
<1> HIDE DEF goesOn, c
<1>5. job \in JobT
  BY <1>1, <1>2 DEF JobT, Pcs, DeletingPcs
<1>6. /\ job.pc = "pair" /\ job.keptChat = goesOn /\ job.doomed = jobs[d][s].doomed
      /\ job.kept = jobs[d][s].kept /\ job.held = jobs[d][s].held /\ job.seen = jobs[d][s].seen
      /\ job.ok = jobs[d][s].ok
  BY <1>1 DEF JobT
<1> HIDE DEF job
<1>7. SlotOnly(d, s) /\ jobs'[d][s] = job
  BY <1>1, <1>5, SlotChanges
<1>8. chat'[d] = c /\ StoreTypes' /\ StoreRest(d)
  BY <1>1, <1>4, <1>7 DEF StoreTypes, SlotOnly, StoreRest
<1>9. Store(d)'
  BY <1>1, <1>4, <1>8 DEF Store, Now, Ever
<1>10. AtWork(d, s)'
  BY <1>1, <1>6, <1>7 DEF AtWork, DeletingPcs, Ever
<1>11. Plain(d) => DoneSoFar(d, s)' /\ (OnIt(d, s) => OnIt(d, s)')
  BY <1>1, <1>3, <1>6, <1>7, <1>8 DEF Gone, DoneSoFar, OnIt, DeletingPcs
<1>12. QED
  BY <1>1, <1>4, <1>6, <1>7, <1>8, <1>9, <1>10, <1>11, SlotStep

\* The chat's transaction fails: its device is noted.
LEMMA DropChatFailsKeeps ==
    ASSUME GoneInv, NEW d \in Linked, NEW s \in Slots[d], DropChatFails(d, s)
    PROVE  GoneInv'
<1> DEFINE left == IF ChatGoesOn(chat[d], jobs[d][s]) THEN jobs[d][s].doomed \ chat[d].routes
                   ELSE jobs[d][s].doomed
           job == [jobs[d][s] EXCEPT !.pc = "pair", !.doomed = left, !.ok = FALSE]
<1>1. /\ StoreTypes /\ Base /\ Store(d) /\ AtWork(d, s) /\ jobs[d][s] \in JobT
      /\ jobs[d][s].pc = "chat" /\ UNCHANGED <<store, clock, made, deletes>>
      /\ jobs' = [jobs EXCEPT ![d] = [jobs[d] EXCEPT ![s] = job]] /\ disturbed' = disturbed \cup {d}
  BY Here DEF DropChatFails
<1>2. left \subseteq jobs[d][s].doomed
  OBVIOUS
<1> HIDE DEF left
<1>3. job \in JobT
  BY <1>1, <1>2 DEF JobT, Pcs, DeletingPcs
<1>4. /\ job.pc = "pair" /\ job.doomed = left /\ job.held = jobs[d][s].held
      /\ job.seen = jobs[d][s].seen
  BY <1>1 DEF JobT
<1> HIDE DEF job
<1>5. SlotOnly(d, s) /\ jobs'[d][s] = job
  BY <1>1, <1>3, SlotFails
<1>6. StoreTypes' /\ StoreRest(d) /\ Store(d)'
  BY <1>1, <1>5, SameStore DEF StoreTypes, SlotOnly, store
<1>7. AtWork(d, s)'
  BY <1>1, <1>2, <1>4, <1>5 DEF AtWork, DeletingPcs, Ever, store
<1>8. ASSUME NEW t \in Slots[d] PROVE AtWork(d, t)'
  <2>1. CASE t = s
    BY <1>7, <2>1
  <2>2. CASE t # s
    BY <1>1, <1>5, <1>6, <2>2, AtWorkStays DEF SlotOnly, GoneInv, Base, store
  <2>3. QED
    BY <2>1, <2>2
<1>9. Gone(d)' /\ Rest(d) /\ clock <= clock' /\ made \subseteq made'
  BY <1>1, <1>5, <1>6 DEF Gone, Plain, Rest, SlotOnly, StoreRest, StoreTypes
<1>10. disturbed \subseteq disturbed' /\ \A e \in Linked : Overlapping(jobs'[e]) => e \in disturbed'
  BY <1>5 DEF SlotOnly
<1>11. QED
  BY <1>6, <1>8, <1>9, <1>10, OneDevice

\* The backend's delete of a pairing, or its failure, which the handler remembers.
LEMMA DropPairingKeeps ==
    ASSUME GoneInv, NEW d \in Linked, NEW s \in Slots[d], DropPairing(d, s)
    PROVE  GoneInv'
<1>1. /\ StoreTypes /\ Base /\ Store(d) /\ AtWork(d, s) /\ Gone(d) /\ jobs[d][s] \in JobT
      /\ jobs[d][s].pc = "pair" /\ UNCHANGED <<pairs, chat, person, tomb, clock, made, deletes>>
      /\ jobs[d][s].doomed \subseteq Ever
  BY Here DEF DropPairing, AtWork, DeletingPcs
<1>2. ASSUME NEW job \in JobT, Becomes(d, s, job), live' \in [Linked -> SUBSET Nat],
             \A e \in Linked : e # d => live'[e] = live[e],
             live'[d] \subseteq live[d], job.pc \in {"pair", "forget", "person"},
             job.pc = "forget" => job.cur \in Ever \ live'[d],
             job.doomed \subseteq jobs[d][s].doomed, job.kept = jobs[d][s].kept,
             job.held = jobs[d][s].held, job.seen = jobs[d][s].seen,
             job.keptChat = jobs[d][s].keptChat,
             job.ok => /\ jobs[d][s].ok
                       /\ live[d] \subseteq jobs[d][s].doomed =>
                             IF job.pc = "person" THEN live'[d] = {} ELSE live'[d] \subseteq job.doomed
      PROVE  GoneInv'
  <2>1. SlotOnly(d, s) /\ jobs'[d][s] = job
    BY <1>1, <1>2, SlotChanges
  <2>2. StoreTypes' /\ StoreRest(d)
    BY <1>1, <1>2, <2>1 DEF StoreTypes, SlotOnly, StoreRest
  <2>3. Store(d)'
    BY <1>1, <1>2 DEF Store, Now, Ever
  <2>4. AtWork(d, s)'
    BY <1>1, <1>2, <2>1 DEF AtWork, DeletingPcs, Ever
  <2>5. Plain(d) => DoneSoFar(d, s)' /\ (OnIt(d, s) => OnIt(d, s)')
    BY <1>1, <1>2, <2>1 DEF Gone, DoneSoFar, OnIt, DeletingPcs
  <2>6. QED
    BY <1>1, <1>2, <2>1, <2>2, <2>3, <2>4, <2>5, SlotStep
<1>3. CASE jobs[d][s].doomed = {} /\ Moves(d, s, "person") /\ live' = live
  <2> DEFINE job == [jobs[d][s] EXCEPT !.pc = "person"]
  <2>1. job \in JobT /\ Becomes(d, s, job)
    BY <1>1, <1>3 DEF JobT, Pcs, DeletingPcs, Moves
  <2>2. /\ job.pc = "person" /\ job.doomed = jobs[d][s].doomed /\ job.kept = jobs[d][s].kept
        /\ job.held = jobs[d][s].held /\ job.seen = jobs[d][s].seen
        /\ job.keptChat = jobs[d][s].keptChat /\ job.ok = jobs[d][s].ok
    BY <1>1 DEF JobT
  <2> HIDE DEF job
  <2>3. live' \in [Linked -> SUBSET Nat] /\ live'[d] = live[d]
    BY <1>1, <1>3 DEF StoreTypes
  <2>4. QED
    BY <1>2, <1>3, <2>1, <2>2, <2>3
<1>4. ASSUME NEW p \in jobs[d][s].doomed, live' = [live EXCEPT ![d] = @ \ {p}],
             Becomes(d, s, [jobs[d][s] EXCEPT !.pc = "forget", !.cur = p, !.doomed = @ \ {p}])
      PROVE  GoneInv'
  <2> DEFINE job == [jobs[d][s] EXCEPT !.pc = "forget", !.cur = p, !.doomed = @ \ {p}]
  <2>1. job \in JobT /\ Becomes(d, s, job)
    BY <1>1, <1>4 DEF JobT, Pcs, DeletingPcs
  <2>2. /\ job.pc = "forget" /\ job.doomed = jobs[d][s].doomed \ {p} /\ job.kept = jobs[d][s].kept
        /\ job.held = jobs[d][s].held /\ job.seen = jobs[d][s].seen /\ job.cur = p
        /\ job.keptChat = jobs[d][s].keptChat /\ job.ok = jobs[d][s].ok
    BY <1>1 DEF JobT
  <2> HIDE DEF job
  <2>3. live' \in [Linked -> SUBSET Nat] /\ live'[d] = live[d] \ {p}
    BY <1>1, <1>4 DEF StoreTypes
  <2>4. \A e \in Linked : e # d => live'[e] = live[e]
    BY <1>1, <1>4 DEF StoreTypes
  <2>5. job.cur \in Ever \ live'[d]
    BY <1>1, <1>4, <2>2, <2>3
  <2>6. QED
    BY <1>2, <2>1, <2>2, <2>3, <2>4, <2>5
<1>5. ASSUME NEW p \in jobs[d][s].doomed, live' = live,
             Becomes(d, s, [jobs[d][s] EXCEPT !.doomed = @ \ {p}, !.ok = FALSE])
      PROVE  GoneInv'
  <2> DEFINE job == [jobs[d][s] EXCEPT !.doomed = @ \ {p}, !.ok = FALSE]
  <2>1. job \in JobT /\ Becomes(d, s, job)
    BY <1>1, <1>5 DEF JobT
  <2>2. /\ job.pc = "pair" /\ job.doomed = jobs[d][s].doomed \ {p} /\ job.kept = jobs[d][s].kept
        /\ job.held = jobs[d][s].held /\ job.seen = jobs[d][s].seen
        /\ job.keptChat = jobs[d][s].keptChat /\ ~job.ok
    BY <1>1 DEF JobT
  <2> HIDE DEF job
  <2>3. live' \in [Linked -> SUBSET Nat] /\ live'[d] = live[d]
    BY <1>1, <1>5 DEF StoreTypes
  <2>4. QED
    BY <1>2, <1>5, <2>1, <2>2, <2>3
<1>6. QED
  BY <1>3, <1>4, <1>5 DEF DropPairing

\* The pairing's record goes after the backend's.
LEMMA ForgetPeerKeeps ==
    ASSUME GoneInv, NEW d \in Linked, NEW s \in Slots[d], ForgetPeer(d, s)
    PROVE  GoneInv'
<1> DEFINE job == [jobs[d][s] EXCEPT !.pc = "pair", !.cur = 0]
<1>1. /\ StoreTypes /\ Base /\ Store(d) /\ AtWork(d, s) /\ Gone(d) /\ jobs[d][s] \in JobT
      /\ jobs[d][s].pc = "forget" /\ UNCHANGED <<live, chat, person, tomb, clock, made, deletes>>
      /\ pairs' = [pairs EXCEPT ![d] = @ \ {jobs[d][s].cur}] /\ Becomes(d, s, job)
  BY Here DEF ForgetPeer, counts
<1>2. job \in JobT
  BY <1>1 DEF JobT, Pcs, DeletingPcs
<1>3. /\ job.pc = "pair" /\ job.doomed = jobs[d][s].doomed /\ job.kept = jobs[d][s].kept
      /\ job.held = jobs[d][s].held /\ job.seen = jobs[d][s].seen
      /\ job.keptChat = jobs[d][s].keptChat /\ job.ok = jobs[d][s].ok
  BY <1>1 DEF JobT
<1> HIDE DEF job
<1>4. SlotOnly(d, s) /\ jobs'[d][s] = job
  BY <1>1, <1>2, SlotChanges
<1>5. pairs'[d] = pairs[d] \ {jobs[d][s].cur} /\ StoreTypes' /\ StoreRest(d)
  BY <1>1, <1>4 DEF StoreTypes, SlotOnly, StoreRest
<1>6. Store(d)'
  BY <1>1, <1>5 DEF Store, AtWork, Now, Ever
<1>7. AtWork(d, s)'
  BY <1>1, <1>3, <1>4 DEF AtWork, DeletingPcs, Ever
<1>8. Plain(d) => DoneSoFar(d, s)' /\ (OnIt(d, s) => OnIt(d, s)')
  BY <1>1, <1>3, <1>4 DEF Gone, DoneSoFar, OnIt, DeletingPcs
<1>9. QED
  BY <1>1, <1>3, <1>4, <1>5, <1>6, <1>7, <1>8, SlotStep

\* The person record goes unless a pairing or the chat stays.
LEMMA ForgetPersonKeeps ==
    ASSUME GoneInv, NEW d \in Linked, NEW s \in Slots[d], ForgetPerson(d, s)
    PROVE  GoneInv'
<1> DEFINE job == [jobs[d][s] EXCEPT !.pc = "finish"]
<1>1. /\ StoreTypes /\ Base /\ Store(d) /\ AtWork(d, s) /\ Gone(d) /\ jobs[d][s] \in JobT
      /\ jobs[d][s].pc = "person" /\ UNCHANGED <<pairs, live, chat, tomb, clock, made, deletes>>
      /\ person' = [person EXCEPT ![d] = @ /\ (jobs[d][s].kept # {} \/ jobs[d][s].keptChat)]
      /\ Becomes(d, s, job)
  BY Here DEF ForgetPerson, counts, Moves
<1>2. job \in JobT
  BY <1>1 DEF JobT, Pcs, DeletingPcs
<1>3. /\ job.pc = "finish" /\ job.doomed = jobs[d][s].doomed /\ job.kept = jobs[d][s].kept
      /\ job.held = jobs[d][s].held /\ job.seen = jobs[d][s].seen
      /\ job.keptChat = jobs[d][s].keptChat /\ job.ok = jobs[d][s].ok
  BY <1>1 DEF JobT
<1> HIDE DEF job
<1>4. SlotOnly(d, s) /\ jobs'[d][s] = job
  BY <1>1, <1>2, SlotChanges
<1>5. /\ person'[d] = (person[d] /\ (jobs[d][s].kept # {} \/ jobs[d][s].keptChat))
      /\ StoreTypes' /\ StoreRest(d)
  BY <1>1, <1>4 DEF StoreTypes, SlotOnly, StoreRest
<1>6. Store(d)'
  BY <1>1 DEF Store, Now, Ever
<1>7. AtWork(d, s)'
  BY <1>1, <1>3, <1>4 DEF AtWork, DeletingPcs, Ever
<1>8. Plain(d) => DoneSoFar(d, s)' /\ (OnIt(d, s) => OnIt(d, s)')
  BY <1>1, <1>3, <1>4, <1>5 DEF Gone, DoneSoFar, OnIt, DeletingPcs
<1>9. QED
  BY <1>1, <1>3, <1>4, <1>5, <1>6, <1>7, <1>8, SlotStep

\* What a handler does after its delete.
LEMMA AfterDeletes ==
    ASSUME NEW job \in JobT
    PROVE  /\ AfterDelete(job) \in JobT /\ AfterDelete(job).pc \in {"idle", "contact"}
           /\ AfterDelete(job).seen \in {Nobody, job.seen}
<1> DEFINE next == [Idle EXCEPT !.pc = "contact", !.src = "sweep", !.seen = job.seen]
<1>1. next \in JobT
  <2>1. job.seen \in Int
    BY DEF JobT
  <2>2. QED
    BY <2>1, Values DEF JobT, Pcs
<1>2. next.pc = "contact" /\ next.seen = job.seen
  BY Values DEF JobT
<1>3. AfterDelete(job) = next \/ AfterDelete(job) = Idle
  BY DEF AfterDelete
<1> HIDE DEF next
<1>4. QED
  BY <1>1, <1>2, <1>3, Values

\* The tombstone of a finished delete.
LEMMA DoneTomb ==
    ASSUME NEW t \in TombT, NEW at, NEW u, u = MarkDeleteDone(t, at)
    PROVE  /\ u \in TombT /\ u.at = t.at /\ u.applied = t.applied
           /\ u.done # t.done => t.at = at
BY DEF MarkDeleteDone, TombT

\* The push of a finished delete.
PushOf(job) == [Idle EXCEPT !.pc = "mark", !.src = "push", !.at = job.held.at]

\* The push carries the time of the delete that ended.
LEMMA Pushed ==
    ASSUME GoneInv, NEW d \in Linked, NEW s \in Slots[d], jobs[d][s].pc = "finish"
    PROVE  LET push == PushOf(jobs[d][s])
           IN  /\ push \in JobT /\ push.pc = "mark" /\ push.at > 0 /\ push.seen = Nobody
               /\ push.at = jobs[d][s].held.at
<1>1. jobs[d][s].held.at \in Nat /\ jobs[d][s].held.at > 0
  BY Here DEF JobT, TombT, AtWork, DeletingPcs
<1>2. QED
  BY <1>1, Values DEF JobT, Pcs, PushOf

\* What a finished delete does to the handlers of both devices.
LEMMA FinishJobs ==
    ASSUME GoneInv, NEW d \in Linked, NEW s \in Slots[d], Finish(d, s)
    PROVE  /\ JobsT(jobs') /\ jobs'[d][s] = AfterDelete(jobs[d][s])
           /\ \A r \in Slots[d] : r # s => jobs'[d][r] = jobs[d][r]
           /\ disturbed \subseteq disturbed' /\ disturbed' \subseteq Linked
           /\ \A e \in Linked : Overlapping(jobs'[e]) => e \in disturbed'
           /\ \A e \in Linked : e \notin {d, Other(d)} => jobs'[e] = jobs[e]
           /\ \/ jobs'[Other(d)] = jobs[Other(d)]
              \/ \E r \in Slots[Other(d)] :
                    /\ jobs[Other(d)][r].pc = "idle" /\ jobs'[Other(d)][r] = PushOf(jobs[d][s])
                    /\ \A q \in Slots[Other(d)] : q # r => jobs'[Other(d)][q] = jobs[Other(d)][q]
<1> DEFINE job == jobs[d][s]
           after == AfterDelete(job)
           ended == [jobs EXCEPT ![d][s] = after]
           push == PushOf(job)
           o == Other(d)
<1>1. StoreTypes /\ jobs[d][s] \in JobT /\ jobs[d][s].pc = "finish"
  BY Here DEF Finish
<1>2. JobsBecome(ended) \/ Begin(ended, o, push)
  BY DEF Finish, PushOf
<1>3. after \in JobT /\ after.pc \in {"idle", "contact"} /\ after.seen \in {Nobody, job.seen}
  BY <1>1, AfterDeletes
<1>5. push \in JobT
  BY <1>1, Pushed
<1> HIDE DEF after, push
<1>6. /\ JobsT(ended) /\ ended[d][s] = after /\ (\A e \in Linked : e # d => ended[e] = jobs[e])
      /\ \A r \in Slots[d] : r # s => ended[d][r] = jobs[d][r]
  <2>1. /\ jobs \in [Linked -> UNION {[Slots[e] -> JobT] : e \in Linked}]
        /\ jobs[d] \in [Slots[d] -> JobT] /\ JobsT(jobs)
    BY <1>1 DEF JobsT, StoreTypes
  <2>2. [jobs[d] EXCEPT ![s] = after] \in [Slots[d] -> JobT]
    BY <1>3, <2>1
  <2>3. [jobs[d] EXCEPT ![s] = after] \in UNION {[Slots[e] -> JobT] : e \in Linked}
    BY <2>2
  <2>4. ended[d] = [jobs[d] EXCEPT ![s] = after] /\ \A e \in Linked : e # d => ended[e] = jobs[e]
    BY <2>1
  <2>5. ended \in [Linked -> UNION {[Slots[e] -> JobT] : e \in Linked}]
    BY <2>1, <2>3
  <2>6. JobsT(ended)
    BY <2>1, <2>2, <2>4, <2>5 DEF JobsT
  <2>7. QED
    BY <2>1, <2>4, <2>6
<1> HIDE DEF ended
<1>7. o \in Linked /\ o # d
  BY Others
<1>8. disturbed \subseteq Linked
  BY <1>1 DEF StoreTypes
<1>9. /\ JobsT(jobs') /\ jobs'[d] = ended[d]
      /\ disturbed \subseteq disturbed' /\ disturbed' \subseteq Linked
      /\ \A e \in Linked : Overlapping(jobs'[e]) => e \in disturbed'
      /\ \A e \in Linked : e \notin {d, o} => jobs'[e] = jobs[e]
      /\ \/ jobs'[o] = jobs[o]
         \/ \E r \in Slots[o] : /\ jobs[o][r].pc = "idle" /\ jobs'[o][r] = push
                                /\ \A q \in Slots[o] : q # r => jobs'[o][q] = jobs[o][q]
  <2>1. CASE JobsBecome(ended)
    BY <1>6, <1>7, <1>8, <2>1 DEF JobsBecome
  <2>2. CASE Begin(ended, o, push)
    <3>1. PICK r \in Slots[o] :
             /\ jobs[o][r].pc = "idle"
             /\ JobsT(jobs') /\ jobs'[o][r] = push
             /\ \A e \in Linked : e # o => jobs'[e] = ended[e]
             /\ \A q \in Slots[o] : q # r => jobs'[o][q] = ended[o][q]
             /\ disturbed \subseteq disturbed' /\ disturbed' \subseteq Linked
             /\ \A e \in Linked : Overlapping(jobs'[e]) => e \in disturbed'
      BY <1>5, <1>6, <1>7, <1>8, <2>2, JobBegins
    <3>2. QED
      BY <1>6, <1>7, <3>1
  <2>3. QED
    BY <1>2, <2>1, <2>2
<1>10. jobs'[d][s] = after /\ \A r \in Slots[d] : r # s => jobs'[d][r] = jobs[d][r]
  BY <1>6, <1>9
<1>11. QED
  BY <1>9, <1>10 DEF after, push

\* A delete is recorded as done only when the backend holds no pairing of it.
LEMMA FinishKeeps ==
    ASSUME GoneInv, NEW d \in Linked, NEW s \in Slots[d], Finish(d, s)
    PROVE  GoneInv'
<1> DEFINE job == jobs[d][s]
           after == AfterDelete(job)
           push == PushOf(job)
           t == IF job.ok THEN MarkDeleteDone(tomb[d], job.held.at) ELSE tomb[d]
           o == Other(d)
<1>1. /\ StoreTypes /\ Base /\ Store(d) /\ AtWork(d, s) /\ Gone(d) /\ jobs[d][s] \in JobT
      /\ tomb[d] \in TombT
      /\ jobs[d][s].pc = "finish" /\ UNCHANGED <<pairs, live, chat, person, clock, made, deletes>>
      /\ tomb' = [tomb EXCEPT ![d] = t]
  BY Here DEF Finish
<1>3. after \in JobT /\ after.pc \in {"idle", "contact"} /\ after.seen \in {Nobody, job.seen}
  BY <1>1, AfterDeletes
<1>4. /\ t \in TombT /\ t.at = tomb[d].at /\ t.applied = tomb[d].applied
      /\ t.done /\ ~tomb[d].done => job.ok /\ tomb[d].at = job.held.at
  <2>1. CASE job.ok
    BY <1>1, <2>1, DoneTomb
  <2>2. CASE ~job.ok
    BY <1>1, <2>2
  <2>3. QED
    BY <2>1, <2>2
<1>5. push.pc = "mark" /\ push.at > 0 /\ push.seen = Nobody
  BY <1>1, Pushed
<1>7. o \in Linked /\ o # d
  BY Others
<1>9. /\ JobsT(jobs') /\ jobs'[d][s] = after
      /\ \A r \in Slots[d] : r # s => jobs'[d][r] = jobs[d][r]
      /\ disturbed \subseteq disturbed' /\ disturbed' \subseteq Linked
      /\ \A e \in Linked : Overlapping(jobs'[e]) => e \in disturbed'
      /\ \A e \in Linked : e \notin {d, o} => jobs'[e] = jobs[e]
      /\ \/ jobs'[o] = jobs[o]
         \/ \E r \in Slots[o] : /\ jobs[o][r].pc = "idle" /\ jobs'[o][r] = push
                                /\ \A q \in Slots[o] : q # r => jobs'[o][q] = jobs[o][q]
  BY FinishJobs
<1> HIDE DEF after, push, t
<1>10. /\ tomb'[d] = t /\ (\A e \in Linked : e # d => tomb'[e] = tomb[e]) /\ StoreTypes'
  BY <1>1, <1>4, <1>9 DEF StoreTypes
<1>11. Store(d)'
  BY <1>1, <1>4, <1>10 DEF Store, Now, Ever, AtWork, DeletingPcs
<1>12. (\A r \in Slots[d] : AtWork(d, r)') /\ Gone(d)'
  <2>1. jobs'[d][s] = after /\ \A r \in Slots[d] : r # s => jobs'[d][r] = jobs[d][r]
    BY <1>9
  <2>2. AtWork(d, s)' /\ DoneSoFar(d, s)'
    BY <1>1, <1>3, <2>1 DEF AtWork, DoneSoFar, OnIt, DeletingPcs, Ever
  <2>3. Plain(d) => /\ t.done /\ ~tomb[d].done => live[d] = {}
                    /\ OnIt(d, s) => ~person[d] /\ ~chat[d].held
    BY <1>1, <1>4 DEF Gone, DoneSoFar, OnIt, DeletingPcs
  <2>4. QED
    BY <1>1, <1>3, <1>4, <1>9, <1>10, <2>1, <2>2, <2>3, DeviceStep
<1>13. ASSUME NEW e \in Linked, e # d
       PROVE  Store(e)' /\ (\A r \in Slots[e] : AtWork(e, r)') /\ Gone(e)'
  <2>1. Store(e) /\ Gone(e) /\ \A r \in Slots[e] : AtWork(e, r)
    BY DEF GoneInv, Base
  <2>2. Store(e)'
    BY <1>1, <1>10, <1>13, <2>1 DEF Store, Now, Ever
  <2>3. CASE jobs'[e] = jobs[e]
    <3>1. \A r \in Slots[e] : AtWork(e, r)'
      BY <1>1, <1>10, <1>13, <2>1, <2>3 DEF AtWork, Ever
    <3>2. Gone(e)'
      BY <1>1, <1>9, <1>10, <1>13, <2>1, <2>3
         DEF Gone, Plain, NotMetSince, Bound, NoneBack, DoneSoFar, OnIt
    <3>3. QED
      BY <2>2, <3>1, <3>2
  <2>4. ASSUME NEW r \in Slots[e], jobs[e][r].pc = "idle", jobs'[e][r] = push,
               \A q \in Slots[e] : q # r => jobs'[e][q] = jobs[e][q]
        PROVE  (\A q \in Slots[e] : AtWork(e, q)') /\ Gone(e)'
    <3>1. AtWork(e, r)' /\ DoneSoFar(e, r)' /\ ~OnIt(e, r)
      BY <1>5, <2>4 DEF AtWork, DoneSoFar, OnIt, DeletingPcs
    <3>2. QED
      BY <1>1, <1>5, <1>9, <1>10, <1>13, <2>4, <3>1, DeviceStep
  <2>5. e # o => jobs'[e] = jobs[e]
    BY <1>9, <1>13
  <2>6. QED
    BY <1>9, <2>2, <2>3, <2>4, <2>5
<1>14. QED
  BY <1>9, <1>10, <1>11, <1>12, <1>13 DEF GoneInv, Base

-----------------------------------------------------------------------------
(* A delete begins, or begins again *)

\* A newer delete replaces the one held, and a handler takes it up.
LEMMA NewDelete ==
    ASSUME GoneInv, NEW d \in Linked, NEW s \in Slots[d], SlotOnly(d, s), StoreTypes',
           UNCHANGED <<pairs, live, chat, person, clock, made>>,
           \A e \in Linked : e # d => tomb'[e] = tomb[e],
           tomb'[d].at > tomb[d].at, tomb'[d].applied = Now(d), ~tomb'[d].done,
           jobs'[d][s].pc = "read", jobs'[d][s].held = tomb'[d],
           jobs'[d][s].seen \in Ever \cup {0, Nobody}
    PROVE  GoneInv'
<1>1. /\ StoreTypes /\ Store(d) /\ tomb[d] \in TombT /\ tomb'[d] \in TombT /\ chat[d] \in ChatT
      /\ Now(d) \in Nat /\ Now(d) >= 1 /\ \A t \in Slots[d] : AtWork(d, t) /\ jobs[d][t] \in JobT
  BY Facts, FactsNext DEF GoneInv, Base
<1>2. tomb[d].at \in Nat /\ tomb'[d].at \in Nat /\ tomb'[d].at > 0
  BY <1>1 DEF TombT
<1>3. StoreRest(d) /\ Rest(d)
  BY DEF StoreRest, Rest, SlotOnly
<1>4. Store(d)'
  BY <1>1, <1>2 DEF Store, Now, Ever
<1>5. AtWork(d, s)'
  BY <1>2 DEF AtWork, DeletingPcs, Ever
<1>6. ASSUME NEW t \in Slots[d], t # s PROVE AtWork(d, t)' /\ ~OnIt(d, t)'
  <2>1. jobs'[d][t] = jobs[d][t]
    BY <1>6 DEF SlotOnly
  <2>2. AtWork(d, t)'
    BY <1>1, <2>1, AtWorkStays
  <2>3. jobs[d][t].pc \in DeletingPcs => jobs[d][t].held.at <= tomb[d].at
    BY <1>1 DEF AtWork
  <2>4. jobs[d][t].held.at \in Nat
    BY <1>1 DEF JobT, TombT
  <2>5. QED
    BY <1>2, <2>1, <2>2, <2>3, <2>4 DEF OnIt
<1>7. Gone(d)'
  <2> SUFFICES ASSUME Plain(d)' PROVE Gone(d)'
    BY DEF Gone
  <2>1. NoneBack(d)'
    <3> SUFFICES ASSUME NEW t \in Slots[d], jobs'[d][t].pc \in {"merge", "adopt"} PROVE FALSE
      BY DEF NoneBack
    <3>1. d \in disturbed'
      BY Beside DEF SlotOnly, DeletingPcs
    <3>2. QED
      BY <3>1 DEF Plain
  <2>2. ASSUME NEW t \in Slots[d] PROVE DoneSoFar(d, t)'
    BY <1>6 DEF DoneSoFar
  <2>3. OnIt(d, s)'
    BY DEF OnIt, DeletingPcs
  <2>4. chat'[d].created <= tomb'[d].applied
    BY <1>1 DEF Store
  <2>5. QED
    BY <2>1, <2>2, <2>3, <2>4 DEF Gone
<1>8. clock <= clock' /\ made \subseteq made' /\ disturbed \subseteq disturbed'
      /\ \A e \in Linked : Overlapping(jobs'[e]) => e \in disturbed'
  BY <1>1 DEF StoreTypes, SlotOnly
<1>9. QED
  BY <1>3, <1>4, <1>5, <1>6, <1>7, <1>8, OneDevice

\* What marking a delete leaves: the tombstone held, or the newer one with the time
\* here.
LEMMA Marks ==
    ASSUME NEW t \in TombT, NEW at \in Nat, NEW here \in Nat, NEW u, u = MarkDeleted(t, at, here)
    PROVE  /\ u \in TombT
           /\ \/ t.at >= at /\ u = t
              \/ at > t.at /\ u.at = at /\ u.applied = here /\ ~u.done
BY DEF MarkDeleted, TombT

\* A delete that came from the sibling is marked and taken up.
LEMMA ApplyMarkKeeps ==
    ASSUME GoneInv, NEW d \in Linked, NEW s \in Slots[d], ApplyMark(d, s)
    PROVE  GoneInv'
<1> DEFINE at == jobs[d][s].at
           held == MarkDeleted(tomb[d], at, Now(d))
           job == IF AlreadyApplied(tomb[d], at) THEN AfterDelete(jobs[d][s])
                  ELSE [jobs[d][s] EXCEPT !.pc = "read", !.held = held, !.at = 0]
<1>1. /\ StoreTypes /\ Base /\ Store(d) /\ AtWork(d, s) /\ Gone(d) /\ jobs[d][s] \in JobT
      /\ tomb[d] \in TombT /\ Now(d) \in Nat
      /\ jobs[d][s].pc = "mark" /\ UNCHANGED <<pairs, live, chat, person, clock, made, deletes>>
      /\ tomb' = [tomb EXCEPT ![d] = held] /\ Becomes(d, s, job)
  BY Here DEF ApplyMark, counts
<1>2. at \in Nat /\ at > 0
  BY <1>1 DEF JobT, AtWork
<1>3. /\ held \in TombT
      /\ \/ tomb[d].at >= at /\ held = tomb[d]
         \/ at > tomb[d].at /\ held.at = at /\ held.applied = Now(d) /\ ~held.done
  BY <1>1, <1>2, Marks
<1> HIDE DEF held
<1>4. /\ job \in JobT /\ job.pc \in {"idle", "contact", "read"}
      /\ job.seen \in {Nobody, jobs[d][s].seen}
      /\ job.pc = "read" => job.held = held
      /\ at > tomb[d].at => job.pc = "read"
  <2>1. CASE AlreadyApplied(tomb[d], at)
    <3>1. ~(at > tomb[d].at)
      BY <1>1, <1>2, <2>1 DEF AlreadyApplied, TombT
    <3>2. QED
      BY <1>1, <2>1, <3>1, AfterDeletes
  <2>2. CASE ~AlreadyApplied(tomb[d], at)
    BY <1>1, <1>3, <2>2 DEF JobT, Pcs, DeletingPcs
  <2>3. QED
    BY <2>1, <2>2
<1> HIDE DEF job
<1>5. SlotOnly(d, s) /\ jobs'[d][s] = job
  BY <1>1, <1>4, SlotChanges
<1>6. tomb'[d] = held /\ (\A e \in Linked : e # d => tomb'[e] = tomb[e]) /\ StoreTypes'
  BY <1>1, <1>3, <1>5 DEF StoreTypes, SlotOnly
<1>7. job.seen \in Ever \cup {0, Nobody}
  BY <1>1, <1>4 DEF AtWork
<1>8. CASE at > tomb[d].at
  <2>1. held.at > tomb[d].at /\ held.applied = Now(d) /\ ~held.done
    BY <1>1, <1>2, <1>3, <1>8 DEF TombT
  <2>2. QED
    BY <1>1, <1>4, <1>5, <1>6, <1>7, <1>8, <2>1, NewDelete
<1>9. CASE tomb[d].at >= at /\ held = tomb[d]
  <2>1. StoreRest(d) /\ Store(d)'
    BY <1>1, <1>6, <1>9 DEF StoreRest, Store, Now, Ever
  <2>2. AtWork(d, s)'
    <3>1. tomb[d].at \in Nat /\ tomb[d].at > 0
      BY <1>1, <1>2, <1>9 DEF TombT
    <3>2. QED
      BY <1>1, <1>4, <1>5, <1>6, <1>7, <1>9, <3>1 DEF AtWork, DeletingPcs, Ever
  <2>3. DoneSoFar(d, s)' /\ ~OnIt(d, s)
    BY <1>1, <1>4, <1>5 DEF DoneSoFar, OnIt, DeletingPcs
  <2>4. QED
    BY <1>1, <1>4, <1>5, <1>6, <1>9, <2>1, <2>2, <2>3, SlotStep
<1>10. QED
  BY <1>3, <1>8, <1>9

\* A handler begins in a slot that was idle.
LEMMA SlotBegins ==
    ASSUME StoreTypes, NEW d \in Linked, NEW job \in JobT, Begin(jobs, d, job)
    PROVE  \E s \in Slots[d] : jobs[d][s].pc = "idle" /\ SlotOnly(d, s) /\ jobs'[d][s] = job
<1>1. JobsT(jobs) /\ disturbed \subseteq Linked
  BY DEF StoreTypes
<1>2. QED
  BY <1>1, JobBegins DEF SlotOnly

\* The operator deletes the person.
LEMMA DeletePersonKeeps ==
    ASSUME GoneInv, NEW d \in Linked, NEW p, DeletePerson(d, p)
    PROVE  GoneInv'
<1> DEFINE at == IF tomb[d].at >= Now(d) THEN tomb[d].at + 1 ELSE Now(d)
           held == MarkDeleted(tomb[d], at, Now(d))
           job == [Idle EXCEPT !.pc = "read", !.src = "operator", !.held = held]
<1>1. /\ StoreTypes /\ tomb[d] \in TombT /\ Now(d) \in Nat
      /\ UNCHANGED <<pairs, live, chat, person, clock, made>> /\ deletes' = deletes + 1
      /\ tomb' = [tomb EXCEPT ![d] = held] /\ Begin(jobs, d, job)
  BY Facts DEF DeletePerson, GoneInv, Base
<1>2. at \in Nat /\ at > tomb[d].at
  BY <1>1 DEF TombT
<1>3. held \in TombT /\ held.at = at /\ held.applied = Now(d) /\ ~held.done
  <2>1. tomb[d].at \in Nat
    BY <1>1 DEF TombT
  <2> HIDE DEF at
  <2>2. QED
    BY <1>1, <1>2, <2>1, Marks
<1> HIDE DEF held, at
<1>4. job \in JobT /\ job.pc = "read" /\ job.held = held /\ job.seen = Nobody
  BY <1>3, Values DEF JobT, Pcs, DeletingPcs
<1> HIDE DEF job
<1>5. PICK s \in Slots[d] : SlotOnly(d, s) /\ jobs'[d][s] = job
  BY <1>1, <1>4, SlotBegins
<1>6. tomb'[d] = held /\ (\A e \in Linked : e # d => tomb'[e] = tomb[e]) /\ StoreTypes'
  BY <1>1, <1>3, <1>5 DEF StoreTypes, SlotOnly
<1>7. QED
  BY <1>1, <1>2, <1>3, <1>4, <1>5, <1>6, NewDelete

-----------------------------------------------------------------------------
(* Messages, pairings and the environment *)

\* A bounded set of times has a last one.
LEMMA LastExists ==
    ASSUME NEW S \in SUBSET Nat, S # {}, NEW b \in Nat, \A x \in S : x <= b
    PROVE  Max(S) \in S /\ \A x \in S : x <= Max(S)
<1>1. S \in SUBSET (0 .. b)
  OBVIOUS
<1>2. PICK h \in S : \A x \in S : x <= h
  BY <1>1, HasGreatest
<1>3. \A x \in S : h >= x
  BY <1>2
<1>4. QED
  BY <1>2, <1>3 DEF Max

\* An answer describes the person by a pairing that was made.
LEMMA Describes ==
    ASSUME Base, NEW d \in Linked
    PROVE  Described(d) \in Ever \cup {0, Nobody} /\ Described(d) \in Int
<1>1. /\ pairs[d] \subseteq Nat /\ pairs[d] \subseteq Ever /\ Now(d) \in Nat
      /\ \A p \in pairs[d] : p <= Now(d)
  BY Facts DEF Base, Store
<1>2. NewestPairingAt(d) \in pairs[d] \cup {0}
  <2> DEFINE S == pairs[d] \cup {0}
  <2>1. S \in SUBSET Nat /\ S # {} /\ \A x \in S : x <= Now(d)
    BY <1>1
  <2> HIDE DEF S
  <2>2. Max(S) \in S
    BY <1>1, <2>1, LastExists
  <2>3. QED
    BY <2>2 DEF S, NewestPairingAt
<1>3. QED
  BY <1>1, <1>2 DEF Described, Nobody

\* A handler begins that is not at work on a delete.
LEMMA HandlerBegins ==
    ASSUME GoneInv, NEW d \in Linked, NEW job \in JobT, Begin(jobs, d, job),
           UNCHANGED <<store, clock, made, deletes>>,
           job.pc \in {"mark", "contact"}, job.pc = "mark" => job.at > 0,
           job.seen \in Ever \cup {0, Nobody}
    PROVE  GoneInv'
<1>1. StoreTypes /\ Base /\ Store(d)
  BY DEF GoneInv, Base
<1>2. PICK s \in Slots[d] : jobs[d][s].pc = "idle" /\ SlotOnly(d, s) /\ jobs'[d][s] = job
  BY <1>1, SlotBegins
<1>3. StoreTypes' /\ StoreRest(d) /\ Store(d)'
  BY <1>1, <1>2, SameStore DEF StoreTypes, SlotOnly, store
<1>4. AtWork(d, s)' /\ DoneSoFar(d, s)' /\ ~OnIt(d, s)
  BY <1>2 DEF AtWork, DoneSoFar, OnIt, DeletingPcs, Ever
<1>5. QED
  BY <1>1, <1>2, <1>3, <1>4, SlotStep DEF store

\* A sweep begins.
LEMMA SweepKeeps ==
    ASSUME GoneInv, NEW d \in Linked, SweepContacts(d)
    PROVE  GoneInv'
<1> DEFINE o == Other(d)
           job == [Idle EXCEPT !.pc = IF tomb[o].at > 0 THEN "mark" ELSE "contact",
                               !.src = "sweep", !.at = tomb[o].at, !.seen = Described(o)]
<1>1. o \in Linked /\ Base /\ StoreTypes
  BY Others DEF GoneInv, Base
<1>2. Begin(jobs, d, job) /\ UNCHANGED <<store, clock, made, deletes>>
  BY DEF SweepContacts
<1>3. tomb[o].at \in Nat /\ Described(o) \in Ever \cup {0, Nobody} /\ Described(o) \in Int
  BY <1>1, Facts, Describes DEF TombT
<1>4. /\ job \in JobT /\ job.pc \in {"mark", "contact"} /\ (job.pc = "mark" => job.at > 0)
      /\ job.seen = Described(o)
  BY <1>3, Values DEF JobT, Pcs
<1> HIDE DEF job
<1>5. QED
  BY <1>2, <1>3, <1>4, HandlerBegins

\* The push of a new pairing begins a handler on the sibling.
LEMMA ContactsPushKeeps ==
    ASSUME GoneInv, NEW d \in Linked, ContactsPush(d)
    PROVE  GoneInv'
<1> DEFINE job == [Idle EXCEPT !.pc = "contact", !.src = "push", !.seen = Described(d),
                               !.offered = chat[d].held]
<1>1. Other(d) \in Linked /\ Base /\ StoreTypes
  BY Others DEF GoneInv, Base
<1>2. Begin(jobs, Other(d), job) /\ UNCHANGED <<store, clock, made, deletes>>
  BY DEF ContactsPush
<1>3. chat[d].held \in BOOLEAN /\ Described(d) \in Ever \cup {0, Nobody} /\ Described(d) \in Int
  BY <1>1, Facts, Describes DEF ChatT
<1>4. job \in JobT /\ job.pc = "contact" /\ job.seen = Described(d)
  BY <1>3, Values DEF JobT, Pcs
<1> HIDE DEF job
<1>5. QED
  BY <1>1, <1>2, <1>3, <1>4, HandlerBegins

\* No handler moves: what is at work stays at work.
LEMMA Unmoved ==
    ASSUME GoneInv, NEW d \in Linked, UNCHANGED <<jobs, tomb>>, disturbed \subseteq disturbed',
           StoreTypes', StoreRest(d),
           clock <= clock', made \subseteq made', live'[d] \cap Ever \subseteq live[d], Store(d)',
           Plain(d)' => /\ live'[d] \subseteq live[d] /\ (person'[d] => person[d])
                        /\ chat'[d].held => chat[d].held /\ chat'[d].created = chat[d].created
    PROVE  GoneInv'
<1>1. /\ StoreTypes /\ Gone(d) /\ (\A t \in Slots[d] : AtWork(d, t))
      /\ \A e \in Linked : Overlapping(jobs'[e]) => e \in disturbed'
  BY DEF GoneInv, Base
<1>2. Rest(d) /\ disturbed \subseteq disturbed'
  BY DEF Rest, StoreRest
<1>3. \A t \in Slots[d] : AtWork(d, t)'
  BY <1>1, AtWorkStays
<1>4. Gone(d)'
  <2>1. /\ ~(tomb'[d].done /\ ~tomb[d].done)
        /\ \A t \in Slots[d] : jobs'[d][t] = jobs[d][t]
        /\ \A t \in Slots[d] : OnIt(d, t) => OnIt(d, t)'
    BY DEF OnIt
  <2>2. QED
    BY <1>1, <1>2, <2>1, GoneStays
<1>5. QED
  BY <1>1, <1>2, <1>3, <1>4, OneDevice

\* The person is met again: from now on the delete is overtaken.
LEMMA PairKeeps ==
    ASSUME GoneInv, NEW d \in Linked, PairAgain(d)
    PROVE  GoneInv'
<1> DEFINE n == Now(d)
           c == Routed(chat[d], n, n)
<1>1. /\ StoreTypes /\ Store(d) /\ n \in Nat /\ n >= 1 /\ chat[d] \in ChatT /\ tomb[d] \in TombT
      /\ UNCHANGED <<tomb, jobs, disturbed, clock, deletes>> /\ n \notin Ever
      /\ made' = made \cup {n} /\ pairs' = [pairs EXCEPT ![d] = @ \cup {n}]
      /\ live' = [live EXCEPT ![d] = @ \cup {n}] /\ person' = [person EXCEPT ![d] = TRUE]
      /\ chat' = [chat EXCEPT ![d] = c]
  BY Facts DEF GoneInv, Base, PairAgain, Ever
<1>2. c \in ChatT /\ c.created <= n
  BY <1>1 DEF ChatT, Store, Routed
<1> HIDE DEF c
<1>3. /\ pairs'[d] = pairs[d] \cup {n} /\ live'[d] = live[d] \cup {n} /\ chat'[d] = c
      /\ StoreRest(d) /\ Now(d)' = n
  BY <1>1 DEF StoreTypes, StoreRest, Now
<1> HIDE DEF n
<1>4. StoreTypes'
  BY <1>1, <1>2 DEF StoreTypes
<1>5. Store(d)'
  BY <1>1, <1>2, <1>3 DEF Store, Ever, n, StoreTypes
<1>6. ~Plain(d)'
  <2>1. tomb[d].at > 0 => tomb[d].applied > 0 /\ tomb[d].applied <= n
    BY <1>1 DEF Store, n
  <2>2. tomb[d].at > 0 => ~(n < Bound(tomb[d]))
    BY <1>1, <2>1 DEF Bound, TombT
  <2>3. QED
    BY <1>1, <2>2 DEF Plain, NotMetSince
<1>7. clock <= clock' /\ made \subseteq made' /\ live'[d] \cap Ever \subseteq live[d]
  BY <1>1, <1>3 DEF StoreTypes
<1>8. QED
  BY <1>1, <1>3, <1>4, <1>5, <1>6, <1>7, Unmoved

\* One of several pairings is deleted.
LEMMA DeletePairingKeeps ==
    ASSUME GoneInv, NEW d \in Linked, NEW p, DeletePairing(d, p)
    PROVE  GoneInv'
<1> DEFINE rest == [chat[d] EXCEPT !.routes = @ \ {p}]
           c == IF chat[d].routes \cap OtherLive(d, p) # {} THEN rest
                ELSE IF p \in chat[d].routes THEN NoChat ELSE chat[d]
<1>1. /\ StoreTypes /\ Store(d) /\ chat[d] \in ChatT /\ Now(d) \in Nat
      /\ UNCHANGED <<person, tomb, jobs, disturbed, clock, made>> /\ deletes' = deletes + 1
      /\ \/ live' = [live EXCEPT ![d] = @ \ {p}] /\ pairs' = [pairs EXCEPT ![d] = @ \ {p}]
         \/ live' = live /\ pairs' = pairs
  BY Facts DEF GoneInv, Base, DeletePairing
<1>2. chat' = [chat EXCEPT ![d] = c] /\ c \in {rest, NoChat, chat[d]}
  BY Zenon DEF DeletePairing
<1>3. rest \in ChatT /\ rest.held = chat[d].held /\ rest.created = chat[d].created
  BY <1>1 DEF ChatT
<1> HIDE DEF rest, c
<1>4. /\ c \in ChatT /\ (c.held => chat[d].held /\ c.created = chat[d].created) /\ c.created <= Now(d)
  BY <1>1, <1>2, <1>3, Values DEF Store, ChatT
<1>5. /\ chat'[d] = c /\ StoreRest(d)
      /\ \/ live'[d] = live[d] \ {p} /\ pairs'[d] = pairs[d] \ {p}
         \/ live'[d] = live[d] /\ pairs'[d] = pairs[d]
  BY <1>1, <1>2 DEF StoreTypes, StoreRest
<1>6. StoreTypes'
  BY <1>1, <1>2, <1>4 DEF StoreTypes
<1>7. Store(d)'
  BY <1>1, <1>4, <1>5 DEF Store, Now, Ever
<1>8. clock <= clock' /\ made \subseteq made' /\ live'[d] \subseteq live[d]
  BY <1>1, <1>5 DEF StoreTypes
<1>9. person'[d] = person[d] /\ live'[d] \cap Ever \subseteq live[d]
  BY <1>1, <1>8
<1>10. QED
  BY <1>1, <1>4, <1>5, <1>6, <1>7, <1>8, <1>9, Unmoved

\* Records whose pairing the backend lost are swept.
LEMMA SweepDeadPeerRowsKeeps ==
    ASSUME GoneInv, NEW d \in Linked, SweepDeadPeerRows(d)
    PROVE  GoneInv'
<1>1. PICK dead \in SUBSET (pairs[d] \ live[d]) : pairs' = [pairs EXCEPT ![d] = @ \ dead]
  BY DEF SweepDeadPeerRows
<1>2. /\ StoreTypes /\ Store(d)
      /\ UNCHANGED <<live, chat, person, tomb, jobs, disturbed, clock, made, deletes>>
  BY DEF GoneInv, Base, SweepDeadPeerRows, counts
<1>3. StoreTypes' /\ StoreRest(d) /\ pairs'[d] = pairs[d] \ dead
  BY <1>1, <1>2 DEF StoreTypes, StoreRest
<1>4. Store(d)'
  BY <1>2, <1>3 DEF Store, Now, Ever
<1>5. clock <= clock' /\ made \subseteq made' /\ live'[d] = live[d] /\ person'[d] = person[d]
  BY <1>2 DEF StoreTypes
<1>6. QED
  BY <1>2, <1>3, <1>4, <1>5, Unmoved

\* Entries come over pairings that were made.
Mailed == inbox \in [Linked -> SUBSET Nat] /\ \A d \in Linked : inbox[d] \subseteq Ever

\* The relay handles an entry: one of a pairing that a plain delete covers is noted.
LEMMA EntryKeeps ==
    ASSUME GoneInv, Mailed, NEW d \in Linked, NEW p, HandleEntry(d, p)
    PROVE  GoneInv'
<1> DEFINE n == Now(d)
           c == Routed(chat[d], p, n)
<1>1. /\ StoreTypes /\ Base /\ Store(d) /\ n \in Nat /\ n >= 1 /\ chat[d] \in ChatT
      /\ UNCHANGED <<pairs, live, person, tomb, jobs, clock, deletes, made>> /\ p \in Ever
      /\ disturbed' = IF tomb[d].at > 0 /\ Covers(tomb[d], p) THEN disturbed \cup {d} ELSE disturbed
      /\ chat' = [chat EXCEPT ![d] = c]
  BY Facts DEF GoneInv, Base, HandleEntry, Mailed
<1>2. p \in Nat
  BY <1>1 DEF Ever, StoreTypes
<1>3. c \in ChatT /\ c.created <= n
  BY <1>1, <1>2 DEF ChatT, Store, Routed
<1> HIDE DEF c
<1>4. chat'[d] = c /\ StoreRest(d) /\ Now(d)' = n
  BY <1>1 DEF StoreTypes, StoreRest, Now
<1>5. StoreTypes' /\ disturbed \subseteq disturbed'
  BY <1>1, <1>3 DEF StoreTypes
<1>6. Store(d)'
  BY <1>1, <1>3, <1>4 DEF Store, Ever
<1>7. ~Plain(d)'
  <2>1. Plain(d)' => Plain(d)
    BY <1>1, <1>5 DEF Plain, NotMetSince, Bound
  <2>2. Plain(d) => (tomb[d].at > 0 /\ Covers(tomb[d], p))
    BY <1>1, AllCovered DEF Plain
  <2>3. QED
    BY <1>1, <2>1, <2>2 DEF Plain
<1>8. clock <= clock' /\ made \subseteq made' /\ live'[d] \cap Ever \subseteq live[d]
  BY <1>1 DEF StoreTypes
<1>9. QED
  BY <1>1, <1>4, <1>5, <1>6, <1>7, <1>8, Unmoved

\* The relay reads its inbox: nothing else changes.
LEMMA ReadInboxKeeps ==
    ASSUME GoneInv, NEW d \in Linked, NEW p, ReadInbox(d, p)
    PROVE  GoneInv'
<1>1. /\ StoreTypes /\ Store(d) /\ UNCHANGED <<store, jobs, clock, deletes, made, disturbed>>
  BY DEF GoneInv, Base, ReadInbox
<1>2. StoreTypes' /\ StoreRest(d) /\ Store(d)'
  BY <1>1, SameStore DEF StoreTypes, store
<1>3. QED
  BY <1>1, <1>2, Unmoved DEF store, StoreTypes

\* What the inbox holds came over pairings that were made.
LEMMA MailStays == GoneInv /\ Mailed /\ [DeleteNext]_deleteVars => Mailed'
<1> SUFFICES ASSUME GoneInv, Mailed, [DeleteNext]_deleteVars PROVE Mailed'
  OBVIOUS
<1>1. ASSUME inbox' = inbox, made \subseteq made' PROVE Mailed'
  BY <1>1 DEF Mailed, Ever
<1>2. ASSUME NEW d \in Linked, NEW S \in SUBSET Nat, S \subseteq Ever, made' = made,
             inbox' = [inbox EXCEPT ![d] = S]
      PROVE  Mailed'
  BY <1>2 DEF Mailed, Ever
<1>3. ASSUME NEW d \in Linked
      PROVE  inbox[d] \in SUBSET Nat /\ inbox[d] \subseteq Ever /\ live[d] \subseteq Ever /\ Ever \subseteq Nat
  BY DEF Mailed, GoneInv, Base, Store, StoreTypes, Ever
<1>4. ASSUME NEW d \in Linked, NEW p \in live[d], ReadInbox(d, p) PROVE Mailed'
  <2>1. inbox' = [inbox EXCEPT ![d] = inbox[d] \cup {p}] /\ made' = made
    BY <1>4 DEF ReadInbox
  <2>2. p \in Ever /\ p \in Nat
    BY <1>3, <1>4
  <2>3. inbox[d] \cup {p} \in SUBSET Nat /\ inbox[d] \cup {p} \subseteq Ever
    BY <1>3, <2>2
  <2>4. QED
    BY <1>2, <2>1, <2>3
<1>5. ASSUME NEW d \in Linked, NEW p, HandleEntry(d, p) PROVE Mailed'
  <2>1. inbox' = [inbox EXCEPT ![d] = inbox[d] \ {p}] /\ made' = made
    BY <1>5 DEF HandleEntry
  <2>2. inbox[d] \ {p} \in SUBSET Nat /\ inbox[d] \ {p} \subseteq Ever
    BY <1>3
  <2>3. QED
    BY <1>2, <2>1, <2>2
<1>6. ASSUME NEW d \in Linked, StopFrontend(d) PROVE Mailed'
  <2>1. inbox' = [inbox EXCEPT ![d] = {}] /\ made' = made
    BY <1>6 DEF StopFrontend
  <2>2. QED
    BY <1>2, <2>1
<1>7. ASSUME NEW d \in Linked, JobStep(d) PROVE Mailed'
  <2>1. inbox' = inbox /\ made' = made
    BY <1>7 DEF JobStep, ApplyMark, ReadPairings, DropChat, DropChatFails, DropPairing, ForgetPeer,
                ForgetPerson, Finish, CheckContact, MergePerson, ReadChats, CheckChat, AdoptChat, counts, mail
  <2>2. QED
    BY <1>1, <2>1
<1>8. ASSUME NEW d \in Linked,
             \/ SweepContacts(d) \/ ContactsPush(d) \/ PairAgain(d) \/ SweepDeadPeerRows(d) \/ SecondPasses
             \/ \E p \in live[d] : DeletePairing(d, p) \/ DeletePerson(d, p)
      PROVE  Mailed'
  <2>1. inbox' = inbox /\ made \subseteq made'
    BY <1>8 DEF SweepContacts, ContactsPush, PairAgain, SweepDeadPeerRows, SecondPasses, DeletePairing,
                DeletePerson, counts, mail
  <2>2. QED
    BY <1>1, <2>1
<1>9. CASE UNCHANGED deleteVars
  BY <1>1, <1>9 DEF deleteVars
<1>10. \E d : d \in Linked
  BY TwoDevices
<1>11. QED
  BY <1>4, <1>5, <1>6, <1>7, <1>8, <1>9, <1>10 DEF DeleteNext

\* The clocks go on.
LEMMA TickKeeps ==
    ASSUME GoneInv, SecondPasses
    PROVE  GoneInv'
<1>1. /\ StoreTypes /\ clock' = clock + 1
      /\ UNCHANGED <<store, jobs, disturbed, made, deletes>>
  BY DEF GoneInv, Base, SecondPasses
<1>2. StoreTypes' /\ clock <= clock' /\ made \subseteq made'
  BY <1>1 DEF StoreTypes, store
<1>3. PICK d \in Linked : TRUE
  BY TwoDevices
<1>4. Store(d)' /\ StoreRest(d)
  <2>1. Store(d) /\ Now(d) \in Nat /\ Now(d)' = Now(d) + 1 /\ pairs[d] \subseteq Nat
        /\ chat[d].created \in Nat /\ tomb[d].applied \in Nat
    BY <1>1, Facts, ClocksPositive DEF GoneInv, Base, Now, StoreTypes, ChatT, TombT
  <2>2. QED
    BY <1>1, <2>1 DEF Store, StoreRest, Ever, store
<1>5. QED
  BY <1>1, <1>2, <1>4, Unmoved DEF store

\* A stop ends every handler, and a delete it cuts is noted.
LEMMA StopKeeps ==
    ASSUME GoneInv, NEW d \in Linked, StopFrontend(d)
    PROVE  GoneInv'
<1>1. /\ StoreTypes /\ Store(d) /\ Gone(d) /\ UNCHANGED <<store, clock, made, deletes>>
      /\ jobs' = [jobs EXCEPT ![d] = [s \in Slots[d] |-> Idle]]
      /\ disturbed' = IF Deleting(d) THEN disturbed \cup {d} ELSE disturbed
  BY DEF GoneInv, Base, StopFrontend
<1> DEFINE none == [s \in Slots[d] |-> Idle]
<1>2. none \in [Slots[d] -> JobT] /\ none \in UNION {[Slots[e] -> JobT] : e \in Linked}
  <2>1. none \in [Slots[d] -> JobT]
    BY Values
  <2>2. QED
    BY <2>1
<1>3. /\ jobs'[d] = none /\ (\A e \in Linked : e # d => jobs'[e] = jobs[e]) /\ JobsT(jobs')
      /\ \A t \in Slots[d] : jobs'[d][t] = Idle
  BY <1>1, <1>2 DEF StoreTypes, JobsT
<1>4. StoreTypes' /\ disturbed \subseteq disturbed'
  BY <1>1, <1>3 DEF StoreTypes, store
<1>5. Store(d)' /\ StoreRest(d) /\ Rest(d)
  BY <1>1, <1>3, SameStore DEF Rest, StoreRest
<1>6. \A t \in Slots[d] : AtWork(d, t)' /\ ~OnIt(d, t)'
  BY <1>3, Values DEF AtWork, DeletingPcs, OnIt
<1>7. Gone(d)'
  <2> SUFFICES ASSUME Plain(d)' PROVE Gone(d)'
    BY DEF Gone
  <2>1. Plain(d) /\ ~Deleting(d)
    BY <1>1, <1>4 DEF Plain, NotMetSince, Bound, store
  <2>2. \A t \in Slots[d] : ~OnIt(d, t)
    BY <2>1 DEF Deleting, OnIt
  <2>3. NoneBack(d)'
    BY <1>3, Values DEF NoneBack
  <2>4. \A t \in Slots[d] : DoneSoFar(d, t)'
    BY <1>6 DEF DoneSoFar
  <2>5. QED
    BY <1>1, <2>1, <2>2, <2>3, <2>4 DEF Gone, store
<1>8. \A e \in Linked : Overlapping(jobs'[e]) => e \in disturbed'
  <2>1. ~Overlapping(jobs'[d])
    BY <1>3, Values DEF Overlapping, DeletingPcs
  <2>2. QED
    BY <1>1, <1>3, <2>1 DEF GoneInv, Base
<1>9. clock <= clock' /\ made \subseteq made'
  BY <1>1 DEF StoreTypes
<1>10. QED
  BY <1>4, <1>5, <1>6, <1>7, <1>8, <1>9, OneDevice

\* The invariant holds at the start.
LEMMA GoneInit == DeleteInit => GoneInv /\ Mailed
<1> SUFFICES ASSUME DeleteInit PROVE GoneInv /\ Mailed
  OBVIOUS
<1>1. JobsT(jobs) /\ \A d \in Linked : \A s \in Slots[d] : jobs[d][s] = Idle
  <2> DEFINE none(d) == [s \in Slots[d] |-> Idle]
  <2>1. \A d \in Linked : none(d) \in [Slots[d] -> JobT]
    BY Values
  <2>2. jobs = [d \in Linked |-> none(d)]
    BY DEF DeleteInit
  <2> HIDE DEF none
  <2>3. jobs \in [Linked -> UNION {[Slots[d] -> JobT] : d \in Linked}]
    BY <2>1, <2>2
  <2>4. JobsT(jobs)
    BY <2>1, <2>2, <2>3 DEF JobsT
  <2>5. QED
    BY <2>2, <2>4 DEF none
<1>2. StoreTypes
  BY <1>1, Values DEF DeleteInit, StoreTypes, ChatT
<1>3. ASSUME NEW d \in Linked PROVE Store(d) /\ ~Overlapping(jobs[d]) /\ Gone(d)
  <2>1. tomb[d] = NoTomb /\ pairs[d] = {1} /\ live[d] = {1} /\ chat[d].created = 1 /\ clock = 1
    BY DEF DeleteInit
  <2>2. Now(d) \in Nat /\ Now(d) >= 1
    BY <1>2, Facts
  <2>3. Store(d)
    BY <2>1, <2>2, Values DEF Store, Ever
  <2>4. ~Overlapping(jobs[d])
    BY <1>1, Values DEF Overlapping, JobsT, DeletingPcs
  <2>5. Gone(d)
    BY <2>1, Values DEF Gone, Plain
  <2>6. QED
    BY <2>3, <2>4, <2>5
<1>4. \A d \in Linked : \A s \in Slots[d] : AtWork(d, s)
  BY <1>1, Values DEF AtWork, DeletingPcs
<1>5. Mailed
  BY DEF DeleteInit, Mailed
<1>6. QED
  BY <1>2, <1>3, <1>4, <1>5 DEF GoneInv, Base

\* And every step keeps it.
LEMMA GoneNext == GoneInv /\ Mailed /\ [DeleteNext]_deleteVars => GoneInv'
<1> SUFFICES ASSUME GoneInv, Mailed, [DeleteNext]_deleteVars PROVE GoneInv'
  OBVIOUS
<1>1. CASE UNCHANGED deleteVars
  <2>1. PICK d \in Linked : TRUE
    BY TwoDevices
  <2>2. StoreTypes' /\ StoreRest(d) /\ Store(d)' /\ clock <= clock'
    BY <1>1 DEF deleteVars, GoneInv, Base, StoreTypes, StoreRest, Store, Ever, Now
  <2>3. QED
    BY <1>1, <2>1, <2>2, Unmoved DEF deleteVars
<1>2. CASE SecondPasses
  BY <1>2, TickKeeps
<1>3. ASSUME NEW d \in Linked, JobStep(d) PROVE GoneInv'
  <2>1. PICK s \in Slots[d] :
          \/ ApplyMark(d, s) \/ ReadPairings(d, s) \/ DropChat(d, s) \/ DropChatFails(d, s)
          \/ DropPairing(d, s)
          \/ ForgetPeer(d, s) \/ ForgetPerson(d, s) \/ Finish(d, s)
          \/ CheckContact(d, s) \/ MergePerson(d, s) \/ ReadChats(d, s) \/ CheckChat(d, s)
          \/ AdoptChat(d, s)
    BY <1>3 DEF JobStep
  <2>2. QED
    BY <2>1, ApplyMarkKeeps, ReadPairingsKeeps, DropChatKeeps, DropChatFailsKeeps, DropPairingKeeps, ForgetPeerKeeps,
       ForgetPersonKeeps, FinishKeeps, CheckContactKeeps, MergePersonKeeps, ReadChatsKeeps,
       CheckChatKeeps, AdoptChatKeeps
<1>4. ASSUME NEW d \in Linked,
             \/ SweepContacts(d) \/ ContactsPush(d) \/ PairAgain(d) \/ SweepDeadPeerRows(d) \/ StopFrontend(d)
      PROVE  GoneInv'
  BY <1>4, SweepKeeps, ContactsPushKeeps, PairKeeps, SweepDeadPeerRowsKeeps, StopKeeps
<1>5. ASSUME NEW d \in Linked, NEW p,
             DeletePairing(d, p) \/ DeletePerson(d, p) \/ ReadInbox(d, p) \/ HandleEntry(d, p)
      PROVE  GoneInv'
  BY <1>5, DeletePairingKeeps, DeletePersonKeeps, ReadInboxKeeps, EntryKeeps
<1>6. QED
  BY <1>1, <1>2, <1>3, <1>4, <1>5 DEF DeleteNext

\* Where deletePerson has recorded its delete as done, nobody was met since and no
\* stop, failed write, concurrent merge or inbox entry of a covered pairing got in its
\* way, the person, the chat and the backend's pairings are gone and stay gone: no
\* answer that applyContacts or applyChats starts on later brings anything back.
THEOREM DeleteBackOnlyIfDisturbed == DeleteSpec => []BackOnlyIfDisturbed
<1>1. GoneInv => BackOnlyIfDisturbed
  <2> SUFFICES ASSUME GoneInv, NEW d \in Linked, tomb[d].done, NotMetSince(d), ~Deleting(d),
                      d \notin disturbed
               PROVE  Erased(d)
    BY DEF BackOnlyIfDisturbed
  <2>1. Gone(d) /\ Store(d) /\ tomb[d].at \in Nat
    BY Facts DEF GoneInv, Base, TombT
  <2>2. tomb[d].at > 0
    BY <2>1 DEF Store
  <2>3. Plain(d) /\ \A t \in Slots[d] : ~OnIt(d, t)
    BY <2>2 DEF Plain, Deleting, OnIt
  <2>4. QED
    BY <2>1, <2>3 DEF Gone, Erased
<1>2. QED
  BY <1>1, GoneInit, GoneNext, MailStays, PTL DEF DeleteSpec

-----------------------------------------------------------------------------
(* When a delete was first applied *)

MaxSkew == Max({Skew[d] : d \in Linked})

\* No delete is newer than this.
Latest == clock + MaxSkew + deletes

\* The first time a delete was applied is on record for the one held and for no
\* newer one.
StampedTomb(d) ==
    /\ tomb[d].at <= Latest
    /\ \A at \in DeleteTimes : at > tomb[d].at => applied[d][at] = 0
    /\ tomb[d].at > 0 => applied[d][tomb[d].at] = tomb[d].applied

\* A handler at work on a delete has that time, and takes nothing younger.
StampedJob(d, s) ==
    /\ jobs[d][s].at <= Latest
    /\ jobs[d][s].pc \in DeletingPcs =>
         jobs[d][s].held.applied > 0 /\ applied[d][jobs[d][s].held.at] = jobs[d][s].held.applied
    /\ jobs[d][s].pc \in DeletingPcs \ {"read"} =>
         \A p \in jobs[d][s].doomed : p <= jobs[d][s].held.applied

Stamped ==
    /\ applied \in [Linked -> [DeleteTimes -> Nat]]
    /\ clock <= MaxClock /\ deletes <= MaxDeletes
    /\ \A d \in Linked : StampedTomb(d) /\ \A s \in Slots[d] : StampedJob(d, s)

\* The step takes no pairing younger than the delete it works on.
LaterAt(d, s) == jobs[d][s].pc = "pair" /\ jobs'[d][s].pc = "forget" =>
    \A p \in live[d] \ live'[d] : p <= applied[d][jobs[d][s].held.at]

Later == \A d \in Linked : \A s \in Slots[d] : LaterAt(d, s)

\* No clock is further ahead than the largest skew.
LEMMA Skews == MaxSkew \in Nat /\ \A d \in Linked : Skew[d] <= MaxSkew
<1> DEFINE S == {Skew[d] : d \in Linked}
<1>1. PICK d, o \in Linked : d # o /\ Linked = {d, o}
  BY TwoDevices
<1>2. Skew[d] \in Nat /\ Skew[o] \in Nat /\ S = {Skew[d], Skew[o]}
  BY <1>1, ClocksPositive
<1>3. S \in SUBSET Nat /\ S # {} /\ \A x \in S : x <= Skew[d] + Skew[o]
  BY <1>2
<1>4. Skew[d] + Skew[o] \in Nat
  BY <1>2
<1> HIDE DEF S
<1>5. Max(S) \in S /\ \A x \in S : x <= Max(S)
  BY <1>3, <1>4, LastExists
<1>6. QED
  BY <1>3, <1>5 DEF S, MaxSkew

\* Sums of times grow with their parts.
LEMMA SumGrows ==
    \A a, b, k, x, y \in Nat : a <= b /\ x <= y =>
        a + k + x <= b + k + y /\ a + k + x \in Nat /\ b + k + y \in Nat
OBVIOUS

\* The latest time a delete can carry grows with the clock and the deletes.
LEMMA LatestGrows ==
    ASSUME StoreTypes, StoreTypes', clock <= clock', deletes <= deletes'
    PROVE  Latest <= Latest' /\ Latest \in Nat /\ Latest' \in Nat
<1>1. clock \in Nat /\ clock' \in Nat /\ deletes \in Nat /\ deletes' \in Nat /\ MaxSkew \in Nat
  BY Skews DEF StoreTypes
<1>2. Latest = clock + MaxSkew + deletes /\ Latest' = clock' + MaxSkew + deletes'
  BY DEF Latest
<1>3. QED
  BY <1>1, <1>2, SumGrows

\* A time up to the latest is a stamp.
LEMMA InStamps ==
    ASSUME StoreTypes, Stamped
    PROVE  Latest \in Nat /\ \A at \in Nat \ {0} : at <= Latest => at \in DeleteTimes
<1>1. clock \in Nat /\ deletes \in Nat /\ clock <= MaxClock /\ deletes <= MaxDeletes /\ MaxSkew \in Nat
      /\ MaxClock \in Nat /\ MaxDeletes \in Nat
  BY Skews, ClocksPositive DEF StoreTypes, Stamped
<1>2. MaxDeleteTime = MaxClock + MaxSkew + MaxDeletes
  BY DEF MaxDeleteTime, MaxSkew
<1>3. QED
  BY <1>1, <1>2 DEF Latest, DeleteTimes

\* A step of handlers that leaves the deletes as they are.
LEMMA StampsStay ==
    ASSUME StoreTypes, Stamped, StoreTypes', UNCHANGED applied,
           clock <= clock', clock' <= MaxClock, deletes <= deletes', deletes' <= MaxDeletes,
           \A e \in Linked : tomb'[e].at = tomb[e].at /\ tomb'[e].applied = tomb[e].applied,
           \A e \in Linked : \A t \in Slots[e] : jobs'[e][t] = jobs[e][t] \/ StampedJob(e, t)'
    PROVE  Stamped'
<1>1. Latest <= Latest' /\ Latest \in Nat /\ Latest' \in Nat
  BY LatestGrows
<1>2. ASSUME NEW e \in Linked PROVE StampedTomb(e)'
  <2>1. tomb[e].at \in Nat /\ StampedTomb(e)
    BY Facts DEF Stamped, TombT
  <2>2. QED
    BY <1>1, <2>1 DEF StampedTomb
<1>3. ASSUME NEW e \in Linked, NEW t \in Slots[e] PROVE StampedJob(e, t)'
  <2>1. CASE jobs'[e][t] = jobs[e][t]
    <3>1. jobs[e][t].at \in Nat /\ StampedJob(e, t)
      BY Facts DEF Stamped, JobT
    <3>2. QED
      BY <1>1, <2>1, <3>1 DEF StampedJob
  <2>2. QED
    BY <2>1
<1>4. QED
  BY <1>2, <1>3 DEF Stamped

\* A step of one handler.
LEMMA StampSlot ==
    ASSUME GoneInv, Stamped, GoneInv', UNCHANGED <<applied, clock, deletes>>,
           \A e \in Linked : tomb'[e].at = tomb[e].at /\ tomb'[e].applied = tomb[e].applied,
           NEW d \in Linked, NEW s \in Slots[d], SlotOnly(d, s),
           jobs'[d][s].at \in {0, jobs[d][s].at},
           jobs'[d][s].pc \in DeletingPcs =>
               /\ jobs[d][s].pc \in DeletingPcs /\ jobs'[d][s].held = jobs[d][s].held
               /\ jobs'[d][s].pc # "read" =>
                     \/ jobs[d][s].pc # "read" /\ jobs'[d][s].doomed \subseteq jobs[d][s].doomed
                     \/ \A p \in jobs'[d][s].doomed : p <= jobs[d][s].held.applied,
           LaterAt(d, s)
    PROVE  Stamped' /\ Later
<1>1. StoreTypes /\ StoreTypes' /\ StampedJob(d, s)
  BY DEF GoneInv, Base, Stamped
<1>2. Latest' = Latest /\ 0 <= Latest
  BY <1>1, InStamps DEF Latest
<1>3. StampedJob(d, s)'
  BY <1>1, <1>2 DEF StampedJob
<1>4. \A e \in Linked : \A t \in Slots[e] : e # d \/ t # s => jobs'[e][t] = jobs[e][t]
  BY DEF SlotOnly
<1>5. Stamped'
  <2>1. clock <= clock' /\ clock' <= MaxClock /\ deletes <= deletes' /\ deletes' <= MaxDeletes
    BY <1>1 DEF Stamped, StoreTypes
  <2>2. \A e \in Linked : \A t \in Slots[e] : jobs'[e][t] = jobs[e][t] \/ StampedJob(e, t)'
    BY <1>3, <1>4
  <2>3. QED
    BY <1>1, <2>1, <2>2, StampsStay
<1>6. ASSUME NEW e \in Linked, NEW t \in Slots[e] PROVE LaterAt(e, t)
  <2>1. CASE e = d /\ t = s
    BY <2>1
  <2>2. CASE e # d \/ t # s
    <3>1. jobs'[e][t] = jobs[e][t]
      BY <1>4, <2>2
    <3>2. QED
      BY <3>1 DEF LaterAt
  <2>3. QED
    BY <2>1, <2>2
<1>7. QED
  BY <1>5, <1>6 DEF Later

\* No handler moves on.
LEMMA StampQuiet ==
    ASSUME GoneInv, Stamped, GoneInv', UNCHANGED <<applied, tomb>>,
           clock <= clock', clock' <= MaxClock, deletes <= deletes', deletes' <= MaxDeletes,
           \A e \in Linked : \A t \in Slots[e] :
               \/ jobs'[e][t] = jobs[e][t]
               \/ jobs'[e][t].pc \in {"idle", "mark", "contact"} /\ jobs'[e][t].at <= Latest
    PROVE  Stamped' /\ Later
<1>1. StoreTypes /\ StoreTypes'
  BY DEF GoneInv, Base
<1>2. Latest <= Latest' /\ Latest \in Nat /\ Latest' \in Nat
  BY <1>1, LatestGrows
<1>3. ASSUME NEW e \in Linked, NEW t \in Slots[e] PROVE jobs'[e][t] = jobs[e][t] \/ StampedJob(e, t)'
  <2>1. jobs'[e][t].at \in Nat
    BY <1>1, FactsNext DEF JobT
  <2>2. QED
    BY <1>2, <2>1 DEF StampedJob, DeletingPcs
<1>4. Stamped'
  BY <1>1, <1>3, StampsStay
<1>5. Later
  BY DEF Later, LaterAt
<1>6. QED
  BY <1>4, <1>5

\* Steps that only move a handler which is not at work on a delete.
LEMMA OtherHandlerStamps ==
    ASSUME GoneInv, Stamped, GoneInv', NEW d \in Linked, NEW s \in Slots[d],
           CheckContact(d, s) \/ MergePerson(d, s) \/ ReadChats(d, s) \/ CheckChat(d, s) \/ AdoptChat(d, s)
    PROVE  Stamped' /\ Later
<1>1. /\ StoreTypes /\ jobs[d][s] \in JobT /\ UNCHANGED <<applied, clock, deletes, tomb>>
      /\ jobs[d][s].pc \in {"contact", "merge", "chats", "chatcheck", "adopt"}
  BY Here DEF CheckContact, MergePerson, ReadChats, CheckChat, AdoptChat, counts, store
<1>2. PICK job : /\ Becomes(d, s, job)
                 /\ \/ job = Idle \/ job = [Idle EXCEPT !.pc = "chatcheck"]
                    \/ \E pc \in {"chats", "merge", "adopt"} : job = [jobs[d][s] EXCEPT !.pc = pc]
  BY DEF CheckContact, MergePerson, ReadChats, CheckChat, AdoptChat, Moves
<1>3. /\ job \in JobT /\ job.at \in {0, jobs[d][s].at}
      /\ job.pc \in {"idle", "chatcheck", "chats", "merge", "adopt"}
  <2>1. CASE job = Idle \/ job = [Idle EXCEPT !.pc = "chatcheck"]
    BY <2>1, Values DEF JobT, Pcs
  <2>2. ASSUME NEW pc \in {"chats", "merge", "adopt"}, job = [jobs[d][s] EXCEPT !.pc = pc]
        PROVE  job \in JobT /\ job.at = jobs[d][s].at /\ job.pc = pc
    BY <1>1, <2>2 DEF JobT, Pcs
  <2>3. QED
    BY <1>2, <2>1, <2>2
<1>4. SlotOnly(d, s) /\ jobs'[d][s] = job
  BY <1>1, <1>2, <1>3, SlotChanges
<1>5. LaterAt(d, s) /\ job.pc \notin DeletingPcs
  BY <1>1, <1>3, <1>4 DEF LaterAt, DeletingPcs
<1>6. QED
  BY <1>1, <1>3, <1>4, <1>5, StampSlot

\* Steps of a handler at work on a delete.
LEMMA DeletingStamps ==
    ASSUME GoneInv, Stamped, GoneInv', NEW d \in Linked, NEW s \in Slots[d],
           jobs[d][s].pc \in DeletingPcs, UNCHANGED <<applied, clock, deletes, tomb>>,
           NEW job \in JobT, Becomes(d, s, job), job.pc \in DeletingPcs \ {"read"},
           job.at = jobs[d][s].at, job.held = jobs[d][s].held,
           \/ jobs[d][s].pc # "read" /\ job.doomed \subseteq jobs[d][s].doomed
           \/ \A p \in job.doomed : p <= jobs[d][s].held.applied,
           jobs[d][s].pc = "pair" /\ job.pc = "forget" =>
               live[d] \ live'[d] \subseteq jobs[d][s].doomed
    PROVE  Stamped' /\ Later
<1>1. StoreTypes /\ StampedJob(d, s)
  BY DEF GoneInv, Base, Stamped
<1>2. SlotOnly(d, s) /\ jobs'[d][s] = job
  BY <1>1, SlotChanges
<1>3. LaterAt(d, s)
  BY <1>1, <1>2 DEF LaterAt, StampedJob
<1>4. QED
  BY <1>2, <1>3, StampSlot

\* The pairings a delete dooms were made before it was applied here.
LEMMA ReadPairingsStamps ==
    ASSUME GoneInv, Stamped, GoneInv', NEW d \in Linked, NEW s \in Slots[d], ReadPairings(d, s)
    PROVE  Stamped' /\ Later
<1> DEFINE held == jobs[d][s].held
           doomed == {p \in pairs[d] : Covers(held, p)}
           kept == pairs[d] \ doomed
           job == [jobs[d][s] EXCEPT !.pc = "chat", !.doomed = doomed, !.kept = kept]
<1>1. /\ StoreTypes /\ jobs[d][s] \in JobT /\ UNCHANGED <<applied, clock, deletes, tomb>>
      /\ jobs[d][s].pc = "read" /\ Becomes(d, s, job) /\ StampedJob(d, s) /\ pairs[d] \subseteq Nat
  BY Here, Facts DEF ReadPairings, counts, store, Stamped
<1>2. held.at \in Nat /\ held.applied \in Nat /\ held.applied > 0
  BY <1>1 DEF JobT, TombT, StampedJob, DeletingPcs
<1>3. doomed \subseteq Nat /\ kept \subseteq Nat /\ \A p \in doomed : p <= held.applied
  BY <1>1, <1>2 DEF Covers, Bound
<1> HIDE DEF doomed, kept
<1>4. /\ job \in JobT /\ job.pc = "chat" /\ job.doomed = doomed /\ job.at = jobs[d][s].at
      /\ job.held = held
  BY <1>1, <1>3 DEF JobT, Pcs, DeletingPcs
<1> HIDE DEF job
<1>5. jobs[d][s].pc \in DeletingPcs /\ job.pc \in DeletingPcs \ {"read"}
  BY <1>1, <1>4 DEF DeletingPcs
<1>6. QED
  BY <1>1, <1>3, <1>4, <1>5, DeletingStamps

\* The chat's transaction leaves the times alone.
LEMMA DropChatStamps ==
    ASSUME GoneInv, Stamped, GoneInv', NEW d \in Linked, NEW s \in Slots[d], DropChat(d, s)
    PROVE  Stamped' /\ Later
<1> DEFINE goesOn == chat[d].held /\ ChatGoesOn(chat[d], jobs[d][s])
           job == [jobs[d][s] EXCEPT !.pc = "pair", !.keptChat = goesOn]
<1>1. /\ jobs[d][s] \in JobT /\ UNCHANGED <<applied, clock, deletes, tomb>> /\ chat[d] \in ChatT
      /\ jobs[d][s].pc = "chat" /\ Becomes(d, s, job)
  BY Here DEF DropChat, counts
<1>2. goesOn \in BOOLEAN
  BY <1>1 DEF ChatGoesOn, ChatT
<1> HIDE DEF goesOn
<1>3. /\ job \in JobT /\ job.pc = "pair" /\ job.doomed = jobs[d][s].doomed /\ job.at = jobs[d][s].at
      /\ job.held = jobs[d][s].held
  BY <1>1, <1>2 DEF JobT, Pcs, DeletingPcs
<1> HIDE DEF job
<1>4. jobs[d][s].pc \in DeletingPcs /\ job.pc \in DeletingPcs \ {"read"}
  BY <1>1, <1>3 DEF DeletingPcs
<1>5. QED
  BY <1>1, <1>3, <1>4, DeletingStamps

\* So does its failure.
LEMMA DropChatFailsStamps ==
    ASSUME GoneInv, Stamped, GoneInv', NEW d \in Linked, NEW s \in Slots[d], DropChatFails(d, s)
    PROVE  Stamped' /\ Later
<1> DEFINE left == IF ChatGoesOn(chat[d], jobs[d][s]) THEN jobs[d][s].doomed \ chat[d].routes
                   ELSE jobs[d][s].doomed
           job == [jobs[d][s] EXCEPT !.pc = "pair", !.doomed = left, !.ok = FALSE]
<1>1. /\ Base /\ jobs[d][s] \in JobT /\ UNCHANGED <<applied, clock, deletes, tomb>>
      /\ jobs[d][s].pc = "chat"
      /\ jobs' = [jobs EXCEPT ![d] = [jobs[d] EXCEPT ![s] = job]] /\ disturbed' = disturbed \cup {d}
  BY Here DEF DropChatFails, store
<1>2. left \subseteq jobs[d][s].doomed
  OBVIOUS
<1> HIDE DEF left
<1>3. /\ job \in JobT /\ job.pc = "pair" /\ job.doomed = left /\ job.at = jobs[d][s].at
      /\ job.held = jobs[d][s].held
  BY <1>1, <1>2 DEF JobT, Pcs, DeletingPcs
<1> HIDE DEF job
<1>4. SlotOnly(d, s) /\ jobs'[d][s] = job
  BY <1>1, <1>3, SlotFails
<1>5. jobs[d][s].pc \in DeletingPcs /\ jobs[d][s].pc # "read" /\ LaterAt(d, s)
  BY <1>1 DEF DeletingPcs, LaterAt
<1>6. QED
  BY <1>1, <1>2, <1>3, <1>4, <1>5, StampSlot

\* The pairing the backend deletes was doomed, so it was made before the delete was
\* applied here.
LEMMA DropPairingStamps ==
    ASSUME GoneInv, Stamped, GoneInv', NEW d \in Linked, NEW s \in Slots[d], DropPairing(d, s)
    PROVE  Stamped' /\ Later
<1>1. /\ StoreTypes /\ jobs[d][s] \in JobT /\ UNCHANGED <<applied, clock, deletes, tomb>>
      /\ jobs[d][s].pc = "pair" /\ jobs[d][s].pc \in DeletingPcs
  BY Here DEF DropPairing, DeletingPcs
<1>2. CASE Moves(d, s, "person")
  <2> DEFINE job == [jobs[d][s] EXCEPT !.pc = "person"]
  <2>1. /\ job \in JobT /\ job.pc = "person" /\ job.doomed = jobs[d][s].doomed
        /\ job.at = jobs[d][s].at /\ job.held = jobs[d][s].held /\ Becomes(d, s, job)
    BY <1>1, <1>2 DEF JobT, Pcs, DeletingPcs, Moves
  <2> HIDE DEF job
  <2>2. job.pc \in DeletingPcs \ {"read"}
    BY <2>1 DEF DeletingPcs
  <2>3. QED
    BY <1>1, <2>1, <2>2, DeletingStamps
<1>3. ASSUME NEW p \in jobs[d][s].doomed, live' = [live EXCEPT ![d] = @ \ {p}],
             Becomes(d, s, [jobs[d][s] EXCEPT !.pc = "forget", !.cur = p, !.doomed = @ \ {p}])
      PROVE  Stamped' /\ Later
  <2> DEFINE job == [jobs[d][s] EXCEPT !.pc = "forget", !.cur = p, !.doomed = @ \ {p}]
  <2>1. /\ job \in JobT /\ job.pc = "forget" /\ job.doomed \subseteq jobs[d][s].doomed
        /\ job.at = jobs[d][s].at /\ job.held = jobs[d][s].held /\ Becomes(d, s, job)
    BY <1>1, <1>3 DEF JobT, Pcs, DeletingPcs
  <2> HIDE DEF job
  <2>2. job.pc \in DeletingPcs \ {"read"} /\ live[d] \ live'[d] \subseteq jobs[d][s].doomed
    BY <1>1, <1>3, <2>1 DEF DeletingPcs, StoreTypes
  <2>3. QED
    BY <1>1, <2>1, <2>2, DeletingStamps
<1>4. ASSUME NEW p \in jobs[d][s].doomed,
             Becomes(d, s, [jobs[d][s] EXCEPT !.doomed = @ \ {p}, !.ok = FALSE])
      PROVE  Stamped' /\ Later
  <2> DEFINE job == [jobs[d][s] EXCEPT !.doomed = @ \ {p}, !.ok = FALSE]
  <2>1. /\ job \in JobT /\ job.pc = "pair" /\ job.doomed \subseteq jobs[d][s].doomed
        /\ job.at = jobs[d][s].at /\ job.held = jobs[d][s].held /\ Becomes(d, s, job)
    BY <1>1, <1>4 DEF JobT
  <2> HIDE DEF job
  <2>2. job.pc \in DeletingPcs \ {"read"}
    BY <2>1 DEF DeletingPcs
  <2>3. QED
    BY <1>1, <2>1, <2>2, DeletingStamps
<1>5. QED
  BY <1>2, <1>3, <1>4 DEF DropPairing

\* The records that go leave the times alone.
LEMMA ForgetStamps ==
    ASSUME GoneInv, Stamped, GoneInv', NEW d \in Linked, NEW s \in Slots[d],
           ForgetPeer(d, s) \/ ForgetPerson(d, s)
    PROVE  Stamped' /\ Later
<1>1. /\ jobs[d][s] \in JobT /\ UNCHANGED <<applied, clock, deletes, tomb>>
      /\ jobs[d][s].pc \in {"forget", "person"}
  BY Here DEF ForgetPeer, ForgetPerson, counts
<1>2. PICK job : /\ Becomes(d, s, job)
                 /\ \/ job = [jobs[d][s] EXCEPT !.pc = "pair", !.cur = 0]
                    \/ job = [jobs[d][s] EXCEPT !.pc = "finish"]
  BY DEF ForgetPeer, ForgetPerson, Moves
<1>3. /\ job \in JobT /\ job.pc \in {"pair", "finish"} /\ job.doomed = jobs[d][s].doomed
      /\ job.at = jobs[d][s].at /\ job.held = jobs[d][s].held
  <2>1. CASE job = [jobs[d][s] EXCEPT !.pc = "pair", !.cur = 0]
    BY <1>1, <2>1 DEF JobT, Pcs, DeletingPcs
  <2>2. CASE job = [jobs[d][s] EXCEPT !.pc = "finish"]
    BY <1>1, <2>2 DEF JobT, Pcs, DeletingPcs
  <2>3. QED
    BY <1>2, <2>1, <2>2
<1>4. /\ jobs[d][s].pc \in DeletingPcs /\ job.pc \in DeletingPcs \ {"read"} /\ job.pc # "forget"
      /\ jobs[d][s].pc # "read"
  BY <1>1, <1>3 DEF DeletingPcs
<1>5. QED
  BY <1>1, <1>2, <1>3, <1>4, DeletingStamps

\* What a finished delete pushes is not newer than the latest delete.
LEMMA FinishStamps ==
    ASSUME GoneInv, Stamped, GoneInv', NEW d \in Linked, NEW s \in Slots[d], Finish(d, s)
    PROVE  Stamped' /\ Later
<1> DEFINE job == jobs[d][s]
           t == IF job.ok THEN MarkDeleteDone(tomb[d], job.held.at) ELSE tomb[d]
           o == Other(d)
<1>1. /\ StoreTypes /\ StoreTypes' /\ jobs[d][s] \in JobT /\ tomb[d] \in TombT /\ AtWork(d, s)
      /\ jobs[d][s].pc = "finish" /\ UNCHANGED <<applied, clock, deletes>>
      /\ tomb' = [tomb EXCEPT ![d] = t]
  BY Here DEF Finish, GoneInv, Base
<1>2. t.at = tomb[d].at /\ t.applied = tomb[d].applied
  <2>1. CASE job.ok
    BY <1>1, <2>1, DoneTomb
  <2>2. QED
    BY <2>1
<1> HIDE DEF t
<1>3. \A e \in Linked : tomb'[e].at = tomb[e].at /\ tomb'[e].applied = tomb[e].applied
  BY <1>1, <1>2 DEF StoreTypes
<1>4. /\ jobs'[d][s] = AfterDelete(job) /\ (\A r \in Slots[d] : r # s => jobs'[d][r] = jobs[d][r])
      /\ \A e \in Linked : e \notin {d, o} => jobs'[e] = jobs[e]
      /\ \/ jobs'[o] = jobs[o]
         \/ \E r \in Slots[o] : /\ jobs[o][r].pc = "idle" /\ jobs'[o][r] = PushOf(job)
                                /\ \A q \in Slots[o] : q # r => jobs'[o][q] = jobs[o][q]
  BY FinishJobs
<1>5. Latest' = Latest /\ Latest \in Nat
  BY <1>1, InStamps DEF Latest
<1>6. PushOf(job).pc = "mark" /\ PushOf(job).at <= Latest
  <2>1. job.held.at <= tomb[d].at /\ tomb[d].at <= Latest /\ tomb[d].at \in Nat /\ job.held.at \in Nat
    BY <1>1 DEF AtWork, DeletingPcs, Stamped, StampedTomb, JobT, TombT
  <2>2. QED
    BY <1>1, <1>5, <2>1, Pushed
<1>7. AfterDelete(job).pc \in {"idle", "contact"} /\ AfterDelete(job).at = 0
  BY <1>1, AfterDeletes, Values DEF AfterDelete, JobT
<1>8. o \in Linked /\ o # d
  BY Others
<1>9. ASSUME NEW e \in Linked, NEW r \in Slots[e]
      PROVE  \/ jobs'[e][r] = jobs[e][r]
             \/ jobs'[e][r].pc \in {"idle", "mark", "contact"} /\ jobs'[e][r].at <= Latest
  <2>1. CASE e = d
    <3>1. CASE r = s
      BY <1>4, <1>5, <1>7, <2>1, <3>1
    <3>2. CASE r # s
      BY <1>4, <2>1, <3>2
    <3>3. QED
      BY <3>1, <3>2
  <2>2. CASE e = o
    BY <1>4, <1>6, <2>2
  <2>3. CASE e \notin {d, o}
    BY <1>4, <2>3
  <2>4. QED
    BY <2>1, <2>2, <2>3
<1>10. ASSUME NEW e \in Linked, NEW r \in Slots[e] PROVE jobs'[e][r] = jobs[e][r] \/ StampedJob(e, r)'
  BY <1>5, <1>9 DEF StampedJob, DeletingPcs
<1>11. clock <= clock' /\ clock' <= MaxClock /\ deletes <= deletes' /\ deletes' <= MaxDeletes
  BY <1>1 DEF Stamped, StoreTypes
<1>12. Stamped'
  BY <1>1, <1>3, <1>10, <1>11, StampsStay
<1>13. Later
  BY <1>9 DEF Later, LaterAt
<1>14. QED
  BY <1>12, <1>13

\* A delete is noted when it is first applied.
LEMMA NewStamp ==
    ASSUME GoneInv, Stamped, GoneInv', NEW d \in Linked, NEW s \in Slots[d], SlotOnly(d, s),
           NEW at \in Nat \ {0}, Remember(d, at), clock' = clock, deletes <= deletes',
           deletes' <= MaxDeletes, at <= Latest',
           \A e \in Linked : e # d => tomb'[e] = tomb[e],
           \/ at <= tomb[d].at /\ tomb'[d] = tomb[d]
           \/ at > tomb[d].at /\ tomb'[d].at = at /\ tomb'[d].applied = Now(d),
           \/ jobs'[d][s].pc = "read" /\ jobs'[d][s].held = tomb'[d] /\ tomb'[d].at > 0
           \/ jobs'[d][s].pc \in {"idle", "contact"},
           jobs'[d][s].at <= Latest, jobs[d][s].pc # "pair"
    PROVE  Stamped' /\ Later
<1>1. /\ StoreTypes /\ StoreTypes' /\ Now(d) \in Nat /\ Now(d) >= 1 /\ tomb[d] \in TombT
      /\ applied \in [Linked -> [DeleteTimes -> Nat]] /\ Store(d) /\ StampedTomb(d)
      /\ \A t \in Slots[d] : AtWork(d, t) /\ jobs[d][t] \in JobT
  BY Facts DEF GoneInv, Base, Stamped
<1>2. /\ clock \in Nat /\ deletes \in Nat /\ deletes' \in Nat /\ clock <= MaxClock
      /\ tomb[d].at \in Nat /\ tomb[d].applied \in Nat
  BY <1>1 DEF StoreTypes, Stamped, TombT
<1>3. Latest <= Latest' /\ Latest \in Nat /\ Latest' \in Nat
  BY <1>1, <1>2, LatestGrows
<1>4. Latest' <= MaxDeleteTime /\ MaxDeleteTime \in Nat
  <2>1. MaxDeleteTime = MaxClock + MaxSkew + MaxDeletes
    BY DEF MaxDeleteTime, MaxSkew
  <2>2. QED
    BY <1>2, <2>1, Skews, ClocksPositive DEF Latest
<1>5. at \in DeleteTimes
  BY <1>3, <1>4 DEF DeleteTimes
<1>6. /\ applied' \in [Linked -> [DeleteTimes -> Nat]]
      /\ \A e \in Linked : e # d => applied'[e] = applied[e]
      /\ \A a \in DeleteTimes : a # at => applied'[d][a] = applied[d][a]
      /\ applied'[d][at] = IF applied[d][at] = 0 THEN Now(d) ELSE applied[d][at]
  BY <1>1, <1>5 DEF Remember
<1>7. \A a \in DeleteTimes : applied[d][a] > 0 => applied'[d][a] = applied[d][a]
  BY <1>1, <1>6
<1>8. StampedTomb(d)'
  <2>1. CASE at <= tomb[d].at /\ tomb'[d] = tomb[d]
    <3>1. tomb[d].at \in DeleteTimes /\ applied[d][tomb[d].at] = tomb[d].applied /\ tomb[d].applied > 0
      BY <1>1, <1>2, <2>1, InStamps DEF StampedTomb, Store
    <3>2. \A a \in DeleteTimes : a > tomb[d].at => applied'[d][a] = 0
      BY <1>1, <1>2, <1>6, <2>1 DEF StampedTomb, DeleteTimes
    <3>3. QED
      BY <1>1, <1>2, <1>3, <1>7, <2>1, <3>1, <3>2 DEF StampedTomb
  <2>2. CASE at > tomb[d].at /\ tomb'[d].at = at /\ tomb'[d].applied = Now(d)
    <3>1. applied[d][at] = 0
      BY <1>1, <1>5, <2>2 DEF StampedTomb
    <3>2. \A a \in DeleteTimes : a > at => applied'[d][a] = 0
      BY <1>1, <1>2, <1>6, <2>2 DEF StampedTomb, DeleteTimes
    <3>3. QED
      BY <1>6, <2>2, <3>1, <3>2 DEF StampedTomb
  <2>3. QED
    BY <2>1, <2>2
<1>9. StampedJob(d, s)'
  <2>1. jobs'[d][s].at \in Nat
    BY <1>1, FactsNext DEF JobT
  <2>2. jobs'[d][s].at <= Latest'
    BY <1>3, <2>1
  <2>3. tomb'[d].at > 0 => tomb'[d].applied > 0
    BY DEF GoneInv, Base, Store
  <2>4. QED
    BY <1>8, <2>2, <2>3 DEF StampedJob, StampedTomb, DeletingPcs
<1>10. ASSUME NEW t \in Slots[d], t # s PROVE StampedJob(d, t)'
  <2>1. jobs'[d][t] = jobs[d][t] /\ StampedJob(d, t) /\ jobs[d][t].at \in Nat
    BY <1>1, <1>10 DEF SlotOnly, Stamped, JobT
  <2>2. jobs[d][t].pc \in DeletingPcs => jobs[d][t].held.at \in DeleteTimes
    <3>1. jobs[d][t].held.at \in Nat
      BY <1>1 DEF JobT, TombT
    <3>2. jobs[d][t].pc \in DeletingPcs => jobs[d][t].held.at > 0 /\ jobs[d][t].held.at <= tomb[d].at
      BY <1>1 DEF AtWork
    <3>3. tomb[d].at <= Latest
      BY <1>1 DEF StampedTomb
    <3>4. QED
      BY <1>1, <1>2, <1>3, <3>1, <3>2, <3>3, InStamps
  <2>3. QED
    BY <1>3, <1>7, <2>1, <2>2 DEF StampedJob
<1>11. ASSUME NEW e \in Linked, e # d PROVE StampedTomb(e)' /\ \A t \in Slots[e] : StampedJob(e, t)'
  <2>1. tomb[e].at \in Nat /\ StampedTomb(e) /\ \A t \in Slots[e] : StampedJob(e, t) /\ jobs[e][t].at \in Nat
    BY <1>1, Facts DEF Stamped, JobT, TombT
  <2>2. applied'[e] = applied[e] /\ tomb'[e] = tomb[e] /\ jobs'[e] = jobs[e]
    BY <1>6, <1>11 DEF SlotOnly
  <2>3. StampedTomb(e)'
    BY <1>3, <2>1, <2>2 DEF StampedTomb
  <2>4. ASSUME NEW t \in Slots[e] PROVE StampedJob(e, t)'
    BY <1>3, <2>1, <2>2 DEF StampedJob
  <2>5. QED
    BY <2>3, <2>4
<1>12. Stamped'
  BY <1>2, <1>6, <1>8, <1>9, <1>10, <1>11 DEF Stamped
<1>13. ASSUME NEW e \in Linked, NEW t \in Slots[e] PROVE LaterAt(e, t)
  <2>1. CASE e = d /\ t = s
    BY <2>1 DEF LaterAt
  <2>2. CASE e # d \/ t # s
    <3>1. jobs'[e][t] = jobs[e][t]
      BY <2>2 DEF SlotOnly
    <3>2. QED
      BY <3>1 DEF LaterAt
  <2>3. QED
    BY <2>1, <2>2
<1>14. QED
  BY <1>12, <1>13 DEF Later

\* A delete from the sibling is first applied, or comes round again with its times.
LEMMA ApplyMarkStamps ==
    ASSUME GoneInv, Stamped, GoneInv', NEW d \in Linked, NEW s \in Slots[d], ApplyMark(d, s)
    PROVE  Stamped' /\ Later
<1> DEFINE at == jobs[d][s].at
           held == MarkDeleted(tomb[d], at, Now(d))
           job == IF AlreadyApplied(tomb[d], at) THEN AfterDelete(jobs[d][s])
                  ELSE [jobs[d][s] EXCEPT !.pc = "read", !.held = held, !.at = 0]
<1>1. /\ StoreTypes /\ StoreTypes' /\ AtWork(d, s) /\ jobs[d][s] \in JobT
      /\ tomb[d] \in TombT /\ Now(d) \in Nat /\ StampedJob(d, s)
      /\ jobs[d][s].pc = "mark" /\ UNCHANGED <<clock, deletes>> /\ Remember(d, at)
      /\ tomb' = [tomb EXCEPT ![d] = held] /\ Becomes(d, s, job)
  BY Here DEF ApplyMark, counts, GoneInv, Base, Stamped
<1>2. at \in Nat \ {0} /\ at <= Latest /\ tomb[d].at \in Nat
  BY <1>1 DEF JobT, AtWork, StampedJob, TombT
<1>3. /\ held \in TombT
      /\ \/ tomb[d].at >= at /\ held = tomb[d]
         \/ at > tomb[d].at /\ held.at = at /\ held.applied = Now(d) /\ ~held.done
  BY <1>1, <1>2, Marks
<1> HIDE DEF held
<1>4. /\ job \in JobT /\ job.at = 0
      /\ job.pc \in {"idle", "contact"} \/ (job.pc = "read" /\ job.held = held)
  <2>1. CASE AlreadyApplied(tomb[d], at)
    BY <1>1, <2>1, AfterDeletes, Values DEF AfterDelete, JobT
  <2>2. CASE ~AlreadyApplied(tomb[d], at)
    BY <1>1, <1>3, <2>2 DEF JobT, Pcs, DeletingPcs
  <2>3. QED
    BY <2>1, <2>2
<1> HIDE DEF job
<1>5. SlotOnly(d, s) /\ jobs'[d][s] = job
  BY <1>1, <1>4, SlotChanges
<1>6. tomb'[d] = held /\ (\A e \in Linked : e # d => tomb'[e] = tomb[e])
  BY <1>1 DEF StoreTypes
<1>7. /\ Latest' = Latest /\ Latest \in Nat /\ deletes <= deletes' /\ deletes' <= MaxDeletes
  BY <1>1, InStamps DEF Latest, Stamped, StoreTypes
<1>8. \/ at <= tomb[d].at /\ tomb'[d] = tomb[d]
      \/ at > tomb[d].at /\ tomb'[d].at = at /\ tomb'[d].applied = Now(d)
  BY <1>2, <1>3, <1>6
<1>9. tomb'[d].at > 0
  BY <1>2, <1>8
<1>10. jobs'[d][s].at <= Latest /\ at <= Latest' /\ jobs[d][s].pc # "pair" /\ clock' = clock
  BY <1>1, <1>2, <1>4, <1>5, <1>7
<1> HIDE DEF at
<1>11. QED
  BY <1>1, <1>2, <1>4, <1>5, <1>6, <1>7, <1>8, <1>9, <1>10, NewStamp

\* The operator's delete carries a time newer than any held here.
LEMMA DeletePersonStamps ==
    ASSUME GoneInv, Stamped, GoneInv', NEW d \in Linked, NEW p, DeletePerson(d, p)
    PROVE  Stamped' /\ Later
<1> DEFINE at == IF tomb[d].at >= Now(d) THEN tomb[d].at + 1 ELSE Now(d)
           held == MarkDeleted(tomb[d], at, Now(d))
           job == [Idle EXCEPT !.pc = "read", !.src = "operator", !.held = held]
<1>1. /\ StoreTypes /\ StoreTypes' /\ tomb[d] \in TombT /\ Now(d) \in Nat /\ Now(d) >= 1
      /\ clock' = clock /\ deletes < MaxDeletes /\ deletes' = deletes + 1 /\ Remember(d, at)
      /\ tomb' = [tomb EXCEPT ![d] = held] /\ Begin(jobs, d, job) /\ StampedTomb(d)
  BY Facts DEF DeletePerson, GoneInv, Base, Stamped
<1>2. tomb[d].at \in Nat /\ tomb[d].at <= Latest /\ Latest \in Nat
  BY <1>1, InStamps DEF TombT, StampedTomb
<1>3. Latest' = Latest + 1 /\ Now(d) <= Latest
  <2>1. clock \in Nat /\ deletes \in Nat /\ MaxSkew \in Nat /\ Skew[d] <= MaxSkew /\ Skew[d] \in Nat
    BY <1>1, Skews, ClocksPositive DEF StoreTypes
  <2>2. Latest = clock + MaxSkew + deletes /\ Latest' = clock + MaxSkew + (deletes + 1)
    BY <1>1 DEF Latest
  <2>3. QED
    BY <2>1, <2>2 DEF Now
<1>4. at \in Nat \ {0} /\ at > tomb[d].at /\ at <= Latest'
  BY <1>1, <1>2, <1>3
<1> HIDE DEF at
<1>5. held \in TombT /\ held.at = at /\ held.applied = Now(d)
  BY <1>1, <1>2, <1>4, Marks
<1> HIDE DEF held
<1>6. job \in JobT /\ job.pc = "read" /\ job.held = held /\ job.at = 0
  BY <1>5, Values DEF JobT, Pcs, DeletingPcs
<1> HIDE DEF job
<1>7. PICK s \in Slots[d] : jobs[d][s].pc = "idle" /\ SlotOnly(d, s) /\ jobs'[d][s] = job
  BY <1>1, <1>6, SlotBegins
<1>8. tomb'[d] = held /\ (\A e \in Linked : e # d => tomb'[e] = tomb[e])
  BY <1>1 DEF StoreTypes
<1>9. deletes <= deletes' /\ deletes' <= MaxDeletes
  BY <1>1, ClocksPositive DEF StoreTypes
<1>10. tomb'[d].at > 0 /\ jobs'[d][s].at <= Latest /\ jobs[d][s].pc # "pair"
  BY <1>2, <1>4, <1>5, <1>6, <1>7, <1>8
<1>11. QED
  BY <1>1, <1>4, <1>5, <1>6, <1>7, <1>8, <1>9, <1>10, NewStamp

\* Messages, pairings and the environment leave the deletes as they are.
LEMMA OtherStamps ==
    ASSUME GoneInv, Stamped, GoneInv', NEW d \in Linked,
           \/ SweepContacts(d) \/ ContactsPush(d) \/ PairAgain(d) \/ SweepDeadPeerRows(d)
           \/ StopFrontend(d) \/ SecondPasses
           \/ \E p : DeletePairing(d, p) \/ ReadInbox(d, p) \/ HandleEntry(d, p)
    PROVE  Stamped' /\ Later
<1>1. /\ UNCHANGED <<applied, tomb>>
      /\ \/ clock' = clock
         \/ clock' = clock + 1 /\ clock < MaxClock
      /\ \/ deletes' = deletes
         \/ deletes' = deletes + 1 /\ deletes < MaxDeletes
  BY DEF SweepContacts, ContactsPush, PairAgain, SweepDeadPeerRows, StopFrontend, SecondPasses,
         DeletePairing, ReadInbox, HandleEntry, store, counts
<1>2. /\ StoreTypes /\ clock \in Nat /\ deletes \in Nat /\ clock <= MaxClock /\ deletes <= MaxDeletes
      /\ MaxClock \in Nat /\ MaxDeletes \in Nat
  BY ClocksPositive DEF GoneInv, Base, StoreTypes, Stamped
<1>3. clock <= clock' /\ clock' <= MaxClock /\ deletes <= deletes' /\ deletes' <= MaxDeletes
  BY <1>1, <1>2
<1>4. Latest \in Nat
  BY <1>2, InStamps
<1>5. ASSUME NEW x \in Linked, NEW job \in JobT, Begin(jobs, x, job),
             job.pc \in {"mark", "contact"}, job.at <= Latest
      PROVE  \A e \in Linked : \A t \in Slots[e] :
                \/ jobs'[e][t] = jobs[e][t]
                \/ jobs'[e][t].pc \in {"idle", "mark", "contact"} /\ jobs'[e][t].at <= Latest
  <2>1. PICK s \in Slots[x] : SlotOnly(x, s) /\ jobs'[x][s] = job
    BY <1>2, <1>5, SlotBegins
  <2>2. QED
    BY <1>5, <2>1 DEF SlotOnly
<1>6. ASSUME NEW e \in Linked, NEW t \in Slots[e]
      PROVE  \/ jobs'[e][t] = jobs[e][t]
             \/ jobs'[e][t].pc \in {"idle", "mark", "contact"} /\ jobs'[e][t].at <= Latest
  <2>1. CASE SweepContacts(d)
    <3> DEFINE o == Other(d)
               job == [Idle EXCEPT !.pc = IF tomb[o].at > 0 THEN "mark" ELSE "contact",
                                   !.src = "sweep", !.at = tomb[o].at, !.seen = Described(o)]
    <3>1. o \in Linked /\ Base /\ StampedTomb(o)
      BY Others DEF GoneInv, Base, Stamped
    <3>2. tomb[o].at \in Nat /\ tomb[o].at <= Latest /\ Described(o) \in Int
      BY <1>2, <3>1, Facts, Describes DEF TombT, StampedTomb
    <3>3. job \in JobT /\ job.pc \in {"mark", "contact"} /\ job.at = tomb[o].at
      BY <3>2, Values DEF JobT, Pcs
    <3>4. Begin(jobs, d, job)
      BY <2>1 DEF SweepContacts
    <3> HIDE DEF job
    <3>5. QED
      BY <1>5, <3>2, <3>3, <3>4
  <2>2. CASE ContactsPush(d)
    <3> DEFINE job == [Idle EXCEPT !.pc = "contact", !.src = "push", !.seen = Described(d),
                                   !.offered = chat[d].held]
    <3>1. Other(d) \in Linked /\ Base
      BY Others DEF GoneInv
    <3>2. chat[d].held \in BOOLEAN /\ Described(d) \in Int
      BY <1>2, <3>1, Facts, Describes DEF ChatT
    <3>3. job \in JobT /\ job.pc = "contact" /\ job.at = 0
      BY <3>2, Values DEF JobT, Pcs
    <3>4. Begin(jobs, Other(d), job)
      BY <2>2 DEF ContactsPush
    <3> HIDE DEF job
    <3>5. QED
      BY <1>4, <1>5, <3>1, <3>3, <3>4
  <2>3. CASE StopFrontend(d)
    <3>1. jobs' = [jobs EXCEPT ![d] = [s \in Slots[d] |-> Idle]]
      BY <2>3 DEF StopFrontend
    <3>2. e # d => jobs'[e] = jobs[e]
      BY <1>2, <3>1 DEF StoreTypes, JobsT
    <3>3. e = d => jobs'[e][t] = Idle
      BY <1>2, <3>1 DEF StoreTypes, JobsT
    <3>4. QED
      BY <1>4, <3>2, <3>3, Values
  <2>4. CASE \/ PairAgain(d) \/ SweepDeadPeerRows(d) \/ SecondPasses
             \/ \E p : DeletePairing(d, p) \/ ReadInbox(d, p) \/ HandleEntry(d, p)
    BY <2>4 DEF PairAgain, SweepDeadPeerRows, SecondPasses, DeletePairing, ReadInbox, HandleEntry
  <2>5. QED
    BY <2>1, <2>2, <2>3, <2>4
<1>7. QED
  BY <1>1, <1>3, <1>6, StampQuiet

\* The times agree at the start.
LEMMA StampedInit == DeleteInit => Stamped
<1> SUFFICES ASSUME DeleteInit PROVE Stamped
  OBVIOUS
<1>1. /\ clock = 1 /\ deletes = 0 /\ applied = [d \in Linked |-> [a \in DeleteTimes |-> 0]]
      /\ tomb = [d \in Linked |-> NoTomb] /\ jobs = [d \in Linked |-> [s \in Slots[d] |-> Idle]]
  BY DEF DeleteInit
<1>2. Latest \in Nat
  BY <1>1, Skews DEF Latest
<1>3. clock <= MaxClock /\ deletes <= MaxDeletes
  BY <1>1, ClocksPositive
<1>4. ASSUME NEW d \in Linked PROVE StampedTomb(d)
  BY <1>1, <1>2, Values DEF StampedTomb
<1>5. ASSUME NEW d \in Linked, NEW s \in Slots[d] PROVE StampedJob(d, s)
  BY <1>1, <1>2, Values DEF StampedJob, DeletingPcs
<1>6. QED
  BY <1>1, <1>3, <1>4, <1>5 DEF Stamped

\* Every step keeps them, and takes no pairing it should leave.
LEMMA StampedNext == GoneInv /\ GoneInv' /\ Stamped /\ [DeleteNext]_deleteVars => Stamped' /\ Later
<1> SUFFICES ASSUME GoneInv, GoneInv', Stamped, [DeleteNext]_deleteVars PROVE Stamped' /\ Later
  OBVIOUS
<1>1. CASE UNCHANGED deleteVars
  <2>1. /\ clock <= clock' /\ clock' <= MaxClock /\ deletes <= deletes' /\ deletes' <= MaxDeletes
    BY <1>1 DEF deleteVars, GoneInv, Base, StoreTypes, Stamped
  <2>2. QED
    BY <1>1, <2>1, StampQuiet DEF deleteVars
<1>2. CASE SecondPasses
  <2>1. PICK d \in Linked : TRUE
    BY TwoDevices
  <2>2. QED
    BY <1>2, <2>1, OtherStamps
<1>3. ASSUME NEW d \in Linked, JobStep(d) PROVE Stamped' /\ Later
  <2>1. PICK s \in Slots[d] :
          \/ ApplyMark(d, s) \/ ReadPairings(d, s) \/ DropChat(d, s) \/ DropChatFails(d, s)
          \/ DropPairing(d, s)
          \/ ForgetPeer(d, s) \/ ForgetPerson(d, s) \/ Finish(d, s)
          \/ CheckContact(d, s) \/ MergePerson(d, s) \/ ReadChats(d, s) \/ CheckChat(d, s)
          \/ AdoptChat(d, s)
    BY <1>3 DEF JobStep
  <2>2. QED
    BY <2>1, ApplyMarkStamps, ReadPairingsStamps, DropChatStamps, DropChatFailsStamps, DropPairingStamps, ForgetStamps,
       FinishStamps, OtherHandlerStamps
<1>4. ASSUME NEW d \in Linked,
             \/ SweepContacts(d) \/ ContactsPush(d) \/ PairAgain(d) \/ SweepDeadPeerRows(d) \/ StopFrontend(d)
      PROVE  Stamped' /\ Later
  BY <1>4, OtherStamps
<1>5. ASSUME NEW d \in Linked, NEW p,
             DeletePairing(d, p) \/ DeletePerson(d, p) \/ ReadInbox(d, p) \/ HandleEntry(d, p)
      PROVE  Stamped' /\ Later
  BY <1>5, OtherStamps, DeletePersonStamps
<1>6. QED
  BY <1>1, <1>2, <1>3, <1>4, <1>5 DEF DeleteNext

\* deletePerson takes no pairing made after its delete was first applied on this
\* device by this device's clock (Tombstone.Bound), however often the delete comes
\* round, fails and is retried, and however far the sender's clock is ahead.
THEOREM DeleteLaterPairingStays == DeleteSpec => LaterPairingStays
<1>1. DeleteInit => GoneInv /\ Mailed /\ Stamped
  BY GoneInit, StampedInit
<1>2. GoneInv /\ Mailed /\ Stamped /\ [DeleteNext]_deleteVars =>
         GoneInv' /\ Mailed' /\ Stamped' /\ Later
  BY GoneNext, MailStays, StampedNext
<1>3. Later => \A d \in Linked : \A s \in Slots[d] :
                  jobs[d][s].pc = "pair" /\ jobs'[d][s].pc = "forget" =>
                      \A p \in live[d] \ live'[d] : p <= applied[d][jobs[d][s].held.at]
  BY DEF Later, LaterAt
<1>4. QED
  BY <1>1, <1>2, <1>3, PTL DEF DeleteSpec, LaterPairingStays

=============================================================================
