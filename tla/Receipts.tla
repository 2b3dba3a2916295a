------------------------------ MODULE Receipts ------------------------------
(***************************************************************************)
(* The read receipt of one received message that every device of the user  *)
(* holds.                                                                  *)
(*                                                                         *)
(* Opening the chat marks the message read and, while no receipt is on     *)
(* record, ships one: the envelope is handed to the backend, the row is    *)
(* stamped as acknowledged, and the envelope is noted so that its failure  *)
(* can take the stamp back.  The device that stamped the row first-hand    *)
(* tells the others, so that only one of them answers the contact; a stamp *)
(* taken back raises the row's generation, which outdates every claim made *)
(* before.                                                                 *)
(***************************************************************************)
EXTENDS Integers, FiniteSets

CONSTANTS Devices,        \* the user's devices
          Handlers,       \* requests of one device that may ship concurrently
          MaxEnvelopes,   \* bound: receipt envelopes sent in all
          MaxTime,        \* bound: seconds on the clock
          MaxMishaps,    \* bound: restarts of a frontend and failed writes in all
          MaxToggles      \* bound: changes of the setting in all

ASSUME ConstantsAssumption ==
    /\ IsFiniteSet(Devices) /\ Devices # {} /\ IsFiniteSet(Handlers)
    /\ MaxEnvelopes \in Nat /\ MaxTime \in Nat \ {0}
    /\ MaxMishaps \in Nat /\ MaxToggles \in Nat

Envelopes == 1 .. MaxEnvelopes
Suppressed == -1    \* ReadReceiptSuppressedSentinel: a stamp no clock shows

VARIABLES stamp,      \* ReadReceiptSentAt of the row, 0: none
          origin,     \* ReceiptClaimOrigin
          gen,        \* ReceiptClaimGeneration
          records,    \* per device, <<envelope, stamp>> of receipts on their way
          disabled,   \* DisableReadReceipts of the chat, per device
          turnedOff,  \* devices that stored the setting and have yet to suppress
          ship,       \* per device and handler: its step, envelope and stamp
          out,        \* the envelopes handed to the outbox, and their states
          owner,      \* the device that handed an envelope over
          reports,    \* outcomes on the event streams
          claims,     \* claims on their way to another device
          now, mishaps, toggles,
          cut         \* history: an envelope was stamped and never noted

receiptsVars == <<stamp, origin, gen, records, disabled, turnedOff, ship, out, owner, reports,
                  claims, now, mishaps, toggles, cut>>

idle == [pc |-> "idle", env |-> 0, at |-> 0]

ReceiptsInit ==
    /\ stamp = [d \in Devices |-> 0] /\ origin = [d \in Devices |-> FALSE]
    /\ gen = [d \in Devices |-> 0] /\ records = [d \in Devices |-> {}]
    /\ disabled = [d \in Devices |-> FALSE] /\ turnedOff = {}
    /\ ship = [d \in Devices |-> [h \in Handlers |-> idle]]
    /\ out = [e \in Envelopes |-> "none"] /\ owner = [e \in Envelopes |-> "none"]
    /\ reports = {} /\ claims = {}
    /\ now = 1 /\ mishaps = 0 /\ toggles = 0 /\ cut = FALSE

(***************************************************************************)
(* Shipping.                                                               *)
(***************************************************************************)
\* MarkRead finds the row without a stamp and hands it to shipReadReceipt,
\* which looks at the setting and takes the time.
MarkRead(d, h) ==
    /\ ship[d][h].pc = "idle" /\ stamp[d] = 0
    /\ IF disabled[d]
         THEN /\ stamp' = [stamp EXCEPT ![d] = Suppressed]
              /\ origin' = [origin EXCEPT ![d] = FALSE] /\ ship' = ship
         ELSE /\ ship' = [ship EXCEPT ![d][h] = [pc |-> "send", env |-> 0, at |-> now]]
              /\ UNCHANGED <<stamp, origin>>
    /\ UNCHANGED <<gen, records, disabled, turnedOff, out, owner, reports, claims, now,
                   mishaps, toggles, cut>>

\* The backend takes the envelope, or the request fails and the row stays
\* pending for the next MarkRead.
Send(d, h) ==
    /\ ship[d][h].pc = "send"
    /\ \/ \E e \in Envelopes :
            /\ out[e] = "none" /\ \A f \in 1 .. e - 1 : out[f] # "none"
            /\ out' = [out EXCEPT ![e] = "queued"] /\ owner' = [owner EXCEPT ![e] = d]
            /\ ship' = [ship EXCEPT ![d][h] = [@ EXCEPT !.pc = "stamp", !.env = e]]
       \/ ship' = [ship EXCEPT ![d][h] = idle] /\ UNCHANGED <<out, owner>>
    /\ UNCHANGED <<stamp, origin, gen, records, disabled, turnedOff, reports, claims, now,
                   mishaps, toggles, cut>>

\* The first stamp wins.
MarkReadReceiptSent(d, h) ==
    /\ ship[d][h].pc = "stamp"
    /\ ship' = [ship EXCEPT ![d][h].pc = "record"]
    /\ IF stamp[d] # 0 THEN UNCHANGED <<stamp, origin>>
       ELSE /\ stamp' = [stamp EXCEPT ![d] = ship[d][h].at]
            /\ origin' = [origin EXCEPT ![d] = TRUE]
    /\ UNCHANGED <<gen, records, disabled, turnedOff, out, owner, reports, claims, now,
                   mishaps, toggles, cut>>

\* The write may fail: the receipt is out and the row is still pending.
StampFails(d, h) ==
    /\ ship[d][h].pc = "stamp"
    /\ mishaps < MaxMishaps /\ mishaps' = mishaps + 1
    /\ ship' = [ship EXCEPT ![d][h].pc = "record"]
    /\ UNCHANGED <<stamp, origin, gen, records, disabled, turnedOff, out, owner,
                   reports, claims, now, toggles, cut>>

RecordReceiptEnvelope(d, h) ==
    /\ ship[d][h].pc = "record"
    /\ records' = [records EXCEPT ![d] = @ \cup {<<ship[d][h].env, ship[d][h].at>>}]
    /\ ship' = [ship EXCEPT ![d][h] = idle]
    /\ UNCHANGED <<stamp, origin, gen, disabled, turnedOff, out, owner, reports, claims, now,
                   mishaps, toggles, cut>>

\* Or the envelope is not noted, and its failure will go unnoticed.
RecordFails(d, h) ==
    /\ ship[d][h].pc = "record"
    /\ ship' = [ship EXCEPT ![d][h] = idle]
    /\ mishaps < MaxMishaps /\ mishaps' = mishaps + 1
    /\ cut' = TRUE
    /\ UNCHANGED <<stamp, origin, gen, records, disabled, turnedOff, out, owner,
                   reports, claims, now, toggles>>

(***************************************************************************)
(* Outcomes.  A report comes over the event stream, once, if at all; the   *)
(* pass of a new connection asks for every envelope still on record.       *)
(***************************************************************************)
Settle(e, s) ==
    /\ out[e] = "queued"
    /\ out' = [out EXCEPT ![e] = s]
    /\ \/ reports' = reports \cup {e}
       \/ reports' = reports
    /\ UNCHANGED <<stamp, origin, gen, records, disabled, turnedOff, ship, owner, claims, now,
                   mishaps, toggles, cut>>

\* A failure takes back the stamp it made, and only that one.
ClearAnyReceipt(d, r) ==
    /\ records' = [records EXCEPT ![d] = @ \ {r}]
    /\ stamp' = [stamp EXCEPT ![d] = 0] /\ origin' = [origin EXCEPT ![d] = FALSE]
    /\ gen' = [gen EXCEPT ![d] = @ + 1]

ClearSameGeneration(d, r) ==
    /\ records' = [records EXCEPT ![d] = @ \ {r}]
    /\ IF stamp[d] # r[2] THEN UNCHANGED <<stamp, origin>>
       ELSE /\ stamp' = [stamp EXCEPT ![d] = 0]
            /\ origin' = [origin EXCEPT ![d] = FALSE]
    /\ gen' = gen

ClearReceiptEnvelope(d, r) ==
    /\ records' = [records EXCEPT ![d] = @ \ {r}]
    /\ IF stamp[d] # r[2] THEN UNCHANGED <<stamp, origin, gen>>
       ELSE /\ stamp' = [stamp EXCEPT ![d] = 0]
            /\ origin' = [origin EXCEPT ![d] = FALSE]
            /\ gen' = [gen EXCEPT ![d] = @ + 1]

applyReceiptOutcome(d, e) ==
    \/ /\ \A r \in records[d] : r[1] # e
       /\ UNCHANGED <<records, stamp, origin, gen>>
    \/ \E r \in records[d] :
         /\ r[1] = e
         /\ IF out[e] = "failed" THEN ClearReceiptEnvelope(d, r)
            ELSE /\ records' = [records EXCEPT ![d] = @ \ {r}]
                 /\ UNCHANGED <<stamp, origin, gen>>

OnDelivery(e) ==
    /\ e \in reports
    /\ reports' = reports \ {e}
    /\ applyReceiptOutcome(owner[e], e)
    /\ UNCHANGED <<disabled, turnedOff, ship, out, owner, claims, now, mishaps, toggles, cut>>

\* The outbox has collected the row, whichever its outcome was (any settled
\* row may be gone by the time it is asked for): the stamp is taken back.
EntryNotFound(d, e) == \E r \in records[d] : r[1] = e /\ ClearReceiptEnvelope(d, r)

reconcileReceiptEnvelopes(d, e) ==
    /\ \E r \in records[d] : r[1] = e
    /\ out[e] \in {"sent", "failed"}
    /\ applyReceiptOutcome(d, e) \/ EntryNotFound(d, e)
    /\ UNCHANGED <<disabled, turnedOff, ship, out, owner, reports, claims, now, mishaps,
                   toggles, cut>>

(***************************************************************************)
(* Between the devices: only a first-hand stamp is told, with its          *)
(* generation, and a pending row takes it unless its generation is newer.  *)
(***************************************************************************)
Snapshot(d) ==
    /\ origin[d] /\ stamp[d] \notin {0, Suppressed}
    /\ \E t \in Devices \ {d} : claims' = claims \cup {<<t, stamp[d], gen[d]>>}
    /\ claims' # claims
    /\ UNCHANGED <<stamp, origin, gen, records, disabled, turnedOff, ship, out, owner, reports,
                   now, mishaps, toggles, cut>>

ApplyReceiptSentClaim(c) ==
    LET d == c[1] IN
    /\ claims' = claims \ {c}
    /\ IF stamp[d] # 0 \/ c[3] < gen[d] THEN UNCHANGED <<stamp, origin, gen>>
       ELSE /\ stamp' = [stamp EXCEPT ![d] = c[2]]
            /\ origin' = [origin EXCEPT ![d] = FALSE]
            /\ gen' = [gen EXCEPT ![d] = c[3]]
    /\ UNCHANGED <<records, disabled, turnedOff, ship, out, owner, reports, now, mishaps,
                   toggles, cut>>

(***************************************************************************)
(* The setting, the clock and restarts.                                    *)
(***************************************************************************)
\* The setting is stored first; turning receipts off then stamps what is
\* pending, unless the write fails; turning them on stamps nothing.
SetDisableReadReceipts(d) ==
    /\ toggles < MaxToggles /\ toggles' = toggles + 1
    /\ disabled' = [disabled EXCEPT ![d] = ~@]
    /\ turnedOff' = IF disabled[d] THEN turnedOff ELSE turnedOff \cup {d}
    /\ UNCHANGED <<stamp, origin, gen, records, ship, out, owner, reports, claims,
                   now, mishaps, cut>>

SuppressPendingReadReceipts(d) ==
    /\ d \in turnedOff /\ turnedOff' = turnedOff \ {d}
    /\ \/ stamp' = IF stamp[d] = 0 THEN [stamp EXCEPT ![d] = Suppressed] ELSE stamp
       \/ stamp' = stamp
    /\ UNCHANGED <<origin, gen, records, disabled, ship, out, owner, reports, claims,
                   now, mishaps, toggles, cut>>

Tick == /\ now < MaxTime /\ now' = now + 1
        /\ UNCHANGED <<stamp, origin, gen, records, disabled, turnedOff, ship, out, owner,
                       reports, claims, mishaps, toggles, cut>>

Restart(d) ==
    /\ mishaps < MaxMishaps /\ mishaps' = mishaps + 1
    /\ ship' = [ship EXCEPT ![d] = [h \in Handlers |-> idle]]
    /\ reports' = {e \in reports : owner[e] # d}
    /\ turnedOff' = turnedOff \ {d}
    /\ cut' = (cut \/ \E h \in Handlers : ship[d][h].pc = "record")
    /\ UNCHANGED <<stamp, origin, gen, records, disabled, out, owner, claims, now,
                   toggles>>

ReceiptsNext ==
    \/ \E d \in Devices, h \in Handlers :
         \/ MarkRead(d, h) \/ Send(d, h) \/ MarkReadReceiptSent(d, h) \/ StampFails(d, h)
         \/ RecordReceiptEnvelope(d, h) \/ RecordFails(d, h)
    \/ \E d \in Devices : \/ Snapshot(d) \/ Restart(d)
                          \/ SetDisableReadReceipts(d) \/ SuppressPendingReadReceipts(d)
                          \/ \E e \in Envelopes : reconcileReceiptEnvelopes(d, e)
    \/ \E e \in Envelopes : OnDelivery(e) \/ \E s \in {"sent", "failed"} : Settle(e, s)
    \/ \E c \in claims : ApplyReceiptSentClaim(c)
    \/ Tick

ReceiptsSpec == ReceiptsInit /\ [][ReceiptsNext]_receiptsVars

-----------------------------------------------------------------------------
\* Type correctness of the row and of what is kept about its receipts: a stamp
\* the device made itself is on its clock, and only such a stamp is first-hand.
ReceiptsTypeOK ==
    /\ stamp \in [Devices -> {Suppressed} \cup 0 .. now]
    /\ \A d \in Devices : origin[d] => stamp[d] \in 1 .. now
    /\ gen \in [Devices -> 0 .. MaxEnvelopes]
    /\ records \in [Devices -> SUBSET (Envelopes \X (1 .. now))]
    /\ reports \subseteq Envelopes
    /\ claims \subseteq Devices \X (1 .. now) \X (0 .. MaxEnvelopes)

\* A receipt still under way or delivered, or one whose failure the device that
\* sent it has yet to notice.
Alive(e) ==
    \/ out[e] \in {"queued", "sent"}
    \/ /\ out[e] = "failed"
       /\ LET d == owner[e] IN
          \/ <<e, stamp[d]>> \in records[d]
          \/ \E h \in Handlers : ship[d][h].env = e /\ ship[d][h].at = stamp[d]

\* ClearReceiptEnvelope and ApplyReceiptSentClaim: the devices never all take
\* the message for acknowledged when every receipt has failed.  A claim that
\* was taken back, but is still on its way, would do that without generations.
\* (A device that stops between stamping the row and noting the envelope, or
\* fails to note it, does not notice the failure, as shipReadReceiptTo's own
\* warning says.)
ReceiptNotLost ==
    (\A d \in Devices : stamp[d] \notin {0, Suppressed}) =>
        cut \/ \E e \in Envelopes : Alive(e)

\* SuppressPendingReadReceipts: a message that was pending when receipts were
\* turned off is never acknowledged by that row again, whichever failure or
\* claim arrives later and however often the setting is changed back.
SuppressedStays ==
    [][\A d \in Devices : stamp[d] = Suppressed => stamp'[d] = Suppressed]_receiptsVars
=============================================================================
