--------------------------- MODULE DeliveryStatus ---------------------------
(***************************************************************************)
(* The delivery mark of one outgoing message, as the frontend keeps it.    *)
(*                                                                         *)
(* A message is handed to the backend once per device of the contact       *)
(* (mirror.Dispatch), and only then written to the event log with the      *)
(* identifiers of the accepted envelopes (AppendOutbound).  The backend's  *)
(* outbox settles each envelope as sent or failed on its own, reports it   *)
(* on the event stream, and the frontend folds the reports into the one    *)
(* mark of the row (UpdateDeliveryState).  A report lost on the way is     *)
(* made up for by the reconcile pass of the next connection, which lists   *)
(* the settled envelopes past a watermark.  Receipts of the reader move    *)
(* the mark too, and the user's other devices exchange snapshots of it.    *)
(***************************************************************************)
EXTENDS Integers, Sequences, FiniteSets

CONSTANTS Envelopes,    \* one per device of the contact
          IsFile,       \* the message is a file, so "delivered" receipts exist
          ScanLimit,    \* outboxScanLimit: rows in a page of the outbox list
          MaxSends,     \* bound: attempts to send an envelope, one tick of time each
          MaxConnects,  \* bound: connections of the event stream
          MaxRestarts,  \* bound: restarts of the frontend
          Faults        \* of "drop" (stream), "store" (event log), "list"

ASSUME ConstantsAssumption ==
    /\ IsFiniteSet(Envelopes) /\ IsFile \in BOOLEAN /\ ScanLimit \in Nat \ {0}
    /\ MaxSends \in Nat /\ MaxConnects \in Nat /\ MaxRestarts \in Nat
    /\ Faults \subseteq {"drop", "store", "list"}

VARIABLES out,        \* state of each envelope in the outbox; "none": not accepted
          at,         \* StateChangedAt of a settled envelope, 0 before
          began,      \* time an attempt to send the envelope began; 0: none runs
          clock,      \* the backend's clock: attempts so far
          tried,      \* envelopes the sending handler has tried to hand over
          sender,     \* the sending handler: "running", "done" or "gone"
          row,        \* DeliveryState of the row, on this device; "none": no row
          envs,       \* the row's EnvelopeIDs
          failedEnvs, \* the row's FailedEnvelopeIDs
          connects, restarts,
          connected,  \* the event stream is open
          stream,     \* reports on their way
          pass,       \* the reconcile pass
          mark,       \* the outbox reconcile watermark
          slipped,    \* history: outcomes that slipped past a pass, see Slips
          sib,        \* DeliveryState of the row on the user's other device
          snaps       \* snapshots of the row on their way between the two

vars == <<out, at, began, clock, tried, sender, row, envs, failedEnvs,
          connects, restarts, connected, stream, pass, mark, slipped, sib, snaps>>

States == {"enqueued", "sent", "delivered", "read", "failed"}
Settled == {"sent", "failed"}
Passes == {"idle", "list", "apply"}
idlePass == [pc |-> "idle", left |-> <<>>, todo |-> {}, since |-> 0,
             highest |-> 0, truncated |-> FALSE]

Init ==
    /\ out = [e \in Envelopes |-> "none"] /\ at = [e \in Envelopes |-> 0]
    /\ began = [e \in Envelopes |-> 0] /\ clock = 0 /\ tried = {} /\ sender = "running"
    /\ row = "none" /\ envs = {} /\ failedEnvs = {}
    /\ connects = 0 /\ restarts = 0 /\ connected = FALSE /\ stream = <<>>
    /\ pass = idlePass /\ mark = 0 /\ slipped = {}
    /\ sib = "none" /\ snaps = {}

(***************************************************************************)
(* Ranks.  "failed" has no rank, so nothing outranks it and it outranks    *)
(* nothing.                                                                *)
(***************************************************************************)
Rank == [s \in States \ {"failed"} |->
           CASE s = "enqueued" -> 1 [] s = "sent" -> 2
             [] s = "delivered" -> 3 [] s = "read" -> 4]

DeliveryOutranks(cur, next) ==
    /\ cur \in DOMAIN Rank /\ next \in DOMAIN Rank
    /\ Rank[next] > Rank[cur]

MayBecomeFailed(cur) == cur \notin {"delivered", "read", "failed"}

\* A row that lists envelopes fails when the last of them does; a mirrored row
\* lists none and believes the device that sent the message.
mayFailOne(cur, es, failed) ==
    MayBecomeFailed(cur) /\ (es # {} => es \cap failed # {})

mayFail(cur, es, failed) ==
    MayBecomeFailed(cur) /\ (es # {} => es \subseteq failed)

seedFromSibling == "sent"

(***************************************************************************)
(* Sending: one request to the backend per device, then the row.           *)
(***************************************************************************)
Dispatch(e) ==
    /\ sender = "running" /\ e \notin tried
    /\ tried' = tried \cup {e}
    /\ \/ out' = [out EXCEPT ![e] = "queued"]
       \/ out' = out
    /\ UNCHANGED <<at, began, clock, sender, row, envs, failedEnvs, connects, restarts,
                   connected, stream, pass, mark, slipped, sib, snaps>>

accepted == {e \in Envelopes : out[e] # "none"}

\* No row when no device accepted the message, and none when a sibling's copy
\* of the same message has already been filled in.
AppendOutbound ==
    /\ sender = "running" /\ tried = Envelopes
    /\ sender' = "done"
    /\ IF accepted = {} \/ row # "none"
         THEN UNCHANGED <<row, envs>>
         ELSE row' = "enqueued" /\ envs' = accepted
    /\ UNCHANGED <<out, at, began, clock, tried, failedEnvs, connects, restarts,
                   connected, stream, pass, mark, slipped, sib, snaps>>

(***************************************************************************)
(* The backend sends an envelope and records the outcome with the time it  *)
(* read before the send, so a slow send settles with an old time.  The     *)
(* outcome is reported if the stream is open.                              *)
(***************************************************************************)
processRow(e) ==
    /\ out[e] = "queued" /\ began[e] = 0 /\ clock < MaxSends
    /\ clock' = clock + 1 /\ began' = [began EXCEPT ![e] = clock + 1]
    /\ UNCHANGED <<out, at, tried, sender, row, envs, failedEnvs, connects, restarts,
                   connected, stream, pass, mark, slipped, sib, snaps>>

\* The attempt ends without an outcome: put off to a later one, or cut by a
\* stop of the backend.
PutOff(e) ==
    /\ began[e] # 0 /\ began' = [began EXCEPT ![e] = 0]
    /\ UNCHANGED <<out, at, clock, tried, sender, row, envs, failedEnvs, connects,
                   restarts, connected, stream, pass, mark, slipped, sib, snaps>>

\* An outcome s with time t that no pass will list, or not the one under way.
Slips(s, t) ==
    \/ t <= mark
    \/ pass.pc # "idle" /\ s \notin {pass.left[i] : i \in 1 .. Len(pass.left)}
    \/ pass.pc = "apply" /\ s = Head(pass.left)

Settle(e, s) ==
    /\ began[e] # 0
    /\ out' = [out EXCEPT ![e] = s] /\ began' = [began EXCEPT ![e] = 0]
    /\ at' = [at EXCEPT ![e] = began[e]]
    /\ slipped' = IF Slips(s, began[e]) THEN slipped \cup {e} ELSE slipped
    /\ \/ connected /\ stream' = Append(stream, <<e, s>>)
       \/ (~connected \/ "drop" \in Faults) /\ stream' = stream
    /\ UNCHANGED <<clock, tried, sender, row, envs, failedEnvs, connects, restarts,
                   connected, pass, mark, sib, snaps>>

(***************************************************************************)
(* Log.UpdateDeliveryState.  An envelope no row lists is not found.        *)
(***************************************************************************)
UpdateDeliveryState(e, s) ==
    IF e \notin envs \/ row = "none" THEN UNCHANGED <<row, failedEnvs>>
    ELSE /\ failedEnvs' = IF s = "failed" THEN failedEnvs \cup {e} ELSE failedEnvs
         /\ row' = IF \/ s = "failed" /\ mayFail(row, envs, failedEnvs')
                      \/ s # "failed" /\ DeliveryOutranks(row, s)
                     THEN s ELSE row

OnDelivery ==
    /\ connected /\ stream # <<>>
    /\ stream' = Tail(stream)
    /\ \/ UpdateDeliveryState(Head(stream)[1], Head(stream)[2])
       \/ "store" \in Faults /\ UNCHANGED <<row, failedEnvs>>
    /\ UNCHANGED <<out, at, began, clock, tried, sender, envs, connects, restarts,
                   connected, pass, mark, slipped, sib, snaps>>

(***************************************************************************)
(* The stream and the reconcile pass.  Every connection starts a pass      *)
(* unless one is still running.  What slipped past the last one is listed  *)
(* again, except where the watermark has moved over it.                    *)
(***************************************************************************)
Connect ==
    /\ ~connected /\ connects < MaxConnects
    /\ connected' = TRUE /\ connects' = connects + 1
    /\ pass' = IF pass.pc # "idle" THEN pass
               ELSE [idlePass EXCEPT !.pc = "list", !.left = <<"sent", "failed">>,
                                     !.since = mark, !.highest = mark]
    /\ slipped' = IF pass.pc # "idle" THEN slipped ELSE {e \in slipped : at[e] <= mark}
    /\ UNCHANGED <<out, at, began, clock, tried, sender, row, envs, failedEnvs, restarts,
                   stream, mark, sib, snaps>>

Disconnect ==
    /\ connected
    /\ connected' = FALSE /\ stream' = <<>>
    /\ UNCHANGED <<out, at, began, clock, tried, sender, row, envs, failedEnvs, connects,
                   restarts, pass, mark, slipped, sib, snaps>>

Page(s) ==
    LET settled == {e \in Envelopes : out[e] = s /\ at[e] > pass.since}
    IN  {p \in SUBSET settled :
           Cardinality(p) = IF Cardinality(settled) > ScanLimit
                              THEN ScanLimit ELSE Cardinality(settled)}

Higher(p) ==
    LET all == {pass.highest} \cup {at[e] : e \in p}
    IN  CHOOSE h \in all : \A x \in all : h >= x

ListPage ==
    /\ pass.pc = "list" /\ pass.left # <<>>
    /\ \E p \in Page(Head(pass.left)) :
         pass' = [pass EXCEPT !.pc = "apply", !.todo = p, !.highest = Higher(p),
                              !.truncated = @ \/ Cardinality(p) >= ScanLimit]
    /\ UNCHANGED <<out, at, began, clock, tried, sender, row, envs, failedEnvs, connects,
                   restarts, connected, stream, mark, slipped, sib, snaps>>

ListFailsSkip ==
    /\ "list" \in Faults /\ pass.pc = "list" /\ pass.left # <<>>
    /\ pass' = [pass EXCEPT !.left = Tail(@)]
    /\ UNCHANGED <<out, at, began, clock, tried, sender, row, envs, failedEnvs, connects,
                   restarts, connected, stream, mark, slipped, sib, snaps>>

\* A list request that fails ends the pass and leaves the watermark.
ListFails ==
    /\ "list" \in Faults /\ pass.pc = "list" /\ pass.left # <<>>
    /\ pass' = idlePass
    /\ UNCHANGED <<out, at, began, clock, tried, sender, row, envs, failedEnvs, connects,
                   restarts, connected, stream, mark, slipped, sib, snaps>>

\* One row of the page.  A row of the log that already has the state is passed
\* over; an envelope without a row, and a row that cannot be written, are too.
ApplyOne(e) ==
    /\ pass.pc = "apply" /\ e \in pass.todo
    /\ pass' = [pass EXCEPT !.todo = @ \ {e}]
    /\ \/ /\ IF row = Head(pass.left) THEN UNCHANGED <<row, failedEnvs>>
             ELSE UpdateDeliveryState(e, Head(pass.left))
          /\ slipped' = IF e \in envs THEN slipped ELSE slipped \cup {e}
       \/ /\ "store" \in Faults
          /\ UNCHANGED <<row, failedEnvs>> /\ slipped' = slipped \cup {e}
    /\ UNCHANGED <<out, at, began, clock, tried, sender, envs, connects, restarts,
                   connected, stream, mark, sib, snaps>>

PageDone ==
    /\ pass.pc = "apply" /\ pass.todo = {}
    /\ pass' = [pass EXCEPT !.pc = "list", !.left = Tail(@)]
    /\ UNCHANGED <<out, at, began, clock, tried, sender, row, envs, failedEnvs, connects,
                   restarts, connected, stream, mark, slipped, sib, snaps>>

\* A pass that saw a full page leaves the watermark where it was.
SetOutboxReconcileWatermark ==
    /\ pass.pc = "list" /\ pass.left = <<>>
    /\ mark' = IF pass.truncated \/ pass.highest <= mark THEN mark ELSE pass.highest
    /\ pass' = idlePass
    /\ UNCHANGED <<out, at, began, clock, tried, sender, row, envs, failedEnvs, connects,
                   restarts, connected, stream, slipped, sib, snaps>>

(***************************************************************************)
(* Receipts of the reader.  A device of the contact may have the message   *)
(* although its acknowledgement was lost and the envelope later fails.     *)
(* The receipt goes to the device that sent the message or, when the       *)
(* reader does not know it, to the other one.                              *)
(***************************************************************************)
ApplyReadReceipt(cur) == IF cur = "none" THEN cur ELSE "read"

ApplyDeliveredReceiptAlways(cur) ==
    IF IsFile /\ cur # "none" THEN "delivered" ELSE cur

ApplyDeliveredReceipt(cur) ==
    IF IsFile /\ DeliveryOutranks(cur, "delivered") THEN "delivered" ELSE cur

Receipt ==
    /\ accepted # {}
    /\ \E kind \in {"read", "delivered"} :
         LET moved(cur) == IF kind = "read" THEN ApplyReadReceipt(cur)
                           ELSE ApplyDeliveredReceipt(cur)
         IN  \/ row' = moved(row) /\ row' # row /\ sib' = sib
             \/ sib' = moved(sib) /\ sib' # sib /\ row' = row
    /\ UNCHANGED <<out, at, began, clock, tried, sender, envs, failedEnvs, connects,
                   restarts, connected, stream, pass, mark, slipped, snaps>>

(***************************************************************************)
(* The user's other device: the message is mirrored to it once the fan-out *)
(* is over, and the two send each other snapshots of the row at any time.  *)
(***************************************************************************)
Mirror ==
    /\ sib = "none" /\ accepted # {} /\ tried = Envelopes
    /\ sib' = seedFromSibling
    /\ UNCHANGED <<out, at, began, clock, tried, sender, row, envs, failedEnvs, connects,
                   restarts, connected, stream, pass, mark, slipped, snaps>>

Snapshot ==
    /\ \/ row # "none" /\ snaps' = snaps \cup {<<"sibling", row>>}
       \/ sib # "none" /\ snaps' = snaps \cup {<<"sender", sib>>}
    /\ snaps' # snaps
    /\ UNCHANGED <<out, at, began, clock, tried, sender, row, envs, failedEnvs, connects,
                   restarts, connected, stream, pass, mark, slipped, sib>>

\* applyGapRow: a missing row is inserted as a mirrored one, then the read time
\* and the rank or the failure are merged in.
ApplyDeliverySnapshot(cur, es, failed, s) ==
    LET held == IF cur = "none" THEN seedFromSibling ELSE cur
    IN  CASE s = "read" -> "read"
          [] s = "failed" /\ mayFail(held, es, failed) -> "failed"
          [] DeliveryOutranks(held, s) -> s
          [] OTHER -> held

GapFill ==
    \E sn \in snaps :
      /\ snaps' = snaps \ {sn}
      /\ IF sn[1] = "sender"
           THEN row' = ApplyDeliverySnapshot(row, envs, failedEnvs, sn[2]) /\ sib' = sib
           ELSE sib' = ApplyDeliverySnapshot(sib, {}, {}, sn[2]) /\ row' = row
      /\ UNCHANGED <<out, at, began, clock, tried, sender, envs, failedEnvs, connects,
                     restarts, connected, stream, pass, mark, slipped>>

\* The frontend stops: the handler and the pass are gone, the log stays.
Restart ==
    /\ restarts < MaxRestarts /\ restarts' = restarts + 1
    /\ sender' = "gone" /\ connected' = FALSE /\ stream' = <<>> /\ pass' = idlePass
    /\ UNCHANGED <<out, at, began, clock, tried, row, envs, failedEnvs, connects, mark,
                   slipped, sib, snaps>>

Next ==
    \/ \E e \in Envelopes : Dispatch(e) \/ processRow(e) \/ PutOff(e) \/ ApplyOne(e)
    \/ \E e \in Envelopes, s \in Settled : Settle(e, s)
    \/ AppendOutbound \/ OnDelivery \/ Connect \/ Disconnect \/ ListPage \/ ListFails
    \/ PageDone \/ SetOutboxReconcileWatermark \/ Receipt \/ Mirror \/ Snapshot
    \/ GapFill \/ Restart

Spec == Init /\ [][Next]_vars

-----------------------------------------------------------------------------
\* Type correctness: the shape of the row, the pass and the watermark, which
\* is never ahead of the outbox.
TypeOK ==
    /\ out \in [Envelopes -> {"none", "queued"} \cup Settled]
    /\ at \in [Envelopes -> 0 .. clock] /\ began \in [Envelopes -> 0 .. clock]
    /\ tried \subseteq Envelopes
    /\ sender \in {"running", "done", "gone"} /\ connected \in BOOLEAN
    /\ row \in States \cup {"none"} /\ sib \in States \cup {"none"}
    /\ failedEnvs \subseteq envs /\ envs \subseteq accepted /\ slipped \subseteq accepted
    /\ pass.pc \in Passes /\ pass.todo \subseteq Envelopes
    /\ mark \in 0 .. clock /\ pass.highest \in 0 .. clock
    /\ snaps \subseteq {"sender", "sibling"} \X States

\* UpdateDeliveryState, the receipts and the snapshots: whatever arrives, in
\* whatever order, on either device, the mark never moves down; a failure is
\* only ever lifted by the reader's own receipt, and never covers a delivery.
MarkRises ==
    [][\A m \in {<<row, row'>>, <<sib, sib'>>} :
         \/ m[1] = m[2] \/ m[1] = "none"
         \/ DeliveryOutranks(m[1], m[2])
         \/ m[1] = "failed" /\ m[2] = "read"
         \/ m[2] = "failed" /\ m[1] \in {"enqueued", "sent"}]_vars

\* allEnvelopesFailed: a device, sender or sibling, that shows "failed" does so
\* only when the outbox gave up on every device of the contact.
FailedMeansAllFailed ==
    "failed" \in {row, sib} => \A e \in accepted : out[e] = "failed"

Shown(e) == \/ out[e] = "sent" /\ row \in {"sent", "delivered", "read"}
            \/ out[e] = "failed" /\ (e \in failedEnvs \/ row \in {"failed", "read"})

\* reconcileDeliveryMarkers: an outcome the watermark has passed is in the row,
\* although reports were lost, requests failed and pages came back full.  The
\* exceptions are single outcomes: committed with a time the watermark had passed
\* (the send was slow) or after their page was listed, listed before the row was
\* appended, or not written; and only until a pass lists them again.
WatermarkCovers ==
    \A e \in envs \ slipped : at[e] \in 1 .. mark => Shown(e)

=============================================================================
