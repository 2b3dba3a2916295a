------------------------ MODULE DeliveryStatusProofs ------------------------
(***************************************************************************)
(* The delivery mark of an outgoing message, for any number of devices of  *)
(* the contact, any page limit, and any number of connections, restarts,   *)
(* lost reports and failed writes.                                         *)
(***************************************************************************)
EXTENDS DeliveryStatus, FiniteSetTheorems, WellFoundedInduction, TLAPS

Marks == States \cup {"none"}
Lefts == {<<>>, <<"failed">>, <<"sent", "failed">>}

Types ==
    /\ out \in [Envelopes -> {"none", "queued"} \cup Settled]
    /\ clock \in Nat /\ at \in [Envelopes -> 0 .. clock] /\ began \in [Envelopes -> 0 .. clock]
    /\ \A e \in Envelopes : began[e] # 0 => out[e] = "queued"
    /\ \A e \in Envelopes : e \notin tried => out[e] = "none"
    /\ row \in Marks /\ sib \in Marks
    /\ envs \subseteq Envelopes /\ failedEnvs \subseteq Envelopes
    /\ stream \in Seq(Envelopes \X Settled)
    /\ snaps \subseteq {"sender", "sibling"} \X States
    /\ mark \in 0 .. clock
    /\ pass \in [pc : Passes, left : Lefts, todo : SUBSET Envelopes, since : Int,
                 highest : 0 .. clock, truncated : BOOLEAN]

\* A settled envelope has its time, and only a settled one.
Timed == \A e \in Envelopes : out[e] \in Settled <=> at[e] # 0

\* A row that lists envelopes lists every accepted one: the fan-out is over.
RowComplete == envs # {} => envs = accepted /\ sender # "running" /\ row # "none"

\* Reports say what the outbox holds: on the row, on the stream, in the page.
Truthful ==
    /\ \A e \in failedEnvs : out[e] = "failed"
    /\ \A i \in 1 .. Len(stream) : out[stream[i][1]] = stream[i][2]
    /\ pass.pc = "apply" => pass.left # <<>> /\ \A e \in pass.todo : out[e] = Head(pass.left)

\* Who says "failed", a device or a snapshot on its way, is right for good.
FailedAround == row = "failed" \/ sib = "failed" \/ \E sn \in snaps : sn[2] = "failed"
AllFailed == sender # "running" /\ \A e \in Envelopes : out[e] \in {"none", "failed"}
FailedTrue == FailedAround => AllFailed

TruthInv == Types /\ RowComplete /\ Truthful /\ FailedTrue

\* The pass works from the watermark and has shown what it is through with,
\* unless a page was full.
Reached(e) == e \in envs /\ Shown(e)
PassCovers ==
    pass.pc # "idle" =>
        /\ pass.since = mark
        /\ ~pass.truncated =>
             \A e \in Envelopes \ slipped :
                at[e] > mark =>
                  /\ out[e] = "sent" =>
                       \/ pass.left = <<"sent", "failed">> /\ pass.pc = "list"
                       \/ pass.left = <<"sent", "failed">> /\ e \in pass.todo
                       \/ Reached(e)
                  /\ out[e] = "failed" =>
                       \/ pass.left = <<"sent", "failed">>
                       \/ pass.left = <<"failed">> /\ pass.pc = "list"
                       \/ pass.left = <<"failed">> /\ e \in pass.todo
                       \/ Reached(e)
MarkCovers == \A e \in Envelopes \ slipped : at[e] \in 1 .. mark => Reached(e)

CoverInv == TruthInv /\ Timed /\ PassCovers /\ MarkCovers

-----------------------------------------------------------------------------
(* The largest of finitely many times, and the ranks.                      *)

\* A set of numbers up to n that is not empty has a greatest one.
LEMMA HasGreatest ==
    ASSUME NEW n \in Nat, NEW S \in SUBSET (0 .. n), S # {}
    PROVE  \E h \in S : \A x \in S : h >= x
<1> DEFINE T == {n - x : x \in S}
           R == OpToRel(<, Nat)
<1>1. T \subseteq Nat /\ T # {}
  <2>1. \A x \in S : n - x \in Nat
    OBVIOUS
  <2>2. PICK x \in S : TRUE
    OBVIOUS
  <2>3. n - x \in T
    BY <2>2
  <2>4. QED
    BY <2>1, <2>3
<1>2. IsWellFoundedOn(R, Nat)
  BY NatLessThanWellFounded
<1>3. PICK t \in T : \A u \in T : ~(<<u, t>> \in R)
  <2> HIDE DEF T, R
  <2>1. QED
    BY <1>1, <1>2, WFMin
<1>4. \A u \in T : ~(u < t)
  BY <1>1, <1>3 DEF OpToRel
<1>5. PICK h \in S : t = n - h
  OBVIOUS
<1>6. \A x \in S : n - x \in T
  OBVIOUS
<1>7. QED
  BY <1>4, <1>5, <1>6

\* The watermark a page leads to is a time of the outbox.
LEMMA HigherTyped == ASSUME Types, NEW p \in SUBSET Envelopes PROVE Higher(p) \in 0 .. clock
<1> DEFINE all == {pass.highest} \cup {at[e] : e \in p}
<1>1. all \subseteq 0 .. clock /\ all # {} /\ clock \in Nat
  BY DEF Types
<1>2. \E h \in all : \A x \in all : h >= x
  <2> HIDE DEF all
  <2>1. QED
    BY <1>1, HasGreatest
<1>3. Higher(p) \in all
  BY <1>2 DEF Higher
<1>4. QED
  BY <1>1, <1>3

\* deliveryRank, as a table.
LEMMA Outranks ==
    \A a, b \in Marks :
        DeliveryOutranks(a, b) <=>
            \/ a = "enqueued" /\ b \in {"sent", "delivered", "read"}
            \/ a = "sent" /\ b \in {"delivered", "read"}
            \/ a = "delivered" /\ b = "read"
<1>1. DOMAIN Rank = {"enqueued", "sent", "delivered", "read"}
  BY DEF Rank, States
<1>2. Rank["enqueued"] = 1 /\ Rank["sent"] = 2 /\ Rank["delivered"] = 3 /\ Rank["read"] = 4
  BY DEF Rank, States
<1> HIDE DEF Rank
<1>3. QED
  BY <1>1, <1>2 DEF DeliveryOutranks, Marks, States

\* The mark never moves down; a failure gives way to the reader's receipt only.
Rises(a, b) ==
    \/ a = b \/ a = "none" \/ DeliveryOutranks(a, b)
    \/ a = "failed" /\ b = "read"
    \/ b = "failed" /\ a \in {"enqueued", "sent"}

\* applyGapRow takes "failed" from a snapshot only, and for a row with envelopes
\* only when all of them failed.
LEMMA SnapshotRises ==
    ASSUME NEW cur \in Marks, NEW es, NEW failed, NEW s \in States
    PROVE  LET r == ApplyDeliverySnapshot(cur, es, failed, s)
           IN  /\ r \in States /\ Rises(cur, r)
               /\ r = "failed" => s = "failed" \/ cur = "failed"
               /\ r = "failed" => cur = "failed" \/ es = {} \/ es \subseteq failed
<1> DEFINE held == IF cur = "none" THEN seedFromSibling ELSE cur
           r == ApplyDeliverySnapshot(cur, es, failed, s)
<1>1. held \in States /\ (cur # "none" => held = cur) /\ (cur = "none" => held = "sent")
  BY DEF Marks, States, seedFromSibling
<1>2. \/ s = "read" /\ r = "read"
      \/ s = "failed" /\ mayFail(held, es, failed) /\ r = "failed"
      \/ DeliveryOutranks(held, s) /\ r = s /\ s # "failed"
      \/ r = held
  <2>1. DeliveryOutranks(held, s) => s # "failed"
    BY <1>1, Outranks DEF Marks
  <2>2. QED
    BY <2>1 DEF ApplyDeliverySnapshot
<1>3. r \in States
  BY <1>1, <1>2 DEF States
<1>4. Rises(cur, r)
  BY <1>1, <1>2, Outranks DEF Rises, Marks, States, mayFail, MayBecomeFailed
<1>5. r = "failed" => s = "failed" \/ cur = "failed"
  BY <1>1, <1>2
<1>6. r = "failed" => cur = "failed" \/ es = {} \/ es \subseteq failed
  BY <1>1, <1>2 DEF mayFail
<1>7. QED
  BY <1>3, <1>4, <1>5, <1>6

\* UpdateDeliveryState with a true report: the row rises, and shows the outcome
\* if it lists the envelope.
LEMMA UpdateRises ==
    ASSUME TruthInv, NEW e \in Envelopes, NEW s \in Settled, out[e] = s,
           UpdateDeliveryState(e, s)
    PROVE  /\ row' \in Marks /\ Rises(row, row') /\ (row # "none" => row' # "none")
           /\ failedEnvs \subseteq failedEnvs' /\ failedEnvs' \subseteq Envelopes
           /\ \A f \in failedEnvs' : out[f] = "failed"
           /\ row' = "failed" => AllFailed
           /\ e \in envs => \/ s = "sent" /\ row' \in {"sent", "delivered", "read"}
                            \/ s = "failed" /\ e \in failedEnvs'
<1> USE DEF TruthInv, Types
<1>1. CASE e \notin envs \/ row = "none"
  BY <1>1 DEF UpdateDeliveryState, Rises, RowComplete, Truthful, FailedTrue, FailedAround
<1>2. CASE e \in envs /\ row # "none"
  <2>0. envs = accepted /\ sender # "running"
    BY <1>2 DEF RowComplete
  <2>1. failedEnvs' = IF s = "failed" THEN failedEnvs \cup {e} ELSE failedEnvs
    BY <1>2 DEF UpdateDeliveryState
  <2>2. \A f \in failedEnvs' : out[f] = "failed"
    BY <2>1 DEF Truthful
  <2>3. \/ s = "failed" /\ mayFail(row, envs, failedEnvs') /\ row' = "failed"
        \/ s = "sent" /\ DeliveryOutranks(row, "sent") /\ row' = "sent"
        \/ row' = row /\ ~(s = "sent" /\ DeliveryOutranks(row, "sent"))
    BY <1>2 DEF UpdateDeliveryState, Settled
  <2>4. row' \in Marks /\ Rises(row, row') /\ row' # "none"
    BY <1>2, <2>3 DEF Rises, Marks, States, mayFail, MayBecomeFailed
  <2>5. row' = "failed" => AllFailed
    <3>1. CASE row = "failed"
      BY <3>1 DEF FailedTrue, FailedAround
    <3>2. CASE row # "failed" /\ row' = "failed"
      <4>1. envs \subseteq failedEnvs'
        BY <1>2, <2>3, <3>2 DEF mayFail
      <4>2. QED
        BY <2>0, <2>2, <4>1 DEF AllFailed, accepted
    <3>3. QED
      BY <3>1, <3>2
  <2>6. s = "sent" => row' \in {"sent", "delivered", "read"}
    <3>1. s = "sent" => row # "failed"
      BY DEF FailedTrue, FailedAround, AllFailed
    <3>2. QED
      BY <1>2, <2>3, <3>1, Outranks DEF Marks, States
  <2>7. QED
    BY <2>1, <2>2, <2>4, <2>5, <2>6 DEF Settled
<1>3. QED
  BY <1>1, <1>2

-----------------------------------------------------------------------------
(* Truth: what is reported and shown is what happened.                     *)

LeftOfPass == [pc : Passes, left : Lefts, todo : SUBSET Envelopes, since : Int,
               highest : 0 .. clock, truncated : BOOLEAN]

\* The two states a pass asks for, one after the other.
LEMMA LeftFacts ==
    /\ Head(<<"sent", "failed">>) = "sent" /\ Tail(<<"sent", "failed">>) = <<"failed">>
    /\ Head(<<"failed">>) = "failed" /\ Tail(<<"failed">>) = <<>>
    /\ <<"sent", "failed">> # <<"failed">> /\ <<"sent", "failed">> # <<>> /\ <<"failed">> # <<>>
<1>1. Tail(<<"sent", "failed">>) = <<"failed">>
  OBVIOUS
<1>2. Tail(<<"failed">>) = <<>>
  OBVIOUS
<1>3. QED
  BY <1>1, <1>2

\* The steps of a pass keep its type.
LEMMA IdleTyped == ASSUME Types PROVE idlePass \in LeftOfPass
BY DEF Types, idlePass, LeftOfPass, Passes, Lefts

\* Every step of the pass keeps its type, and the watermark a time of the outbox.
LEMMA PassTyped ==
    ASSUME Types, Truthful,
           \/ Connect \/ ListPage \/ ListFails \/ \E e \in Envelopes : ApplyOne(e)
           \/ PageDone \/ SetOutboxReconcileWatermark
    PROVE  pass' \in LeftOfPass /\ mark' \in 0 .. clock /\ clock' = clock
<1> USE DEF Types, LeftOfPass
<1>1. CASE Connect
  <2>1. pass' = pass \/ pass' = [idlePass EXCEPT !.pc = "list", !.left = <<"sent", "failed">>,
                                               !.since = mark, !.highest = mark]
    BY <1>1 DEF Connect
  <2>2. <<"sent", "failed">> \in Lefts /\ "list" \in Passes /\ mark \in Int
    BY DEF Lefts, Passes
  <2>3. QED
    BY <1>1, <2>1, <2>2, IdleTyped DEF Connect
<1>2. CASE ListPage
  <2>1. PICK p \in Page(Head(pass.left)) :
            pass' = [pass EXCEPT !.pc = "apply", !.todo = p, !.highest = Higher(p),
                                 !.truncated = @ \/ Cardinality(p) >= ScanLimit]
    BY <1>2 DEF ListPage
  <2>2. p \in SUBSET Envelopes
    BY <2>1 DEF Page
  <2>3. Higher(p) \in 0 .. clock
    BY <2>2, HigherTyped
  <2>4. (pass.truncated \/ Cardinality(p) >= ScanLimit) \in BOOLEAN
    OBVIOUS
  <2>5. QED
    BY <1>2, <2>1, <2>2, <2>3, <2>4 DEF ListPage, Passes
<1>3. CASE ListFails
  BY <1>3, IdleTyped DEF ListFails
<1>4. CASE \E e \in Envelopes : ApplyOne(e)
  <2>1. PICK e \in Envelopes : ApplyOne(e)
    BY <1>4
  <2>2. pass' = [pass EXCEPT !.todo = @ \ {e}] /\ mark' = mark /\ clock' = clock
    BY <2>1 DEF ApplyOne
  <2>3. QED
    BY <2>2
<1>5. CASE PageDone
  <2>1. Tail(pass.left) \in Lefts
    BY <1>5, LeftFacts DEF Lefts, PageDone, Truthful
  <2>2. QED
    BY <1>5, <2>1 DEF PageDone, Passes
<1>6. CASE SetOutboxReconcileWatermark
  BY <1>6, IdleTyped DEF SetOutboxReconcileWatermark
<1>7. QED
  BY <1>1, <1>2, <1>3, <1>4, <1>5, <1>6

\* What each step is shown to do: the reports stay true and the marks rise.
StaysTrue == TruthInv' /\ Rises(row, row') /\ Rises(sib, sib')

\* mirror.Dispatch: while the handler runs, no row lists an envelope and nobody
\* says "failed".
LEMMA DispatchTrue == ASSUME TruthInv, NEW e \in Envelopes, Dispatch(e) PROVE StaysTrue
<1> USE DEF TruthInv
<1>1. sender = "running" /\ envs = {} /\ ~FailedAround
  BY DEF Dispatch, RowComplete, FailedTrue, AllFailed
<1>2. UNCHANGED <<at, began, clock, sender, row, envs, failedEnvs, stream, pass, mark, sib, snaps>>
  BY DEF Dispatch
<1>3. /\ out' \in [Envelopes -> {"none", "queued"} \cup Settled]
      /\ \A f \in Envelopes : f # e => out'[f] = out[f]
      /\ out[e] = "none"
      /\ tried' = tried \cup {e}
  BY DEF Dispatch, Types
<1>4. Types'
  BY <1>2, <1>3 DEF Types
<1>5. RowComplete' /\ FailedTrue'
  BY <1>1, <1>2 DEF RowComplete, FailedTrue, FailedAround
<1>6. Truthful'
  <2>1. \A f \in Envelopes : out[f] \in Settled => out'[f] = out[f]
    BY <1>3 DEF Settled
  <2>2. \A f \in failedEnvs' : out'[f] = "failed"
    BY <1>2, <2>1 DEF Truthful, Types, Settled
  <2>3. \A i \in 1 .. Len(stream') : out'[stream'[i][1]] = stream'[i][2]
    BY <1>2, <2>1 DEF Truthful, Types
  <2>4. pass'.pc = "apply" => pass'.left # <<>> /\ \A f \in pass'.todo : out'[f] = Head(pass'.left)
    BY <1>2, <2>1, LeftFacts DEF Truthful, Types, Lefts, Settled
  <2>5. QED
    BY <2>2, <2>3, <2>4 DEF Truthful
<1>7. QED
  BY <1>2, <1>4, <1>5, <1>6 DEF StaysTrue, Rises

\* AppendOutbound: the row is written when the fan-out is over.
LEMMA AppendTrue == ASSUME TruthInv, AppendOutbound PROVE StaysTrue
<1> USE DEF TruthInv
<1>1. sender = "running" /\ sender' = "done" /\ envs = {} /\ ~FailedAround
  BY DEF AppendOutbound, RowComplete, FailedTrue, AllFailed
<1>2. UNCHANGED <<out, at, began, clock, tried, failedEnvs, stream, pass, mark, sib, snaps>>
  BY DEF AppendOutbound
<1>3. \/ row' = row /\ envs' = envs
      \/ row = "none" /\ row' = "enqueued" /\ envs' = accepted
  BY DEF AppendOutbound
<1>4. Types'
  BY <1>2, <1>3 DEF Types, Marks, States, accepted
<1>5. RowComplete' /\ FailedTrue' /\ Truthful'
  BY <1>1, <1>2, <1>3 DEF RowComplete, FailedTrue, FailedAround, Truthful, accepted
<1>6. QED
  BY <1>2, <1>3, <1>4, <1>5 DEF StaysTrue, Rises

\* The outbox settles a queued envelope, which no one has called failed.
LEMMA SettleTrue ==
    ASSUME TruthInv, NEW e \in Envelopes, NEW s \in Settled, Settle(e, s) PROVE StaysTrue
<1> USE DEF TruthInv
<1>1. UNCHANGED <<tried, sender, row, envs, failedEnvs, pass, mark, sib, snaps>>
  BY DEF Settle
<1>2. /\ out[e] = "queued" /\ out' = [out EXCEPT ![e] = s]
      /\ clock' = clock /\ at' = [at EXCEPT ![e] = began[e]]
      /\ began' = [began EXCEPT ![e] = 0]
      /\ stream' = stream \/ stream' = Append(stream, <<e, s>>)
  BY DEF Settle, Types
<1>3. \A f \in Envelopes : f # e => out'[f] = out[f]
  BY <1>2 DEF Types
<1>4. out'[e] = s /\ out' \in [Envelopes -> {"none", "queued"} \cup Settled]
  BY <1>2 DEF Types
<1>5. <<e, s>> \in Envelopes \X Settled
  OBVIOUS
<1>6. stream' \in Seq(Envelopes \X Settled)
  <2> DEFINE Report == Envelopes \X Settled
  <2>1. stream \in Seq(Report) /\ <<e, s>> \in Report
    BY <1>5 DEF Types
  <2> HIDE DEF Report
  <2>2. Append(stream, <<e, s>>) \in Seq(Report)
    BY <2>1
  <2>3. stream' \in Seq(Report)
    BY <1>2, <2>1, <2>2
  <2>4. QED
    BY <2>3 DEF Report
<1>7. /\ clock' \in Nat /\ at' \in [Envelopes -> 0 .. clock']
      /\ began' \in [Envelopes -> 0 .. clock'] /\ \A f \in Envelopes : began'[f] # 0 => out'[f] = "queued"
  BY <1>2, <1>3 DEF Types
<1>8. Types'
  <2>1. \A f \in Envelopes : f \notin tried' => out'[f] = "none"
    BY <1>1, <1>2, <1>3 DEF Types
  <2>2. pass' \in [pc : Passes, left : Lefts, todo : SUBSET Envelopes, since : Int,
                   highest : 0 .. clock', truncated : BOOLEAN]
    BY <1>1, <1>2 DEF Types
  <2>3. mark' \in 0 .. clock'
    BY <1>1, <1>2 DEF Types
  <2>4. QED
    BY <1>1, <1>4, <1>6, <1>7, <2>1, <2>2, <2>3 DEF Types
<1>9. RowComplete'
  BY <1>1, <1>2, <1>3, <1>4 DEF RowComplete, accepted, Settled
<1>10. FailedTrue'
  BY <1>1, <1>2 DEF FailedTrue, FailedAround, AllFailed
<1>11. Truthful'
  <2>1. \A f \in failedEnvs' : out'[f] = "failed"
    BY <1>1, <1>2, <1>3 DEF Truthful, Types
  <2>2. \A i \in 1 .. Len(stream) : out'[stream[i][1]] = stream[i][2]
    <3>1. \A i \in 1 .. Len(stream) : stream[i] \in Envelopes \X Settled /\ out[stream[i][1]] = stream[i][2]
      BY DEF Truthful, Types
    <3>2. QED
      BY <1>2, <1>3, <3>1 DEF Settled
  <2>3. \A i \in 1 .. Len(stream') : out'[stream'[i][1]] = stream'[i][2]
    <3>1. CASE stream' = stream
      BY <2>2, <3>1
    <3>2. CASE stream' = Append(stream, <<e, s>>)
      BY <1>4, <1>5, <2>2, <3>2 DEF Types
    <3>3. QED
      BY <1>2, <3>1, <3>2
  <2>4. pass'.pc = "apply" => pass'.left # <<>> /\ \A f \in pass'.todo : out'[f] = Head(pass'.left)
    BY <1>1, <1>2, <1>3, LeftFacts DEF Truthful, Types, Lefts
  <2>5. QED
    BY <2>1, <2>3, <2>4 DEF Truthful
<1>12. QED
  BY <1>1, <1>8, <1>9, <1>10, <1>11 DEF StaysTrue, Rises

\* An attempt begins with a new time, or ends without an outcome.
LEMMA AttemptTrue ==
    ASSUME TruthInv, NEW e \in Envelopes, processRow(e) \/ PutOff(e) PROVE StaysTrue
<1> USE DEF TruthInv
<1>1. UNCHANGED <<out, at, tried, sender, row, envs, failedEnvs, stream, pass, mark, sib, snaps>>
  BY DEF processRow, PutOff
<1>2. /\ clock' \in Nat /\ 0 .. clock \subseteq 0 .. clock'
      /\ began' \in [Envelopes -> 0 .. clock'] /\ \A f \in Envelopes : began'[f] # 0 => out[f] = "queued"
  <2>1. CASE processRow(e)
    BY <2>1 DEF processRow, Types
  <2>2. CASE PutOff(e)
    BY <2>2 DEF PutOff, Types
  <2>3. QED
    BY <2>1, <2>2
<1>3. Types'
  <2>1. at' \in [Envelopes -> 0 .. clock']
    BY <1>1, <1>2 DEF Types
  <2>2. pass' \in [pc : Passes, left : Lefts, todo : SUBSET Envelopes, since : Int,
                   highest : 0 .. clock', truncated : BOOLEAN]
    BY <1>1, <1>2 DEF Types
  <2>3. QED
    BY <1>1, <1>2, <2>1, <2>2 DEF Types
<1>4. RowComplete' /\ FailedTrue' /\ Truthful'
  BY <1>1 DEF RowComplete, accepted, FailedTrue, FailedAround, AllFailed, Truthful
<1>5. QED
  BY <1>1, <1>3, <1>4 DEF StaysTrue, Rises

\* A true report applied to the row, from the stream or from a page.
LEMMA ReportTrue ==
    ASSUME TruthInv, NEW e \in Envelopes, NEW s \in Settled, out[e] = s,
           UpdateDeliveryState(e, s) \/ UNCHANGED <<row, failedEnvs>>
    PROVE  /\ row' \in Marks /\ Rises(row, row') /\ (row # "none" => row' # "none")
           /\ failedEnvs \subseteq failedEnvs' /\ failedEnvs' \subseteq Envelopes
           /\ \A f \in failedEnvs' : out[f] = "failed"
           /\ row' = "failed" => AllFailed
<1>1. CASE UpdateDeliveryState(e, s)
  BY <1>1, UpdateRises
<1>2. CASE UNCHANGED <<row, failedEnvs>>
  BY <1>2 DEF TruthInv, Types, Truthful, Rises, FailedTrue, FailedAround
<1>3. QED
  BY <1>1, <1>2

\* The stream hands over what the outbox reported.
LEMMA OnDeliveryTrue == ASSUME TruthInv, OnDelivery PROVE StaysTrue
<1> USE DEF TruthInv
<1> DEFINE e == Head(stream)[1]
           s == Head(stream)[2]
           Report == Envelopes \X Settled
<1>1. UNCHANGED <<out, at, began, clock, tried, sender, envs, pass, mark, sib, snaps>>
  BY DEF OnDelivery
<1>2. stream # <<>> /\ stream' = Tail(stream)
  BY DEF OnDelivery
<1>3. stream \in Seq(Report)
  BY DEF Types
<1>4. Head(stream) = stream[1] /\ stream[1] \in Report /\ 1 \in 1 .. Len(stream)
  <2> HIDE DEF Report
  <2>1. QED
    BY <1>2, <1>3
<1>5. /\ stream' \in Seq(Report)
      /\ \A i \in 1 .. Len(stream') : i + 1 \in 1 .. Len(stream) /\ stream'[i] = stream[i + 1]
  <2> HIDE DEF Report
  <2>1. QED
    BY <1>2, <1>3
<1>6. e \in Envelopes /\ s \in Settled /\ out[e] = s
  BY <1>4 DEF Truthful
<1>7. UpdateDeliveryState(e, s) \/ UNCHANGED <<row, failedEnvs>>
  BY DEF OnDelivery
<1> HIDE DEF e, s
<1>8. /\ row' \in Marks /\ Rises(row, row') /\ (row # "none" => row' # "none")
      /\ failedEnvs \subseteq failedEnvs' /\ failedEnvs' \subseteq Envelopes
      /\ \A f \in failedEnvs' : out[f] = "failed"
      /\ row' = "failed" => AllFailed
  BY <1>6, <1>7, ReportTrue
<1>9. Types'
  BY <1>1, <1>5, <1>8 DEF Types
<1>10. RowComplete' /\ FailedTrue'
  BY <1>1, <1>8 DEF RowComplete, accepted, FailedTrue, FailedAround, AllFailed
<1>11. Truthful'
  <2>1. \A i \in 1 .. Len(stream') : out'[stream'[i][1]] = stream'[i][2]
    BY <1>1, <1>5 DEF Truthful
  <2>2. QED
    BY <1>1, <1>8, <2>1 DEF Truthful
<1>12. QED
  BY <1>1, <1>8, <1>9, <1>10, <1>11 DEF StaysTrue, Rises

\* The reconcile pass applies what its page says of the outbox.
LEMMA ApplyOneTrue == ASSUME TruthInv, NEW e \in Envelopes, ApplyOne(e) PROVE StaysTrue
<1> USE DEF TruthInv
<1> DEFINE s == Head(pass.left)
<1>1. UNCHANGED <<out, at, began, clock, tried, sender, envs, stream, mark, sib, snaps>>
  BY DEF ApplyOne
<1>2. pass.pc = "apply" /\ e \in pass.todo /\ pass' = [pass EXCEPT !.todo = @ \ {e}]
  BY DEF ApplyOne
<1>3. s \in Settled /\ out[e] = s
  BY <1>2, LeftFacts DEF Truthful, Types, Lefts, Settled
<1>4. UpdateDeliveryState(e, s) \/ UNCHANGED <<row, failedEnvs>>
  BY DEF ApplyOne
<1>5. /\ row' \in Marks /\ Rises(row, row') /\ (row # "none" => row' # "none")
      /\ failedEnvs \subseteq failedEnvs' /\ failedEnvs' \subseteq Envelopes
      /\ \A f \in failedEnvs' : out[f] = "failed"
      /\ row' = "failed" => AllFailed
  <2> HIDE DEF s
  <2>1. QED
    BY <1>3, <1>4, ReportTrue
<1>6. pass'.pc = pass.pc /\ pass'.left = pass.left /\ pass'.todo = pass.todo \ {e}
  BY <1>2 DEF Types
<1>7. Types'
  BY <1>1, <1>5, PassTyped DEF Types, LeftOfPass
<1>8. RowComplete' /\ FailedTrue'
  BY <1>1, <1>5 DEF RowComplete, accepted, FailedTrue, FailedAround, AllFailed
<1>9. Truthful'
  BY <1>1, <1>5, <1>6 DEF Truthful
<1>10. QED
  BY <1>1, <1>5, <1>7, <1>8, <1>9 DEF StaysTrue, Rises

\* A page lists envelopes in the state that was asked for.
LEMMA PassStepsTrue ==
    ASSUME TruthInv, Connect \/ ListPage \/ ListFails \/ PageDone \/ SetOutboxReconcileWatermark
    PROVE  StaysTrue
<1> USE DEF TruthInv
<1>1. UNCHANGED <<out, at, began, clock, tried, sender, row, envs, failedEnvs, stream, sib, snaps>>
  BY DEF Connect, ListPage, ListFails, PageDone, SetOutboxReconcileWatermark
<1>2. pass' \in LeftOfPass /\ mark' \in 0 .. clock
  BY PassTyped
<1>3. Types'
  BY <1>1, <1>2 DEF Types, LeftOfPass
<1>4. pass'.pc = "apply" => pass'.left # <<>> /\ \A e \in pass'.todo : out[e] = Head(pass'.left)
  <2>1. CASE ListPage
    <3>1. PICK p \in Page(Head(pass.left)) : pass'.left = pass.left /\ pass'.todo = p
      BY <2>1 DEF ListPage, Types
    <3>2. \A e \in p : out[e] = Head(pass.left)
      BY <3>1 DEF Page
    <3>3. QED
      BY <2>1, <3>1, <3>2 DEF ListPage
  <2>2. CASE Connect
    BY <2>2 DEF Connect, Truthful, idlePass
  <2>3. CASE ListFails \/ PageDone \/ SetOutboxReconcileWatermark
    <3>1. idlePass.pc = "idle"
      BY DEF idlePass
    <3>2. PageDone => pass'.pc = "list"
      BY DEF PageDone, Types
    <3>3. QED
      BY <2>3, <3>1, <3>2 DEF ListFails, SetOutboxReconcileWatermark
  <2>4. QED
    BY <2>1, <2>2, <2>3
<1>5. RowComplete' /\ FailedTrue' /\ Truthful'
  BY <1>1, <1>4 DEF RowComplete, accepted, FailedTrue, FailedAround, AllFailed, Truthful
<1>6. QED
  BY <1>1, <1>3, <1>5 DEF StaysTrue, Rises

\* The reader's receipts and the mirrored row say nothing of failures.
LEMMA ReceiptTrue == ASSUME TruthInv, Receipt \/ Mirror PROVE StaysTrue
<1> USE DEF TruthInv
<1>1. UNCHANGED <<out, at, began, clock, tried, sender, envs, failedEnvs, stream, pass, mark, snaps>>
  BY DEF Receipt, Mirror
<1>2. /\ row' = row \/ row' = ApplyReadReceipt(row) \/ row' = ApplyDeliveredReceipt(row)
      /\ \/ sib' = sib \/ sib' = ApplyReadReceipt(sib) \/ sib' = ApplyDeliveredReceipt(sib)
         \/ sib = "none" /\ sib' = "sent"
  BY DEF Receipt, Mirror, seedFromSibling
<1>3. ASSUME NEW cur \in Marks, NEW new,
             \/ new = cur \/ new = ApplyReadReceipt(cur) \/ new = ApplyDeliveredReceipt(cur)
             \/ cur = "none" /\ new = "sent"
      PROVE  /\ new \in Marks /\ Rises(cur, new) /\ (new = "failed" => cur = "failed")
             /\ cur # "none" => new # "none"
  BY <1>3, Outranks DEF ApplyReadReceipt, ApplyDeliveredReceipt, Rises, Marks, States
<1>4. /\ row' \in Marks /\ Rises(row, row') /\ (row' = "failed" => row = "failed")
      /\ row # "none" => row' # "none"
  BY <1>2, <1>3 DEF Types
<1>5. sib' \in Marks /\ Rises(sib, sib') /\ (sib' = "failed" => sib = "failed")
  BY <1>2, <1>3 DEF Types
<1>6. Types' /\ Truthful'
  BY <1>1, <1>4, <1>5 DEF Types, Truthful
<1>7. RowComplete' /\ FailedTrue'
  BY <1>1, <1>4, <1>5 DEF RowComplete, accepted, FailedTrue, FailedAround, AllFailed
<1>8. QED
  BY <1>4, <1>5, <1>6, <1>7 DEF StaysTrue

\* Snapshots carry the marks of the two devices, and no others.
LEMMA SnapshotTrue == ASSUME TruthInv, Snapshot PROVE StaysTrue
<1> USE DEF TruthInv
<1>1. UNCHANGED <<out, at, began, clock, tried, sender, row, envs, failedEnvs, stream, pass, mark, sib>>
  BY DEF Snapshot
<1>2. \/ row # "none" /\ snaps' = snaps \cup {<<"sibling", row>>}
      \/ sib # "none" /\ snaps' = snaps \cup {<<"sender", sib>>}
  BY DEF Snapshot
<1>3. Types' /\ Truthful' /\ RowComplete'
  BY <1>1, <1>2 DEF Types, Truthful, RowComplete, accepted, Marks
<1>4. FailedTrue'
  BY <1>1, <1>2 DEF FailedTrue, FailedAround, AllFailed
<1>5. QED
  BY <1>1, <1>3, <1>4 DEF StaysTrue, Rises

\* A snapshot brings the mark the other device had when it was sent.
LEMMA GapFillTrue == ASSUME TruthInv, GapFill PROVE StaysTrue
<1> USE DEF TruthInv
<1>1. UNCHANGED <<out, at, began, clock, tried, sender, envs, failedEnvs, stream, pass, mark>>
  BY DEF GapFill
<1>2. PICK sn \in snaps :
        /\ snaps' = snaps \ {sn}
        /\ IF sn[1] = "sender"
           THEN row' = ApplyDeliverySnapshot(row, envs, failedEnvs, sn[2]) /\ sib' = sib
           ELSE sib' = ApplyDeliverySnapshot(sib, {}, {}, sn[2]) /\ row' = row
  BY DEF GapFill
<1>3. sn[2] \in States
  BY <1>2 DEF Types
<1>4. /\ row' \in Marks /\ Rises(row, row') /\ (row # "none" => row' # "none")
      /\ row' = "failed" => sn[2] = "failed" \/ row = "failed"
  <2>1. row \in Marks
    BY DEF Types
  <2>2. CASE sn[1] = "sender"
    BY <1>2, <1>3, <2>1, <2>2, SnapshotRises DEF Marks, States
  <2>3. CASE sn[1] # "sender"
    BY <1>2, <2>1, <2>3 DEF Rises
  <2>4. QED
    BY <2>2, <2>3
<1>5. sib' \in Marks /\ Rises(sib, sib') /\ (sib' = "failed" => sn[2] = "failed" \/ sib = "failed")
  <2>1. CASE sn[1] = "sender"
    BY <1>2, <2>1 DEF Types, Rises
  <2>2. CASE sn[1] # "sender"
    <3> DEFINE r == ApplyDeliverySnapshot(sib, {}, {}, sn[2])
    <3>1. /\ r \in States /\ Rises(sib, r)
          /\ r = "failed" => sn[2] = "failed" \/ sib = "failed"
      BY <1>3, SnapshotRises DEF Types
    <3>2. sib' = r
      BY <1>2, <2>2
    <3> HIDE DEF r
    <3>3. QED
      BY <3>1, <3>2 DEF Marks
  <2>3. QED
    BY <2>1, <2>2
<1>6. Types' /\ Truthful'
  BY <1>1, <1>2, <1>4, <1>5 DEF Types, Truthful
<1>7. RowComplete' /\ FailedTrue'
  BY <1>1, <1>2, <1>4, <1>5 DEF RowComplete, accepted, FailedTrue, FailedAround, AllFailed
<1>8. QED
  BY <1>4, <1>5, <1>6, <1>7 DEF StaysTrue

\* A broken stream and a restart lose reports and invent none.
LEMMA LossTrue == ASSUME TruthInv, Disconnect \/ Restart \/ UNCHANGED vars PROVE StaysTrue
<1> USE DEF TruthInv
<1>1. UNCHANGED <<out, at, began, clock, tried, row, envs, failedEnvs, mark, sib, snaps>>
  BY DEF Disconnect, Restart, vars
<1>2. (sender' = sender \/ sender' = "gone") /\ (stream' = stream \/ stream' = <<>>)
      /\ (pass' = pass \/ pass' = idlePass)
  BY DEF Disconnect, Restart, vars
<1>3. pass' \in LeftOfPass /\ (pass' = pass \/ pass'.pc = "idle")
  <2>1. idlePass.pc = "idle" /\ idlePass \in LeftOfPass
    BY IdleTyped DEF idlePass
  <2>2. pass \in LeftOfPass
    BY DEF Types, LeftOfPass
  <2>3. QED
    BY <1>2, <2>1, <2>2
<1>4. stream' \in Seq(Envelopes \X Settled) /\ (stream' = stream \/ Len(stream') = 0)
  <2> DEFINE Report == Envelopes \X Settled
  <2>1. stream \in Seq(Report)
    BY DEF Types
  <2> HIDE DEF Report
  <2>2. <<>> \in Seq(Report) /\ Len(<<>>) = 0
    OBVIOUS
  <2>3. stream' \in Seq(Report) /\ (stream' = stream \/ Len(stream') = 0)
    BY <1>2, <2>1, <2>2
  <2>4. QED
    BY <2>3 DEF Report
<1>5. Types'
  BY <1>1, <1>3, <1>4 DEF Types, LeftOfPass
<1>6. RowComplete' /\ FailedTrue'
  BY <1>1, <1>2 DEF RowComplete, accepted, FailedTrue, FailedAround, AllFailed
<1>7. Truthful'
  BY <1>1, <1>3, <1>4 DEF Truthful
<1>8. QED
  BY <1>1, <1>5, <1>6, <1>7 DEF StaysTrue, Rises

\* Every step keeps the reports true and the marks rising.
LEMMA TruthStep == ASSUME TruthInv, [Next]_vars PROVE StaysTrue
BY DispatchTrue, AppendTrue, AttemptTrue, SettleTrue, OnDeliveryTrue, ApplyOneTrue, PassStepsTrue,
   ReceiptTrue, SnapshotTrue, GapFillTrue, LossTrue DEF Next

\* Nothing is reported at the start.
LEMMA TruthInit == Init => TruthInv
<1> SUFFICES ASSUME Init PROVE TruthInv
  OBVIOUS
<1>1. Types
  <2>1. idlePass \in [pc : Passes, left : Lefts, todo : SUBSET Envelopes, since : Int,
                      highest : 0 .. 0, truncated : BOOLEAN]
    BY DEF idlePass, Passes, Lefts
  <2>2. <<>> \in Seq(Envelopes \X Settled)
    OBVIOUS
  <2>3. QED
    BY <2>1, <2>2 DEF Init, Types, Marks
<1>2. RowComplete /\ FailedTrue
  BY DEF Init, RowComplete, FailedTrue, FailedAround
<1>3. Truthful
  BY DEF Init, Truthful, idlePass
<1>4. QED
  BY <1>1, <1>2, <1>3 DEF TruthInv

\* What is reported and shown is true in every reachable state.
LEMMA TruthInvariant == Spec => []TruthInv
<1>1. TruthInv /\ [Next]_vars => TruthInv'
  BY TruthStep DEF StaysTrue
<1>2. QED
  BY <1>1, TruthInit, PTL DEF Spec
\* The row lists envelopes and failures for good.
LEMMA ListsGrow == ASSUME TruthInv, [Next]_vars PROVE envs \subseteq envs' /\ failedEnvs \subseteq failedEnvs'
<1> USE DEF TruthInv
<1>1. ASSUME NEW e, NEW s, UpdateDeliveryState(e, s) PROVE failedEnvs \subseteq failedEnvs'
  BY <1>1 DEF UpdateDeliveryState
<1>2. CASE AppendOutbound
  BY <1>2 DEF AppendOutbound, RowComplete
<1>3. CASE OnDelivery
  BY <1>1, <1>3 DEF OnDelivery
<1>4. CASE \E e \in Envelopes : ApplyOne(e)
  BY <1>1, <1>4 DEF ApplyOne
<1>5. CASE UNCHANGED <<envs, failedEnvs>>
  BY <1>5
<1>6. QED
  BY <1>2, <1>3, <1>4, <1>5 DEF Next, vars, Dispatch, processRow, PutOff, Settle, Connect, Disconnect,
     ListPage, ListFails, PageDone, SetOutboxReconcileWatermark, Receipt, Mirror, Snapshot, GapFill, Restart

-----------------------------------------------------------------------------
(* Cover: what the watermark has passed is shown.                          *)

\* An outcome that is shown stays shown: the mark only rises, and turns to
\* "failed" only when no envelope was sent.
LEMMA ReachedStays ==
    ASSUME TruthInv, StaysTrue, envs \subseteq envs', failedEnvs \subseteq failedEnvs',
           NEW e \in Envelopes, out'[e] = out[e], Reached(e)
    PROVE  Reached(e)'
<1>1. row \in Marks /\ row' \in Marks /\ Rises(row, row')
  BY DEF TruthInv, StaysTrue, Types
<1>2. e \in envs'
  BY DEF Reached
<1>3. CASE out[e] = "sent"
  <2>1. row \in {"sent", "delivered", "read"}
    BY <1>3 DEF Reached, Shown
  <2>2. row' # "failed"
    BY <1>3 DEF StaysTrue, TruthInv, FailedTrue, FailedAround, AllFailed
  <2>3. row' \in {"sent", "delivered", "read"}
    BY <1>1, <2>1, <2>2, Outranks DEF Rises
  <2>4. QED
    BY <1>2, <1>3, <2>3 DEF Reached, Shown
<1>4. CASE out[e] = "failed"
  <2>1. e \in failedEnvs \/ row \in {"failed", "read"}
    BY <1>4 DEF Reached, Shown
  <2>2. row \in {"failed", "read"} => row' \in {"failed", "read"}
    BY <1>1, Outranks DEF Rises
  <2>3. QED
    BY <1>2, <1>4, <2>1, <2>2 DEF Reached, Shown
<1>5. QED
  BY <1>3, <1>4 DEF Reached, Shown

\* What each step is shown to keep.
Covers == Timed /\ PassCovers /\ MarkCovers

\* Steps that touch neither times nor watermark, and leave the pass or end it.
LEMMA QuietCovers ==
    ASSUME CoverInv, StaysTrue, envs \subseteq envs', failedEnvs \subseteq failedEnvs',
           pass' = pass \/ pass'.pc = "idle", UNCHANGED <<at, mark, slipped>>,
           \A e \in Envelopes : out[e] \in Settled \/ out'[e] \in Settled => out'[e] = out[e]
    PROVE  Covers'
<1> USE DEF CoverInv
<1>1. \A e \in Envelopes : out[e] \in Settled /\ Reached(e) => Reached(e)'
  BY ReachedStays
<1>2. \A e \in Envelopes : Reached(e) => out[e] \in Settled
  BY DEF Reached, Shown, Settled
<1>3. Timed'
  BY DEF Timed
<1>4. MarkCovers'
  BY <1>1, <1>2 DEF MarkCovers
<1>5. PassCovers'
  <2>1. SUFFICES ASSUME pass' = pass, pass.pc # "idle" PROVE PassCovers'
    BY DEF PassCovers
  <2>2. pass.since = mark
    BY <2>1 DEF PassCovers
  <2>3. \A e \in Envelopes : /\ out'[e] = "sent" => out[e] = "sent"
                             /\ out'[e] = "failed" => out[e] = "failed"
    BY DEF Settled
  <2>4. QED
    BY <1>1, <1>2, <2>1, <2>2, <2>3 DEF PassCovers
<1>6. QED
  BY <1>3, <1>4, <1>5 DEF Covers

\* An outcome that has not slipped is past the watermark, and its page is still
\* to be listed.
LEMMA SettleCovers ==
    ASSUME CoverInv, StaysTrue, NEW e \in Envelopes, NEW s \in Settled, Settle(e, s)
    PROVE  Covers'
<1> USE DEF CoverInv, TruthInv
<1>1. UNCHANGED <<row, envs, failedEnvs, pass, mark>>
  BY DEF Settle
<1>2. /\ out[e] = "queued" /\ out' = [out EXCEPT ![e] = s]
      /\ at' = [at EXCEPT ![e] = began[e]] /\ began[e] # 0
      /\ slipped' = IF Slips(s, began[e]) THEN slipped \cup {e} ELSE slipped
  BY DEF Settle, Types
<1>3. \A f \in Envelopes : f # e => out'[f] = out[f] /\ at'[f] = at[f]
  BY <1>2 DEF Types
<1>4. out'[e] = s /\ at'[e] = began[e] /\ began[e] \in Nat /\ mark \in Nat
  BY <1>2 DEF Types
<1>5. slipped \subseteq slipped' /\ (e \notin slipped' => ~Slips(s, began[e]))
  BY <1>2
<1>6. \A f \in Envelopes : f # e => (Reached(f) => Reached(f)')
  BY <1>1, <1>3 DEF Reached, Shown
<1>7. Timed'
  BY <1>2, <1>3, <1>4 DEF Timed
<1>8. MarkCovers'
  <2>1. e \notin slipped' => ~(at'[e] \in 1 .. mark')
    BY <1>1, <1>4, <1>5 DEF Slips
  <2>2. QED
    BY <1>1, <1>3, <1>5, <1>6, <2>1 DEF MarkCovers
<1>9. PassCovers'
  <2>1. SUFFICES ASSUME pass.pc # "idle" PROVE PassCovers'
    BY <1>1 DEF PassCovers
  <2>2. ASSUME e \notin slipped'
        PROVE  /\ s \in {pass.left[i] : i \in 1 .. Len(pass.left)}
               /\ pass.pc = "apply" => s # Head(pass.left)
    BY <1>5, <2>1, <2>2 DEF Slips
  <2>3. e \notin slipped' /\ out'[e] = "sent" => pass.left = <<"sent", "failed">> /\ pass.pc = "list"
    BY <1>4, <2>1, <2>2 DEF Types, Lefts, Passes
  <2>4. e \notin slipped' /\ out'[e] = "failed" =>
          pass.left = <<"sent", "failed">> \/ (pass.left = <<"failed">> /\ pass.pc = "list")
    <3>1. pass.left = <<>> => {pass.left[i] : i \in 1 .. Len(pass.left)} = {}
      OBVIOUS
    <3>2. pass.left = <<"failed">> => Head(pass.left) = "failed"
      OBVIOUS
    <3>3. /\ pass.left = <<>> \/ pass.left = <<"failed">> \/ pass.left = <<"sent", "failed">>
          /\ pass.pc = "list" \/ pass.pc = "apply"
      BY <2>1 DEF Types, Lefts, Passes
    <3>4. e \notin slipped' => pass.left # <<>>
      BY <2>2, <3>1
    <3>5. e \notin slipped' /\ s = "failed" /\ pass.left = <<"failed">> => pass.pc # "apply"
      BY <2>2, <3>2
    <3>6. QED
      BY <1>4, <3>3, <3>4, <3>5
  <2>5. \A f \in Envelopes \ slipped' : f # e => f \in Envelopes \ slipped
    BY <1>5
  <2>6. QED
    BY <1>1, <1>3, <1>6, <2>1, <2>3, <2>4, <2>5 DEF PassCovers
<1>10. QED
  BY <1>7, <1>8, <1>9 DEF Covers

\* A pass begins at the watermark, with both lists before it.
LEMMA ConnectCovers == ASSUME CoverInv, StaysTrue, Connect PROVE Covers'
<1> USE DEF CoverInv
<1>1. UNCHANGED <<out, at, row, envs, failedEnvs, mark>>
  BY DEF Connect
<1>2. CASE pass.pc # "idle"
  <2>1. pass' = pass /\ slipped' = slipped
    BY <1>2 DEF Connect
  <2>2. QED
    BY <1>1, <2>1, QuietCovers
<1>3. CASE pass.pc = "idle"
  <2>1. pass' = [idlePass EXCEPT !.pc = "list", !.left = <<"sent", "failed">>,
                                 !.since = mark, !.highest = mark]
    BY <1>3 DEF Connect
  <2>2. pass'.pc = "list" /\ pass'.left = <<"sent", "failed">> /\ pass'.since = mark
    BY <2>1 DEF idlePass
  <2>3. Timed'
    BY <1>1 DEF Timed
  <2>4. MarkCovers'
    <3>1. slipped' = {e \in slipped : at[e] <= mark}
      BY <1>3 DEF Connect
    <3>2. \A e \in Envelopes \ slipped' : at[e] \in 1 .. mark => e \in Envelopes \ slipped
      BY <3>1 DEF TruthInv, Types
    <3>3. \A e \in Envelopes : Reached(e) => Reached(e)'
      BY <1>1 DEF Reached, Shown
    <3>4. QED
      BY <1>1, <3>2, <3>3 DEF MarkCovers
  <2>5. PassCovers'
    BY <1>1, <2>2 DEF PassCovers
  <2>6. QED
    BY <2>3, <2>4, <2>5 DEF Covers
<1>4. QED
  BY <1>2, <1>3

\* A page that is not full holds everything there was to list.
LEMMA PageWhole ==
    ASSUME Types, NEW s, NEW p \in Page(s), ~(Cardinality(p) >= ScanLimit)
    PROVE  p = {e \in Envelopes : out[e] = s /\ at[e] > pass.since}
<1> DEFINE settled == {e \in Envelopes : out[e] = s /\ at[e] > pass.since}
<1>1. p \subseteq settled /\ Cardinality(p) = IF Cardinality(settled) > ScanLimit
                                                THEN ScanLimit ELSE Cardinality(settled)
  BY DEF Page
<1>2. IsFiniteSet(settled)
  BY FS_Subset, ConstantsAssumption
<1> HIDE DEF settled
<1>3. Cardinality(settled) \in Nat /\ ScanLimit \in Nat
  BY <1>2, FS_CardinalityType, ConstantsAssumption
<1>4. Cardinality(p) = Cardinality(settled)
  BY <1>1, <1>3
<1>5. p = settled
  BY <1>1, <1>2, <1>4, FS_Subset
<1>6. QED
  BY <1>5 DEF settled

\* A page that is not full leaves nothing of its state behind.
LEMMA ListPageCovers == ASSUME CoverInv, StaysTrue, ListPage PROVE Covers'
<1> USE DEF CoverInv, TruthInv
<1>1. UNCHANGED <<out, at, row, envs, failedEnvs, mark, slipped>>
  BY DEF ListPage
<1>2. PICK p \in Page(Head(pass.left)) :
        pass' = [pass EXCEPT !.pc = "apply", !.todo = p, !.highest = Higher(p),
                             !.truncated = @ \/ Cardinality(p) >= ScanLimit]
  BY DEF ListPage
<1>3. pass.pc = "list" /\ pass.left # <<>>
  BY DEF ListPage
<1>4. /\ pass'.pc = "apply" /\ pass'.left = pass.left /\ pass'.todo = p
      /\ pass'.since = pass.since
      /\ pass'.truncated = (pass.truncated \/ Cardinality(p) >= ScanLimit)
  BY <1>2 DEF Types
<1>5. pass.since = mark
  BY <1>3 DEF PassCovers
<1>6. Timed' /\ MarkCovers'
  BY <1>1 DEF Timed, MarkCovers, Reached, Shown
<1>7. \A e \in Envelopes : Reached(e) => Reached(e)'
  BY <1>1 DEF Reached, Shown
<1>8. ASSUME ~pass'.truncated, NEW e \in Envelopes \ slipped, at[e] > mark
      PROVE  /\ out[e] = "sent" =>
                  (pass.left = <<"sent", "failed">> /\ e \in p) \/ Reached(e)
             /\ out[e] = "failed" =>
                  \/ pass.left = <<"sent", "failed">>
                  \/ pass.left = <<"failed">> /\ e \in p
  <2>1. ~pass.truncated /\ ~(Cardinality(p) >= ScanLimit)
    BY <1>4, <1>8
  <2>2. out[e] = Head(pass.left) => e \in p
    BY <1>5, <1>8, <2>1, PageWhole
  <2>3. out[e] = "sent" => pass.left = <<"sent", "failed">> \/ Reached(e)
    BY <1>3, <1>8, <2>1, LeftFacts DEF PassCovers
  <2>4. pass.left = <<"sent", "failed">> \/ pass.left = <<"failed">>
    BY <1>3 DEF Types, Lefts
  <2>5. QED
    BY <2>2, <2>3, <2>4, LeftFacts
<1>9. PassCovers'
  BY <1>1, <1>4, <1>5, <1>7, <1>8 DEF PassCovers
<1>10. QED
  BY <1>6, <1>9 DEF Covers

\* The envelope a pass is through with is shown, or has slipped.
LEMMA ApplyOneCovers ==
    ASSUME CoverInv, StaysTrue, envs \subseteq envs', failedEnvs \subseteq failedEnvs',
           NEW e \in Envelopes, ApplyOne(e)
    PROVE  Covers'
<1> USE DEF CoverInv
<1>1. UNCHANGED <<out, at, envs, mark>>
  BY DEF ApplyOne
<1>2. pass.pc = "apply" /\ e \in pass.todo /\ pass' = [pass EXCEPT !.todo = @ \ {e}]
  BY DEF ApplyOne
<1>3. /\ pass'.pc = pass.pc /\ pass'.left = pass.left /\ pass'.todo = pass.todo \ {e}
      /\ pass'.since = pass.since /\ pass'.truncated = pass.truncated
  BY <1>2 DEF TruthInv, Types
<1>4. \A f \in Envelopes : Reached(f) => Reached(f)'
  BY <1>1, ReachedStays
<1>5. slipped \subseteq slipped'
  BY DEF ApplyOne
<1>6. ASSUME e \notin slipped' PROVE Reached(e)'
  <2> DEFINE s == Head(pass.left)
  <2>1. s \in Settled /\ out[e] = s
    BY <1>2, LeftFacts DEF TruthInv, Truthful, Types, Lefts, Settled
  <2>2. e \in envs /\ IF row = s THEN UNCHANGED <<row, failedEnvs>> ELSE UpdateDeliveryState(e, s)
    BY <1>6 DEF ApplyOne
  <2> HIDE DEF s
  <2>3. CASE row = s
    BY <1>1, <2>1, <2>2, <2>3 DEF Reached, Shown, Settled
  <2>4. CASE row # s
    <3>1. \/ s = "sent" /\ row' \in {"sent", "delivered", "read"}
          \/ s = "failed" /\ e \in failedEnvs'
      BY <2>1, <2>2, <2>4, UpdateRises
    <3>2. QED
      BY <1>1, <2>1, <2>2, <3>1 DEF Reached, Shown
  <2>5. QED
    BY <2>3, <2>4
<1>7. Timed' /\ MarkCovers'
  BY <1>1, <1>4, <1>5 DEF Timed, MarkCovers
<1>8. PassCovers'
  <2>1. pass.since = mark
    BY <1>2 DEF PassCovers
  <2>2. ASSUME ~pass'.truncated, NEW f \in Envelopes \ slipped', at'[f] > mark'
        PROVE  /\ out'[f] = "sent" =>
                    \/ pass'.left = <<"sent", "failed">> /\ f \in pass'.todo
                    \/ Reached(f)'
               /\ out'[f] = "failed" =>
                    \/ pass'.left = <<"sent", "failed">>
                    \/ pass'.left = <<"failed">> /\ f \in pass'.todo
                    \/ Reached(f)'
    <3>1. CASE f = e
      BY <1>6, <2>2, <3>1
    <3>2. CASE f # e
      BY <1>1, <1>2, <1>3, <1>4, <1>5, <2>2, <3>2 DEF PassCovers
    <3>3. QED
      BY <3>1, <3>2
  <2>3. QED
    BY <1>1, <1>3, <2>1, <2>2 DEF PassCovers
<1>9. QED
  BY <1>7, <1>8 DEF Covers

\* A page is done when each of its envelopes is shown or has slipped.
LEMMA PageDoneCovers == ASSUME CoverInv, StaysTrue, PageDone PROVE Covers'
<1> USE DEF CoverInv, TruthInv
<1>1. UNCHANGED <<out, at, row, envs, failedEnvs, mark, slipped>>
  BY DEF PageDone
<1>2. pass.pc = "apply" /\ pass.todo = {}
  BY DEF PageDone
<1>3. /\ pass'.pc = "list" /\ pass'.left = Tail(pass.left)
      /\ pass'.since = pass.since /\ pass'.truncated = pass.truncated
  BY DEF PageDone, Types
<1>4. \A e \in Envelopes : Reached(e) => Reached(e)'
  BY <1>1 DEF Reached, Shown
<1>5. Timed' /\ MarkCovers'
  BY <1>1 DEF Timed, MarkCovers, Reached, Shown
<1>6. \/ pass.left = <<"sent", "failed">> /\ pass'.left = <<"failed">>
      \/ pass.left = <<"failed">> /\ pass'.left = <<>>
  BY <1>2, <1>3, LeftFacts DEF Truthful, Types, Lefts
<1>7. PassCovers'
  BY <1>1, <1>2, <1>3, <1>4, <1>6, LeftFacts DEF PassCovers
<1>8. QED
  BY <1>5, <1>7 DEF Covers

\* The watermark moves past what the whole pass has shown.
LEMMA WatermarkMoves == ASSUME CoverInv, StaysTrue, SetOutboxReconcileWatermark PROVE Covers'
<1> USE DEF CoverInv, TruthInv
<1>1. UNCHANGED <<out, at, row, envs, failedEnvs, slipped>>
  BY DEF SetOutboxReconcileWatermark
<1>2. pass.pc = "list" /\ pass.left = <<>>
  BY DEF SetOutboxReconcileWatermark
<1>3. pass'.pc = "idle"
  BY DEF SetOutboxReconcileWatermark, idlePass
<1>4. \A e \in Envelopes : Reached(e) => Reached(e)'
  BY <1>1 DEF Reached, Shown
<1>5. MarkCovers'
  <2>1. CASE pass.truncated
    BY <1>1, <1>4, <2>1 DEF MarkCovers, SetOutboxReconcileWatermark
  <2>2. CASE ~pass.truncated
    <3>1. ASSUME NEW e \in Envelopes \ slipped, at[e] # 0 PROVE Reached(e)
      <4>1. at[e] \in Nat /\ mark \in Nat
        BY DEF Types
      <4>2. out[e] = "sent" \/ out[e] = "failed"
        BY <3>1 DEF Timed, Settled
      <4>3. CASE at[e] > mark
        BY <1>2, <2>2, <4>2, <4>3, LeftFacts DEF PassCovers
      <4>4. CASE ~(at[e] > mark)
        BY <3>1, <4>1, <4>4 DEF MarkCovers
      <4>5. QED
        BY <4>3, <4>4
    <3>2. QED
      BY <1>1, <1>4, <3>1 DEF MarkCovers
  <2>3. QED
    BY <2>1, <2>2 DEF Types
<1>6. Timed' /\ PassCovers'
  BY <1>1, <1>3 DEF Timed, PassCovers
<1>7. QED
  BY <1>5, <1>6 DEF Covers

\* Every step keeps what the watermark covers.
LEMMA CoverStep == ASSUME CoverInv, [Next]_vars PROVE CoverInv'
<1>1. StaysTrue /\ envs \subseteq envs' /\ failedEnvs \subseteq failedEnvs'
  BY TruthStep, ListsGrow DEF CoverInv
<1>2. CASE \E e \in Envelopes, s \in Settled : Settle(e, s)
  BY <1>1, <1>2, SettleCovers DEF CoverInv, StaysTrue, Covers
<1>3. CASE \E e \in Envelopes : ApplyOne(e)
  BY <1>1, <1>3, ApplyOneCovers DEF CoverInv, StaysTrue, Covers
<1>4. CASE Connect \/ ListPage \/ PageDone \/ SetOutboxReconcileWatermark
  BY <1>1, <1>4, ConnectCovers, ListPageCovers, PageDoneCovers, WatermarkMoves
     DEF CoverInv, StaysTrue, Covers
<1>5. ASSUME UNCHANGED <<at, mark, slipped>>, pass' = pass \/ pass' = idlePass,
             \/ UNCHANGED out
             \/ \E e \in Envelopes : Dispatch(e)
      PROVE  CoverInv'
  <2>1. \A f \in Envelopes : out[f] \in Settled \/ out'[f] \in Settled => out'[f] = out[f]
    <3>1. CASE UNCHANGED out
      BY <3>1
    <3>2. CASE \E e \in Envelopes : Dispatch(e)
      <4>1. PICK e \in Envelopes : Dispatch(e)
        BY <3>2
      <4>2. out[e] = "none" /\ out \in [Envelopes -> {"none", "queued"} \cup Settled]
        BY <4>1 DEF Dispatch, CoverInv, TruthInv, Types
      <4>3. out' = out \/ out' = [out EXCEPT ![e] = "queued"]
        BY <4>1 DEF Dispatch
      <4>4. QED
        BY <4>2, <4>3 DEF Settled
    <3>3. QED
      BY <1>5, <3>1, <3>2
  <2>2. pass' = pass \/ pass'.pc = "idle"
    BY <1>5 DEF idlePass
  <2>3. Covers'
    BY <1>1, <1>5, <2>1, <2>2, QuietCovers
  <2>4. QED
    BY <1>1, <2>3 DEF CoverInv, StaysTrue, Covers
<1>6. CASE \E e \in Envelopes : Dispatch(e) \/ processRow(e) \/ PutOff(e)
  BY <1>5, <1>6 DEF Dispatch, processRow, PutOff
<1>7. CASE AppendOutbound \/ OnDelivery \/ Disconnect \/ ListFails \/ Receipt \/ Mirror
  BY <1>5, <1>7 DEF AppendOutbound, OnDelivery, Disconnect, ListFails, Receipt, Mirror
<1>8. CASE Snapshot \/ GapFill \/ Restart \/ UNCHANGED vars
  BY <1>5, <1>8 DEF Snapshot, GapFill, Restart, vars
<1>9. QED
  BY <1>2, <1>3, <1>4, <1>6, <1>7, <1>8 DEF Next

\* The watermark starts before every outcome.
LEMMA CoverInit == Init => CoverInv
<1>1. Init => Timed /\ MarkCovers
  BY DEF Init, Timed, MarkCovers, Settled
<1>2. Init => PassCovers
  BY DEF Init, PassCovers, idlePass
<1>3. QED
  BY <1>1, <1>2, TruthInit DEF CoverInv

-----------------------------------------------------------------------------
\* allEnvelopesFailed: whatever reports are lost, late or repeated, neither of
\* the user's devices shows "failed" while some device of the contact may still
\* get the message or has it.
THEOREM DeliveryFailedMeansAllFailed == Spec => []FailedMeansAllFailed
<1>1. TruthInv => FailedMeansAllFailed
  BY DEF TruthInv, FailedTrue, FailedAround, AllFailed, FailedMeansAllFailed, accepted
<1>2. QED
  BY <1>1, TruthInvariant, PTL

\* UpdateDeliveryState, the receipts and the snapshots never move a mark down,
\* on either device.
THEOREM DeliveryMarkRises == Spec => MarkRises
<1> DEFINE Up == \A m \in {<<row, row'>>, <<sib, sib'>>} :
                   \/ m[1] = m[2] \/ m[1] = "none"
                   \/ DeliveryOutranks(m[1], m[2])
                   \/ m[1] = "failed" /\ m[2] = "read"
                   \/ m[2] = "failed" /\ m[1] \in {"enqueued", "sent"}
<1>1. TruthInv /\ [Next]_vars => Up
  BY TruthStep DEF StaysTrue, Rises
<1>2. MarkRises <=> [][Up]_vars
  BY DEF MarkRises
<1> HIDE DEF Up
<1>3. QED
  BY <1>1, <1>2, TruthInvariant, PTL DEF Spec

\* reconcileDeliveryMarkers: whatever the page limit, an outcome the watermark
\* has passed is in the row, unless it slipped.
THEOREM DeliveryWatermarkCovers == Spec => []WatermarkCovers
<1>1. CoverInv /\ [Next]_vars => CoverInv'
  BY CoverStep
<1>2. CoverInv => WatermarkCovers
  BY DEF CoverInv, TruthInv, Types, MarkCovers, Reached, WatermarkCovers
<1>3. QED
  BY <1>1, <1>2, CoverInit, PTL DEF Spec
=============================================================================
