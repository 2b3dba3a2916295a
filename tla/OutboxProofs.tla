---------------------------- MODULE OutboxProofs ----------------------------
(***************************************************************************)
(* Proofs about the outbox, for every set of envelopes, destinations and   *)
(* kickers, every clock bound, limit and retention.                        *)
(***************************************************************************)
EXTENDS Outbox, FiniteSetTheorems, TLAPS

\* A value that may be stored for an attempt: what Advance is called with.
AdvancedRow == {r \in Row : r.state # "none"}

\* The row values handleSendErr and handleSendOK compute are well-formed rows,
\* never "no row".
LEMMA AttemptedType ==
    ASSUME NEW j \in Job
    PROVE  Attempted(j) \in Row
<1>1. j.row \in Row /\ j.at \in Time
  BY DEF Job
<1>2. NewKicked(j.row) \in Nat
  BY <1>1 DEF NewKicked, Row
<1>3. j.row.attempts + 1 \in Nat
  BY <1>1 DEF Row
<1>4. ASSUME NEW row \in Row, NEW m \in Nat, NEW n \in Nat
      PROVE  [row EXCEPT !.attempts = m, !.kickedAttempts = n] \in Row
  BY DEF Row
<1>5. Charged(j.row) \in Row
  BY <1>1, <1>2, <1>3, <1>4 DEF Charged
<1> QED
  BY <1>1, <1>5 DEF Attempted, Row

\* A terminal outcome yields a well-formed row in that state.
LEMMA SettleType ==
    ASSUME NEW row \in Row, NEW s \in Terminal
    PROVE  Settle(row, s) \in AdvancedRow /\ Settle(row, s).state = s
<1>1. 0 \in Time
  BY OutboxAssumption DEF Time
<1>2. ASSUME NEW t \in Time
      PROVE  [row EXCEPT !.state = s, !.nextAt = t] \in AdvancedRow
  BY DEF AdvancedRow, Row, Terminal
<1> QED
  BY <1>1, <1>2 DEF Settle, Row

\* A back-off yields a well-formed row that is still enqueued.
LEMMA RescheduleType ==
    ASSUME NEW j \in Job, NEW row \in Row
    PROVE  \A r \in Reschedule(j, row) : r \in AdvancedRow /\ r.state = "enqueued"
<1> TAKE r \in Reschedule(j, row)
<1>1. PICK b \in Backoff(CountedAttempts(row)) :
          r = [row EXCEPT !.state = "enqueued", !.nextAt = Capped(j.at + b)]
  BY DEF Reschedule
<1>2. b \in Nat
  BY <1>1, OutboxAssumption DEF Backoff
<1>3. j.at \in Nat
  BY OutboxAssumption DEF Job, Time
<1>4. Capped(j.at + b) \in Time
  BY <1>2, <1>3, OutboxAssumption DEF Capped, Time
<1> QED
  BY <1>1, <1>4 DEF AdvancedRow, Row

\* Whatever an attempt ends with, the row transition stores is well-formed and is
\* never "no row".
LEMMA OutcomeTypes ==
    ASSUME NEW j \in Job
    PROVE  /\ RefusedRows(j) \subseteq AdvancedRow
           /\ FailedRows(j) \subseteq AdvancedRow
           /\ BadAckRows(j) \subseteq AdvancedRow
           /\ SentRows(j) \subseteq AdvancedRow
<1>1. Attempted(j) \in Row
  BY AttemptedType
<1>2. Settle(Attempted(j), "failed") \in AdvancedRow
  BY <1>1, SettleType DEF Terminal
<1>3. [Settle(Attempted(j), "failed") EXCEPT !.gaveUp = TRUE] \in AdvancedRow
  BY <1>2 DEF AdvancedRow, Row
<1>4. Reschedule(j, Attempted(j)) \subseteq AdvancedRow
  BY <1>1, RescheduleType
<1> DEFINE bad == [Attempted(j) EXCEPT !.ackFailures = @ + 1]
<1>5. bad \in Row
  BY <1>1 DEF Row
<1>6. Settle(bad, "failed") \in AdvancedRow /\ Reschedule(j, bad) \subseteq AdvancedRow
  BY <1>5, SettleType, RescheduleType DEF Terminal
<1> DEFINE ok == [j.row EXCEPT !.attempts = @ + 1, !.kicked = FALSE,
                               !.ackFailures = 0, !.changedAt = j.at]
<1>7. ok \in Row
  <2>1. j.row \in Row /\ j.at \in Time /\ j.row.attempts + 1 \in Nat
    BY DEF Job, Row
  <2>2. ASSUME NEW row \in Row, NEW m \in Nat, NEW t \in Time
        PROVE  [row EXCEPT !.attempts = m, !.kicked = FALSE,
                           !.ackFailures = 0, !.changedAt = t] \in Row
    BY DEF Row
  <2> QED
    BY <2>1, <2>2
<1>8. Settle(ok, "sent") \in AdvancedRow
  BY <1>7, SettleType DEF Terminal
<1> QED
  BY <1>2, <1>3, <1>4, <1>6, <1>8 DEF RefusedRows, FailedRows, BadAckRows, SentRows

-----------------------------------------------------------------------------
USE DEF durable, runVars, destVars, shutVars, callers, world, counters

\* The value standing for a missing key is a Row in state "none".
LEMMA NoRowType == NoRow \in Row /\ NoRow.state = "none"
<1>1. 0 \in Time
  BY OutboxAssumption DEF Time
<1> QED
  BY <1>1 DEF NoRow, Row

\* A kicker at rest is a well-formed kick.
LEMMA IdleKickType == IdleKick \in KickOp
<1>1. 0 \in Time
  BY OutboxAssumption DEF Time
<1> QED
  BY <1>1 DEF IdleKick, KickOp

\* Enqueue and Migrate store a row that is enqueued and due now.
LEMMA FreshRowType ==
    ASSUME NEW a \in Nat, NEW t \in Time, now \in 1..MaxTime
    PROVE  /\ FreshRow(a, t) \in Row
           /\ FreshRow(a, t).state = "enqueued"
           /\ FreshRow(a, t).nextAt = now
<1>1. 0 \in Time /\ now \in Time
  BY OutboxAssumption DEF Time
<1> QED
  BY <1>1 DEF FreshRow, NoRow, Row

\* Enqueue keeps the stored values well-formed.
LEMMA InsertType ==
    ASSUME TypeOK, NEW e \in Envs, NEW row \in Row, row.state = "enqueued",
           Insert(e, row)
    PROVE  /\ rows' \in [Envs -> Row]
           /\ due' \subseteq Time \X Envs
           /\ stIdx' \subseteq {"enqueued", "sent", "failed"} \X Envs
BY DEF Insert, TypeOK, Row

\* Advance keeps the stored values well-formed, whatever snapshot it is given.
LEMMA AdvanceType ==
    ASSUME TypeOK, NEW e \in Envs, NEW snap \in Row, NEW new \in AdvancedRow,
           Advance(e, snap, new)
    PROVE  /\ rows' \in [Envs -> Row]
           /\ due' \subseteq Time \X Envs
           /\ stIdx' \subseteq {"enqueued", "sent", "failed"} \X Envs
           /\ legacy' \subseteq Envs /\ accepted' \subseteq Envs
           /\ settled' \in [Envs -> SUBSET Terminal]
           /\ overtaken' \subseteq Envs
<1>1. new \in Row /\ new.state \in {"enqueued", "sent", "failed"} /\ new.nextAt \in Time
  BY DEF AdvancedRow, Row
<1>2. rows' \in [Envs -> Row]
  BY <1>1 DEF Advance, TypeOK
<1>3. due' \subseteq Time \X Envs
  BY <1>1 DEF Advance, AdvanceIndexes, TypeOK
<1>4. stIdx' \subseteq {"enqueued", "sent", "failed"} \X Envs
  BY <1>1 DEF Advance, AdvanceIndexes, TypeOK
<1>5. settled' \in [Envs -> SUBSET Terminal]
  BY DEF Advance, TypeOK
<1> QED
  BY <1>2, <1>3, <1>4, <1>5 DEF Advance, TypeOK

\* A pass is made of well-formed copies of stored rows.
LEMMA ListDueType ==
    ASSUME TypeOK, NEW d \in Dests
    PROVE  ListDue(d) \subseteq Item
BY DEF ListDue, TypeOK, Item

\* Starting a pass keeps the goroutine's state well-formed.
LEMMA DrainDestType ==
    ASSUME TypeOK, NEW d \in Dests, DrainDest(d)
    PROVE  /\ pass' \in [Dests -> SUBSET Item]
           /\ pc' \in [Dests -> {"none", "new", "idle", "pass", "go", "sending",
                                 "exited"}]
           /\ faults' \in 0..MaxFaults
BY ListDueType, OutboxAssumption DEF DrainDest, TypeOK

\* A kick keeps a row well-formed.
LEMMA KickedRowType ==
    ASSUME NEW r \in Row, NEW t \in Time
    PROVE  [r EXCEPT !.nextAt = t, !.kicked = TRUE] \in Row
BY DEF Row

\* Every action keeps every variable in its type.
LEMMA TypeStep == TypeOK /\ [Next]_vars => TypeOK'
<1> SUFFICES ASSUME TypeOK, [Next]_vars PROVE TypeOK'
  OBVIOUS
<1> USE OutboxAssumption
<1>1. ASSUME NEW e \in Envs, Enqueue(e) PROVE TypeOK'
  <2>1. now \in Time /\ 0 \in Nat
    BY DEF TypeOK, Time
  <2>2. FreshRow(0, now) \in Row /\ FreshRow(0, now).state = "enqueued"
    BY <2>1, FreshRowType DEF TypeOK
  <2>3. Insert(e, FreshRow(0, now))
    BY <1>1 DEF Enqueue
  <2> QED
    BY <1>1, <2>2, <2>3, InsertType DEF Enqueue, TypeOK
<1>2. ASSUME NEW e \in Envs, NEW a \in {0, 1}, Migrate(e, a) PROVE TypeOK'
  <2>1. 0 \in Time /\ a \in Nat
    BY DEF Time
  <2>2. FreshRow(a, 0) \in Row /\ FreshRow(a, 0).state = "enqueued"
    BY <2>1, FreshRowType DEF TypeOK
  <2>3. Insert(e, FreshRow(a, 0))
    BY <1>2 DEF Migrate
  <2> QED
    BY <1>2, <2>2, <2>3, InsertType DEF Migrate, TypeOK
<1>3. ASSUME NEW k \in Kickers, NEW s \in SUBSET Dests \ {{}}, NEW all \in BOOLEAN,
             KickStart(k, s, all)
      PROVE  TypeOK'
  BY <1>3 DEF KickStart, KickOp, TypeOK, Time
<1>4. ASSUME NEW k \in Kickers, KickRead(k) PROVE TypeOK'
  <2> DEFINE listed == {e \in Envs : <<"enqueued", e>> \in stIdx}
             seen == {e \in listed : DestOf[e] \in kicks[k].sel
                                     /\ rows[e].nextAt > kicks[k].at}
             next == [kicks[k] EXCEPT !.st = "write", !.seen = seen]
  <2>1. seen \in SUBSET Envs
    OBVIOUS
  <2>2. next \in KickOp
    BY <2>1 DEF KickOp, TypeOK
  <2>3. kicks' = [kicks EXCEPT ![k] = IdleKick] \/ kicks' = [kicks EXCEPT ![k] = next]
    BY <1>4 DEF KickRead
  <2>4. kicks' \in [Kickers -> KickOp]
    BY <2>2, <2>3, IdleKickType DEF TypeOK
  <2> QED
    BY <1>4, <2>4 DEF KickRead, TypeOK
<1>5. ASSUME NEW k \in Kickers, KickWrite(k) PROVE TypeOK'
  <2> DEFINE moved == {e \in kicks[k].seen : Kickable(k, e)}
             at == kicks[k].at
  <2>1. at \in Time /\ kicks[k].sel \subseteq Dests /\ moved \subseteq Envs
    BY DEF TypeOK, KickOp
  <2>2. rows' \in [Envs -> Row]
    <3>1. \A e \in Envs : [rows[e] EXCEPT !.nextAt = at, !.kicked = TRUE] \in Row
      BY <2>1, KickedRowType DEF TypeOK
    <3>2. rows' = [e \in Envs |->
                     IF e \in moved
                     THEN [rows[e] EXCEPT !.nextAt = at, !.kicked = TRUE]
                     ELSE rows[e]]
      BY <1>5 DEF KickWrite
    <3> QED
      BY <3>1, <3>2 DEF TypeOK
  <2>3. due' \subseteq Time \X Envs
    <3>1. due' = KickedDue(at, moved)
      BY <1>5 DEF KickWrite
    <3> QED
      BY <3>1, <2>1 DEF KickedDue, TypeOK
  <2>4. wakes' \subseteq Dests
    <3>1. wakes' \subseteq wakes \cup {DestOf[e] : e \in moved} \cup kicks[k].sel
      BY <1>5 DEF KickWrite
    <3> QED
      BY <2>1, <3>1 DEF TypeOK
  <2>5. overtaken' \subseteq Envs
    BY <1>5 DEF KickWrite, InHand, TypeOK
  <2> QED
    BY <1>5, <2>2, <2>3, <2>4, <2>5, IdleKickType DEF KickWrite, TypeOK
<1>6. ASSUME NEW k \in Kickers, KickFail(k) PROVE TypeOK'
  BY <1>6, IdleKickType DEF KickFail, TypeOK
<1>7. ASSUME NEW d \in Dests, Wake(d) PROVE TypeOK'
  BY <1>7 DEF Wake, EnsureDest, TypeOK
<1>8. ASSUME NEW d \in Dests, DestFirst(d) \/ DestKicked(d) \/ DestTick(d) PROVE TypeOK'
  BY <1>8, DrainDestType DEF DestFirst, DestKicked, DestTick, DrainUnchanged, TypeOK
<1>9. ASSUME NEW d \in Dests, DestPick(d) PROVE TypeOK'
  <2>1. PICK i \in pass[d] :
          /\ pass' = [pass EXCEPT ![d] = @ \ {i}]
          /\ job' = [job EXCEPT ![d] = {[env |-> i.env, row |-> i.row, at |-> 0]}]
    BY <1>9 DEF DestPick
  <2>2. [env |-> i.env, row |-> i.row, at |-> 0] \in Job
    BY DEF TypeOK, Item, Job, Time
  <2> QED
    BY <1>9, <2>1, <2>2 DEF DestPick, TypeOK
<1>10. ASSUME NEW d \in Dests, DestLeave(d) PROVE TypeOK'
  BY <1>10 DEF DestLeave, TypeOK
<1>11. ASSUME NEW d \in Dests, DestSend(d) PROVE TypeOK'
  <2>1. {[j EXCEPT !.at = now] : j \in job[d]} \subseteq Job
    BY DEF TypeOK, Job, Time
  <2> QED
    BY <1>11, <2>1 DEF DestSend, TypeOK
<1>12. ASSUME NEW d \in Dests, DestExit(d) PROVE TypeOK'
  BY <1>12 DEF DestExit, TypeOK
<1>13. ASSUME NEW d \in Dests, Deliver(d) PROVE TypeOK'
  <2>1. PICK j \in job[d] : \E new \in AdvancedRow : Finish(d, j, new)
    <3>1. \A j \in job[d] : j \in Job
      BY DEF TypeOK
    <3> QED
      BY <1>13, <3>1, OutcomeTypes DEF Deliver, SendRefused, SendFailed, SendBadAck, SendOK
  <2>2. PICK new \in AdvancedRow : Finish(d, j, new)
    BY <2>1
  <2>3. j.env \in Envs /\ j.row \in Row
    BY DEF TypeOK, Job
  <2>4. RowDone(d) /\ Advance(j.env, j.row, new) /\ UNCHANGED faults
    BY <2>2 DEF Finish
  <2> QED
    BY <2>3, <2>4, AdvanceType DEF RowDone, TypeOK
<1>14. ASSUME NEW d \in Dests, AdvanceFails(d) PROVE TypeOK'
  BY <1>14 DEF AdvanceFails, RowDone, TypeOK
<1>15. ASSUME NEW d \in Dests, HoldChange(d) PROVE TypeOK'
  BY <1>15 DEF HoldChange, TypeOK
<1>16. CASE Boot
  BY <1>16 DEF Boot, TypeOK
<1>17. CASE Spawn
  BY <1>17 DEF Spawn, TypeOK
<1>18. CASE RunStart
  BY <1>18 DEF RunStart, TypeOK
<1>19. CASE RunSeed
  <2>1. wakes' \subseteq Dests
    <3>1. \A s \in SUBSET Envs : SeedDests(s) \subseteq Dests
      BY DEF SeedDests
    <3> QED
      BY <1>19, <3>1 DEF RunSeed, TypeOK
  <2> QED
    BY <1>19, <2>1 DEF RunSeed, TypeOK
<1>20. CASE GateTick
  BY <1>20 DEF GateTick, TypeOK, GateOpened
<1>21. CASE GCRead
  BY <1>21 DEF GCRead, TypeOK, Collectable, Terminal, Row
<1>22. CASE GCWrite
  BY <1>22, NoRowType DEF GCWrite, TypeOK
<1>23. CASE RunStop
  BY <1>23 DEF RunStop, TypeOK
<1>24. CASE DrainBegin
  BY <1>24 DEF DrainBegin, TypeOK
<1>25. CASE DrainReturn
  BY <1>25 DEF DrainReturn, TypeOK
<1>26. CASE DrainExpire
  BY <1>26 DEF DrainExpire, TypeOK
<1>27. CASE Cancel
  BY <1>27 DEF Cancel, TypeOK
<1>28. CASE Down
  <2>1. /\ kicks' \in [Kickers -> KickOp]
        /\ pc' \in [Dests -> {"none", "new", "idle", "pass", "go", "sending", "exited"}]
        /\ pass' \in [Dests -> SUBSET Item]
        /\ job' \in [Dests -> SUBSET Job]
    BY <1>28, IdleKickType DEF Down
  <2>2. stops' \in 0..MaxStops
    BY <1>28 DEF Down, TypeOK
  <2> QED
    BY <1>28, <2>1, <2>2 DEF Down, TypeOK
<1>29. CASE Tick
  BY <1>29 DEF Tick, TypeOK
<1>30. CASE StepBack
  BY <1>30 DEF StepBack, TypeOK
<1>31. CASE GateChange
  BY <1>31 DEF GateChange, TypeOK
<1>32. CASE UNCHANGED vars
  BY <1>32 DEF vars, TypeOK
<1> QED
  BY <1>1, <1>2, <1>3, <1>4, <1>5, <1>6, <1>7, <1>8, <1>9, <1>10, <1>11, <1>12,
     <1>13, <1>14, <1>15, <1>16, <1>17, <1>18, <1>19, <1>20, <1>21, <1>22,
     <1>23, <1>24, <1>25, <1>26, <1>27, <1>28, <1>29, <1>30, <1>31, <1>32
     DEF Next, KickStep, DestStep, RunStep, ShutStep

\* The store a daemon first starts on is well-formed.
LEMMA TypeInit == Init => TypeOK
<1> SUFFICES ASSUME Init PROVE TypeOK
  OBVIOUS
<1>1. /\ rows \in [Envs -> Row]
      /\ settled \in [Envs -> SUBSET Terminal]
      /\ kicks \in [Kickers -> KickOp]
      /\ pc \in [Dests -> {"none", "new", "idle", "pass", "go", "sending", "exited"}]
      /\ pass \in [Dests -> SUBSET Item]
      /\ job \in [Dests -> SUBSET Job]
  BY NoRowType, IdleKickType DEF Init
<1>2. now \in 1..MaxTime /\ faults \in 0..MaxFaults /\ stops \in 0..MaxStops
      /\ kickCount \in 0..MaxKicks /\ legacy \subseteq Envs
  BY OutboxAssumption DEF Init
<1> QED
  BY <1>1, <1>2 DEF Init, TypeOK

\* TypeOK holds in every reachable state of the outbox.
THEOREM OutboxTypeOK == Spec => []TypeOK
BY TypeInit, TypeStep, PTL DEF Spec

-----------------------------------------------------------------------------
\* NoLostMessage is not inductive: a collection deletes what its scan chose some
\* steps earlier, and a settled row can only be collected because a settled
\* outcome was recorded.  Nothing is assumed of the snapshots the destinations
\* hold: a stale one may leave keys too many, never one too few.
Findable ==
    \A e \in Envs : rows[e].state = "enqueued" =>
        <<rows[e].nextAt, e>> \in due /\ <<"enqueued", e>> \in stIdx

SettledRecorded ==
    /\ \A e \in Envs : rows[e].state \in Terminal => settled[e] # {}
    /\ \A e \in accepted : rows[e].state = "none" => settled[e] # {}
    /\ \A v \in gcVictims : settled[v[2]] # {}

NoLossInv == TypeOK /\ Findable /\ SettledRecorded

\* A row stored by Enqueue or Migrate is reachable through both indexes.
LEMMA InsertFindable ==
    ASSUME NoLossInv, NEW e \in Envs, NEW row \in Row, row.state = "enqueued",
           Insert(e, row)
    PROVE  Findable' /\ (\A x \in Envs : x # e => rows'[x] = rows[x])
                     /\ rows'[e] = row
BY DEF NoLossInv, TypeOK, Findable, Insert

\* Advance leaves every enqueued row reachable, even from a stale snapshot: it removes
\* keys of the row it rewrites only, and adds the keys of what it writes.
LEMMA AdvanceFindable ==
    ASSUME NoLossInv, NEW e \in Envs, NEW snap \in Row, NEW new \in AdvancedRow,
           Advance(e, snap, new)
    PROVE  /\ Findable'
           /\ \A x \in Envs : x # e => rows'[x] = rows[x] /\ settled'[x] = settled[x]
           /\ rows'[e] = new
           /\ settled'[e] = settled[e] \cup ({new.state} \cap Terminal)
<1>1. /\ \A x \in Envs : x # e => rows'[x] = rows[x] /\ settled'[x] = settled[x]
      /\ rows'[e] = new
      /\ settled'[e] = settled[e] \cup ({new.state} \cap Terminal)
  BY DEF NoLossInv, TypeOK, Advance
<1>2. ASSUME NEW x \in Envs, rows'[x].state = "enqueued"
      PROVE  <<rows'[x].nextAt, x>> \in due' /\ <<"enqueued", x>> \in stIdx'
  <2>1. CASE x = e
    BY <1>1, <1>2, <2>1 DEF Advance, AdvanceIndexes, Terminal
  <2>2. CASE x # e
    BY <1>1, <1>2, <2>2 DEF Advance, AdvanceIndexes, NoLossInv, Findable
  <2> QED
    BY <2>1, <2>2
<1> QED
  BY <1>1, <1>2 DEF Findable

\* Every action keeps enqueued rows findable and settled outcomes recorded.
LEMMA NoLossStep == NoLossInv /\ [Next]_vars => NoLossInv'
<1> SUFFICES ASSUME NoLossInv, [Next]_vars PROVE Findable' /\ SettledRecorded'
  BY TypeStep DEF NoLossInv
<1>0. TypeOK /\ Findable /\ SettledRecorded
  BY DEF NoLossInv
<1>1. ASSUME NEW e \in Envs, NEW a \in {0, 1},
             Enqueue(e) \/ Migrate(e, a)
      PROVE  Findable' /\ SettledRecorded'
  <2>1. PICK t \in Time, b \in Nat : Insert(e, FreshRow(b, t))
    <3>1. now \in Time /\ 0 \in Time /\ a \in Nat /\ 0 \in Nat
      BY <1>0, OutboxAssumption DEF TypeOK, Time
    <3> QED
      BY <1>1, <3>1 DEF Enqueue, Migrate
  <2>2. FreshRow(b, t) \in Row /\ FreshRow(b, t).state = "enqueued"
    BY <1>0, FreshRowType DEF TypeOK
  <2>3. Findable' /\ (\A x \in Envs : x # e => rows'[x] = rows[x])
                  /\ rows'[e].state = "enqueued"
    BY <2>1, <2>2, InsertFindable
  <2>4. settled' = settled /\ gcVictims' = gcVictims /\ accepted' = accepted \cup {e}
    BY <1>1 DEF Enqueue, Migrate
  <2> QED
    BY <1>0, <2>3, <2>4 DEF SettledRecorded, TypeOK, Terminal
<1>2. ASSUME NEW k \in Kickers, KickWrite(k) PROVE Findable' /\ SettledRecorded'
  <2> DEFINE moved == {e \in kicks[k].seen : Kickable(k, e)}
             at == kicks[k].at
  <2>1. /\ rows' = [e \in Envs |->
                     IF e \in moved
                     THEN [rows[e] EXCEPT !.nextAt = at, !.kicked = TRUE]
                     ELSE rows[e]]
        /\ due' = KickedDue(at, moved)
        /\ UNCHANGED <<stIdx, settled, accepted, gcVictims>>
    BY <1>2 DEF KickWrite
  <2>2. \A e \in Envs : rows'[e].state = rows[e].state
    BY <1>0, <2>1 DEF TypeOK, Row
  <2>3. \A e \in Envs : rows'[e].nextAt = IF e \in moved THEN at ELSE rows[e].nextAt
    BY <1>0, <2>1 DEF TypeOK, Row
  <2>4. Findable'
    <3> SUFFICES ASSUME NEW e \in Envs, rows'[e].state = "enqueued"
                 PROVE  <<rows'[e].nextAt, e>> \in due' /\ <<"enqueued", e>> \in stIdx'
      BY DEF Findable
    <3>1. <<rows[e].nextAt, e>> \in due /\ <<"enqueued", e>> \in stIdx
      BY <1>0, <2>2 DEF Findable
    <3>2. CASE e \in moved
      <4>1. <<at, e>> \in {<<at, x>> : x \in moved}
        BY <3>2
      <4>2. <<at, e>> \in KickedDue(at, moved)
        BY <4>1 DEF KickedDue
      <4>3. rows'[e].nextAt = at
        BY <2>3, <3>2
      <4> QED
        BY <2>1, <3>1, <4>2, <4>3
    <3>3. CASE e \notin moved
      BY <2>1, <2>3, <3>1, <3>3 DEF KickedDue
    <3> QED
      BY <3>2, <3>3
  <2>5. SettledRecorded'
    BY <1>0, <2>1, <2>2 DEF SettledRecorded, TypeOK
  <2> QED
    BY <2>4, <2>5
<1>3. ASSUME NEW d \in Dests, Deliver(d) PROVE Findable' /\ SettledRecorded'
  <2>1. PICK j \in job[d] : \E new \in AdvancedRow : Finish(d, j, new)
    <3>1. \A j \in job[d] : j \in Job
      BY <1>0 DEF TypeOK
    <3> QED
      BY <1>3, <3>1, OutcomeTypes DEF Deliver, SendRefused, SendFailed, SendBadAck, SendOK
  <2>2. PICK new \in AdvancedRow : Finish(d, j, new)
    BY <2>1
  <2>3. j.env \in Envs /\ j.row \in Row
    BY <1>0 DEF TypeOK, Job
  <2>4. Advance(j.env, j.row, new) /\ gcVictims' = gcVictims /\ accepted' = accepted
    BY <2>2 DEF Finish, RowDone, Advance
  <2>5. /\ Findable'
        /\ \A x \in Envs : x # j.env => rows'[x] = rows[x] /\ settled'[x] = settled[x]
        /\ rows'[j.env] = new
        /\ settled'[j.env] = settled[j.env] \cup ({new.state} \cap Terminal)
    BY <2>3, <2>4, AdvanceFindable
  <2>6. SettledRecorded'
    <3>1. new.state # "none"
      BY DEF AdvancedRow
    <3>2. \A x \in Envs : settled[x] # {} => settled'[x] # {}
      BY <2>5
    <3>3. \A v \in gcVictims : v[2] \in Envs
      BY <1>0 DEF TypeOK
    <3> QED
      BY <1>0, <2>3, <2>4, <2>5, <3>1, <3>2, <3>3 DEF SettledRecorded, TypeOK
  <2> QED
    BY <2>5, <2>6
<1>4. CASE GCRead
  <2>1. UNCHANGED <<rows, due, stIdx, settled, accepted>>
        /\ gcVictims' = {<<rows[e].state, e>> : e \in {x \in Envs : Collectable(rows[x])}}
    BY <1>4 DEF GCRead
  <2>2. \A e \in Envs : Collectable(rows[e]) => rows[e].state \in Terminal
    BY DEF Collectable, Terminal
  <2> QED
    BY <1>0, <2>1, <2>2 DEF Findable, SettledRecorded
<1>5. CASE GCWrite
  <2>1. /\ \A e \in Envs : rows'[e] = rows[e]
                           \/ (rows'[e] = NoRow /\ \E v \in gcVictims : v[2] = e)
        /\ UNCHANGED <<due, settled, accepted>>
        /\ stIdx' = stIdx \ gcVictims
        /\ gcVictims' = {}
    BY <1>5 DEF GCWrite
  <2>2. \A v \in gcVictims : v[1] # "enqueued"
    BY <1>0 DEF TypeOK, Terminal
  <2>3. Findable'
    BY <1>0, <2>1, <2>2, NoRowType DEF Findable
  <2>4. SettledRecorded'
    BY <1>0, <2>1, NoRowType DEF SettledRecorded, TypeOK, Terminal
  <2> QED
    BY <2>3, <2>4
<1>6. ASSUME UNCHANGED <<rows, due, stIdx, settled, accepted>>,
             gcVictims' = gcVictims \/ gcVictims' = {}
      PROVE  Findable' /\ SettledRecorded'
  BY <1>0, <1>6 DEF Findable, SettledRecorded
<1>7. CASE UNCHANGED vars
  BY <1>6, <1>7 DEF vars
<1>8. ASSUME NEW k \in Kickers, NEW s \in SUBSET Dests \ {{}}, NEW all \in BOOLEAN,
             KickStart(k, s, all)
      PROVE  Findable' /\ SettledRecorded'
  BY <1>6, <1>8 DEF KickStart
<1>9. ASSUME NEW k \in Kickers, KickRead(k) \/ KickFail(k)
      PROVE  Findable' /\ SettledRecorded'
  BY <1>6, <1>9 DEF KickRead, KickFail
<1>10. ASSUME NEW d \in Dests,
              \/ Wake(d) \/ DestFirst(d) \/ DestKicked(d) \/ DestTick(d)
              \/ DestPick(d) \/ DestLeave(d) \/ DestSend(d) \/ DestExit(d)
              \/ AdvanceFails(d) \/ HoldChange(d)
       PROVE  Findable' /\ SettledRecorded'
  BY <1>6, <1>10 DEF Wake, DestFirst, DestKicked, DestTick, DrainUnchanged, DestPick,
     DestLeave, DestSend, DestExit, AdvanceFails, RowDone, HoldChange
<1>11. CASE Boot \/ Spawn \/ RunStart \/ RunSeed \/ GateTick \/ RunStop
  BY <1>6, <1>11 DEF Boot, Spawn, RunStart, RunSeed, GateTick, RunStop
<1>12. CASE ShutStep \/ Tick \/ StepBack \/ GateChange
  BY <1>6, <1>12 DEF ShutStep, DrainBegin, DrainReturn, DrainExpire, Cancel, Down,
     Tick, StepBack, GateChange
<1> QED
  BY <1>1, <1>2, <1>3, <1>4, <1>5, <1>7, <1>8, <1>9, <1>10, <1>11, <1>12
     DEF Next, KickStep, DestStep, RunStep

\* An empty store loses nothing.
LEMMA NoLossInit == Init => NoLossInv
BY TypeInit, NoRowType DEF Init, NoLossInv, Findable, SettledRecorded, Terminal

\* No accepted message is lost: proved without any assumption on the clock, on
\* how long a kick takes, or on which start-up lists and store writes fail.
THEOREM OutboxNoLostMessage == Spec => []NoLostMessage
<1>1. Spec => []NoLossInv
  BY NoLossInit, NoLossStep, PTL DEF Spec
<1>2. NoLossInv => NoLostMessage
  BY DEF NoLossInv, TypeOK, Findable, SettledRecorded, NoLostMessage
<1> QED
  BY <1>1, <1>2, PTL
-----------------------------------------------------------------------------
\* Exactness.  A pass works from copies; for every envelope no kick has moved
\* under a copy, the copy is still what is stored (Current); Advance therefore
\* finds the keys it removes, and a settled row is out of every pass.  Nothing is
\* assumed of the clock or of how long a kick takes.
Copied(d, e, row) ==
    /\ DestOf[e] = d
    /\ e \notin overtaken => row = rows[e] /\ row.state = "enqueued"

Current ==
    \A d \in Dests :
        /\ \A i \in pass[d] : Copied(d, i.env, i.row)
        /\ \A i \in pass[d] : i.env \notin overtaken => i.key = i.row.nextAt
        /\ \A j \in job[d] : Copied(d, j.env, j.row)
        /\ \A j \in job[d] : \A i \in pass[d] : i.env = j.env => i.env \in overtaken
        /\ \A i, j \in job[d] : i = j
        /\ job[d] # {} => pc[d] \in {"go", "sending"}
        /\ pc[d] = "sending" => \A j \in job[d] : j.at > 0

\* Planned attempts have a time, and so do kicks under way.
Planned == \A e \in Envs : rows[e].state = "enqueued" => rows[e].nextAt > 0
KicksTimed == \A k \in Kickers : kicks[k].st # "idle" => kicks[k].at > 0

\* IndexesExact, key by key.
KeysOf(e) ==
    /\ \A t \in Time : <<t, e>> \in due <=> rows[e].state = "enqueued" /\ t = rows[e].nextAt
    /\ \A s \in Terminal \cup {"enqueued"} : <<s, e>> \in stIdx <=> s = rows[e].state

KeysExact == \A e \in Envs \ overtaken : KeysOf(e)

\* What is recorded of an envelope is what its row says, and only accepted
\* envelopes have rows.
Recorded ==
    /\ \A e \in Envs \ overtaken : \A s \in settled[e] : rows[e].state \in {s, "none"}
    /\ \A e \in Envs \ overtaken : rows[e].state # "none" \/ settled[e] # {} => e \in accepted
    /\ legacy \subseteq Legacy /\ legacy \cap accepted = {}
    /\ \A v \in gcVictims : v[2] \notin overtaken => rows[v[2]].state = v[1]

StoreInv == KeysExact /\ Planned /\ Recorded /\ OneOutcome
ExactInv == TypeOK /\ StoreInv /\ Current /\ KicksTimed

\* Key by key is exact.
LEMMA KeysMeanExact == ASSUME TypeOK, KeysExact PROVE IndexesExact
<1> DEFINE X == Envs \ overtaken
           D == {<<rows[e].nextAt, e>> : e \in {x \in X : rows[x].state = "enqueued"}}
           S == {<<rows[e].state, e>> : e \in {x \in X : rows[x].state # "none"}}
<1>1. \A e \in Envs : rows[e].nextAt \in Time /\ rows[e].state \in {"none", "enqueued"} \cup Terminal
  BY DEF TypeOK, Row, Terminal
<1>2. {k \in due : k[2] \in X} = D
  <2>1. ASSUME NEW k \in due, k[2] \in X PROVE k \in D
    <3>1. PICK t \in Time, e \in Envs : k = <<t, e>>
      BY DEF TypeOK
    <3>2. QED
      BY <2>1, <3>1 DEF KeysExact, KeysOf
  <2>2. ASSUME NEW k \in D PROVE k \in due /\ k[2] \in X
    <3>1. PICK e \in X : rows[e].state = "enqueued" /\ k = <<rows[e].nextAt, e>>
      OBVIOUS
    <3>2. QED
      BY <1>1, <3>1 DEF KeysExact, KeysOf
  <2>3. QED
    BY <2>1, <2>2
<1>3. {k \in stIdx : k[2] \in X} = S
  <2>1. ASSUME NEW k \in stIdx, k[2] \in X PROVE k \in S
    <3>1. PICK s \in Terminal \cup {"enqueued"}, e \in Envs : k = <<s, e>>
      BY DEF TypeOK, Terminal
    <3>2. QED
      BY <2>1, <3>1 DEF KeysExact, KeysOf, Terminal
  <2>2. ASSUME NEW k \in S PROVE k \in stIdx /\ k[2] \in X
    <3>1. PICK e \in X : rows[e].state # "none" /\ k = <<rows[e].state, e>>
      OBVIOUS
    <3>2. QED
      BY <1>1, <3>1 DEF KeysExact, KeysOf
  <2>3. QED
    BY <2>1, <2>2
<1>4. QED
  BY <1>2, <1>3 DEF IndexesExact

\* A back-off plans an attempt at a time after zero.
LEMMA OutcomePlanned ==
    ASSUME NEW j \in Job, j.at > 0
    PROVE  \A r \in RefusedRows(j) \cup FailedRows(j) \cup BadAckRows(j) \cup SentRows(j) :
               r \in AdvancedRow /\ (r.state = "enqueued" => r.nextAt > 0)
<1>1. ASSUME NEW row \in Row, NEW r \in Reschedule(j, row) PROVE r.nextAt > 0
  <2>1. PICK b \in Backoff(CountedAttempts(row)) :
            r = [row EXCEPT !.state = "enqueued", !.nextAt = Capped(j.at + b)]
    BY <1>1 DEF Reschedule
  <2>2. b \in Nat /\ j.at \in Nat /\ MaxTime > 0
    BY <2>1, OutboxAssumption DEF Backoff, Job, Time
  <2>3. Capped(j.at + b) > 0
    BY <2>2, OutboxAssumption DEF Capped
  <2>4. r.nextAt = Capped(j.at + b)
    BY <2>1 DEF Row
  <2>5. QED
    BY <2>3, <2>4
<1>2. ASSUME NEW row \in Row, NEW s \in Terminal PROVE Settle(row, s).state # "enqueued"
  BY SettleType DEF Terminal
<1>3. Attempted(j) \in Row
  BY AttemptedType
<1>4. \A r \in RefusedRows(j) : r.state # "enqueued"
  BY <1>2, <1>3 DEF RefusedRows, Terminal
<1>5. \A r \in FailedRows(j) : r.state = "enqueued" => r.nextAt > 0
  <2>1. Settle(Attempted(j), "failed") \in Row /\ Settle(Attempted(j), "failed").state # "enqueued"
    BY <1>2, <1>3, SettleType DEF Terminal, AdvancedRow
  <2>2. [Settle(Attempted(j), "failed") EXCEPT !.gaveUp = TRUE].state # "enqueued"
    BY <2>1 DEF Row
  <2>3. QED
    BY <1>1, <1>3, <2>2 DEF FailedRows
<1>6. \A r \in BadAckRows(j) : r.state = "enqueued" => r.nextAt > 0
  <2> DEFINE bad == [Attempted(j) EXCEPT !.ackFailures = @ + 1]
  <2>1. bad \in Row
    BY <1>3 DEF Row
  <2>2. Settle(bad, "failed").state # "enqueued"
    BY <1>2, <2>1 DEF Terminal
  <2>3. \A r \in Reschedule(j, bad) : r.nextAt > 0
    BY <1>1, <2>1
  <2>4. QED
    BY <2>2, <2>3 DEF BadAckRows
<1>7. \A r \in SentRows(j) : r.state # "enqueued"
  <2> DEFINE ok == [j.row EXCEPT !.attempts = @ + 1, !.kicked = FALSE,
                                 !.ackFailures = 0, !.changedAt = j.at]
  <2>1. ok \in Row
    <3>1. j.row \in Row /\ j.at \in Time /\ j.row.attempts + 1 \in Nat
      BY DEF Job, Row
    <3>2. ASSUME NEW row \in Row, NEW m \in Nat, NEW t \in Time
          PROVE  [row EXCEPT !.attempts = m, !.kicked = FALSE,
                             !.ackFailures = 0, !.changedAt = t] \in Row
      BY DEF Row
    <3>3. QED
      BY <3>1, <3>2
  <2>2. Settle(ok, "sent").state # "enqueued"
    BY <1>2, <2>1 DEF Terminal
  <2>3. QED
    BY <2>2 DEF SentRows
<1>8. QED
  BY <1>4, <1>5, <1>6, <1>7, OutcomeTypes

\* A step that leaves the store alone.
LEMMA StoreQuiet ==
    ASSUME StoreInv, UNCHANGED <<rows, due, stIdx, settled, accepted, legacy, overtaken>>,
           gcVictims' = gcVictims \/ gcVictims' = {}
    PROVE  StoreInv'
BY DEF StoreInv, KeysExact, KeysOf, Planned, Recorded, OneOutcome

\* Enqueue and Migrate store a row where there was none.
LEMMA InsertExact ==
    ASSUME ExactInv, NEW e \in Envs, NEW a \in {0, 1}, Enqueue(e) \/ Migrate(e, a)
    PROVE  StoreInv' /\ Current' /\ KicksTimed'
<1> USE DEF ExactInv, StoreInv
<1>1. PICK row \in Row : Insert(e, row) /\ row.state = "enqueued" /\ row.nextAt = now
  <2>1. now \in Time /\ 0 \in Time /\ a \in Nat /\ 0 \in Nat
    BY OutboxAssumption DEF TypeOK, Time
  <2>2. QED
    BY <2>1, FreshRowType DEF Enqueue, Migrate, TypeOK
<1>2. UNCHANGED <<settled, overtaken, gcVictims, pass, job, pc, kicks>> /\ accepted' = accepted \cup {e}
  BY DEF Enqueue, Migrate
<1>3. rows[e].state = "none" /\ e \notin accepted /\ e \notin legacy' /\ legacy' \subseteq legacy
  BY DEF Enqueue, Migrate, Recorded
<1>4. rows'[e] = row /\ \A x \in Envs : x # e => rows'[x] = rows[x]
  BY <1>1 DEF Insert, TypeOK
<1>5. due' = due \cup {<<now, e>>} /\ stIdx' = stIdx \cup {<<"enqueued", e>>}
  BY <1>1 DEF Insert
<1>6. now > 0 /\ now \in Time
  BY OutboxAssumption DEF TypeOK, Time
<1>7. KeysExact'
  <2>1. ASSUME NEW x \in Envs \ overtaken, x # e PROVE KeysOf(x)'
    BY <1>4, <1>5, <2>1 DEF KeysExact, KeysOf
  <2>2. ASSUME e \notin overtaken PROVE KeysOf(e)'
    <3>1. KeysOf(e)
      BY <2>2 DEF KeysExact
    <3>2. \A t \in Time : <<t, e>> \in due' <=> rows'[e].state = "enqueued" /\ t = rows'[e].nextAt
      BY <1>1, <1>3, <1>4, <1>5, <3>1 DEF KeysOf
    <3>3. \A s \in Terminal \cup {"enqueued"} : <<s, e>> \in stIdx' <=> s = rows'[e].state
      BY <1>1, <1>3, <1>4, <1>5, <3>1 DEF KeysOf, Terminal
    <3>4. QED
      BY <3>2, <3>3 DEF KeysOf
  <2>3. QED
    BY <1>2, <2>1, <2>2 DEF KeysExact
<1>8. Planned'
  BY <1>1, <1>4, <1>6 DEF Planned
<1>9. Recorded' /\ OneOutcome'
  <2>1. e \notin overtaken => settled[e] = {}
    BY <1>3 DEF Recorded
  <2>2. \A v \in gcVictims : v[2] \in Envs /\ (v[2] \notin overtaken => v[2] # e)
    BY <1>3 DEF Recorded, TypeOK, Terminal
  <2>3. QED
    BY <1>2, <1>3, <1>4, <2>1, <2>2 DEF Recorded, OneOutcome
<1>10. Current'
  <2>1. \A d \in Dests :
          /\ \A i \in pass[d] : i.env \in Envs /\ (i.env \notin overtaken => i.env # e)
          /\ \A j \in job[d] : j.env \in Envs /\ (j.env \notin overtaken => j.env # e)
    BY <1>3 DEF Current, Copied, TypeOK, Item, Job
  <2>2. QED
    BY <1>2, <1>4, <2>1 DEF Current, Copied
<1>11. KicksTimed'
  BY <1>2 DEF KicksTimed
<1>12. QED
  BY <1>7, <1>8, <1>9, <1>10, <1>11

\* A kick moves rows no goroutine has a copy of, or they count as overtaken from
\* then on.
LEMMA KickExact ==
    ASSUME ExactInv, NEW k \in Kickers, KickWrite(k)
    PROVE  StoreInv' /\ Current' /\ KicksTimed'
<1> USE DEF ExactInv, StoreInv
<1> DEFINE moved == {e \in kicks[k].seen : Kickable(k, e)}
           at == kicks[k].at
<1>1. /\ rows' = [e \in Envs |->
                   IF e \in moved
                   THEN [rows[e] EXCEPT !.nextAt = at, !.kicked = TRUE]
                   ELSE rows[e]]
      /\ due' = KickedDue(at, moved)
      /\ UNCHANGED <<stIdx, settled, accepted, legacy, gcVictims, pass, job, pc>>
      /\ kicks' = [kicks EXCEPT ![k] = IdleKick]
      /\ kicks[k].st = "write"
      /\ overtaken' = overtaken \cup (moved \cap InHand)
  BY DEF KickWrite
<1>2. at > 0 /\ at \in Time /\ moved \subseteq Envs
  <2>1. at > 0
    BY <1>1 DEF KicksTimed
  <2>2. kicks[k].seen \subseteq Envs /\ at \in Time
    BY DEF TypeOK, KickOp
  <2>3. QED
    BY <2>1, <2>2
<1>3. \A e \in Envs : /\ rows'[e].state = rows[e].state
                      /\ rows'[e].nextAt = IF e \in moved THEN at ELSE rows[e].nextAt
  BY <1>1 DEF TypeOK, Row
<1>4. \A e \in moved : rows[e].state = "enqueued" /\ rows[e].nextAt > at /\ rows[e].nextAt \in Time
  BY <1>2 DEF Kickable, TypeOK, Row
<1>5. KeysExact'
  <2>1. ASSUME NEW e \in Envs \ overtaken, NEW t \in Time
        PROVE  <<t, e>> \in due' <=> rows'[e].state = "enqueued" /\ t = rows'[e].nextAt
    <3>1. <<t, e>> \in due <=> rows[e].state = "enqueued" /\ t = rows[e].nextAt
      BY DEF KeysExact, KeysOf
    <3>2. <<t, e>> \in due' <=> \/ <<t, e>> \in due /\ ~(e \in moved /\ t = rows[e].nextAt)
                                \/ e \in moved /\ t = at
      BY <1>1 DEF KickedDue
    <3>3. QED
      BY <1>3, <1>4, <3>1, <3>2
  <2>2. \A e \in Envs \ overtaken : \A s \in Terminal \cup {"enqueued"} :
            <<s, e>> \in stIdx' <=> s = rows'[e].state
    BY <1>1, <1>3 DEF KeysExact, KeysOf
  <2>3. \A e \in Envs \ overtaken : KeysOf(e)'
    BY <2>1, <2>2 DEF KeysOf
  <2>4. QED
    BY <1>1, <2>3 DEF KeysExact
<1>6. Planned'
  BY <1>2, <1>3 DEF Planned
<1>7. Recorded' /\ OneOutcome'
  <2>1. \A v \in gcVictims : v[2] \in Envs
    BY DEF TypeOK
  <2>2. QED
    BY <1>1, <1>3, <2>1 DEF Recorded, OneOutcome
<1>8. Current'
  <2>1. \A d \in Dests :
          /\ \A i \in pass[d] : i.env \in Envs /\ (i.env \notin overtaken' => i.env \notin moved)
          /\ \A j \in job[d] : j.env \in Envs /\ (j.env \notin overtaken' => j.env \notin moved)
    <3>1. \A d \in Dests : /\ \A i \in pass[d] : i.env \in Envs
                           /\ \A j \in job[d] : j.env \in Envs
      BY DEF TypeOK, Item, Job
    <3>2. \A d \in Dests : /\ \A i \in pass[d] : i.env \in InHand
                           /\ \A j \in job[d] : j.env \in InHand
      BY <3>1 DEF InHand
    <3>3. \A e \in InHand : e \notin overtaken' => e \notin moved
      BY <1>1
    <3>4. QED
      BY <3>1, <3>2, <3>3
  <2>2. \A e \in Envs : e \notin moved => rows'[e] = rows[e]
    BY <1>1
  <2>3. UNCHANGED <<pass, job, pc>> /\ overtaken \subseteq overtaken'
    BY <1>1
  <2>4. ASSUME NEW d \in Dests
        PROVE  /\ \A i \in pass[d] : Copied(d, i.env, i.row)'
               /\ \A j \in job[d] : Copied(d, j.env, j.row)'
    BY <2>1, <2>2, <2>3 DEF Current, Copied
  <2>5. QED
    BY <2>3, <2>4 DEF Current
<1>9. KicksTimed'
  <2>1. IdleKick.st = "idle"
    BY DEF IdleKick
  <2>2. QED
    BY <1>1, <2>1 DEF KicksTimed, TypeOK
<1>10. QED
  BY <1>5, <1>6, <1>7, <1>8, <1>9

\* Advance of a row in hand removes exactly the keys the row has.
LEMMA DeliverExact ==
    ASSUME ExactInv, NEW d \in Dests, Deliver(d)
    PROVE  StoreInv' /\ Current' /\ KicksTimed'
<1> USE DEF ExactInv, StoreInv
<1>1. PICK j \in job[d], new \in AdvancedRow :
          Finish(d, j, new) /\ (new.state = "enqueued" => new.nextAt > 0)
  <2>1. pc[d] = "sending"
    BY DEF Deliver, SendRefused, SendFailed, SendBadAck, SendOK, Finish, RowDone
  <2>2. \A j \in job[d] : j \in Job /\ j.at > 0
    BY <2>1 DEF Current, TypeOK
  <2>3. QED
    BY <2>2, OutcomePlanned DEF Deliver, SendRefused, SendFailed, SendBadAck, SendOK
<1> DEFINE e == j.env
<1>2. /\ e \in Envs /\ DestOf[e] = d
      /\ e \notin overtaken => /\ j.row = rows[e] /\ rows[e].state = "enqueued"
                               /\ rows[e].nextAt > 0 /\ rows[e].nextAt \in Time
  BY DEF Current, Copied, Planned, TypeOK, Job, Row
<1>3. /\ RowDone(d) /\ Advance(e, j.row, new)
      /\ UNCHANGED <<gcVictims, accepted, legacy, overtaken, pass, kicks>>
  BY <1>1 DEF Finish, RowDone, Advance
<1> HIDE DEF e
<1>4. /\ rows'[e] = new /\ settled'[e] = settled[e] \cup ({new.state} \cap Terminal)
      /\ \A x \in Envs : x # e => rows'[x] = rows[x] /\ settled'[x] = settled[x]
  BY <1>2, <1>3 DEF Advance, TypeOK
<1>5. /\ \A x \in Envs : x # e =>
            /\ \A t \in Time : <<t, x>> \in due' <=> <<t, x>> \in due
            /\ \A s \in Terminal \cup {"enqueued"} : <<s, x>> \in stIdx' <=> <<s, x>> \in stIdx
      /\ e \notin overtaken =>
            /\ due' = (due \ {<<rows[e].nextAt, e>>})
                      \cup (IF new.state \in Terminal THEN {} ELSE {<<new.nextAt, e>>})
            /\ stIdx' = (stIdx \ {<<"enqueued", e>>}) \cup {<<new.state, e>>}
  BY <1>2, <1>3 DEF Advance, AdvanceIndexes
<1>6. new.state \in Terminal \cup {"enqueued"} /\ new.nextAt \in Time
  BY DEF AdvancedRow, Row, Terminal
<1>7. KeysExact'
  <2>1. ASSUME NEW x \in Envs \ overtaken, x # e PROVE KeysOf(x)'
    BY <1>4, <1>5, <2>1 DEF KeysExact, KeysOf
  <2>2. ASSUME e \notin overtaken PROVE KeysOf(e)'
    <3>1. KeysOf(e)
      BY <1>2, <2>2 DEF KeysExact
    <3>2. \A t \in Time : <<t, e>> \in due' <=> rows'[e].state = "enqueued" /\ t = rows'[e].nextAt
      BY <1>2, <1>4, <1>5, <1>6, <2>2, <3>1 DEF KeysOf, Terminal
    <3>3. \A s \in Terminal \cup {"enqueued"} : <<s, e>> \in stIdx' <=> s = rows'[e].state
      BY <1>2, <1>4, <1>5, <1>6, <2>2, <3>1 DEF KeysOf, Terminal
    <3>4. QED
      BY <3>2, <3>3 DEF KeysOf
  <2>3. QED
    BY <1>3, <2>1, <2>2 DEF KeysExact
<1>8. Planned'
  BY <1>1, <1>4 DEF Planned
<1>9. Recorded' /\ OneOutcome'
  <2>1. e \notin overtaken => settled[e] = {}
    BY <1>2 DEF Recorded, TypeOK, Terminal
  <2>2. \A v \in gcVictims : v[2] \in Envs /\ (v[2] \notin overtaken => v[2] # e)
    BY <1>2 DEF Recorded, TypeOK, Terminal
  <2>3. e \notin overtaken => \A s \in settled'[e] : s = new.state
    BY <1>4, <2>1
  <2>4. Recorded'
    BY <1>2, <1>3, <1>4, <2>2, <2>3 DEF Recorded
  <2>5. OneOutcome'
    BY <1>3, <1>4, <2>3 DEF OneOutcome
  <2>6. QED
    BY <2>4, <2>5
<1>10. job'[d] = {} /\ \A c \in Dests : c # d => job'[c] = job[c] /\ pc'[c] = pc[c]
  BY <1>3 DEF RowDone, TypeOK
<1>11. pc'[d] # "sending"
  BY <1>3 DEF RowDone, TypeOK
<1>12. Current'
  <2>1. \A i \in pass[d] : i.env \notin overtaken => i.env # e
    BY DEF Current, e
  <2>2. \A c \in Dests :
          /\ \A i \in pass[c] : i.env \in Envs /\ (i.env \notin overtaken => i.env # e)
          /\ c # d => \A i \in job[c] : i.env \in Envs /\ i.env # e
    BY <1>2, <2>1 DEF Current, Copied, TypeOK, Item, Job
  <2>3. ASSUME NEW c \in Dests, c # d
        PROVE  /\ \A i \in pass'[c] : Copied(c, i.env, i.row)'
               /\ \A i \in pass'[c] : i.env \notin overtaken' => i.key = i.row.nextAt
               /\ \A i \in job'[c] : Copied(c, i.env, i.row)'
               /\ \A i \in job'[c] : \A h \in pass'[c] : h.env = i.env => h.env \in overtaken'
               /\ \A h, i \in job'[c] : h = i
               /\ job'[c] # {} => pc'[c] \in {"go", "sending"}
               /\ pc'[c] = "sending" => \A i \in job'[c] : i.at > 0
    BY <1>3, <1>4, <1>10, <2>2, <2>3 DEF Current, Copied
  <2>4. /\ \A i \in pass'[d] : Copied(d, i.env, i.row)'
        /\ \A i \in pass'[d] : i.env \notin overtaken' => i.key = i.row.nextAt
    BY <1>3, <1>4, <2>2 DEF Current, Copied
  <2>5. QED
    BY <1>10, <1>11, <2>3, <2>4 DEF Current
<1>13. KicksTimed'
  BY <1>3 DEF KicksTimed
<1>14. QED
  BY <1>7, <1>8, <1>9, <1>12, <1>13

\* GC removes rows that are still in the terminal state its scan saw.
LEMMA CollectExact ==
    ASSUME ExactInv, GCRead \/ GCWrite PROVE StoreInv' /\ Current' /\ KicksTimed'
<1> USE DEF ExactInv, StoreInv
<1>1. UNCHANGED <<settled, accepted, legacy, overtaken, due, pass, job, pc, kicks>>
  BY DEF GCRead, GCWrite
<1>2. KicksTimed'
  BY <1>1 DEF KicksTimed
<1>3. CASE GCRead
  <2>1. UNCHANGED <<rows, stIdx>>
        /\ gcVictims' = {<<rows[e].state, e>> : e \in {x \in Envs : Collectable(rows[x])}}
    BY <1>3 DEF GCRead
  <2>2. Recorded'
    BY <1>1, <2>1 DEF Recorded
  <2>3. QED
    BY <1>1, <1>2, <2>1, <2>2 DEF KeysExact, KeysOf, Planned, OneOutcome, Current, Copied
<1>4. CASE GCWrite
  <2>1. /\ \A e \in Envs : rows'[e] = IF \E v \in gcVictims : v[2] = e THEN NoRow ELSE rows[e]
        /\ stIdx' = stIdx \ gcVictims /\ gcVictims' = {}
    BY <1>4 DEF GCWrite
  <2>2. \A v \in gcVictims : /\ v[2] \in Envs /\ v[1] \in Terminal /\ v = <<v[1], v[2]>>
                             /\ v[2] \notin overtaken => rows[v[2]].state = v[1]
    BY DEF TypeOK, Recorded
  <2>3. \A e \in Envs \ overtaken : rows[e].state = "enqueued" => rows'[e] = rows[e]
    BY <2>1, <2>2 DEF Terminal
  <2>4. \A e \in Envs \ overtaken :
            rows'[e] = rows[e] \/ (rows'[e].state = "none" /\ rows[e].state \in Terminal)
    BY <2>1, <2>2, NoRowType
  <2>5. KeysExact'
    <3>1. ASSUME NEW e \in Envs \ overtaken, NEW s \in Terminal \cup {"enqueued"}
          PROVE  <<s, e>> \in stIdx' <=> s = rows'[e].state
      <4>0. <<s, e>> \in stIdx <=> s = rows[e].state
        BY DEF KeysExact, KeysOf
      <4>1. CASE \E v \in gcVictims : v[2] = e
        <5>1. PICK v \in gcVictims : v[2] = e
          BY <4>1
        <5>2. <<s, e>> \in stIdx => <<s, e>> = v
          BY <2>2, <4>0, <5>1
        <5>3. rows'[e].state = "none"
          BY <2>1, <4>1, NoRowType
        <5>4. QED
          BY <2>1, <5>2, <5>3 DEF Terminal
      <4>2. CASE ~\E v \in gcVictims : v[2] = e
        <5>1. <<s, e>> \notin gcVictims
          BY <4>2
        <5>2. QED
          BY <2>1, <4>0, <4>2, <5>1
      <4>3. QED
        BY <4>1, <4>2
    <3>2. \A e \in Envs \ overtaken : \A t \in Time :
             <<t, e>> \in due' <=> rows'[e].state = "enqueued" /\ t = rows'[e].nextAt
      BY <1>1, <2>3, <2>4 DEF KeysExact, KeysOf, Terminal
    <3>3. \A e \in Envs \ overtaken : KeysOf(e)'
      BY <3>1, <3>2 DEF KeysOf
    <3>4. QED
      BY <1>1, <3>3 DEF KeysExact
  <2>6. Planned' /\ OneOutcome'
    BY <1>1, <2>1, NoRowType DEF Planned, OneOutcome
  <2>7. Recorded'
    BY <1>1, <2>1, <2>4 DEF Recorded
  <2>8. Current'
    <3>1. \A c \in Dests :
            /\ \A i \in pass[c] : i.env \in Envs /\ (i.env \notin overtaken => rows[i.env].state = "enqueued")
            /\ \A i \in job[c] : i.env \in Envs /\ (i.env \notin overtaken => rows[i.env].state = "enqueued")
      BY DEF Current, Copied, TypeOK, Item, Job
    <3>2. QED
      BY <1>1, <2>3, <3>1 DEF Current, Copied
  <2>9. QED
    BY <1>2, <2>5, <2>6, <2>7, <2>8
<1>5. QED
  BY <1>3, <1>4

\* The goroutine of a destination: a pass is listed from the due keys, its rows
\* are taken into hand one at a time.
LEMMA DestExact ==
    ASSUME ExactInv, NEW d \in Dests,
           \/ DestFirst(d) \/ DestKicked(d) \/ DestTick(d) \/ DestPick(d) \/ DestLeave(d)
           \/ DestSend(d) \/ DestExit(d) \/ AdvanceFails(d) \/ Wake(d)
    PROVE  StoreInv' /\ Current' /\ KicksTimed'
<1> USE DEF ExactInv
<1>1. UNCHANGED <<rows, due, stIdx, settled, accepted, legacy, overtaken, gcVictims, kicks, now>>
  BY DEF DestFirst, DestKicked, DestTick, DrainUnchanged, DestPick, DestLeave, DestSend,
         DestExit, AdvanceFails, RowDone, Wake
<1>2. StoreInv' /\ KicksTimed'
  BY <1>1, StoreQuiet DEF KicksTimed
<1>3. \A c \in Dests : c # d => pc'[c] = pc[c] /\ pass'[c] = pass[c] /\ job'[c] = job[c]
  BY DEF DestFirst, DestKicked, DestTick, DrainDest, DrainUnchanged, DestPick, DestLeave,
         DestSend, DestExit, AdvanceFails, RowDone, Wake, EnsureDest, TypeOK
<1>4. SUFFICES
        /\ \A i \in pass'[d] : Copied(d, i.env, i.row)
        /\ \A i \in pass'[d] : i.env \notin overtaken => i.key = i.row.nextAt
        /\ \A j \in job'[d] : Copied(d, j.env, j.row)
        /\ \A j \in job'[d] : \A i \in pass'[d] : i.env = j.env => i.env \in overtaken
        /\ \A i, j \in job'[d] : i = j
        /\ job'[d] # {} => pc'[d] \in {"go", "sending"}
        /\ pc'[d] = "sending" => \A j \in job'[d] : j.at > 0
  <2>1. \A c, e, r : Copied(c, e, r)' <=> Copied(c, e, r)
    BY <1>1 DEF Copied
  <2>2. QED
    BY <1>1, <1>2, <1>3, <1>4, <2>1 DEF Current
<1>5. /\ \A i \in pass[d] : Copied(d, i.env, i.row)
      /\ \A i \in pass[d] : i.env \notin overtaken => i.key = i.row.nextAt
      /\ \A j \in job[d] : Copied(d, j.env, j.row)
      /\ \A j \in job[d] : \A i \in pass[d] : i.env = j.env => i.env \in overtaken
      /\ \A i, j \in job[d] : i = j
      /\ job[d] # {} => pc[d] \in {"go", "sending"}
      /\ pc[d] = "sending" => \A j \in job[d] : j.at > 0
  BY DEF Current
<1>6. pc \in [Dests -> {"none", "new", "idle", "pass", "go", "sending", "exited"}]
      /\ DOMAIN pass = Dests /\ DOMAIN job = Dests /\ job[d] \subseteq Job /\ pass[d] \subseteq Item
  BY DEF TypeOK
<1>7. CASE DestFirst(d) \/ DestKicked(d) \/ DestTick(d)
  <2>1. job' = job /\ pc[d] \in {"new", "idle"} /\ job[d] = {}
    BY <1>5, <1>7 DEF DestFirst, DestKicked, DestTick, DrainUnchanged
  <2>2. pass'[d] = pass[d] \/ pass'[d] = ListDue(d)
    BY <1>6, <1>7 DEF DestFirst, DestKicked, DestTick, DrainDest
  <2>3. \A i \in ListDue(d) :
            Copied(d, i.env, i.row) /\ (i.env \notin overtaken => i.key = i.row.nextAt)
    <3>1. SUFFICES ASSUME NEW i \in ListDue(d)
                   PROVE  Copied(d, i.env, i.row) /\ (i.env \notin overtaken => i.key = i.row.nextAt)
      OBVIOUS
    <3>2. PICK k \in due : /\ i = [key |-> k[1], env |-> k[2], row |-> rows[k[2]]]
                           /\ k[1] <= now /\ DestOf[k[2]] = d
      BY DEF ListDue
    <3>3. k[1] \in Time /\ k[2] \in Envs /\ k = <<k[1], k[2]>>
      BY <3>2 DEF TypeOK
    <3>4. k[2] \notin overtaken => rows[k[2]].state = "enqueued" /\ k[1] = rows[k[2]].nextAt
      BY <3>2, <3>3 DEF StoreInv, KeysExact, KeysOf
    <3>5. QED
      BY <3>2, <3>4 DEF Copied
  <2>4. QED
    BY <1>5, <2>1, <2>2, <2>3
<1>8. CASE DestPick(d)
  <2>1. PICK i \in pass[d] :
          /\ pass' = [pass EXCEPT ![d] = @ \ {i}]
          /\ job' = [job EXCEPT ![d] = {[env |-> i.env, row |-> i.row, at |-> 0]}]
          /\ pc' = [pc EXCEPT ![d] = "go"]
    BY <1>8 DEF DestPick
  <2>2. pass'[d] = pass[d] \ {i} /\ pc'[d] = "go"
        /\ job'[d] = {[env |-> i.env, row |-> i.row, at |-> 0]}
    BY <1>6, <2>1
  <2>3. \A h \in pass[d] : h.env = i.env /\ h.env \notin overtaken => h = i
    <3>1. \A h \in pass[d] : h.env \notin overtaken =>
              h = [key |-> rows[h.env].nextAt, env |-> h.env, row |-> rows[h.env]]
      BY <1>5, <1>6 DEF Copied, Item
    <3>2. QED
      BY <3>1
  <2>4. QED
    BY <1>5, <2>2, <2>3
<1>9. CASE DestLeave(d)
  <2>1. pass'[d] = {} /\ job' = job /\ pc[d] = "pass" /\ pc'[d] = "idle"
    BY <1>6, <1>9 DEF DestLeave
  <2>2. QED
    BY <1>5, <2>1
<1>10. CASE DestSend(d)
  <2>1. pass' = pass /\ pc'[d] = "sending" /\ job'[d] = {[j EXCEPT !.at = now] : j \in job[d]}
    BY <1>6, <1>10 DEF DestSend
  <2>2. \A j \in job[d] : LET n == [j EXCEPT !.at = now]
                          IN  n.env = j.env /\ n.row = j.row /\ n.at = now
    BY <1>6 DEF Job
  <2>3. now > 0
    BY OutboxAssumption DEF TypeOK
  <2>4. /\ \A n \in job'[d] : \E j \in job[d] : n.env = j.env /\ n.row = j.row /\ n.at = now
        /\ \A m, n \in job'[d] : m = n
    BY <1>5, <2>1, <2>2
  <2>5. QED
    BY <1>5, <2>1, <2>3, <2>4
<1>11. CASE DestExit(d)
  <2>1. pass' = pass /\ job' = job /\ pc[d] = "idle" /\ pc'[d] = "exited"
    BY <1>6, <1>11 DEF DestExit
  <2>2. QED
    BY <1>5, <2>1
<1>12. CASE AdvanceFails(d)
  <2>1. pass' = pass /\ job'[d] = {} /\ pc'[d] # "sending"
    BY <1>6, <1>12 DEF AdvanceFails, RowDone
  <2>2. QED
    BY <1>5, <2>1
<1>13. CASE Wake(d)
  <2>1. pass' = pass /\ job' = job /\ (pc'[d] = pc[d] \/ (pc[d] = "none" /\ pc'[d] = "new"))
    BY <1>6, <1>13 DEF Wake, EnsureDest
  <2>2. QED
    BY <1>5, <2>1
<1>14. QED
  BY <1>7, <1>8, <1>9, <1>10, <1>11, <1>12, <1>13

\* The clock, forward or back, moves under copies and kicks that keep their own
\* times.
LEMMA ClockExact ==
    ASSUME ExactInv, Tick \/ StepBack
    PROVE  StoreInv' /\ Current' /\ KicksTimed'
<1>1. UNCHANGED <<rows, due, stIdx, settled, accepted, legacy, overtaken, gcVictims, kicks,
                  pass, job, pc>>
  BY DEF Tick, StepBack
<1>2. QED
  BY <1>1, StoreQuiet DEF ExactInv, Current, Copied, KicksTimed

\* The remaining steps touch neither rows nor passes, or forget the passes.
LEMMA OtherExact ==
    ASSUME ExactInv,
           \/ \E k \in Kickers, s \in SUBSET Dests \ {{}}, all \in BOOLEAN : KickStart(k, s, all)
           \/ \E k \in Kickers : KickRead(k) \/ KickFail(k)
           \/ \E d \in Dests : HoldChange(d)
           \/ Boot \/ Spawn \/ RunStart \/ RunSeed \/ GateTick \/ RunStop
           \/ ShutStep \/ GateChange \/ UNCHANGED vars
    PROVE  StoreInv' /\ Current' /\ KicksTimed'
<1> USE DEF ExactInv
<1>1. UNCHANGED <<rows, due, stIdx, settled, accepted, legacy, overtaken>>
      /\ (gcVictims' = gcVictims \/ gcVictims' = {})
  BY DEF KickStart, KickRead, KickFail, HoldChange, Boot, Spawn, RunStart, RunSeed, GateTick,
         RunStop, ShutStep, DrainBegin, DrainReturn, DrainExpire, Cancel, Down, GateChange, vars
<1>2. StoreInv'
  BY <1>1, StoreQuiet
<1>3. Current'
  <2>1. CASE UNCHANGED <<pass, job, pc>>
    BY <1>1, <2>1 DEF Current, Copied
  <2>2. CASE Down
    BY <2>2 DEF Down, Current
  <2>3. QED
    BY <2>1, <2>2 DEF KickStart, KickRead, KickFail, HoldChange, Boot, Spawn, RunStart, RunSeed,
       GateTick, RunStop, ShutStep, DrainBegin, DrainReturn, DrainExpire, Cancel, GateChange, vars
<1>4. KicksTimed'
  <2>0. IdleKick.st = "idle"
    BY DEF IdleKick
  <2>1. CASE kicks' = kicks
    BY <1>1, <2>1 DEF KicksTimed
  <2>2. CASE Down
    BY <2>0, <2>2 DEF Down, KicksTimed
  <2>3. ASSUME NEW k \in Kickers, NEW s, NEW all, KickStart(k, s, all) PROVE KicksTimed'
    BY <1>1, <2>3, OutboxAssumption DEF KickStart, KicksTimed, TypeOK
  <2>4. ASSUME NEW k \in Kickers, KickRead(k) PROVE KicksTimed'
    <3>1. PICK seen : \/ kicks' = [kicks EXCEPT ![k] = IdleKick]
                      \/ kicks' = [kicks EXCEPT ![k] = [@ EXCEPT !.st = "write", !.seen = seen]]
      BY <2>4 DEF KickRead
    <3>2. kicks[k].st = "start" /\ kicks[k] \in KickOp
      BY <2>4 DEF KickRead, TypeOK
    <3>3. kicks'[k].at = kicks[k].at \/ kicks'[k].st = "idle"
      <4>1. CASE kicks' = [kicks EXCEPT ![k] = IdleKick]
        BY <2>0, <4>1 DEF TypeOK
      <4>2. CASE kicks' = [kicks EXCEPT ![k] = [@ EXCEPT !.st = "write", !.seen = seen]]
        <5>1. kicks'[k] = [kicks[k] EXCEPT !.st = "write", !.seen = seen]
          BY <4>2 DEF TypeOK
        <5>2. QED
          BY <3>2, <5>1 DEF KickOp
      <4>3. QED
        BY <3>1, <4>1, <4>2
    <3>4. \A c \in Kickers : c # k => kicks'[c] = kicks[c]
      BY <3>1 DEF TypeOK
    <3>5. QED
      BY <1>1, <3>2, <3>3, <3>4 DEF KicksTimed
  <2>5. ASSUME NEW k \in Kickers, KickFail(k) PROVE KicksTimed'
    BY <1>1, <2>0, <2>5 DEF KickFail, KicksTimed, TypeOK
  <2>6. QED
    BY <2>1, <2>2, <2>3, <2>4, <2>5 DEF HoldChange, Boot, Spawn, RunStart, RunSeed, GateTick,
       RunStop, ShutStep, DrainBegin, DrainReturn, DrainExpire, Cancel, GateChange, vars
<1>5. QED
  BY <1>2, <1>3, <1>4

\* The store stays exact for every envelope no kick has overtaken.
LEMMA ExactInvariant == Spec => []ExactInv
<1>1. Init => ExactInv
  <2>1. Init => KeysExact /\ Planned
    BY NoRowType DEF Init, KeysExact, KeysOf, Planned, Terminal
  <2>2. Init => Recorded /\ OneOutcome
    BY NoRowType DEF Init, Recorded, OneOutcome
  <2>3. Init => Current /\ KicksTimed
    BY DEF Init, Current, KicksTimed, IdleKick
  <2>4. QED
    BY <2>1, <2>2, <2>3, TypeInit DEF ExactInv, StoreInv
<1>2. ExactInv /\ [Next]_vars => ExactInv'
  <2> SUFFICES ASSUME ExactInv, [Next]_vars PROVE ExactInv'
    OBVIOUS
  <2>1. TypeOK'
    BY TypeStep DEF ExactInv
  <2>2. StoreInv' /\ Current' /\ KicksTimed'
    BY InsertExact, KickExact, DeliverExact, CollectExact, DestExact, ClockExact, OtherExact
       DEF Next, KickStep, DestStep, RunStep
  <2>3. QED
    BY <2>1, <2>2 DEF ExactInv
<1>3. QED
  BY <1>1, <1>2, PTL DEF Spec

\* The due index is exactly the planned attempts and the state index exactly the
\* rows by state (Advance, KickByDests, GC), for every envelope no kick moved
\* under a goroutine's copy; whatever the clock does and however long a kick takes.
THEOREM OutboxIndexesExact == Spec => []IndexesExact
<1>1. ExactInv => IndexesExact
  BY KeysMeanExact DEF ExactInv, StoreInv
<1>2. QED
  BY <1>1, ExactInvariant, PTL

\* Nothing settled is on the wire again (processRow works from a copy), with the
\* same exception.
THEOREM OutboxNoSettledResend == Spec => []NoSettledResend
<1>1. ExactInv => NoSettledResend
  BY DEF ExactInv, Current, Copied, NoSettledResend, InFlight
<1>2. QED
  BY <1>1, ExactInvariant, PTL

\* The outcome Advance commits and publishes for an envelope is final, with the
\* same exception.
THEOREM OutboxOneOutcome == Spec => []OneOutcome
<1>1. ExactInv => OneOutcome
  BY DEF ExactInv, StoreInv
<1>2. QED
  BY <1>1, ExactInvariant, PTL
-----------------------------------------------------------------------------
\* Waking.  Once Run has listed the rows, every enqueued row's destination has
\* its goroutine or is owed a wake; a pass only writes rows of its own
\* destination, whose goroutine is there.
Awake ==
    runner \in {"loop", "gc"} =>
        \A e \in Envs : rows[e].state = "enqueued" =>
            pc[DestOf[e]] # "none" \/ DestOf[e] \in wakes

OwnRows ==
    \A d \in Dests : /\ \A i \in pass[d] : DestOf[i.env] = d
                     /\ \A j \in job[d] : DestOf[j.env] = d

WakeInv == NoLossInv /\ OwnRows /\ Awake

\* A step that takes no goroutine and no owed wake away unpaid, and enqueues
\* only where one of the two is, keeps every destination awake.
LEMMA AwakeKept ==
    ASSUME TypeOK, Awake,
           runner' \in {"loop", "gc"} => runner \in {"loop", "gc"},
           \A d \in Dests : pc[d] # "none" => pc'[d] # "none",
           \A d \in wakes : d \in wakes' \/ pc'[d] # "none",
           \A e \in Envs : rows'[e].state = "enqueued" =>
               \/ rows[e].state = "enqueued"
               \/ pc'[DestOf[e]] # "none" \/ DestOf[e] \in wakes'
    PROVE  Awake'
<1>1. \A e \in Envs : DestOf[e] \in Dests
  BY OutboxAssumption
<1>2. QED
  BY <1>1 DEF Awake

\* Steps of a destination keep its work its own.
LEMMA OwnRowsStep == TypeOK /\ OwnRows /\ [Next]_vars => OwnRows'
<1> SUFFICES ASSUME TypeOK, OwnRows, [Next]_vars PROVE OwnRows'
  OBVIOUS
<1>0. DOMAIN pass = Dests /\ DOMAIN job = Dests
      /\ pass = [d \in Dests |-> pass[d]] /\ job = [d \in Dests |-> job[d]]
  BY DEF TypeOK
<1>1. CASE UNCHANGED <<pass, job>>
  BY <1>1 DEF OwnRows
<1>2. CASE Down
  BY <1>2 DEF Down, OwnRows
<1>3. ASSUME NEW d \in Dests, DestFirst(d) \/ DestKicked(d) \/ DestTick(d) PROVE OwnRows'
  <2>1. job' = job /\ (pass' = pass \/ pass' = [pass EXCEPT ![d] = ListDue(d)])
    BY <1>3 DEF DestFirst, DestKicked, DestTick, DrainDest, DrainUnchanged
  <2>2. \A i \in ListDue(d) : DestOf[i.env] = d
    BY DEF ListDue
  <2>3. \A c \in Dests : pass'[c] = pass[c] \/ (c = d /\ pass'[c] = ListDue(d))
    <3>1. CASE pass' = pass
      BY <3>1
    <3>2. CASE pass' = [pass EXCEPT ![d] = ListDue(d)]
      BY <1>0, <3>2
    <3>3. QED
      BY <2>1, <3>1, <3>2
  <2>4. QED
    BY <2>1, <2>2, <2>3 DEF OwnRows
<1>4. ASSUME NEW d \in Dests, DestPick(d) PROVE OwnRows'
  <2>1. PICK i \in pass[d] :
            /\ pass' = [pass EXCEPT ![d] = @ \ {i}]
            /\ job' = [job EXCEPT ![d] = {[env |-> i.env, row |-> i.row, at |-> 0]}]
    BY <1>4 DEF DestPick
  <2>2. /\ \A c \in Dests : pass'[c] \subseteq pass[c]
        /\ \A c \in Dests : c # d => job'[c] = job[c]
        /\ job'[d] = {[env |-> i.env, row |-> i.row, at |-> 0]}
    <3>1. \A c \in Dests : pass'[c] \subseteq pass[c]
      BY <1>0, <2>1
    <3>2. \A c \in Dests : c # d => job'[c] = job[c]
      BY <1>0, <2>1
    <3>3. job'[d] = {[env |-> i.env, row |-> i.row, at |-> 0]}
      BY <1>0, <2>1
    <3>4. QED
      BY <3>1, <3>2, <3>3
  <2>3. \A j \in {[env |-> i.env, row |-> i.row, at |-> 0]} : j.env = i.env
    OBVIOUS
  <2>4. QED
    BY <2>2, <2>3 DEF OwnRows
<1>5. ASSUME NEW d \in Dests, DestSend(d) PROVE OwnRows'
  <2>1. pass' = pass /\ job' = [job EXCEPT ![d] = {[j EXCEPT !.at = now] : j \in @}]
    BY <1>5 DEF DestSend
  <2>2. \A j \in job[d] : [j EXCEPT !.at = now].env = j.env
    BY DEF TypeOK, Job
  <2>3. \A c \in Dests : c # d => job'[c] = job[c]
    BY <1>0, <2>1
  <2>4. job'[d] = {[j EXCEPT !.at = now] : j \in job[d]}
    BY <1>0, <2>1
  <2>5. \A j \in job'[d] : DestOf[j.env] = d
    <3>1. ASSUME NEW x \in job'[d] PROVE DestOf[x.env] = d
      <4>1. PICK j \in job[d] : x = [j EXCEPT !.at = now]
        BY <2>4
      <4>2. x.env = j.env
        BY <2>2, <4>1
      <4>3. QED
        BY <4>2 DEF OwnRows
    <3>2. QED
      BY <3>1
  <2>6. QED
    BY <2>1, <2>3, <2>5 DEF OwnRows
<1>6. ASSUME NEW d \in Dests, DestLeave(d) \/ RowDone(d) PROVE OwnRows'
  <2>1. \A c \in Dests : pass'[c] \subseteq pass[c] /\ job'[c] \subseteq job[c]
    BY <1>6 DEF DestLeave, RowDone, TypeOK
  <2>2. QED
    BY <2>1 DEF OwnRows
<1>7. ASSUME NEW d \in Dests, DestStep(d) PROVE OwnRows'
  BY <1>1, <1>3, <1>4, <1>5, <1>6, <1>7
     DEF DestStep, Deliver, SendRefused, SendFailed, SendBadAck, SendOK, Finish, AdvanceFails, DestExit
<1>8. ASSUME \/ \E e \in Envs : Enqueue(e) \/ (\E a \in {0, 1} : Migrate(e, a))
             \/ \E k \in Kickers : KickStep(k) \/ (\E s, all : KickStart(k, s, all))
             \/ \E d \in Dests : Wake(d) \/ HoldChange(d)
             \/ RunStep \/ Tick \/ StepBack \/ GateChange
      PROVE  UNCHANGED <<pass, job>>
  <2>1. CASE \/ \E e \in Envs : Enqueue(e) \/ (\E a \in {0, 1} : Migrate(e, a))
             \/ \E k \in Kickers : KickStep(k) \/ (\E s, all : KickStart(k, s, all))
    BY <2>1 DEF Enqueue, Migrate, KickStep, KickRead, KickWrite, KickFail, KickStart
  <2>2. CASE \/ \E d \in Dests : Wake(d) \/ HoldChange(d)
             \/ RunStep \/ Tick \/ StepBack \/ GateChange
    BY <2>2 DEF Wake, HoldChange, RunStep, Boot, Spawn, RunStart, RunSeed, GateTick, GCRead,
       GCWrite, RunStop, Tick, StepBack, GateChange
  <2>3. QED
    BY <1>8, <2>1, <2>2
<1>9. ASSUME ShutStep PROVE OwnRows'
  BY <1>1, <1>2, <1>9 DEF ShutStep, DrainBegin, DrainReturn, DrainExpire, Cancel
<1>10. CASE UNCHANGED vars
  BY <1>1, <1>10 DEF vars
<1>11. QED
  BY <1>1, <1>7, <1>8, <1>9, <1>10 DEF Next

\* The start-up list reaches every enqueued row when it does not fail and is
\* not cut short.
LEMMA SeedWakesAll ==
    ASSUME WakeInv, RunSeed, ~SeedFaults, IsFiniteSet(Envs), Cardinality(Envs) <= SeedLimit
    PROVE  Awake'
<1> DEFINE listed == {e \in Envs : <<"enqueued", e>> \in stIdx}
<1>1. PICK s \in SUBSET listed :
          /\ \/ s = listed /\ Cardinality(s) <= SeedLimit
             \/ s # listed /\ Cardinality(s) = SeedLimit
          /\ wakes' = wakes \cup SeedDests(s)
  BY DEF RunSeed
<1>2. s = listed
  <2>1. s \in SUBSET Envs /\ listed \in SUBSET Envs
    BY <1>1
  <2>2. Cardinality(s) \in Nat /\ Cardinality(Envs) \in Nat /\ SeedLimit \in Nat
    BY <2>1, FS_Subset, FS_CardinalityType, OutboxAssumption
  <2>3. Cardinality(s) <= Cardinality(Envs) /\ (Cardinality(Envs) = Cardinality(s) => Envs = s)
    BY <2>1, FS_Subset
  <2>4. CASE Cardinality(s) = SeedLimit
    <3>1. Envs = s
      BY <2>2, <2>3, <2>4
    <3>2. QED
      BY <1>1, <3>1
  <2>5. QED
    BY <1>1, <2>4
<1>3. rows' = rows
  BY DEF RunSeed
<1>4. \A e \in Envs : rows[e].state = "enqueued" => DestOf[e] \in SeedDests(listed)
  BY DEF WakeInv, NoLossInv, Findable, SeedDests
<1>5. QED
  BY <1>1, <1>2, <1>3, <1>4 DEF Awake

\* Every action keeps every destination with enqueued rows awake.
LEMMA WakeStep ==
    ASSUME ~SeedFaults, IsFiniteSet(Envs), Cardinality(Envs) <= SeedLimit
    PROVE  WakeInv /\ [Next]_vars => WakeInv'
<1> SUFFICES ASSUME WakeInv, [Next]_vars PROVE Awake'
  BY NoLossStep, OwnRowsStep DEF WakeInv, NoLossInv
<1>0. TypeOK /\ OwnRows /\ Awake
  BY DEF WakeInv, NoLossInv
<1>1. ASSUME NEW e \in Envs, Enqueue(e) PROVE Awake'
  <2>1. /\ UNCHANGED <<runner, pc>> /\ wakes' = wakes \cup {DestOf[e]}
        /\ \A x \in Envs : x # e => rows'[x] = rows[x]
    BY <1>0, <1>1 DEF Enqueue, Insert, TypeOK, runVars, destVars
  <2>2. QED
    BY <1>0, <2>1, AwakeKept
<1>2. ASSUME NEW e \in Envs, NEW a \in {0, 1}, Migrate(e, a) PROVE Awake'
  BY <1>2 DEF Migrate, Awake
<1>3. ASSUME NEW k \in Kickers, KickWrite(k) PROVE Awake'
  <2>1. UNCHANGED <<runner, pc>> /\ wakes \subseteq wakes'
    BY <1>3 DEF KickWrite
  <2>2. \A e \in Envs : rows'[e].state = rows[e].state
    BY <1>0, <1>3 DEF KickWrite, TypeOK, Row
  <2>3. QED
    BY <1>0, <2>1, <2>2, AwakeKept
<1>4. ASSUME NEW d \in Dests, Wake(d) PROVE Awake'
  <2>1. rows' = rows /\ runner' = runner /\ wakes' = wakes \ {d} /\ pc' = EnsureDest(d)
    BY <1>4 DEF Wake
  <2>2. \A c \in Dests : pc[c] # "none" => pc'[c] # "none"
    BY <1>0, <2>1 DEF EnsureDest, TypeOK
  <2>3. CASE runner \in {"loop", "gc"}
    <3>1. pc'[d] # "none"
      BY <1>0, <2>1, <2>3 DEF EnsureDest, Running, TypeOK
    <3>2. QED
      BY <1>0, <2>1, <2>2, <3>1, AwakeKept
  <2>4. CASE runner \notin {"loop", "gc"}
    BY <2>1, <2>4 DEF Awake
  <2>5. QED
    BY <2>3, <2>4
<1>5. ASSUME NEW d \in Dests, Deliver(d) PROVE Awake'
  <2>0. PICK j \in job[d] : \E new : Finish(d, j, new)
    BY <1>5 DEF Deliver, SendRefused, SendFailed, SendBadAck, SendOK
  <2>1. PICK new : Finish(d, j, new)
    BY <2>0
  <2>2. /\ UNCHANGED <<runner, wakes>>
        /\ pc' = [pc EXCEPT ![d] = IF pass[d] = {} THEN "idle" ELSE "pass"]
        /\ rows' = [rows EXCEPT ![j.env] = new]
    BY <2>1 DEF Finish, RowDone, Advance
  <2>3. pc'[d] # "none" /\ \A c \in Dests : pc[c] # "none" => pc'[c] # "none"
    BY <1>0, <2>2 DEF TypeOK
  <2>4. DestOf[j.env] = d /\ \A e \in Envs : e # j.env => rows'[e] = rows[e]
    BY <1>0, <2>2 DEF OwnRows, TypeOK
  <2>5. QED
    BY <1>0, <2>2, <2>3, <2>4, AwakeKept
<1>6. ASSUME NEW d \in Dests, DestStep(d), ~Deliver(d) PROVE Awake'
  <2>1. UNCHANGED <<rows, runner, wakes>>
    BY <1>6 DEF DestStep, DestFirst, DestKicked, DestTick, DrainUnchanged, DestPick, DestLeave,
       DestSend, DestExit, AdvanceFails, RowDone, durable, runVars, callers
  <2>2. \E l \in {"idle", "pass", "go", "sending", "exited"} : pc' = [pc EXCEPT ![d] = l]
    BY <1>6 DEF DestStep, DestFirst, DestKicked, DestTick, DrainDest, DestPick, DestLeave,
       DestSend, DestExit, AdvanceFails, RowDone
  <2>3. \A c \in Dests : pc[c] # "none" => pc'[c] # "none"
    BY <1>0, <2>2 DEF TypeOK
  <2>4. QED
    BY <1>0, <2>1, <2>3, AwakeKept
<1>7. CASE GCWrite
  <2>1. UNCHANGED <<pc, wakes>> /\ runner = "gc"
    BY <1>7 DEF GCWrite
  <2>2. \A e \in Envs : rows'[e].state = "enqueued" => rows[e].state = "enqueued"
    BY <1>7, NoRowType DEF GCWrite
  <2>3. QED
    BY <1>0, <2>1, <2>2, AwakeKept
<1>8. CASE RunSeed
  BY <1>8, SeedWakesAll
<1>9. ASSUME UNCHANGED <<rows, pc, wakes>>,
             runner' \in {"loop", "gc"} => runner \in {"loop", "gc"}
      PROVE  Awake'
  BY <1>9 DEF WakeInv, Awake
<1>10. ASSUME NEW k \in Kickers, KickRead(k) \/ KickFail(k) \/ (\E s, all : KickStart(k, s, all))
       PROVE  Awake'
  BY <1>9, <1>10 DEF KickRead, KickFail, KickStart
<1>11. CASE Boot \/ Spawn \/ RunStart \/ GateTick \/ GCRead \/ RunStop
  BY <1>9, <1>11 DEF Boot, Spawn, RunStart, GateTick, GCRead, RunStop
<1>12. CASE Tick \/ StepBack \/ GateChange \/ (\E d \in Dests : HoldChange(d))
  BY <1>9, <1>12 DEF Tick, StepBack, GateChange, HoldChange
<1>13. CASE ShutStep
  BY <1>9, <1>13 DEF ShutStep, DrainBegin, DrainReturn, DrainExpire, Cancel, Down, Awake
<1>14. CASE UNCHANGED vars
  BY <1>9, <1>14 DEF vars
<1>15. QED
  BY <1>1, <1>2, <1>3, <1>4, <1>5, <1>6, <1>7, <1>8, <1>10, <1>11, <1>12, <1>13, <1>14
     DEF Next, KickStep, RunStep

\* With a start-up list that does not fail and is not cut short at its limit,
\* no destination with enqueued rows is left without its goroutine: the wake an
\* Enqueue drops because Run is not running yet is made up for by the list.
THEOREM OutboxNoStrandedDest ==
    ASSUME ~SeedFaults, IsFiniteSet(Envs), Cardinality(Envs) <= SeedLimit
    PROVE  Spec => []NoStrandedDest
<1>1. Init => WakeInv
  <2>1. Init => OwnRows /\ Awake
    BY DEF Init, OwnRows, Awake
  <2>2. QED
    BY <2>1, NoLossInit DEF WakeInv
<1>2. WakeInv => NoStrandedDest
  BY DEF WakeInv, Awake, NoStrandedDest
<1>3. QED
  BY <1>1, <1>2, WakeStep, PTL DEF Spec
=============================================================================
