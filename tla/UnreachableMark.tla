--------------------------- MODULE UnreachableMark ---------------------------
(***************************************************************************)
(* The mark that a peer cannot be reached                                  *)
(* (backend/cmd/haomad/unreachable_mark.go).  It is computed from three    *)
(* times kept in the peer's record: when the newest envelope given up on   *)
(* was queued, when something was last delivered, when something last came *)
(* in.  Outbox workers and transport handlers write the times each in its  *)
(* own transaction and afterwards recompute the mark under one mutex;      *)
(* subscribers are told only of changes.  One peer; times are in seconds,  *)
(* as in the record.                                                       *)
(***************************************************************************)
EXTENDS Naturals

CONSTANTS
    Worker,     \* goroutines that note an outcome
    MaxTime,    \* bound on the clock
    MaxRestart  \* bound on restarts of the daemon

ASSUME MarkAssumption == MaxTime \in Nat \ {0} /\ MaxRestart \in Nat

VARIABLES
    clock,
    undelivered, passive, delivered,    \* UndeliveredQueuedAt, LastPassiveAt, LastDeliveredAt
    failedRow,  \* newest queueing time of an outbox row given up on
    sentRow,    \* newest time an outbox row was sent
    sent,       \* unreachableSent
    todo,       \* what a worker has still to do
    attached,   \* whether /events has a subscriber
    unnoted,    \* history: a failure could not be written, the last start's fold included
    restarts

markVars == <<clock, undelivered, passive, delivered, failedRow, sentRow, sent, todo,
              attached, unnoted, restarts>>
rows == <<failedRow, sentRow>>
record == <<undelivered, passive, delivered>>

Time == 0..MaxTime
Max2(a, b) == IF a > b THEN a ELSE b

\* Peer.Unreachable
Unreachable == undelivered # 0 /\ undelivered > passive /\ undelivered > delivered

\* What a worker is about to do, with the time it does it with.
Tasks == [do : {"idle", "undelivered", "delivered", "recheck", "clear"}, at : Time]
Idle == [do |-> "idle", at |-> 0]

\* Type correctness; the times of the record are never ahead of the clock's range.
MarkTypeOK ==
    /\ clock \in Time
    /\ undelivered \in Time /\ passive \in Time /\ delivered \in Time
    /\ failedRow \in Time /\ sentRow \in Time
    /\ sent \in {"unknown", "marked", "clear"}
    /\ todo \in [Worker -> Tasks]
    /\ attached \in BOOLEAN /\ unnoted \in BOOLEAN /\ restarts \in 0..MaxRestart

MarkInit ==
    /\ clock = 1 /\ undelivered = 0 /\ passive = 0 /\ delivered = 0
    /\ failedRow = 0 /\ sentRow = 0
    /\ sent = "clear"
    /\ todo = [w \in Worker |-> Idle]
    /\ attached \in BOOLEAN /\ unnoted = FALSE /\ restarts = 0

Say(mark) == IF mark THEN "marked" ELSE "clear"
Then(w, what) == todo' = [todo EXCEPT ![w] = [do |-> what, at |-> 0]]

-----------------------------------------------------------------------------
\* The outbox gives a row up after enough counted attempts; its queueing time
\* is that of the row, long past.
GiveUp(w, q) ==
    /\ todo[w] = Idle /\ q \in 1..(clock - 1)
    /\ failedRow' = Max2(failedRow, q)
    /\ todo' = [todo EXCEPT ![w] = [do |-> "undelivered", at |-> q]]
    /\ UNCHANGED <<clock, record, sentRow, sent, attached, unnoted, restarts>>

\* noteUndeliveredDest
NoteUndelivered(w) ==
    /\ todo[w].do = "undelivered"
    /\ undelivered' = Max2(undelivered, todo[w].at)
    /\ Then(w, "recheck")
    /\ UNCHANGED <<clock, passive, delivered, rows, sent, attached, unnoted, restarts>>

RowSent(w) ==
    /\ todo[w] = Idle
    /\ sentRow' = clock
    /\ todo' = [todo EXCEPT ![w] = [do |-> "delivered", at |-> clock]]
    /\ UNCHANGED <<clock, record, failedRow, sent, attached, unnoted, restarts>>

\* noteDeliveredDest reads the clock when it writes.
NoteDelivered(w) ==
    /\ todo[w].do = "delivered"
    /\ delivered' = Max2(delivered, clock)
    /\ Then(w, "clear")
    /\ UNCHANGED <<clock, undelivered, passive, rows, sent, attached, unnoted, restarts>>

\* Verify touches the record and then reports the inbound envelope.
Inbound(w) ==
    /\ todo[w] = Idle
    /\ passive' = Max2(passive, clock)
    /\ Then(w, "clear")
    /\ UNCHANGED <<clock, undelivered, delivered, rows, sent, attached, unnoted, restarts>>

\* Whom a publication reaches: a subscriber, unless its buffer is full.
Told == IF attached THEN {Say(Unreachable), "unknown"} ELSE {"unknown"}

\* Mutant: what was sent before a publication nobody got is kept.
RecordedKeeps(clearOnly) ==
    IF clearOnly /\ sent = "clear" THEN {sent}
    ELSE IF sent = "unknown" /\ undelivered = 0 THEN {"clear"}
    ELSE IF attached THEN {Say(Unreachable)} ELSE {sent}

\* What recheckUnreachable leaves in unreachableSent.
Recorded(clearOnly) ==
    IF \/ clearOnly /\ sent = "clear"
       \/ sent = Say(Unreachable)
    THEN {sent}
    ELSE IF sent = "unknown" /\ undelivered = 0 THEN {"clear"} ELSE Told

\* recheckUnreachable, under unreachableMu.
Recheck(w) ==
    /\ todo[w].do \in {"recheck", "clear"}
    /\ sent' \in Recorded(todo[w].do = "clear")
    /\ todo' = [todo EXCEPT ![w] = Idle]
    /\ UNCHANGED <<clock, record, rows, attached, unnoted, restarts>>

\* A write that still conflicts after five tries is logged and forgotten.
NoteFails(w) ==
    /\ todo[w].do \in {"undelivered", "delivered"}
    /\ todo' = [todo EXCEPT ![w] = Idle]
    /\ unnoted' = (unnoted \/ todo[w].do = "undelivered")
    /\ UNCHANGED <<clock, record, rows, sent, attached, restarts>>

\* Mutant: the rows given up on are not looked at again.
FoldNothing == FALSE /\ failedRow > undelivered

\* foldOutboxIntoMarks: the rows given up on that the record does not know
\* of are added, after the newest sent row.
FoldFresh == failedRow > undelivered

\* The daemon stops at any step and starts again: fold, then seed.  The fold's
\* reads and writes may fail, each of them by itself.
Restart(seeded, noted) ==
    /\ restarts < MaxRestart
    /\ restarts' = restarts + 1
    /\ undelivered' = IF FoldFresh /\ noted THEN failedRow ELSE undelivered
    /\ delivered' = IF FoldFresh /\ seeded THEN Max2(delivered, sentRow) ELSE delivered
    /\ UNCHANGED <<clock, passive, rows>>
    /\ sent' = Say(Unreachable')
    /\ todo' = [w \in Worker |-> Idle]
    /\ attached' = FALSE /\ unnoted' = (~noted /\ FoldFresh)

Attach ==
    /\ attached' = ~attached
    /\ UNCHANGED <<clock, record, rows, sent, todo, unnoted, restarts>>

Tick ==
    /\ clock < MaxTime
    /\ clock' = clock + 1
    /\ UNCHANGED <<record, rows, sent, todo, attached, unnoted, restarts>>

MarkNext ==
    \/ \E w \in Worker :
        \/ \E q \in Time : GiveUp(w, q)
        \/ NoteUndelivered(w) \/ RowSent(w) \/ NoteDelivered(w) \/ Inbound(w)
        \/ NoteFails(w) \/ Recheck(w)
    \/ \E seeded, noted \in BOOLEAN : Restart(seeded, noted)
    \/ Attach \/ Tick

MarkSpec == MarkInit /\ [][MarkNext]_markVars

-----------------------------------------------------------------------------
Settled == \A w \in Worker : todo[w] = Idle

\* Whatever the order in which workers write the record and recompute the
\* mark: once they are done, what subscribers were told is the mark.
ToldAgrees == Settled /\ sent # "unknown" => sent = Say(Unreachable)

\* A peer that answered nothing since the newest envelope given up on was
\* queued is marked, a stop between giving up and noting it included; a
\* failure that could not be written is made good by the next start whose fold
\* succeeds.
NoMarkMissed ==
    Settled /\ ~unnoted /\ failedRow > passive /\ failedRow > delivered /\ failedRow > sentRow
        => Unreachable

\* A delivery that was noted is never undone: restarting and folding in the
\* failed rows marks no peer that answered later than every one of them.
NoStaleMark == Unreachable => failedRow > passive /\ failedRow > delivered

\* The mark is neither missed nor stale (unreachable, foldOutbox).
MarkExact == NoMarkMissed /\ NoStaleMark
=============================================================================
