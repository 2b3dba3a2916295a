------------------------------- MODULE Outbox -------------------------------
(***************************************************************************)
(* The store-and-forward outbox of the backend daemon                      *)
(* (src/backend/internal/outbox/outbox.go, migrate.go) and the part of the *)
(* daemon's start and shutdown that drives it (cmd/haomad/run.go).         *)
(*                                                                         *)
(* Durable state is one row per envelope and two secondary indexes; every  *)
(* write of them is one badger transaction, so one action.  What is NOT    *)
(* atomic in the code is not atomic here: a destination's goroutine works  *)
(* from a snapshot of the rows that were due when its pass began, a kick   *)
(* reads the clock, then scans, then writes, a collection scans and then   *)
(* deletes, and a caller of Enqueue stores first and wakes afterwards.     *)
(***************************************************************************)
EXTENDS Integers, FiniteSets

CONSTANTS
    Envs,               \* envelope ids (newEnvelopeID mints a fresh one per send)
    Dests,              \* destinations, "http://<onion>"
    DestOf,             \* [Envs -> Dests]
    Kickers,            \* concurrent callers of KickByDests / KickAll
    Legacy,             \* envelopes waiting in the old "xport-queue:" rows
    MaxTime,            \* bound: the clock stops here
    BackoffBase,        \* outbox.BackoffBase, in clock units
    BackoffCap,         \* the one-hour ceiling of doublingBackoffWithJitter
    MaxAttempts, DeadLetterAge, AckVerifyMaxTries,   \* Worker fields
    GcSentAge, GcFailedAge,                          \* retention of settled rows
    SeedLimit,          \* the 10_000 default of ListByState
    MaxFaults,          \* bound: store errors, lost kicks, clock set-backs
    MaxStops,           \* bound: crashes and shutdowns begun
    MaxKicks,           \* bound: kicks started
    AttemptCap,         \* bound: attempts made for one row
    MonotoneClock,      \* FALSE: the wall clock may be set back
    SeedFaults,         \* TRUE: the start-up list of enqueued rows may fail
    GateFlaps,          \* TRUE: the Tor gate closes and opens at any time
    Holds               \* TRUE: device removals put destinations on hold

ASSUME OutboxAssumption ==
    /\ DestOf \in [Envs -> Dests]
    /\ Legacy \subseteq Envs
    /\ MaxTime \in Nat \ {0}
    /\ BackoffBase \in Nat /\ BackoffCap \in Nat
    /\ MaxAttempts \in Nat /\ DeadLetterAge \in Nat /\ AckVerifyMaxTries \in Nat
    /\ GcSentAge \in Nat /\ GcFailedAge \in Nat
    /\ SeedLimit \in Nat /\ MaxFaults \in Nat /\ MaxStops \in Nat /\ MaxKicks \in Nat /\ AttemptCap \in Nat
    /\ MonotoneClock \in BOOLEAN
    /\ SeedFaults \in BOOLEAN /\ GateFlaps \in BOOLEAN
    /\ Holds \in BOOLEAN

-----------------------------------------------------------------------------
Time == 0..MaxTime

Terminal == {"sent", "failed"}

\* A stored OutboxRow; state "none" stands for a key that is not in the store.
\* A nextAt of 0 is the "no attempt planned" of a terminal row.
Row == [state : {"none", "enqueued", "sent", "failed"},
        attempts : Nat, kicked : BOOLEAN, kickedAttempts : Nat,
        ackFailures : Nat, firstAt : Time, nextAt : Time, changedAt : Time,
        gaveUp : BOOLEAN]

NoRow == [state |-> "none", attempts |-> 0, kicked |-> FALSE,
          kickedAttempts |-> 0, ackFailures |-> 0, firstAt |-> 0,
          nextAt |-> 0, changedAt |-> 0, gaveUp |-> FALSE]

\* An entry of a destination's pass: the due key that listed the row, and the
\* copy of the row the rest of the pass works from.
Item == [key : Time, env : Envs, row : Row]

Job == [env : Envs, row : Row, at : Time]

VARIABLES
    now,        \* the wall clock every component reads
    rows,       \* "outbox:"       [Envs -> Row]
    due,        \* "outbox-due:"   set of <<nextAt, env>>
    stIdx,      \* "outbox-state:" set of <<state, env>>
    legacy,     \* "xport-queue:"  envelopes not migrated yet
    accepted,   \* envelopes /send answered 202 for, or that were migrated
    settled,    \* terminal states committed and published for each envelope
    overtaken,  \* history: rows a kick moved under a goroutine holding a copy
    runner,     \* where Worker.Run (and the daemon around it) is
    gcVictims,  \* the rows GC's scan chose
    wakes,      \* destinations some caller has still to ensure and signal
    gate,       \* Gate(): Tor is ready
    gateOpen,   \* the value Run's gate watch saw last
    held,       \* destinations SkipDest refuses (a device being unlinked)
    pc,         \* where each destination's goroutine is
    kickCh,     \* destinations whose one-slot kick channel is full
    pass,       \* the rest of the pass each destination works on
    job,        \* the row each destination has in hand (at most one)
    kicks,      \* the kick each kicker is in the middle of
    drain,      \* Drain: open, waiting, drained, expired
    cancelled,  \* the worker's context
    faults, stops, kickCount

durable == <<rows, due, stIdx, legacy, accepted, settled, overtaken>>
runVars == <<runner, gcVictims, gateOpen>>
destVars == <<pc, kickCh, pass, job>>
shutVars == <<drain, cancelled>>
callers == <<wakes, kicks>>
world == <<now, gate, held>>
counters == <<faults, stops, kickCount>>
vars == <<durable, runVars, destVars, shutVars, callers, world, counters>>

KickOp == [st : {"idle", "start", "write"}, at : Time, sel : SUBSET Dests,
           all : BOOLEAN, seen : SUBSET Envs]

IdleKick == [st |-> "idle", at |-> 0, sel |-> {}, all |-> FALSE, seen |-> {}]

Up == runner \notin {"down", "migrate"}

\* Worker.running
Running == runner \in {"seed", "loop", "gc"}

InFlight == {d \in Dests : pc[d] = "sending"}

\* Type correctness of the rows, the indexes and the goroutines.
TypeOK ==
    /\ now \in 1..MaxTime
    /\ rows \in [Envs -> Row]
    /\ due \subseteq Time \X Envs
    /\ stIdx \subseteq {"enqueued", "sent", "failed"} \X Envs
    /\ legacy \subseteq Envs
    /\ accepted \subseteq Envs
    /\ settled \in [Envs -> SUBSET Terminal]
    /\ overtaken \subseteq Envs
    /\ runner \in {"down", "migrate", "spawned", "seed", "loop", "gc", "stopped"}
    /\ gcVictims \subseteq Terminal \X Envs
    /\ wakes \subseteq Dests
    /\ gate \in BOOLEAN /\ gateOpen \in BOOLEAN
    /\ held \subseteq Dests
    /\ pc \in [Dests -> {"none", "new", "idle", "pass", "go", "sending", "exited"}]
    /\ kickCh \subseteq Dests
    /\ pass \in [Dests -> SUBSET Item]
    /\ job \in [Dests -> SUBSET Job]
    /\ kicks \in [Kickers -> KickOp]
    /\ drain \in {"open", "waiting", "drained", "expired"}
    /\ cancelled \in BOOLEAN
    /\ faults \in 0..MaxFaults /\ stops \in 0..MaxStops /\ kickCount \in 0..MaxKicks

-----------------------------------------------------------------------------
(* The durable store *)

\* doublingBackoffWithJitter: the base doubled per counted attempt up to the
\* cap, give or take a fifth.
Doubled(counted) ==
    IF counted <= 1 THEN BackoffBase
    ELSE LET base == BackoffBase * 2 ^ (counted - 1)
         IN  IF base >= BackoffCap THEN BackoffCap ELSE base

Backoff(counted) ==
    {b \in 0..(BackoffBase + 2 * BackoffCap) :
        4 * Doubled(counted) <= 5 * b /\ 5 * b <= 6 * Doubled(counted)}

\* The bound on the clock also bounds the attempts planned on it.
Capped(t) == IF t > MaxTime THEN MaxTime ELSE t

Insert(e, row) ==
    /\ rows' = [rows EXCEPT ![e] = row]
    /\ due' = due \cup {<<row.nextAt, e>>}
    /\ stIdx' = stIdx \cup {<<row.state, e>>}

FreshRow(attempts, firstAt) ==
    [NoRow EXCEPT !.state = "enqueued", !.attempts = attempts,
                  !.firstAt = firstAt, !.nextAt = now, !.changedAt = now]

\* Store.Advance: it writes from the caller's snapshot and reads nothing, so
\* whatever the stored row has become meanwhile is overwritten and only the
\* snapshot's own index keys are removed.
AdvanceKeepsOldKey(e, snap, new) ==
    /\ due' = due \cup (IF new.state \in Terminal THEN {} ELSE {<<new.nextAt, e>>})
    /\ stIdx' = (stIdx \ {<<snap.state, e>>}) \cup {<<new.state, e>>}

AdvancePlansSettled(e, snap, new) ==
    /\ due' = (due \ {<<snap.nextAt, e>>}) \cup {<<new.nextAt, e>>}
    /\ stIdx' = (stIdx \ {<<snap.state, e>>}) \cup {<<new.state, e>>}

AdvanceIndexes(e, snap, new) ==
    /\ due' = (due \ (IF snap.nextAt # 0 THEN {<<snap.nextAt, e>>} ELSE {}))
              \cup (IF new.state \in Terminal THEN {} ELSE {<<new.nextAt, e>>})
    /\ stIdx' = (stIdx \ {<<snap.state, e>>}) \cup {<<new.state, e>>}

Advance(e, snap, new) ==
    /\ rows' = [rows EXCEPT ![e] = new]
    /\ AdvanceIndexes(e, snap, new)
    /\ settled' = [settled EXCEPT ![e] = @ \cup ({new.state} \cap Terminal)]
    /\ UNCHANGED <<legacy, accepted, overtaken>>

\* ListDue cut down to one destination (rowsForDest).  A due key whose row is
\* gone is skipped; the state of the row is not looked at.  The code loads the
\* rows one by one after the scan; only a kick or a collection can come in
\* between, and the outcome is that of the kick or collection coming first.
ListDue(d) ==
    {[key |-> k[1], env |-> k[2], row |-> rows[k[2]]] :
        k \in {x \in due : /\ x[1] <= now
                           /\ DestOf[x[2]] = d
                           /\ rows[x[2]].state # "none"}}

\* orderPass keeps due order, rows never attempted before the others.
ComesFirst(i, j) ==
    IF (i.row.attempts = 0) = (j.row.attempts = 0) THEN i.key <= j.key
    ELSE i.row.attempts = 0

-----------------------------------------------------------------------------
(* Waking destinations *)

NoEnsure(d) == pc

EnsureDest(d) == IF Running /\ pc[d] = "none" THEN [pc EXCEPT ![d] = "new"] ELSE pc

\* ensureDest and signalDest, owed by an Enqueue, a kick or the start-up list.
\* Two callers that owe the same destination a signal pay it in one step: the
\* channel holds one signal, and the later one only repeats the drain.
Wake(d) ==
    /\ d \in wakes
    /\ wakes' = wakes \ {d}
    /\ pc' = EnsureDest(d)
    /\ kickCh' = IF pc'[d] # "none" THEN kickCh \cup {d} ELSE kickCh
    /\ UNCHANGED <<durable, runVars, shutVars, world, counters, pass, job,
                   kicks>>

\* /send: Worker.Enqueue stores the row, and its caller owes the wake.
Enqueue(e) ==
    /\ Up
    /\ e \notin accepted \cup Legacy
    /\ rows[e].state = "none"
    /\ Insert(e, FreshRow(0, now))
    /\ accepted' = accepted \cup {e}
    /\ wakes' = wakes \cup {DestOf[e]}
    /\ UNCHANGED <<runVars, destVars, shutVars, world, counters, legacy,
                   settled, overtaken, kicks>>
-----------------------------------------------------------------------------
(* KickByDests and KickAll *)

\* The kicker reads the clock; everything below uses this reading.
KickStart(k, sel, all) ==
    /\ Up
    /\ kicks[k].st = "idle"
    /\ kickCount < MaxKicks
    /\ kickCount' = kickCount + 1
    /\ kicks' = [kicks EXCEPT ![k] = [st |-> "start", at |-> now, sel |-> sel,
                                      all |-> all, seen |-> {}]]
    /\ UNCHANGED <<durable, runVars, destVars, shutVars, world, wakes, faults,
                   stops>>

\* The View: the enqueued rows of the wanted destinations that are not due at
\* the kick's time.  A state key without a row makes the whole kick fail.
KickRead(k) ==
    LET listed == {e \in Envs : <<"enqueued", e>> \in stIdx}
        seen == {e \in listed : DestOf[e] \in kicks[k].sel
                                /\ rows[e].nextAt > kicks[k].at}
        broken == \E e \in listed : rows[e].state = "none"
    IN  /\ kicks[k].st = "start"
        /\ kicks' = [kicks EXCEPT
              ![k] = IF broken \/ seen = {} THEN IdleKick
                     ELSE [@ EXCEPT !.st = "write", !.seen = seen]]
        /\ UNCHANGED <<durable, runVars, destVars, shutVars, world, counters,
                       wakes>>

\* The Update looks at each row again ...
Kickable(k, e) ==
    /\ rows[e].state = "enqueued"
    /\ rows[e].nextAt > kicks[k].at

KickedDueLosesKey(at, moved) == due \ {<<rows[e].nextAt, e>> : e \in moved}

KickedDue(at, moved) ==
    (due \ {<<rows[e].nextAt, e>> : e \in moved}) \cup {<<at, e>> : e \in moved}

\* The rows some goroutine works on from a copy.
InHand ==
    {e \in Envs : \E d \in Dests : \/ \E i \in pass[d] : i.env = e
                                 \/ \E j \in job[d] : j.env = e}

\* ... and moves it to the kick's time, also when a goroutine already works on
\* a copy of it: the time was read long ago, or the clock was set back since.
KickWrite(k) ==
    LET moved == {e \in kicks[k].seen : Kickable(k, e)}
        at == kicks[k].at
    IN  /\ kicks[k].st = "write"
        /\ rows' = [e \in Envs |->
                      IF e \in moved
                      THEN [rows[e] EXCEPT !.nextAt = at, !.kicked = TRUE]
                      ELSE rows[e]]
        /\ due' = KickedDue(at, moved)
        /\ wakes' = wakes \cup (IF moved = {} THEN {}
                                ELSE IF kicks[k].all THEN {DestOf[e] : e \in moved}
                                ELSE kicks[k].sel)
        /\ kicks' = [kicks EXCEPT ![k] = IdleKick]
        /\ overtaken' = overtaken \cup (moved \cap InHand)
        /\ UNCHANGED <<runVars, destVars, shutVars, world, counters, stIdx,
                       legacy, accepted, settled>>

\* A conflicting commit (badger.ErrConflict) or a store error drops the kick.
KickFail(k) ==
    /\ kicks[k].st = "write"
    /\ faults < MaxFaults
    /\ faults' = faults + 1
    /\ kicks' = [kicks EXCEPT ![k] = IdleKick]
    /\ UNCHANGED <<durable, runVars, destVars, shutVars, world, wakes, stops,
                   kickCount>>
-----------------------------------------------------------------------------
(* Worker.Run and the daemon around it *)

Boot ==
    /\ runner = "down"
    /\ runner' = "migrate"
    /\ UNCHANGED <<durable, destVars, shutVars, callers, world, counters,
                   gcVictims, gateOpen>>

\* Migrate, one transaction per legacy entry; it was queued before the clock
\* of this model starts.
Migrate(e, attempts) ==
    /\ runner = "migrate"
    /\ e \in legacy
    /\ rows[e].state = "none"
    /\ Insert(e, FreshRow(attempts, 0))
    /\ legacy' = legacy \ {e}
    /\ accepted' = accepted \cup {e}
    /\ UNCHANGED <<runVars, destVars, shutVars, callers, world, counters,
                   settled, overtaken>>

\* go worker.Run; a migration error is only logged.
Spawn ==
    /\ runner = "migrate"
    /\ \/ legacy = {} /\ UNCHANGED faults
       \/ legacy # {} /\ faults < MaxFaults /\ faults' = faults + 1
    /\ runner' = "spawned"
    /\ UNCHANGED <<durable, destVars, shutVars, callers, world, gcVictims,
                   gateOpen, stops, kickCount>>

\* running = true, and the first look at the gate.
RunStart ==
    /\ runner = "spawned"
    /\ runner' = "seed"
    /\ gateOpen' = gate
    /\ UNCHANGED <<durable, destVars, shutVars, callers, world, counters,
                   gcVictims>>

\* ListByState(enqueued): at most SeedLimit keys; their destinations are woken.
SeedNothing(s) == {}

SeedDests(s) == {DestOf[e] : e \in {x \in s : rows[x].state # "none"}}

RunSeed ==
    LET listed == {e \in Envs : <<"enqueued", e>> \in stIdx}
    IN  /\ runner = "seed"
        /\ runner' = "loop"
        /\ \/ \E s \in SUBSET listed :
                 /\ \/ s = listed /\ Cardinality(s) <= SeedLimit
                    \/ s # listed /\ Cardinality(s) = SeedLimit
                 /\ wakes' = wakes \cup SeedDests(s)
           \/ SeedFaults /\ UNCHANGED wakes
        /\ UNCHANGED <<durable, destVars, shutVars, world, counters, gcVictims,
                       gateOpen, kicks>>

GateOpened == gate /\ ~gateOpen

\* One tick of the gate watch; an opening wakes every goroutine (wakeAllDests).
GateTick ==
    /\ runner = "loop"
    /\ gateOpen' = gate
    /\ kickCh' = IF GateOpened THEN {d \in Dests : pc[d] # "none"} ELSE kickCh
    /\ UNCHANGED <<durable, shutVars, callers, world, counters, runner,
                   gcVictims, pc, pass, job>>

CollectableAnyState(row) ==
    row.state # "none" /\ now - row.changedAt >= GcSentAge

Collectable(row) ==
    \/ row.state = "sent" /\ now - row.changedAt >= GcSentAge
    \/ row.state = "failed" /\ now - row.changedAt >= GcFailedAge

GCRead ==
    /\ runner = "loop"
    /\ gcVictims' = {<<rows[e].state, e>> : e \in {x \in Envs : Collectable(rows[x])}}
    /\ gcVictims' # {}
    /\ runner' = "gc"
    /\ UNCHANGED <<durable, destVars, shutVars, callers, world, counters,
                   gateOpen>>

\* The Update deletes by the keys of the scan and looks at nothing again.
GCWrite ==
    /\ runner = "gc"
    /\ rows' = [e \in Envs |->
                  IF \E v \in gcVictims : v[2] = e THEN NoRow ELSE rows[e]]
    /\ stIdx' = stIdx \ gcVictims
    /\ gcVictims' = {}
    /\ runner' = "loop"
    /\ UNCHANGED <<destVars, shutVars, callers, world, counters, due, legacy,
                   accepted, settled, overtaken, gateOpen>>

RunStop ==
    /\ runner = "loop"
    /\ cancelled
    /\ runner' = "stopped"
    /\ UNCHANGED <<durable, destVars, shutVars, callers, world, counters,
                   gcVictims, gateOpen>>
-----------------------------------------------------------------------------
(* One goroutine per destination: runDest, drainDest, processRow *)

\* drainDest up to its loop: gate, hold, ListDue (which may fail).
DrainDest(d) ==
    \/ /\ gate
       /\ d \notin held
       /\ pass' = [pass EXCEPT ![d] = ListDue(d)]
       /\ pc' = [pc EXCEPT ![d] = IF ListDue(d) = {} THEN "idle" ELSE "pass"]
       /\ UNCHANGED faults
    \/ /\ ~gate \/ d \in held
       /\ pc' = [pc EXCEPT ![d] = "idle"]
       /\ UNCHANGED <<pass, faults>>
    \/ /\ gate /\ d \notin held
       /\ faults < MaxFaults
       /\ faults' = faults + 1
       /\ pc' = [pc EXCEPT ![d] = "idle"]
       /\ UNCHANGED pass

DrainUnchanged == UNCHANGED <<durable, runVars, shutVars, callers, world, job,
                              stops, kickCount>>

\* The pass a new goroutine starts with.
DestFirst(d) ==
    /\ pc[d] = "new"
    /\ DrainDest(d)
    /\ UNCHANGED kickCh
    /\ DrainUnchanged

DestKicked(d) ==
    /\ pc[d] = "idle"
    /\ d \in kickCh
    /\ kickCh' = kickCh \ {d}
    /\ DrainDest(d)
    /\ DrainUnchanged

DestTick(d) ==
    /\ pc[d] = "idle"
    /\ DrainDest(d)
    /\ UNCHANGED kickCh
    /\ DrainUnchanged

\* The loop head: leave when the context or the drain channel is closed, else
\* take the next row.  inFlight is not yet incremented.
DestPick(d) ==
    /\ pc[d] = "pass"
    /\ ~cancelled /\ drain = "open"
    /\ \E i \in pass[d] :
         /\ \A j \in pass[d] : ComesFirst(i, j)
         /\ pass' = [pass EXCEPT ![d] = @ \ {i}]
         /\ job' = [job EXCEPT ![d] = {[env |-> i.env, row |-> i.row, at |-> 0]}]
    /\ pc' = [pc EXCEPT ![d] = "go"]
    /\ UNCHANGED <<durable, runVars, shutVars, callers, world, counters,
                   kickCh>>

DestLeave(d) ==
    /\ pc[d] = "pass"
    /\ cancelled \/ drain # "open"
    /\ pass' = [pass EXCEPT ![d] = {}]
    /\ pc' = [pc EXCEPT ![d] = "idle"]
    /\ UNCHANGED <<durable, runVars, shutVars, callers, world, counters,
                   kickCh, job>>

\* inFlight.Add(1), the clock read of processRow, and Send.  The one resend on
\* a renewed circuit stays inside "sending".
DestSend(d) ==
    /\ pc[d] = "go"
    /\ \A j \in job[d] : j.row.attempts < AttemptCap
    /\ pc' = [pc EXCEPT ![d] = "sending"]
    /\ job' = [job EXCEPT ![d] = {[j EXCEPT !.at = now] : j \in @}]
    /\ UNCHANGED <<durable, runVars, shutVars, callers, world, counters,
                   kickCh, pass>>

DestExit(d) ==
    /\ pc[d] = "idle"
    /\ cancelled
    /\ pc' = [pc EXCEPT ![d] = "exited"]
    /\ UNCHANGED <<durable, runVars, shutVars, callers, world, counters,
                   kickCh, pass, job>>

\* inFlight.Add(-1) and back to the loop head.
RowDone(d) ==
    /\ pc[d] = "sending"
    /\ job' = [job EXCEPT ![d] = {}]
    /\ pc' = [pc EXCEPT ![d] = IF pass[d] = {} THEN "idle" ELSE "pass"]
    /\ UNCHANGED <<runVars, shutVars, callers, world, kickCh, pass, stops,
                   kickCount>>

\* What every failed attempt does to the counters: a kicked attempt is not
\* charged to the give-up limit.
NewKicked(row) == row.kickedAttempts + (IF row.kicked THEN 1 ELSE 0)

Charged(row) == [row EXCEPT !.attempts = @ + 1, !.kickedAttempts = NewKicked(row)]

Attempted(j) == [Charged(j.row) EXCEPT !.kicked = FALSE, !.changedAt = j.at]

CountedAttempts(row) == row.attempts - row.kickedAttempts

Settle(row, state) == [row EXCEPT !.state = state, !.nextAt = 0]

Reschedule(j, row) ==
    {[row EXCEPT !.state = "enqueued", !.nextAt = Capped(j.at + b)] :
        b \in Backoff(CountedAttempts(row))}

\* handleSendErr with a 401: settled at once, not "gave up".
RefusedRows(j) == {Settle(Attempted(j), "failed")}

\* handleSendErr otherwise: give up at the limit or the age, else back off.
GiveUp(j) ==
    \/ CountedAttempts(Attempted(j)) >= MaxAttempts
    \/ j.at - j.row.firstAt >= DeadLetterAge

FailedRows(j) ==
    IF GiveUp(j)
    THEN {[Settle(Attempted(j), "failed") EXCEPT !.gaveUp = TRUE]}
    ELSE Reschedule(j, Attempted(j))

\* handleSendOK with an ack that does not verify.
BadAckRows(j) ==
    LET row == [Attempted(j) EXCEPT !.ackFailures = @ + 1]
    IN  IF row.ackFailures >= AckVerifyMaxTries THEN {Settle(row, "failed")}
        ELSE Reschedule(j, row)

\* handleSendOK with a verified ack (or, for old peers, an empty body).
SentRows(j) ==
    {Settle([j.row EXCEPT !.attempts = @ + 1, !.kicked = FALSE,
                          !.ackFailures = 0, !.changedAt = j.at], "sent")}

Finish(d, j, new) ==
    /\ RowDone(d)
    /\ Advance(j.env, j.row, new)
    /\ UNCHANGED faults

SendRefused(d) == \E j \in job[d] : \E new \in RefusedRows(j) : Finish(d, j, new)
SendFailed(d) == \E j \in job[d] : \E new \in FailedRows(j) : Finish(d, j, new)
SendBadAck(d) == \E j \in job[d] : \E new \in BadAckRows(j) : Finish(d, j, new)
SendOK(d) == \E j \in job[d] : \E new \in SentRows(j) : Finish(d, j, new)

\* Advance returns an error: logged, the row stays as it is stored.
AdvanceFails(d) ==
    /\ RowDone(d)
    /\ faults < MaxFaults
    /\ faults' = faults + 1
    /\ UNCHANGED durable
-----------------------------------------------------------------------------
(* Shutdown, crash, environment *)

\* The deferred Drain of run.go: close drainCh, then wait for inFlight = 0.
DrainBegin ==
    /\ Up
    /\ drain = "open"
    /\ stops < MaxStops
    /\ stops' = stops + 1
    /\ drain' = "waiting"
    /\ UNCHANGED <<durable, runVars, destVars, callers, world, cancelled,
                   faults, kickCount>>

DrainReturn ==
    /\ drain = "waiting"
    /\ InFlight = {}
    /\ drain' = "drained"
    /\ UNCHANGED <<durable, runVars, destVars, callers, world, counters,
                   cancelled>>

\* The three-second grace runs out before a send does.
DrainExpire ==
    /\ drain = "waiting"
    /\ InFlight # {}
    /\ drain' = "expired"
    /\ UNCHANGED <<durable, runVars, destVars, callers, world, counters,
                   cancelled>>

\* The deferred workerCancel that runs after Drain.
Cancel ==
    /\ drain \in {"drained", "expired"}
    /\ ~cancelled
    /\ cancelled' = TRUE
    /\ UNCHANGED <<durable, runVars, destVars, callers, world, counters,
                   drain>>

\* The process is gone: after a shutdown, or by a crash at any point.
Down ==
    /\ runner # "down"
    /\ \/ cancelled /\ UNCHANGED stops
       \/ ~cancelled /\ stops < MaxStops /\ stops' = stops + 1
    /\ runner' = "down"
    /\ gcVictims' = {}
    /\ gateOpen' = TRUE
    /\ pc' = [d \in Dests |-> "none"]
    /\ kickCh' = {}
    /\ pass' = [d \in Dests |-> {}]
    /\ job' = [d \in Dests |-> {}]
    /\ wakes' = {}
    /\ kicks' = [k \in Kickers |-> IdleKick]
    /\ drain' = "open"
    /\ cancelled' = FALSE
    /\ UNCHANGED <<durable, world, faults, kickCount>>

Tick ==
    /\ now < MaxTime
    /\ now' = now + 1
    /\ UNCHANGED <<durable, runVars, destVars, shutVars, callers, counters,
                   gate, held>>

\* The wall clock is set back (UnixNano is not monotonic).
StepBack ==
    /\ ~MonotoneClock
    /\ now > 1
    /\ faults < MaxFaults
    /\ faults' = faults + 1
    /\ now' = now - 1
    /\ UNCHANGED <<durable, runVars, destVars, shutVars, callers, gate, held,
                   stops, kickCount>>

\* The Tor health poller changes its mind.
GateChange ==
    /\ GateFlaps
    /\ gate' = ~gate
    /\ UNCHANGED <<durable, runVars, destVars, shutVars, callers, counters,
                   now, held>>

\* A device removal begins or ends for the peer behind d (unlinkRefusesDest).
HoldChange(d) ==
    /\ Holds
    /\ held' = IF d \in held THEN held \ {d} ELSE held \cup {d}
    /\ UNCHANGED <<durable, runVars, destVars, shutVars, callers, counters,
                   now, gate>>
-----------------------------------------------------------------------------
Init ==
    /\ now = 1
    /\ rows = [e \in Envs |-> NoRow]
    /\ due = {} /\ stIdx = {}
    /\ legacy = Legacy
    /\ accepted = {}
    /\ settled = [e \in Envs |-> {}] /\ overtaken = {}
    /\ runner = "down" /\ gcVictims = {} /\ gateOpen = TRUE
    /\ wakes = {}
    /\ gate \in (IF GateFlaps THEN BOOLEAN ELSE {TRUE})
    /\ held = {}
    /\ pc = [d \in Dests |-> "none"]
    /\ kickCh = {}
    /\ pass = [d \in Dests |-> {}]
    /\ job = [d \in Dests |-> {}]
    /\ kicks = [k \in Kickers |-> IdleKick]
    /\ drain = "open" /\ cancelled = FALSE
    /\ faults = 0 /\ stops = 0 /\ kickCount = 0

Deliver(d) == SendRefused(d) \/ SendFailed(d) \/ SendBadAck(d) \/ SendOK(d)

DestStep(d) ==
    \/ DestFirst(d) \/ DestKicked(d) \/ DestTick(d) \/ DestPick(d) \/ DestLeave(d)
    \/ DestSend(d) \/ DestExit(d) \/ Deliver(d) \/ AdvanceFails(d)

KickStep(k) == KickRead(k) \/ KickWrite(k) \/ KickFail(k)

RunStep == Boot \/ Spawn \/ RunStart \/ RunSeed \/ GateTick \/ GCRead \/ GCWrite
           \/ RunStop

ShutStep == DrainBegin \/ DrainReturn \/ DrainExpire \/ Cancel \/ Down

Next ==
    \/ \E e \in Envs : Enqueue(e)
    \/ \E e \in Envs, a \in {0, 1} : Migrate(e, a)
    \/ \E k \in Kickers, s \in SUBSET Dests \ {{}}, all \in BOOLEAN : KickStart(k, s, all)
    \/ \E k \in Kickers : KickStep(k)
    \/ \E d \in Dests : Wake(d) \/ DestStep(d) \/ HoldChange(d)
    \/ RunStep \/ ShutStep
    \/ Tick \/ StepBack \/ GateChange

Spec == Init /\ [][Next]_vars

\* Goroutines that can run do run, sends end (SendTimeout), the clock and the
\* tickers advance, and Tor does not stay down for ever.  Nothing obliges
\* anyone to send, to kick, to crash or to shut down.  A gate that keeps
\* closing and opening must not be closed at every single drain: strong
\* fairness of the drains that find it open.
Fairness ==
    /\ WF_vars(Boot) /\ WF_vars(Spawn) /\ WF_vars(RunStart) /\ WF_vars(RunSeed)
    /\ WF_vars(GCWrite) /\ WF_vars(RunStop) /\ WF_vars(GateTick)
    /\ WF_vars(DrainReturn \/ DrainExpire) /\ WF_vars(Cancel)
    /\ WF_vars(cancelled /\ Down)
    /\ WF_vars(Tick) /\ WF_vars(~gate /\ GateChange)
    /\ \A e \in Envs : WF_vars(\E a \in {0, 1} : Migrate(e, a))
    /\ \A k \in Kickers : WF_vars(KickRead(k)) /\ WF_vars(KickWrite(k))
    /\ \A d \in Dests :
         /\ WF_vars(Wake(d)) /\ WF_vars(DestPick(d)) /\ WF_vars(DestLeave(d))
         /\ WF_vars(DestSend(d)) /\ WF_vars(DestExit(d)) /\ WF_vars(Deliver(d))
         /\ WF_vars(DestFirst(d)) /\ WF_vars(DestKicked(d))
         /\ SF_vars(gate /\ (DestKicked(d) \/ DestTick(d)))

LiveSpec == Spec /\ Fairness
-----------------------------------------------------------------------------
(* Properties *)

\* No accepted message is lost, whatever the clock, the kicks, the collections
\* and the crashes do: its row is gone only after a terminal state was
\* committed, and while it is enqueued both indexes lead to it.
NoLostMessage ==
    \A e \in accepted :
        /\ rows[e].state = "none" => settled[e] # {}
        /\ rows[e].state = "enqueued" =>
              /\ <<rows[e].nextAt, e>> \in due
              /\ <<"enqueued", e>> \in stIdx

\* The indexes hold nothing else: the due index is exactly the planned attempts
\* of the enqueued rows, the state index exactly the rows by state.  The one
\* thing that can leave a key too many is a kick that moves a row of which a
\* goroutine already has a copy.
IndexesExact ==
    LET exact == Envs \ overtaken
    IN  /\ {k \in due : k[2] \in exact} =
              {<<rows[e].nextAt, e>> : e \in {x \in exact : rows[x].state = "enqueued"}}
        /\ {k \in stIdx : k[2] \in exact} =
              {<<rows[e].state, e>> : e \in {x \in exact : rows[x].state # "none"}}

\* A row is on the wire only while it is enqueued: nothing whose outcome is
\* already settled (and perhaps collected) is sent again, unless a kick moved
\* the row while a goroutine had a copy of it.
NoSettledResend ==
    \A d \in InFlight : \A j \in job[d] :
        j.env \notin overtaken => rows[j.env].state = "enqueued"

\* The outcome told for an envelope is final, with the same exception.
OneOutcome == \A e \in Envs \ overtaken : \A s, t \in settled[e] : s = t

\* No destination with an enqueued row is left without its goroutine once Run
\* has listed the rows and every caller has paid its wake.
NoStrandedDest ==
    runner \in {"loop", "gc"} /\ wakes = {} =>
        \A e \in Envs : rows[e].state = "enqueued" => pc[DestOf[e]] # "none"

\* Every message the API accepted is settled in the end: acknowledged, or
\* reported failed; it is not retried for ever and not forgotten.
Settles == \A e \in Envs : (e \in accepted) ~> (settled[e] # {})

\* No send starts once Drain has returned with nothing in flight.
QuietAfterDrain == [][drain = "drained" => InFlight' \subseteq InFlight]_vars

\* A settled row is never listed as due.
SettledNotDue == \A k \in due : rows[k[2]].state \notin Terminal
=============================================================================
