# Haoma: TLA+ specifications, model checking and proofs

Haoma is a peer-to-peer messenger over Tor onion services. A backend daemon
(`src/backend/cmd/haomad`) owns Tor, the address book, an outbox, an inbox and
file downloads; a frontend daemon (`src/frontend/cmd/haoma`) owns conversations,
calls, files and the protocols between two people and between one person's linked
devices, and talks to the backend over a local API and an event stream. This
directory holds TLA+ modules translated from that source, the TLC configurations
that check them on small instances, and TLAPS proofs of what holds for every
instance. `PROJECT.json` ties definitions to source lines and lists components,
runs, hazards, mutants and theorems.

1. Inventory
2. Modules and plan
3. Outbox
4. Rotation
5. Inbox and Delivery (refinement)
6. Calls
7. UnreachableMark and CircuitRenew
8. DeliveryStatus and Receipts
9. GapFill and ContactDelete
10. FileTransfer
11. Proofs
12. Where the code and its promises part
13. Limits: what is only model-checked, what is not modelled

## 1. Inventory

| component | state it keeps | operations | correct when |
|---|---|---|---|
| outbox (`backend/internal/outbox`) | one row per envelope, due index, state index, per-destination goroutines | Enqueue, kick, pass of a destination, Advance, GC, migrate, Run, Drain | no accepted message is lost or sent after its outcome; each is settled in the end |
| rotation (`frontend/internal/rotation`) | in-memory records by id, busy mark per peer | Begin, five messages, accept, decline, deadline, confirm | one open rotation per peer; a failed one stays failed; both ends agree on the address |
| peer registry (`backend/internal/peers`) | peers, known and retired addresses, address index, own onion and its predecessor | create, overlay, collapse, rotate, sweeps, marks | every current address resolves; nothing in use is deleted |
| inbox (`haomad/inbox.go`) | entries by arrival, seen ids | append, list, delete | each message is handed out until it is handled, and stored once |
| relay (`haoma/relay.go`) | none of its own | one reader: sweep after a reconnect, then live events; acknowledge after handling | order per reader, no entry lost between sweep and stream |
| transport (`backend/internal/xport`, `haomad/circuit.go`) | circuits per peer | send, verify ack, receive | an ack means the peer stored the envelope |
| Tor control, health, onions (`backend/internal/tor`, `haomad/run.go`) | control connection, gate, published onions | add, delete, republish, poll | onions in the address book are served while connected |
| circuit renewal (`haomad/circuit_renew.go`) | routeBook: generation and decision per peer | begin, decide, finish | one decision per peer at a time, none from a stale measurement |
| unreachable mark, kicks (`haomad/unreachable_mark.go`, `reachability_kick.go`) | last published mark, kick stamps | note, recheck, kick | the published mark is the registry's in the end |
| unlink, destruction (`haomad/unlink*.go`, `self_erase.go`, `wipe`) | pending removals with a deadline | begin, hold, finish, sweep | a hold ends; a removed device gets nothing |
| calls (`frontend/internal/calls`, `haoma/calls_*.go`) | call rows, targets, who answered, who was stopped | offer to several devices, claim, stop, end, sweep | one device wins; the others are stopped |
| file transfer (`backend/internal/files`, `haoma/files_*.go`) | fetch rows and staging files, worker queue; metadata, message state, sealed file | offer, fetch, resume, retry, pull, key handshake, seal, reconnect sweep | the bytes are held until the next owner has them; a ready file stays ready; no file waits for nobody |
| stream proxy (`backend/internal/proxy`) | sessions, bounded newest-frame ring | push, pop, close | newest frames win, nobody blocks |
| event log, delivery status (`frontend/internal/events`) | journal, status per message, reconcile watermark | append, raise status, reconcile | a status never moves down; no outcome is passed over |
| chat state, sibling sync (`chat`, `crdt`, `gapfill`, `mirror`, `syncrail`) | sets, settings, journal, watermarks, acknowledgements | merge, fill gaps, prune | a sibling is passed no row it has not seen; what was deleted stays deleted |
| contacts (`peerstate`, `haoma/contact_delete.go`, `backfill.go`) | persons, pairings, tombstones | delete here and on siblings, merge, adopt, retry | a delete ends everywhere, takes no later pairing, and is not undone by a merge |
| receipts (`events`, `chat_settings.go`, `receipt_retry.go`) | receipt stamp, claim, generation | ship, claim, take back, suppress | the devices never all take a receipt for sent when it failed |
| presence, peer state | caches with expiry | observe, expire | stale presence disappears |
| vault, session, backup (`vault`, `session`, `backuparchive`) | files on disk | unlock, commit a restore | a crash leaves the old or the new state |
| pairing, ids, DHT, message encryption | keys, sessions | derive, look up | cryptography, outside the reach of TLC |
| user interfaces, streamers, Android | presentation, media | | not protocol state |

**How they interact.** The frontend hands an envelope to the backend (`/send`,
answered 202 once the row is committed); the destination and the source address
are fixed at that moment. The outbox sends it through the transport when the Tor
gate is open; the peer's server authenticates the source address against its
registry, stores the envelope in its inbox and publishes an event; the peer's
relay handles the entry in the frontend and deletes it. Delivery statuses travel
back to the frontend as events. Reachability observations, network changes and
user actions kick the outbox. Rotation uses all of this: its messages are
ordinary envelopes, its effects are changes of both address books.

**What is hard.** In the outbox: passes that work from snapshots, kicks with a
clock read long before the write, one-slot signals that may be dropped, a gate
that opens and closes, shutdown during a send, crashes between commit and signal.
In rotation: messages in any order, a deadline on each side, calls made outside
the lock between two looks at the same record, restarts that forget everything.
Between the daemons: events that are dropped, entries delivered twice, a stop
between consuming a message key and writing the row. In calls: two devices that
answer, timers against hang-ups, streamers started between two writes. Between
linked devices: journals, watermarks and acknowledgements of overlapping sweeps,
clocks that disagree, deletes that meet merges. In file transfer: files and rows
that change in separate steps in two daemons, retries that work from old copies.
`PROJECT.json` lists each hazard at its line.

## 2. Modules and plan

| module | models | abstract side | run |
|---|---|---|---|
| `Outbox` (`OutboxProofs`) | store and forward of outgoing envelopes | | `outbox_exact`, `outbox_settle` |
| `Rotation` (`RotationProofs`) | onion rotation, both ends with their address books | | `rotation` |
| `Inbox` (`InboxProofs`) | server, inbox, event stream, reader, ratchet and log | `Delivery` | `inbox` |
| `Calls` (`CallsProofs`) | caller and called devices, timers, streamers | | `calls` |
| `UnreachableMark`, `CircuitRenew` (`ReachabilityProofs`) | the backend's view of a peer's reachability | | `unreachable_mark`, `circuit_renew` |
| `DeliveryStatus` (`DeliveryStatusProofs`) | marks of outgoing rows | | `delivery` |
| `Receipts`, `GapFill`, `ContactDelete` (`SiblingProofs`) | what linked devices tell each other: receipts of incoming rows, sweeps, the delete of a contact | | `receipts`, `gapfill`, `contact_delete` |
| `FileTransfer` (`FileTransferProofs`) | one incoming file through both daemons | | `file_transfer` |

Each `MC` module extends its module with the values TLC needs and nothing else.
Every module states its types (`TypeOK`); the outbox's is part of its run, and
where a module has proofs its types are a conjunct of the inductive invariant. Where
one proof module extends several specifications, all but one (`UnreachableMark`,
`Receipts`, `ContactDelete`) prefix the usual names: `MarkSpec`, `ReceiptsSpec`,
`DeleteSpec`. A
fault model is part of every module: each kind of trouble may happen at most once
and a bound limits how many kinds meet in one behaviour. A step after which the
code has no way back is not hidden: the module records it in a history variable
(`cut`, `disturbed`, `unnoted`, `slipped`, ...), the property names exactly that
exception, and section 12 says what it means.

Next: `PeerRegistry` with rows still queued across a rotation; the stream proxy's ring
of newest frames; group-chat settings merge; commit of a backup restore; unlink
and its holds. No module meant for proofs declares a RECURSIVE operator.

Times at two workers: 5 s (`unreachable_mark`) to 3 min (`inbox`, `contact_delete`).

## 3. Outbox

### Model and code

| state | code |
|---|---|
| `rows`, `due`, `stIdx` | the `outbox:`, `outbox-due:` and `outbox-state:` keys; every write is one badger transaction and one action |
| `legacy` | old `xport-queue:` rows, moved by `Migrate` at start-up |
| `runner`, `gateOpen`, `gcVictims` | where `Worker.Run` is, the gate value it saw last, what GC's scan chose |
| `pc`, `pass`, `job`, `kickCh` | per destination: its goroutine, the rest of its snapshot, the row in hand, the full one-slot channel |
| `kicks` | a `KickByDests`/`KickAll` in progress: the clock it read, the rows its scan found |
| `wakes` | callers that have committed a row but not yet called `ensureDest` and `signalDest` |
| `drain`, `cancelled` | `Worker.Drain` and the worker's context |
| `now`, `gate`, `held` | wall clock, Tor gate, destinations `SkipDest` refuses |
| `accepted`, `settled` | history: what `/send` answered 202 for, the outcomes committed |

Steps are split exactly where the code is not atomic. `Advance` writes from the
caller's snapshot and reads nothing. `KickStart`, `KickRead`, `KickWrite` are the
clock read, the View and the Update. `GCRead` and `GCWrite` are two transactions.
`DestPick` is the look at `drainCh`, `DestSend` the `inFlight.Add` after it. A
`Down` loses everything but the keys. The envelope's content and the ack's
signature are reduced to the four ways a send can end (refused, failed, ack that
does not verify, acknowledged).

Attempts are planned with the code's doubling back-off and its jitter of a fifth.
Times are small integers: `BackoffBase` 1 and `BackoffCap` 2 give both an early
and a capped back-off, `MaxAttempts` 2 both a retry and a give-up,
`DeadLetterAge` both ways of giving up, `GcSentAge` 1 a collection within the run.

### Runs

| run | checks | shows |
|---|---|---|
| `outbox_exact` | `TypeOK`, `IndexesExact`, `NoSettledResend`, `OneOutcome`, `NoLostMessage` | two messages of one destination, one of them migrated from the old layout, a kick, holds, a failed start-up list, a failed write, one crash or shutdown: while no clock tick falls inside a kick, rows and indexes agree, nothing settled is sent again, no outcome is told twice, no message is lost |
| `outbox_settle` | `NoStrandedDest`, `Settles` (liveness) | with a flapping gate, a clock set back, a crash and a store error every destination with a row has its goroutine once the wakes are paid, and each accepted message is acknowledged or reported failed |

One or two envelopes suffice because rows interact only through the pass of their
destination and the kick's set; two rows in one pass cover order and the state
left for the next row. Every hazard listed needs at most one kick, one fault and
one stop. The proofs in section 11 remove the bounds for every safety property of
both runs. `PromptKicks` (no clock tick inside a kick) is an assumption of
`outbox_exact` and of the theorems about the same properties; `OutboxSlowKick.cfg` shows what happens without it. `CHECK_DEADLOCK FALSE`
here and below: the clock stops at its bound and messages run out.

### Fairness

Goroutines that can run do run; a send ends because of `SendTimeout` (60 s); the
clock and the 30 s ticker advance; a closed gate opens again at some time. Nothing
obliges anyone to send, kick, crash or stop, and faults are bounded. `Settles`
also needs strong fairness of the drains that find the gate open: a gate that
flaps must not be closed at every single tick for ever. Liveness is not claimed
for destinations on hold, whose rows wait for the end of a device removal, nor
when the start-up list fails: then a row waits until something new goes to its
destination.

## 4. Rotation

### Model and code

Two ends run the same code. At each end three actors share the manager's records
under its lock: the reader of the event stream, which handles one inbound entry
at a time; the deadline ticker; the user's client.

| state | code |
|---|---|
| `rec`, `perPeer` | `Manager.inflight` and `Manager.perPeer`; records stay after the end |
| `cleanup` | what `terminateAsFailed` does after its unlock: delete the onion, send the cancel |
| `hand` | the call the reader is in, between two looks at the record (`accept`, `minted`, `unmint`, `overlay`, `ship`, `apply`, `delold`) |
| `net`, `inbox` | envelopes in the sender's outbox, entries of the receiver's inbox |
| `my`, `prev`, `cooling` | `MyOnionAddr`, `PrevMyOnion` and whether its grace time runs |
| `known`, `front` | the set of `KnownAddresses`, and the first of them, the only place the list's order is looked at |
| `retired`, `keys` | `RetiredAddrs`, the `AddrKey` index |
| `served` | onions this end's Tor serves |

A send is joined to the locked section before it because the envelope may be
delivered at any later time and in any order anyway. Deadlines are abstract: they
may pass at any moment. A rotation id also names the onion minted for it. An
envelope arrives only if the sender resolves its destination and the peer serves
it; it is refused if the peer does not resolve its source. `Crash` is a restart
of the frontend, which forgets records and keeps both address books; `Reconnect`
loses every onion and publishes the address book's again. The clean-up that
follows a failed send of the reader is left to run at its own pace, which allows
a little more than the code. A contact deleted half way through is not modelled.

### Run

`rotation` checks `PerPeerExact`, `OwnOnionServed`, `NoOrphanOnion`,
`StaysConnected` (`NotCutOff` and `ReachesPeer`) and `FailedIsFinal`: two rotations begun by either end,
overlapping in every way, messages in any order, deadlines and cancels at any
moment; or one rotation (`TroubledRots` 1) with a failed call, an entry handled
twice, a restart and a lost Tor control connection. Two ids are what an eviction of the
previous onion, a crossing of two requests and a second rotation within the grace
time need; two ids with faults are out of TLC's reach, and the proofs of section
11 cover them for all five properties. Ends and ids are symmetric and
only safety is checked. `OwnOnionServed` is stated while the control connection
lasts; `NoOrphanOnion` and `StaysConnected` are stated for behaviours
without trouble and name their exceptions, which are real (section 12).

## 5. Inbox and Delivery

`Delivery` is what a device promises: a message whose sender was told "stored" is
held until it is shown, it is shown once, and the exceptions are only messages
whose handling was cut. `Inbox` is the code: the server stores an envelope under
its arrival and under its id (`inbox`, `index`), publishes it (`publishing`), the
`/events` handler (`conn`) carries it to the frontend (`stream`); `eventsLoop`
(`loop`) subscribes, sweeps up to `InboxLimit` entries (`work`), then follows the
stream; one entry at a time is decrypted, written to the log and deleted (`cur`,
`at`). A DELETE that times out may still be served later (`late`).

The run `inbox` checks `ExactlyOnce` (no entry is deleted before it was opened,
none makes a second row), the refinement `KeepsPromise`
(`INSTANCE Delivery WITH` a mapping, the abstract specification as a property)
and `Drains` (liveness): two envelopes of the same message, one of which cannot
be read, a sweep limit of one so that a sweep leaves something behind, a buffer
of one so that events are dropped, stops of the frontend, store faults.
Fairness: the loop reconnects and reads (`WF`), a sweep and a delete that can
succeed again and again do so at some time (`SF`): each is retried at every
reconnect and no fault is permanent. `Drains` is about reconnects that keep
happening: the sweep is run only then.

The ratchet is stored before the row, and `inbox.Delete`'s read and write are
one step. Two ends of the connection are one bounded buffer.

## 6. Calls

One call from one device to two devices of a contact. The caller's row (status,
`AnsweredBy`, `Stopped`), its goroutines (`th`: reader, offer timer, user), its
streamers and timer; per called device its row, streamers, ring timer, answering
and hanging-up goroutines and reader; per device a sequence of messages in each
direction. The outbox delivers a pair's messages in order, as a rule, so that a
message which overtakes another or is handled twice counts as a trouble.
`CallsAssumption` asks for at least one device, as `handleStartCall` does.
Transactions of `calls.go` are single steps; sends,
streamer starts and writes are separate ones.

`calls` checks: both ends that regard a call as accepted agree on the device
(`AnswerAgrees`: `AcceptedAgree`, and `OneAnswer`, which survives a restart), streamers run
only for a row that is live or is being torn down (`MediaFollowsRow`), no ringing
is left without a timer, message or goroutine that ends it (`RingingWatched`),
and the answer never changes (`AnswerFinal`). One trouble of any kind with two
devices; the proofs of section 11 are for any number of both. A second modality and two accepts on the same device at once are not
modelled.

## 7. UnreachableMark and CircuitRenew

`UnreachableMark`: one peer's record (times of the oldest failure, of the last
inbound and delivered envelopes), the outbox rows it is folded from at start-up,
the mark last told, two workers whose steps interleave. Checked: what was told
agrees with the record once nobody is under way (`ToldAgrees`), a failure after
the last sign of life is marked and a peer heard of later is not (`MarkExact`:
`NoMarkMissed`, `NoStaleMark`), across one restart between any two steps. The clock has seconds,
four of them, which is what two failures and an answer between them need. The
kick cooldown is not modelled.

`CircuitRenew`: the route of one peer (generation, deciding flag, window), two
requests with their cut timer and failure, hence four decisions side by side,
the peer removed or the circuits renewed by hand meanwhile. Measurements are
nondeterministic. Checked: one renewal per window, only for the generation that
failed, and a request is cut only if its route was renewed (`RenewOnce`,
`RenewsFailedRoute`), the deciding flag has an owner (`FlagHasOwner`) and a
removed peer is not entered again (`NoGhost`). The end of a window assumes that no
decision stalls for its three minutes.

## 8. DeliveryStatus and Receipts

`DeliveryStatus`: one outgoing message with one envelope per contact device. The
sending handler hands envelopes over and appends the row afterwards; the backend
settles them; reports arrive on the stream or are lost; after a reconnect the
reconcile pass lists sent and failed envelopes from the watermark (full pages
included) and moves it; receipts raise the mark; snapshots of the row travel
between the user's two devices. Checked: the mark only moves up (`MarkRises`), it
says failed only if every envelope failed (`FailedMeansAllFailed`), and no outcome
of an appended row lies below the watermark unapplied (`WatermarkCovers`), apart
from outcomes listed before the row existed (`slipped`, section 12).

`Receipts`: one incoming message on two linked devices with two concurrent
handlers each; stamp, claim origin and generation of the row, receipts in the
outbox, their failures, claims between the devices, the switch that disables
receipts. Checked: the devices never all take a message for acknowledged when
every receipt failed (`ReceiptNotLost`), and a suppressed receipt stays suppressed
(`SuppressedStays`).

## 9. GapFill and ContactDelete

`GapFill`: the asker and the answerer of one sweep direction, journal entries with
sequence numbers, batches of one row so that "there is more" happens, requests for
what was missed and for everything, edits and deletes on both devices, live
arrival, pruning by acknowledgements, a contact that is met only through the
snapshot so that a row cannot be placed at first. Checked: nothing the asker has
not handled is at or below its watermark and the acknowledgement stays behind the
watermark (`JournalSafe`: `NothingPassed`, `AckBehindWatermark`), a sweep that has ended has
handled what it found (`SweepDelivers`), and a deleted row never shows its text
again through a sweep (`NoResurrection`). One trouble: a loss, a stop, a second
sweep or a late arrival. `SweepDelivers` speaks of the rows handled, not of the
watermark: with batches of several rows, a row of a contact met after the snapshot
holds the watermark for its whole batch, whose other rows are then sent again by
the next sweep.

`ContactDelete`: one person on two linked devices, handlers in slots (two on one
device, one on the other in the run) whose steps interleave: mark, read, chat, pairing, forget, person, finish
for the delete; contact, merge, chats, check, adopt for a sweep. Checked: a person
deleted comes back only where a delete was cut or ran beside a merge
(`BackOnlyIfDisturbed`), a delete takes no pairing made later on that device
(`LaterPairingStays`), it ends on both devices (`DeleteEnds`) and a person met
again becomes known on the sibling (`RePairReaches`); the last two under weak
fairness of the handlers and sweeps, which are started by timers and reconnects.
Clocks differ by a second. Pairing is one step, message rows are left out. A
pairing is known by the second it was made in, so the model makes no two in the same
second. In the run two handlers meet on one device only in behaviours without new
pairings and faults (`Mixed = FALSE`); the theorems of section 11 hold with and
without that bound.

## 10. FileTransfer

| state | code |
|---|---|
| `fetch`, `part`, `final` | the fetch row, the `.part` file and the finished file in the backend's staging directory |
| `queue`, `job`, `retry` | the worker's channel of kicks, the goroutine in `runOne` with its copy of the row, each `retryAllFailed` with its copy |
| `events`, `link` | fetch events on the stream, bus and connection in one bounded buffer |
| `row`, `meta`, `key`, `staged`, `sealed` | the state in the message body, the file's metadata and key, the pulled ciphertext, the sealed file |
| `act` | the events loop and the goroutine of `sweepStagedFetches`, each at its step |
| `inbox`, `receipts`, `keyOut`, `blob` | entries not deleted, receipts and the key on their way, the file at the sender |
| `cut` | history: steps after which the code has no second chance |

A download is a pending row, a kick, `runOne`, bytes, a rename and a ready row,
each its own step; a stop may fall between any two, and `BackStart` is
`ReconcileStaging` followed by `ListPendingFetches`. In the frontend the offer
writes message, metadata, receipt and request in this order; the ready event is
followed by pull, write, drop, receipt and `convergeFileReady`, whose lock is
modelled; `stampFileEventState` reads and writes the message and then the
metadata. Contents are taken for correct: a hash mismatch, a failed decryption
and a refused range do not occur. The limit on parallel downloads is left out;
retired peers, age and backlog limits of a retry are one kind of trouble.

`file_transfer` checks `AtRest` (`NotStranded`, `RowAgrees`), `BytesKept` and
`ReadyIsFinal`:
two downloads that break off, two retries with a cap of two attempts (so that a
retry succeeds and one gives up), a queue of one, and one trouble of nine kinds.
With one download, one retry and two troubles the properties were checked too
(1.7 million states), as with two retries side by side.

## 11. Proofs

All proofs are for arbitrary sets and bounds, from the assumptions named in the
modules (`OutboxAssumption`, `RotationAssumption`, `EnvAssumption`,
`MaxGenAssumption`, `MarkAssumption`, `ConstantsAssumption`, `CallsAssumption`,
`FileTransferAssumption`, `Limits`, `TwoDevices`, `ClocksPositive`),
which say that a limit is a number, that a set has a member or that a name such as
`None` is not one of the things it stands beside. A theorem that needs more says
so in an `ASSUME` of its own. Each inductive invariant was checked with TLC on small
instances before it was proved.

* `OutboxTypeOK`: `Spec => []TypeOK`. One lemma per family of row values (what an
  attempt, a settlement, a back-off or a kick produces is a `Row`), then one step
  per action.
* `OutboxNoLostMessage`: `Spec => []NoLostMessage`. `NoLostMessage` speaks of
  accepted envelopes and is not inductive: `Advance` may store a row for an
  envelope whose row was collected, and `GC` deletes with the state it read
  before. The invariant is `NoLossInv == TypeOK /\ Findable /\ SettledRecorded`:
  every enqueued row, accepted or not, is reachable through both indexes, and
  every terminal row, every accepted envelope without a row and every victim GC
  has chosen has a recorded outcome, which is never removed.
  Nothing is assumed of the clock, so a kick with an old time is covered.
* `OutboxIndexesExact`, `OutboxNoSettledResend`, `OutboxOneOutcome`: under
  `MonotoneClock` and `PromptKicks`, which `OutboxSlowKick.cfg` and section 12
  show to be needed. `Advance` reads nothing and removes the keys of the copy its
  pass took, so exactness needs that the copy is still the row. `ExactInv` says
  so: the keys are exactly those of the rows (`KeysExact`), an enqueued row has a
  time (`Planned`), what is recorded of an envelope is what its row says and is said
  once (`Recorded`, `OneOutcome`), every copy in a pass or in hand is due and is the
  row that is stored (`Current`), and a kick carries the time of now (`KicksNow`),
  so it moves rows of the future only, never one in a pass.
* `OutboxNoStrandedDest`: if the start-up list does not fail and there are at most
  `SeedLimit` envelopes. A wake paid while `Run` is not running is dropped. The
  invariant `WakeInv` says that once `Run` has listed, the destination of an enqueued
  row has its goroutine or is owed a wake (`Awake`), and that a goroutine handles
  rows of its own destination (`OwnRows`); `NoLossInv` makes the list find every row.
* `RotationPerPeerExact`, `RotationFailedIsFinal`. `shipConfirm` sets
  `IConfirmed` and possibly the final state without looking at the state again
  after its send, so neither property follows from the handlers one by one.
  `ManagerInv` adds: the peer's confirm is noted only after the addresses were
  exchanged (`Unconfirmed`); a reader on its way from overlay or mint to its own
  confirm has not taken the peer's (`ShipsFirst`, because it handles one entry at
  a time); every id in a record, an envelope, the clean-up or the reader's hand
  has been minted, so `Begin` never reuses a record. Each action is shown to make
  one of three legal moves of one record (`Touch`) or to forget one end's records
  (`Forget`); the lemmas `StepBusy`, `StepFlags` and `StepShips` derive the rest.
* `RotationOwnOnionServed`, `RotationNoOrphanOnion`. An onion is minted before the
  record says so, deleted by four different steps outside the lock, and named by a
  record a restart forgets, so what the address book says is not inductive.
  `OnionInv`, on top of `ManagerInv`: an onion of this end belongs to a rotation it
  began itself and that no request under way names (`OwnRotation`, so its record is
  never made anew), what is in use belongs to a rotation that is finished or
  forgotten (`UseIsFinal`), only the onion of a failed one is to be deleted
  (`DeletesFailed`), the onion of a rotation under way is served (`MintServed`) and
  noted (`ServedMinted`), and without trouble a served onion has an owner
  (`HasOwner`).
* `RotationStaysConnected`: `Spec => []StaysConnected`, for any number of rotations
  begun by both ends. The invariant `ConnInv` speaks of runs without trouble.
  `TalkInv`: whoever got so far in a rotation has had the message before from the
  other; above all, an initiator that has the peer's confirm has been overlaid
  there. `PathInv`: once the responder takes up the initiator's current rotation it
  has nothing left to do for an older one (`Turn`, because it takes up a request
  only when it is not busy and the reader handles one entry at a time), so nothing
  is put over the address of the current rotation (`Leads`, `Fronted`, `Sole`); an
  initiator that is done before the responder has rotated, or is about to
  (`Rotated`); what is listed resolves (`Shelf`); and with those, what one end
  sends to is in use, still at hand or failed (`Aims`) and the onion in use is
  listed (`Lists`). The actions are first shown to be one of fourteen moves of one
  record, one reader and one book (`Move`), and every part is kept by a move.
* `FileReadyIsFinal`: `Spec => ReadyIsFinal`, with no assumption on the constants.
  Sealing the file and recording "ready" are steps of their own, taken by two
  goroutines, so the property is not inductive. `SealedInv` adds: a goroutine
  about to record or stamp "ready" has sealed the file. Each action either keeps
  the goroutines and the records or is one step of one goroutine; the lemmas
  `BackendSteps`, `LoopSteps`, `ActorSteps` and `FrontStopStep` show it for the
  backend, the events loop, both goroutines' shared steps and a stop, and
  `MoveKeeps` derives the invariant.
* `FileBytesKept`: `Spec => []BytesKept`, with no assumption on the constants. The
  worker, a retry, the start-up and the drop after a pull all remove the backend's
  staging file, and none of them asks who has the bytes.
  `FrontInv`: a goroutine past its write, or about to write "awaiting_key", has the
  bytes (`Held`, which no step takes back), and the offer asks for the download
  once. `BackInv`: until then the backend knows nothing of the file; afterwards, as
  long as only the backend has the bytes (`Guarded`), a row that is or is about to
  be ready has its file, the row says "downloading" while the worker is at it, and
  whoever is about to wipe, worker or retry, finds the failure it wrote still
  there. A retry that writes an older copy breaks the last part, which is why the
  property excepts it.
* `FileRowAgrees`: `Spec => []RowAgrees`, the half of `AtRest` about message and
  metadata. `RowInv`: unless two stamps overlapped or one was stopped, no goroutine is
  about to write over a ready message, and ready metadata has a ready message or a
  goroutine that will write it.
* `FileAtRest`: `Spec => []AtRest`; of the constants it uses only that the kick
  queue has a place. `AtRest` speaks of states in which nobody has anything to do,
  so the invariant has to say who will do what is missing in all the others.
  `FlowInv` does so for runs that met none of the named exceptions (`Clean`). On the
  backend a row under way has its goroutine or a kick, the goroutine's copy is the
  row, and a retry works from a failed row (`RunInv`); the final file belongs to a
  ready row, to a goroutine about to write it or to a row a stop cut off
  (`FileInv`). Between the two: a file the frontend has is never fetched anew, and a
  ready event is about a file that is ready or was pulled (`GotInv`); a failure the
  frontend was told of is so, or was counted, which is what makes a lost ready event
  noticed (`TraceInv`). On the frontend inbox entries are deleted last (`EntryInv`),
  one goroutine at a time converges and whoever waits for the key has one coming
  (`KeyInv`), and a file that waits for its key, or that the backend dropped, gets it
  (`RestInv`). Every action is either a move of the backend (`FetchMoves`) or one of
  the frontend and the sender (`FrontFlow`), and each conjunct is kept by both.
* `InboxExactlyOnce` and `InboxKeepsPromise`: `Spec => []ExactlyOnce` and the
  refinement `Spec => KeepsPromise`: initial states map to initial states of
  `Delivery` and every step to a step of it or a stutter. The same envelope may be in the
  sweep's list, on the stream and in hand at once, and a delete may be served late.
  `InboxInv`: the index names exactly the stored entries (`StoreExact`), what
  somebody is about to announce or handle is stored or at its end (`InHandSafe`),
  whatever may be deleted was opened and is at its end (`DeletesOver`), and a
  consumed key is that of a message at its end or of the entry in hand (`UsedFinal`);
  `HeldUntilOpened` and `OneRow` are the parts of `ExactlyOnce`.
* `MarkToldAgrees`, `MarkIsExact`. The record is written by several workers from
  what each has read, so the mark alone says nothing. `MarkInv`: the record never
  runs ahead of the outbox (`RecordBehindOutbox`), the newest failure was noted, is
  in a worker's hand or was lost in a failed write (`NewestNoted`), and a difference between what was told
  and the record is owed by a worker under way (`Owed`).
* `CircuitRenewsFailedRoute`, `CircuitRenewOnce`, `CircuitNoGhost`,
  `CircuitFlagHasOwner`. A decision measures for a long time without the lock and
  applies its result later. `RenewInv`: a decision that holds the flag is its only
  owner (`OwnersHoldFlag`, `OneOwner`, `FlagHasOwner`), a decision whose generation
  was overtaken before it took the flag finds the window of that renewal open
  (`OvertakenInWindow`, `SpentInWindow`), and a request is cut only after a
  renewal (`CutMeansRenewed`).
* `DeliveryFailedMeansAllFailed`, `DeliveryMarkRises`: `TruthInv` adds that every
  report on the row, on the stream and in a page of the pass is true of the outbox
  (`Truthful`), that a row lists every accepted envelope (`RowComplete`) and that
  whoever says failed, a device or a snapshot on its way, is right for good
  (`FailedTrue`). `DeliveryWatermarkCovers`: `CoverInv` adds that exactly the settled
  envelopes have a time (`Timed`), that the pass under way has shown, or still holds,
  what it is past (`PassCovers`), and what lies below the watermark (`MarkCovers`).
* `ReceiptsNotLost`, `ReceiptsSuppressedStays`. A claim may arrive after its stamp
  was taken back, and every device may hold a stamp it only heard of. `ReceiptInv`:
  a first-hand stamp has an envelope that was sent, is on record or is about to be,
  unless a stop came in between (`Witnessed`); a claim under way is of a generation
  that is outdated or still stood by first-hand (`Backed`); and some device of the
  newest generation is not acknowledged or is so first-hand (`Top`). So when all are
  acknowledged, one is first-hand and has its envelope.
* `GapJournalSafe`. The watermark, the pruned journal and the answers under way say
  nothing of the rows themselves. `SafeInv`: no request and no acknowledgement is
  ahead of the watermark (`Reach`); an answer shows a row as it is unless the row was
  written since, which sequence numbers and what was handled tell (`Contents`); an
  edited body is that of its stamp, and an unedited one is as sent on both sides
  (`Bodies`), so that merging yields a row at least as new (`MergeShows`); a row
  handled up to its entry shows what the answerer's says (`ToldShows`); everything
  below the watermark, and below where a handler is about to move it, was handled, and
  an answer brings what lies up to its end (`Below`). That a batch holds all entries
  up to its last, is empty only when nothing is left, and is full when it leaves one
  out, are lemmas on ranks and cardinalities (`SinceFirst`, `SinceSome`, `SinceFull`).
  `GapNoResurrection` follows from the types and from what merging does.
* `GapSweepDelivers`. `SweepInv`, while no trouble was met: one chain at a time
  (`Single`), distinct entries have distinct numbers and a strange contact's entries
  imply that it was met (`Numbered`), and every entry still owed lies above the
  watermark and is in the answer under way or beyond a full batch, its contact being
  in the snapshot and then met before rows are asked for (`Coming`).
* `DeleteBackOnlyIfDisturbed`: `DeleteSpec => []BackOnlyIfDisturbed`, for any number
  of deletes, pairings, failures, stops and handlers side by side and any clocks. The
  property speaks of a delete that is done, so `GoneInv` says what holds while it is
  at work, a failed one that is retried included. `Base`: the backend's pairings are
  among the stored ones and all were made (`Store`), a handler's tombstone is not
  newer than the one held and has its times, and what it is about to forget is gone
  from the backend (`AtWork`), a merge beside a delete is noted. `Gone`, where the
  delete held was neither overtaken by a pairing nor disturbed (`Plain`): nobody is
  past its check (`NoneBack`), each handler on the delete has done its part so far
  unless a call failed (`DoneSoFar`), the person and the chat are gone once nobody
  is at work on it, a done delete left the backend no pairing, and a chat that remains
  is older than the delete. A plain delete covers every pairing there is
  (`AllCovered`), so every check refuses.
* `DeleteLaterPairingStays`: `DeleteSpec => LaterPairingStays`. `Stamped`: the time a
  delete was first applied here is that of the tombstone held, and nothing is noted
  for a newer one; a handler carries that time and dooms nothing younger; no time
  under way is beyond what clocks and deletes allow. What a delete takes it doomed,
  and it doomed nothing above `Bound`.
* `CallsAnswerAgrees`, `CallsMediaFollowsRow`, `CallsRingingWatched`,
  `CallsAnswerFinal`. The first three speak of calls at rest, so `CallInv` says who
  is on the way to what a call not at rest lacks. `CallerInv`: what each goroutine
  knows of the row at its place (`RowKnown`), that an unanswered offer has its
  timer or somebody about to arm it or to end it, and an answered one its reader
  (`OfferWatched`), that streamers of a call that is not live have somebody to take
  them down (`LegsKnown`). `DeviceInv`: the same for a called device. `TalkInv`:
  an answer or farewell under way says what the device's row says (`SaysSo`); a
  device in an accepted call has it, or its answer or an end is under way
  (`AnswerHeard`); the device that has a call which is over is being told
  (`EndTold`), the word being in a goroutine's list, in the queue, or one of the
  named exceptions. Each action has a lemma for its own side and one for the talk;
  the other side's state is untouched.

## 12. Where the code and its promises part

None of these is excluded silently: each is a named exception of a property, an
assumption of a run, or has a configuration of its own that TLC refutes.

Outbox and rotation
* `OutboxSlowKick.cfg` (`SettledNotDue`, `outbox.go:375`): a kick that read the
  clock before a row was planned still takes the row for later than now when it is
  due and in a pass. It moves the due key; the pass's `Advance` deletes only the
  key of its snapshot, so the settled row stays in the due index.
* `OutboxDrain.cfg` (`QuietAfterDrain`, `outbox.go:763`): `drainDest` looks at
  `drainCh` and increments `inFlight` in two steps; `Drain` can return between them.
* `RotationSplit.cfg` (`RetainsRotated`, `manager.go:505`): the responder finishes
  with the initiator's confirm; an initiator whose deadline passes first deletes
  the new onion, while the responder has dropped the old address.

Inbox: `InboxSkip.cfg` (`NothingLost`, `relay.go:440`): a stop between the stored
ratchet and the row makes the next delivery an old counter, which is deleted
unshown. A store failure drops a message. A dropped event and entries beyond the
limit wait for the next reconnect.

Calls: a hang-up whose sends all fail returns before the teardown
(`calls_handlers.go:306`) and the streamers stay; an end that overtakes the
accept of the same device is not seen by `ClaimAnswer` (`calls.go:349`); a write
that fails twice leaves a row "offered". The first and the last are exceptions of
`MediaFollowsRow` and `RingingWatched`.

Reachability: a stop between a row sent and `NoteDelivered` leaves a mark until
the next sign of life; a failed `NoteUndelivered` leaves it missing until a restart.

Delivery: an outcome listed before its row is appended is passed by the watermark
(`receipt_retry.go:177`). Receipts: a stop between stamp and record leaves a stamp
no failure takes back.

Sibling sync: a row written between the empty list and the read of the head is
passed (`gapfill_answer.go:54`); an inserted row loses its edit stamp, so an older
answer can overwrite it (`gapfill.go:332`); a live edit after a delete gives the
row a body (`events.go:1026`); a request for everything with a full batch starts
at zero again (`gapfill_answer.go:32`). Contacts: a delete between the check and
the merge is undone (`backfill.go:133`); a delete cut before the person is
forgotten lets a sweep adopt the chat, and the retry then counts as done
(`contact_delete.go:134`); clocks apart can refuse a sibling's new pairing for as
long as they differ (`backfill.go:142`).

Files (`cut` in `FileTransfer`)
* `unheard`, `pull`: a ready event lost, or a pull that fails, after the file was
  shown as failed: the sweep lists pending and downloading files only, retries
  list failed rows only, and the row is ready.
* `enqueue`, `frontStop`: a stop or a failed request after the metadata is
  written is not made good by the offer's second delivery, which finds the
  metadata; nor is a stop after the drop with the key already there.
* `full`: a dropped kick leaves a pending row until a restart.
* `stale`: a retry's old copy written over the worker's row can remove a finished
  download (`fetch_worker.go:558`).
* `stamp`: two overlapping stamps can leave the message "failed" beside metadata
  that is ready.

## 13. Limits

Only model-checked: liveness (`Settles`, `Drains`, `DeleteEnds`, `RePairReaches`),
because fairness is outside the prover. Every safety property of the runs is proved.

Not modelled: the components marked so in `PROJECT.json`, with the reason there:
interfaces, tools and test rigs, media streamers, Android, cryptography, storage
formats, vault and backup files, pairing, the stream proxy. They make up most of
the repository's lines. Within the modelled components: envelope contents,
signatures, log output, read-only listings; contacts retired during a rotation;
the batched scan of `MarkRead`, expiry and search in the event log; outgoing file
staging, files between siblings and the janitor; replicated settings of groups;
the presence cache.
