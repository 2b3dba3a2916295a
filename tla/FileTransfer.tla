---------------------------- MODULE FileTransfer ----------------------------
(***************************************************************************)
(* One file offered by a contact, on the receiving device: the backend     *)
(* downloads the ciphertext (fetch rows, staging files, worker, retries),  *)
(* the frontend pulls it, asks the sender for the key and seals the file   *)
(* once it has both halves.  Either daemon may stop, the event stream      *)
(* between them breaks and drops events, downloads break off.              *)
(***************************************************************************)
EXTENDS Naturals, Sequences, FiniteSets

CONSTANTS
    Retriers,         \* callers of retryAllFailed: API, network change, Tor reset
    RetryAttemptCap,  \* failed downloads before a retry gives up
    KickCap,          \* the 64 slots of the worker's queue
    EventCap,         \* the subscriber's buffer
    MaxRetries,       \* bound: retry sweeps that find the row
    MaxBreaks,        \* bound: downloads that break off
    MaxTrouble        \* bound: kinds of trouble, each at most once

ASSUME FileTransferAssumption ==
    /\ RetryAttemptCap \in Nat \ {0} /\ KickCap \in Nat \ {0} /\ EventCap \in Nat \ {0}
    /\ MaxRetries \in Nat /\ MaxBreaks \in Nat /\ MaxTrouble \in Nat

VARIABLES
    fetch,      \* backend: the fetch row
    part,       \* backend: the .part file: none, some, whole
    final,      \* backend: the staging file under its final name
    queue,      \* backend: kicks of this token in the queue
    job,        \* backend: the goroutine in runOne and its copy of the row
    retry,      \* backend: each running retryAllFailed and its copy of the row
    backUp,     \* backend: running
    link,       \* the event stream stands
    events,     \* fetch events on the stream
    row,        \* frontend: the state in the message's body
    meta,       \* frontend: the state in the file's metadata
    key,        \* frontend: the metadata holds the key
    staged,     \* frontend: the pulled ciphertext
    sealed,     \* frontend: the sealed file
    act,        \* frontend: the events loop and the staged-fetch sweep
    inbox,      \* entries not deleted yet: the offer, a key
    receipts,   \* file receipts on their way to the sender
    keyOut,     \* the sender's key envelope is in its outbox
    blob,       \* the sender hosts the file
    retries, breaks, trouble,
    cut         \* history: what went wrong where nothing takes it up again

backVars == <<fetch, part, final, queue, job, retry, backUp>>
frontVars == <<row, meta, key, staged, sealed, act>>
netVars == <<inbox, receipts, keyOut, blob>>
bounds == <<retries, breaks, trouble, cut>>
vars == <<backVars, link, events, frontVars, netVars, bounds>>

FetchStates == {"none", "pending", "downloading", "ready", "failed_transient", "failed_permanent"}
FileStates == (FetchStates \ {"none"}) \cup {"awaiting_key"}
Fetch == [state : FetchStates, attempts : Nat, kicked : BOOLEAN]
NoFetch == [state |-> "none", attempts |-> 0, kicked |-> FALSE]
NoJob == [pc |-> "idle", row |-> NoFetch]
NoRetry == [pc |-> "idle", row |-> NoFetch, kicked |-> FALSE]
Idle == [pc |-> "idle", to |-> "none", entry |-> "none"]
Actors == {"loop", "sweep"}
Settled == {"ready", "failed_permanent"}

Troubles == {"backStop", "frontStop", "break", "full", "limit", "pull", "enqueue", "seal", "lost", "withdrawn"}
Meet(t) ==
    /\ t \notin trouble /\ Cardinality(trouble) < MaxTrouble
    /\ trouble' = trouble \cup {t}

-----------------------------------------------------------------------------
(* The backend: store, staging directory, worker *)

InFlight(f) == f.state \in {"pending", "downloading"}

\* The worker's event goes to the bus; a full buffer or no subscriber drops it.
Publish(s) == events' = IF link /\ Len(events) < EventCap THEN Append(events, s) ELSE events

\* The worker's verdict is lost.  Nobody repeats a failed_permanent; a ready
\* after a failure the frontend was told of is lost too, as its sweep passes over
\* failed rows and the backend's retries over ready ones.
Unheard(f, lost) ==
    IF lost /\ (f.state = "failed_permanent" \/ f.attempts > 0) THEN cut \cup {"unheard"} ELSE cut
VerdictPending == \E i \in DOMAIN events : events[i] \in Settled

\* PutFetch leaves a row alone that is under way or ready with its file.
PutFetch(f, fin) ==
    IF InFlight(f) \/ (f.state = "ready" /\ fin) THEN f ELSE [NoFetch EXCEPT !.state = "pending"]

\* Kick: one more token in the queue, or dropped when the queue is full, which
\* other files alone may bring about.
Kick ==
    \/ queue < KickCap /\ queue' = queue + 1 /\ UNCHANGED <<trouble, cut>>
    \/ queue = KickCap /\ UNCHANGED <<queue, trouble, cut>>
    \/ Meet("full") /\ cut' = cut \cup {"full"} /\ UNCHANGED queue

\* Run takes a kick; startFetch ignores it while the token is in flight.
StartFetch ==
    /\ backUp /\ queue > 0 /\ queue' = queue - 1
    /\ job' = IF job.pc = "idle" THEN [job EXCEPT !.pc = "begin"] ELSE job
    /\ UNCHANGED <<fetch, part, final, retry, backUp, link, events, frontVars, netVars, bounds>>

\* runOne up to the first byte: a row that is gone or settled ends it.
RunOne ==
    /\ backUp /\ job.pc = "begin"
    /\ IF fetch.state \in Settled \cup {"none"}
       THEN job' = [job EXCEPT !.pc = "exit"] /\ UNCHANGED <<fetch, events>>
       ELSE LET f == [fetch EXCEPT !.state = "downloading"] IN
            /\ fetch' = f
            /\ job' = [pc |-> IF part = "whole" THEN "rename" ELSE "stream", row |-> f]
            /\ Publish("downloading")
    /\ UNCHANGED <<part, final, queue, retry, backUp, link, frontVars, netVars, bounds>>

\* streamOne: bytes are appended to the .part file,
StreamSome ==
    /\ backUp /\ job.pc = "stream" /\ blob /\ part = "none"
    /\ part' = "some"
    /\ UNCHANGED <<fetch, final, queue, job, retry, backUp, link, events, frontVars, netVars, bounds>>

\* or the last of them, which is synced before the progress is written.
StreamWhole ==
    /\ backUp /\ job.pc = "stream" /\ blob
    /\ part' = "whole" /\ fetch' = job.row
    /\ job' = [job EXCEPT !.pc = "rename"]
    /\ UNCHANGED <<final, queue, retry, backUp, link, events, frontVars, netVars, bounds>>

\* transitionTransient: a download the network change kicked is not counted.
Transient(f) ==
    [state |-> "failed_transient", kicked |-> FALSE,
     attempts |-> IF f.kicked THEN f.attempts ELSE f.attempts + 1]

\* No address, no circuit, a broken or timed-out stream, also after the last byte.
StreamBreaks ==
    /\ backUp /\ job.pc = "stream" /\ breaks < MaxBreaks
    /\ breaks' = breaks + 1
    /\ part' \in {part, "whole"} /\ (part' = "whole" => blob)
    /\ fetch' = Transient(job.row) /\ Publish("failed_transient")
    /\ job' = [job EXCEPT !.pc = "exit"]
    /\ UNCHANGED <<final, queue, retry, backUp, link, frontVars, netVars, retries, trouble, cut>>

\* transitionPermanent: first the row, then the files, then the event.
Permanent(f) == [f EXCEPT !.state = "failed_permanent"]

\* The sender answers 404.
StreamGone ==
    /\ backUp /\ job.pc = "stream" /\ ~blob
    /\ fetch' = Permanent(job.row)
    /\ job' = [job EXCEPT !.pc = "wipe"]
    /\ UNCHANGED <<part, final, queue, retry, backUp, link, events, frontVars, netVars, bounds>>

\* streamOne and finishFromPart: the whole .part file gets its final name; a
\* file that is gone meanwhile fails the download.
Rename ==
    /\ backUp /\ job.pc = "rename"
    /\ IF part = "whole"
       THEN /\ final' = TRUE /\ part' = "none"
            /\ job' = [job EXCEPT !.pc = "ready"] /\ UNCHANGED <<fetch, events>>
       ELSE /\ fetch' = Transient(job.row) /\ Publish("failed_transient")
            /\ job' = [job EXCEPT !.pc = "exit"] /\ UNCHANGED <<part, final>>
    /\ UNCHANGED <<queue, retry, backUp, link, frontVars, netVars, bounds>>

WriteReady ==
    /\ backUp /\ job.pc = "ready"
    /\ fetch' = [job.row EXCEPT !.state = "ready"] /\ Publish("ready")
    /\ cut' = Unheard(fetch', events' = events)
    /\ job' = [job EXCEPT !.pc = "exit"]
    /\ UNCHANGED <<part, final, queue, retry, backUp, link, frontVars, netVars, retries, breaks, trouble>>

\* DeleteStaging and the event at the end of transitionPermanent.
WorkerWipes ==
    /\ backUp /\ job.pc = "wipe"
    /\ final' = FALSE /\ part' = "none" /\ Publish("failed_permanent")
    /\ cut' = Unheard(fetch, events' = events)
    /\ job' = [job EXCEPT !.pc = "exit"]
    /\ UNCHANGED <<fetch, queue, retry, backUp, link, frontVars, netVars, retries, breaks, trouble>>

\* The deferred end of runOne: only now is the token out of flight.
WorkerExits ==
    /\ backUp /\ job.pc = "exit" /\ job' = NoJob
    /\ UNCHANGED <<fetch, part, final, queue, retry, backUp, link, events, frontVars, netVars, bounds>>

\* retryAllFailed lists the failed rows and works from the copies.
RetryList(r, kicked) ==
    /\ backUp /\ retry[r].pc = "idle" /\ fetch.state = "failed_transient"
    /\ retries < MaxRetries /\ retries' = retries + 1
    /\ retry' = [retry EXCEPT ![r] = [pc |-> "decide", row |-> fetch, kicked |-> kicked]]
    /\ UNCHANGED <<fetch, part, final, queue, job, backUp, link, events, frontVars, netVars, breaks, trouble, cut>>

\* A retired peer, the attempt cap, the age cap and the backlog cap end it.
LimitReached(f) == f.attempts >= RetryAttemptCap

\* The copy is written over what the worker made of the row meanwhile.
Overwrites(f) == IF fetch # f \/ job.pc \notin {"idle", "begin", "exit"} THEN cut \cup {"stale"} ELSE cut

RetryDecide(r) ==
    LET f == retry[r].row IN
    /\ backUp /\ retry[r].pc = "decide"
    /\ \/ /\ IF LimitReached(f) THEN UNCHANGED trouble ELSE Meet("limit")
          /\ fetch' = Permanent(f) /\ cut' = Overwrites(f)
          /\ retry' = [retry EXCEPT ![r].pc = "wipe"]
       \/ /\ ~LimitReached(f) /\ UNCHANGED trouble
          /\ IF retry[r].kicked /\ ~f.kicked
             THEN fetch' = [f EXCEPT !.kicked = TRUE] /\ cut' = Overwrites(f)
             ELSE UNCHANGED <<fetch, cut>>
          /\ retry' = [retry EXCEPT ![r].pc = "kick"]
    /\ UNCHANGED <<part, final, queue, job, backUp, link, events, frontVars, netVars, retries, breaks>>

RetryWipes(r) ==
    /\ backUp /\ retry[r].pc = "wipe"
    /\ final' = FALSE /\ part' = "none" /\ Publish("failed_permanent")
    /\ cut' = Unheard(fetch, events' = events)
    /\ retry' = [retry EXCEPT ![r] = NoRetry]
    /\ UNCHANGED <<fetch, queue, job, backUp, link, frontVars, netVars, retries, breaks, trouble>>

RetryKicks(r) ==
    /\ backUp /\ retry[r].pc = "kick" /\ Kick
    /\ retry' = [retry EXCEPT ![r] = NoRetry]
    /\ UNCHANGED <<fetch, part, final, job, backUp, link, events, frontVars, netVars, retries, breaks>>

\* Mutant of Reconciled: a file without a row to resume is an orphan, ready or not.
ReconciledOrphans(f, p, fin) ==
    IF f.state \in {"pending", "downloading", "failed_transient"}
    THEN [part |-> IF fin /\ p = "none" THEN "whole" ELSE p, final |-> fin /\ p # "none"]
    ELSE [part |-> "none", final |-> FALSE]

\* ReconcileStaging: a final file whose row is not ready becomes a .part file
\* again; a .part file without a row to resume it is completed or removed.
Reconciled(f, p, fin) ==
    LET resumable == f.state \in {"pending", "downloading", "failed_transient"}
        back == fin /\ resumable /\ p = "none"
        finAfter == fin /\ ~back /\ f.state # "failed_permanent"
        partAfter == IF back THEN "whole" ELSE p
    IN CASE resumable \/ partAfter = "none" -> [part |-> partAfter, final |-> finAfter]
         [] f.state = "ready" /\ ~finAfter /\ partAfter = "whole" -> [part |-> "none", final |-> TRUE]
         [] OTHER -> [part |-> "none", final |-> finAfter]

\* Mutant of Resumes: a row cut while downloading is not listed.
ResumesPending(f) == f.state = "pending"

\* ListPendingFetches at start-up.
Resumes(f) == InFlight(f)

\* A goroutine has given the file up and not said so yet.
Verdict == VerdictPending \/ job.pc = "wipe" \/ \E r \in Retriers : retry[r].pc = "wipe"

BackStop ==
    /\ backUp /\ Meet("backStop")
    /\ backUp' = FALSE /\ queue' = 0 /\ job' = NoJob
    /\ retry' = [r \in Retriers |-> NoRetry]
    /\ link' = FALSE /\ events' = <<>> /\ cut' = Unheard(fetch, Verdict)
    /\ UNCHANGED <<fetch, part, final, frontVars, netVars, retries, breaks>>

BackStart ==
    /\ ~backUp /\ backUp' = TRUE
    /\ part' = Reconciled(fetch, part, final).part
    /\ final' = Reconciled(fetch, part, final).final
    /\ job' = IF Resumes(fetch) THEN [NoJob EXCEPT !.pc = "begin"] ELSE NoJob
    /\ cut' = cut \ {"full"}
    /\ UNCHANGED <<fetch, queue, retry, link, events, frontVars, netVars, retries, breaks, trouble>>

-----------------------------------------------------------------------------
(* The frontend: the events loop and the sweep after a reconnect *)

Goto(a, pc) == act' = [act EXCEPT ![a].pc = pc]
Finish(a) == act' = [act EXCEPT ![a] = Idle] /\ inbox' = inbox \ {act[a].entry}
Stamp(a, s) == act' = [act EXCEPT ![a].pc = "stamp", ![a].to = s]

\* What processInboxEntry and the fetch handlers leave alone.
SameBack == UNCHANGED <<backVars, link, events>>
SameNet == UNCHANGED <<receipts, keyOut, blob>>
SameFront == UNCHANGED <<row, meta, key, staged, sealed>>

\* The stream is set up; the loop's onReady starts the sweep.
Connect ==
    /\ backUp /\ ~link /\ act["loop"].pc = "idle" /\ act["sweep"].pc = "idle"
    /\ link' = TRUE
    /\ Goto("sweep", "list")
    /\ UNCHANGED <<backVars, events, row, meta, key, staged, sealed, netVars, bounds>>

Disconnect ==
    /\ link /\ Meet("break")
    /\ link' = FALSE /\ events' = <<>> /\ cut' = Unheard(fetch, VerdictPending)
    /\ UNCHANGED <<backVars, frontVars, netVars, retries, breaks>>

\* sweepStagedFetches: only rows still pending or downloading.
SweepList ==
    /\ act["sweep"].pc = "list"
    /\ Goto("sweep", IF meta \in {"pending", "downloading"} THEN "pull" ELSE "idle")
    /\ SameFront /\ SameBack /\ UNCHANGED <<netVars, bounds>>

\* The loop takes an inbox entry: an offer, or a key for a row that waits.
TakeEntry(e) ==
    /\ link /\ act["loop"].pc = "idle" /\ e \in inbox
    /\ IF e = "key" /\ meta \in Settled \cup {"none"}
       THEN inbox' = inbox \ {e} /\ UNCHANGED act
       ELSE /\ act' = [act EXCEPT !["loop"] =
                         [pc |-> IF e = "offer" THEN "offer" ELSE "key", to |-> "none", entry |-> e]]
            /\ UNCHANGED inbox
    /\ SameFront /\ SameBack /\ SameNet /\ UNCHANGED bounds

\* ingestFileOffer: the message, the metadata if there is none, the early
\* receipt, and the request to download.
OfferRow ==
    /\ act["loop"].pc = "offer"
    /\ row' = IF row = "none" THEN "downloading" ELSE row
    /\ Goto("loop", "offerMeta")
    /\ SameBack /\ UNCHANGED <<meta, key, staged, sealed, netVars, bounds>>

OfferMeta ==
    /\ act["loop"].pc = "offerMeta"
    /\ IF meta = "none" THEN meta' = "downloading" /\ Goto("loop", "offerReceipt") /\ UNCHANGED inbox
                        ELSE UNCHANGED meta /\ Finish("loop")
    /\ SameBack /\ SameNet /\ UNCHANGED <<row, key, staged, sealed, bounds>>

OfferReceipt ==
    /\ act["loop"].pc = "offerReceipt"
    /\ receipts' = receipts + 1
    /\ Goto("loop", "offerFetch")
    /\ SameFront /\ SameBack /\ UNCHANGED <<inbox, keyOut, blob, bounds>>

\* handleFetchFile; the call fails when the backend is gone.
OfferFetch ==
    /\ act["loop"].pc = "offerFetch"
    /\ \/ /\ backUp
          /\ fetch' = PutFetch(fetch, final)
          /\ IF fetch' # fetch THEN Kick ELSE UNCHANGED <<queue, trouble, cut>>
          /\ Finish("loop")
       \/ /\ IF backUp THEN Meet("enqueue") ELSE UNCHANGED trouble
          /\ cut' = cut \cup {"enqueue"} /\ Stamp("loop", "failed_transient")
          /\ UNCHANGED <<fetch, queue, inbox>>
    /\ SameFront /\ SameNet
    /\ UNCHANGED <<part, final, job, retry, backUp, link, events, retries, breaks>>

\* ingestFileKey, after its look at the row's state.
KeyWritten ==
    /\ act["loop"].pc = "key"
    /\ key' = TRUE
    /\ Goto("loop", "converge")
    /\ SameBack /\ UNCHANGED <<row, meta, staged, sealed, netVars, bounds>>

\* fileFetchStateHandler and markDownloadingAgain.
HandleEvent ==
    /\ link /\ act["loop"].pc = "idle" /\ events # <<>>
    /\ events' = Tail(events)
    /\ LET s == Head(events) IN
       CASE s = "ready" -> Goto("loop", "pull")
         [] s = "downloading" -> IF meta \in {"pending", "failed_transient"}
                                 THEN Stamp("loop", s) ELSE UNCHANGED act
         [] OTHER -> Stamp("loop", s)
    /\ SameFront /\ UNCHANGED <<backVars, link, netVars, bounds>>

\* finalizeReadyFetch: the blob is read from the backend,
Pull(a) ==
    /\ act[a].pc = "pull"
    /\ \/ backUp /\ final /\ Goto(a, "write") /\ UNCHANGED <<trouble, cut>>
       \/ /\ IF backUp /\ final THEN Meet("pull") ELSE UNCHANGED trouble
          /\ IF a = "loop" THEN Stamp(a, "failed_transient") ELSE Goto(a, "idle")
          /\ cut' = IF a = "loop" /\ (final \/ ~backUp) THEN cut \cup {"pull"} ELSE cut
    /\ SameFront /\ SameBack /\ UNCHANGED <<netVars, retries, breaks>>

\* written to the frontend's staging directory,
PullWrites(a) ==
    /\ act[a].pc = "write"
    /\ staged' = TRUE
    /\ Goto(a, "drop")
    /\ SameBack /\ UNCHANGED <<row, meta, key, sealed, netVars, bounds>>

\* dropped by the backend unless a fetch is under way (DropStaging),
Droppable(f) == ~InFlight(f)

PullDrops(a) ==
    /\ act[a].pc = "drop"
    /\ IF backUp /\ Droppable(fetch)
       THEN fetch' = NoFetch /\ final' = FALSE /\ part' = "none"
       ELSE UNCHANGED <<fetch, final, part>>
    /\ Goto(a, "receipt")
    /\ SameFront /\ UNCHANGED <<queue, job, retry, backUp, link, events, netVars, bounds>>

\* and the sender is asked for the key if it is not here.
PostPullReceipt(a) ==
    /\ act[a].pc = "receipt"
    /\ receipts' = IF key THEN receipts ELSE receipts + 1
    /\ Goto(a, "converge")
    /\ SameFront /\ SameBack /\ UNCHANGED <<inbox, keyOut, blob, bounds>>

\* convergeFileReady holds the file's lock to its end.
Locked(a) ==
    \/ act[a].pc \in {"seal", "record", "await"}
    \/ act[a].pc \in {"stamp", "stampRow", "stampMeta"} /\ act[a].to \in {"ready", "awaiting_key"}
MayConverge(a) == \A b \in Actors \ {a} : ~Locked(b)

Converge(a) ==
    /\ act[a].pc = "converge" /\ MayConverge(a)
    /\ CASE meta \notin Settled /\ staged /\ key -> Goto(a, "seal") /\ UNCHANGED inbox
         [] meta \notin Settled \cup {"awaiting_key"} /\ staged /\ ~key -> Goto(a, "await") /\ UNCHANGED inbox
         [] OTHER -> Finish(a)
    /\ SameFront /\ SameBack /\ SameNet /\ UNCHANGED bounds

\* DecryptSealMove, which may fail on the way,
Seal(a) ==
    /\ act[a].pc = "seal"
    /\ sealed' = TRUE /\ staged' = FALSE
    /\ Goto(a, "record")
    /\ SameBack /\ UNCHANGED <<row, meta, key, netVars, bounds>>

SealFails(a) ==
    /\ act[a].pc = "seal" /\ Meet("seal") /\ cut' = cut \cup {"seal"}
    /\ Stamp(a, "failed_transient")
    /\ SameFront /\ SameBack /\ UNCHANGED <<netVars, retries, breaks>>

\* and the row that records it.
Record(a) ==
    /\ act[a].pc = "record"
    /\ meta' = "ready" /\ key' = FALSE
    /\ Stamp(a, "ready")
    /\ SameBack /\ UNCHANGED <<row, staged, sealed, netVars, bounds>>

AwaitKey(a) ==
    /\ act[a].pc = "await"
    /\ IF meta \in Settled THEN Finish(a) /\ UNCHANGED meta
       ELSE meta' = "awaiting_key" /\ Stamp(a, "awaiting_key") /\ UNCHANGED inbox
    /\ SameBack /\ SameNet /\ UNCHANGED <<row, key, staged, sealed, bounds>>

\* Mutant of StampAllowed: a late failure may take back a finished file.
StampAny(from, to) == TRUE

\* stampFileEventState reads the message,
StampAllowed(from, to) == from # "ready" \/ to = "ready"

StampReads(a) ==
    /\ act[a].pc = "stamp"
    /\ IF StampAllowed(row, act[a].to) THEN Goto(a, "stampRow") /\ UNCHANGED inbox ELSE Finish(a)
    /\ SameFront /\ SameBack /\ SameNet /\ UNCHANGED bounds

\* writes it, and then the metadata, whose state it checks again.
StampWritesRow(a) ==
    /\ act[a].pc = "stampRow"
    /\ row' = act[a].to
    /\ Goto(a, "stampMeta")
    /\ cut' = IF \E b \in Actors \ {a} : act[b].pc = "stampRow" THEN cut \cup {"stamp"} ELSE cut
    /\ SameBack /\ UNCHANGED <<meta, key, staged, sealed, netVars, retries, breaks, trouble>>

StampWritesMeta(a) ==
    /\ act[a].pc = "stampMeta"
    /\ meta' = IF StampAllowed(meta, act[a].to) THEN act[a].to ELSE meta
    /\ Finish(a)
    /\ SameBack /\ SameNet /\ UNCHANGED <<row, key, staged, sealed, bounds>>

\* Where a stop is made good.  The entry in hand was decrypted: what is delivered
\* again is an old counter that processInboxEntry skips.  A key lost before the
\* bytes are here is asked for again after the pull, one that is written meets
\* them then, and the sweep finds a row that still reads downloading.
TakenUp(a) ==
    \/ act[a].pc \in {"idle", "list", "await"}
    \/ act[a].pc \in {"pull", "write", "drop"} /\ meta \in {"pending", "downloading"}
    \/ act[a].pc = "key" /\ ~staged
    \/ act[a].pc = "converge" /\ ~(staged /\ key)

FrontStop ==
    /\ Meet("frontStop")
    /\ link' = FALSE /\ events' = <<>>
    /\ act' = [a \in Actors |-> Idle]
    /\ inbox' = inbox \ {act["loop"].entry}
    /\ cut' = Unheard(fetch, VerdictPending)
             \cup (IF \A a \in Actors : TakenUp(a) THEN {} ELSE {"frontStop"})
    /\ SameNet /\ UNCHANGED <<backVars, row, meta, key, staged, sealed, retries, breaks>>

-----------------------------------------------------------------------------
(* The sender *)

\* ingestFileReceipt: the key is sent unless an earlier envelope is enqueued.
SenderAnswers ==
    /\ receipts > 0 /\ receipts' = receipts - 1
    /\ keyOut' = (keyOut \/ blob)
    /\ SameBack /\ UNCHANGED <<frontVars, inbox, blob, bounds>>

KeyArrives ==
    /\ keyOut /\ keyOut' = FALSE /\ inbox' = inbox \cup {"key"}
    /\ SameBack /\ UNCHANGED <<frontVars, receipts, blob, bounds>>

\* A receipt or a key that its outbox gives up on.
EnvelopeFails ==
    /\ Meet("lost") /\ cut' = cut \cup {"lost"}
    /\ \/ receipts > 0 /\ receipts' = receipts - 1 /\ UNCHANGED keyOut
       \/ keyOut /\ keyOut' = FALSE /\ UNCHANGED receipts
    /\ SameBack /\ UNCHANGED <<frontVars, inbox, blob, retries, breaks>>

\* The sender deletes the file: metadata, key and hosted blob.
Withdraw ==
    /\ blob /\ Meet("withdrawn")
    /\ blob' = FALSE /\ cut' = cut \cup {"withdrawn"}
    /\ SameBack /\ UNCHANGED <<frontVars, inbox, receipts, keyOut, retries, breaks>>

-----------------------------------------------------------------------------
Init ==
    /\ fetch = NoFetch /\ part = "none" /\ final = FALSE /\ queue = 0 /\ job = NoJob
    /\ retry = [r \in Retriers |-> NoRetry] /\ backUp = TRUE
    /\ link = TRUE /\ events = <<>>
    /\ row = "none" /\ meta = "none" /\ key = FALSE /\ staged = FALSE /\ sealed = FALSE
    /\ act = [a \in Actors |-> Idle]
    /\ inbox = {"offer"} /\ receipts = 0 /\ keyOut = FALSE /\ blob = TRUE
    /\ retries = 0 /\ breaks = 0 /\ trouble = {} /\ cut = {}

WorkerStep ==
    StartFetch \/ RunOne \/ StreamSome \/ StreamWhole \/ StreamBreaks \/ StreamGone
    \/ Rename \/ WriteReady \/ WorkerWipes \/ WorkerExits
RetryStep(r) == (\E k \in BOOLEAN : RetryList(r, k)) \/ RetryDecide(r) \/ RetryWipes(r) \/ RetryKicks(r)
ActorStep(a) ==
    Pull(a) \/ PullWrites(a) \/ PullDrops(a) \/ PostPullReceipt(a) \/ Converge(a) \/ Seal(a) \/ SealFails(a)
    \/ Record(a) \/ AwaitKey(a) \/ StampReads(a) \/ StampWritesRow(a) \/ StampWritesMeta(a)
LoopStep == OfferRow \/ OfferMeta \/ OfferReceipt \/ OfferFetch \/ KeyWritten \/ HandleEvent
    \/ \E e \in {"offer", "key"} : TakeEntry(e)
Environment == BackStop \/ BackStart \/ FrontStop \/ Connect \/ Disconnect
    \/ SenderAnswers \/ KeyArrives \/ EnvelopeFails \/ Withdraw

Next ==
    \/ WorkerStep \/ LoopStep \/ SweepList \/ Environment
    \/ \E r \in Retriers : RetryStep(r)
    \/ \E a \in Actors : ActorStep(a)

Spec == Init /\ [][Next]_vars

-----------------------------------------------------------------------------
\* Fetch row, worker's queue, event buffer and the frontend's records keep their
\* types; the queue of Kick and the subscriber's buffer keep their limits.
TypeOK ==
    /\ fetch \in Fetch /\ part \in {"none", "some", "whole"} /\ final \in BOOLEAN
    /\ queue \in 0..KickCap /\ job.row \in Fetch /\ backUp \in BOOLEAN /\ link \in BOOLEAN
    /\ row \in FileStates \cup {"none"} /\ meta \in FileStates \cup {"none"}
    /\ key \in BOOLEAN /\ staged \in BOOLEAN /\ sealed \in BOOLEAN
    /\ inbox \subseteq {"offer", "key"} /\ trouble \subseteq Troubles
    /\ Len(events) <= EventCap

\* Nothing is under way on either side.
Quiet ==
    /\ backUp /\ link /\ job.pc = "idle" /\ queue = 0 /\ events = <<>>
    /\ \A r \in Retriers : retry[r].pc = "idle"
    /\ \A a \in Actors : act[a].pc = "idle"
    /\ inbox = {} /\ receipts = 0 /\ ~keyOut

\* Once nothing is under way, the metadata reads ready or given up, or something
\* will still move it: a failed fetch the next retry takes or reports, or a
\* finished download that sweepStagedFetches finds at the next reconnect.  Broken
\* downloads, a stop of the backend at any step and of the frontend in a pull or
\* with an early key in hand, lost events and a full queue followed by a restart
\* leave no file waiting for nobody; the steps that do are named in cut: an entry
\* decrypted and then lost to a stop, an unheard verdict, a failed request, pull
\* or seal, a stale retry, a lost envelope.
NotStranded ==
    Quiet /\ cut \subseteq {"stamp"} =>
        \/ meta \in Settled
        \/ fetch.state = "failed_transient"
        \/ meta \in {"pending", "downloading"} /\ final

\* The downloaded bytes are never deleted before the next owner holds them: what
\* a fetch row calls ready is in the backend's staging, the frontend's or
\* sealed; a file that waits for its key or reads ready has its bytes.  Renames,
\* ReconcileStaging, the drop after a pull and the seal all move them.  A retry
\* that writes its old copy over the worker's row (stale) can delete them.
BytesKept ==
    "stale" \notin cut =>
        /\ fetch.state = "ready" => final \/ staged \/ sealed
        /\ meta = "awaiting_key" => staged \/ sealed
        /\ meta = "ready" => sealed

\* A file that is ready stays so, sealed: no late failure, no download event
\* handled out of turn and no second pull takes it back (stampAllowedFromReady).
ReadyIsFinal == [][meta = "ready" => meta' = "ready" /\ sealed']_vars

\* At rest the message shows ready when the metadata is ready, although
\* stampFileEventState writes the two in separate steps from two goroutines.
RowAgrees == Quiet /\ cut = {} /\ meta = "ready" => row = "ready"

\* What holds of the file when both daemons have come to rest.
AtRest == NotStranded /\ RowAgrees
=============================================================================
