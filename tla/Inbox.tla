------------------------------- MODULE Inbox --------------------------------
(***************************************************************************)
(* The way of a message from the wire to the timeline: the daemon's inbox  *)
(* (backend/cmd/haomad/inbox.go) fed by the transport server, the event    *)
(* bus and the /events stream that announce an entry, and the frontend's   *)
(* reader (frontend/cmd/haoma/relay.go), which sweeps the inbox whenever   *)
(* a stream opens, handles each entry - decrypt, append to the log - and   *)
(* then deletes it.  The sender resends an envelope until it is answered.  *)
(* Both processes may stop at any step; what they keep is the inbox and    *)
(* its index, the ratchet and the log.                                     *)
(***************************************************************************)
EXTENDS Naturals, Sequences, SequencesExt

CONSTANTS
    Env,            \* envelopes
    Msg,            \* messages
    MsgOf,          \* the message an envelope carries; resends may share it
    Bad,            \* envelopes that may fail to decrypt, once or always
    None,
    InboxLimit,     \* List's default limit (100)
    StreamBuf,      \* events the subscription and the connection hold unread
    MaxHandlers,    \* transport handlers of one envelope between Put and Publish
    MaxGarbled,     \* bound: how often one envelope fails to decrypt
    FrontendStops,  \* whether the frontend may stop at any step
    StoreFaults     \* whether the frontend's store may refuse a write

ASSUME EnvAssumption ==
    /\ MsgOf \in [Env -> Msg]
    /\ Bad \subseteq Env
    /\ None \notin Env
    /\ InboxLimit \in Nat \ {0} /\ StreamBuf \in Nat \ {0}
    /\ MaxHandlers \in Nat \ {0} /\ MaxGarbled \in Nat
    /\ FrontendStops \in BOOLEAN /\ StoreFaults \in BOOLEAN

VARIABLES
    unacked,    \* envelopes the sender has had no answer for
    inbox,      \* stored entries in order of arrival
    index,      \* inbox-envid: keys
    publishing, \* handlers that stored an envelope and have not published it
    conn,       \* the server's end of /events
    stream,     \* inbox events not yet read from it
    loop,       \* where eventsLoop is
    work,       \* entries a sweep has listed and not begun
    cur, at,    \* the entry in hand and the step it is at
    late,       \* DELETE requests given up on that the daemon still serves
    used,       \* envelopes whose message key the ratchet has consumed
    rows,       \* readable rows of each message in the log
    garbled,    \* decrypt-failed rows of each envelope
    cut         \* history: envelopes whose handling a fault or a stop cut short

vars == <<unacked, inbox, index, publishing, conn, stream, loop, work, cur, at,
          late, used, rows, garbled, cut>>
store == <<inbox, index>>
reader == <<loop, work, cur, at>>
log == <<used, rows, garbled, cut>>

Held == ToSet(inbox)

\* Type correctness of the inbox and its index, the stream and the reader.
TypeOK ==
    /\ unacked \subseteq Env /\ inbox \in Seq(Env) /\ index \subseteq Env
    /\ publishing \in [Env -> 0..MaxHandlers]
    /\ conn \in {"none", "accepted", "subscribed"}
    /\ stream \in Seq(Env) /\ Len(stream) <= StreamBuf
    /\ loop \in {"down", "backoff", "ready", "sweep", "read"}
    /\ work \in Seq(Env) /\ Len(work) <= InboxLimit
    /\ cur \in Env \cup {None} /\ at \in {"decrypt", "append", "garble", "delete"}
    /\ late \subseteq Env /\ used \subseteq Env
    /\ rows \in [Msg -> Nat] /\ garbled \in [Env -> 0..MaxGarbled] /\ cut \subseteq Env

Init ==
    /\ unacked = Env /\ inbox = <<>> /\ index = {}
    /\ publishing = [e \in Env |-> 0]
    /\ conn = "none" /\ stream = <<>>
    /\ loop = "backoff" /\ work = <<>> /\ cur = None /\ at = "decrypt"
    /\ late = {} /\ used = {} /\ cut = {}
    /\ rows = [m \in Msg |-> 0] /\ garbled = [e \in Env |-> 0]

-----------------------------------------------------------------------------
(* The daemon: transport handler, inbox, event stream.                     *)

\* The answer to a handler that is done: it reaches the sender, or is lost.
Answer(e) == unacked' \in {unacked, unacked \ {e}}

\* Put: one transaction over index and entry; a known envelope is answered
\* without being stored or announced.
PutNew(e) ==
    /\ e \notin index
    /\ publishing[e] < MaxHandlers
    /\ index' = index \cup {e}
    /\ inbox' = Append(inbox, e)
    /\ publishing' = [publishing EXCEPT ![e] = @ + 1]
    /\ UNCHANGED unacked

PutDuplicate(e) ==
    /\ e \in index
    /\ Answer(e)
    /\ UNCHANGED <<store, publishing>>

Receive(e) ==
    /\ e \in unacked
    /\ PutNew(e) \/ PutDuplicate(e)
    /\ UNCHANGED <<conn, stream, reader, late, log>>

\* A full subscriber loses the event, an absent one never gets it.
Publish(e) ==
    /\ publishing[e] > 0
    /\ publishing' = [publishing EXCEPT ![e] = @ - 1]
    /\ stream' = IF conn = "subscribed" /\ Len(stream) < StreamBuf
                 THEN Append(stream, e) ELSE stream
    /\ Answer(e)
    /\ UNCHANGED <<store, conn, reader, late, log>>

\* handleEvents has flushed the 200 before it subscribes.
Subscribe ==
    /\ conn = "accepted"
    /\ conn' = "subscribed"
    /\ UNCHANGED <<unacked, store, publishing, stream, reader, late, log>>

\* Delete looks for the entry, fails where there is none, and removes with it
\* what recognises the envelope.
DropEntry(e) ==
    \/ e \notin Held /\ UNCHANGED store
    \/ /\ \E i \in DOMAIN inbox : inbox[i] = e /\ inbox' = RemoveAt(inbox, i)
       /\ index' = index \ {e}

DeleteLate(e) ==
    /\ e \in late
    /\ DropEntry(e)
    /\ late' = late \ {e}
    /\ UNCHANGED <<unacked, publishing, conn, stream, reader, log>>

\* The connection ends.  What had reached the frontend can still be read.
Cut == \E k \in 0..Len(stream) : stream' = SubSeq(stream, 1, k)

Break ==
    /\ conn # "none"
    /\ conn' = "none"
    /\ Cut
    /\ UNCHANGED <<unacked, store, publishing, reader, late, log>>

BackendRestart ==
    /\ publishing' = [e \in Env |-> 0]
    /\ late' = {}
    /\ conn' = "none"
    /\ IF conn = "none" THEN UNCHANGED stream ELSE Cut
    /\ UNCHANGED <<unacked, store, reader, log>>

-----------------------------------------------------------------------------
(* The frontend's reader: eventsLoop runs on one goroutine, the sweep and  *)
(* the handling of each event included.                                    *)

Connect ==
    /\ loop = "backoff" /\ conn = "none"
    /\ conn' = "accepted"
    /\ loop' = "ready"
    /\ UNCHANGED <<unacked, store, publishing, stream, work, cur, at, late, log>>

\* Mutant: the listing starts from the newest entry.
ListNewest == SubSeq(inbox, 1 + IF Len(inbox) < InboxLimit THEN 0 ELSE Len(inbox) - InboxLimit,
                     Len(inbox))

\* sweepInbox: one List, cut at its limit and not repeated.
Listing == SubSeq(inbox, 1, IF Len(inbox) < InboxLimit THEN Len(inbox) ELSE InboxLimit)

Sweep ==
    /\ loop = "ready"
    /\ loop' = "sweep"
    /\ work' = Listing
    /\ UNCHANGED <<unacked, store, publishing, conn, stream, cur, at, late, log>>

SweepFails ==
    /\ loop = "ready"
    /\ loop' = "read"
    /\ UNCHANGED <<unacked, store, publishing, conn, stream, work, cur, at, late, log>>

SweepDone ==
    /\ loop = "sweep" /\ work = <<>> /\ cur = None
    /\ loop' = "read"
    /\ UNCHANGED <<unacked, store, publishing, conn, stream, work, cur, at, late, log>>

\* Mutant: the sweep deletes an entry before it handles it.
TakeListedDeletes ==
    /\ loop = "sweep" /\ cur = None /\ work # <<>>
    /\ cur' = Head(work) /\ at' = "decrypt"
    /\ work' = Tail(work)
    /\ DropEntry(Head(work))
    /\ UNCHANGED <<unacked, publishing, conn, stream, loop, late, log>>

TakeListed ==
    /\ loop = "sweep" /\ cur = None /\ work # <<>>
    /\ cur' = Head(work) /\ at' = "decrypt"
    /\ work' = Tail(work)
    /\ UNCHANGED <<unacked, store, publishing, conn, stream, loop, late, log>>

TakeEvent ==
    /\ loop = "read" /\ cur = None /\ stream # <<>>
    /\ cur' = Head(stream) /\ at' = "decrypt"
    /\ stream' = Tail(stream)
    /\ UNCHANGED <<unacked, store, publishing, conn, loop, work, late, log>>

\* The frontend's store refuses a write, once and as the first thing to go wrong.
Refused == StoreFaults /\ cut = {}

\* processInboxEntry, up to the plaintext.  The ratchet is stored with the
\* consumed key before the plaintext is returned; a consumed key is an old
\* counter, and the entry is skipped.
Decrypt ==
    /\ cur # None /\ at = "decrypt"
    /\ \/ Refused /\ at' = "delete" /\ cut' = cut \cup {cur} /\ UNCHANGED used
       \/ cur \in used /\ at' = "delete" /\ UNCHANGED <<used, cut>>
       \/ /\ cur \in Bad \ used /\ garbled[cur] < MaxGarbled
          /\ at' = "garble" /\ UNCHANGED <<used, cut>>
       \/ cur \notin used /\ at' = "append" /\ used' = used \cup {cur} /\ UNCHANGED cut
    /\ UNCHANGED <<unacked, store, publishing, conn, stream, loop, work, cur, late,
                   rows, garbled>>

\* Mutant: a payload that did not decrypt gets no row.
AppendReadable ==
    /\ cur # None /\ at \in {"append", "garble"}
    /\ at' = "delete"
    /\ \/ at = "garble" /\ UNCHANGED rows
       \/ at = "append" /\ rows' = [rows EXCEPT ![MsgOf[cur]] = 1]
    /\ UNCHANGED <<unacked, store, publishing, conn, stream, loop, work, cur, late, used,
                   garbled, cut>>

\* AppendInbound: a message id that has a row keeps it.  A payload that did not
\* decrypt has no message id, so it gets a row each time it is handled.
AppendInbound ==
    /\ cur # None /\ at \in {"append", "garble"}
    /\ at' = "delete"
    /\ \/ Refused /\ cut' = cut \cup {cur} /\ UNCHANGED <<rows, garbled>>
       \/ at = "garble" /\ garbled' = [garbled EXCEPT ![cur] = @ + 1] /\ UNCHANGED <<rows, cut>>
       \/ at = "append" /\ rows[MsgOf[cur]] > 0 /\ UNCHANGED <<rows, garbled, cut>>
       \/ /\ at = "append" /\ rows[MsgOf[cur]] = 0
          /\ rows' = [rows EXCEPT ![MsgOf[cur]] = @ + 1]
          /\ UNCHANGED <<garbled, cut>>
    /\ UNCHANGED <<unacked, store, publishing, conn, stream, loop, work, cur, late, used>>

\* DeleteInboxEntry is tried once; a failure is logged.
DeleteEntry ==
    /\ cur # None /\ at = "delete"
    /\ DropEntry(cur)
    /\ cur' = None /\ at' = "decrypt"
    /\ UNCHANGED <<unacked, publishing, conn, stream, loop, work, late, log>>

DeleteFails ==
    /\ cur # None /\ at = "delete"
    /\ late' \in {late, late \cup {cur}}
    /\ cur' = None /\ at' = "decrypt"
    /\ UNCHANGED <<unacked, store, publishing, conn, stream, loop, work, log>>

StreamEnded ==
    /\ loop = "read" /\ cur = None /\ conn = "none" /\ stream = <<>>
    /\ loop' = "backoff"
    /\ UNCHANGED <<unacked, store, publishing, conn, stream, work, cur, at, late, log>>

FrontendStop ==
    /\ FrontendStops /\ loop # "down"
    /\ loop' = "down" /\ work' = <<>> /\ cur' = None /\ at' = "decrypt"
    /\ late' \in {late} \cup IF cur # None /\ at = "delete" THEN {late \cup {cur}} ELSE {}
    /\ conn' = "none" /\ stream' = <<>>
    /\ cut' = IF cur # None /\ at = "append" THEN cut \cup {cur} ELSE cut
    /\ UNCHANGED <<unacked, store, publishing, used, rows, garbled>>

FrontendStart ==
    /\ loop = "down"
    /\ loop' = "backoff"
    /\ UNCHANGED <<unacked, store, publishing, conn, stream, work, cur, at, late, log>>

-----------------------------------------------------------------------------
Daemon == \E e \in Env : Receive(e) \/ Publish(e) \/ DeleteLate(e)
Handling == TakeListed \/ TakeEvent \/ Decrypt \/ AppendInbound
            \/ DeleteEntry \/ DeleteFails
Stream == Connect \/ Sweep \/ SweepFails \/ SweepDone \/ StreamEnded
Faults == Break \/ BackendRestart \/ FrontendStop

Next == Daemon \/ Subscribe \/ Stream \/ Handling \/ Faults \/ FrontendStart

Spec == Init /\ [][Next]_vars

\* The daemon's stream handler and the one goroutine of the reader go on while
\* they can; a request to the daemon over the loopback that is made again and
\* again is served now and then.
Reader == Connect \/ Sweep \/ SweepFails \/ SweepDone \/ StreamEnded \/ Handling \/ FrontendStart

Fairness ==
    /\ WF_vars(Subscribe) /\ WF_vars(Reader)
    /\ SF_vars(Sweep)
    /\ \A e \in Env : SF_vars(DeleteEntry /\ cur = e)

FairSpec == Spec /\ Fairness

-----------------------------------------------------------------------------
Shown == {m \in Msg : rows[m] > 0}
Unreadable == {e \in Env : garbled[e] > 0}
Garbled == {MsgOf[e] : e \in Unreadable}

\* The inbox, the stream and the reader keep the promise of module Delivery:
\* a message somebody was told about is held until it stands in the timeline.
Promise == INSTANCE Delivery WITH
    accepted <- {MsgOf[e] : e \in Held} \cup Shown \cup Garbled,
    acked    <- {MsgOf[e] : e \in Env \ unacked},
    shown    <- Shown,
    garbled  <- Garbled,
    excused  <- {MsgOf[e] : e \in cut}

\* Every behaviour of inbox, stream and reader, with streams breaking, daemons
\* restarting, answers and deletes getting lost and a store that refuses a
\* write, is one Delivery allows: only a message whose handling was cut between
\* opening and showing it may go missing.
KeepsPromise == Promise!DSpec

\* processInboxEntry gives a message one readable row, whichever way and however
\* often its envelopes come: swept, announced, resent or sent twice.  Rows that
\* say a payload could not be read are not bounded so: they carry no message id.
OneRow == \A m \in Msg : rows[m] <= 1

\* An envelope the sender was answered for and whose key is not consumed is
\* still in the inbox, unless the store refused to consume it: nothing is
\* deleted before it was opened, whatever stops.
HeldUntilOpened == \A e \in Env \ unacked : e \in Held \cup used \cup Unreadable \cup cut

\* An entry that was acknowledged ends in the timeline or is still to be
\* handled: when processInboxEntry skips an old counter, the first delivery
\* had been shown.
NothingLost ==
    \A e \in Env \ unacked : e \in Held \cup Unreadable \/ MsgOf[e] \in Shown

\* As long as streams keep being opened and the frontend is not stopped again
\* and again, every stored entry leaves the inbox, the ones beyond the sweep's
\* limit and those whose event was dropped too.
Drains ==
    []<>(loop = "sweep") /\ <>[](loop # "down") =>
        \A e \in Env : (e \in Held) ~> (e \notin Held)

\* No entry is deleted before it was opened, and no message gets a second
\* readable row.
ExactlyOnce == HeldUntilOpened /\ OneRow
=============================================================================
