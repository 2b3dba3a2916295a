------------------------------ MODULE GapFill ------------------------------
(***************************************************************************)
(* Catching up with a sibling device: the sweep by which one device (the   *)
(* asker) pulls from another device of the same person (the answerer) the  *)
(* rows it missed.  Every write to a row of the answerer's log moves the   *)
(* row's journal entry to a fresh sequence number; the asker keeps a       *)
(* watermark into that journal and asks for what lies above it, a batch at *)
(* a time.  A request that is not for everything acknowledges what lies    *)
(* below its watermark, and the acknowledged part of the journal is        *)
(* pruned.  A sweep begins with a snapshot of the contacts and chats, so   *)
(* that rows of a contact only the answerer has met can be placed.         *)
(*                                                                         *)
(* Requests and answers travel as rail envelopes and each is handled in a  *)
(* goroutine of its own: they can be lost and overtake each other.  The    *)
(* asker works through an answer row by row, and reads, decides and writes *)
(* each row in transactions of their own; so does it read and write the    *)
(* watermark.  One direction is modelled; the other is the same code with  *)
(* the roles swapped.  Of a row the model keeps its edit stamp, its body   *)
(* and whether it is deleted.                                              *)
(*                                                                         *)
(* Source: src/frontend/cmd/haoma/gapfill.go, gapfill_answer.go,           *)
(* backfill.go, internal/gapfill, internal/events/journal.go.              *)
(***************************************************************************)
EXTENDS Naturals, FiniteSets

CONSTANTS Msgs,       \* message ids
          Strange,    \* those of a contact the asker meets only through the snapshot
          Live,       \* those that also reach the asker without the sweep
          BatchRows,  \* gapBatchRows
          MaxStamp,   \* bound on edit stamps
          MaxSeq,     \* bound on journal sequence numbers
          MaxTrouble, \* bound: how many kinds of trouble a behaviour may meet
          Fulls,      \* which sweeps are asked for: FALSE (what I missed), TRUE (everything)
          ThirdAck    \* what the answerer's other sibling has acknowledged

ASSUME Limits == /\ IsFiniteSet(Msgs) /\ Strange \subseteq Msgs /\ Live \subseteq Msgs
                 /\ BatchRows \in Nat \ {0}
                 /\ {MaxStamp, MaxSeq, MaxTrouble, ThirdAck} \subseteq Nat
                 /\ Fulls \in (SUBSET BOOLEAN) \ {{}}

VARIABLES bRow,      \* the answerer's rows
          bSeq,      \* the sequence number of each row's journal entry, 0 if none
          head,      \* keyNextJournalSeq: the last number handed out
          ack,       \* gapfill-ack: what the asker has acknowledged
          paired,    \* whether the answerer has met the strange contact
          aRow,      \* the asker's rows
          met,       \* whether the asker can place rows of the strange contact
          wm,        \* gapfill-wm: the asker's watermark
          wire,      \* rail envelopes under way
          answering, \* request handlers that found no entry and go on to read the head
          applying,  \* response handlers: the rows left, the row in hand, the watermark to come
          trouble,   \* the kinds of trouble met so far, each at most once
          reached,   \* history: the highest watermark the asker has ever kept
          passed,    \* history: rows written while a request handler stood before the head
          skipped,   \* history: rows whose newest entry was left out of an answer or not applied
          told,      \* history: the newest journal entry of each row the asker has handled
          owed,      \* history: entries a sweep found above the watermark when it began
          overtaken  \* history: rows changed by something older than what they show

vars == <<bRow, bSeq, head, ack, paired, aRow, met, wm, wire, answering, applying,
          trouble, reached, passed, skipped, told, owed, overtaken>>

----------------------------------------------------------------------------
(* Rows.  A body is 0 as sent, and 2t or 2t + 1 once edited at time t, on the    *)
(* answerer's or on the asker's side: comparing bodies compares their bytes.      *)

Stamps == 1 .. MaxStamp
NoRow == [here |-> FALSE, at |-> 0, body |-> 0, gone |-> FALSE]
Removed == [NoRow EXCEPT !.gone = TRUE]
Fresh == [NoRow EXCEPT !.here = TRUE]
Rows == [here : BOOLEAN, at : 0 .. MaxStamp, body : 0 .. 2 * MaxStamp + 1, gone : BOOLEAN]

BodyAt(body) == body \div 2

Edited(r, at, body) == [r EXCEPT !.at = at, !.body = body]
Deleted(r) == [r EXCEPT !.gone = TRUE, !.body = 0]

Max2(x, y) == IF x >= y THEN x ELSE y

\* A row deleted here takes an edit that is newer than its own.
DecideUndeletes(local, in) ==
    CASE ~in.here /\ local.here /\ ~local.gone        -> "delete"
      [] in.here /\ ~local.here /\ ~in.gone           -> "insert"
      [] in.here /\ local.here /\ ~local.gone /\ in.gone -> "delete"
      [] in.here /\ local.here /\ ~in.gone /\ in.at > local.at -> "edit"
      [] OTHER -> "none"

(* What an incoming row does to the local one; ~in.here is a swept row. *)
Decide(local, in) ==
    CASE ~in.here /\ local.here /\ ~local.gone        -> "delete"
      [] in.here /\ ~local.here /\ ~in.gone           -> "insert"
      [] in.here /\ local.here /\ ~local.gone /\ in.gone -> "delete"
      [] /\ in.here /\ local.here /\ ~local.gone /\ ~in.gone
         /\ \/ in.at > local.at
            \/ in.at = local.at /\ in.at > 0 /\ in.body < local.body -> "edit"
      [] OTHER -> "none"

(* applyGapRow, the write its decision asks for, on the row as it is by then.  An   *)
(* inserted row is appended as a new one, unless its message id is held already: the *)
(* edit stamp of the snapshot is not part of it.                                     *)
Applied(action, local, in) ==
    CASE action = "insert" /\ ~local.here -> [Fresh EXCEPT !.body = in.body]
      [] action = "edit" /\ local.here    -> Edited(local, in.at, in.body)
      [] action = "delete" /\ local.here  -> Deleted(local)
      [] OTHER -> local

\* The watermark moves although a row could not be placed.
AdvancesOverHeld(h, w) == h.end > w

(* Whether Watermarks.Advance is called, unless a row is held for a contact not met  *)
(* yet, and finds the watermark below the end of the range.                          *)
Advances(h, w) == ~h.held /\ h.end > w

(* JournalSince: the first BatchRows entries above a cursor. *)
Above(cursor) == {m \in Msgs : bSeq[m] > cursor}
Since(cursor) ==
    {m \in Above(cursor) : Cardinality({n \in Above(cursor) : bSeq[n] < bSeq[m]}) < BatchRows}

\* A batch says there is more only when it exceeds the limit.
MoreBeyond(batch) == Cardinality(batch) > BatchRows

(* more: a batch that fills the limit says there may be another. *)
More(batch) == Cardinality(batch) = BatchRows

MaxOf(S) == CHOOSE x \in S : \A y \in S : y <= x

----------------------------------------------------------------------------
Init ==
    /\ bRow = [m \in Msgs |-> NoRow] /\ bSeq = [m \in Msgs |-> 0] /\ head = 0
    /\ aRow = [m \in Msgs |-> NoRow] /\ wm = 0 /\ ack = 0
    /\ paired = FALSE /\ met = FALSE
    /\ wire = {} /\ answering = {} /\ applying = {}
    /\ trouble = {} /\ reached = 0 /\ passed = {} /\ skipped = {}
    /\ told = [m \in Msgs |-> 0] /\ owed = {} /\ overtaken = {}

(* An envelope is lost, a device stops, a second sweep starts beside the first, an *)
(* edit or a message arrives live after what is newer, or an entry, a row or the   *)
(* watermark cannot be read, placed or written.                                    *)
Kinds == {"lost", "stopped", "second", "late", "failed"}
Meet(kind) ==
    /\ kind \notin trouble /\ Cardinality(trouble) < MaxTrouble
    /\ trouble' = trouble \cup {kind}
MeetUnless(fine, kind) == IF fine THEN UNCHANGED trouble ELSE Meet(kind)

InOrder(r, t) == ~r.gone /\ t > r.at /\ t > BodyAt(r.body)

(* journalTouch: the entry moves to a fresh number, in the transaction of the row. *)
Touch(m) ==
    /\ head < MaxSeq
    /\ head' = head + 1
    /\ bSeq' = [bSeq EXCEPT ![m] = head + 1]
    /\ passed' = IF answering = {} THEN passed \ {m} ELSE passed \cup {m}
    /\ skipped' = skipped \ {m}
    /\ owed' = owed \ {m}

AtAnswerer == UNCHANGED <<ack, aRow, met, wm, wire, answering, applying, reached, told, overtaken>>

(* The answerer meets the contact, and writes its rows: a message sent or received, *)
(* an edit, a delete; a row removed with its chat or by its timer leaves its entry. *)
Pair ==
    /\ ~paired /\ Strange # {} /\ paired' = TRUE
    /\ UNCHANGED <<bRow, bSeq, head, passed, skipped, owed, trouble>> /\ AtAnswerer

AppendRow(m) ==
    /\ bRow[m] = NoRow
    /\ m \in Strange => paired
    /\ bRow' = [bRow EXCEPT ![m] = Fresh]
    /\ Touch(m) /\ AtAnswerer /\ UNCHANGED <<paired, trouble>>

ApplyEdit(m, t) ==
    /\ bRow[m].here
    /\ MeetUnless(InOrder(bRow[m], t), "late")
    /\ bRow' = [bRow EXCEPT ![m] = Edited(bRow[m], t, 2 * t)]
    /\ Touch(m) /\ AtAnswerer /\ UNCHANGED paired

ApplyDelete(m) ==
    /\ bRow[m].here /\ ~bRow[m].gone
    /\ bRow' = [bRow EXCEPT ![m] = Deleted(bRow[m])]
    /\ Touch(m) /\ AtAnswerer /\ UNCHANGED <<paired, trouble>>

RemoveRow(m) ==
    /\ bRow[m].here
    /\ bRow' = [bRow EXCEPT ![m] = Removed]
    /\ UNCHANGED <<bSeq, head, passed, skipped, owed, paired, trouble>> /\ AtAnswerer

(* The asker's own copies: what reaches it live, from the contact or mirrored. *)
AtAsker == UNCHANGED <<bRow, bSeq, head, ack, paired, met, wm, wire, answering, applying,
                       reached, passed, skipped, told, owed>>
LateUnless(fine, m) ==
    /\ MeetUnless(fine, "late")
    /\ overtaken' = IF fine THEN overtaken ELSE overtaken \cup {m}

LiveAppend(m) ==
    /\ ~aRow[m].here
    /\ m \in Strange => met
    /\ LateUnless(~bRow[m].gone, m)
    /\ aRow' = [aRow EXCEPT ![m] = Fresh]
    /\ AtAsker

LiveEdit(m, t) ==
    /\ aRow[m].here
    /\ LateUnless(InOrder(aRow[m], t), m)
    /\ aRow' = [aRow EXCEPT ![m] = Edited(aRow[m], t, 2 * t + 1)]
    /\ AtAsker

LiveDelete(m) ==
    /\ aRow[m].here /\ ~aRow[m].gone
    /\ aRow' = [aRow EXCEPT ![m] = Deleted(aRow[m])]
    /\ AtAsker /\ UNCHANGED <<trouble, overtaken>>

----------------------------------------------------------------------------
(* The sweep.  Its envelopes: the request for the snapshot and its answer, the     *)
(* request for rows and its answer; seq is history, the entry each row came from.  *)

Packet(kind, full) == [kind |-> kind, full |-> full, wm |-> 0, paired |-> FALSE,
                       rows |-> <<>>, seq |-> <<>>, end |-> 0, more |-> FALSE]
Query(w, full) == [Packet("query", full) EXCEPT !.wm = w]
Answer(batch, end, more, full) ==
    [Packet("answer", full) EXCEPT !.rows = [m \in batch |-> bRow[m]],
                                   !.seq = [m \in batch |-> bSeq[m]],
                                   !.end = end, !.more = more]

Chains == Cardinality(wire) + Cardinality(answering) + Cardinality(applying)

(* sweepGapFill and handleDeviceSync: a sweep begins with the snapshot. *)
Sweep(full) ==
    /\ \A p \in wire : p.kind \in {"query", "answer"}
    /\ MeetUnless(Chains = 0, "second")
    /\ wire' = wire \cup {Packet("backfill", full)}
    /\ owed' = IF full \/ Chains > 0 THEN {} ELSE Above(wm)
    /\ UNCHANGED <<bRow, bSeq, head, ack, paired, aRow, met, wm, answering, applying,
                   reached, passed, skipped, told, overtaken>>

(* handleBackfillRequest: the three sections, contacts, chats and self, as one. *)
AnswerBackfill(p) ==
    /\ p \in wire /\ p.kind = "backfill"
    /\ wire' = (wire \ {p}) \cup {[Packet("snapshot", p.full) EXCEPT !.paired = paired]}
    /\ UNCHANGED <<bRow, bSeq, head, ack, paired, aRow, met, wm, answering, applying,
                   trouble, reached, passed, skipped, told, owed, overtaken>>

(* handleBackfillResponse: adopt the contacts and chats, then ask for the rows. *)
HandleBackfill(p) ==
    /\ p \in wire /\ p.kind = "snapshot"
    /\ met' = (met \/ p.paired)
    /\ wire' = (wire \ {p}) \cup {Query(wm, p.full)}
    /\ UNCHANGED <<bRow, bSeq, head, ack, paired, aRow, wm, answering, applying,
                   trouble, reached, passed, skipped, told, owed, overtaken>>

(* RecordAck, for a request that is not for everything: it reads and writes apart, so *)
(* of two requests side by side the older may write last.                             *)
AckedBy(p) ==
    IF p.full \/ p.wm = 0 THEN {ack}
    ELSE {Max2(ack, p.wm)} \cup (IF "second" \in trouble THEN {p.wm} ELSE {})

(* handleGapRequest: record the acknowledgement, list the entries, read their rows.   *)
(* An entry whose chat has no fingerprint, or whose row cannot be read, is left out;  *)
(* the range ends where the list ends.                                                *)
HandleGapRequest(p) ==
    /\ p \in wire /\ p.kind = "query"
    /\ ack' \in AckedBy(p)
    /\ LET batch == Since(IF p.full THEN 0 ELSE p.wm) IN
       \E unread \in SUBSET batch :
          /\ MeetUnless(unread = {}, "failed")
          /\ skipped' = skipped \cup unread
          /\ IF batch = {}
             THEN /\ answering' = answering \cup {p.full}
                  /\ wire' = wire \ {p}
             ELSE /\ wire' = (wire \ {p}) \cup
                      {Answer(batch \ unread, MaxOf({bSeq[m] : m \in batch}), More(batch), p.full)}
                  /\ UNCHANGED answering
    /\ UNCHANGED <<bRow, bSeq, head, paired, aRow, met, wm, applying, reached, passed, told,
                   owed, overtaken>>

(* handleGapRequest with nothing to send: the range ends at the journal's head, *)
(* which is read after the list.                                                *)
ReadHead(full) ==
    /\ full \in answering
    /\ answering' = answering \ {full}
    /\ wire' = wire \cup {Answer({}, head, FALSE, full)}
    /\ UNCHANGED <<bRow, bSeq, head, ack, paired, aRow, met, wm, applying, trouble, reached,
                   passed, skipped, told, owed, overtaken>>

----------------------------------------------------------------------------
(* handleGapResponse, in a goroutine of its own.  A handler holds the rows it has left, *)
(* lowest entry first, and the row in hand with what it read of it.                     *)

Handler(p) == [rows |-> p.rows, seq |-> p.seq, end |-> p.end, more |-> p.more, full |-> p.full,
               held |-> FALSE, hand |-> {}, seen |-> NoRow, pc |-> "rows"]

HandleGapResponse(p) ==
    /\ p \in wire /\ p.kind = "answer"
    /\ wire' = wire \ {p}
    /\ applying' = applying \cup {Handler(p)}
    /\ UNCHANGED <<bRow, bSeq, head, ack, paired, aRow, met, wm, answering, trouble, reached,
                   passed, skipped, told, owed, overtaken>>

TurnsInto(h, k) == h \in applying /\ applying' = (applying \ {h}) \cup {k}
First(h, m) == m \in DOMAIN h.rows /\ \A n \in DOMAIN h.rows : h.seq[m] <= h.seq[n]
Without(f, m) == [n \in DOMAIN f \ {m} |-> f[n]]
RowDone(h, m) == [h EXCEPT !.rows = Without(h.rows, m), !.seq = Without(h.seq, m),
                           !.hand = {}, !.seen = NoRow]
RowHeld(h, m) == [RowDone(h, m) EXCEPT !.held = TRUE]
Placed(m) == m \in Strange => met

AtHandler == UNCHANGED <<bRow, bSeq, head, ack, paired, met, answering, passed, owed>>

(* A row of a contact not met yet is held. *)
HoldRow(h, m) ==
    /\ h.hand = {} /\ First(h, m) /\ ~Placed(m)
    /\ TurnsInto(h, RowHeld(h, m))
    /\ AtHandler /\ UNCHANGED <<aRow, wm, wire, trouble, reached, skipped, told, overtaken>>

(* A row that fails otherwise, when it is read or when it is written, is counted as *)
(* skipped and not tried again.                                                     *)
SkipRow(h, m) ==
    /\ First(h, m) /\ Meet("failed")
    /\ TurnsInto(h, RowDone(h, m))
    /\ skipped' = IF h.seq[m] = bSeq[m] THEN skipped \cup {m} ELSE skipped
    /\ AtHandler /\ UNCHANGED <<aRow, wm, wire, reached, told, overtaken>>

(* applyGapRow: read the row and decide.  Without a change the row is done with. *)
Tell(h, m) == told' = [told EXCEPT ![m] = Max2(told[m], h.seq[m])]

ReadRow(h, m) ==
    /\ h.hand = {} /\ First(h, m) /\ Placed(m)
    /\ IF Decide(aRow[m], h.rows[m]) = "none"
       THEN TurnsInto(h, RowDone(h, m)) /\ Tell(h, m)
       ELSE TurnsInto(h, [h EXCEPT !.hand = {m}, !.seen = aRow[m]]) /\ UNCHANGED told
    /\ AtHandler /\ UNCHANGED <<aRow, wm, wire, trouble, reached, skipped, overtaken>>

(* applyGapRow: write what was decided, whatever became of the row since. *)
WriteRow(h, m) ==
    /\ m \in h.hand
    /\ aRow' = [aRow EXCEPT ![m] = Applied(Decide(h.seen, h.rows[m]), aRow[m], h.rows[m])]
    /\ overtaken' = IF h.seq[m] < told[m] \/ aRow[m] # h.seen THEN overtaken \cup {m} ELSE overtaken
    /\ TurnsInto(h, RowDone(h, m)) /\ Tell(h, m)
    /\ AtHandler /\ UNCHANGED <<wm, wire, trouble, reached, skipped>>

(* Watermarks.Advance: read the watermark, then write it; nothing holds it between. *)
GetWatermark(h) ==
    /\ h.pc = "rows" /\ DOMAIN h.rows = {}
    /\ TurnsInto(h, [h EXCEPT !.pc = IF Advances(h, wm) THEN "put" ELSE "ask"])
    /\ AtHandler /\ UNCHANGED <<aRow, wm, wire, trouble, reached, skipped, told, overtaken>>

PutWatermark(h) ==
    /\ h.pc = "put"
    /\ TurnsInto(h, [h EXCEPT !.pc = "ask"])
    /\ \/ wm' = h.end /\ reached' = Max2(reached, h.end) /\ UNCHANGED trouble
       \/ Meet("failed") /\ UNCHANGED <<wm, reached>>
    /\ AtHandler /\ UNCHANGED <<aRow, wire, skipped, told, overtaken>>

(* askSibling, if there is more: from the watermark as it is by then. *)
AskAgain(h) ==
    /\ h \in applying /\ h.pc = "ask"
    /\ applying' = applying \ {h}
    /\ wire' = IF h.more THEN wire \cup {Query(wm, h.full)} ELSE wire
    /\ AtHandler /\ UNCHANGED <<aRow, wm, trouble, reached, skipped, told, overtaken>>

(* pruneJournalForSiblings: through what every sibling has acknowledged. *)
Prune ==
    /\ ack > 0 /\ ThirdAck > 0
    /\ LET floor == IF ack < ThirdAck THEN ack ELSE ThirdAck IN
       /\ \E m \in Msgs : 0 < bSeq[m] /\ bSeq[m] <= floor
       /\ bSeq' = [m \in Msgs |-> IF bSeq[m] <= floor THEN 0 ELSE bSeq[m]]
    /\ UNCHANGED <<bRow, head, ack, paired, aRow, met, wm, wire, answering, applying,
                   trouble, reached, passed, skipped, told, owed, overtaken>>

Lose(p) ==
    /\ p \in wire /\ Meet("lost")
    /\ wire' = wire \ {p}
    /\ UNCHANGED <<bRow, bSeq, head, ack, paired, aRow, met, wm, answering, applying,
                   reached, passed, skipped, told, owed, overtaken>>

(* A device stops: its handlers are gone, its store stays. *)
Stop ==
    /\ Meet("stopped")
    /\ \/ answering # {} /\ answering' = {} /\ UNCHANGED applying
       \/ applying # {} /\ applying' = {} /\ UNCHANGED answering
    /\ UNCHANGED <<bRow, bSeq, head, ack, paired, aRow, met, wm, wire, reached, passed,
                   skipped, told, owed, overtaken>>

Writes ==
    \/ Pair
    \/ \E m \in Msgs : \/ AppendRow(m) \/ ApplyDelete(m) \/ RemoveRow(m)
                       \/ \E t \in Stamps : ApplyEdit(m, t)
    \/ \E m \in Live : \/ LiveAppend(m) \/ LiveDelete(m)
                       \/ \E t \in Stamps : LiveEdit(m, t)

Next ==
    \/ Writes
    \/ \E full \in Fulls : Sweep(full)
    \/ \E p \in wire : \/ AnswerBackfill(p) \/ HandleBackfill(p) \/ HandleGapRequest(p)
                       \/ HandleGapResponse(p) \/ Lose(p)
    \/ \E full \in answering : ReadHead(full)
    \/ \E h \in applying :
          \/ \E m \in Msgs : HoldRow(h, m) \/ SkipRow(h, m) \/ ReadRow(h, m) \/ WriteRow(h, m)
          \/ GetWatermark(h) \/ PutWatermark(h) \/ AskAgain(h)
    \/ Prune
    \/ Stop

Spec == Init /\ [][Next]_vars

----------------------------------------------------------------------------
Packets ==
    [kind : {"backfill", "snapshot", "query", "answer"}, full : BOOLEAN, wm : 0 .. MaxSeq,
     paired : BOOLEAN, end : 0 .. MaxSeq, more : BOOLEAN,
     rows : UNION {[S -> Rows] : S \in SUBSET Msgs},
     seq : UNION {[S -> 1 .. MaxSeq] : S \in SUBSET Msgs}]

(* Type correctness: rows, journal, watermarks and the envelopes under way. *)
TypeOK ==
    /\ bRow \in [Msgs -> Rows] /\ aRow \in [Msgs -> Rows]
    /\ bSeq \in [Msgs -> 0 .. MaxSeq] /\ head \in 0 .. MaxSeq
    /\ ack \in 0 .. MaxSeq /\ wm \in 0 .. MaxSeq
    /\ paired \in BOOLEAN /\ met \in BOOLEAN
    /\ answering \subseteq BOOLEAN
    /\ trouble \subseteq Kinds
    /\ reached \in 0 .. MaxSeq
    /\ passed \subseteq Msgs /\ skipped \subseteq Msgs /\ overtaken \subseteq Msgs
    /\ told \in [Msgs -> 0 .. MaxSeq] /\ owed \subseteq Msgs
    /\ \A p \in wire : p \in Packets

(* The asker's row shows what the answerer's row says, or something newer. *)
Shows(a, b) ==
    IF b.gone THEN a.gone \/ ~a.here
    ELSE \/ a.gone
         \/ a.here /\ \/ a.body = b.body
                      \/ a.at > b.at
                      \/ a.at = b.at /\ a.body < b.body

Behind(m) == bRow[m].here /\ bSeq[m] <= reached /\ ~Shows(aRow[m], bRow[m])

(* A row whose journal entry the asker's watermark has ever passed, or that was      *)
(* pruned, is shown by the asker as the answerer last wrote it or newer: no row is   *)
(* passed over by a batch's limit, a held row, a lost envelope, overtaking answers,  *)
(* a watermark written back, a prune or a stop.  What the code does pass over is     *)
(* named by the histories: a row written between the list and the head, a row left   *)
(* out or refused for good, and a row that changed between decision and write, or    *)
(* was given something older than it showed.                                         *)
NothingPassed == \A m \in Msgs : Behind(m) => m \in passed \cup skipped \cup overtaken

(* What was deleted on the asker stays deleted, and no sweep that reads the row       *)
(* deleted gives it a body again.  Two things do: an edit that arrives live after the *)
(* delete it crossed, and a handler that had read the row before the delete.          *)
NoResurrection ==
    [][\A m \in Msgs : (aRow[m].here /\ aRow[m].gone) =>
            /\ aRow'[m].gone
            /\ \/ aRow'[m].body = aRow[m].body
               \/ "late" \in trouble' \ trouble
               \/ \E h \in applying \ applying' : m \in h.hand /\ ~h.seen.gone]_vars

(* What is acknowledged was reached by the asker's watermark, though an older one may *)
(* be written over it: the answerer never prunes an entry the asker has not passed.   *)
AckBehindWatermark == ack <= reached

(* A sweep for what was missed that meets no trouble does its work: once it is over, *)
(* every entry it found has been handled, batch by batch, unless the row was written *)
(* again meanwhile.  (The watermark need not have reached it: a row of a contact met *)
(* after the snapshot holds the watermark for the whole batch.)                      *)
SweepDelivers ==
    Chains = 0 /\ trouble = {} => \A m \in owed : bSeq[m] <= told[m]

\* The asker misses nothing, and the answerer prunes nothing it may still ask for.
JournalSafe == NothingPassed /\ AckBehindWatermark
=============================================================================
