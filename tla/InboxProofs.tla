----------------------------- MODULE InboxProofs -----------------------------
(***************************************************************************)
(* The way of a message from the wire to the timeline, for any number of   *)
(* envelopes and messages, any limits of listing, stream and handlers, and *)
(* any number of broken streams, stops of either process and lost answers  *)
(* and deletes: no entry is deleted before it was opened, a message has    *)
(* one row, and inbox, stream and reader implement module Delivery.        *)
(***************************************************************************)
EXTENDS Inbox, SequenceTheorems, TLAPS

Types ==
    /\ unacked \subseteq Env /\ inbox \in Seq(Env)
    /\ publishing \in [Env -> Nat]
    /\ stream \in Seq(Env) /\ work \in Seq(Env)
    /\ cur \in Env \cup {None} /\ late \subseteq Env
    /\ used \subseteq Env /\ garbled \in [Env -> Nat] /\ cut \subseteq Env
    /\ rows \in [Msg -> Nat]

\* The index knows exactly the entries, and none is stored twice.
StoreExact ==
    /\ index = Held
    /\ \A i, j \in 1 .. Len(inbox) : inbox[i] = inbox[j] => i = j

\* The message of an envelope has come to its end: a row, or an excuse.
Final(e) == \/ rows[MsgOf[e]] > 0
            \/ \E f \in Unreadable \cup cut : MsgOf[f] = MsgOf[e]
Opened(e) == e \in used \cup Unreadable \cup cut
Over(e) == Final(e) /\ Opened(e)
Safe(e) == e \in Held \/ Over(e)

\* Whatever somebody is about to announce or to handle is stored or at its end.
InHandSafe ==
    /\ \A e \in Env : publishing[e] > 0 => Safe(e)
    /\ \A i \in 1 .. Len(stream) : Safe(stream[i])
    /\ \A i \in 1 .. Len(work) : Safe(work[i])
    /\ cur # None => Safe(cur)

\* Whatever may be deleted has been opened and is at its end.
DeletesOver ==
    /\ \A e \in late : Over(e)
    /\ cur # None /\ at = "delete" => Over(cur)

\* A consumed key is that of a message at its end, or of the entry in hand.
UsedFinal ==
    /\ \A e \in used : Final(e) \/ (cur = e /\ at = "append")
    /\ cur # None /\ at = "append" => cur \in used

InboxInv == /\ Types /\ StoreExact /\ InHandSafe /\ DeletesOver /\ UsedFinal
            /\ HeldUntilOpened /\ OneRow
-----------------------------------------------------------------------------
(* The stored entries.                                                     *)

\* Removing one place of a sequence.
LEMMA RemoveAtFacts ==
    ASSUME NEW S, NEW s \in Seq(S), NEW i \in 1 .. Len(s)
    PROVE  /\ RemoveAt(s, i) \in Seq(S) /\ Len(RemoveAt(s, i)) = Len(s) - 1
           /\ \A j \in 1 .. Len(s) - 1 : RemoveAt(s, i)[j] = IF j < i THEN s[j] ELSE s[j + 1]
<1> DEFINE a == SubSeq(s, 1, i - 1)
           b == SubSeq(s, i + 1, Len(s))
<1>1. a \in Seq(S) /\ Len(a) = i - 1 /\ \A j \in 1 .. i - 1 : a[j] = s[j]
  BY SubSeqProperties
<1>2. b \in Seq(S) /\ Len(b) = Len(s) - i /\ \A j \in 1 .. Len(s) - i : b[j] = s[i + j]
  BY SubSeqProperties
<1>3. RemoveAt(s, i) = a \o b
  BY DEF RemoveAt
<1> HIDE DEF a, b
<1>4. /\ a \o b \in Seq(S) /\ Len(a \o b) = Len(a) + Len(b)
      /\ \A j \in 1 .. Len(a) + Len(b) : (a \o b)[j] = IF j <= Len(a) THEN a[j] ELSE b[j - Len(a)]
  BY <1>1, <1>2, ConcatProperties
<1>5. ASSUME NEW j \in 1 .. Len(s) - 1
      PROVE  (a \o b)[j] = IF j < i THEN s[j] ELSE s[j + 1]
  <2>1. CASE j < i
    BY <1>1, <1>2, <1>4, <2>1
  <2>2. CASE ~(j < i)
    <3>1. PICK k \in 1 .. Len(s) - i : k = j - (i - 1) /\ i + k = j + 1
      BY <2>2
    <3>2. j \in 1 .. Len(a) + Len(b) /\ ~(j <= Len(a)) /\ k = j - Len(a)
      BY <1>1, <1>2, <2>2, <3>1
    <3>3. (a \o b)[j] = b[k]
      BY <1>4, <3>2
    <3>4. b[k] = s[i + k]
      BY <1>2
    <3>5. QED
      BY <2>2, <3>1, <3>3, <3>4
  <2>3. QED
    BY <2>1, <2>2
<1>6. QED
  BY <1>1, <1>2, <1>3, <1>4, <1>5

\* What it means to be stored.
LEMMA HeldIs == ASSUME Types PROVE \A e : e \in Held <=> \E i \in 1 .. Len(inbox) : inbox[i] = e
BY DEF Types, Held, ToSet

\* Delete takes the one entry of the envelope, and with it the index key.
LEMMA DropHeld ==
    ASSUME Types, StoreExact, NEW e, DropEntry(e)
    PROVE  inbox' \in Seq(Env) /\ Held' = Held \ {e} /\ StoreExact'
<1>1. inbox \in Seq(Env) /\ Len(inbox) \in Nat
  BY DEF Types
<1>2. CASE e \notin Held /\ UNCHANGED store
  BY <1>1, <1>2 DEF store, Held, StoreExact
<1>3. CASE /\ \E i \in DOMAIN inbox : inbox[i] = e /\ inbox' = RemoveAt(inbox, i)
           /\ index' = index \ {e}
  <2>1. PICK i \in 1 .. Len(inbox) : inbox[i] = e /\ inbox' = RemoveAt(inbox, i)
    BY <1>1, <1>3
  <2>2. /\ inbox' \in Seq(Env) /\ Len(inbox') = Len(inbox) - 1
        /\ \A j \in 1 .. Len(inbox) - 1 : inbox'[j] = IF j < i THEN inbox[j] ELSE inbox[j + 1]
    BY <1>1, <2>1, RemoveAtFacts
  <2>3. \A f : f \in Held <=> \E j \in 1 .. Len(inbox) : inbox[j] = f
    BY HeldIs
  <2>4. \A f : f \in Held' <=> \E j \in 1 .. Len(inbox') : inbox'[j] = f
    BY <2>2 DEF Held, ToSet
  <2>5. \A j, k \in 1 .. Len(inbox) : inbox[j] = inbox[k] => j = k
    BY DEF StoreExact
  <2>6. ASSUME NEW f \in Held' PROVE f \in Held /\ f # e
    <3>1. PICK j \in 1 .. Len(inbox) - 1 : inbox'[j] = f
      BY <2>2, <2>4, <2>6
    <3>2. PICK k \in 1 .. Len(inbox) : k # i /\ inbox[k] = f
      <4>1. CASE j < i
        BY <1>1, <2>2, <3>1, <4>1
      <4>2. CASE ~(j < i)
        <5>1. j + 1 \in 1 .. Len(inbox) /\ j + 1 # i
          BY <1>1, <4>2
        <5>2. QED
          BY <2>2, <3>1, <4>2, <5>1
      <4>3. QED
        BY <4>1, <4>2
    <3>3. QED
      BY <2>1, <2>3, <2>5, <3>2
  <2>7. ASSUME NEW f \in Held, f # e PROVE f \in Held'
    <3>1. PICK k \in 1 .. Len(inbox) : inbox[k] = f
      BY <2>3, <2>7
    <3>2. k # i
      BY <2>1, <2>7, <3>1
    <3>3. \E j \in 1 .. Len(inbox) - 1 : inbox'[j] = f
      <4>1. CASE k < i
        <5>1. k \in 1 .. Len(inbox) - 1
          BY <1>1, <4>1
        <5>2. QED
          BY <2>2, <3>1, <4>1, <5>1
      <4>2. CASE k > i
        <5>1. PICK j \in 1 .. Len(inbox) - 1 : j + 1 = k /\ ~(j < i)
          BY <1>1, <4>2
        <5>2. QED
          BY <2>2, <3>1, <5>1
      <4>3. QED
        BY <3>2, <4>1, <4>2
    <3>4. QED
      BY <2>2, <2>4, <3>3
  <2>8. Held' = Held \ {e}
    BY <2>6, <2>7
  <2>9. \A j, k \in 1 .. Len(inbox') : inbox'[j] = inbox'[k] => j = k
    <3>1. SUFFICES ASSUME NEW j \in 1 .. Len(inbox) - 1, NEW k \in 1 .. Len(inbox) - 1,
                          inbox'[j] = inbox'[k]
                   PROVE  j = k
      BY <2>2
    <3>2. /\ j + 1 \in 1 .. Len(inbox) /\ j \in 1 .. Len(inbox)
          /\ k + 1 \in 1 .. Len(inbox) /\ k \in 1 .. Len(inbox)
      BY <1>1
    <3>3. CASE j < i /\ k < i
      BY <2>2, <2>5, <3>1, <3>2, <3>3
    <3>4. CASE j < i /\ ~(k < i)
      BY <2>2, <2>5, <3>1, <3>2, <3>4
    <3>5. CASE ~(j < i) /\ k < i
      BY <2>2, <2>5, <3>1, <3>2, <3>5
    <3>6. CASE ~(j < i) /\ ~(k < i)
      <4>1. j + 1 = k + 1
        BY <2>2, <2>5, <3>1, <3>2, <3>6
      <4>2. QED
        BY <4>1
    <3>7. QED
      BY <3>3, <3>4, <3>5, <3>6
  <2>10. QED
    BY <1>3, <2>2, <2>8, <2>9 DEF StoreExact
<1>4. QED
  BY <1>2, <1>3 DEF DropEntry

\* Put stores the entry of an envelope the index does not know.
LEMMA PutHeld ==
    ASSUME Types, StoreExact, NEW e \in Env, PutNew(e)
    PROVE  inbox' \in Seq(Env) /\ Held' = Held \cup {e} /\ StoreExact'
<1>1. inbox \in Seq(Env) /\ inbox' = Append(inbox, e) /\ index' = index \cup {e} /\ e \notin Held
  BY DEF Types, PutNew, StoreExact
<1>2. /\ inbox' \in Seq(Env) /\ Len(inbox') = Len(inbox) + 1 /\ Len(inbox) \in Nat
      /\ \A j \in 1 .. Len(inbox) : inbox'[j] = inbox[j]
      /\ inbox'[Len(inbox) + 1] = e
  BY <1>1
<1>3. \A f : f \in Held <=> \E j \in 1 .. Len(inbox) : inbox[j] = f
  BY HeldIs
<1>4. \A f : f \in Held' <=> \E j \in 1 .. Len(inbox') : inbox'[j] = f
  BY <1>2 DEF Held, ToSet
<1>5. 1 .. Len(inbox') = 1 .. Len(inbox) \cup {Len(inbox) + 1}
  BY <1>2
<1>6. Held' = Held \cup {e}
  BY <1>2, <1>3, <1>4, <1>5
<1>7. \A j, k \in 1 .. Len(inbox') : inbox'[j] = inbox'[k] => j = k
  BY <1>1, <1>2, <1>3, <1>5 DEF StoreExact
<1>8. QED
  BY <1>1, <1>2, <1>6, <1>7 DEF StoreExact

-----------------------------------------------------------------------------
(* The invariant.                                                          *)

\* A decrypt-failed row more.
LEMMA OneMoreUnreadable ==
    ASSUME Types, cur \in Env, garbled' = [garbled EXCEPT ![cur] = @ + 1]
    PROVE  Unreadable' = Unreadable \cup {cur} /\ garbled' \in [Env -> Nat]
<1>1. garbled \in [Env -> Nat]
  BY DEF Types
<1>2. \A e \in Env : garbled'[e] = IF e = cur THEN garbled[e] + 1 ELSE garbled[e]
  BY <1>1
<1>3. garbled' \in [Env -> Nat]
  BY <1>1
<1>4. \A e \in Env : garbled'[e] > 0 <=> garbled[e] > 0 \/ e = cur
  BY <1>1, <1>2
<1>5. QED
  BY <1>3, <1>4 DEF Unreadable

\* What is shown, garbled, cut or opened stays so.
Forward ==
    /\ \A m \in Msg : rows[m] > 0 => rows'[m] > 0
    /\ Unreadable \subseteq Unreadable' /\ cut \subseteq cut' /\ used \subseteq used'

\* An envelope stays safe, as only entries that are over are removed.
LEMMA StaysSafe ==
    ASSUME Types, Forward, \A e \in Env : e \in Held \ Held' => Over(e)
    PROVE  \A e \in Env : /\ Final(e) => Final(e)'
                          /\ Over(e) => Over(e)'
                          /\ Safe(e) => Safe(e)'
<1>1. \A e \in Env : Final(e) => Final(e)'
  BY EnvAssumption DEF Forward, Final, Types
<1>2. \A e \in Env : Over(e) => Over(e)'
  BY <1>1 DEF Forward, Over, Opened
<1>3. QED
  BY <1>1, <1>2 DEF Safe

\* The parts of the invariant that a step keeps whose inbox, log and reader
\* are as they were; a handler, the stream or the sweep may have moved on.
LEMMA QuietKeeps ==
    ASSUME InboxInv, UNCHANGED <<inbox, index, cur, at, used, rows, garbled, Unreadable, cut>>,
           publishing' \in [Env -> Nat], stream' \in Seq(Env), work' \in Seq(Env),
           unacked' \subseteq Env, \A e \in Env \ unacked' : e \in unacked => Safe(e),
           \A e \in Env : publishing'[e] > 0 => Safe(e),
           \A i \in 1 .. Len(stream') : Safe(stream'[i]),
           \A i \in 1 .. Len(work') : Safe(work'[i]),
           late' \subseteq Env, \A e \in late' : Over(e)
    PROVE  InboxInv'
<1> USE DEF InboxInv
<1>1. Types'
  BY DEF Types
<1>2. Held' = Held /\ StoreExact'
  BY DEF Held, StoreExact
<1>3. \A e : (Final(e)' <=> Final(e)) /\ (Over(e)' <=> Over(e)) /\ (Safe(e)' <=> Safe(e))
  BY <1>2 DEF Final, Over, Opened, Safe
<1>4. InHandSafe'
  BY <1>3 DEF InHandSafe
<1>5. DeletesOver' /\ UsedFinal'
  BY <1>3 DEF DeletesOver, UsedFinal
<1>6. HeldUntilOpened'
  BY <1>2 DEF HeldUntilOpened, Safe, Over, Opened
<1>7. OneRow'
  BY DEF OneRow
<1>8. QED
  BY <1>1, <1>2, <1>4, <1>5, <1>6, <1>7

\* Put and its answer.
LEMMA ReceiveKeeps == ASSUME InboxInv, NEW e \in Env, Receive(e) PROVE InboxInv'
<1> USE DEF InboxInv
<1>1. UNCHANGED <<stream, work, cur, at, late, used, rows, garbled, Unreadable, cut>>
  BY DEF Receive, reader, log, Unreadable
<1>2. CASE PutNew(e)
  <2>1. inbox' \in Seq(Env) /\ Held' = Held \cup {e} /\ StoreExact'
    BY <1>2, PutHeld
  <2>2. /\ unacked' = unacked /\ publishing' = [publishing EXCEPT ![e] = @ + 1]
    BY <1>2 DEF PutNew
  <2>3. publishing' \in [Env -> Nat] /\ \A f \in Env : f # e => publishing'[f] = publishing[f]
    BY <2>2 DEF Types
  <2>4. \A f \in Env : (Final(f) => Final(f)') /\ (Over(f) => Over(f)') /\ (Safe(f) => Safe(f)')
    BY <1>1, <2>1, StaysSafe DEF Forward
  <2>5. Safe(e)'
    BY <2>1 DEF Safe
  <2>6. Types'
    BY <1>1, <2>1, <2>2, <2>3 DEF Types
  <2>7. InHandSafe'
    <3>1. \A f \in Env : publishing'[f] > 0 => Safe(f)'
      BY <2>3, <2>4, <2>5 DEF InHandSafe
    <3>2. (\A i \in 1 .. Len(stream) : stream[i] \in Env) /\ \A i \in 1 .. Len(work) : work[i] \in Env
      BY DEF Types
    <3>3. QED
      BY <1>1, <2>4, <3>1, <3>2 DEF InHandSafe, Types
  <2>8. DeletesOver' /\ UsedFinal'
    BY <1>1, <2>4 DEF DeletesOver, UsedFinal, Types
  <2>9. HeldUntilOpened' /\ OneRow'
    BY <1>1, <2>1, <2>2 DEF HeldUntilOpened, OneRow
  <2>10. QED
    BY <2>1, <2>6, <2>7, <2>8, <2>9
<1>3. CASE PutDuplicate(e)
  <2>1. UNCHANGED <<inbox, index, publishing>> /\ (unacked' = unacked \/ unacked' = unacked \ {e})
    BY <1>3 DEF PutDuplicate, Answer, store
  <2>2. Safe(e)
    BY <1>3 DEF PutDuplicate, StoreExact, Safe
  <2>3. QED
    BY <1>1, <2>1, <2>2, QuietKeeps DEF Types, InHandSafe, DeletesOver
<1>4. QED
  BY <1>2, <1>3 DEF Receive

\* The announcement, and the answer after it.
LEMMA PublishKeeps == ASSUME InboxInv, NEW e \in Env, Publish(e) PROVE InboxInv'
<1> USE DEF InboxInv
<1>1. UNCHANGED <<inbox, index, work, cur, at, late, used, rows, garbled, Unreadable, cut>>
  BY DEF Publish, reader, log, store, Unreadable
<1>2. publishing[e] > 0 /\ Safe(e)
  BY DEF Publish, InHandSafe
<1>3. /\ publishing' \in [Env -> Nat]
      /\ \A f \in Env : publishing'[f] > 0 => publishing[f] > 0
  BY <1>2 DEF Publish, Types
<1>4. unacked' = unacked \/ unacked' = unacked \ {e}
  BY DEF Publish, Answer
<1>5. stream' \in Seq(Env) /\ \A i \in 1 .. Len(stream') : Safe(stream'[i])
  <2>1. CASE stream' = stream
    BY <2>1 DEF Types, InHandSafe
  <2>2. CASE stream' = Append(stream, e)
    BY <1>2, <2>2 DEF Types, InHandSafe
  <2>3. QED
    BY <2>1, <2>2 DEF Publish
<1>6. QED
  BY <1>1, <1>2, <1>3, <1>4, <1>5, QuietKeeps DEF Types, InHandSafe, DeletesOver

\* Steps of streams and of the loop: what is listed is stored, what is cut off
\* a stream is forgotten.
LEMMA StreamKeeps ==
    ASSUME InboxInv, \/ Subscribe \/ Break \/ BackendRestart \/ Connect \/ Sweep \/ SweepFails
                     \/ SweepDone \/ StreamEnded \/ FrontendStart \/ UNCHANGED vars
    PROVE  InboxInv'
<1> USE DEF InboxInv
<1>1. UNCHANGED <<unacked, inbox, index, cur, at, used, rows, garbled, Unreadable, cut>>
  BY DEF Subscribe, Break, BackendRestart, Connect, Sweep, SweepFails, SweepDone, StreamEnded,
         FrontendStart, vars, store, reader, log, Unreadable
<1>2. /\ publishing' = publishing \/ publishing' = [e \in Env |-> 0]
      /\ late' = late \/ late' = {}
      /\ stream' = stream \/ Cut
      /\ work' = work \/ work' = Listing
  BY DEF Subscribe, Break, BackendRestart, Connect, Sweep, SweepFails, SweepDone, StreamEnded,
         FrontendStart, vars, reader
<1>3. publishing' \in [Env -> Nat] /\ \A e \in Env : publishing'[e] > 0 => Safe(e)
  <2>1. CASE publishing' = publishing
    BY <2>1 DEF Types, InHandSafe
  <2>2. CASE publishing' = [e \in Env |-> 0]
    BY <2>2
  <2>3. QED
    BY <1>2, <2>1, <2>2
<1>4. late' \subseteq Env /\ \A e \in late' : Over(e)
  BY <1>2 DEF Types, DeletesOver
<1>5. stream' \in Seq(Env) /\ \A i \in 1 .. Len(stream') : Safe(stream'[i])
  <2>1. CASE stream' = stream
    BY <2>1 DEF Types, InHandSafe
  <2>2. CASE Cut
    <3>1. PICK k \in 0 .. Len(stream) : stream' = SubSeq(stream, 1, k)
      BY <2>2 DEF Cut
    <3>2. stream \in Seq(Env) /\ Len(stream) \in Nat
      BY DEF Types
    <3>3. /\ stream' \in Seq(Env) /\ Len(stream') = k
          /\ \A i \in 1 .. k : stream'[i] = stream[i] /\ i \in 1 .. Len(stream)
      BY <3>1, <3>2, SubSeqProperties
    <3>4. QED
      BY <3>3 DEF InHandSafe
  <2>3. QED
    BY <1>2, <2>1, <2>2
<1>6. work' \in Seq(Env) /\ \A i \in 1 .. Len(work') : Safe(work'[i])
  <2>1. CASE work' = work
    BY <2>1 DEF Types, InHandSafe
  <2>2. CASE work' = Listing
    <3>1. inbox \in Seq(Env) /\ Len(inbox) \in Nat
      BY DEF Types
    <3>2. PICK k \in 0 .. Len(inbox) : work' = SubSeq(inbox, 1, k)
      BY <2>2, <3>1, EnvAssumption DEF Listing
    <3>3. /\ work' \in Seq(Env) /\ Len(work') = k
          /\ \A i \in 1 .. k : work'[i] = inbox[i] /\ i \in 1 .. Len(inbox)
      BY <3>1, <3>2, SubSeqProperties
    <3>4. \A i \in 1 .. Len(inbox) : Safe(inbox[i])
      BY HeldIs DEF Safe
    <3>5. QED
      BY <3>3, <3>4
  <2>3. QED
    BY <1>2, <2>1, <2>2
<1>7. QED
  BY <1>1, <1>3, <1>4, <1>5, <1>6, QuietKeeps DEF Types

\* Deletes, in time or late, of entries that are over.
LEMMA DeleteKeeps ==
    ASSUME InboxInv, DeleteEntry \/ \E e \in Env : DeleteLate(e) PROVE InboxInv'
<1> USE DEF InboxInv
<1>1. UNCHANGED <<unacked, publishing, stream, work, used, rows, garbled, Unreadable, cut>>
  BY DEF DeleteEntry, DeleteLate, reader, log, Unreadable
<1>2. PICK e \in Env : DropEntry(e) /\ Over(e)
  BY DEF DeleteEntry, DeleteLate, DeletesOver, Types
<1>3. (cur' = cur /\ at' = at) \/ (cur' = None /\ at' = "decrypt" /\ at = "delete")
  BY DEF DeleteEntry, DeleteLate, reader
<1>4. late' \subseteq late
  BY DEF DeleteEntry, DeleteLate
<1>5. inbox' \in Seq(Env) /\ Held' = Held \ {e} /\ StoreExact'
  BY <1>2, DropHeld
<1>6. \A f \in Env : (Final(f) => Final(f)') /\ (Over(f) => Over(f)') /\ (Safe(f) => Safe(f)')
  BY <1>1, <1>2, <1>5, StaysSafe DEF Forward
<1>7. Types'
  BY <1>1, <1>3, <1>4, <1>5 DEF Types
<1>8. InHandSafe'
  BY <1>1, <1>3, <1>6 DEF InHandSafe, Types
<1>9. DeletesOver' /\ UsedFinal'
  BY <1>1, <1>3, <1>4, <1>6, EnvAssumption DEF DeletesOver, UsedFinal, Types
<1>10. HeldUntilOpened' /\ OneRow'
  BY <1>1, <1>2, <1>5 DEF HeldUntilOpened, OneRow, Over, Opened
<1>11. QED
  BY <1>5, <1>7, <1>8, <1>9, <1>10

\* Taking up an entry, or putting it down without having deleted it.
LEMMA TakeKeeps ==
    ASSUME InboxInv, TakeListed \/ TakeEvent \/ DeleteFails PROVE InboxInv'
<1> USE DEF InboxInv
<1>1. UNCHANGED <<unacked, inbox, index, publishing, used, rows, garbled, Unreadable, cut>>
  BY DEF TakeListed, TakeEvent, DeleteFails, store, log, Unreadable
<1>2. Held' = Held /\ StoreExact'
  BY <1>1 DEF Held, StoreExact
<1>3. \A e : (Final(e)' <=> Final(e)) /\ (Over(e)' <=> Over(e)) /\ (Safe(e)' <=> Safe(e))
  BY <1>1, <1>2 DEF Final, Over, Opened, Safe
<1>4. at' = "decrypt" /\ (cur = None \/ at = "delete")
  BY DEF TakeListed, TakeEvent, DeleteFails
<1>5. /\ stream' \in Seq(Env) /\ \A i \in 1 .. Len(stream') : Safe(stream'[i])
      /\ work' \in Seq(Env) /\ \A i \in 1 .. Len(work') : Safe(work'[i])
      /\ cur' \in Env \cup {None} /\ (cur' # None => Safe(cur'))
      /\ late' \subseteq Env /\ \A e \in late' : Over(e)
  <2>1. CASE TakeListed
    BY <2>1 DEF TakeListed, Types, InHandSafe, DeletesOver
  <2>2. CASE TakeEvent
    BY <2>2 DEF TakeEvent, Types, InHandSafe, DeletesOver
  <2>3. CASE DeleteFails
    BY <2>3 DEF DeleteFails, Types, InHandSafe, DeletesOver
  <2>4. QED
    BY <2>1, <2>2, <2>3
<1>6. Types'
  BY <1>1, <1>5 DEF Types
<1>7. InHandSafe'
  BY <1>1, <1>3, <1>5 DEF InHandSafe
<1>8. DeletesOver' /\ UsedFinal'
  BY <1>1, <1>3, <1>4, <1>5, EnvAssumption DEF DeletesOver, UsedFinal, Types
<1>9. HeldUntilOpened' /\ OneRow'
  BY <1>1, <1>2 DEF HeldUntilOpened, OneRow
<1>10. QED
  BY <1>2, <1>6, <1>7, <1>8, <1>9

\* Opening, showing and the stop in between: the log moves forward and the
\* entry in hand keeps an account of where it is.
LEMMA HandleKeeps ==
    ASSUME InboxInv, Decrypt \/ AppendInbound \/ FrontendStop PROVE InboxInv'
<1> USE DEF InboxInv
<1>1. UNCHANGED <<unacked, inbox, index, publishing>>
  BY DEF Decrypt, AppendInbound, FrontendStop, store
<1>2. Held' = Held /\ StoreExact'
  BY <1>1 DEF Held, StoreExact
<1>3. CASE Decrypt
  <2>1. UNCHANGED <<stream, work, cur, late, rows, garbled, Unreadable>> /\ cur \in Env /\ at = "decrypt"
    BY <1>3 DEF Decrypt, Types, Unreadable
  <2>2. \/ at' = "delete" /\ cut' = cut \cup {cur} /\ used' = used
        \/ at' = "delete" /\ cur \in used /\ used' = used /\ cut' = cut
        \/ at' = "garble" /\ used' = used /\ cut' = cut
        \/ at' = "append" /\ used' = used \cup {cur} /\ cut' = cut
    BY <1>3 DEF Decrypt
  <2>3. \A f \in Env : (Final(f) => Final(f)') /\ (Over(f) => Over(f)') /\ (Safe(f) => Safe(f)')
    BY <1>2, <2>1, <2>2, StaysSafe DEF Forward
  <2>4. Types'
    BY <1>1, <2>1, <2>2 DEF Types
  <2>5. InHandSafe'
    BY <1>1, <2>1, <2>3 DEF InHandSafe, Types
  <2>6. at' = "delete" => Over(cur)'
    BY <2>1, <2>2, <2>3 DEF Over, Final, Opened, UsedFinal
  <2>7. DeletesOver'
    BY <2>1, <2>3, <2>6 DEF DeletesOver, Types
  <2>8. UsedFinal'
    BY <2>1, <2>2, <2>3 DEF UsedFinal, Types
  <2>9. HeldUntilOpened' /\ OneRow'
    BY <1>1, <1>2, <2>1, <2>2 DEF HeldUntilOpened, OneRow
  <2>10. QED
    BY <1>2, <2>4, <2>5, <2>7, <2>8, <2>9
<1>4. CASE AppendInbound
  <2>1. /\ UNCHANGED <<stream, work, cur, late, used>> /\ cur \in Env /\ at' = "delete"
        /\ MsgOf[cur] \in Msg
    BY <1>4, EnvAssumption DEF AppendInbound, Types
  <2>2. \/ cut' = cut \cup {cur} /\ rows' = rows /\ Unreadable' = Unreadable
        \/ Unreadable' = Unreadable \cup {cur} /\ rows' = rows /\ cut' = cut
        \/ at = "append" /\ rows[MsgOf[cur]] > 0 /\ rows' = rows /\ Unreadable' = Unreadable /\ cut' = cut
        \/ /\ at = "append" /\ rows[MsgOf[cur]] = 0
           /\ rows' = [rows EXCEPT ![MsgOf[cur]] = @ + 1]
           /\ Unreadable' = Unreadable /\ cut' = cut
    BY <1>4, <2>1, OneMoreUnreadable DEF AppendInbound, Unreadable
  <2>2a. garbled' \in [Env -> Nat]
    BY <1>4, <2>1, OneMoreUnreadable DEF AppendInbound, Types
  <2>3. /\ rows' \in [Msg -> Nat]
        /\ \A m \in Msg : (rows[m] > 0 => rows'[m] > 0) /\ (rows[m] <= 1 => rows'[m] <= 1)
    <3>1. rows \in [Msg -> Nat]
      BY DEF Types
    <3>2. CASE rows' = rows
      BY <3>1, <3>2
    <3>3. CASE rows[MsgOf[cur]] = 0 /\ rows' = [rows EXCEPT ![MsgOf[cur]] = @ + 1]
      <4>1. rows' = [rows EXCEPT ![MsgOf[cur]] = 1]
        BY <2>1, <3>1, <3>3
      <4>2. QED
        BY <2>1, <3>1, <4>1
    <3>4. QED
      BY <2>2, <3>2, <3>3
  <2>4. \A f \in Env : (Final(f) => Final(f)') /\ (Over(f) => Over(f)') /\ (Safe(f) => Safe(f)')
    BY <1>2, <2>1, <2>2, <2>3, StaysSafe DEF Forward
  <2>5. Types'
    BY <1>1, <2>1, <2>2, <2>2a, <2>3 DEF Types
  <2>6. InHandSafe'
    BY <1>1, <2>1, <2>4 DEF InHandSafe, Types
  <2>7. Final(cur)'
    <3>1. CASE cut' = cut \cup {cur} \/ Unreadable' = Unreadable \cup {cur}
      BY <2>1, <3>1 DEF Final
    <3>2. CASE rows'[MsgOf[cur]] > 0
      BY <2>1, <3>2 DEF Final
    <3>3. rows \in [Msg -> Nat]
      BY DEF Types
    <3>4. QED
      BY <2>1, <2>2, <3>1, <3>2, <3>3
  <2>8. Opened(cur)'
    BY <2>1, <2>2, EnvAssumption DEF Opened, UsedFinal
  <2>9. DeletesOver'
    BY <2>1, <2>4, <2>7, <2>8 DEF DeletesOver, Types, Over
  <2>10. UsedFinal'
    BY <2>1, <2>4, <2>7 DEF UsedFinal, Types
  <2>11. HeldUntilOpened' /\ OneRow'
    BY <1>1, <1>2, <2>1, <2>2, <2>3 DEF HeldUntilOpened, OneRow
  <2>12. QED
    BY <1>2, <2>5, <2>6, <2>9, <2>10, <2>11
<1>5. CASE FrontendStop
  <2>1. UNCHANGED <<used, rows, garbled, Unreadable>> /\ work' = <<>> /\ cur' = None /\ stream' = <<>>
    BY <1>5 DEF FrontendStop, Unreadable
  <2>2. late' = late \/ (late' = late \cup {cur} /\ cur # None /\ at = "delete")
    BY <1>5 DEF FrontendStop
  <2>3. \/ cur # None /\ at = "append" /\ cut' = cut \cup {cur}
        \/ ~(cur # None /\ at = "append") /\ cut' = cut
    BY <1>5 DEF FrontendStop
  <2>4. \A f \in Env : (Final(f) => Final(f)') /\ (Over(f) => Over(f)') /\ (Safe(f) => Safe(f)')
    BY <1>2, <2>1, <2>3, StaysSafe DEF Forward
  <2>5. <<>> \in Seq(Env) /\ Len(<<>>) = 0
    OBVIOUS
  <2>6. Types'
    BY <1>1, <2>1, <2>2, <2>3, <2>5 DEF Types
  <2>7. InHandSafe'
    BY <1>1, <2>1, <2>4, <2>5 DEF InHandSafe
  <2>8. DeletesOver'
    BY <2>1, <2>2, <2>4 DEF DeletesOver, Types
  <2>9. UsedFinal'
    BY <2>1, <2>3, <2>4, EnvAssumption DEF UsedFinal, Types, Final
  <2>10. HeldUntilOpened' /\ OneRow'
    BY <1>1, <1>2, <2>1, <2>3 DEF HeldUntilOpened, OneRow
  <2>11. QED
    BY <1>2, <2>6, <2>7, <2>8, <2>9, <2>10
<1>6. QED
  BY <1>3, <1>4, <1>5

\* Every step keeps the invariant.
LEMMA InboxStep == ASSUME InboxInv, [Next]_vars PROVE InboxInv'
BY ReceiveKeeps, PublishKeeps, StreamKeeps, DeleteKeeps, TakeKeeps, HandleKeeps
   DEF Next, Daemon, Stream, Handling, Faults

\* It holds at the start, with nothing stored.
LEMMA InboxInit == Init => InboxInv
<1> SUFFICES ASSUME Init PROVE InboxInv
  OBVIOUS
<1>1. <<>> \in Seq(Env) /\ Len(<<>>) = 0
  OBVIOUS
<1>2. Types
  BY <1>1 DEF Init, Types
<1>3. Held = {}
  BY <1>2, <1>1, HeldIs DEF Init
<1>4. StoreExact
  BY <1>1, <1>3 DEF Init, StoreExact
<1>5. InHandSafe
  BY <1>1 DEF Init, InHandSafe
<1>6. DeletesOver /\ UsedFinal /\ HeldUntilOpened /\ OneRow
  BY DEF Init, DeletesOver, UsedFinal, HeldUntilOpened, OneRow
<1>7. QED
  BY <1>2, <1>4, <1>5, <1>6 DEF InboxInv

\* The invariant holds in every reachable state.
LEMMA InboxInvariant == Spec => []InboxInv
<1>1. InboxInv /\ [Next]_vars => InboxInv'
  BY InboxStep
<1>2. QED
  BY <1>1, InboxInit, PTL DEF Spec

\* No entry leaves the inbox before it was opened, and no message has two rows.
THEOREM InboxExactlyOnce == Spec => []ExactlyOnce
<1>1. InboxInv => ExactlyOnce
  BY DEF InboxInv, ExactlyOnce
<1>2. QED
  BY <1>1, InboxInvariant, PTL

-----------------------------------------------------------------------------
(* The refinement: the five variables of Delivery and how a step moves     *)
(* them.                                                                   *)

Msgs(S) == {MsgOf[e] : e \in S}
Accepted == Msgs(Held) \cup Shown \cup Garbled
Acked == Msgs(Env \ unacked)
Excused == Msgs(cut)
Allowed == \/ UNCHANGED <<Accepted, Acked, Shown, Garbled, Excused>>
           \/ Promise!DNext

\* Over and safe, in the words of Delivery.
LEMMA OverMeans ==
    ASSUME InboxInv, NEW e \in Env
    PROVE  /\ MsgOf[e] \in Msg
           /\ e \in Held => MsgOf[e] \in Accepted
           /\ Final(e) => MsgOf[e] \in Shown \cup Garbled \cup Excused
           /\ Safe(e) => MsgOf[e] \in Accepted \cup Excused
<1>1. MsgOf[e] \in Msg
  BY EnvAssumption
<1>2. e \in Held => MsgOf[e] \in Accepted
  BY DEF Accepted, Msgs
<1>3. Final(e) => MsgOf[e] \in Shown \cup Garbled \cup Excused
  BY <1>1 DEF Final, Shown, Garbled, Excused, Msgs
<1>4. QED
  BY <1>1, <1>2, <1>3 DEF Safe, Over, Accepted

\* A new entry is accepted, or its message was.
LEMMA PutAllowed ==
    ASSUME InboxInv, NEW e \in Env, PutNew(e), UNCHANGED <<rows, Unreadable, cut>> PROVE Allowed
<1> DEFINE m == MsgOf[e]
<1>1. Held' = Held \cup {e}
  BY PutHeld DEF InboxInv
<1>2. UNCHANGED <<Acked, Shown, Garbled, Excused>>
  BY DEF PutNew, Acked, Shown, Garbled, Excused
<1>3. Accepted' = Accepted \cup {m}
  BY <1>1, <1>2 DEF Accepted, Msgs
<1>4. m \in Msg
  BY OverMeans
<1>5. CASE m \in Accepted
  BY <1>2, <1>3, <1>5 DEF Allowed
<1>6. CASE m \notin Accepted
  <2>1. Promise!Accept(m)
    BY <1>2, <1>3, <1>6 DEF Promise!Accept, Accepted, Acked, Excused, Msgs
  <2>2. QED
    BY <1>4, <2>1 DEF Allowed, Promise!DNext
<1>7. QED
  BY <1>5, <1>6

\* Only a safe envelope is answered for.
LEMMA AnswerAllowed ==
    ASSUME InboxInv, NEW e \in Env, Answer(e), Safe(e), UNCHANGED <<inbox, rows, Unreadable, cut>>
    PROVE  Allowed
<1> DEFINE m == MsgOf[e]
<1>1. UNCHANGED <<Accepted, Shown, Garbled, Excused>>
  BY DEF Accepted, Held, Shown, Garbled, Excused
<1>2. m \in Msg /\ m \in Accepted \cup Excused
  BY OverMeans
<1>3. CASE unacked' = unacked
  BY <1>1, <1>3 DEF Allowed, Acked
<1>4. CASE unacked' = unacked \ {e}
  <2>1. Env \ unacked' = (Env \ unacked) \cup {e}
    BY <1>4
  <2>2. Acked' = Acked \cup {m}
    BY <2>1 DEF Acked, Msgs
  <2>3. Promise!Acknowledge(m)
    BY <1>1, <1>2, <2>2 DEF Promise!Acknowledge, Accepted, Acked, Excused, Msgs
  <2>4. QED
    BY <1>2, <2>3 DEF Allowed, Promise!DNext
<1>5. QED
  BY <1>3, <1>4 DEF Answer

\* Deleting what is over forgets a message only if it was excused.
LEMMA DropAllowed ==
    ASSUME InboxInv, NEW e \in Env, DropEntry(e), Over(e), UNCHANGED <<unacked, rows, Unreadable, cut>>
    PROVE  Allowed
<1> DEFINE m == MsgOf[e]
<1>1. Held' = Held \ {e}
  BY DropHeld DEF InboxInv
<1>2. UNCHANGED <<Acked, Shown, Garbled, Excused>>
  BY DEF Acked, Shown, Garbled, Excused
<1>3. m \in Msg /\ m \in Shown \cup Garbled \cup Excused
  BY OverMeans DEF Over
<1>4. Accepted' \subseteq Accepted /\ Accepted \subseteq Accepted' \cup {m}
  BY <1>1, <1>2 DEF Accepted, Msgs
<1>5. CASE Accepted' = Accepted
  BY <1>2, <1>5 DEF Allowed
<1>6. CASE Accepted' # Accepted
  <2>1. m \in Accepted /\ m \notin Accepted' /\ Accepted' = Accepted \ {m}
    BY <1>4, <1>6
  <2>2. m \notin Shown \cup Garbled /\ m \in Excused
    BY <1>2, <1>3, <2>1 DEF Accepted
  <2>3. Promise!Forget(m)
    BY <1>2, <2>1, <2>2 DEF Promise!Forget, Accepted, Acked, Excused, Msgs
  <2>4. QED
    BY <1>3, <2>3 DEF Allowed, Promise!DNext
<1>7. QED
  BY <1>5, <1>6

\* The reader's step on a safe entry: a row, a garbled row or an excuse.
LEMMA LogAllowed ==
    ASSUME InboxInv, cur \in Env, UNCHANGED <<unacked, inbox>>,
           \/ UNCHANGED <<rows, Unreadable, cut>>
           \/ cut' = cut \cup {cur} /\ UNCHANGED <<rows, Unreadable>>
           \/ Unreadable' = Unreadable \cup {cur} /\ UNCHANGED <<rows, cut>>
           \/ /\ rows[MsgOf[cur]] = 0 /\ rows' = [rows EXCEPT ![MsgOf[cur]] = @ + 1]
              /\ UNCHANGED <<Unreadable, cut>>
    PROVE  Allowed
<1>0. PICK m \in Msg : m = MsgOf[cur]
  BY EnvAssumption
<1>1. Held' = Held /\ Acked' = Acked
  BY DEF Held, Acked
<1>2. m \in Accepted \cup Excused
  BY <1>0, OverMeans, EnvAssumption DEF InboxInv, InHandSafe
<1>3. CASE UNCHANGED <<rows, Unreadable, cut>>
  BY <1>1, <1>3 DEF Allowed, Accepted, Shown, Garbled, Excused, Unreadable
<1>4. CASE cut' = cut \cup {cur} /\ UNCHANGED <<rows, Unreadable>>
  <2>1. UNCHANGED <<Accepted, Shown, Garbled>> /\ Excused' = Excused \cup {m}
    BY <1>0, <1>1, <1>4 DEF Accepted, Shown, Garbled, Excused, Msgs
  <2>2. CASE m \in Excused
    BY <1>1, <2>1, <2>2 DEF Allowed
  <2>3. CASE m \notin Excused
    <3>1. Promise!Cut(m)
      BY <1>1, <1>2, <2>1, <2>3 DEF Promise!Cut, Accepted, Acked, Excused, Msgs
    <3>2. QED
      BY <3>1 DEF Allowed, Promise!DNext
  <2>4. QED
    BY <2>2, <2>3
<1>5. CASE Unreadable' = Unreadable \cup {cur} /\ UNCHANGED <<rows, cut>>
  <2>1. /\ UNCHANGED <<Shown, Excused>> /\ Garbled' = Garbled \cup {m}
    BY <1>0, <1>5 DEF Shown, Garbled, Excused
  <2>2. Accepted' = Accepted \cup {m}
    BY <1>1, <2>1 DEF Accepted
  <2>3. CASE m \in Garbled
    BY <1>1, <2>1, <2>2, <2>3 DEF Allowed, Accepted
  <2>4. CASE m \notin Garbled
    <3>1. Promise!Garble(m)
      BY <1>1, <1>2, <2>1, <2>2, <2>4 DEF Promise!Garble, Accepted, Acked, Excused, Msgs
    <3>2. QED
      BY <3>1 DEF Allowed, Promise!DNext
  <2>5. QED
    BY <2>3, <2>4
<1>6. CASE /\ rows[m] = 0 /\ rows' = [rows EXCEPT ![m] = @ + 1]
           /\ UNCHANGED <<Unreadable, cut>>
  <2>1. rows \in [Msg -> Nat] /\ rows' = [rows EXCEPT ![m] = 1]
    BY <1>2, <1>6 DEF InboxInv, Types
  <2>2. Shown' = Shown \cup {m} /\ m \notin Shown
    BY <1>2, <1>6, <2>1 DEF Shown
  <2>3. UNCHANGED <<Garbled, Excused>> /\ Accepted' = Accepted \cup {m}
    BY <1>1, <1>6, <2>2 DEF Garbled, Excused, Accepted
  <2>4. Promise!Show(m)
    BY <1>1, <1>2, <2>2, <2>3 DEF Promise!Show, Accepted, Acked, Excused, Msgs
  <2>5. QED
    BY <2>4 DEF Allowed, Promise!DNext
<1>7. QED
  BY <1>0, <1>3, <1>4, <1>5, <1>6

\* Every step is a step of Delivery, or none of its business.
LEMMA StepAllowed == ASSUME InboxInv, [Next]_vars PROVE Allowed
<1>1. ASSUME NEW e \in Env, Receive(e) PROVE Allowed
  <2>1. UNCHANGED <<rows, Unreadable, cut>>
    BY <1>1 DEF Receive, log, Unreadable
  <2>2. CASE PutNew(e)
    BY <2>1, <2>2, PutAllowed
  <2>3. CASE PutDuplicate(e)
    <3>1. Answer(e) /\ Safe(e) /\ UNCHANGED inbox
      BY <2>3 DEF PutDuplicate, store, Safe, InboxInv, StoreExact
    <3>2. QED
      BY <2>1, <3>1, AnswerAllowed
  <2>4. QED
    BY <1>1, <2>2, <2>3 DEF Receive
<1>2. ASSUME NEW e \in Env, Publish(e) PROVE Allowed
  <2>1. Answer(e) /\ Safe(e) /\ UNCHANGED <<inbox, rows, Unreadable, cut>>
    BY <1>2 DEF Publish, store, log, InboxInv, InHandSafe, Unreadable
  <2>2. QED
    BY <2>1, AnswerAllowed
<1>3. ASSUME NEW e \in Env, DeleteLate(e) PROVE Allowed
  <2>1. DropEntry(e) /\ Over(e) /\ UNCHANGED <<unacked, rows, Unreadable, cut>>
    BY <1>3 DEF DeleteLate, log, InboxInv, DeletesOver, Unreadable
  <2>2. QED
    BY <2>1, DropAllowed
<1>4. CASE DeleteEntry
  <2>1. cur \in Env /\ DropEntry(cur) /\ Over(cur) /\ UNCHANGED <<unacked, rows, Unreadable, cut>>
    BY <1>4 DEF DeleteEntry, log, InboxInv, Types, DeletesOver, Unreadable
  <2>2. QED
    BY <2>1, DropAllowed
<1>5. CASE Decrypt
  <2>1. cur \in Env /\ UNCHANGED <<unacked, inbox, rows, Unreadable>>
    BY <1>5 DEF Decrypt, store, InboxInv, Types, Unreadable
  <2>2. cut' = cut \/ (cut = {} /\ cut' = cut \cup {cur})
    BY <1>5 DEF Decrypt, Refused
  <2>3. QED
    BY <2>1, <2>2, LogAllowed
<1>6. CASE AppendInbound
  <2>1. cur \in Env /\ UNCHANGED <<unacked, inbox>>
    BY <1>6 DEF AppendInbound, store, InboxInv, Types
  <2>2. \/ UNCHANGED <<rows, Unreadable, cut>>
        \/ cut = {} /\ cut' = cut \cup {cur} /\ UNCHANGED <<rows, Unreadable>>
        \/ Unreadable' = Unreadable \cup {cur} /\ UNCHANGED <<rows, cut>>
        \/ /\ rows[MsgOf[cur]] = 0 /\ rows' = [rows EXCEPT ![MsgOf[cur]] = @ + 1]
           /\ UNCHANGED <<Unreadable, cut>>
    BY <1>6, <2>1, OneMoreUnreadable DEF AppendInbound, Refused, Unreadable, InboxInv
  <2>3. QED
    BY <2>1, <2>2, LogAllowed
<1>7. ASSUME UNCHANGED <<unacked, inbox, rows, Unreadable, cut>> PROVE Allowed
  BY <1>7 DEF Allowed, Accepted, Acked, Held, Shown, Garbled, Excused, Unreadable
<1>8. CASE FrontendStop
  <2>1. UNCHANGED <<unacked, inbox, rows, Unreadable>>
    BY <1>8 DEF FrontendStop, store, Unreadable
  <2>2. cut' = cut \/ (cur # None /\ at = "append" /\ cut' = cut \cup {cur})
    BY <1>8 DEF FrontendStop
  <2>3. CASE cut' = cut
    BY <1>7, <2>1, <2>3
  <2>4. CASE cur # None /\ at = "append" /\ cut' = cut \cup {cur}
    <3>1. cur \in Env
      BY <2>4 DEF InboxInv, Types
    <3>2. QED
      BY <2>1, <2>4, <3>1, LogAllowed
  <2>5. QED
    BY <2>2, <2>3, <2>4
<1>9. CASE TakeListed \/ TakeEvent \/ DeleteFails
  BY <1>7, <1>9 DEF TakeListed, TakeEvent, DeleteFails, store, log, Unreadable
<1>10. CASE Subscribe \/ Break \/ BackendRestart \/ Stream \/ FrontendStart \/ UNCHANGED vars
  BY <1>7, <1>10 DEF Subscribe, Break, BackendRestart, Stream, Connect, Sweep, SweepFails,
     SweepDone, StreamEnded, FrontendStart, vars, store, log, Unreadable
<1>11. QED
  BY <1>1, <1>2, <1>3, <1>4, <1>5, <1>6, <1>8, <1>9, <1>10 DEF Next, Daemon, Handling, Faults

\* Inbox, stream and reader implement module Delivery: with streams breaking,
\* both processes stopping and answers, events and deletes getting lost, a
\* message somebody was told about is held until it stands in the timeline.
THEOREM InboxKeepsPromise == Spec => KeepsPromise
<1>1. Init => Promise!DInit
  <2> SUFFICES ASSUME Init PROVE Promise!DInit
    OBVIOUS
  <2>1. InboxInv /\ Len(<<>>) = 0
    BY InboxInit
  <2>2. Held = {}
    BY <2>1, HeldIs DEF Init, InboxInv
  <2>3. Shown = {} /\ Garbled = {}
    BY DEF Init, Shown, Garbled, Unreadable
  <2>4. QED
    BY <2>2, <2>3 DEF Init, Promise!DInit
<1>2. InboxInv /\ [Next]_vars => [Promise!DNext]_(Promise!dvars)
  <2> SUFFICES ASSUME InboxInv, [Next]_vars PROVE [Promise!DNext]_(Promise!dvars)
    OBVIOUS
  <2>1. Allowed
    BY StepAllowed
  <2>2. QED
    BY <2>1 DEF Allowed, Promise!dvars, Accepted, Acked, Excused, Msgs
<1>3. QED
  BY <1>1, <1>2, InboxInvariant, PTL DEF Spec, KeepsPromise, Promise!DSpec
==============================================================================
