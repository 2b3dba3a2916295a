----------------------------- MODULE CallsProofs -----------------------------
(***************************************************************************)
(* Proofs about module Calls, for any number of devices and any set of     *)
(* troubles meeting in one behaviour.                                      *)
(*                                                                         *)
(* All four properties speak of calls at rest, so none is inductive: the   *)
(* invariant says which goroutine or message is still to do what a call    *)
(* that is not yet at rest lacks.  It has a caller's part, a part for each *)
(* called device and a part about the messages between them; a step of one *)
(* side leaves the state of the other alone.                               *)
(***************************************************************************)
EXTENDS Calls, SequenceTheorems, FiniteSetTheorems, TLAPS

Silenced == "unsent" \in trouble \/ "calleewrite" \in trouble
Restarted == "callerstop" \in trouble \/ "calleestop" \in trouble

-----------------------------------------------------------------------------
(* The caller *)

\* Which goroutine may be where.
Places ==
    /\ th["start"].pc \in {"new", "idle", "put", "offer", "skip", "arm", "fail", "teardown"}
    /\ th["hangup"].pc \in {"idle", "ship", "teardown"}
    /\ th["timer"].pc \in {"idle", "fail", "ship", "teardown"}
    /\ th["reader"].pc \in {"idle", "stop", "move", "claim", "spawn", "accept", "failans",
                            "ship", "teardown"}

\* What a goroutine at its place knows of the row.
RowKnown ==
    /\ row.status # "ringing"
    /\ row.status = "none" => row.ans = None
    /\ th["start"].pc \in {"new", "put"} => row.status = "none"
    /\ th["start"].pc \in {"offer", "skip", "arm", "fail"} => row.status # "none"
    /\ th["start"].pc = "teardown" => row.status \in Terminal \union {"none"} \/ "unsent" \in trouble
    /\ \A t \in {"hangup", "timer"} : th[t].pc \in {"ship", "teardown"} => row.status \in Terminal
    /\ th["reader"].pc # "idle" => th["reader"].dev \in Devices
    /\ th["reader"].pc \in {"spawn", "accept", "failans"} =>
          row.ans = th["reader"].dev /\ row.status \in Terminal \union {"offered"}
    /\ th["reader"].pc \in {"ship", "teardown"} =>
          row.status \in Terminal \/ (row.status = "offered" /\ row.ans # None)
    /\ th["reader"].pc \in {"stop", "move", "claim"} => row.status # "none"

\* The troubles that led to a place.
TroubleKnown ==
    /\ th["start"].pc = "fail" => "unsent" \in trouble
    /\ th["reader"].pc = "failans" => "callerwrite" \in trouble \/ "unspawned" \in trouble
    /\ rearmed > 0 => "callerwrite" \in trouble

\* Somebody will end an offer: the timer, or a goroutine on its way.
Excused == "callerwrite" \in trouble /\ ("unsent" \in trouble \/ "unspawned" \in trouble)

OfferWatched ==
    row.status = "offered" =>
        \/ Excused
        \/ row.ans = None /\ (timer \/ th["start"].pc \in {"offer", "skip", "arm", "fail"}
                              \/ th["timer"].pc = "fail")
        \/ row.ans # None /\ th["reader"].pc \in {"spawn", "accept", "failans"}

\* Streamers of a call that is not live have somebody who takes them down, and
\* a call about to be accepted has them both.
TearsDown ==
    \/ \E t \in Threads : th[t].pc \in {"teardown", "ship"}
    \/ th["reader"].pc = "accept"

LegsKnown ==
    "unsent" \in trouble \/
        /\ row.status = "none" /\ th["start"].pc \notin {"put", "teardown"} => legs = {}
        /\ th["start"].pc = "put" => "sender" \in legs
        /\ row.status \in Terminal => legs = {} \/ TearsDown
        /\ row.status = "offered" /\ (row.ans = None \/ th["reader"].pc \in {"spawn", "accept"})
              => "sender" \in legs
        /\ row.status = "offered" /\ th["reader"].pc = "accept" => "receiver" \in legs
        /\ row.status = "accepted" => legs = Legs

CallerInv == Places /\ RowKnown /\ TroubleKnown /\ OfferWatched /\ LegsKnown

-----------------------------------------------------------------------------
(* A called device *)

Pending(d) == hang[d] # "idle" \/ creader[d] = "teardown" \/ ring[d] = "teardown"

DeviceInv(d) ==
    /\ crow[d] # "offered"
    /\ crow[d] = "ringing" => ring[d] \in {"armed", "firing"}
    /\ Pending(d) => crow[d] \in Terminal
    /\ answer[d] = "ship" => crow[d] \in Terminal \union {"accepted"}
    /\ answer[d] # "idle" => crow[d] # "none"
    /\ "unsent" \in trouble \/
          /\ answer[d] # "unsent"
          /\ answer[d] \in {"sender", "receiver", "move", "undo", "fail"} =>
                crow[d] \in Terminal \union {"ringing"}
          /\ crow[d] = "accepted" => clegs[d] = Legs
          /\ crow[d] = "none" => clegs[d] = {}
          /\ crow[d] = "ringing" /\ answer[d] \in {"idle", "sender", "fail"} => clegs[d] = {}
          /\ crow[d] = "ringing" /\ answer[d] = "receiver" => clegs[d] = {"sender"}
          /\ crow[d] = "ringing" /\ answer[d] = "move" => clegs[d] = Legs
          /\ crow[d] \in Terminal =>
                clegs[d] = {} \/ Pending(d) \/ answer[d] \in {"receiver", "move", "undo"}

CalleeInv == \A d \in Devices : DeviceInv(d)

-----------------------------------------------------------------------------
(* Between them *)

In(m, s) == \E i \in 1 .. Len(s) : s[i] = m

\* No device is asked before the row is there.
NoneAsked == row.status = "none" => \A d \in Devices : crow[d] = "none" /\ ~In("offer", toDev[d])

\* An answer or a farewell under way says what the device's row says.
Reads(d, K) == th["reader"].pc # "idle" /\ th["reader"].dev = d /\ th["reader"].kind \in K

SaysSo(d) ==
    /\ In("accept", toCaller[d]) \/ Reads(d, {"accept"}) \/ row.ans = d
          => crow[d] \in Terminal \union {"accepted"}
    /\ In("reject", toCaller[d]) \/ In("end", toCaller[d]) \/ Reads(d, {"reject", "end"})
          => crow[d] \in Terminal
    /\ th["reader"].pc \in {"stop", "move"} => th["reader"].kind \in {"reject", "end"}
                                              /\ row.ans \in {None, th["reader"].dev}
    /\ th["reader"].pc \in {"claim", "spawn", "accept", "failans"} => th["reader"].kind = "accept"

\* A device in an accepted call has it, or its answer or an end is under way, or
\* a restart of the caller lost its answer.
AnswerHeard(d) ==
    crow[d] = "accepted" =>
        \/ row.ans = d
        \/ answer[d] = "ship" \/ In("accept", toCaller[d])
        \/ th["reader"].pc = "claim" /\ th["reader"].dev = d
        \/ In("end", toDev[d])
        \/ d \in lost /\ Restarted
        \/ Silenced

\* The device that has a call which is over is told, or is being told.
EndTold(d) ==
    crow[d] = "accepted" /\ row.ans = d =>
        \/ row.status = "accepted"
        \/ row.status = "offered" /\ th["reader"].pc \in {"spawn", "accept", "failans"}
        \/ \E t \in {"hangup", "timer", "reader"} : th[t].pc = "ship" /\ d \in th[t].devs
        \/ In("end", toDev[d])
        \/ Silenced \/ Restarted

TalkInv == NoneAsked /\ \A d \in Devices : SaysSo(d) /\ AnswerHeard(d) /\ EndTold(d)

CallInv == TypeOK /\ CallerInv /\ CalleeInv /\ TalkInv
-----------------------------------------------------------------------------
(* Goroutines of the caller *)

Place == {"new", "idle", "put", "offer", "skip", "arm", "fail", "ship", "teardown", "stop", "move",
          "claim", "spawn", "accept", "failans"}

\* Only t moves.
Others(t) == \A u \in Threads : u # t => th'[u] = th[u]

\* What Thread says, with the places named.
LEMMA ThreadIs ==
    Thread = [pc : Place, devs : SUBSET Devices, kind : {"accept", "reject", "end"},
              dev : Devices \union {None}]
BY DEF Thread, Place

\* A goroutine is set to a new record, and the others stay where they are.
LEMMA SetFacts ==
    ASSUME TypeOK, NEW t \in Threads, NEW r \in Thread, th' = [th EXCEPT ![t] = r]
    PROVE  th' \in [Threads -> Thread] /\ th'[t] = r /\ Others(t)
BY DEF TypeOK, Others

\* A goroutine goes on and keeps what it carries.
LEMMA GoFacts ==
    ASSUME TypeOK, NEW t \in Threads, NEW p \in Place, Go(t, p)
    PROVE  /\ th' \in [Threads -> Thread]
           /\ th'[t].pc = p /\ th'[t].devs = th[t].devs
           /\ th'[t].kind = th[t].kind /\ th'[t].dev = th[t].dev
           /\ Others(t)
<1> DEFINE r == [th[t] EXCEPT !.pc = p]
<1>1. th[t] \in Thread
  BY DEF TypeOK
<1>2. r \in Thread /\ r.pc = p /\ r.devs = th[t].devs /\ r.kind = th[t].kind /\ r.dev = th[t].dev
  BY <1>1, ThreadIs
<1>3. th' = [th EXCEPT ![t] = r]
  BY DEF Go
<1> HIDE DEF r
<1>4. QED
  BY <1>2, <1>3, SetFacts

\* The record of a goroutine with nothing to do.
LEMMA IdleFacts == Idle \in Thread /\ Idle.pc = "idle" /\ Idle.dev = None /\ Idle.kind = "end"
BY DEF Idle, Thread

\* A goroutine is done.
LEMMA ReturnFacts ==
    ASSUME TypeOK, NEW t \in Threads, Return(t)
    PROVE  /\ th' \in [Threads -> Thread] /\ th'[t] = Idle /\ th'[t].pc = "idle"
           /\ Others(t)
BY IdleFacts, SetFacts DEF Return

\* What a step meets is new to it and stays met.
LEMMA MeetFacts ==
    ASSUME TypeOK, NEW K \in SUBSET Kinds, Meet(K)
    PROVE  /\ trouble \subseteq trouble' /\ K \subseteq trouble' /\ K \intersect trouble = {}
           /\ trouble' \subseteq Kinds /\ Cardinality(trouble') <= MaxTrouble
BY DEF Meet, TypeOK

\* What a send to several devices meets when it does not reach them all.
LEMMA UnsentFacts ==
    ASSUME NEW S, NEW ok
    PROVE  Unsent(S, ok) \in SUBSET Kinds /\ (ok # S => "unsent" \in Unsent(S, ok))
           /\ (ok = S => Unsent(S, ok) = {})
BY DEF Unsent, Kinds

\* A goroutine goes on with other devices to send to.
LEMMA SendFacts ==
    ASSUME TypeOK, NEW t \in Threads, NEW p \in Place, NEW S \in SUBSET Devices,
           th' = [th EXCEPT ![t] = [@ EXCEPT !.pc = p, !.devs = S]]
    PROVE  /\ th' \in [Threads -> Thread]
           /\ th'[t].pc = p /\ th'[t].devs = S
           /\ th'[t].kind = th[t].kind /\ th'[t].dev = th[t].dev
           /\ Others(t)
<1> DEFINE r == [th[t] EXCEPT !.pc = p, !.devs = S]
<1>1. th[t] \in Thread
  BY DEF TypeOK
<1>2. r \in Thread /\ r.pc = p /\ r.devs = S /\ r.kind = th[t].kind /\ r.dev = th[t].dev
  BY <1>1, ThreadIs
<1>3. th' = [th EXCEPT ![t] = r]
  OBVIOUS
<1> HIDE DEF r
<1>4. QED
  BY <1>2, <1>3, SetFacts

\* A row names devices of the contact only.
CallRow == [status : Status, ans : Devices \union {None}, stopped : SUBSET Devices]

LEMMA RecipientsType ==
    ASSUME NEW r \in CallRow
    PROVE  Recipients(r) \in SUBSET Devices /\ (r.ans # None => Recipients(r) = {r.ans})
BY DEF CallRow, Recipients, Ringing, RingingExcept

-----------------------------------------------------------------------------
(* Messages under way *)

Out == {"offer", "end"}
Back == {"accept", "reject", "end"}

\* What is at the end of a sequence after Append.
LEMMA InAppend ==
    ASSUME NEW S, NEW s \in Seq(S), NEW x \in S, NEW m
    PROVE  Append(s, x) \in Seq(S) /\ (In(m, Append(s, x)) <=> In(m, s) \/ m = x)
<1>1. /\ Append(s, x) \in Seq(S) /\ Len(Append(s, x)) = Len(s) + 1 /\ Len(s) \in Nat
      /\ \A i \in 1 .. Len(s) : Append(s, x)[i] = s[i]
      /\ Append(s, x)[Len(s) + 1] = x
  OBVIOUS
<1>2. QED
  BY <1>1 DEF In

\* What is in a sequence with one place removed.
LEMMA InRemove ==
    ASSUME NEW S, NEW s \in Seq(S), NEW i \in 1 .. Len(s), NEW m
    PROVE  /\ RemoveAt(s, i) \in Seq(S)
           /\ In(m, RemoveAt(s, i)) => In(m, s)
           /\ In(m, s) /\ m # s[i] => In(m, RemoveAt(s, i))
<1> DEFINE a == SubSeq(s, 1, i - 1)
           b == SubSeq(s, i + 1, Len(s))
<1>1. a \in Seq(S) /\ Len(a) = i - 1 /\ \A j \in 1 .. i - 1 : a[j] = s[j]
  BY SubSeqProperties
<1>2. b \in Seq(S) /\ Len(b) = Len(s) - i /\ \A j \in 1 .. Len(s) - i : b[j] = s[i + j]
  BY SubSeqProperties
<1>3. RemoveAt(s, i) = a \o b
  BY DEF RemoveAt
<1> HIDE DEF a, b
<1>4. /\ a \o b \in Seq(S) /\ Len(a \o b) = Len(a) + Len(b)
      /\ \A j \in 1 .. Len(a) + Len(b) : (a \o b)[j] = IF j <= Len(a) THEN a[j] ELSE b[j - Len(a)]
  BY <1>1, <1>2, ConcatProperties
<1>5. ASSUME NEW j \in 1 .. Len(s) - 1
      PROVE  \E k \in 1 .. Len(s) : (a \o b)[j] = s[k]
  <2>1. CASE j < i
    BY <1>1, <1>2, <1>4, <2>1
  <2>2. CASE ~(j < i)
    <3>1. PICK k \in 1 .. Len(s) - i : k = j - Len(a)
      BY <1>1, <2>2
    <3>2. j \in 1 .. Len(a) + Len(b) /\ ~(j <= Len(a))
      BY <1>1, <1>2, <2>2
    <3>3. (a \o b)[j] = b[k]
      BY <1>4, <3>1, <3>2
    <3>4. b[k] = s[i + k]
      BY <1>2, <3>1
    <3>5. i + k \in 1 .. Len(s)
      BY <3>1
    <3>6. QED
      BY <3>3, <3>4, <3>5
  <2>3. QED
    BY <2>1, <2>2
<1>6. ASSUME NEW k \in 1 .. Len(s), k # i
      PROVE  \E j \in 1 .. Len(s) - 1 : (a \o b)[j] = s[k]
  <2>1. CASE k < i
    <3>1. k \in 1 .. i - 1 /\ k \in 1 .. Len(s) - 1 /\ k \in 1 .. Len(a) + Len(b) /\ k <= Len(a)
      BY <1>1, <1>2, <2>1
    <3>2. (a \o b)[k] = a[k] /\ a[k] = s[k]
      BY <1>1, <1>4, <3>1
    <3>3. QED
      BY <3>1, <3>2
  <2>2. CASE k > i
    <3>1. PICK l \in 1 .. Len(s) - i : l = k - i
      BY <2>2
    <3>2. /\ Len(a) + l \in 1 .. Len(a) + Len(b) /\ ~(Len(a) + l <= Len(a))
          /\ Len(a) + l - Len(a) = l /\ Len(a) + l \in 1 .. Len(s) - 1
      BY <1>1, <1>2, <3>1
    <3>3. (a \o b)[Len(a) + l] = b[l] /\ b[l] = s[i + l] /\ i + l = k
      BY <1>2, <1>4, <3>1, <3>2
    <3>4. QED
      BY <3>2, <3>3
  <2>3. k < i \/ k > i
    BY <1>6
  <2>4. QED
    BY <2>1, <2>2, <2>3
<1>7. Len(a \o b) = Len(s) - 1
  BY <1>1, <1>2, <1>4
<1>8. In(m, a \o b) => In(m, s)
  BY <1>5, <1>7 DEF In
<1>9. In(m, s) /\ m # s[i] => In(m, a \o b)
  <2>1. SUFFICES ASSUME NEW k \in 1 .. Len(s), s[k] = m, m # s[i] PROVE In(m, a \o b)
    BY DEF In
  <2>2. k # i
    BY <2>1
  <2>3. QED
    BY <1>6, <1>7, <2>1, <2>2 DEF In
<1>10. QED
  BY <1>3, <1>4, <1>8, <1>9

\* A message leaves for the devices of S; nothing else changes on the way out.
LEMMA ShipFacts ==
    ASSUME TypeOK, NEW S, NEW kind \in Out, Ship(S, kind)
    PROVE  /\ toDev' \in [Devices -> Seq(Out)]
           /\ \A d \in Devices : d \in S => In(kind, toDev'[d])
           /\ \A d \in Devices : \A m : In(m, toDev[d]) => In(m, toDev'[d])
           /\ \A d \in Devices : \A m : In(m, toDev'[d]) => In(m, toDev[d]) \/ m = kind
<1>1. \A d \in Devices : toDev[d] \in Seq(Out)
  BY DEF TypeOK, Out
<1>2. toDev' = [d \in Devices |-> IF d \in S THEN Append(toDev[d], kind) ELSE toDev[d]]
  BY DEF Ship
<1>3. ASSUME NEW d \in Devices
      PROVE  /\ toDev'[d] \in Seq(Out)
             /\ d \in S => In(kind, toDev'[d])
             /\ \A m : In(m, toDev[d]) => In(m, toDev'[d])
             /\ \A m : In(m, toDev'[d]) => In(m, toDev[d]) \/ m = kind
  <2>1. CASE d \in S
    <3>1. toDev'[d] = Append(toDev[d], kind)
      BY <1>2, <2>1
    <3>2. QED
      BY <1>1, <3>1, InAppend
  <2>2. CASE d \notin S
    <3>1. toDev'[d] = toDev[d]
      BY <1>2, <2>2
    <3>2. QED
      BY <1>1, <2>2, <3>1
  <2>3. QED
    BY <2>1, <2>2
<1>4. QED
  BY <1>2, <1>3

\* endCallOnDevices: each device is sent the end, or the step met "unsent".
LEMMA EndFacts ==
    ASSUME TypeOK, NEW S, NEW K \in SUBSET Kinds, End(S, K)
    PROVE  /\ toDev' \in [Devices -> Seq(Out)]
           /\ \A d \in Devices : d \in S => In("end", toDev'[d]) \/ "unsent" \in trouble'
           /\ \A d \in Devices : \A m : In(m, toDev[d]) => In(m, toDev'[d])
           /\ \A d \in Devices : \A m : In(m, toDev'[d]) => In(m, toDev[d]) \/ m = "end"
           /\ trouble \subseteq trouble' /\ K \subseteq trouble' /\ K \intersect trouble = {}
           /\ trouble' \subseteq Kinds /\ Cardinality(trouble') <= MaxTrouble
<1>1. PICK ok \in SUBSET S : Ship(ok, "end") /\ Meet(Unsent(S, ok) \union K)
  BY DEF End
<1>2. Unsent(S, ok) \union K \in SUBSET Kinds /\ (ok # S => "unsent" \in Unsent(S, ok))
  BY UnsentFacts
<1>3. /\ trouble \subseteq trouble' /\ Unsent(S, ok) \union K \subseteq trouble'
      /\ (Unsent(S, ok) \union K) \intersect trouble = {}
      /\ trouble' \subseteq Kinds /\ Cardinality(trouble') <= MaxTrouble
  BY <1>1, <1>2, MeetFacts
<1>4. "end" \in Out
  BY DEF Out
<1>5. QED
  BY <1>1, <1>2, <1>3, <1>4, ShipFacts

\* The troubles met stay met and are bounded.
Troubles == trouble \subseteq trouble' /\ trouble' \subseteq Kinds /\ Cardinality(trouble') <= MaxTrouble

\* The caller's reader is handed a message.
LEMMA FromDevFacts ==
    ASSUME TypeOK, NEW d \in Devices, NEW i \in DOMAIN toCaller[d], FromDev(d, i)
    PROVE  /\ toCaller' \in [Devices -> Seq(Back)]
           /\ \A c \in Devices : \A m : In(m, toCaller'[c]) => In(m, toCaller[c])
           /\ \A c \in Devices : \A m : In(m, toCaller[c]) /\ m # toCaller[d][i] => In(m, toCaller'[c])
           /\ \A c \in Devices : \A m : In(m, toCaller[c]) /\ c # d => In(m, toCaller'[c])
           /\ In(toCaller[d][i], toCaller[d])
           /\ Troubles
<1>1. toCaller \in [Devices -> Seq(Back)]
  BY DEF TypeOK, Back
<1>2. /\ toCaller' = [toCaller EXCEPT ![d] = RemoveAt(@, i)]
      /\ Meet({k \in {"reorder"} : i # 1})
  BY DEF FromDev
<1>3. {k \in {"reorder"} : i # 1} \in SUBSET Kinds
  BY DEF Kinds
<1>4. Troubles
  BY <1>2, <1>3, MeetFacts DEF Troubles
<1>5. toCaller[d] \in Seq(Back) /\ i \in 1 .. Len(toCaller[d])
  BY <1>1
<1>6. In(toCaller[d][i], toCaller[d])
  BY <1>5 DEF In
<1>7. QED
  <2>1. /\ RemoveAt(toCaller[d], i) \in Seq(Back)
        /\ \A m : In(m, RemoveAt(toCaller[d], i)) => In(m, toCaller[d])
        /\ \A m : In(m, toCaller[d]) /\ m # toCaller[d][i] => In(m, RemoveAt(toCaller[d], i))
    BY <1>5, InRemove
  <2>2. toCaller'[d] = RemoveAt(toCaller[d], i) /\ \A c \in Devices : c # d => toCaller'[c] = toCaller[c]
    BY <1>1, <1>2
  <2>3. toCaller' \in [Devices -> Seq(Back)]
    BY <1>1, <1>2, <2>1
  <2>4. QED
    BY <1>4, <1>6, <2>1, <2>2, <2>3

\* A called device's reader is handed a message.
LEMMA FromCallerFacts ==
    ASSUME TypeOK, NEW d \in Devices, NEW i \in DOMAIN toDev[d], NEW K \in SUBSET Kinds,
           FromCaller(d, i, K)
    PROVE  /\ toDev' \in [Devices -> Seq(Out)]
           /\ \A c \in Devices : \A m : In(m, toDev'[c]) => In(m, toDev[c])
           /\ \A c \in Devices : \A m : In(m, toDev[c]) /\ m # toDev[d][i] => In(m, toDev'[c])
           /\ \A c \in Devices : \A m : In(m, toDev[c]) /\ c # d => In(m, toDev'[c])
           /\ In(toDev[d][i], toDev[d])
           /\ Troubles /\ K \subseteq trouble'
<1>1. toDev \in [Devices -> Seq(Out)]
  BY DEF TypeOK, Out
<1>2. /\ toDev' = [toDev EXCEPT ![d] = RemoveAt(@, i)]
      /\ Meet(K \union {k \in {"reorder"} : i # 1})
  BY DEF FromCaller
<1>3. K \union {k \in {"reorder"} : i # 1} \in SUBSET Kinds
  BY DEF Kinds
<1>4. Troubles /\ K \subseteq trouble'
  BY <1>2, <1>3, MeetFacts DEF Troubles
<1>5. toDev[d] \in Seq(Out) /\ i \in 1 .. Len(toDev[d])
  BY <1>1
<1>6. In(toDev[d][i], toDev[d])
  BY <1>5 DEF In
<1>7. QED
  <2>1. /\ RemoveAt(toDev[d], i) \in Seq(Out)
        /\ \A m : In(m, RemoveAt(toDev[d], i)) => In(m, toDev[d])
        /\ \A m : In(m, toDev[d]) /\ m # toDev[d][i] => In(m, RemoveAt(toDev[d], i))
    BY <1>5, InRemove
  <2>2. toDev'[d] = RemoveAt(toDev[d], i) /\ \A c \in Devices : c # d => toDev'[c] = toDev[c]
    BY <1>1, <1>2
  <2>3. toDev' \in [Devices -> Seq(Out)]
    BY <1>1, <1>2, <2>1
  <2>4. QED
    BY <1>4, <1>6, <2>1, <2>2, <2>3

\* The reader takes up an end or a reject, unless the row knows better.
LEMMA RecvOverFacts ==
    ASSUME TypeOK, NEW d \in Devices, RecvOver(d)
    PROVE  /\ toCaller' \in [Devices -> Seq(Back)]
           /\ \A c \in Devices : \A m : In(m, toCaller'[c]) => In(m, toCaller[c])
           /\ \A c \in Devices : In("accept", toCaller[c]) => In("accept", toCaller'[c])
           /\ Troubles
           /\ th["reader"].pc = "idle"
           /\ th' \in [Threads -> Thread] /\ Others("reader")
           /\ \/ th' = th
              \/ /\ row.status # "none" /\ row.ans \in {None, d}
                 /\ th'["reader"].pc \in {"stop", "move"} /\ th'["reader"].dev = d
                 /\ th'["reader"].kind \in {"reject", "end"} /\ In(th'["reader"].kind, toCaller[d])
           /\ UNCHANGED <<row, legs, timer, rearmed, calleeVars, lost, toDev>>
<1>1. PICK i \in DOMAIN toCaller[d] :
        /\ toCaller[d][i] \in {"reject", "end"}
        /\ FromDev(d, i)
        /\ IF row.status = "none" \/ row.ans \notin {None, d}
           THEN UNCHANGED th
           ELSE th' = [th EXCEPT !["reader"] =
                   [pc |-> IF Unanswered(row) /\ toCaller[d][i] = "end" THEN "stop" ELSE "move",
                    devs |-> IF row.ans = None /\ toCaller[d][i] = "reject" THEN RingingExcept(row, d) ELSE {},
                    kind |-> toCaller[d][i], dev |-> d]]
  BY DEF RecvOver
<1>2. /\ UNCHANGED <<row, legs, timer, rearmed, calleeVars, lost, toDev>> /\ th["reader"].pc = "idle"
      /\ th \in [Threads -> Thread] /\ "reader" \in Threads
  BY DEF RecvOver, At, TypeOK, Threads
<1>3. /\ toCaller' \in [Devices -> Seq(Back)] /\ Troubles /\ In(toCaller[d][i], toCaller[d])
      /\ \A c \in Devices : \A m : In(m, toCaller'[c]) => In(m, toCaller[c])
      /\ \A c \in Devices : In("accept", toCaller[c]) => In("accept", toCaller'[c])
  BY <1>1, FromDevFacts
<1>4. CASE row.status = "none" \/ row.ans \notin {None, d}
  BY <1>1, <1>2, <1>3, <1>4 DEF Others
<1>5. CASE row.status # "none" /\ row.ans \in {None, d}
  <2> DEFINE k == toCaller[d][i]
             p == IF Unanswered(row) /\ k = "end" THEN "stop" ELSE "move"
             D == IF row.ans = None /\ k = "reject" THEN RingingExcept(row, d) ELSE {}
             r == [pc |-> p, devs |-> D, kind |-> k, dev |-> d]
  <2>1. D \in SUBSET Devices /\ p \in {"stop", "move"} /\ k \in {"reject", "end"}
    BY <1>1 DEF RingingExcept
  <2>2. th' = [th EXCEPT !["reader"] = r]
    BY <1>1, <1>5
  <2> HIDE DEF D, p, k
  <2>3. r \in Thread /\ r.pc = p /\ r.kind = k /\ r.dev = d
    BY <2>1, ThreadIs DEF Place
  <2> HIDE DEF r
  <2>4. th' \in [Threads -> Thread] /\ th'["reader"] = r /\ Others("reader")
    BY <1>2, <2>2, <2>3, SetFacts
  <2>5. In(k, toCaller[d])
    BY <1>3 DEF k
  <2>6. QED
    BY <1>2, <1>3, <1>5, <2>1, <2>3, <2>4, <2>5
<1>6. QED
  BY <1>4, <1>5

\* The reader takes up an answer.
LEMMA RecvAcceptFacts ==
    ASSUME TypeOK, NEW d \in Devices, RecvAccept(d)
    PROVE  /\ toCaller' \in [Devices -> Seq(Back)]
           /\ \A c \in Devices : \A m : In(m, toCaller'[c]) => In(m, toCaller[c])
           /\ \A c \in Devices : In("accept", toCaller[c]) /\ c # d => In("accept", toCaller'[c])
           /\ In("accept", toCaller[d])
           /\ Troubles
           /\ th["reader"].pc = "idle"
           /\ th' \in [Threads -> Thread] /\ Others("reader")
           /\ \/ row.status = "none" /\ th' = th
              \/ /\ row.status # "none"
                 /\ th'["reader"].pc = "claim" /\ th'["reader"].dev = d /\ th'["reader"].kind = "accept"
           /\ UNCHANGED <<row, legs, timer, rearmed, calleeVars, lost, toDev>>
<1> DEFINE r == [Idle EXCEPT !.pc = "claim", !.dev = d, !.kind = "accept"]
<1>1. PICK i \in DOMAIN toCaller[d] :
        /\ toCaller[d][i] = "accept"
        /\ FromDev(d, i)
        /\ IF row.status = "none" THEN UNCHANGED th ELSE th' = [th EXCEPT !["reader"] = r]
  BY DEF RecvAccept
<1>2. /\ UNCHANGED <<row, legs, timer, rearmed, calleeVars, lost, toDev>> /\ th["reader"].pc = "idle"
      /\ th \in [Threads -> Thread] /\ "reader" \in Threads
  BY DEF RecvAccept, At, TypeOK, Threads
<1>3. /\ toCaller' \in [Devices -> Seq(Back)] /\ Troubles /\ In("accept", toCaller[d])
      /\ \A c \in Devices : \A m : In(m, toCaller'[c]) => In(m, toCaller[c])
      /\ \A c \in Devices : In("accept", toCaller[c]) /\ c # d => In("accept", toCaller'[c])
  BY <1>1, FromDevFacts
<1>4. r \in Thread /\ r.pc = "claim" /\ r.dev = d /\ r.kind = "accept"
  BY ThreadIs DEF Idle, Place
<1> HIDE DEF r
<1>5. CASE row.status = "none"
  BY <1>1, <1>2, <1>3, <1>5 DEF Others
<1>6. CASE row.status # "none"
  <2>1. th' \in [Threads -> Thread] /\ th'["reader"] = r /\ Others("reader")
    BY <1>1, <1>2, <1>4, <1>6, SetFacts
  <2>2. QED
    BY <1>2, <1>3, <1>4, <1>6, <2>1
<1>7. QED
  BY <1>5, <1>6

\* handleStartCall: the sender leg comes first.
LEMMA StartSpawnCaller ==
    ASSUME TypeOK, CallerInv, StartSpawn
    PROVE  CallerInv'
<1>0. /\ row \in CallRow
      /\ legs \subseteq Legs /\ CallerInv
  BY DEF TypeOK, CallRow
<1>1. ASSUME At("start", "new"),
             legs' = {"sender"},
             Go("start", "put"),
             UNCHANGED trouble,
             UNCHANGED <<row, timer, rearmed>>
      PROVE  CallerInv'
  <2>1. th'["start"].pc = "put" /\ th'["start"].dev = th["start"].dev /\ Others("start")
    BY <1>1, GoFacts DEF Threads, Place
  <2>2. th["start"].pc = "new" /\ trouble \subseteq trouble'
    BY <1>0, <1>1 DEF CallRow, At
  <2>3. QED
    BY <1>0, <1>1, <2>1, <2>2 DEF CallerInv, Places, RowKnown, TroubleKnown, OfferWatched,
       Excused, LegsKnown, TearsDown, Others, Threads, Terminal
<1>2. ASSUME At("start", "new"),
             Meet({"unspawned"}),
             Return("start"),
             UNCHANGED legs,
             UNCHANGED <<row, timer, rearmed>>
      PROVE  CallerInv'
  <2>1. th'["start"].pc = "idle" /\ Others("start")
    BY <1>2, ReturnFacts DEF Threads
  <2>2. th["start"].pc = "new" /\ trouble \subseteq trouble'
    BY <1>0, <1>2, MeetFacts DEF CallRow, Kinds, At
  <2>3. QED
    BY <1>0, <1>2, <2>1, <2>2 DEF CallerInv, Places, RowKnown, TroubleKnown, OfferWatched,
       Excused, LegsKnown, TearsDown, Others, Threads, Terminal
<1>3. QED
  BY <1>1, <1>2 DEF StartSpawn

\* The row is stored, or the streamer is taken down again.
LEMMA StartPutCaller ==
    ASSUME TypeOK, CallerInv, StartPut
    PROVE  CallerInv'
<1>0. /\ row \in CallRow
      /\ legs \subseteq Legs /\ CallerInv
  BY DEF TypeOK, CallRow
<1>1. ASSUME At("start", "put"),
             row' = [row EXCEPT !.status = "offered"],
             Go("start", "offer"),
             UNCHANGED <<trouble, legs, timer, rearmed>>
      PROVE  CallerInv'
  <2>1. th'["start"].pc = "offer" /\ th'["start"].dev = th["start"].dev /\ Others("start")
    BY <1>1, GoFacts DEF Threads, Place
  <2>2. /\ th["start"].pc = "put" /\ trouble \subseteq trouble'
        /\ row'.status = "offered" /\ row'.ans = row.ans
    BY <1>0, <1>1 DEF CallRow, At
  <2>3. QED
    BY <1>0, <1>1, <2>1, <2>2 DEF CallerInv, Places, RowKnown, TroubleKnown, OfferWatched,
       Excused, LegsKnown, TearsDown, Others, Threads, Terminal
<1>2. ASSUME At("start", "put"),
             CallerFault,
             Go("start", "teardown"),
             UNCHANGED <<legs, timer, rearmed>>
      PROVE  CallerInv'
  <2>1. th'["start"].pc = "teardown" /\ th'["start"].dev = th["start"].dev /\ Others("start")
    BY <1>2, GoFacts DEF Threads, Place
  <2>2. /\ th["start"].pc = "put" /\ trouble \subseteq trouble'
        /\ row' = row
    BY <1>0, <1>2, MeetFacts DEF CallRow, Kinds, At, CallerFault
  <2>3. QED
    BY <1>0, <1>2, <2>1, <2>2 DEF CallerInv, Places, RowKnown, TroubleKnown, OfferWatched,
       Excused, LegsKnown, TearsDown, Others, Threads, Terminal
<1>3. QED
  BY <1>1, <1>2 DEF StartPut

\* Dispatch: the handler fails the call only if it reached nobody, which is
\* trouble as there is somebody.
LEMMA StartOfferCaller ==
    ASSUME TypeOK, CallerInv, StartOffer
    PROVE  CallerInv'
<1>1. PICK ok \in SUBSET Devices :
          /\ Meet(Unsent(Devices, ok))
          /\ th' = [th EXCEPT !["start"] = [@ EXCEPT
                      !.pc = IF ok = {} THEN "fail" ELSE IF ok = Devices THEN "arm" ELSE "skip",
                      !.devs = Devices \ ok]]
  BY DEF StartOffer
<1> DEFINE p == IF ok = {} THEN "fail" ELSE IF ok = Devices THEN "arm" ELSE "skip"
<1>2. p \in Place /\ p \in {"fail", "arm", "skip"} /\ (p = "fail" => ok # Devices)
  BY CallsAssumption DEF Place
<1>3. /\ th' = [th EXCEPT !["start"] = [@ EXCEPT !.pc = p, !.devs = Devices \ ok]]
      /\ Devices \ ok \in SUBSET Devices
  BY <1>1
<1> HIDE DEF p
<1>4. th'["start"].pc = p /\ Others("start")
  BY <1>2, <1>3, SendFacts DEF Threads
<1>5. /\ th["start"].pc = "offer" /\ trouble \subseteq trouble'
      /\ ok # Devices => "unsent" \in trouble'
  BY <1>1, MeetFacts, UnsentFacts DEF At, StartOffer
<1>6. UNCHANGED <<row, legs, timer, rearmed>>
  BY DEF StartOffer
<1>7. QED
  BY <1>2, <1>4, <1>5, <1>6 DEF CallerInv, Places, RowKnown, TroubleKnown, OfferWatched, Excused,
     LegsKnown, TearsDown, Others, Threads, Terminal

\* Transition to failed: it moves the row, or is refused, or cannot be
\* written.
LEMMA StartFailCaller ==
    ASSUME TypeOK, CallerInv, StartFail
    PROVE  CallerInv'
<1>0. /\ row \in CallRow
      /\ legs \subseteq Legs /\ CallerInv
  BY DEF TypeOK, CallRow
<1>1. ASSUME At("start", "fail"),
             Transition("failed"),
             Go("start", "teardown"),
             UNCHANGED <<legs, rearmed>>
      PROVE  CallerInv'
  <2>1. th'["start"].pc = "teardown" /\ th'["start"].dev = th["start"].dev /\ Others("start")
    BY <1>1, GoFacts DEF Threads, Place
  <2>2. /\ th["start"].pc = "fail" /\ trouble \subseteq trouble'
        /\ row'.status = "failed" /\ row'.ans = row.ans /\ row.status \in {"offered", "ringing", "accepted"}
    BY <1>0, <1>1, MeetFacts DEF CallRow, Kinds, At, Transition, LegalTransition, CallerFault,
       Terminal
  <2>3. QED
    BY <1>0, <1>1, <2>1, <2>2 DEF CallerInv, Places, RowKnown, TroubleKnown, OfferWatched,
       Excused, LegsKnown, TearsDown, Others, Threads, Terminal
<1>2. ASSUME At("start", "fail"),
             ~LegalTransition(row.status, "failed"),
             UNCHANGED <<row, timer, trouble>>,
             Go("start", "teardown"),
             UNCHANGED <<legs, rearmed>>
      PROVE  CallerInv'
  <2>1. th'["start"].pc = "teardown" /\ th'["start"].dev = th["start"].dev /\ Others("start")
    BY <1>2, GoFacts DEF Threads, Place
  <2>2. th["start"].pc = "fail" /\ ~(row.status \in {"offered", "ringing", "accepted"})
    BY <1>0, <1>2, MeetFacts DEF CallRow, Kinds, At, Transition, LegalTransition, CallerFault,
       Terminal
  <2>3. QED
    BY <1>0, <1>2, <2>1, <2>2 DEF CallerInv, Places, RowKnown, TroubleKnown, OfferWatched,
       Excused, LegsKnown, TearsDown, Others, Threads, Terminal
<1>3. ASSUME At("start", "fail"),
             CallerFault,
             UNCHANGED timer,
             Go("start", "teardown"),
             UNCHANGED <<legs, rearmed>>
      PROVE  CallerInv'
  <2>1. th'["start"].pc = "teardown" /\ th'["start"].dev = th["start"].dev /\ Others("start")
    BY <1>3, GoFacts DEF Threads, Place
  <2>2. /\ th["start"].pc = "fail" /\ trouble \subseteq trouble'
        /\ row' = row /\ "callerwrite" \in trouble'
    BY <1>0, <1>3, MeetFacts DEF CallRow, Kinds, At, Transition, LegalTransition, CallerFault,
       Terminal
  <2>3. QED
    BY <1>0, <1>3, <2>1, <2>2 DEF CallerInv, Places, RowKnown, TroubleKnown, OfferWatched,
       Excused, LegsKnown, TearsDown, Others, Threads, Terminal
<1>4. QED
  BY <1>1, <1>2, <1>3 DEF StartFail

\* Devices the offer did not reach are marked as stopped.
LEMMA StartSkipCaller ==
    ASSUME TypeOK, CallerInv, StartSkip
    PROVE  CallerInv'
<1>0. /\ row \in CallRow
      /\ legs \subseteq Legs /\ CallerInv
  BY DEF TypeOK, CallRow
<1>1. ASSUME At("start", "skip"),
             row' = [row EXCEPT !.stopped = @ \union th["start"].devs] \/ UNCHANGED row,
             trouble \subseteq trouble',
             Go("start", "arm"),
             UNCHANGED <<legs, timer, rearmed>>
      PROVE  CallerInv'
  <2>1. th'["start"].pc = "arm" /\ th'["start"].dev = th["start"].dev /\ Others("start")
    BY <1>1, GoFacts DEF Threads, Place
  <2>2. /\ th["start"].pc = "skip"
        /\ row'.status = row.status /\ row'.ans = row.ans
    BY <1>0, <1>1 DEF CallRow, At
  <2>3. QED
    BY <1>0, <1>1, <2>1, <2>2 DEF CallerInv, Places, RowKnown, TroubleKnown, OfferWatched,
       Excused, LegsKnown, TearsDown, Others, Threads, Terminal
<1>2. QED
  BY <1>1, MeetFacts DEF StartSkip, CallerFault, Kinds

\* scheduleCallOfferTimeout.
LEMMA StartArmCaller ==
    ASSUME TypeOK, CallerInv, StartArm
    PROVE  CallerInv'
<1>0. /\ row \in CallRow
      /\ legs \subseteq Legs /\ CallerInv
  BY DEF TypeOK, CallRow
<1>1. ASSUME At("start", "arm"),
             timer' = TRUE,
             Return("start"),
             UNCHANGED <<row, legs, rearmed, trouble>>
      PROVE  CallerInv'
  <2>1. th'["start"].pc = "idle" /\ Others("start")
    BY <1>1, ReturnFacts DEF Threads
  <2>2. th["start"].pc = "arm"
    BY <1>0, <1>1 DEF CallRow, At
  <2>3. QED
    BY <1>0, <1>1, <2>1, <2>2 DEF CallerInv, Places, RowKnown, TroubleKnown, OfferWatched,
       Excused, LegsKnown, TearsDown, Others, Threads, Terminal
<1>2. QED
  BY <1>1 DEF StartArm

\* handleRespondCall on the caller: the end is sent before the teardown.
LEMMA HangUpCaller ==
    ASSUME TypeOK, CallerInv, HangUp
    PROVE  CallerInv'
<1>0. /\ row \in CallRow
      /\ legs \subseteq Legs /\ CallerInv
  BY DEF TypeOK, CallRow
<1>1. ASSUME At("hangup", "idle"),
             Transition("ended"),
             UNCHANGED <<legs, rearmed>>
      PROVE  CallerInv'
  <2>0. row' \in CallRow /\ Recipients(row') \in SUBSET Devices
    BY <1>0, <1>1, RecipientsType DEF Transition, CallRow, Status, Terminal
  <2>1. th'["hangup"].pc = "ship" /\ Others("hangup")
    BY <1>1, <2>0, SendFacts DEF HangUp, Threads, Place
  <2>2. /\ th["hangup"].pc = "idle" /\ trouble \subseteq trouble'
        /\ row'.status = "ended" /\ row'.ans = row.ans /\ row.status \in {"offered", "ringing", "accepted"}
    BY <1>0, <1>1, MeetFacts DEF CallRow, Kinds, At, Transition, LegalTransition, CallerFault,
       Terminal
  <2>3. QED
    BY <1>0, <1>1, <2>1, <2>2 DEF CallerInv, Places, RowKnown, TroubleKnown, OfferWatched,
       Excused, LegsKnown, TearsDown, Others, Threads, Terminal
<1>2. QED
  BY <1>1 DEF HangUp

\* A hang-up nobody could be told of goes without its teardown.
LEMMA HangUpShipCaller ==
    ASSUME TypeOK, CallerInv, HangUpShip
    PROVE  CallerInv'
<1>0. /\ row \in CallRow
      /\ legs \subseteq Legs /\ CallerInv
  BY DEF TypeOK, CallRow
<1>1. ASSUME At("hangup", "ship"),
             UNCHANGED <<row, legs, timer, rearmed>>,
             trouble \subseteq trouble',
             "unsent" \in trouble',
             Return("hangup")
      PROVE  CallerInv'
  <2>1. th'["hangup"].pc = "idle" /\ Others("hangup")
    BY <1>1, ReturnFacts DEF Threads
  <2>2. th["hangup"].pc = "ship"
    BY <1>0, <1>1 DEF CallRow, At
  <2>3. QED
    BY <1>0, <1>1, <2>1, <2>2 DEF CallerInv, Places, RowKnown, TroubleKnown, OfferWatched,
       Excused, LegsKnown, TearsDown, Others, Threads, Terminal
<1>2. ASSUME At("hangup", "ship"),
             UNCHANGED <<row, legs, timer, rearmed>>,
             trouble \subseteq trouble',
             Go("hangup", "teardown")
      PROVE  CallerInv'
  <2>1. th'["hangup"].pc = "teardown" /\ th'["hangup"].dev = th["hangup"].dev /\ Others("hangup")
    BY <1>2, GoFacts DEF Threads, Place
  <2>2. th["hangup"].pc = "ship"
    BY <1>0, <1>2 DEF CallRow, At
  <2>3. QED
    BY <1>0, <1>2, <2>1, <2>2 DEF CallerInv, Places, RowKnown, TroubleKnown, OfferWatched,
       Excused, LegsKnown, TearsDown, Others, Threads, Terminal
<1>3. QED
  BY <1>1, <1>2, MeetFacts, UnsentFacts DEF HangUpShip

\* armCallOfferTimer's callback takes an unanswered offer in hand.
LEMMA TimerFireCaller ==
    ASSUME TypeOK, CallerInv, TimerFire
    PROVE  CallerInv'
<1>0. /\ row \in CallRow
      /\ legs \subseteq Legs /\ CallerInv
  BY DEF TypeOK, CallRow
<1>1. ASSUME At("timer", "idle"),
             timer' = FALSE,
             Unanswered(row),
             Go("timer", "fail"),
             UNCHANGED <<row, legs, rearmed, trouble>>
      PROVE  CallerInv'
  <2>1. th'["timer"].pc = "fail" /\ th'["timer"].dev = th["timer"].dev /\ Others("timer")
    BY <1>1, GoFacts DEF Threads, Place
  <2>2. th["timer"].pc = "idle"
    BY <1>0, <1>1 DEF CallRow, At
  <2>3. QED
    BY <1>0, <1>1, <2>1, <2>2 DEF CallerInv, Places, RowKnown, TroubleKnown, OfferWatched,
       Excused, LegsKnown, TearsDown, Others, Threads, Terminal
<1>2. ASSUME ~Unanswered(row),
             timer' = FALSE,
             UNCHANGED <<row, legs, rearmed, trouble, th>>
      PROVE  CallerInv'
  <2>1. th' = th
    BY <1>2, <1>0
  <2>2. row.status # "offered" \/ row.ans # None
    BY <1>0, <1>2 DEF CallRow, Unanswered
  <2>3. QED
    BY <1>0, <1>2, <2>1, <2>2 DEF CallerInv, Places, RowKnown, TroubleKnown, OfferWatched,
       Excused, LegsKnown, TearsDown, Others, Threads, Terminal
<1>3. QED
  BY <1>1, <1>2 DEF TimerFire

\* FailUnanswered: the timer is armed again when the write failed, which
\* happens while it may be.
LEMMA TimerFailCaller ==
    ASSUME TypeOK, CallerInv, TimerFail
    PROVE  CallerInv'
<1>0. /\ row \in CallRow
      /\ legs \subseteq Legs /\ CallerInv
  BY DEF TypeOK, CallRow
<1>1. ASSUME At("timer", "fail"),
             Unanswered(row),
             Transition("failed"),
             UNCHANGED <<legs, rearmed>>,
             th' = [th EXCEPT !["timer"] = [@ EXCEPT !.pc = "ship", !.devs = Recipients(row')]]
      PROVE  CallerInv'
  <2>0. row' \in CallRow /\ Recipients(row') \in SUBSET Devices
    BY <1>0, <1>1, RecipientsType DEF Transition, CallRow, Status, Terminal
  <2>1. th'["timer"].pc = "ship" /\ Others("timer")
    BY <1>1, <2>0, SendFacts DEF Threads, Place
  <2>2. /\ th["timer"].pc = "fail" /\ trouble \subseteq trouble'
        /\ row'.status = "failed" /\ row'.ans = row.ans /\ row.status \in {"offered", "ringing", "accepted"}
    BY <1>0, <1>1, MeetFacts DEF CallRow, Kinds, At, Transition, LegalTransition, CallerFault,
       Terminal
  <2>3. QED
    BY <1>0, <1>1, <2>1, <2>2 DEF CallerInv, Places, RowKnown, TroubleKnown, OfferWatched,
       Excused, LegsKnown, TearsDown, Others, Threads, Terminal
<1>2. ASSUME At("timer", "fail"),
             ~Unanswered(row),
             Return("timer"),
             UNCHANGED <<row, timer, rearmed, trouble, legs>>
      PROVE  CallerInv'
  <2>1. th'["timer"].pc = "idle" /\ Others("timer")
    BY <1>2, ReturnFacts DEF Threads
  <2>2. th["timer"].pc = "fail" /\ (row.status # "offered" \/ row.ans # None)
    BY <1>0, <1>2 DEF CallRow, At, Unanswered
  <2>3. QED
    BY <1>0, <1>2, <2>1, <2>2 DEF CallerInv, Places, RowKnown, TroubleKnown, OfferWatched,
       Excused, LegsKnown, TearsDown, Others, Threads, Terminal
<1>3. ASSUME At("timer", "fail"),
             Unanswered(row),
             CallerFault,
             Rearm,
             Return("timer"),
             UNCHANGED legs
      PROVE  CallerInv'
  <2>0. /\ "callerwrite" \notin trouble /\ "callerwrite" \in trouble'
        /\ trouble \subseteq trouble' /\ row' = row
    BY <1>3, MeetFacts DEF CallerFault, Kinds
  <2>1. th'["timer"].pc = "idle" /\ Others("timer")
    BY <1>3, ReturnFacts DEF Threads
  <2>2. /\ th["timer"].pc = "fail" /\ trouble \subseteq trouble'
        /\ row' = row /\ "callerwrite" \in trouble' /\ timer' = TRUE
    BY <1>0, <1>3, <2>0, CallsAssumption DEF Rearm, CallerInv, TroubleKnown, TypeOK, At
  <2>3. QED
    BY <1>0, <1>3, <2>1, <2>2 DEF CallerInv, Places, RowKnown, TroubleKnown, OfferWatched,
       Excused, LegsKnown, TearsDown, Others, Threads, Terminal
<1>4. QED
  BY <1>1, <1>2, <1>3 DEF TimerFail

\* The end leaves before the teardown.
LEMMA ShipEndsCaller ==
    ASSUME TypeOK, CallerInv, NEW t \in Threads, ShipEnds(t)
    PROVE  CallerInv'
<1>0. /\ row \in CallRow
      /\ legs \subseteq Legs /\ CallerInv
  BY DEF TypeOK, CallRow
<1>1. ASSUME t \in {"timer", "reader"},
             At(t, "ship"),
             Go(t, "teardown"),
             trouble \subseteq trouble',
             UNCHANGED <<row, legs, timer, rearmed>>
      PROVE  CallerInv'
  <2>1. th'[t].pc = "teardown" /\ th'[t].dev = th[t].dev /\ Others(t)
    BY <1>1, GoFacts DEF Threads, Place
  <2>2. th[t].pc = "ship"
    BY <1>0, <1>1 DEF At
  <2>3. QED
    BY <1>0, <1>1, <2>1, <2>2 DEF CallerInv, Places, RowKnown, TroubleKnown, OfferWatched,
       Excused, LegsKnown, TearsDown, Others, Threads, Terminal
<1>2. QED
  BY <1>1, MeetFacts, UnsentFacts DEF ShipEnds, End

\* teardownCall: nobody has a live call to take down.
LEMMA TeardownCaller ==
    ASSUME TypeOK, CallerInv, NEW t \in Threads, Teardown(t)
    PROVE  CallerInv'
<1>0. /\ row \in CallRow
      /\ legs \subseteq Legs /\ CallerInv
  BY DEF TypeOK, CallRow
<1>1. ASSUME At(t, "teardown"),
             legs' = {},
             Return(t),
             UNCHANGED <<row, timer, rearmed, trouble>>
      PROVE  CallerInv'
  <2>1. th'[t].pc = "idle" /\ Others(t)
    BY <1>1, ReturnFacts DEF Threads
  <2>2. th[t].pc = "teardown"
    BY <1>0, <1>1 DEF At
  <2>3. QED
    BY <1>0, <1>1, <2>1, <2>2 DEF CallerInv, Places, RowKnown, TroubleKnown, OfferWatched,
       Excused, LegsKnown, TearsDown, Others, Threads, Terminal
<1>2. QED
  BY <1>1 DEF Teardown

\* applyCallTransition reads the row.
LEMMA RecvOverCaller ==
    ASSUME TypeOK, CallerInv, NEW d \in Devices, RecvOver(d)
    PROVE  CallerInv'
<1>1. /\ th["reader"].pc = "idle" /\ Others("reader") /\ trouble \subseteq trouble'
      /\ \/ th' = th
         \/ row.status # "none" /\ th'["reader"].pc \in {"stop", "move"} /\ th'["reader"].dev = d
      /\ UNCHANGED <<row, legs, timer, rearmed>>
  BY RecvOverFacts DEF Troubles
<1>2. QED
  BY <1>1 DEF CallerInv, Places, RowKnown, TroubleKnown, OfferWatched, Excused, LegsKnown,
     TearsDown, Others, Threads, Terminal

\* MarkStopped; the call goes on while another device rings.
LEMMA ReaderStopCaller ==
    ASSUME TypeOK, CallerInv, ReaderStop
    PROVE  CallerInv'
<1>0. /\ row \in CallRow
      /\ legs \subseteq Legs /\ CallerInv
  BY DEF TypeOK, CallRow
<1>1. ASSUME At("reader", "stop"),
             row' = [row EXCEPT !.stopped = @ \union {th["reader"].dev}] \/ UNCHANGED row,
             trouble \subseteq trouble',
             Return("reader"),
             UNCHANGED <<legs, timer, rearmed>>
      PROVE  CallerInv'
  <2>1. th'["reader"].pc = "idle" /\ Others("reader")
    BY <1>1, ReturnFacts DEF Threads
  <2>2. /\ th["reader"].pc = "stop"
        /\ row'.status = row.status /\ row'.ans = row.ans
    BY <1>0, <1>1 DEF At, CallRow
  <2>3. QED
    BY <1>0, <1>1, <2>1, <2>2 DEF CallerInv, Places, RowKnown, TroubleKnown, OfferWatched,
       Excused, LegsKnown, TearsDown, Others, Threads, Terminal
<1>2. ASSUME At("reader", "stop"),
             row' = [row EXCEPT !.stopped = @ \union {th["reader"].dev}] \/ UNCHANGED row,
             trouble \subseteq trouble',
             Go("reader", "move"),
             UNCHANGED <<legs, timer, rearmed>>
      PROVE  CallerInv'
  <2>1. th'["reader"].pc = "move" /\ th'["reader"].dev = th["reader"].dev /\ Others("reader")
    BY <1>2, GoFacts DEF Threads, Place
  <2>2. /\ th["reader"].pc = "stop"
        /\ row'.status = row.status /\ row'.ans = row.ans
    BY <1>0, <1>2 DEF At, CallRow
  <2>3. QED
    BY <1>0, <1>2, <2>1, <2>2 DEF CallerInv, Places, RowKnown, TroubleKnown, OfferWatched,
       Excused, LegsKnown, TearsDown, Others, Threads, Terminal
<1>3. QED
  BY <1>1, <1>2, MeetFacts DEF ReaderStop, CallerFault, Kinds

\* The row is over; the end still goes to who rings.
LEMMA ReaderMoveCaller ==
    ASSUME TypeOK, CallerInv, ReaderMove
    PROVE  CallerInv'
<1>0. /\ row \in CallRow
      /\ legs \subseteq Legs /\ CallerInv
  BY DEF TypeOK, CallRow
<1>1. ASSUME At("reader", "move"),
             Transition(Final(th["reader"].kind)),
             Go("reader", "ship"),
             UNCHANGED <<legs, rearmed>>
      PROVE  CallerInv'
  <2>1. th'["reader"].pc = "ship" /\ th'["reader"].dev = th["reader"].dev /\ Others("reader")
    BY <1>1, GoFacts DEF Threads, Place
  <2>2. /\ th["reader"].pc = "move" /\ trouble \subseteq trouble'
        /\ row'.status \in {"rejected", "ended"} /\ row'.ans = row.ans /\ row.status \in {"offered", "ringing", "accepted"}
    BY <1>0, <1>1, MeetFacts DEF CallRow, Kinds, At, Transition, LegalTransition, CallerFault,
       Terminal, Final
  <2>3. QED
    BY <1>0, <1>1, <2>1, <2>2 DEF CallerInv, Places, RowKnown, TroubleKnown, OfferWatched,
       Excused, LegsKnown, TearsDown, Others, Threads, Terminal
<1>2. ASSUME At("reader", "move"),
             Return("reader"),
             row' = row,
             timer' = timer,
             trouble \subseteq trouble',
             UNCHANGED <<legs, rearmed>>
      PROVE  CallerInv'
  <2>1. th'["reader"].pc = "idle" /\ Others("reader")
    BY <1>2, ReturnFacts DEF Threads
  <2>2. th["reader"].pc = "move"
    BY <1>0, <1>2, MeetFacts DEF CallRow, Kinds, At, Transition, LegalTransition, CallerFault,
       Terminal
  <2>3. QED
    BY <1>0, <1>2, <2>1, <2>2 DEF CallerInv, Places, RowKnown, TroubleKnown, OfferWatched,
       Excused, LegsKnown, TearsDown, Others, Threads, Terminal
<1>3. QED
  BY <1>1, <1>2, MeetFacts DEF ReaderMove, CallerFault, Kinds

\* applyCallAccept reads the row.
LEMMA RecvAcceptCaller ==
    ASSUME TypeOK, CallerInv, NEW d \in Devices, RecvAccept(d)
    PROVE  CallerInv'
<1>1. /\ th["reader"].pc = "idle" /\ Others("reader") /\ trouble \subseteq trouble'
      /\ \/ th' = th
         \/ row.status # "none" /\ th'["reader"].pc = "claim" /\ th'["reader"].dev = d
      /\ UNCHANGED <<row, legs, timer, rearmed>>
  BY RecvAcceptFacts DEF Troubles
<1>2. QED
  BY <1>1 DEF CallerInv, Places, RowKnown, TroubleKnown, OfferWatched, Excused, LegsKnown,
     TearsDown, Others, Threads, Terminal

\* ClaimAnswer: the reader that recorded the answer brings the media up.
LEMMA ClaimCaller ==
    ASSUME TypeOK, CallerInv, Claim
    PROVE  CallerInv'
<1>0. /\ row \in CallRow
      /\ legs \subseteq Legs /\ CallerInv
  BY DEF TypeOK, CallRow
<1>1. ASSUME At("reader", "claim"),
             Unanswered(row),
             row' = [row EXCEPT !.ans = th["reader"].dev],
             trouble \subseteq trouble',
             Go("reader", "spawn"),
             UNCHANGED <<legs, timer, rearmed>>
      PROVE  CallerInv'
  <2>1. th'["reader"].pc = "spawn" /\ th'["reader"].dev = th["reader"].dev /\ Others("reader")
    BY <1>1, GoFacts DEF Threads, Place
  <2>2. /\ th["reader"].pc = "claim"
        /\ row.status = "offered" /\ row.ans = None /\ row'.status = row.status
        /\ row'.ans = th["reader"].dev /\ th["reader"].dev # None
    BY <1>0, <1>1, CallsAssumption DEF At, Unanswered, CallRow, CallerInv, RowKnown
  <2>3. QED
    BY <1>0, <1>1, <2>1, <2>2 DEF CallerInv, Places, RowKnown, TroubleKnown, OfferWatched,
       Excused, LegsKnown, TearsDown, Others, Threads, Terminal
<1>2. ASSUME At("reader", "claim"),
             row' = row,
             trouble \subseteq trouble',
             Return("reader"),
             UNCHANGED <<legs, timer, rearmed>>
      PROVE  CallerInv'
  <2>1. th'["reader"].pc = "idle" /\ Others("reader")
    BY <1>2, ReturnFacts DEF Threads
  <2>2. th["reader"].pc = "claim"
    BY <1>0, <1>2 DEF At
  <2>3. QED
    BY <1>0, <1>2, <2>1, <2>2 DEF CallerInv, Places, RowKnown, TroubleKnown, OfferWatched,
       Excused, LegsKnown, TearsDown, Others, Threads, Terminal
<1>3. QED
  BY <1>1, <1>2, EndFacts DEF Claim, AnswerLost, Kinds

\* spawnReceiverLeg; one that was not ready takes every leg down.
LEMMA ReaderSpawnCaller ==
    ASSUME TypeOK, CallerInv, ReaderSpawn
    PROVE  CallerInv'
<1>0. /\ row \in CallRow
      /\ legs \subseteq Legs /\ CallerInv
  BY DEF TypeOK, CallRow
<1>1. ASSUME At("reader", "spawn"),
             legs' = legs \union {"receiver"},
             Go("reader", "accept"),
             UNCHANGED trouble,
             UNCHANGED <<row, timer, rearmed>>
      PROVE  CallerInv'
  <2>1. th'["reader"].pc = "accept" /\ th'["reader"].dev = th["reader"].dev /\ Others("reader")
    BY <1>1, GoFacts DEF Threads, Place
  <2>2. th["reader"].pc = "spawn"
    BY <1>0, <1>1 DEF At
  <2>3. QED
    BY <1>0, <1>1, <2>1, <2>2 DEF CallerInv, Places, RowKnown, TroubleKnown, OfferWatched,
       Excused, LegsKnown, TearsDown, Others, Threads, Terminal
<1>2. ASSUME At("reader", "spawn"),
             Meet({"unspawned"}),
             legs' \in {legs, {}},
             Go("reader", "failans"),
             UNCHANGED <<row, timer, rearmed>>
      PROVE  CallerInv'
  <2>1. th'["reader"].pc = "failans" /\ th'["reader"].dev = th["reader"].dev /\ Others("reader")
    BY <1>2, GoFacts DEF Threads, Place
  <2>2. /\ th["reader"].pc = "spawn" /\ trouble \subseteq trouble' /\ "unspawned" \in trouble'
        /\ row.ans # None
    BY <1>0, <1>2, CallsAssumption, MeetFacts DEF CallRow, Kinds, At, CallerInv, RowKnown
  <2>3. QED
    BY <1>0, <1>2, <2>1, <2>2 DEF CallerInv, Places, RowKnown, TroubleKnown, OfferWatched,
       Excused, LegsKnown, TearsDown, Others, Threads, Terminal
<1>3. QED
  BY <1>1, <1>2 DEF ReaderSpawn

\* The row is accepted with both legs up; or it moved on, and they are taken
\* down.
LEMMA ReaderAcceptCaller ==
    ASSUME TypeOK, CallerInv, ReaderAccept
    PROVE  CallerInv'
<1>0. /\ row \in CallRow
      /\ legs \subseteq Legs /\ CallerInv
  BY DEF TypeOK, CallRow
<1>1. ASSUME At("reader", "accept"),
             Transition("accepted"),
             Return("reader"),
             UNCHANGED <<legs, rearmed>>
      PROVE  CallerInv'
  <2>1. th'["reader"].pc = "idle" /\ Others("reader")
    BY <1>1, ReturnFacts DEF Threads
  <2>2. /\ th["reader"].pc = "accept" /\ trouble \subseteq trouble'
        /\ row'.status = "accepted" /\ row'.ans = row.ans /\ row.status \in {"offered", "ringing", "accepted"}
    BY <1>0, <1>1, MeetFacts DEF CallRow, Kinds, At, Transition, LegalTransition, CallerFault,
       Terminal
  <2>3. QED
    BY <1>0, <1>1, <2>1, <2>2 DEF CallerInv, Places, RowKnown, TroubleKnown, OfferWatched,
       Excused, LegsKnown, TearsDown, Others, Threads, Terminal, Legs
<1>2. ASSUME At("reader", "accept"),
             ~LegalTransition(row.status, "accepted"),
             Go("reader", "teardown"),
             UNCHANGED <<row, timer, trouble>>,
             UNCHANGED <<legs, rearmed>>
      PROVE  CallerInv'
  <2>1. th'["reader"].pc = "teardown" /\ th'["reader"].dev = th["reader"].dev /\ Others("reader")
    BY <1>2, GoFacts DEF Threads, Place
  <2>2. th["reader"].pc = "accept" /\ row.status # "offered"
    BY <1>0, <1>2, MeetFacts DEF CallRow, Kinds, At, Transition, LegalTransition, CallerFault,
       Terminal
  <2>3. QED
    BY <1>0, <1>2, <2>1, <2>2 DEF CallerInv, Places, RowKnown, TroubleKnown, OfferWatched,
       Excused, LegsKnown, TearsDown, Others, Threads, Terminal
<1>3. ASSUME At("reader", "accept"),
             LegalTransition(row.status, "accepted"),
             CallerFault,
             Go("reader", "failans"),
             UNCHANGED timer,
             UNCHANGED <<legs, rearmed>>
      PROVE  CallerInv'
  <2>1. th'["reader"].pc = "failans" /\ th'["reader"].dev = th["reader"].dev /\ Others("reader")
    BY <1>3, GoFacts DEF Threads, Place
  <2>2. /\ th["reader"].pc = "accept" /\ trouble \subseteq trouble'
        /\ row' = row /\ "callerwrite" \in trouble' /\ row.ans # None /\ row.status = "offered"
    BY <1>0, <1>3, CallsAssumption, MeetFacts DEF CallRow, Kinds, At, Transition,
       LegalTransition, CallerFault, Terminal, CallerInv, RowKnown
  <2>3. QED
    BY <1>0, <1>3, <2>1, <2>2 DEF CallerInv, Places, RowKnown, TroubleKnown, OfferWatched,
       Excused, LegsKnown, TearsDown, Others, Threads, Terminal
<1>4. QED
  BY <1>1, <1>2, <1>3 DEF ReaderAccept, MovedOn

\* failAnsweredCall: a failure that cannot be written either leaves the offer
\* unwatched.
LEMMA FailAnsweredCaller ==
    ASSUME TypeOK, CallerInv, FailAnsweredCall
    PROVE  CallerInv'
<1>1. /\ th["reader"].pc = "failans" /\ UNCHANGED <<legs, rearmed>> /\ row \in CallRow
      /\ th["reader"].dev \in Devices /\ row.ans # None
      /\ "callerwrite" \in trouble \/ "unspawned" \in trouble
  BY CallsAssumption DEF FailAnsweredCall, At, CallerInv, RowKnown, TroubleKnown, TypeOK, CallRow
<1>2. CASE /\ Transition("failed")
           /\ th' = [th EXCEPT !["reader"] = [@ EXCEPT !.pc = "ship", !.devs = Recipients(row')]]
  <2>1. row' \in CallRow /\ Recipients(row') \in SUBSET Devices
    BY <1>1, <1>2, RecipientsType DEF Transition, CallRow, Status, Terminal
  <2>2. th'["reader"].pc = "ship" /\ th'["reader"].dev = th["reader"].dev /\ Others("reader")
    BY <1>2, <2>1, SendFacts DEF Threads, Place
  <2>3. /\ row'.status = "failed" /\ row'.ans = row.ans /\ trouble' = trouble
        /\ row.status \in {"offered", "ringing", "accepted"}
    BY <1>1, <1>2 DEF Transition, CallRow, LegalTransition
  <2>4. QED
    BY <1>1, <2>2, <2>3 DEF CallerInv, Places, RowKnown, TroubleKnown, OfferWatched, Excused,
       LegsKnown, TearsDown, Others, Threads, Terminal
<1>3. CASE /\ ~LegalTransition(row.status, "failed")
           /\ Return("reader") /\ UNCHANGED <<row, timer, trouble>>
  <2>1. th'["reader"].pc = "idle" /\ Others("reader")
    BY <1>3, ReturnFacts DEF Threads
  <2>2. row.status \notin {"offered", "ringing", "accepted"}
    BY <1>3 DEF LegalTransition, Terminal
  <2>3. QED
    BY <1>1, <1>3, <2>1, <2>2 DEF CallerInv, Places, RowKnown, TroubleKnown, OfferWatched,
       Excused, LegsKnown, TearsDown, Others, Threads, Terminal
<1>4. CASE /\ LegalTransition(row.status, "failed") /\ CallerFault
           /\ th' = [th EXCEPT !["reader"] = [@ EXCEPT !.pc = "ship", !.devs = {th["reader"].dev}]]
           /\ UNCHANGED timer
  <2>1. th'["reader"].pc = "ship" /\ th'["reader"].dev = th["reader"].dev /\ Others("reader")
    <3> DEFINE D == {th["reader"].dev}
    <3>1. D \in SUBSET Devices
      BY <1>1
    <3>2. th' = [th EXCEPT !["reader"] = [@ EXCEPT !.pc = "ship", !.devs = D]]
      BY <1>4
    <3> HIDE DEF D
    <3>3. QED
      BY <3>1, <3>2, SendFacts DEF Threads, Place
  <2>2. /\ row' = row /\ trouble \subseteq trouble'
        /\ "callerwrite" \in trouble' /\ "callerwrite" \notin trouble
    BY <1>4, MeetFacts DEF CallerFault, Kinds
  <2>3. row.status \in {"offered", "ringing", "accepted"}
    BY <1>4 DEF LegalTransition
  <2>4. QED
    BY <1>1, <1>4, <2>1, <2>2, <2>3 DEF CallerInv, Places, RowKnown, TroubleKnown, OfferWatched,
       Excused, LegsKnown, TearsDown, Others, Threads, Terminal
<1>5. QED
  BY <1>2, <1>3, <1>4 DEF FailAnsweredCall

\* SweepNonTerminal: after a restart of the caller the call is over and nothing
\* of it runs.
LEMMA RestartCallerCaller ==
    ASSUME TypeOK, CallerInv, RestartCaller
    PROVE  CallerInv'
<1>1. /\ row' \in CallRow /\ row'.ans = row.ans /\ row'.status \in Terminal
      /\ legs' = {} /\ rearmed' = 0 /\ trouble \subseteq trouble'
  BY MeetFacts DEF RestartCaller, TypeOK, CallRow, Kinds, Status, Terminal
<1>2. \A t \in Threads : th'[t].pc = "idle"
  BY IdleFacts DEF RestartCaller
<1>3. QED
  BY <1>1, <1>2 DEF CallerInv, Places, RowKnown, TroubleKnown, OfferWatched, Excused, LegsKnown,
     TearsDown, Others, Threads, Terminal

\* What leaves the caller's own state alone.
LEMMA QuietCaller ==
    ASSUME CallerInv, UNCHANGED callerVars, trouble \subseteq trouble'
    PROVE  CallerInv'
BY DEF callerVars, CallerInv, Places, RowKnown, TroubleKnown, OfferWatched, Excused, LegsKnown,
   TearsDown, Others, Threads, Terminal

-----------------------------------------------------------------------------
(* A called device *)

\* A step of one device: the state of the others is left alone.
DeviceStep(d) ==
    /\ crow' \in [Devices -> Status]
    /\ clegs' \in [Devices -> SUBSET Legs]
    /\ ring' \in [Devices -> {"off", "armed", "firing", "teardown"}]
    /\ answer' \in [Devices -> {"idle", "sender", "receiver", "move", "undo", "ship", "unsent", "fail"}]
    /\ hang' \in [Devices -> {"idle", "reject", "end", "teardown"}]
    /\ creader' \in [Devices -> {"idle", "teardown"}]
    /\ \A c \in Devices : c # d =>
          /\ crow'[c] = crow[c] /\ clegs'[c] = clegs[c] /\ ring'[c] = ring[c]
          /\ answer'[c] = answer[c] /\ hang'[c] = hang[c] /\ creader'[c] = creader[c]
    /\ Troubles
    /\ UNCHANGED callerVars

\* What it says to the caller is so, and what it was told it has heard, unless
\* it could not write it down.
Speaks(d) ==
    /\ toDev' \in [Devices -> Seq(Out)] /\ toCaller' \in [Devices -> Seq(Back)]
    /\ crow[d] \in Terminal => crow'[d] = crow[d]
    /\ crow[d] = "accepted" => crow'[d] \in Terminal \union {"accepted"}
    /\ crow[d] = "none" => crow'[d] = "none" \/ In("offer", toDev[d])
    /\ crow'[d] = "accepted" /\ crow[d] # "accepted" => answer'[d] = "ship"
    /\ crow'[d] = "accepted" /\ answer[d] = "ship" =>
          answer'[d] = "ship" \/ In("accept", toCaller'[d]) \/ "unsent" \in trouble'
    /\ \A c \in Devices : \A m : In(m, toCaller[c]) => In(m, toCaller'[c])
    /\ \A c \in Devices : \A m : In(m, toCaller'[c]) =>
          \/ In(m, toCaller[c])
          \/ c = d /\ m = "accept" /\ crow'[d] \in Terminal \union {"accepted"}
          \/ c = d /\ crow'[d] \in Terminal
    /\ \A c \in Devices : \A m : In(m, toDev'[c]) => In(m, toDev[c])
    /\ \A c \in Devices : In("end", toDev[c]) =>
          \/ In("end", toDev'[c])
          \/ c = d /\ crow'[d] # "accepted"
          \/ "calleewrite" \in trouble'

\* The reader takes the streamers of an ended call down.
LEMMA CalleeReaderTeardownStep ==
    ASSUME TypeOK, NEW d \in Devices, DeviceInv(d), CalleeReaderTeardown(d)
    PROVE  DeviceStep(d) /\ DeviceInv(d)' /\ Speaks(d)
<1>1. DeviceStep(d)
  BY MeetFacts DEF CalleeReaderTeardown, Troubles, DeviceStep, TypeOK, Kinds, Status, Terminal,
     Legs
<1>2. DeviceInv(d)'
  BY MeetFacts DEF CalleeReaderTeardown, DeviceInv, Pending, TypeOK, Kinds, Terminal, Legs
<1>3. Speaks(d)
  BY MeetFacts DEF CalleeReaderTeardown, Speaks, DeviceInv, TypeOK, Kinds, Terminal, net, In, Out,
     Back
<1>4. QED
  BY <1>1, <1>2, <1>3

\* The callback of the ring timer looks at the row and at the answer.
LEMMA RingFireStep ==
    ASSUME TypeOK, NEW d \in Devices, DeviceInv(d), RingFire(d)
    PROVE  DeviceStep(d) /\ DeviceInv(d)' /\ Speaks(d)
<1>1. DeviceStep(d)
  BY MeetFacts DEF RingFire, RingNext, Troubles, DeviceStep, TypeOK, Kinds, Status, Terminal, Legs
<1>2. DeviceInv(d)'
  BY MeetFacts DEF RingFire, RingNext, DeviceInv, Pending, TypeOK, Kinds, Terminal, Legs
<1>3. Speaks(d)
  BY MeetFacts DEF RingFire, RingNext, Speaks, DeviceInv, TypeOK, Kinds, Terminal, net, In, Out,
     Back
<1>4. QED
  BY <1>1, <1>2, <1>3

\* The ringing is over, or the timer is armed again.
LEMMA RingEndStep ==
    ASSUME TypeOK, NEW d \in Devices, DeviceInv(d), RingEnd(d)
    PROVE  DeviceStep(d) /\ DeviceInv(d)' /\ Speaks(d)
<1>1. ring[d] = "firing" /\ UNCHANGED <<callerVars, clegs, answer, hang, creader, net>>
  BY DEF RingEnd
<1>2. CASE CMove(d, "ended") /\ ring' = [ring EXCEPT ![d] = "teardown"] /\ UNCHANGED trouble
  <2>1. Troubles
    BY <1>1, <1>2, MeetFacts DEF Troubles, TypeOK, Kinds, CMove, LegalTransition, CalleeFault
  <2>2. DeviceStep(d)
    BY <1>1, <1>2, <2>1 DEF DeviceStep, TypeOK, Status, Terminal, Legs, CMove, LegalTransition,
       CalleeFault
  <2>3. crow'[d] = "ended" /\ ring'[d] = "teardown" /\ crow[d] \in {"offered", "ringing", "accepted"}
    BY <1>1, <1>2, MeetFacts DEF TypeOK, Terminal, Legs, Kinds, CMove, LegalTransition,
       CalleeFault
  <2>4. DeviceInv(d)'
    BY <1>1, <2>1, <2>2, <2>3 DEF DeviceInv, DeviceStep, Troubles, Pending, Terminal, Legs
  <2>5. Speaks(d)
    BY <1>1, <2>1, <2>2, <2>3 DEF DeviceStep, Speaks, DeviceInv, TypeOK, Terminal, net, In, Out,
       Back
  <2>6. QED
    BY <2>2, <2>4, <2>5
<1>3. CASE ~LegalTransition(crow[d], "ended") /\ ring' = [ring EXCEPT ![d] = "off"] /\ UNCHANGED <<crow, trouble>>
  <2>1. Troubles
    BY <1>1, <1>3, MeetFacts DEF Troubles, TypeOK, Kinds, CMove, LegalTransition, CalleeFault
  <2>2. DeviceStep(d)
    BY <1>1, <1>3, <2>1 DEF DeviceStep, TypeOK, Status, Terminal, Legs, CMove, LegalTransition,
       CalleeFault
  <2>3. crow' = crow /\ ring'[d] = "off" /\ crow[d] # "ringing"
    BY <1>1, <1>3, MeetFacts DEF TypeOK, Terminal, Legs, Kinds, CMove, LegalTransition,
       CalleeFault
  <2>4. DeviceInv(d)'
    BY <1>1, <2>1, <2>2, <2>3 DEF DeviceInv, DeviceStep, Troubles, Pending, Terminal, Legs
  <2>5. Speaks(d)
    BY <1>1, <2>1, <2>2, <2>3 DEF DeviceStep, Speaks, DeviceInv, TypeOK, Terminal, net, In, Out,
       Back
  <2>6. QED
    BY <2>2, <2>4, <2>5
<1>4. CASE CalleeFault(d, "ended") /\ ring' = [ring EXCEPT ![d] = "armed"]
  <2>1. Troubles
    BY <1>1, <1>4, MeetFacts DEF Troubles, TypeOK, Kinds, CMove, LegalTransition, CalleeFault
  <2>2. DeviceStep(d)
    BY <1>1, <1>4, <2>1 DEF DeviceStep, TypeOK, Status, Terminal, Legs, CMove, LegalTransition,
       CalleeFault
  <2>3. crow' = crow /\ ring'[d] = "armed"
    BY <1>1, <1>4, MeetFacts DEF TypeOK, Terminal, Legs, Kinds, CMove, LegalTransition,
       CalleeFault
  <2>4. DeviceInv(d)'
    BY <1>1, <2>1, <2>2, <2>3 DEF DeviceInv, DeviceStep, Troubles, Pending, Terminal, Legs
  <2>5. Speaks(d)
    BY <1>1, <2>1, <2>2, <2>3 DEF DeviceStep, Speaks, DeviceInv, TypeOK, Terminal, net, In, Out,
       Back
  <2>6. QED
    BY <2>2, <2>4, <2>5
<1>5. QED
  BY <1>1, <1>2, <1>3, <1>4 DEF RingEnd

\* The ring timer takes the streamers down.
LEMMA RingTeardownStep ==
    ASSUME TypeOK, NEW d \in Devices, DeviceInv(d), RingTeardown(d)
    PROVE  DeviceStep(d) /\ DeviceInv(d)' /\ Speaks(d)
<1>1. DeviceStep(d)
  BY MeetFacts DEF RingTeardown, Troubles, DeviceStep, TypeOK, Kinds, Status, Terminal, Legs
<1>2. DeviceInv(d)'
  BY MeetFacts DEF RingTeardown, DeviceInv, Pending, TypeOK, Kinds, Terminal, Legs
<1>3. Speaks(d)
  BY MeetFacts DEF RingTeardown, Speaks, DeviceInv, TypeOK, Kinds, Terminal, net, In, Out, Back
<1>4. QED
  BY <1>1, <1>2, <1>3

\* An answer begins with a call that rings.
LEMMA AnswerStep ==
    ASSUME TypeOK, NEW d \in Devices, DeviceInv(d), Answer(d)
    PROVE  DeviceStep(d) /\ DeviceInv(d)' /\ Speaks(d)
<1>1. DeviceStep(d)
  BY MeetFacts DEF Answer, Troubles, DeviceStep, TypeOK, Kinds, Status, Terminal, Legs
<1>2. DeviceInv(d)'
  BY MeetFacts DEF Answer, DeviceInv, Pending, TypeOK, Kinds, Terminal, Legs
<1>3. Speaks(d)
  BY MeetFacts DEF Answer, Speaks, DeviceInv, TypeOK, Kinds, Terminal, net, In, Out, Back
<1>4. QED
  BY <1>1, <1>2, <1>3

\* The streamers of an answer come up one after the other.
LEMMA AnswerSpawnStep ==
    ASSUME TypeOK, NEW d \in Devices, DeviceInv(d), AnswerSpawn(d)
    PROVE  DeviceStep(d) /\ DeviceInv(d)' /\ Speaks(d)
<1>1. answer[d] \in Legs /\ UNCHANGED <<callerVars, crow, ring, hang, creader, net>>
  BY DEF AnswerSpawn
<1>2. CASE /\ clegs' = [clegs EXCEPT ![d] = @ \union {answer[d]}]
           /\ answer' = [answer EXCEPT ![d] = IF @ = "sender" THEN "receiver" ELSE "move"]
           /\ UNCHANGED trouble
  <2>1. Troubles
    BY <1>1, <1>2, MeetFacts DEF Troubles, TypeOK, Kinds, AnswerSpawn
  <2>2. DeviceStep(d)
    BY <1>1, <1>2, <2>1 DEF DeviceStep, TypeOK, Status, Terminal, Legs, AnswerSpawn
  <2>3. /\ clegs'[d] = clegs[d] \union {answer[d]} /\ answer[d] \in {"sender", "receiver"}
        /\ answer'[d] = IF answer[d] = "sender" THEN "receiver" ELSE "move"
    BY <1>1, <1>2, MeetFacts DEF TypeOK, Terminal, Legs, Kinds, AnswerSpawn
  <2>4. DeviceInv(d)'
    BY <1>1, <2>1, <2>2, <2>3 DEF DeviceInv, DeviceStep, Troubles, Pending, Terminal, Legs
  <2>5. Speaks(d)
    BY <1>1, <2>1, <2>2, <2>3 DEF DeviceStep, Speaks, DeviceInv, TypeOK, Terminal, net, In, Out,
       Back
  <2>6. QED
    BY <2>2, <2>4, <2>5
<1>3. CASE /\ Meet({"unspawned"}) /\ clegs' = [clegs EXCEPT ![d] = {}]
           /\ answer' = [answer EXCEPT ![d] = "fail"]
  <2>1. Troubles
    BY <1>1, <1>3, MeetFacts DEF Troubles, TypeOK, Kinds, AnswerSpawn
  <2>2. DeviceStep(d)
    BY <1>1, <1>3, <2>1 DEF DeviceStep, TypeOK, Status, Terminal, Legs, AnswerSpawn
  <2>3. clegs'[d] = {} /\ answer'[d] = "fail" /\ answer[d] \in {"sender", "receiver"}
    BY <1>1, <1>3, MeetFacts DEF TypeOK, Terminal, Legs, Kinds, AnswerSpawn
  <2>4. DeviceInv(d)'
    BY <1>1, <2>1, <2>2, <2>3 DEF DeviceInv, DeviceStep, Troubles, Pending, Terminal, Legs
  <2>5. Speaks(d)
    BY <1>1, <2>1, <2>2, <2>3 DEF DeviceStep, Speaks, DeviceInv, TypeOK, Terminal, net, In, Out,
       Back
  <2>6. QED
    BY <2>2, <2>4, <2>5
<1>4. QED
  BY <1>1, <1>2, <1>3 DEF AnswerSpawn

\* The row is accepted with both streamers up.
LEMMA AnswerMoveStep ==
    ASSUME TypeOK, NEW d \in Devices, DeviceInv(d), AnswerMove(d)
    PROVE  DeviceStep(d) /\ DeviceInv(d)' /\ Speaks(d)
<1>1. DeviceStep(d)
  BY MeetFacts DEF AnswerMove, CMove, LegalTransition, CalleeFault, Undo, Troubles, DeviceStep,
     TypeOK, Kinds, Status, Terminal, Legs
<1>2. DeviceInv(d)'
  BY MeetFacts DEF AnswerMove, CMove, LegalTransition, CalleeFault, Undo, DeviceInv, Pending,
     TypeOK, Kinds, Terminal, Legs
<1>3. Speaks(d)
  BY MeetFacts DEF AnswerMove, CMove, LegalTransition, CalleeFault, Undo, Speaks, DeviceInv,
     TypeOK, Kinds, Terminal, net, In, Out, Back
<1>4. QED
  BY <1>1, <1>2, <1>3

\* An answer that came to nothing takes its streamers down.
LEMMA AnswerUndoStep ==
    ASSUME TypeOK, NEW d \in Devices, DeviceInv(d), AnswerUndo(d)
    PROVE  DeviceStep(d) /\ DeviceInv(d)' /\ Speaks(d)
<1>1. DeviceStep(d)
  BY MeetFacts DEF AnswerUndo, Troubles, DeviceStep, TypeOK, Kinds, Status, Terminal, Legs
<1>2. DeviceInv(d)'
  BY MeetFacts DEF AnswerUndo, DeviceInv, Pending, TypeOK, Kinds, Terminal, Legs
<1>3. Speaks(d)
  BY MeetFacts DEF AnswerUndo, Speaks, DeviceInv, TypeOK, Kinds, Terminal, net, In, Out, Back
<1>4. QED
  BY <1>1, <1>2, <1>3

\* A failed answer fails the call.
LEMMA AnswerFailStep ==
    ASSUME TypeOK, NEW d \in Devices, DeviceInv(d), AnswerFail(d)
    PROVE  DeviceStep(d) /\ DeviceInv(d)' /\ Speaks(d)
<1>1. /\ answer[d] = "fail" /\ answer' = [answer EXCEPT ![d] = "idle"]
      /\ UNCHANGED <<callerVars, clegs, ring, hang, creader, net>>
  BY DEF AnswerFail
<1>2. CASE CMove(d, "failed") /\ UNCHANGED trouble
  <2>1. Troubles
    BY <1>1, <1>2, MeetFacts DEF Troubles, TypeOK, Kinds, CMove, LegalTransition, CalleeFault
  <2>2. DeviceStep(d)
    BY <1>1, <1>2, <2>1 DEF DeviceStep, TypeOK, Status, Terminal, Legs, CMove, LegalTransition,
       CalleeFault
  <2>3. crow'[d] = "failed" /\ answer'[d] = "idle" /\ crow[d] \in {"offered", "ringing", "accepted"}
    BY <1>1, <1>2, MeetFacts DEF TypeOK, Terminal, Legs, Kinds, CMove, LegalTransition,
       CalleeFault
  <2>4. DeviceInv(d)'
    BY <1>1, <2>1, <2>2, <2>3 DEF DeviceInv, DeviceStep, Troubles, Pending, Terminal, Legs
  <2>5. Speaks(d)
    BY <1>1, <2>1, <2>2, <2>3 DEF DeviceStep, Speaks, DeviceInv, TypeOK, Terminal, net, In, Out,
       Back
  <2>6. QED
    BY <2>2, <2>4, <2>5
<1>3. CASE ~LegalTransition(crow[d], "failed") /\ UNCHANGED <<crow, trouble>>
  <2>1. Troubles
    BY <1>1, <1>3, MeetFacts DEF Troubles, TypeOK, Kinds, CMove, LegalTransition, CalleeFault
  <2>2. DeviceStep(d)
    BY <1>1, <1>3, <2>1 DEF DeviceStep, TypeOK, Status, Terminal, Legs, CMove, LegalTransition,
       CalleeFault
  <2>3. crow' = crow /\ answer'[d] = "idle" /\ ~(crow[d] \in {"offered", "ringing", "accepted"})
    BY <1>1, <1>3, MeetFacts DEF TypeOK, Terminal, Legs, Kinds, CMove, LegalTransition,
       CalleeFault
  <2>4. DeviceInv(d)'
    BY <1>1, <2>1, <2>2, <2>3 DEF DeviceInv, DeviceStep, Troubles, Pending, Terminal, Legs
  <2>5. Speaks(d)
    BY <1>1, <2>1, <2>2, <2>3 DEF DeviceStep, Speaks, DeviceInv, TypeOK, Terminal, net, In, Out,
       Back
  <2>6. QED
    BY <2>2, <2>4, <2>5
<1>4. CASE CalleeFault(d, "failed")
  <2>1. Troubles
    BY <1>1, <1>4, MeetFacts DEF Troubles, TypeOK, Kinds, CMove, LegalTransition, CalleeFault
  <2>2. DeviceStep(d)
    BY <1>1, <1>4, <2>1 DEF DeviceStep, TypeOK, Status, Terminal, Legs, CMove, LegalTransition,
       CalleeFault
  <2>3. crow' = crow /\ answer'[d] = "idle"
    BY <1>1, <1>4, MeetFacts DEF TypeOK, Terminal, Legs, Kinds, CMove, LegalTransition,
       CalleeFault
  <2>4. DeviceInv(d)'
    BY <1>1, <2>1, <2>2, <2>3 DEF DeviceInv, DeviceStep, Troubles, Pending, Terminal, Legs
  <2>5. Speaks(d)
    BY <1>1, <2>1, <2>2, <2>3 DEF DeviceStep, Speaks, DeviceInv, TypeOK, Terminal, net, In, Out,
       Back
  <2>6. QED
    BY <2>2, <2>4, <2>5
<1>5. QED
  BY <1>1, <1>2, <1>3, <1>4 DEF AnswerFail

\* handleRespondCall, reject or end.
LEMMA CalleeHangUpStep ==
    ASSUME TypeOK, NEW d \in Devices, DeviceInv(d), CalleeHangUp(d)
    PROVE  DeviceStep(d) /\ DeviceInv(d)' /\ Speaks(d)
<1>1. /\ hang[d] = "idle" /\ Meet({"hangup"})
      /\ UNCHANGED <<callerVars, clegs, ring, answer, creader, net>>
  BY DEF CalleeHangUp
<1>2. CASE CMove(d, Final("reject")) /\ hang' = [hang EXCEPT ![d] = "reject"]
  <2>1. Troubles
    BY <1>1, <1>2, MeetFacts DEF Troubles, TypeOK, Kinds, CMove, LegalTransition, CalleeFault,
       Final
  <2>2. DeviceStep(d)
    BY <1>1, <1>2, <2>1 DEF DeviceStep, TypeOK, Status, Terminal, Legs, CMove, LegalTransition,
       CalleeFault, Final
  <2>3. crow'[d] = "rejected" /\ hang'[d] = "reject" /\ crow[d] \in {"offered", "ringing", "accepted"}
    BY <1>1, <1>2, MeetFacts DEF TypeOK, Terminal, Legs, Kinds, CMove, LegalTransition,
       CalleeFault, Final
  <2>4. DeviceInv(d)'
    BY <1>1, <2>1, <2>2, <2>3 DEF DeviceInv, DeviceStep, Troubles, Pending, Terminal, Legs
  <2>5. Speaks(d)
    BY <1>1, <2>1, <2>2, <2>3 DEF DeviceStep, Speaks, DeviceInv, TypeOK, Terminal, net, In, Out,
       Back
  <2>6. QED
    BY <2>2, <2>4, <2>5
<1>3. CASE CMove(d, Final("end")) /\ hang' = [hang EXCEPT ![d] = "end"]
  <2>1. Troubles
    BY <1>1, <1>3, MeetFacts DEF Troubles, TypeOK, Kinds, CMove, LegalTransition, CalleeFault,
       Final
  <2>2. DeviceStep(d)
    BY <1>1, <1>3, <2>1 DEF DeviceStep, TypeOK, Status, Terminal, Legs, CMove, LegalTransition,
       CalleeFault, Final
  <2>3. crow'[d] = "ended" /\ hang'[d] = "end" /\ crow[d] \in {"offered", "ringing", "accepted"}
    BY <1>1, <1>3, MeetFacts DEF TypeOK, Terminal, Legs, Kinds, CMove, LegalTransition,
       CalleeFault, Final
  <2>4. DeviceInv(d)'
    BY <1>1, <2>1, <2>2, <2>3 DEF DeviceInv, DeviceStep, Troubles, Pending, Terminal, Legs
  <2>5. Speaks(d)
    BY <1>1, <2>1, <2>2, <2>3 DEF DeviceStep, Speaks, DeviceInv, TypeOK, Terminal, net, In, Out,
       Back
  <2>6. QED
    BY <2>2, <2>4, <2>5
<1>4. QED
  BY <1>1, <1>2, <1>3 DEF CalleeHangUp

\* The hang-up takes the streamers down.
LEMMA CalleeHangTeardownStep ==
    ASSUME TypeOK, NEW d \in Devices, DeviceInv(d), CalleeHangTeardown(d)
    PROVE  DeviceStep(d) /\ DeviceInv(d)' /\ Speaks(d)
<1>1. DeviceStep(d)
  BY MeetFacts DEF CalleeHangTeardown, Troubles, DeviceStep, TypeOK, Kinds, Status, Terminal, Legs
<1>2. DeviceInv(d)'
  BY MeetFacts DEF CalleeHangTeardown, DeviceInv, Pending, TypeOK, Kinds, Terminal, Legs
<1>3. Speaks(d)
  BY MeetFacts DEF CalleeHangTeardown, Speaks, DeviceInv, TypeOK, Kinds, Terminal, net, In, Out,
     Back
<1>4. QED
  BY <1>1, <1>2, <1>3

\* SweepNonTerminal on a called device.
LEMMA RestartCalleeStep ==
    ASSUME TypeOK, NEW d \in Devices, DeviceInv(d), RestartCallee(d)
    PROVE  DeviceStep(d) /\ DeviceInv(d)' /\ Speaks(d)
<1>1. DeviceStep(d)
  BY MeetFacts DEF RestartCallee, Troubles, DeviceStep, TypeOK, Kinds, Status, Terminal, Legs
<1>2. DeviceInv(d)'
  BY MeetFacts DEF RestartCallee, DeviceInv, Pending, TypeOK, Kinds, Terminal, Legs
<1>3. Speaks(d)
  BY MeetFacts DEF RestartCallee, Speaks, DeviceInv, TypeOK, Kinds, Terminal, net, In, Out, Back
<1>4. QED
  BY <1>1, <1>2, <1>3

\* The answer leaves, or the streamers are about to be taken down again.
LEMMA AnswerShipStep ==
    ASSUME TypeOK, NEW d \in Devices, DeviceInv(d), AnswerShip(d)
    PROVE  DeviceStep(d) /\ DeviceInv(d)' /\ Speaks(d)
<1>1. answer[d] = "ship" /\ UNCHANGED <<callerVars, crow, clegs, ring, hang, creader, toDev>>
  BY DEF AnswerShip
<1>2. CASE /\ toCaller' = [toCaller EXCEPT ![d] = Append(@, "accept")]
           /\ answer' = [answer EXCEPT ![d] = "idle"] /\ UNCHANGED trouble
  <2>1. DeviceStep(d)
    BY <1>1, <1>2 DEF DeviceStep, Troubles, TypeOK
  <2>2. answer'[d] = "idle"
    BY <1>2 DEF TypeOK
  <2>3. DeviceInv(d)'
    BY <1>1, <1>2, <2>2 DEF DeviceInv, Pending, Terminal, Legs
  <2>4. /\ toCaller' \in [Devices -> Seq(Back)]
        /\ \A m : In(m, toCaller'[d]) <=> In(m, toCaller[d]) \/ m = "accept"
        /\ \A c \in Devices : c # d => toCaller'[c] = toCaller[c]
    <3>1. toCaller \in [Devices -> Seq(Back)] /\ "accept" \in Back
      BY DEF TypeOK, Back
    <3>2. /\ Append(toCaller[d], "accept") \in Seq(Back)
          /\ \A m : In(m, Append(toCaller[d], "accept")) <=> In(m, toCaller[d]) \/ m = "accept"
      BY <3>1, InAppend
    <3>3. QED
      BY <1>2, <3>1, <3>2
  <2>5. Speaks(d)
    BY <1>1, <1>2, <2>2, <2>4 DEF Speaks, DeviceInv, TypeOK, Out
  <2>6. QED
    BY <2>1, <2>3, <2>5
<1>3. CASE Meet({"unsent"}) /\ answer' = [answer EXCEPT ![d] = "unsent"] /\ UNCHANGED toCaller
  <2>1. Troubles /\ "unsent" \in trouble'
    BY <1>3, MeetFacts DEF Troubles, Kinds
  <2>2. DeviceStep(d)
    BY <1>1, <1>3, <2>1 DEF DeviceStep, TypeOK
  <2>3. answer'[d] = "unsent"
    BY <1>3 DEF TypeOK
  <2>4. DeviceInv(d)'
    BY <1>1, <2>1, <2>3 DEF DeviceInv, Pending, Terminal, Legs
  <2>5. Speaks(d)
    BY <1>1, <1>3, <2>1, <2>3 DEF Speaks, DeviceInv, TypeOK, Out, Back
  <2>6. QED
    BY <2>2, <2>4, <2>5
<1>4. QED
  BY <1>2, <1>3 DEF AnswerShip

\* The farewell leaves; if it cannot, the teardown is skipped.
LEMMA CalleeHangShipStep ==
    ASSUME TypeOK, NEW d \in Devices, DeviceInv(d), CalleeHangShip(d)
    PROVE  DeviceStep(d) /\ DeviceInv(d)' /\ Speaks(d)
<1>1. /\ hang[d] \in {"reject", "end"} /\ crow[d] \in Terminal
      /\ UNCHANGED <<callerVars, crow, clegs, ring, answer, creader, toDev>>
  BY DEF CalleeHangShip, DeviceInv, Pending
<1>2. CASE /\ toCaller' = [toCaller EXCEPT ![d] = Append(@, hang[d])]
           /\ hang' = [hang EXCEPT ![d] = "teardown"] /\ UNCHANGED trouble
  <2>1. DeviceStep(d)
    BY <1>1, <1>2 DEF DeviceStep, Troubles, TypeOK
  <2>2. hang'[d] = "teardown"
    BY <1>2 DEF TypeOK
  <2>3. DeviceInv(d)'
    BY <1>1, <1>2, <2>2 DEF DeviceInv, Pending, Terminal, Legs
  <2>4. /\ toCaller' \in [Devices -> Seq(Back)]
        /\ \A m : In(m, toCaller'[d]) <=> In(m, toCaller[d]) \/ m = hang[d]
        /\ \A c \in Devices : c # d => toCaller'[c] = toCaller[c]
    <3>1. toCaller \in [Devices -> Seq(Back)] /\ hang[d] \in Back
      BY <1>1 DEF TypeOK, Back
    <3>2. /\ Append(toCaller[d], hang[d]) \in Seq(Back)
          /\ \A m : In(m, Append(toCaller[d], hang[d])) <=> In(m, toCaller[d]) \/ m = hang[d]
      BY <3>1, InAppend
    <3>3. QED
      BY <1>2, <3>1, <3>2
  <2>5. Speaks(d)
    BY <1>1, <1>2, <2>4 DEF Speaks, TypeOK, Out, Terminal
  <2>6. QED
    BY <2>1, <2>3, <2>5
<1>3. CASE Meet({"unsent"}) /\ hang' = [hang EXCEPT ![d] = "idle"] /\ UNCHANGED toCaller
  <2>1. Troubles /\ "unsent" \in trouble'
    BY <1>3, MeetFacts DEF Troubles, Kinds
  <2>2. DeviceStep(d)
    BY <1>1, <1>3, <2>1 DEF DeviceStep, TypeOK
  <2>3. hang'[d] = "idle"
    BY <1>3 DEF TypeOK
  <2>4. DeviceInv(d)'
    BY <1>1, <2>1, <2>3 DEF DeviceInv, Pending, Terminal, Legs
  <2>5. Speaks(d)
    BY <1>1, <1>3, <2>1 DEF Speaks, TypeOK, Out, Back, Terminal
  <2>6. QED
    BY <2>2, <2>4, <2>5
<1>4. QED
  BY <1>2, <1>3 DEF CalleeHangShip

\* ingestCallOffer: the ring timer is armed with the row.
LEMMA RecvOfferStep ==
    ASSUME TypeOK, NEW d \in Devices, DeviceInv(d), RecvOffer(d)
    PROVE  DeviceStep(d) /\ DeviceInv(d)' /\ Speaks(d)
<1>1. PICK i \in DOMAIN toDev[d] : toDev[d][i] = "offer" /\ FromCaller(d, i, {})
  BY DEF RecvOffer
<1>2. UNCHANGED <<callerVars, clegs, answer, hang, creader, toCaller>>
  BY DEF RecvOffer
<1>3. /\ toDev' \in [Devices -> Seq(Out)] /\ Troubles /\ In("offer", toDev[d])
      /\ \A c \in Devices : \A m : In(m, toDev'[c]) => In(m, toDev[c])
      /\ \A c \in Devices : In("end", toDev[c]) => In("end", toDev'[c])
  BY <1>1, FromCallerFacts DEF Kinds
<1>4. CASE /\ crow[d] = "none" /\ crow' = [crow EXCEPT ![d] = "ringing"]
           /\ ring' = [ring EXCEPT ![d] = "armed"]
  <2>1. DeviceStep(d)
    BY <1>2, <1>3, <1>4 DEF DeviceStep, TypeOK, Status
  <2>2. crow'[d] = "ringing" /\ ring'[d] = "armed"
    BY <1>4 DEF TypeOK
  <2>3. DeviceInv(d)'
    BY <1>2, <1>3, <1>4, <2>2 DEF DeviceInv, Pending, Troubles, Terminal, Legs
  <2>4. Speaks(d)
    BY <1>2, <1>3, <1>4, <2>2 DEF Speaks, TypeOK, Back, Terminal
  <2>5. QED
    BY <2>1, <2>3, <2>4
<1>5. CASE UNCHANGED <<crow, ring>>
  <2>1. DeviceStep(d)
    BY <1>2, <1>3, <1>5 DEF DeviceStep, TypeOK
  <2>2. DeviceInv(d)'
    BY <1>2, <1>3, <1>5 DEF DeviceInv, Pending, Troubles, Terminal, Legs
  <2>3. Speaks(d)
    BY <1>2, <1>3, <1>5 DEF Speaks, TypeOK, Back, Terminal
  <2>4. QED
    BY <2>1, <2>2, <2>3
<1>6. QED
  BY <1>4, <1>5 DEF RecvOffer

\* applyCallTransition on a called device: an end it cannot write down is lost.
LEMMA CalleeRecvEndStep ==
    ASSUME TypeOK, NEW d \in Devices, DeviceInv(d), CalleeRecvEnd(d)
    PROVE  DeviceStep(d) /\ DeviceInv(d)' /\ Speaks(d)
<1>1. UNCHANGED <<callerVars, clegs, ring, answer, hang, toCaller>>
  BY DEF CalleeRecvEnd
<1>2. PICK i \in DOMAIN toDev[d] :
        /\ toDev[d][i] = "end"
        /\ \/ CMove(d, "ended") /\ creader' = [creader EXCEPT ![d] = "teardown"] /\ FromCaller(d, i, {})
           \/ ~LegalTransition(crow[d], "ended") /\ UNCHANGED <<crow, creader>> /\ FromCaller(d, i, {})
           \/ LegalTransition(crow[d], "ended") /\ UNCHANGED <<crow, creader>> /\ FromCaller(d, i, {"calleewrite"})
  BY DEF CalleeRecvEnd
<1>3. PICK K \in SUBSET Kinds :
        /\ FromCaller(d, i, K)
        /\ K = {} \/ (UNCHANGED <<crow, creader>> /\ "calleewrite" \in K)
        /\ \/ CMove(d, "ended") /\ creader' = [creader EXCEPT ![d] = "teardown"]
           \/ ~LegalTransition(crow[d], "ended") /\ UNCHANGED <<crow, creader>>
           \/ UNCHANGED <<crow, creader>> /\ "calleewrite" \in K
  BY <1>2 DEF Kinds
<1>4. /\ toDev' \in [Devices -> Seq(Out)] /\ Troubles /\ K \subseteq trouble'
      /\ \A c \in Devices : \A m : In(m, toDev'[c]) => In(m, toDev[c])
      /\ \A c \in Devices : \A m : In(m, toDev[c]) /\ c # d => In(m, toDev'[c])
  BY <1>3, FromCallerFacts
<1>5. CASE CMove(d, "ended") /\ creader' = [creader EXCEPT ![d] = "teardown"]
  <2>1. DeviceStep(d)
    BY <1>1, <1>4, <1>5 DEF CMove, DeviceStep, TypeOK, Status, Terminal
  <2>2. /\ crow'[d] = "ended" /\ creader'[d] = "teardown"
        /\ crow[d] \in {"offered", "ringing", "accepted"}
    BY <1>5 DEF CMove, LegalTransition, TypeOK
  <2>3. DeviceInv(d)'
    BY <1>1, <1>4, <2>2 DEF DeviceInv, Pending, Troubles, Terminal, Legs
  <2>4. Speaks(d)
    BY <1>1, <1>4, <2>2 DEF Speaks, TypeOK, Back, Terminal
  <2>5. QED
    BY <2>1, <2>3, <2>4
<1>6. CASE UNCHANGED <<crow, creader>> /\ (~LegalTransition(crow[d], "ended") \/ "calleewrite" \in K)
  <2>1. DeviceStep(d)
    BY <1>1, <1>4, <1>6 DEF DeviceStep, TypeOK
  <2>2. DeviceInv(d)'
    BY <1>1, <1>4, <1>6 DEF DeviceInv, Pending, Troubles, Terminal, Legs
  <2>3. crow[d] # "accepted" \/ "calleewrite" \in trouble'
    BY <1>4, <1>6 DEF LegalTransition
  <2>4. Speaks(d)
    BY <1>1, <1>4, <1>6, <2>3 DEF Speaks, TypeOK, Back
  <2>5. QED
    BY <2>1, <2>2, <2>4
<1>7. QED
  BY <1>3, <1>5, <1>6

-----------------------------------------------------------------------------
(* What the caller's steps do to the talk between them *)

CallerTyped ==
    /\ row' \in CallRow /\ legs' \subseteq Legs /\ timer' \in BOOLEAN /\ rearmed' \in 0 .. Rearms
    /\ th' \in [Threads -> Thread] /\ Troubles
    /\ toDev' \in [Devices -> Seq(Out)] /\ toCaller' \in [Devices -> Seq(Back)]
    /\ UNCHANGED <<calleeVars, lost>>

\* A step of the caller keeps the types.
LEMMA CallerTypes ==
    ASSUME TypeOK, CallerTyped
    PROVE  TypeOK'
<1>1. /\ row' \in [status : Status, ans : Devices \union {None}, stopped : SUBSET Devices]
      /\ legs' \subseteq Legs /\ timer' \in BOOLEAN /\ rearmed' \in 0 .. Rearms
      /\ th' \in [Threads -> Thread]
      /\ lost' \subseteq Devices /\ trouble' \subseteq Kinds /\ Cardinality(trouble') <= MaxTrouble
  BY DEF CallerTyped, CallRow, Troubles, TypeOK
<1>2. /\ crow' \in [Devices -> Status] /\ clegs' \in [Devices -> SUBSET Legs]
      /\ ring' \in [Devices -> {"off", "armed", "firing", "teardown"}]
      /\ answer' \in [Devices -> {"idle", "sender", "receiver", "move", "undo", "ship", "unsent", "fail"}]
      /\ hang' \in [Devices -> {"idle", "reject", "end", "teardown"}]
      /\ creader' \in [Devices -> {"idle", "teardown"}]
  BY DEF CallerTyped, calleeVars, TypeOK
<1>3. /\ toDev' \in [Devices -> Seq({"offer", "end"})]
      /\ toCaller' \in [Devices -> Seq({"accept", "reject", "end"})]
  BY DEF CallerTyped, Out, Back
<1>4. QED
  BY <1>1, <1>2, <1>3 DEF TypeOK

\* What a typed state gives the steps below.
LEMMA TypeFacts ==
    ASSUME TypeOK
    PROVE  /\ row \in CallRow /\ legs \subseteq Legs /\ timer \in BOOLEAN /\ rearmed \in 0 .. Rearms
           /\ th \in [Threads -> Thread]
           /\ toDev \in [Devices -> Seq(Out)] /\ toCaller \in [Devices -> Seq(Back)]
           /\ trouble \subseteq Kinds /\ Cardinality(trouble) <= MaxTrouble
BY DEF TypeOK, CallRow, Out, Back

\* A step between two of which nothing is said or heard.
Carried ==
    /\ \A d \in Devices : \A m : In(m, toDev[d]) => In(m, toDev'[d])
    /\ \A d \in Devices : In("offer", toDev'[d]) => In("offer", toDev[d]) \/ row.status # "none"
    /\ trouble \subseteq trouble' /\ UNCHANGED <<calleeVars, lost>>
    /\ row'.status = "none" => row.status = "none"

\* The words of the handlers and of the timer are kept, or have been sent.
SendKept(t) ==
    \A d \in Devices : th[t].pc = "ship" /\ d \in th[t].devs =>
        \/ th'[t].pc = "ship" /\ d \in th'[t].devs
        \/ In("end", toDev'[d]) \/ "unsent" \in trouble'

\* A live call that ends is told to the device that has it.
TellsWinner ==
    row.status \in {"offered", "accepted"} =>
        \/ row'.status = row.status
        \/ \E t \in {"hangup", "timer", "reader"} : th'[t].pc = "ship" /\ (row.ans # None => row.ans \in th'[t].devs)
        \/ row.ans = None
        \/ "unsent" \in trouble'

\* A step of another goroutine than the reader keeps the talk.
LEMMA TalkAside ==
    ASSUME TypeOK, TalkInv, Carried, toCaller' = toCaller, th'["reader"] = th["reader"],
           row'.ans = row.ans, SendKept("hangup"), SendKept("timer"), TellsWinner
    PROVE  TalkInv'
<1>1. NoneAsked'
  BY DEF TalkInv, NoneAsked, Carried, calleeVars
<1>2. ASSUME NEW d \in Devices
      PROVE  SaysSo(d)' /\ AnswerHeard(d)' /\ EndTold(d)'
  <2>1. /\ SaysSo(d) /\ AnswerHeard(d) /\ EndTold(d) /\ crow' = crow /\ answer' = answer
        /\ lost' = lost
        /\ row.ans = d => row.ans # None
        /\ trouble \subseteq trouble' /\ (In("end", toDev[d]) => In("end", toDev'[d]))
    BY CallsAssumption DEF TalkInv, Carried, calleeVars
  <2>2. SaysSo(d)'
    BY <2>1 DEF SaysSo, Reads, Terminal
  <2>3. AnswerHeard(d)'
    BY <2>1 DEF AnswerHeard, Silenced, Restarted
  <2>4. EndTold(d)'
    <3>1. SUFFICES ASSUME crow[d] = "accepted", row.ans = d
                   PROVE  \/ row'.status = "accepted"
                          \/ row'.status = "offered" /\ th'["reader"].pc \in {"spawn", "accept", "failans"}
                          \/ \E t \in {"hangup", "timer", "reader"} : th'[t].pc = "ship" /\ d \in th'[t].devs
                          \/ In("end", toDev'[d])
                          \/ Silenced' \/ Restarted'
      BY <2>1 DEF EndTold
    <3>2. CASE row.status = "accepted" \/ (row.status = "offered" /\ th["reader"].pc \in {"spawn", "accept", "failans"})
      BY <2>1, <3>1, <3>2 DEF TellsWinner, Silenced
    <3>3. ASSUME NEW t \in {"hangup", "timer", "reader"}, th[t].pc = "ship", d \in th[t].devs
          PROVE  \/ \E u \in {"hangup", "timer", "reader"} : th'[u].pc = "ship" /\ d \in th'[u].devs
                 \/ In("end", toDev'[d]) \/ Silenced'
      BY <3>3 DEF SendKept, Silenced
    <3>4. CASE In("end", toDev[d]) \/ Silenced \/ Restarted
      BY <2>1, <3>4 DEF Silenced, Restarted
    <3>5. QED
      BY <2>1, <3>1, <3>2, <3>3, <3>4 DEF EndTold
  <2>5. QED
    BY <2>2, <2>3, <2>4
<1>3. QED
  BY <1>1, <1>2 DEF TalkInv

\* Starting the sender leg is no news to anybody.
LEMMA StartSpawnTalk ==
    ASSUME CallInv, StartSpawn
    PROVE  TypeOK' /\ TalkInv'
<1>0. /\ TypeOK /\ TalkInv /\ CallerInv
      /\ row \in CallRow /\ legs \subseteq Legs /\ timer \in BOOLEAN /\ rearmed \in 0 .. Rearms
      /\ th \in [Threads -> Thread]
      /\ toDev \in [Devices -> Seq(Out)] /\ toCaller \in [Devices -> Seq(Back)]
      /\ trouble \subseteq Kinds /\ Cardinality(trouble) <= MaxTrouble
  BY TypeFacts DEF CallInv
<1>t. TypeOK
  BY <1>0
<1>1. ASSUME legs' = {"sender"} \/ legs' = legs,
             UNCHANGED <<row, timer, rearmed>>,
             UNCHANGED <<calleeVars, lost, net>>,
             At("start", "new"),
             Go("start", "put"),
             Troubles
      PROVE  TypeOK' /\ TalkInv'
  <2>1. th' \in [Threads -> Thread] /\ th'["start"].pc = "put" /\ Others("start")
    BY <1>t, <1>1, GoFacts DEF Threads, Place
  <2>2. /\ Troubles
        /\ row' \in CallRow /\ row'.ans = row.ans /\ row'.status = row.status
    BY <1>0, <1>1, MeetFacts DEF Troubles, CallerFault, Transition, LegalTransition, Kinds,
       CallRow, Status, Terminal, At
  <2>3. CallerTyped
    BY <1>0, <1>1, <2>1, <2>2 DEF CallerTyped, Transition, Troubles, net, Legs, Status,
       Terminal, CallRow
  <2>4. /\ Carried /\ toCaller' = toCaller /\ th'["reader"] = th["reader"]
        /\ SendKept("hangup") /\ SendKept("timer") /\ TellsWinner
    BY <1>0, <1>1, <2>1, <2>2 DEF Carried, SendKept, TellsWinner, Others, Threads, net,
       Troubles, Terminal, At
  <2>5. QED
    BY <1>0, <2>2, <2>3, <2>4, CallerTypes, TalkAside
<1>2. ASSUME legs' = legs,
             UNCHANGED <<row, timer, rearmed>>,
             UNCHANGED <<calleeVars, lost, net>>,
             At("start", "new"),
             Return("start"),
             Troubles
      PROVE  TypeOK' /\ TalkInv'
  <2>1. th' \in [Threads -> Thread] /\ th'["start"].pc = "idle" /\ Others("start")
    BY <1>t, <1>2, ReturnFacts DEF Threads
  <2>2. /\ Troubles
        /\ row' \in CallRow /\ row'.ans = row.ans /\ row'.status = row.status
    BY <1>0, <1>2, MeetFacts DEF Troubles, CallerFault, Transition, LegalTransition, Kinds,
       CallRow, Status, Terminal, At
  <2>3. CallerTyped
    BY <1>0, <1>2, <2>1, <2>2 DEF CallerTyped, Transition, Troubles, net, Legs, Status,
       Terminal, CallRow
  <2>4. /\ Carried /\ toCaller' = toCaller /\ th'["reader"] = th["reader"]
        /\ SendKept("hangup") /\ SendKept("timer") /\ TellsWinner
    BY <1>0, <1>2, <2>1, <2>2 DEF Carried, SendKept, TellsWinner, Others, Threads, net,
       Troubles, Terminal, At
  <2>5. QED
    BY <1>0, <2>2, <2>3, <2>4, CallerTypes, TalkAside
<1>3. QED
  BY <1>0, <1>1, <1>2, MeetFacts DEF StartSpawn, Troubles, Kinds

\* The row is stored before anybody is asked.
LEMMA StartPutTalk ==
    ASSUME CallInv, StartPut
    PROVE  TypeOK' /\ TalkInv'
<1>0. /\ TypeOK /\ TalkInv /\ CallerInv
      /\ row \in CallRow /\ legs \subseteq Legs /\ timer \in BOOLEAN /\ rearmed \in 0 .. Rearms
      /\ th \in [Threads -> Thread]
      /\ toDev \in [Devices -> Seq(Out)] /\ toCaller \in [Devices -> Seq(Back)]
      /\ trouble \subseteq Kinds /\ Cardinality(trouble) <= MaxTrouble
  BY TypeFacts DEF CallInv
<1>t. TypeOK
  BY <1>0
<1>1. ASSUME row' = [row EXCEPT !.status = "offered"],
             UNCHANGED <<legs, timer, rearmed>>,
             UNCHANGED <<calleeVars, lost, net>>,
             At("start", "put"),
             Go("start", "offer"),
             Troubles,
             row.status = "none"
      PROVE  TypeOK' /\ TalkInv'
  <2>1. th' \in [Threads -> Thread] /\ th'["start"].pc = "offer" /\ Others("start")
    BY <1>t, <1>1, GoFacts DEF Threads, Place
  <2>2. /\ Troubles
        /\ row' \in CallRow /\ row'.ans = row.ans /\ row'.status = "offered"
    BY <1>0, <1>1, MeetFacts DEF Troubles, CallerFault, Transition, LegalTransition, Kinds,
       CallRow, Status, Terminal, At
  <2>3. CallerTyped
    BY <1>0, <1>1, <2>1, <2>2 DEF CallerTyped, Transition, Troubles, net, Legs, Status,
       Terminal, CallRow
  <2>4. /\ Carried /\ toCaller' = toCaller /\ th'["reader"] = th["reader"]
        /\ SendKept("hangup") /\ SendKept("timer") /\ TellsWinner
    BY <1>0, <1>1, <2>1, <2>2 DEF Carried, SendKept, TellsWinner, Others, Threads, net,
       Troubles, Terminal, At
  <2>5. QED
    BY <1>0, <2>2, <2>3, <2>4, CallerTypes, TalkAside
<1>2. ASSUME row' = row,
             UNCHANGED <<legs, timer, rearmed>>,
             UNCHANGED <<calleeVars, lost, net>>,
             At("start", "put"),
             Go("start", "teardown"),
             Troubles
      PROVE  TypeOK' /\ TalkInv'
  <2>1. th' \in [Threads -> Thread] /\ th'["start"].pc = "teardown" /\ Others("start")
    BY <1>t, <1>2, GoFacts DEF Threads, Place
  <2>2. /\ Troubles
        /\ row' \in CallRow /\ row'.ans = row.ans /\ row'.status = row.status
    BY <1>0, <1>2, MeetFacts DEF Troubles, CallerFault, Transition, LegalTransition, Kinds,
       CallRow, Status, Terminal, At
  <2>3. CallerTyped
    BY <1>0, <1>2, <2>1, <2>2 DEF CallerTyped, Transition, Troubles, net, Legs, Status,
       Terminal, CallRow
  <2>4. /\ Carried /\ toCaller' = toCaller /\ th'["reader"] = th["reader"]
        /\ SendKept("hangup") /\ SendKept("timer") /\ TellsWinner
    BY <1>0, <1>2, <2>1, <2>2 DEF Carried, SendKept, TellsWinner, Others, Threads, net,
       Troubles, Terminal, At
  <2>5. QED
    BY <1>0, <2>2, <2>3, <2>4, CallerTypes, TalkAside
<1>3. QED
  BY <1>0, <1>1, <1>2, MeetFacts DEF StartPut, CallerFault, Troubles, Kinds, CallerInv, RowKnown,
     At

\* An offer that reached nobody is trouble of its own.
LEMMA StartFailTalk ==
    ASSUME CallInv, StartFail
    PROVE  TypeOK' /\ TalkInv'
<1>0. /\ TypeOK /\ TalkInv /\ CallerInv
      /\ row \in CallRow /\ legs \subseteq Legs /\ timer \in BOOLEAN /\ rearmed \in 0 .. Rearms
      /\ th \in [Threads -> Thread]
      /\ toDev \in [Devices -> Seq(Out)] /\ toCaller \in [Devices -> Seq(Back)]
      /\ trouble \subseteq Kinds /\ Cardinality(trouble) <= MaxTrouble
  BY TypeFacts DEF CallInv
<1>t. TypeOK
  BY <1>0
<1>1. ASSUME Transition("failed"),
             UNCHANGED <<legs, rearmed>>,
             UNCHANGED <<calleeVars, lost, net>>,
             Go("start", "teardown"),
             "unsent" \in trouble
      PROVE  TypeOK' /\ TalkInv'
  <2>1. th' \in [Threads -> Thread] /\ th'["start"].pc = "teardown" /\ Others("start")
    BY <1>t, <1>1, GoFacts DEF Threads, Place
  <2>2. /\ Troubles
        /\ row' \in CallRow /\ row'.ans = row.ans /\ row'.status = "failed"
    BY <1>0, <1>1, MeetFacts DEF Troubles, CallerFault, Transition, LegalTransition, Kinds,
       CallRow, Status, Terminal, At
  <2>3. CallerTyped
    BY <1>0, <1>1, <2>1, <2>2 DEF CallerTyped, Transition, Troubles, net, Legs, Status,
       Terminal, CallRow
  <2>4. /\ Carried /\ toCaller' = toCaller /\ th'["reader"] = th["reader"]
        /\ SendKept("hangup") /\ SendKept("timer") /\ TellsWinner
    BY <1>0, <1>1, <2>1, <2>2 DEF Carried, SendKept, TellsWinner, Others, Threads, net,
       Troubles, Terminal, At
  <2>5. QED
    BY <1>0, <2>2, <2>3, <2>4, CallerTypes, TalkAside
<1>2. ASSUME row' = row,
             UNCHANGED <<legs, timer, rearmed>>,
             UNCHANGED <<calleeVars, lost, net>>,
             Go("start", "teardown"),
             Troubles
      PROVE  TypeOK' /\ TalkInv'
  <2>1. th' \in [Threads -> Thread] /\ th'["start"].pc = "teardown" /\ Others("start")
    BY <1>t, <1>2, GoFacts DEF Threads, Place
  <2>2. /\ Troubles
        /\ row' \in CallRow /\ row'.ans = row.ans /\ row'.status = row.status
    BY <1>0, <1>2, MeetFacts DEF Troubles, CallerFault, Transition, LegalTransition, Kinds,
       CallRow, Status, Terminal, At
  <2>3. CallerTyped
    BY <1>0, <1>2, <2>1, <2>2 DEF CallerTyped, Transition, Troubles, net, Legs, Status,
       Terminal, CallRow
  <2>4. /\ Carried /\ toCaller' = toCaller /\ th'["reader"] = th["reader"]
        /\ SendKept("hangup") /\ SendKept("timer") /\ TellsWinner
    BY <1>0, <1>2, <2>1, <2>2 DEF Carried, SendKept, TellsWinner, Others, Threads, net,
       Troubles, Terminal, At
  <2>5. QED
    BY <1>0, <2>2, <2>3, <2>4, CallerTypes, TalkAside
<1>3. QED
  BY <1>0, <1>1, <1>2, MeetFacts DEF StartFail, CallerFault, Troubles, Kinds, CallerInv,
     TroubleKnown, At

\* The devices not reached are no longer asked.
LEMMA StartSkipTalk ==
    ASSUME CallInv, StartSkip
    PROVE  TypeOK' /\ TalkInv'
<1>0. /\ TypeOK /\ TalkInv /\ CallerInv
      /\ row \in CallRow /\ legs \subseteq Legs /\ timer \in BOOLEAN /\ rearmed \in 0 .. Rearms
      /\ th \in [Threads -> Thread]
      /\ toDev \in [Devices -> Seq(Out)] /\ toCaller \in [Devices -> Seq(Back)]
      /\ trouble \subseteq Kinds /\ Cardinality(trouble) <= MaxTrouble
  BY TypeFacts DEF CallInv
<1>t. TypeOK
  BY <1>0
<1>1. ASSUME row' = [row EXCEPT !.stopped = @ \union th["start"].devs] \/ row' = row,
             UNCHANGED <<legs, timer, rearmed>>,
             UNCHANGED <<calleeVars, lost, net>>,
             Go("start", "arm"),
             Troubles
      PROVE  TypeOK' /\ TalkInv'
  <2>1. th' \in [Threads -> Thread] /\ th'["start"].pc = "arm" /\ Others("start")
    BY <1>t, <1>1, GoFacts DEF Threads, Place
  <2>2. /\ Troubles
        /\ row' \in CallRow /\ row'.ans = row.ans /\ row'.status = row.status
    BY <1>0, <1>1, ThreadIs, MeetFacts DEF Troubles, CallerFault, Transition, LegalTransition,
       Kinds, CallRow, Status, Terminal, At, Threads
  <2>3. CallerTyped
    BY <1>0, <1>1, <2>1, <2>2 DEF CallerTyped, Transition, Troubles, net, Legs, Status,
       Terminal, CallRow
  <2>4. /\ Carried /\ toCaller' = toCaller /\ th'["reader"] = th["reader"]
        /\ SendKept("hangup") /\ SendKept("timer") /\ TellsWinner
    BY <1>0, <1>1, <2>1, <2>2 DEF Carried, SendKept, TellsWinner, Others, Threads, net,
       Troubles, Terminal, At
  <2>5. QED
    BY <1>0, <2>2, <2>3, <2>4, CallerTypes, TalkAside
<1>2. QED
  BY <1>0, <1>1, MeetFacts DEF StartSkip, CallerFault, Troubles, Kinds

\* Arming the timer is no news to anybody.
LEMMA StartArmTalk ==
    ASSUME CallInv, StartArm
    PROVE  TypeOK' /\ TalkInv'
<1>0. /\ TypeOK /\ TalkInv /\ CallerInv
      /\ row \in CallRow /\ legs \subseteq Legs /\ timer \in BOOLEAN /\ rearmed \in 0 .. Rearms
      /\ th \in [Threads -> Thread]
      /\ toDev \in [Devices -> Seq(Out)] /\ toCaller \in [Devices -> Seq(Back)]
      /\ trouble \subseteq Kinds /\ Cardinality(trouble) <= MaxTrouble
  BY TypeFacts DEF CallInv
<1>t. TypeOK
  BY <1>0
<1>1. ASSUME UNCHANGED <<row, legs, rearmed, trouble>>,
             timer' = TRUE,
             UNCHANGED <<calleeVars, lost, net>>,
             Return("start")
      PROVE  TypeOK' /\ TalkInv'
  <2>1. th' \in [Threads -> Thread] /\ th'["start"].pc = "idle" /\ Others("start")
    BY <1>t, <1>1, ReturnFacts DEF Threads
  <2>2. /\ Troubles
        /\ row' \in CallRow /\ row'.ans = row.ans /\ row'.status = row.status
    BY <1>0, <1>1, MeetFacts DEF Troubles, CallerFault, Transition, LegalTransition, Kinds,
       CallRow, Status, Terminal, At
  <2>3. CallerTyped
    BY <1>0, <1>1, <2>1, <2>2 DEF CallerTyped, Transition, Troubles, net, Legs, Status,
       Terminal, CallRow
  <2>4. /\ Carried /\ toCaller' = toCaller /\ th'["reader"] = th["reader"]
        /\ SendKept("hangup") /\ SendKept("timer") /\ TellsWinner
    BY <1>0, <1>1, <2>1, <2>2 DEF Carried, SendKept, TellsWinner, Others, Threads, net,
       Troubles, Terminal, At
  <2>5. QED
    BY <1>0, <2>2, <2>3, <2>4, CallerTypes, TalkAside
<1>2. QED
  BY <1>0, <1>1, MeetFacts DEF StartArm

\* The caller hangs up: the device that has the call is among those told.
LEMMA HangUpTalk ==
    ASSUME CallInv, HangUp
    PROVE  TypeOK' /\ TalkInv'
<1>0. /\ TypeOK /\ TalkInv /\ CallerInv
      /\ row \in CallRow /\ legs \subseteq Legs /\ timer \in BOOLEAN /\ rearmed \in 0 .. Rearms
      /\ th \in [Threads -> Thread]
      /\ toDev \in [Devices -> Seq(Out)] /\ toCaller \in [Devices -> Seq(Back)]
      /\ trouble \subseteq Kinds /\ Cardinality(trouble) <= MaxTrouble
  BY TypeFacts DEF CallInv
<1>t. TypeOK
  BY <1>0
<1>1. ASSUME Transition("ended"),
             UNCHANGED <<legs, rearmed>>,
             UNCHANGED <<calleeVars, lost, net>>,
             At("hangup", "idle"),
             th' = [th EXCEPT !["hangup"] = [@ EXCEPT !.pc = "ship", !.devs = Recipients(row')]]
      PROVE  TypeOK' /\ TalkInv'
  <2>0. /\ row' \in CallRow /\ row'.ans = row.ans
        /\ Recipients(row') \in SUBSET Devices /\ (row.ans # None => Recipients(row') = {row.ans})
    <3>1. row' \in CallRow /\ row'.ans = row.ans
      BY <1>0, <1>1 DEF Transition, CallRow, Status, Terminal
    <3>2. QED
      BY <3>1, RecipientsType
  <2>a. PICK D \in SUBSET Devices : D = Recipients(row') /\ (row.ans # None => row.ans \in D)
    BY <2>0
  <2>b. "hangup" \in Threads /\ th' = [th EXCEPT !["hangup"] = [@ EXCEPT !.pc = "ship", !.devs = D]]
    BY <1>1, <2>a DEF Threads
  <2>1. /\ th' \in [Threads -> Thread] /\ th'["hangup"].pc = "ship" /\ Others("hangup")
        /\ th'["hangup"].devs = D
    BY <1>t, <2>b, SendFacts DEF Place
  <2>2. /\ Troubles
        /\ row' \in CallRow /\ row'.ans = row.ans /\ row'.status = "ended" /\ th["hangup"].pc = "idle"
    BY <1>0, <1>1, MeetFacts DEF Troubles, CallerFault, Transition, LegalTransition, Kinds,
       CallRow, Status, Terminal, At
  <2>3. CallerTyped
    BY <1>0, <1>1, <2>1, <2>2 DEF CallerTyped, Transition, Troubles, net, Legs, Status,
       Terminal, CallRow
  <2>4. /\ Carried /\ toCaller' = toCaller /\ th'["reader"] = th["reader"]
        /\ SendKept("hangup") /\ SendKept("timer") /\ TellsWinner
    BY <1>0, <1>1, <2>a, <2>1, <2>2 DEF Carried, SendKept, TellsWinner, Others, Threads, net,
       Troubles, Terminal, At
  <2>5. QED
    BY <1>0, <2>2, <2>3, <2>4, CallerTypes, TalkAside
<1>2. QED
  BY <1>0, <1>1, MeetFacts DEF HangUp

\* A timer that fires tells nobody yet.
LEMMA TimerFireTalk ==
    ASSUME CallInv, TimerFire
    PROVE  TypeOK' /\ TalkInv'
<1>0. /\ TypeOK /\ TalkInv /\ CallerInv
      /\ row \in CallRow /\ legs \subseteq Legs /\ timer \in BOOLEAN /\ rearmed \in 0 .. Rearms
      /\ th \in [Threads -> Thread]
      /\ toDev \in [Devices -> Seq(Out)] /\ toCaller \in [Devices -> Seq(Back)]
      /\ trouble \subseteq Kinds /\ Cardinality(trouble) <= MaxTrouble
  BY TypeFacts DEF CallInv
<1>t. TypeOK
  BY <1>0
<1>1. ASSUME UNCHANGED <<row, legs, rearmed, trouble>>,
             timer' = FALSE,
             UNCHANGED <<calleeVars, lost, net>>,
             At("timer", "idle"),
             Go("timer", "fail")
      PROVE  TypeOK' /\ TalkInv'
  <2>1. th' \in [Threads -> Thread] /\ th'["timer"].pc = "fail" /\ Others("timer")
    BY <1>t, <1>1, GoFacts DEF Threads, Place
  <2>2. /\ Troubles
        /\ row' \in CallRow /\ row'.ans = row.ans /\ row'.status = row.status /\ th["timer"].pc = "idle"
    BY <1>0, <1>1, MeetFacts DEF Troubles, CallerFault, Transition, LegalTransition, Kinds,
       CallRow, Status, Terminal, At
  <2>3. CallerTyped
    BY <1>0, <1>1, <2>1, <2>2 DEF CallerTyped, Transition, Troubles, net, Legs, Status,
       Terminal, CallRow
  <2>4. /\ Carried /\ toCaller' = toCaller /\ th'["reader"] = th["reader"]
        /\ SendKept("hangup") /\ SendKept("timer") /\ TellsWinner
    BY <1>0, <1>1, <2>1, <2>2 DEF Carried, SendKept, TellsWinner, Others, Threads, net,
       Troubles, Terminal, At
  <2>5. QED
    BY <1>0, <2>2, <2>3, <2>4, CallerTypes, TalkAside
<1>2. ASSUME UNCHANGED <<row, legs, rearmed, trouble, th>>,
             timer' = FALSE,
             UNCHANGED <<calleeVars, lost, net>>
      PROVE  TypeOK' /\ TalkInv'
  <2>1. th' = th
    BY <1>t, <1>2, <1>0
  <2>2. /\ Troubles
        /\ row' \in CallRow /\ row'.ans = row.ans /\ row'.status = row.status
    BY <1>0, <1>2, MeetFacts DEF Troubles, CallerFault, Transition, LegalTransition, Kinds,
       CallRow, Status, Terminal, At
  <2>3. CallerTyped
    BY <1>0, <1>2, <2>1, <2>2 DEF CallerTyped, Transition, Troubles, net, Legs, Status,
       Terminal, CallRow
  <2>4. /\ Carried /\ toCaller' = toCaller /\ th'["reader"] = th["reader"]
        /\ SendKept("hangup") /\ SendKept("timer") /\ TellsWinner
    BY <1>0, <1>2, <2>1, <2>2 DEF Carried, SendKept, TellsWinner, Others, Threads, net,
       Troubles, Terminal, At
  <2>5. QED
    BY <1>0, <2>2, <2>3, <2>4, CallerTypes, TalkAside
<1>3. QED
  BY <1>0, <1>1, <1>2, MeetFacts DEF TimerFire

\* The timer ends a call nobody has.
LEMMA TimerFailTalk ==
    ASSUME CallInv, TimerFail
    PROVE  TypeOK' /\ TalkInv'
<1>0. /\ TypeOK /\ TalkInv /\ CallerInv
      /\ row \in CallRow /\ legs \subseteq Legs /\ timer \in BOOLEAN /\ rearmed \in 0 .. Rearms
      /\ th \in [Threads -> Thread]
      /\ toDev \in [Devices -> Seq(Out)] /\ toCaller \in [Devices -> Seq(Back)]
      /\ trouble \subseteq Kinds /\ Cardinality(trouble) <= MaxTrouble
  BY TypeFacts DEF CallInv
<1>t. TypeOK
  BY <1>0
<1>r. Rearm => timer' \in {timer, TRUE} /\ rearmed' \in 0 .. Rearms
  <2>1. CASE rearmed < Rearms
    <3>1. Rearm => timer' = TRUE /\ rearmed' = rearmed + 1
      BY <2>1 DEF Rearm
    <3>2. rearmed + 1 \in 0 .. Rearms
      BY <1>0, <2>1, CallsAssumption
    <3>3. QED
      BY <3>1, <3>2
  <2>2. CASE ~(rearmed < Rearms)
    <3>1. Rearm => timer' = timer /\ rearmed' = rearmed
      BY <2>2 DEF Rearm
    <3>2. QED
      BY <1>0, <3>1
  <2>3. QED
    BY <2>1, <2>2
<1>1. ASSUME Transition("failed"),
             Unanswered(row),
             UNCHANGED <<legs, rearmed>>,
             UNCHANGED <<calleeVars, lost, net>>,
             At("timer", "fail"),
             th' = [th EXCEPT !["timer"] = [@ EXCEPT !.pc = "ship", !.devs = Recipients(row')]]
      PROVE  TypeOK' /\ TalkInv'
  <2>0. /\ row' \in CallRow /\ row'.ans = row.ans
        /\ Recipients(row') \in SUBSET Devices /\ (row.ans # None => Recipients(row') = {row.ans})
    <3>1. row' \in CallRow /\ row'.ans = row.ans
      BY <1>0, <1>1 DEF Transition, CallRow, Status, Terminal
    <3>2. QED
      BY <3>1, RecipientsType
  <2>a. PICK D \in SUBSET Devices : D = Recipients(row') /\ (row.ans # None => row.ans \in D)
    BY <2>0
  <2>b. "timer" \in Threads /\ th' = [th EXCEPT !["timer"] = [@ EXCEPT !.pc = "ship", !.devs = D]]
    BY <1>1, <2>a DEF Threads
  <2>1. /\ th' \in [Threads -> Thread] /\ th'["timer"].pc = "ship" /\ Others("timer")
        /\ th'["timer"].devs = D
    BY <1>t, <2>b, SendFacts DEF Place
  <2>2. /\ Troubles
        /\ row' \in CallRow /\ row'.ans = row.ans /\ row'.status = "failed" /\ th["timer"].pc = "fail" /\ row.ans = None
    BY <1>0, <1>1, MeetFacts DEF Troubles, CallerFault, Transition, LegalTransition, Kinds,
       CallRow, Status, Terminal, At, Unanswered
  <2>3. CallerTyped
    BY <1>0, <1>1, <2>1, <2>2 DEF CallerTyped, Transition, Troubles, net, Legs, Status,
       Terminal, CallRow
  <2>4. /\ Carried /\ toCaller' = toCaller /\ th'["reader"] = th["reader"]
        /\ SendKept("hangup") /\ SendKept("timer") /\ TellsWinner
    BY <1>0, <1>1, <2>a, <2>1, <2>2 DEF Carried, SendKept, TellsWinner, Others, Threads, net,
       Troubles, Terminal, At
  <2>5. QED
    BY <1>0, <2>2, <2>3, <2>4, CallerTypes, TalkAside
<1>2. ASSUME row' = row,
             timer' \in {timer, TRUE},
             rearmed' \in 0 .. Rearms,
             UNCHANGED legs,
             UNCHANGED <<calleeVars, lost, net>>,
             Troubles,
             At("timer", "fail"),
             Return("timer")
      PROVE  TypeOK' /\ TalkInv'
  <2>1. th' \in [Threads -> Thread] /\ th'["timer"].pc = "idle" /\ Others("timer")
    BY <1>t, <1>2, ReturnFacts DEF Threads
  <2>2. /\ Troubles
        /\ row' \in CallRow /\ row'.ans = row.ans /\ row'.status = row.status /\ th["timer"].pc = "fail"
    BY <1>0, <1>2, MeetFacts DEF Troubles, CallerFault, Transition, LegalTransition, Kinds,
       CallRow, Status, Terminal, At
  <2>3. CallerTyped
    BY <1>0, <1>2, <2>1, <2>2 DEF CallerTyped, Transition, Troubles, net, Legs, Status,
       Terminal, CallRow
  <2>4. /\ Carried /\ toCaller' = toCaller /\ th'["reader"] = th["reader"]
        /\ SendKept("hangup") /\ SendKept("timer") /\ TellsWinner
    BY <1>0, <1>2, <2>1, <2>2 DEF Carried, SendKept, TellsWinner, Others, Threads, net,
       Troubles, Terminal, At
  <2>5. QED
    BY <1>0, <2>2, <2>3, <2>4, CallerTypes, TalkAside
<1>3. QED
  BY <1>0, <1>1, <1>2, <1>r, MeetFacts DEF TimerFail, CallerFault, Troubles, Kinds

\* The offers leave when the row is there.
LEMMA StartOfferTalk ==
    ASSUME CallInv, StartOffer
    PROVE  TypeOK' /\ TalkInv'
<1>0. TypeOK /\ TalkInv /\ row.status # "none"
  BY DEF CallInv, CallerInv, RowKnown, StartOffer, At
<1>1. PICK ok \in SUBSET Devices :
          /\ Ship(ok, "offer") /\ Meet(Unsent(Devices, ok))
          /\ th' = [th EXCEPT !["start"] = [@ EXCEPT
                      !.pc = IF ok = {} THEN "fail" ELSE IF ok = Devices THEN "arm" ELSE "skip",
                      !.devs = Devices \ ok]]
  BY DEF StartOffer
<1>2. PICK p \in Place : p = IF ok = {} THEN "fail" ELSE IF ok = Devices THEN "arm" ELSE "skip"
  BY DEF Place
<1>3. PICK D \in SUBSET Devices : D = Devices \ ok
  OBVIOUS
<1>4. "start" \in Threads /\ th' = [th EXCEPT !["start"] = [@ EXCEPT !.pc = p, !.devs = D]]
  BY <1>1, <1>2, <1>3 DEF Threads
<1>5. th' \in [Threads -> Thread] /\ Others("start")
  BY <1>0, <1>4, SendFacts
<1>6. Troubles
  BY <1>0, <1>1, MeetFacts, UnsentFacts DEF Troubles
<1>7. /\ toDev' \in [Devices -> Seq(Out)]
      /\ \A d \in Devices : \A m : In(m, toDev[d]) => In(m, toDev'[d])
  BY <1>0, <1>1, ShipFacts DEF Out
<1>8. UNCHANGED <<row, legs, timer, rearmed, calleeVars, lost, toCaller>>
  BY DEF StartOffer
<1>9. CallerTyped
  BY <1>0, <1>5, <1>6, <1>7, <1>8, TypeFacts DEF CallerTyped
<1>10. /\ Carried /\ th'["reader"] = th["reader"] /\ SendKept("hangup") /\ SendKept("timer")
       /\ TellsWinner
  BY <1>0, <1>5, <1>6, <1>7, <1>8 DEF Carried, SendKept, TellsWinner, Others, Threads, Troubles
<1>11. QED
  BY <1>0, <1>8, <1>9, <1>10, CallerTypes, TalkAside

\* The ends of a hang-up leave, or the step met "unsent".
LEMMA HangUpShipTalk ==
    ASSUME CallInv, HangUpShip
    PROVE  TypeOK' /\ TalkInv'
<1>0. TypeOK /\ TalkInv
  BY DEF CallInv
<1>1. /\ End(th["hangup"].devs, {}) /\ (Return("hangup") \/ Go("hangup", "teardown"))
  BY DEF HangUpShip, End
<1>2. th' \in [Threads -> Thread] /\ Others("hangup")
  BY <1>0, <1>1, ReturnFacts, GoFacts DEF Threads, Place
<1>3. /\ toDev' \in [Devices -> Seq(Out)] /\ Troubles
      /\ \A d \in Devices : d \in th["hangup"].devs => In("end", toDev'[d]) \/ "unsent" \in trouble'
      /\ \A d \in Devices : \A m : In(m, toDev[d]) => In(m, toDev'[d])
      /\ \A d \in Devices : In("offer", toDev'[d]) => In("offer", toDev[d])
  BY <1>0, <1>1, EndFacts DEF Troubles, Kinds
<1>4. UNCHANGED <<row, legs, timer, rearmed, calleeVars, lost, toCaller>>
  BY DEF HangUpShip
<1>5. CallerTyped
  BY <1>0, <1>2, <1>3, <1>4, TypeFacts DEF CallerTyped
<1>6. /\ Carried /\ th'["reader"] = th["reader"] /\ SendKept("hangup") /\ SendKept("timer")
      /\ TellsWinner
  BY <1>0, <1>2, <1>3, <1>4 DEF Carried, SendKept, TellsWinner, Others, Threads, Troubles
<1>7. QED
  BY <1>0, <1>4, <1>5, <1>6, CallerTypes, TalkAside

-----------------------------------------------------------------------------
(* The caller's reader and the talk *)

\* The reader has done what it had to say: a word of the others is kept, and
\* what d heard, or will hear, is settled one device at a time.
LEMMA TalkReader ==
    ASSUME TypeOK, TalkInv, Carried, Others("reader"),
           row.ans # None => row'.ans = row.ans,
           \A d \in Devices : row'.ans = d => row.ans = d \/ Reads(d, {"accept"}),
           \A d \in Devices : \A m : In(m, toCaller'[d]) => In(m, toCaller[d]),
           \A d \in Devices, k \in Back : Reads(d, {k})' => Reads(d, {k}) \/ In(k, toCaller[d]),
           th'["reader"].pc \in {"stop", "move"} =>
               th'["reader"].kind \in {"reject", "end"} /\ row'.ans \in {None, th'["reader"].dev},
           th'["reader"].pc \in {"claim", "spawn", "accept", "failans"} => th'["reader"].kind = "accept",
           th'["reader"] \in Thread,
           \A d \in Devices : crow[d] = "accepted" /\ row'.ans # d =>
               \/ In("accept", toCaller[d]) =>
                     In("accept", toCaller'[d]) \/ (th'["reader"].pc = "claim" /\ th'["reader"].dev = d)
               \/ Silenced' \/ In("end", toDev'[d]),
           \A d \in Devices : crow[d] = "accepted" /\ th["reader"].pc = "claim" /\ th["reader"].dev = d =>
               row'.ans = d \/ In("end", toDev'[d]) \/ Silenced',
           \A d \in Devices : EndTold(d)'
    PROVE  TalkInv'
<1>1. NoneAsked'
  BY DEF TalkInv, NoneAsked, Carried, calleeVars
<1>2. ASSUME NEW d \in Devices
      PROVE  SaysSo(d)' /\ AnswerHeard(d)'
  <2>1. /\ SaysSo(d) /\ AnswerHeard(d) /\ crow' = crow /\ answer' = answer /\ lost' = lost
        /\ trouble \subseteq trouble' /\ (In("end", toDev[d]) => In("end", toDev'[d]))
    BY DEF TalkInv, Carried, calleeVars
  <2>2. Reads(d, {"accept"})' => Reads(d, {"accept"}) \/ In("accept", toCaller[d])
    BY DEF Back
  <2>3. Reads(d, {"reject", "end"})' =>
            Reads(d, {"reject", "end"}) \/ In("reject", toCaller[d]) \/ In("end", toCaller[d])
    <3>1. Reads(d, {"reject", "end"})' => Reads(d, {"reject"})' \/ Reads(d, {"end"})'
      BY DEF Reads
    <3>2. /\ Reads(d, {"reject"})' => Reads(d, {"reject"}) \/ In("reject", toCaller[d])
          /\ Reads(d, {"end"})' => Reads(d, {"end"}) \/ In("end", toCaller[d])
      BY DEF Back
    <3>3. Reads(d, {"reject"}) \/ Reads(d, {"end"}) => Reads(d, {"reject", "end"})
      BY DEF Reads
    <3>4. QED
      BY <3>1, <3>2, <3>3
  <2>4. SaysSo(d)'
    <3>1. /\ In("accept", toCaller[d]) \/ Reads(d, {"accept"}) \/ row.ans = d
                => crow[d] \in Terminal \union {"accepted"}
          /\ In("reject", toCaller[d]) \/ In("end", toCaller[d]) \/ Reads(d, {"reject", "end"})
                => crow[d] \in Terminal
      BY <2>1 DEF SaysSo
    <3>2. /\ In("accept", toCaller'[d]) => In("accept", toCaller[d])
          /\ In("reject", toCaller'[d]) => In("reject", toCaller[d])
          /\ In("end", toCaller'[d]) => In("end", toCaller[d])
          /\ row'.ans = d => row.ans = d \/ Reads(d, {"accept"})
      OBVIOUS
    <3>3. /\ In("accept", toCaller'[d]) \/ Reads(d, {"accept"})' \/ row'.ans = d
                => crow'[d] \in Terminal \union {"accepted"}
          /\ In("reject", toCaller'[d]) \/ In("end", toCaller'[d]) \/ Reads(d, {"reject", "end"})'
                => crow'[d] \in Terminal
      BY <2>1, <2>2, <2>3, <3>1, <3>2
    <3>4. QED
      BY <3>3 DEF SaysSo, Terminal
  <2>5. AnswerHeard(d)'
    <3>1. SUFFICES ASSUME crow[d] = "accepted", row'.ans # d, ~In("end", toDev'[d]), ~Silenced',
                          ~(d \in lost /\ Restarted)
                   PROVE  \/ answer'[d] = "ship" \/ In("accept", toCaller'[d])
                          \/ th'["reader"].pc = "claim" /\ th'["reader"].dev = d
      BY <2>1 DEF AnswerHeard, Restarted
    <3>2. row.ans # d /\ ~Silenced
      BY <2>1, <3>1, CallsAssumption DEF Silenced
    <3>3. QED
      BY <2>1, <3>1, <3>2 DEF AnswerHeard
  <2>6. QED
    BY <2>4, <2>5
<1>3. QED
  BY <1>1, <1>2 DEF TalkInv

\* The reader's part of EndTold.
LEMMA EndKept ==
    ASSUME TalkInv, Carried, Others("reader"), NEW d \in Devices,
           row'.ans = d => \/ row.ans = d
                           \/ row'.status = "offered" /\ th'["reader"].pc \in {"spawn", "accept", "failans"},
           crow[d] = "accepted" /\ row.ans = d =>
              /\ row.status = "accepted" => row'.status = "accepted"
              /\ row.status = "offered" /\ th["reader"].pc \in {"spawn", "accept", "failans"} =>
                    \/ row'.status = "accepted"
                    \/ row'.status = "offered" /\ th'["reader"].pc \in {"spawn", "accept", "failans"}
                    \/ th'["reader"].pc = "ship" /\ d \in th'["reader"].devs
              /\ th["reader"].pc = "ship" /\ d \in th["reader"].devs =>
                    \/ th'["reader"].pc = "ship" /\ d \in th'["reader"].devs
                    \/ In("end", toDev'[d]) \/ "unsent" \in trouble'
    PROVE  EndTold(d)'
<1>1. /\ EndTold(d) /\ crow' = crow /\ trouble \subseteq trouble'
      /\ In("end", toDev[d]) => In("end", toDev'[d])
  BY DEF TalkInv, Carried, calleeVars
<1>2. SUFFICES ASSUME crow[d] = "accepted", row.ans = d
               PROVE  \/ row'.status = "accepted"
                      \/ row'.status = "offered" /\ th'["reader"].pc \in {"spawn", "accept", "failans"}
                      \/ \E t \in {"hangup", "timer", "reader"} : th'[t].pc = "ship" /\ d \in th'[t].devs
                      \/ In("end", toDev'[d])
                      \/ Silenced' \/ Restarted'
  BY <1>1 DEF EndTold
<1>3. ASSUME NEW t \in {"hangup", "timer", "reader"}, th[t].pc = "ship", d \in th[t].devs
      PROVE  \/ \E u \in {"hangup", "timer", "reader"} : th'[u].pc = "ship" /\ d \in th'[u].devs
             \/ In("end", toDev'[d]) \/ Silenced'
  <2>1. CASE t = "reader"
    BY <1>2, <1>3, <2>1 DEF Silenced
  <2>2. CASE t # "reader"
    BY <1>3, <2>2 DEF Others, Threads
  <2>3. QED
    BY <2>1, <2>2
<1>4. CASE row.status = "accepted" \/ (row.status = "offered" /\ th["reader"].pc \in {"spawn", "accept", "failans"})
  BY <1>2, <1>4
<1>5. CASE In("end", toDev[d]) \/ Silenced \/ Restarted
  BY <1>1, <1>5 DEF Silenced, Restarted
<1>6. QED
  BY <1>1, <1>2, <1>3, <1>4, <1>5 DEF EndTold

\* A step of the reader between two messages: it keeps the message in hand, or
\* is done with it, and keeps the answer.
LEMMA TalkInHand ==
    ASSUME TypeOK, TalkInv, Carried, toCaller' = toCaller, Others("reader"), th'["reader"] \in Thread,
           row'.ans = row.ans, th["reader"].pc \notin {"idle", "claim"},
           \/ th'["reader"].pc = "idle"
           \/ /\ th'["reader"].dev = th["reader"].dev /\ th'["reader"].kind = th["reader"].kind
              /\ th'["reader"].pc \in {"stop", "move"} => th["reader"].pc \in {"stop", "move"}
              /\ th'["reader"].pc \in {"spawn", "accept", "failans"} =>
                    th["reader"].pc \in {"spawn", "accept", "failans"}
              /\ th'["reader"].pc # "claim",
           \A d \in Devices : EndTold(d)'
    PROVE  TalkInv'
<1>1. ASSUME NEW d \in Devices, NEW k \in Back, Reads(d, {k})'
      PROVE  Reads(d, {k})
  BY <1>1 DEF Reads
<1>2. /\ th["reader"].pc \in {"stop", "move"} =>
            th["reader"].kind \in {"reject", "end"} /\ row.ans \in {None, th["reader"].dev}
      /\ th["reader"].pc \in {"claim", "spawn", "accept", "failans"} => th["reader"].kind = "accept"
  BY CallsAssumption DEF TalkInv, SaysSo
<1>3. /\ th'["reader"].pc \in {"stop", "move"} =>
            th'["reader"].kind \in {"reject", "end"} /\ row'.ans \in {None, th'["reader"].dev}
      /\ th'["reader"].pc \in {"claim", "spawn", "accept", "failans"} => th'["reader"].kind = "accept"
  BY <1>2
<1>4. QED
  BY <1>1, <1>3, TalkReader

\* The reader's ends leave before the teardown.
LEMMA ShipEndsTalk ==
    ASSUME CallInv, NEW t \in Threads, ShipEnds(t)
    PROVE  TypeOK' /\ TalkInv'
<1>0. TypeOK /\ TalkInv
  BY DEF CallInv
<1>1. t \in {"timer", "reader"} /\ th[t].pc = "ship" /\ End(th[t].devs, {}) /\ Go(t, "teardown")
  BY DEF ShipEnds, At
<1>2. /\ th' \in [Threads -> Thread] /\ Others(t)
      /\ th'[t].pc = "teardown" /\ th'[t].dev = th[t].dev /\ th'[t].kind = th[t].kind
  BY <1>0, <1>1, GoFacts DEF Place
<1>3. /\ toDev' \in [Devices -> Seq(Out)] /\ Troubles
      /\ \A d \in Devices : d \in th[t].devs => In("end", toDev'[d]) \/ "unsent" \in trouble'
      /\ \A d \in Devices : \A m : In(m, toDev[d]) => In(m, toDev'[d])
      /\ \A d \in Devices : In("offer", toDev'[d]) => In("offer", toDev[d])
  BY <1>0, <1>1, EndFacts DEF Troubles, Kinds
<1>4. UNCHANGED <<row, legs, timer, rearmed, calleeVars, lost, toCaller>>
  BY DEF ShipEnds
<1>5. CallerTyped
  BY <1>0, <1>2, <1>3, <1>4, TypeFacts DEF CallerTyped
<1>6. Carried
  BY <1>3, <1>4 DEF Carried, Troubles
<1>7. CASE t = "timer"
  <2>1. /\ th'["reader"] = th["reader"] /\ SendKept("hangup") /\ SendKept("timer") /\ TellsWinner
    BY <1>2, <1>3, <1>4, <1>7 DEF SendKept, TellsWinner, Others, Threads
  <2>2. QED
    BY <1>0, <1>4, <1>5, <1>6, <2>1, CallerTypes, TalkAside
<1>8. CASE t = "reader"
  <2>1. \A d \in Devices : EndTold(d)'
    BY <1>0, <1>1, <1>2, <1>3, <1>4, <1>6, <1>8, EndKept
  <2>2. th'["reader"] \in Thread /\ row'.ans = row.ans /\ toCaller' = toCaller
    BY <1>2, <1>4 DEF Threads
  <2>3. TalkInv'
    BY <1>0, <1>1, <1>2, <1>6, <1>8, <2>1, <2>2, TalkInHand
  <2>4. QED
    BY <1>0, <1>5, <2>3, CallerTypes
<1>9. QED
  BY <1>1, <1>7, <1>8

\* A teardown is local.
LEMMA TeardownTalk ==
    ASSUME CallInv, NEW t \in Threads, Teardown(t)
    PROVE  TypeOK' /\ TalkInv'
<1>0. TypeOK /\ TalkInv
  BY DEF CallInv
<1>1. /\ th[t].pc = "teardown" /\ Return(t) /\ legs' = {}
      /\ UNCHANGED <<row, timer, rearmed, calleeVars, lost, toDev, toCaller, trouble>>
  BY DEF Teardown, At, net
<1>2. /\ th' \in [Threads -> Thread] /\ Others(t) /\ th'[t].pc = "idle"
  BY <1>0, <1>1, ReturnFacts
<1>3. CallerTyped
  BY <1>0, <1>1, <1>2, TypeFacts DEF CallerTyped, Troubles
<1>4. Carried
  BY <1>1 DEF Carried
<1>5. CASE t # "reader"
  <2>1. /\ th'["reader"] = th["reader"] /\ SendKept("hangup") /\ SendKept("timer") /\ TellsWinner
    BY <1>1, <1>2, <1>5 DEF SendKept, TellsWinner, Others, Threads
  <2>2. QED
    BY <1>0, <1>1, <1>3, <1>4, <2>1, CallerTypes, TalkAside
<1>6. CASE t = "reader"
  <2>1. \A d \in Devices : EndTold(d)'
    BY <1>0, <1>1, <1>2, <1>4, <1>6, EndKept
  <2>2. th'["reader"] \in Thread /\ row'.ans = row.ans /\ toCaller' = toCaller
    BY <1>1, <1>2 DEF Threads
  <2>3. TalkInv'
    BY <1>0, <1>1, <1>2, <1>4, <1>6, <2>1, <2>2, TalkInHand
  <2>4. QED
    BY <1>0, <1>3, <2>3, CallerTypes
<1>7. QED
  BY <1>5, <1>6

\* An end or a reject is taken up.
LEMMA RecvOverTalk ==
    ASSUME CallInv, NEW c \in Devices, RecvOver(c)
    PROVE  TypeOK' /\ TalkInv'
<1>0. TypeOK /\ TalkInv
  BY DEF CallInv
<1>1. /\ toCaller' \in [Devices -> Seq(Back)]
      /\ \A d \in Devices : \A m : In(m, toCaller'[d]) => In(m, toCaller[d])
      /\ \A d \in Devices : In("accept", toCaller[d]) => In("accept", toCaller'[d])
      /\ Troubles /\ th["reader"].pc = "idle" /\ th' \in [Threads -> Thread] /\ Others("reader")
      /\ \/ th' = th
         \/ /\ row.ans \in {None, c}
            /\ th'["reader"].pc \in {"stop", "move"} /\ th'["reader"].dev = c
            /\ th'["reader"].kind \in {"reject", "end"} /\ In(th'["reader"].kind, toCaller[c])
      /\ UNCHANGED <<row, legs, timer, rearmed, calleeVars, lost, toDev>>
  BY <1>0, RecvOverFacts
<1>2. CallerTyped
  BY <1>0, <1>1, TypeFacts DEF CallerTyped
<1>3. Carried
  BY <1>1 DEF Carried, Troubles
<1>4. \A d \in Devices : EndTold(d)'
  BY <1>0, <1>1, <1>3, EndKept
<1>5. ASSUME NEW d \in Devices, NEW k \in Back, Reads(d, {k})'
      PROVE  In(k, toCaller[d])
  BY <1>1, <1>5 DEF Reads
<1>6. th'["reader"] \in Thread
  BY <1>1 DEF Threads
<1>7. TalkInv'
  BY <1>0, <1>1, <1>3, <1>4, <1>5, <1>6, TalkReader
<1>8. QED
  BY <1>0, <1>2, <1>7, CallerTypes

\* An answer is taken up, and is dropped only when there is no call.
LEMMA RecvAcceptTalk ==
    ASSUME CallInv, NEW c \in Devices, RecvAccept(c)
    PROVE  TypeOK' /\ TalkInv'
<1>0. TypeOK /\ TalkInv
  BY DEF CallInv
<1>1. /\ toCaller' \in [Devices -> Seq(Back)]
      /\ \A d \in Devices : \A m : In(m, toCaller'[d]) => In(m, toCaller[d])
      /\ \A d \in Devices : In("accept", toCaller[d]) /\ d # c => In("accept", toCaller'[d])
      /\ In("accept", toCaller[c])
      /\ Troubles /\ th["reader"].pc = "idle" /\ th' \in [Threads -> Thread] /\ Others("reader")
      /\ \/ row.status = "none" /\ th' = th
         \/ th'["reader"].pc = "claim" /\ th'["reader"].dev = c /\ th'["reader"].kind = "accept"
      /\ UNCHANGED <<row, legs, timer, rearmed, calleeVars, lost, toDev>>
  BY <1>0, RecvAcceptFacts
<1>2. CallerTyped
  BY <1>0, <1>1, TypeFacts DEF CallerTyped
<1>3. Carried
  BY <1>1 DEF Carried, Troubles
<1>4. \A d \in Devices : EndTold(d)'
  BY <1>0, <1>1, <1>3, EndKept
<1>5. ASSUME NEW d \in Devices, NEW k \in Back, Reads(d, {k})'
      PROVE  In(k, toCaller[d])
  BY <1>1, <1>5 DEF Reads
<1>6. th'["reader"] \in Thread
  BY <1>1 DEF Threads
<1>7. row.status # "none" \/ crow[c] # "accepted"
  BY <1>0 DEF TalkInv, NoneAsked
<1>8. TalkInv'
  BY <1>0, <1>1, <1>3, <1>4, <1>5, <1>6, <1>7, TalkReader
<1>9. QED
  BY <1>0, <1>2, <1>8, CallerTypes

\* A step of the reader that keeps the status and the answer, or accepts the
\* call.
LEMMA ReaderGoesOn ==
    ASSUME CallInv, th' \in [Threads -> Thread], Others("reader"),
           row' \in CallRow, row'.ans = row.ans,
           \/ row'.status = row.status
           \/ row.status = "offered" /\ row'.status = "accepted",
           legs' \subseteq Legs, timer' \in BOOLEAN, Troubles, UNCHANGED <<rearmed, calleeVars, lost, net>>,
           th["reader"].pc \in {"stop", "move", "spawn", "accept"},
           row.status = "offered" /\ row'.status = "offered" /\ th["reader"].pc \in {"spawn", "accept"} =>
              th'["reader"].pc \in {"accept", "failans"},
           \/ th'["reader"].pc = "idle"
           \/ /\ th'["reader"].dev = th["reader"].dev /\ th'["reader"].kind = th["reader"].kind
              /\ th'["reader"].pc \in {"move", "accept", "failans", "teardown"}
              /\ th'["reader"].pc = "move" => th["reader"].pc = "stop"
              /\ th'["reader"].pc # "move" => th["reader"].pc \in {"spawn", "accept"}
    PROVE  TypeOK' /\ TalkInv'
<1>0. TypeOK /\ TalkInv
  BY DEF CallInv
<1>1. CallerTyped
  BY <1>0, TypeFacts DEF CallerTyped, net
<1>2. Carried
  BY DEF Carried, net, Troubles
<1>3. \A d \in Devices : EndTold(d)'
  BY <1>0, <1>2, EndKept
<1>4. /\ th'["reader"] \in Thread /\ toCaller' = toCaller
      /\ th["reader"].pc \notin {"idle", "claim"}
  BY DEF Threads, net
<1>5. \/ th'["reader"].pc = "idle"
      \/ /\ th'["reader"].dev = th["reader"].dev /\ th'["reader"].kind = th["reader"].kind
         /\ th'["reader"].pc \in {"stop", "move"} => th["reader"].pc \in {"stop", "move"}
         /\ th'["reader"].pc \in {"spawn", "accept", "failans"} =>
               th["reader"].pc \in {"spawn", "accept", "failans"}
         /\ th'["reader"].pc # "claim"
  OBVIOUS
<1>6. TalkInv'
  BY <1>0, <1>2, <1>3, <1>4, <1>5, TalkInHand
<1>7. QED
  BY <1>0, <1>1, <1>6, CallerTypes

\* MarkStopped is no news to anybody.
LEMMA ReaderStopTalk ==
    ASSUME CallInv, ReaderStop
    PROVE  TypeOK' /\ TalkInv'
<1>0. TypeOK /\ row \in CallRow /\ legs \subseteq Legs /\ timer \in BOOLEAN
  BY TypeFacts DEF CallInv
<1>1. /\ th["reader"].pc = "stop" /\ UNCHANGED <<legs, timer, rearmed, calleeVars, lost, net>>
      /\ th["reader"].dev \in Devices
  BY DEF ReaderStop, At, CallInv, CallerInv, RowKnown
<1>2. row' \in CallRow /\ row'.ans = row.ans /\ row'.status = row.status
  BY <1>0, <1>1 DEF ReaderStop, CallerFault, CallRow
<1>3. Troubles
  BY <1>0, MeetFacts DEF ReaderStop, CallerFault, Troubles, TypeOK, Kinds
<1>4. /\ th' \in [Threads -> Thread] /\ Others("reader")
      /\ \/ th'["reader"].pc = "idle"
         \/ /\ th'["reader"].dev = th["reader"].dev /\ th'["reader"].kind = th["reader"].kind
            /\ th'["reader"].pc = "move"
  BY <1>0, ReturnFacts, GoFacts DEF ReaderStop, Threads, Place
<1>5. QED
  BY <1>0, <1>1, <1>2, <1>3, <1>4, ReaderGoesOn

\* The receiver leg comes up, or the answer is about to fail.
LEMMA ReaderSpawnTalk ==
    ASSUME CallInv, ReaderSpawn
    PROVE  TypeOK' /\ TalkInv'
<1>0. TypeOK /\ row \in CallRow /\ legs \subseteq Legs /\ timer \in BOOLEAN
  BY TypeFacts DEF CallInv
<1>1. /\ th["reader"].pc = "spawn" /\ UNCHANGED <<row, timer, rearmed, calleeVars, lost, net>>
  BY DEF ReaderSpawn, At
<1>2. legs' \subseteq Legs
  BY <1>0 DEF ReaderSpawn, Legs
<1>3. Troubles
  BY <1>0, MeetFacts DEF ReaderSpawn, Troubles, TypeOK, Kinds
<1>4. /\ th' \in [Threads -> Thread] /\ Others("reader")
      /\ th'["reader"].dev = th["reader"].dev /\ th'["reader"].kind = th["reader"].kind
      /\ th'["reader"].pc \in {"accept", "failans"}
  BY <1>0, GoFacts DEF ReaderSpawn, Threads, Place
<1>5. QED
  BY <1>0, <1>1, <1>2, <1>3, <1>4, ReaderGoesOn

\* The call is accepted, or somebody ended it who tells the device so.
LEMMA ReaderAcceptTalk ==
    ASSUME CallInv, ReaderAccept
    PROVE  TypeOK' /\ TalkInv'
<1>0. TypeOK /\ row \in CallRow /\ legs \subseteq Legs /\ timer \in BOOLEAN
  BY TypeFacts DEF CallInv
<1>1. /\ th["reader"].pc = "accept" /\ UNCHANGED <<legs, rearmed, calleeVars, lost, net>>
      /\ row.status \in Terminal \union {"offered"}
  BY DEF ReaderAccept, At, CallInv, CallerInv, RowKnown
<1>2. CASE Transition("accepted") /\ Return("reader")
  <2>1. /\ row' \in CallRow /\ row'.ans = row.ans /\ timer' = FALSE
        /\ row.status = "offered" /\ row'.status = "accepted"
    BY <1>0, <1>1, <1>2 DEF Transition, LegalTransition, CallRow, Status, Terminal
  <2>2. Troubles
    BY <1>0, <1>2 DEF Transition, Troubles, TypeOK
  <2>3. th' \in [Threads -> Thread] /\ Others("reader") /\ th'["reader"].pc = "idle"
    BY <1>0, <1>2, ReturnFacts DEF Threads
  <2>4. QED
    BY <1>0, <1>1, <2>1, <2>2, <2>3, ReaderGoesOn
<1>3. CASE ~LegalTransition(row.status, "accepted") /\ MovedOn /\ UNCHANGED <<row, timer, trouble>>
  <2>1. row.status # "offered"
    BY <1>3 DEF LegalTransition
  <2>2. Troubles
    BY <1>0, <1>3 DEF Troubles, TypeOK
  <2>3. /\ th' \in [Threads -> Thread] /\ Others("reader") /\ th'["reader"].pc = "teardown"
        /\ th'["reader"].dev = th["reader"].dev /\ th'["reader"].kind = th["reader"].kind
    BY <1>0, <1>3, GoFacts DEF MovedOn, Threads, Place
  <2>4. QED
    BY <1>0, <1>1, <1>3, <2>1, <2>2, <2>3, ReaderGoesOn
<1>4. CASE CallerFault /\ Go("reader", "failans") /\ UNCHANGED timer
  <2>1. Troubles /\ row' = row
    BY <1>0, <1>4, MeetFacts DEF CallerFault, Troubles, Kinds
  <2>2. /\ th' \in [Threads -> Thread] /\ Others("reader") /\ th'["reader"].pc = "failans"
        /\ th'["reader"].dev = th["reader"].dev /\ th'["reader"].kind = th["reader"].kind
    BY <1>0, <1>4, GoFacts DEF Threads, Place
  <2>3. QED
    BY <1>0, <1>1, <1>4, <2>1, <2>2, ReaderGoesOn
<1>5. QED
  BY <1>2, <1>3, <1>4 DEF ReaderAccept

\* A farewell ends the call: it came from the device that had it, or nobody had.
LEMMA ReaderMoveTalk ==
    ASSUME CallInv, ReaderMove
    PROVE  TypeOK' /\ TalkInv'
<1>0. /\ TypeOK /\ TalkInv /\ row \in CallRow /\ legs \subseteq Legs /\ timer \in BOOLEAN
  BY TypeFacts DEF CallInv
<1>1. /\ th["reader"].pc = "move" /\ UNCHANGED <<legs, rearmed, calleeVars, lost, net>>
  BY DEF ReaderMove, At
<1>2. ASSUME row' = row, UNCHANGED timer, Troubles, Return("reader")
      PROVE  TypeOK' /\ TalkInv'
  <2>1. th' \in [Threads -> Thread] /\ Others("reader") /\ th'["reader"].pc = "idle"
    BY <1>0, <1>2, ReturnFacts DEF Threads
  <2>2. QED
    BY <1>0, <1>1, <1>2, <2>1, ReaderGoesOn
<1>3. CASE Transition(Final(th["reader"].kind)) /\ Go("reader", "ship")
  <2>1. /\ th' \in [Threads -> Thread] /\ Others("reader") /\ th'["reader"].pc = "ship"
        /\ th'["reader"].dev = th["reader"].dev /\ th'["reader"].kind = th["reader"].kind
        /\ th'["reader"] \in Thread
    BY <1>0, <1>3, GoFacts DEF Threads, Place
  <2>2. /\ row' \in CallRow /\ row'.ans = row.ans /\ row'.status \in Terminal /\ timer' = FALSE
    BY <1>0, <1>3 DEF Transition, CallRow, Status, Terminal, Final
  <2>3. Troubles /\ trouble' = trouble
    BY <1>0, <1>3 DEF Transition, Troubles, TypeOK
  <2>4. CallerTyped
    BY <1>0, <1>1, <2>1, <2>2, <2>3, TypeFacts DEF CallerTyped, net
  <2>5. Carried
    BY <1>1, <2>2, <2>3 DEF Carried, net, Troubles, Terminal
  <2>6. ASSUME NEW d \in Devices, row.ans = d PROVE crow[d] # "accepted"
    <3>1. /\ SaysSo(d) /\ th["reader"].kind \in {"reject", "end"} /\ th["reader"].dev = d
      BY <1>0, <1>1, <2>6, CallsAssumption DEF TalkInv, SaysSo
    <3>2. Reads(d, {"reject", "end"})
      BY <1>1, <3>1 DEF Reads
    <3>3. crow[d] \in Terminal
      BY <3>1, <3>2 DEF SaysSo
    <3>4. QED
      BY <3>3 DEF Terminal
  <2>7. \A d \in Devices : EndTold(d)'
    BY <1>0, <2>1, <2>2, <2>5, <2>6, EndKept
  <2>8. toCaller' = toCaller
    BY <1>1 DEF net
  <2>9. TalkInv'
    BY <1>0, <1>1, <2>1, <2>2, <2>5, <2>7, <2>8, TalkInHand
  <2>10. QED
    BY <1>0, <2>4, <2>9, CallerTypes
<1>4. QED
  <2>1. CallerFault => row' = row /\ Troubles
    BY <1>0, MeetFacts DEF CallerFault, Troubles, Kinds
  <2>2. UNCHANGED trouble => Troubles
    BY <1>0 DEF Troubles, TypeOK
  <2>3. QED
    BY <1>2, <1>3, <2>1, <2>2 DEF ReaderMove

\* failAnsweredCall tells the device that has the call, whether or not the
\* failure could be written.
LEMMA FailAnsweredTalk ==
    ASSUME CallInv, FailAnsweredCall
    PROVE  TypeOK' /\ TalkInv'
<1>0. /\ TypeOK /\ TalkInv /\ row \in CallRow /\ legs \subseteq Legs /\ timer \in BOOLEAN
  BY TypeFacts DEF CallInv
<1>1. /\ th["reader"].pc = "failans" /\ UNCHANGED <<legs, rearmed, calleeVars, lost, net>>
      /\ th["reader"].dev \in Devices /\ row.ans = th["reader"].dev /\ row.ans # None
      /\ row.status \in Terminal \union {"offered"}
  BY CallsAssumption DEF FailAnsweredCall, At, CallInv, CallerInv, RowKnown
<1>2. ASSUME Troubles, row' \in CallRow, row'.ans = row.ans, timer' \in BOOLEAN,
             row'.status # "none",
             th' \in [Threads -> Thread], Others("reader"),
             \/ th'["reader"].pc = "idle" /\ row'.status = row.status /\ row.status # "offered"
             \/ /\ th'["reader"].pc = "ship" /\ row.ans \in th'["reader"].devs
                /\ th'["reader"].dev = th["reader"].dev /\ th'["reader"].kind = th["reader"].kind
      PROVE  TypeOK' /\ TalkInv'
  <2>1. CallerTyped
    BY <1>0, <1>1, <1>2, TypeFacts DEF CallerTyped, net
  <2>2. Carried
    BY <1>1, <1>2 DEF Carried, net, Troubles
  <2>3. row.status # "accepted"
    BY <1>1 DEF Terminal
  <2>4. \A d \in Devices : EndTold(d)'
    BY <1>0, <1>1, <1>2, <2>2, <2>3, EndKept
  <2>5. toCaller' = toCaller /\ th'["reader"] \in Thread
    BY <1>1, <1>2 DEF net, Threads
  <2>6. TalkInv'
    BY <1>0, <1>1, <1>2, <2>2, <2>4, <2>5, TalkInHand
  <2>7. QED
    BY <1>0, <2>1, <2>6, CallerTypes
<1>3. CASE /\ Transition("failed")
           /\ th' = [th EXCEPT !["reader"] = [@ EXCEPT !.pc = "ship", !.devs = Recipients(row')]]
  <2>1. /\ row' \in CallRow /\ row'.ans = row.ans /\ row'.status = "failed" /\ timer' = FALSE
    BY <1>0, <1>3 DEF Transition, CallRow, Status, Terminal
  <2>2. PICK D \in SUBSET Devices : D = Recipients(row') /\ row.ans \in D
    BY <1>1, <2>1, RecipientsType
  <2>3. "reader" \in Threads /\ th' = [th EXCEPT !["reader"] = [@ EXCEPT !.pc = "ship", !.devs = D]]
    BY <1>3, <2>2 DEF Threads
  <2>4. /\ th' \in [Threads -> Thread] /\ Others("reader") /\ th'["reader"].pc = "ship"
        /\ th'["reader"].devs = D
        /\ th'["reader"].dev = th["reader"].dev /\ th'["reader"].kind = th["reader"].kind
    BY <1>0, <2>3, SendFacts DEF Place
  <2>5. Troubles
    BY <1>0, <1>3 DEF Transition, Troubles, TypeOK
  <2>6. QED
    BY <1>2, <2>1, <2>2, <2>4, <2>5
<1>4. CASE ~LegalTransition(row.status, "failed") /\ Return("reader") /\ UNCHANGED <<row, timer, trouble>>
  <2>1. th' \in [Threads -> Thread] /\ Others("reader") /\ th'["reader"].pc = "idle"
    BY <1>0, <1>4, ReturnFacts DEF Threads
  <2>2. row.status # "offered" /\ row'.status # "none"
    BY <1>1, <1>4 DEF LegalTransition, Terminal
  <2>3. Troubles
    BY <1>0, <1>4 DEF Troubles, TypeOK
  <2>4. QED
    BY <1>0, <1>2, <1>4, <2>1, <2>2, <2>3
<1>5. CASE /\ LegalTransition(row.status, "failed") /\ CallerFault
           /\ th' = [th EXCEPT !["reader"] = [@ EXCEPT !.pc = "ship", !.devs = {th["reader"].dev}]]
           /\ UNCHANGED timer
  <2>1. PICK D \in SUBSET Devices : D = {th["reader"].dev} /\ row.ans \in D
    BY <1>1
  <2>2. "reader" \in Threads /\ th' = [th EXCEPT !["reader"] = [@ EXCEPT !.pc = "ship", !.devs = D]]
    BY <1>5, <2>1 DEF Threads
  <2>3. /\ th' \in [Threads -> Thread] /\ Others("reader") /\ th'["reader"].pc = "ship"
        /\ th'["reader"].devs = D
        /\ th'["reader"].dev = th["reader"].dev /\ th'["reader"].kind = th["reader"].kind
    BY <1>0, <2>2, SendFacts DEF Place
  <2>4. Troubles /\ row' = row
    BY <1>0, <1>5, MeetFacts DEF CallerFault, Troubles, Kinds
  <2>5. row'.status # "none"
    BY <1>1, <2>4 DEF Terminal
  <2>6. QED
    BY <1>0, <1>2, <1>5, <2>1, <2>3, <2>4, <2>5
<1>6. QED
  BY <1>3, <1>4, <1>5 DEF FailAnsweredCall

\* ClaimAnswer: the device whose answer is handled has the call, or is sent an
\* end, or had it already.
LEMMA ClaimTalk ==
    ASSUME CallInv, Claim
    PROVE  TypeOK' /\ TalkInv'
<1>0. /\ TypeOK /\ TalkInv /\ row \in CallRow
      /\ legs \subseteq Legs /\ timer \in BOOLEAN /\ rearmed \in 0 .. Rearms
      /\ toCaller \in [Devices -> Seq(Back)] /\ toDev \in [Devices -> Seq(Out)]
  BY TypeFacts DEF CallInv
<1>1. PICK c \in Devices : c = th["reader"].dev
  BY DEF CallInv, CallerInv, RowKnown, Claim, At
<1>2. /\ th["reader"].pc = "claim" /\ UNCHANGED <<legs, timer, rearmed, calleeVars, lost, toCaller>>
      /\ th["reader"].kind = "accept" /\ row.status # "none" /\ c # None
  BY <1>0, CallsAssumption DEF Claim, At, TalkInv, SaysSo, CallInv, CallerInv, RowKnown
<1>3. ASSUME row' \in CallRow, row'.status = row.status,
             row'.ans = row.ans \/ (row.ans = None /\ row'.ans = c),
             th' \in [Threads -> Thread], Others("reader"),
             \/ th'["reader"].pc = "idle" /\ row' = row
             \/ /\ th'["reader"].pc = "spawn" /\ row.status = "offered"
                /\ th'["reader"].dev = c /\ th'["reader"].kind = "accept",
             toDev' \in [Devices -> Seq(Out)], Troubles,
             \A d \in Devices : \A m : In(m, toDev[d]) => In(m, toDev'[d]),
             \A d \in Devices : In("offer", toDev'[d]) => In("offer", toDev[d]),
             row'.ans = c \/ In("end", toDev'[c]) \/ "unsent" \in trouble'
      PROVE  TypeOK' /\ TalkInv'
  <2>1. CallerTyped
    BY <1>0, <1>2, <1>3 DEF CallerTyped
  <2>2. Carried
    BY <1>2, <1>3 DEF Carried, Troubles
  <2>3. \A d \in Devices : EndTold(d)'
    BY <1>0, <1>2, <1>3, <2>2, EndKept
  <2>4. ASSUME NEW d \in Devices, NEW k \in Back, Reads(d, {k})'
        PROVE  Reads(d, {k})
    BY <1>1, <1>2, <1>3, <2>4 DEF Reads
  <2>5. \A d \in Devices : row'.ans = d => row.ans = d \/ Reads(d, {"accept"})
    BY <1>1, <1>2, <1>3 DEF Reads
  <2>6. th'["reader"] \in Thread
    BY <1>3 DEF Threads
  <2>7. \A d \in Devices : th["reader"].dev = d => row'.ans = d \/ In("end", toDev'[d]) \/ Silenced'
    BY <1>1, <1>3 DEF Silenced
  <2>8. /\ row.ans # None => row'.ans = row.ans
        /\ th'["reader"].pc \notin {"stop", "move"}
        /\ th'["reader"].pc \in {"claim", "spawn", "accept", "failans"} => th'["reader"].kind = "accept"
    BY <1>3
  <2>9. TalkInv'
    BY <1>0, <1>2, <1>3, <2>2, <2>3, <2>4, <2>5, <2>6, <2>7, <2>8, TalkReader
  <2>10. QED
    BY <1>0, <2>1, <2>9, CallerTypes
<1>4. CASE /\ Unanswered(row) /\ row' = [row EXCEPT !.ans = c]
           /\ End(RingingExcept(row, c), {}) /\ Go("reader", "spawn")
  <2>1. /\ row' \in CallRow /\ row'.status = row.status /\ row'.ans = c
        /\ row.ans = None /\ row.status = "offered"
    BY <1>0, <1>4 DEF CallRow, Unanswered
  <2>2. /\ th' \in [Threads -> Thread] /\ Others("reader") /\ th'["reader"].pc = "spawn"
        /\ th'["reader"].dev = c /\ th'["reader"].kind = "accept"
    BY <1>0, <1>1, <1>2, <1>4, GoFacts DEF Threads, Place
  <2>3. /\ toDev' \in [Devices -> Seq(Out)] /\ Troubles
        /\ \A d \in Devices : \A m : In(m, toDev[d]) => In(m, toDev'[d])
        /\ \A d \in Devices : In("offer", toDev'[d]) => In("offer", toDev[d])
    BY <1>0, <1>4, EndFacts DEF Troubles, Kinds
  <2>4. QED
    BY <1>3, <2>1, <2>2, <2>3
<1>5. ASSUME NEW K \in SUBSET Kinds, End({c}, K), Return("reader"), UNCHANGED row
      PROVE  TypeOK' /\ TalkInv'
  <2>1. th' \in [Threads -> Thread] /\ Others("reader") /\ th'["reader"].pc = "idle"
    BY <1>0, <1>5, ReturnFacts DEF Threads
  <2>2. /\ toDev' \in [Devices -> Seq(Out)] /\ Troubles
        /\ \A d \in Devices : \A m : In(m, toDev[d]) => In(m, toDev'[d])
        /\ \A d \in Devices : In("offer", toDev'[d]) => In("offer", toDev[d])
        /\ In("end", toDev'[c]) \/ "unsent" \in trouble'
    BY <1>0, <1>5, EndFacts DEF Troubles, Kinds
  <2>3. QED
    BY <1>0, <1>3, <1>5, <2>1, <2>2
<1>6. CASE c = row.ans /\ UNCHANGED <<toDev, trouble, row>> /\ Return("reader")
  <2>1. th' \in [Threads -> Thread] /\ Others("reader") /\ th'["reader"].pc = "idle"
    BY <1>0, <1>6, ReturnFacts DEF Threads
  <2>2. Troubles
    BY <1>0, <1>6 DEF Troubles, TypeOK
  <2>3. QED
    BY <1>0, <1>3, <1>6, <2>1, <2>2
<1>7. {} \in SUBSET Kinds /\ {"callerwrite"} \in SUBSET Kinds
  BY DEF Kinds
<1>8. QED
  BY <1>1, <1>4, <1>5, <1>6, <1>7 DEF Claim, AnswerLost

\* A restart of the caller loses the answer in hand, and takes note of it.
LEMMA RestartCallerTalk ==
    ASSUME CallInv, RestartCaller
    PROVE  TypeOK' /\ TalkInv'
<1>0. /\ TypeOK /\ TalkInv /\ row \in CallRow /\ th \in [Threads -> Thread]
      /\ toCaller \in [Devices -> Seq(Back)] /\ toDev \in [Devices -> Seq(Out)]
  BY TypeFacts DEF CallInv
<1>1. /\ row' \in CallRow /\ row'.ans = row.ans /\ row'.status \in Terminal
  BY <1>0 DEF RestartCaller, CallRow, Status, Terminal
<1>2. /\ Troubles /\ "callerstop" \in trouble'
  BY <1>0, MeetFacts DEF RestartCaller, Troubles, Kinds
<1>3. /\ th' \in [Threads -> Thread] /\ th'["reader"].pc = "idle"
  BY IdleFacts DEF RestartCaller, Threads
<1>4. /\ legs' = {} /\ timer' = FALSE /\ rearmed' = 0 /\ UNCHANGED <<calleeVars, net>>
      /\ lost' = lost \union {d \in Devices : th["reader"].pc = "claim" /\ d = th["reader"].dev}
  BY DEF RestartCaller, At
<1>5. TypeOK'
  <2>1. rearmed' \in 0 .. Rearms /\ legs' \subseteq Legs /\ timer' \in BOOLEAN
    <3>1. 0 \in 0 .. Rearms
      BY CallsAssumption
    <3>2. QED
      BY <1>4, <3>1
  <2>2. lost' \subseteq Devices /\ UNCHANGED <<toDev, toCaller>>
    BY <1>0, <1>4 DEF TypeOK, net
  <2>3. /\ crow' \in [Devices -> Status] /\ clegs' \in [Devices -> SUBSET Legs]
        /\ ring' \in [Devices -> {"off", "armed", "firing", "teardown"}]
        /\ answer' \in [Devices -> {"idle", "sender", "receiver", "move", "undo", "ship", "unsent", "fail"}]
        /\ hang' \in [Devices -> {"idle", "reject", "end", "teardown"}]
        /\ creader' \in [Devices -> {"idle", "teardown"}]
    BY <1>0, <1>4 DEF calleeVars, TypeOK
  <2>4. /\ toDev' \in [Devices -> Seq({"offer", "end"})]
        /\ toCaller' \in [Devices -> Seq({"accept", "reject", "end"})]
    BY <1>0, <2>2 DEF Out, Back
  <2>5. QED
    BY <1>1, <1>2, <1>3, <2>1, <2>2, <2>3, <2>4 DEF TypeOK, CallRow, Troubles
<1>6. NoneAsked'
  BY <1>1 DEF NoneAsked, Terminal
<1>7. ASSUME NEW d \in Devices
      PROVE  SaysSo(d)' /\ AnswerHeard(d)' /\ EndTold(d)'
  <2>1. /\ SaysSo(d) /\ AnswerHeard(d) /\ crow' = crow /\ answer' = answer /\ toDev' = toDev
        /\ toCaller' = toCaller /\ trouble \subseteq trouble'
    BY <1>0, <1>2, <1>4 DEF TalkInv, calleeVars, net, Troubles
  <2>2. ~Reads(d, {"accept"})' /\ ~Reads(d, {"reject", "end"})'
    BY <1>3 DEF Reads
  <2>3. SaysSo(d)'
    BY <1>1, <1>3, <2>1, <2>2 DEF SaysSo
  <2>4. AnswerHeard(d)'
    <3>1. th["reader"].pc = "claim" /\ th["reader"].dev = d => d \in lost'
      BY <1>4
    <3>2. lost \subseteq lost' /\ Restarted'
      BY <1>2, <1>4 DEF Restarted
    <3>3. QED
      BY <1>1, <2>1, <3>1, <3>2 DEF AnswerHeard, Silenced
  <2>5. EndTold(d)'
    BY <1>2 DEF EndTold, Restarted
  <2>6. QED
    BY <2>3, <2>4, <2>5
<1>8. QED
  BY <1>5, <1>6, <1>7 DEF TalkInv

-----------------------------------------------------------------------------
(* The invariant *)

\* A step of a called device keeps the whole invariant.
LEMMA CalleeKeeps ==
    ASSUME CallInv, NEW d \in Devices, DeviceStep(d), DeviceInv(d)', Speaks(d)
    PROVE  CallInv'
<1>1. TypeOK'
  BY DEF CallInv, TypeOK, DeviceStep, Speaks, callerVars, Troubles, Out, Back
<1>2. CallerInv' /\ trouble \subseteq trouble'
  BY QuietCaller DEF CallInv, DeviceStep, Troubles
<1>3. ASSUME NEW c \in Devices PROVE DeviceInv(c)'
  <2>1. CASE c = d
    BY <2>1
  <2>2. CASE c # d
    <3>1. /\ crow'[c] = crow[c] /\ clegs'[c] = clegs[c] /\ ring'[c] = ring[c]
          /\ answer'[c] = answer[c] /\ hang'[c] = hang[c] /\ creader'[c] = creader[c]
      BY <2>2 DEF DeviceStep
    <3>2. QED
      BY <1>2, <3>1 DEF CallInv, CalleeInv, DeviceInv, Pending, Terminal, Legs
  <2>3. QED
    BY <2>1, <2>2
<1>4. row' = row /\ th' = th /\ lost' = lost
  BY DEF DeviceStep, callerVars
<1>5. NoneAsked'
  <2>1. SUFFICES ASSUME row.status = "none", NEW c \in Devices
                 PROVE  crow'[c] = "none" /\ ~In("offer", toDev'[c])
    BY <1>4 DEF NoneAsked
  <2>2. crow[c] = "none" /\ ~In("offer", toDev[c])
    BY <2>1 DEF CallInv, TalkInv, NoneAsked
  <2>3. ~In("offer", toDev'[c])
    BY <2>2 DEF Speaks
  <2>4. crow'[c] = "none"
    BY <2>2 DEF Speaks, DeviceStep
  <2>5. QED
    BY <2>3, <2>4
<1>6. ASSUME NEW c \in Devices
      PROVE  SaysSo(c)' /\ AnswerHeard(c)' /\ EndTold(c)'
  <2>0. SaysSo(c) /\ AnswerHeard(c) /\ EndTold(c)
    BY DEF CallInv, TalkInv
  <2>1. /\ crow[c] \in Terminal => crow'[c] = crow[c]
        /\ crow[c] = "accepted" => crow'[c] \in Terminal \union {"accepted"}
        /\ crow'[c] = "accepted" /\ crow[c] # "accepted" => answer'[c] = "ship"
        /\ crow'[c] = "accepted" /\ answer[c] = "ship" =>
              answer'[c] = "ship" \/ In("accept", toCaller'[c]) \/ "unsent" \in trouble'
        /\ In("end", toDev[c]) /\ crow'[c] = "accepted" =>
              In("end", toDev'[c]) \/ "calleewrite" \in trouble'
    BY DEF Speaks, DeviceStep
  <2>2. /\ In("accept", toCaller[c]) => In("accept", toCaller'[c])
        /\ In("accept", toCaller'[c]) => In("accept", toCaller[c]) \/ crow'[c] \in Terminal \union {"accepted"}
        /\ In("reject", toCaller'[c]) => In("reject", toCaller[c]) \/ crow'[c] \in Terminal
        /\ In("end", toCaller'[c]) => In("end", toCaller[c]) \/ crow'[c] \in Terminal
    BY DEF Speaks
  <2>3. SaysSo(c)'
    BY <1>4, <2>0, <2>1, <2>2 DEF SaysSo, Reads, Terminal
  <2>4. AnswerHeard(c)'
    BY <1>2, <1>4, <2>0, <2>1, <2>2 DEF AnswerHeard, Silenced, Restarted
  <2>5. EndTold(c)'
    <3>1. crow'[c] = "accepted" /\ row.ans = c => crow[c] = "accepted"
      BY <2>0, <2>1 DEF SaysSo, Terminal
    <3>2. QED
      BY <1>2, <1>4, <2>0, <2>1, <3>1 DEF EndTold, Silenced, Restarted
  <2>6. QED
    BY <2>3, <2>4, <2>5
<1>7. QED
  BY <1>1, <1>2, <1>3, <1>5, <1>6 DEF CallInv, CalleeInv, TalkInv

\* A step of the caller leaves the devices alone.
LEMMA CallerKeeps ==
    ASSUME CallInv, TypeOK' /\ TalkInv', CallerInv', UNCHANGED calleeVars, trouble \subseteq trouble'
    PROVE  CallInv'
<1>1. \A d \in Devices : DeviceInv(d)'
  BY DEF CallInv, CalleeInv, DeviceInv, Pending, calleeVars
<1>2. QED
  BY <1>1 DEF CallInv, CalleeInv

\* No step of the caller touches a device or forgets a trouble.
LEMMA CallerApart ==
    ASSUME TypeOK, Caller \/ HangUp \/ RestartCaller \/ \E d \in Devices : RecvOver(d) \/ RecvAccept(d)
    PROVE  UNCHANGED calleeVars /\ trouble \subseteq trouble'
<1>1. CASE StartSpawn \/ StartPut \/ StartFail \/ StartSkip \/ StartArm \/ HangUp \/ TimerFire \/ TimerFail
  BY <1>1, MeetFacts DEF StartSpawn, StartPut, StartFail, StartSkip, StartArm, HangUp, TimerFire,
     TimerFail, Transition, CallerFault, Kinds
<1>2. CASE StartOffer \/ HangUpShip
  BY <1>2, MeetFacts, UnsentFacts DEF StartOffer, HangUpShip
<1>3. ASSUME NEW t \in Threads, ShipEnds(t) \/ Teardown(t)
      PROVE  UNCHANGED calleeVars /\ trouble \subseteq trouble'
  BY <1>3, EndFacts DEF ShipEnds, Teardown, Kinds
<1>4. CASE ReaderStop \/ ReaderMove \/ ReaderSpawn \/ ReaderAccept \/ FailAnsweredCall \/ RestartCaller
  BY <1>4, MeetFacts DEF ReaderStop, ReaderMove, ReaderSpawn, ReaderAccept, FailAnsweredCall,
     RestartCaller, Transition, CallerFault, Kinds
<1>5. CASE Claim
  <2>1. UNCHANGED calleeVars
    BY <1>5 DEF Claim
  <2>2. ASSUME NEW S, NEW K \in SUBSET Kinds, End(S, K) PROVE trouble \subseteq trouble'
    BY <2>2, EndFacts
  <2>3. {} \in SUBSET Kinds /\ {"callerwrite"} \in SUBSET Kinds
    BY DEF Kinds
  <2>4. QED
    BY <1>5, <2>1, <2>2, <2>3 DEF Claim, AnswerLost
<1>6. ASSUME NEW d \in Devices, RecvOver(d) \/ RecvAccept(d)
      PROVE  UNCHANGED calleeVars /\ trouble \subseteq trouble'
  BY <1>6, RecvOverFacts, RecvAcceptFacts DEF Troubles
<1>7. QED
  BY <1>1, <1>2, <1>3, <1>4, <1>5, <1>6 DEF Caller

\* A step of the caller keeps the whole invariant.
LEMMA CallerStep ==
    ASSUME CallInv, Caller \/ HangUp \/ RestartCaller \/ \E d \in Devices : RecvOver(d) \/ RecvAccept(d)
    PROVE  CallInv'
<1>1. TypeOK /\ CallerInv
  BY DEF CallInv
<1>2. UNCHANGED calleeVars /\ trouble \subseteq trouble'
  BY <1>1, CallerApart
<1>3. CASE StartSpawn
  BY <1>1, <1>2, <1>3, StartSpawnCaller, StartSpawnTalk, CallerKeeps
<1>4. CASE StartPut
  BY <1>1, <1>2, <1>4, StartPutCaller, StartPutTalk, CallerKeeps
<1>5. CASE StartOffer
  BY <1>1, <1>2, <1>5, StartOfferCaller, StartOfferTalk, CallerKeeps
<1>6. CASE StartFail
  BY <1>1, <1>2, <1>6, StartFailCaller, StartFailTalk, CallerKeeps
<1>7. CASE StartSkip
  BY <1>1, <1>2, <1>7, StartSkipCaller, StartSkipTalk, CallerKeeps
<1>8. CASE StartArm
  BY <1>1, <1>2, <1>8, StartArmCaller, StartArmTalk, CallerKeeps
<1>9. CASE HangUp
  BY <1>1, <1>2, <1>9, HangUpCaller, HangUpTalk, CallerKeeps
<1>10. CASE HangUpShip
  BY <1>1, <1>2, <1>10, HangUpShipCaller, HangUpShipTalk, CallerKeeps
<1>11. CASE TimerFire
  BY <1>1, <1>2, <1>11, TimerFireCaller, TimerFireTalk, CallerKeeps
<1>12. CASE TimerFail
  BY <1>1, <1>2, <1>12, TimerFailCaller, TimerFailTalk, CallerKeeps
<1>13. ASSUME NEW t \in Threads, ShipEnds(t)
       PROVE  CallInv'
  BY <1>1, <1>2, <1>13, ShipEndsCaller, ShipEndsTalk, CallerKeeps
<1>14. ASSUME NEW t \in Threads, Teardown(t)
       PROVE  CallInv'
  BY <1>1, <1>2, <1>14, TeardownCaller, TeardownTalk, CallerKeeps
<1>15. CASE ReaderStop
  BY <1>1, <1>2, <1>15, ReaderStopCaller, ReaderStopTalk, CallerKeeps
<1>16. CASE ReaderMove
  BY <1>1, <1>2, <1>16, ReaderMoveCaller, ReaderMoveTalk, CallerKeeps
<1>17. CASE Claim
  BY <1>1, <1>2, <1>17, ClaimCaller, ClaimTalk, CallerKeeps
<1>18. CASE ReaderSpawn
  BY <1>1, <1>2, <1>18, ReaderSpawnCaller, ReaderSpawnTalk, CallerKeeps
<1>19. CASE ReaderAccept
  BY <1>1, <1>2, <1>19, ReaderAcceptCaller, ReaderAcceptTalk, CallerKeeps
<1>20. CASE FailAnsweredCall
  BY <1>1, <1>2, <1>20, FailAnsweredCaller, FailAnsweredTalk, CallerKeeps
<1>21. CASE RestartCaller
  BY <1>1, <1>2, <1>21, RestartCallerCaller, RestartCallerTalk, CallerKeeps
<1>22. ASSUME NEW d \in Devices, RecvOver(d)
       PROVE  CallInv'
  BY <1>1, <1>2, <1>22, RecvOverCaller, RecvOverTalk, CallerKeeps
<1>23. ASSUME NEW d \in Devices, RecvAccept(d)
       PROVE  CallInv'
  BY <1>1, <1>2, <1>23, RecvAcceptCaller, RecvAcceptTalk, CallerKeeps
<1>24. QED
  BY <1>3, <1>4, <1>5, <1>6, <1>7, <1>8, <1>9, <1>10, <1>11, <1>12, <1>13, <1>14, <1>15, <1>16, <1>17,
     <1>18, <1>19, <1>20, <1>21, <1>22, <1>23 DEF Caller

\* A step of a called device is one of its actions.
LEMMA CalleeStep ==
    ASSUME CallInv, NEW d \in Devices,
           Callee(d) \/ RecvOffer(d) \/ CalleeRecvEnd(d) \/ Answer(d) \/ CalleeHangUp(d) \/ RestartCallee(d)
    PROVE  DeviceStep(d) /\ DeviceInv(d)' /\ Speaks(d)
<1>1. TypeOK /\ DeviceInv(d)
  BY DEF CallInv, CalleeInv
<1>2. QED
  BY <1>1, CalleeReaderTeardownStep, RingFireStep, RingEndStep, RingTeardownStep, AnswerStep,
     AnswerSpawnStep, AnswerMoveStep, AnswerUndoStep, AnswerShipStep, AnswerFailStep, CalleeHangUpStep,
     CalleeHangShipStep, CalleeHangTeardownStep, RestartCalleeStep, RecvOfferStep, CalleeRecvEndStep
     DEF Callee

\* The invariant holds before the call is placed.
LEMMA CallInit == ASSUME Init PROVE CallInv
<1>1. \A m : ~In(m, <<>>)
  BY DEF In
<1>2. TypeOK
  <2>1. Idle \in Thread /\ [Idle EXCEPT !.pc = "new"] \in Thread
    BY DEF Idle, Thread
  <2>2. th \in [Threads -> Thread]
    BY <2>1 DEF Init
  <2>3. trouble \subseteq Kinds /\ Cardinality(trouble) <= MaxTrouble /\ lost \subseteq Devices
    BY FS_EmptySet, CallsAssumption DEF Init
  <2>4. /\ row \in [status : Status, ans : Devices \union {None}, stopped : SUBSET Devices]
        /\ legs \subseteq Legs /\ timer \in BOOLEAN /\ rearmed \in 0 .. Rearms
    <3>1. 0 \in 0 .. Rearms
      BY CallsAssumption
    <3>2. QED
      BY <3>1 DEF Init, Status
  <2>5. /\ crow \in [Devices -> Status] /\ clegs \in [Devices -> SUBSET Legs]
        /\ ring \in [Devices -> {"off", "armed", "firing", "teardown"}]
        /\ answer \in [Devices -> {"idle", "sender", "receiver", "move", "undo", "ship", "unsent", "fail"}]
        /\ hang \in [Devices -> {"idle", "reject", "end", "teardown"}]
        /\ creader \in [Devices -> {"idle", "teardown"}]
    BY DEF Init, Status
  <2>6. /\ toDev \in [Devices -> Seq({"offer", "end"})]
        /\ toCaller \in [Devices -> Seq({"accept", "reject", "end"})]
    BY DEF Init
  <2>7. QED
    BY <2>2, <2>3, <2>4, <2>5, <2>6 DEF TypeOK
<1>3. /\ th["start"].pc = "new" /\ th["hangup"].pc = "idle" /\ th["timer"].pc = "idle"
      /\ th["reader"].pc = "idle"
  BY DEF Init, Idle, Threads
<1>4. row.status = "none" /\ row.ans = None /\ legs = {} /\ rearmed = 0
  BY DEF Init
<1>5. CallerInv
  BY <1>3, <1>4 DEF CallerInv, Places, RowKnown, TroubleKnown, OfferWatched, Excused, LegsKnown,
     TearsDown, Terminal
<1>6. CalleeInv
  BY DEF Init, CalleeInv, DeviceInv, Pending, Terminal
<1>7. TalkInv
  <2>1. ASSUME NEW d \in Devices
        PROVE  crow[d] = "none" /\ toDev[d] = <<>> /\ toCaller[d] = <<>> /\ row.ans # d
    BY <1>4, CallsAssumption DEF Init
  <2>2. QED
    BY <1>1, <1>3, <2>1 DEF TalkInv, NoneAsked, SaysSo, Reads, AnswerHeard, EndTold
<1>8. QED
  BY <1>2, <1>5, <1>6, <1>7 DEF CallInv

\* The invariant of a call, inductive as it stands.
LEMMA CallInvariant == Spec => []CallInv
<1>1. Init => CallInv
  BY CallInit
<1>2. ASSUME CallInv, [Next]_vars PROVE CallInv'
  <2>1. CASE Caller \/ HangUp \/ RestartCaller \/ \E d \in Devices : RecvOver(d) \/ RecvAccept(d)
    BY <1>2, <2>1, CallerStep
  <2>2. ASSUME NEW d \in Devices,
               Callee(d) \/ RecvOffer(d) \/ CalleeRecvEnd(d) \/ Answer(d) \/ CalleeHangUp(d) \/ RestartCallee(d)
        PROVE  CallInv'
    BY <1>2, <2>2, CalleeStep, CalleeKeeps
  <2>3. CASE UNCHANGED vars
    BY <1>2, <2>3 DEF vars, callerVars, calleeVars, net, CallInv, TypeOK, CallerInv, Places, RowKnown,
       TroubleKnown, OfferWatched, Excused, LegsKnown, TearsDown, CalleeInv, DeviceInv, Pending, TalkInv,
       NoneAsked, SaysSo, Reads, AnswerHeard, EndTold, Silenced, Restarted, In
  <2>4. QED
    BY <1>2, <2>1, <2>2, <2>3 DEF Next, Environment
<1>3. QED
  BY <1>1, <1>2, PTL DEF Spec

-----------------------------------------------------------------------------
(* The theorems *)

\* Nothing rings for ever: when nothing is under way, an offer has its timer and
\* a ringing device its own, for any number of devices, whatever fails on the
\* way (armCallOfferTimer, armCalleeRingTimer, SweepNonTerminal).
THEOREM CallsRingingWatched == Spec => []RingingWatched
<1>1. ASSUME CallInv PROVE RingingWatched
  <2>1. SUFFICES ASSUME Quiet, "callerwrite" \in trouble => trouble \intersect {"unsent", "unspawned"} = {}
                 PROVE  /\ row.status = "offered" => timer
                        /\ \A d \in Devices : crow[d] = "ringing" => ring[d] = "armed"
    BY DEF RingingWatched
  <2>2. ~Excused
    BY <2>1 DEF Excused
  <2>3. row.status = "offered" => timer
    BY <1>1, <2>1, <2>2 DEF CallInv, CallerInv, OfferWatched, Quiet, Threads
  <2>4. \A d \in Devices : crow[d] = "ringing" => ring[d] = "armed"
    BY <1>1, <2>1 DEF CallInv, CalleeInv, DeviceInv, Quiet
  <2>5. QED
    BY <2>3, <2>4
<1>2. QED
  BY <1>1, CallInvariant, PTL

\* At rest the streamers are those of the row, at both ends, whichever teardown
\* ran while another goroutine was still starting some (teardownCall).
THEOREM CallsMediaFollowsRow == Spec => []MediaFollowsRow
<1>1. ASSUME CallInv PROVE MediaFollowsRow
  <2>1. SUFFICES ASSUME Quiet, "unsent" \notin trouble
                 PROVE  /\ row.status \notin {"offered", "accepted"} => legs = {}
                        /\ row.status = "accepted" => legs = Legs
                        /\ \A d \in Devices : clegs[d] = IF crow[d] = "accepted" THEN Legs ELSE {}
    BY DEF MediaFollowsRow
  <2>2. \A t \in Threads : th[t].pc = "idle"
    BY <2>1 DEF Quiet
  <2>3. row.status \in Status /\ row.status # "ringing"
    BY <1>1 DEF CallInv, TypeOK, CallerInv, RowKnown
  <2>4. /\ row.status \notin {"offered", "accepted"} => legs = {}
        /\ row.status = "accepted" => legs = Legs
    BY <1>1, <2>1, <2>2, <2>3 DEF CallInv, CallerInv, LegsKnown, TearsDown, Threads, Status, Terminal
  <2>5. ASSUME NEW d \in Devices PROVE clegs[d] = IF crow[d] = "accepted" THEN Legs ELSE {}
    <3>1. /\ DeviceInv(d) /\ crow[d] \in Status /\ crow[d] # "offered"
          /\ answer[d] = "idle" /\ hang[d] = "idle" /\ creader[d] = "idle" /\ ring[d] # "teardown"
      BY <1>1, <2>1 DEF CallInv, CalleeInv, DeviceInv, TypeOK, Quiet
    <3>2. QED
      BY <2>1, <3>1 DEF DeviceInv, Pending, Status, Terminal
  <2>6. QED
    BY <2>4, <2>5
<1>2. QED
  BY <1>1, CallInvariant, PTL

\* At rest nobody is left in a call with the wrong device: not the one that
\* answered late, nor the one that answered while the caller hung up or while
\* the offer timed out (ClaimAnswer, answerLost, callRecipients).  A stop of the
\* caller leaves at most the device it had recorded and the one it had in hand.
THEOREM CallsAnswerAgrees == Spec => []AnswerAgrees
<1>1. ASSUME CallInv PROVE AnswerAgrees
  <2>1. ASSUME Quiet, NEW d \in Devices, crow[d] = "accepted", ~Silenced
        PROVE  /\ row.ans = d \/ (d \in lost /\ Restarted)
               /\ ~Restarted => row.status = "accepted"
    <3>1. /\ AnswerHeard(d) /\ EndTold(d) /\ answer[d] = "idle"
          /\ toDev[d] = <<>> /\ toCaller[d] = <<>> /\ \A t \in Threads : th[t].pc = "idle"
      BY <1>1, <2>1 DEF CallInv, TalkInv, Quiet
    <3>2. ~In("accept", toCaller[d]) /\ ~In("end", toDev[d])
      BY <3>1 DEF In
    <3>3. row.ans = d \/ (d \in lost /\ Restarted)
      BY <2>1, <3>1, <3>2 DEF AnswerHeard, Threads
    <3>4. ~Restarted => row.status = "accepted"
      BY <2>1, <3>1, <3>2, <3>3 DEF EndTold, Threads
    <3>5. QED
      BY <3>3, <3>4
  <2>2. AcceptedAgree
    <3>1. trouble \subseteq {"reorder", "unspawned", "callerwrite", "hangup"} => ~Silenced /\ ~Restarted
      BY DEF Silenced, Restarted
    <3>2. QED
      BY <2>1, <3>1 DEF AcceptedAgree
  <2>3. OneAnswer
    <3>1. trouble \intersect {"unsent", "calleewrite"} = {} => ~Silenced
      BY DEF Silenced
    <3>2. QED
      BY <2>1, <3>1 DEF OneAnswer
  <2>4. QED
    BY <2>2, <2>3 DEF AnswerAgrees
<1>2. QED
  BY <1>1, CallInvariant, PTL

\* The device that has the call keeps it, and a call that is over stays over, on
\* every side (legalTransition, ClaimAnswer, SweepNonTerminal).
THEOREM CallsAnswerFinal == Spec => AnswerFinal
<1> DEFINE Kept == /\ row.ans # None => row'.ans = row.ans
                   /\ row.status \in Terminal => row'.status = row.status
                   /\ \A d \in Devices : crow[d] \in Terminal => crow'[d] = crow[d]
<1>1. ASSUME CallInv, [Next]_vars PROVE Kept
  <2>0. TypeOK /\ row \in CallRow
    BY <1>1, TypeFacts DEF CallInv
  <2>1. CASE Caller \/ HangUp \/ RestartCaller \/ \E d \in Devices : RecvOver(d) \/ RecvAccept(d)
    <3>1. crow' = crow
      BY <2>0, <2>1, CallerApart DEF calleeVars
    <3>2. ASSUME row' = row \/ \E s \in Status : LegalTransition(row.status, s) /\ row' = [row EXCEPT !.status = s]
          PROVE  Kept
      BY <2>0, <3>1, <3>2 DEF CallRow, LegalTransition, Terminal
    <3>3. \A s \in Status : Transition(s) =>
              LegalTransition(row.status, s) /\ row' = [row EXCEPT !.status = s]
      BY DEF Transition
    <3>4. {"accepted", "failed", "ended", "rejected"} \subseteq Status /\ \A k : Final(k) \in Status
      BY DEF Status, Terminal, Final
    <3>5. CASE StartPut
      <4>1. row.status = "none" /\ row.ans = None
        BY <1>1, <3>5 DEF CallInv, CallerInv, RowKnown, StartPut, At
      <4>2. QED
        BY <3>1, <4>1 DEF Terminal
    <3>6. CASE StartSkip \/ ReaderStop
      BY <2>0, <3>1, <3>6 DEF StartSkip, ReaderStop, CallerFault, CallRow
    <3>7. CASE Claim
      BY <2>0, <3>1, <3>7 DEF Claim, Unanswered, CallRow
    <3>8. CASE RestartCaller
      BY <2>0, <3>1, <3>8 DEF RestartCaller, CallRow
    <3>9. CASE StartFail \/ HangUp \/ TimerFail \/ ReaderMove \/ ReaderAccept \/ FailAnsweredCall
      BY <3>2, <3>3, <3>4, <3>9 DEF StartFail, HangUp, TimerFail, ReaderMove, ReaderAccept,
         FailAnsweredCall, CallerFault
    <3>10. CASE \/ StartSpawn \/ StartOffer \/ StartArm \/ HangUpShip \/ TimerFire \/ ReaderSpawn
                \/ \E t \in Threads : ShipEnds(t) \/ Teardown(t)
                \/ \E d \in Devices : RecvOver(d) \/ RecvAccept(d)
      BY <3>2, <3>10 DEF StartSpawn, StartOffer, StartArm, HangUpShip, TimerFire, ReaderSpawn,
         ShipEnds, Teardown, RecvOver, RecvAccept
    <3>11. QED
      BY <2>1, <3>5, <3>6, <3>7, <3>8, <3>9, <3>10 DEF Caller
  <2>2. ASSUME NEW d \in Devices,
               Callee(d) \/ RecvOffer(d) \/ CalleeRecvEnd(d) \/ Answer(d) \/ CalleeHangUp(d) \/ RestartCallee(d)
        PROVE  Kept
    <3>1. DeviceStep(d) /\ Speaks(d)
      BY <1>1, <2>2, CalleeStep
    <3>2. QED
      BY <3>1 DEF DeviceStep, Speaks, callerVars
  <2>3. CASE UNCHANGED vars
    BY <2>3 DEF vars, callerVars, calleeVars
  <2>4. QED
    BY <1>1, <2>1, <2>2, <2>3 DEF Next, Environment
<1>2. QED
  BY <1>1, CallInvariant, PTL DEF Spec, AnswerFinal
=============================================================================
