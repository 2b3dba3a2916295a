------------------------------- MODULE Calls --------------------------------
(***************************************************************************)
(* One call: the device that places it and the devices of the contact it   *)
(* rings (src/frontend/internal/calls, cmd/haoma/calls_*.go).              *)
(*                                                                         *)
(* A side keeps one row of the call in its store, the streamers (legs) it  *)
(* runs for it, and a timer.  Every write of the row is one transaction,   *)
(* retried on conflict, so one action; everything between two of them is a *)
(* point where another goroutine may run.  On the caller those are the     *)
(* handler that places the call, a handler that hangs up, the offer timer  *)
(* and the reader of inbound messages (one message at a time); on each     *)
(* called device the handler that answers, one that hangs up, the ring     *)
(* timer and the reader.  Every frame of a client is handled on a          *)
(* goroutine of its own, so an answer and a hang-up of one device overlap. *)
(***************************************************************************)
EXTENDS Integers, Sequences, FiniteSets, SequencesExt

CONSTANTS
    Devices,        \* the contact's devices, dc.FanoutPeerIDs()
    None,           \* no device
    Rearms,         \* callTimerRearms
    MaxTrouble      \* bound: kinds of trouble in one behaviour, each met once

\* handleStartCall refuses a chat that names no device.
ASSUME CallsAssumption ==
    /\ Devices # {} /\ None \notin Devices
    /\ Rearms \in Nat \ {0} /\ MaxTrouble \in Nat

-----------------------------------------------------------------------------
Terminal == {"rejected", "ended", "failed"}
Status == {"none", "offered", "ringing", "accepted"} \union Terminal
Legs == {"sender", "receiver"}

\* What may come in between: a message handed to the frontend out of order, a
\* hand-over to the backend or the start of a streamer that fails, a failed
\* write of either store, a restart of either side, and somebody who hangs up
\* on a called device.
Kinds == {"reorder", "unsent", "unspawned", "callerwrite", "calleewrite",
          "callerstop", "calleestop", "hangup"}
Threads == {"start", "hangup", "timer", "reader"}

\* A goroutine of the caller: where it is, the devices it has still to send
\* to, the kind it sends or applies, and the device whose message it handles.
Thread == [pc : {"new", "idle", "put", "offer", "skip", "arm", "fail", "ship",
                 "teardown", "stop", "move", "claim", "spawn", "accept", "failans"},
           devs : SUBSET Devices, kind : {"accept", "reject", "end"},
           dev : Devices \union {None}]

VARIABLES
    row,        \* the caller's calls.State: status, AnsweredBy, Stopped
    legs,       \* the streamers the caller runs for the call
    timer,      \* callOfferTimers: the offer timer is armed
    rearmed,    \* how often it was armed again after a failed write
    th,         \* [Threads -> Thread], the caller's goroutines
    crow,       \* status of each called device's row
    clegs,      \* its streamers
    ring,       \* its ring timer: off, armed, or where its callback is
    answer,     \* its goroutine that answers
    hang,       \* its goroutine that hangs up: idle or the kind it has to send
    creader,    \* its reader: idle or about to tear down
    toDev,      \* messages on their way to each device
    toCaller,   \* and back
    lost,       \* history: devices whose accept the caller lost, see RestartCaller
    trouble     \* the kinds of trouble met so far

callerVars == <<row, legs, timer, rearmed, th, lost>>
calleeVars == <<crow, clegs, ring, answer, hang, creader>>
net == <<toDev, toCaller>>
vars == <<callerVars, calleeVars, net, trouble>>

Idle == [pc |-> "idle", devs |-> {}, kind |-> "end", dev |-> None]

\* Type correctness of the rows, the streamers, the timers and the handlers.
TypeOK ==
    /\ row \in [status : Status, ans : Devices \union {None}, stopped : SUBSET Devices]
    /\ legs \subseteq Legs
    /\ timer \in BOOLEAN /\ rearmed \in 0..Rearms
    /\ th \in [Threads -> Thread]
    /\ crow \in [Devices -> Status]
    /\ clegs \in [Devices -> SUBSET Legs]
    /\ ring \in [Devices -> {"off", "armed", "firing", "teardown"}]
    /\ answer \in [Devices -> {"idle", "sender", "receiver", "move", "undo", "ship", "unsent", "fail"}]
    /\ hang \in [Devices -> {"idle", "reject", "end", "teardown"}]
    /\ creader \in [Devices -> {"idle", "teardown"}]
    /\ toDev \in [Devices -> Seq({"offer", "end"})]
    /\ toCaller \in [Devices -> Seq({"accept", "reject", "end"})]
    /\ lost \subseteq Devices
    /\ trouble \subseteq Kinds /\ Cardinality(trouble) <= MaxTrouble

Init ==
    /\ row = [status |-> "none", ans |-> None, stopped |-> {}]
    /\ legs = {} /\ timer = FALSE /\ rearmed = 0
    /\ th = [t \in Threads |-> IF t = "start" THEN [Idle EXCEPT !.pc = "new"] ELSE Idle]
    /\ crow = [d \in Devices |-> "none"]
    /\ clegs = [d \in Devices |-> {}]
    /\ ring = [d \in Devices |-> "off"]
    /\ answer = [d \in Devices |-> "idle"]
    /\ hang = [d \in Devices |-> "idle"]
    /\ creader = [d \in Devices |-> "idle"]
    /\ toDev = [d \in Devices |-> <<>>] /\ toCaller = [d \in Devices |-> <<>>]
    /\ lost = {} /\ trouble = {}

\* The step meets the kinds K of trouble.
Meet(K) ==
    /\ K \intersect trouble = {}
    /\ trouble' = trouble \union K
    /\ Cardinality(trouble') <= MaxTrouble

-----------------------------------------------------------------------------
(* The row (internal/calls/calls.go) *)

LegalFromAny(from, to) == from # "none" /\ to # from

LegalTransition(from, to) ==
    \/ from \in {"offered", "ringing"} /\ to \in Terminal \union {"accepted"}
    \/ from = "accepted" /\ to \in {"ended", "failed"}

\* The caller's row names every device of the contact as a target.
RingingExcept(r, d) == Devices \ (r.stopped \union {d})
Ringing(r) == IF r.ans # None THEN {} ELSE RingingExcept(r, None)

RecipientsRinging(r) == Ringing(r)

\* callRecipients of an outgoing call
Recipients(r) == IF r.ans # None THEN {r.ans} ELSE Ringing(r)

\* What ClaimAnswer and FailUnanswered ask of the row.
Unanswered(r) == r.status = "offered" /\ r.ans = None

\* The status an inbound or outbound message of this kind puts the row in.
Final(kind) == IF kind = "reject" THEN "rejected" ELSE "ended"

-----------------------------------------------------------------------------
(* Messages *)

Ship(S, kind) == toDev' = [d \in Devices |-> IF d \in S THEN Append(toDev[d], kind) ELSE toDev[d]]

Unsent(S, ok) == {k \in {"unsent"} : ok # S}

\* endCallOnDevices (shipCallToDevices): it logs what it could not send and goes
\* on.  K is what else the step meets.
End(S, K) == \E ok \in SUBSET S : Ship(ok, "end") /\ Meet(Unsent(S, ok) \union K)

\* The outbox delivers a pair's messages in order, as a rule, and none is
\* handled twice: decrypting it uses up its key.
FromDev(d, i) ==
    /\ toCaller' = [toCaller EXCEPT ![d] = RemoveAt(@, i)]
    /\ Meet({k \in {"reorder"} : i # 1})

FromCaller(d, i, K) ==
    /\ toDev' = [toDev EXCEPT ![d] = RemoveAt(@, i)]
    /\ Meet(K \union {k \in {"reorder"} : i # 1})

-----------------------------------------------------------------------------
(* The caller *)

\* A write of the caller's store that fails; the row keeps its value.  Reads do
\* not fail, so what the transaction would refuse it still refuses.
CallerFault == Meet({"callerwrite"}) /\ UNCHANGED row

At(t, pc) == th[t].pc = pc
Go(t, pc) == th' = [th EXCEPT ![t].pc = pc]
Return(t) == th' = [th EXCEPT ![t] = Idle]

\* answerLost: too late, unless it is the winner's answer again.
AnswerLost(d) == IF d = row.ans THEN UNCHANGED <<toDev, trouble>> ELSE End({d}, {})

\* The row moved on while the reader started the media.
KeepsLegs == Return("reader")

MovedOn == Go("reader", "teardown")

\* A timer whose write failed is armed again, a few times.
NoRearm == UNCHANGED <<timer, rearmed>>

Rearm == IF rearmed < Rearms THEN timer' = TRUE /\ rearmed' = rearmed + 1 ELSE UNCHANGED <<timer, rearmed>>

\* Transition, and broadcastCallStateChanged, which stops the offer timer.
Transition(next) ==
    /\ LegalTransition(row.status, next)
    /\ row' = [row EXCEPT !.status = next]
    /\ timer' = FALSE
    /\ UNCHANGED trouble

\* The sender leg is started before the row exists (handleStartCall).
StartSpawn ==
    /\ At("start", "new")
    /\ \/ legs' = {"sender"} /\ Go("start", "put") /\ UNCHANGED trouble
       \/ Meet({"unspawned"}) /\ Return("start") /\ UNCHANGED legs
    /\ UNCHANGED <<row, timer, rearmed, calleeVars, lost, net>>

StartPut ==
    /\ At("start", "put")
    /\ \/ row' = [row EXCEPT !.status = "offered"] /\ Go("start", "offer") /\ UNCHANGED trouble
       \/ CallerFault /\ Go("start", "teardown")
    /\ UNCHANGED <<legs, timer, rearmed, calleeVars, lost, net>>

\* Dispatch fails only when it reached no device.
StartOffer ==
    /\ At("start", "offer")
    /\ \E ok \in SUBSET Devices :
         /\ Ship(ok, "offer") /\ Meet(Unsent(Devices, ok))
         /\ th' = [th EXCEPT !["start"] = [@ EXCEPT
                      !.pc = IF ok = {} THEN "fail" ELSE IF ok = Devices THEN "arm" ELSE "skip",
                      !.devs = Devices \ ok]]
    /\ UNCHANGED <<row, legs, timer, rearmed, calleeVars, lost, toCaller>>

StartFail ==
    /\ At("start", "fail")
    /\ \/ Transition("failed")
       \/ ~LegalTransition(row.status, "failed") /\ UNCHANGED <<row, timer, trouble>>
       \/ LegalTransition(row.status, "failed") /\ CallerFault /\ UNCHANGED timer
    /\ Go("start", "teardown")
    /\ UNCHANGED <<legs, rearmed, calleeVars, lost, net>>

StartSkip ==
    /\ At("start", "skip")
    /\ \/ row' = [row EXCEPT !.stopped = @ \union th["start"].devs] /\ UNCHANGED trouble
       \/ CallerFault
    /\ Go("start", "arm")
    /\ UNCHANGED <<legs, timer, rearmed, calleeVars, lost, net>>

\* scheduleCallOfferTimeout, whatever became of the row meanwhile.
StartArm ==
    /\ At("start", "arm")
    /\ timer' = TRUE
    /\ Return("start")
    /\ UNCHANGED <<row, legs, rearmed, calleeVars, lost, net, trouble>>

\* handleRespondCall on the caller's own row.  The clients offer reject for an
\* incoming call only.
HangUp ==
    /\ At("hangup", "idle")
    /\ Transition("ended")
    /\ th' = [th EXCEPT !["hangup"] = [@ EXCEPT !.pc = "ship", !.devs = Recipients(row')]]
    /\ UNCHANGED <<legs, rearmed, calleeVars, lost, net>>

\* When not one device could be told the handler answers with an error, before
\* its teardown.
HangUpShip ==
    /\ At("hangup", "ship")
    /\ \E ok \in SUBSET th["hangup"].devs :
         /\ Ship(ok, "end") /\ Meet(Unsent(th["hangup"].devs, ok))
         /\ IF ok = {} /\ th["hangup"].devs # {} THEN Return("hangup") ELSE Go("hangup", "teardown")
    /\ UNCHANGED <<row, legs, timer, rearmed, calleeVars, lost, toCaller>>

\* armCallOfferTimer's callback: 30 s after the offer, unless it was stopped.
TimerFire ==
    /\ timer /\ At("timer", "idle")
    /\ timer' = FALSE
    /\ IF Unanswered(row) THEN Go("timer", "fail") ELSE UNCHANGED th
    /\ UNCHANGED <<row, legs, rearmed, calleeVars, lost, net, trouble>>

\* FailUnanswered checks both again inside its transaction.
TimerFail ==
    /\ At("timer", "fail")
    /\ \/ /\ Unanswered(row)
          /\ Transition("failed")
          /\ th' = [th EXCEPT !["timer"] = [@ EXCEPT !.pc = "ship", !.devs = Recipients(row')]]
          /\ UNCHANGED rearmed
       \/ ~Unanswered(row) /\ Return("timer") /\ UNCHANGED <<row, timer, rearmed, trouble>>
       \/ /\ Unanswered(row) /\ CallerFault
          /\ Rearm
          /\ Return("timer")
    /\ UNCHANGED <<legs, calleeVars, lost, net>>

\* The end leaves before the teardown.
ShipEnds(t) ==
    /\ t \in {"timer", "reader"} /\ At(t, "ship")
    /\ End(th[t].devs, {})
    /\ Go(t, "teardown")
    /\ UNCHANGED <<row, legs, timer, rearmed, calleeVars, lost, toCaller>>

\* teardownCall
Teardown(t) ==
    /\ At(t, "teardown")
    /\ legs' = {}
    /\ Return(t)
    /\ UNCHANGED <<row, timer, rearmed, calleeVars, lost, net, trouble>>

\* An inbound end or reject (applyCallTransition), first its read of the row.
RecvOver(d) ==
    /\ At("reader", "idle")
    /\ \E i \in DOMAIN toCaller[d] :
         LET kind == toCaller[d][i] IN
         /\ kind \in {"reject", "end"}
         /\ FromDev(d, i)
         /\ IF row.status = "none" \/ row.ans \notin {None, d}
            THEN UNCHANGED th
            ELSE th' = [th EXCEPT !["reader"] =
                          [pc |-> IF Unanswered(row) /\ kind = "end" THEN "stop" ELSE "move",
                           devs |-> IF row.ans = None /\ kind = "reject" THEN RingingExcept(row, d) ELSE {},
                           kind |-> kind, dev |-> d]]
    /\ UNCHANGED <<row, legs, timer, rearmed, calleeVars, lost, toDev>>

\* MarkStopped; the call goes on while another device rings.
ReaderStop ==
    /\ At("reader", "stop")
    /\ \/ /\ row' = [row EXCEPT !.stopped = @ \union {th["reader"].dev}]
          /\ IF Ringing(row') # {} THEN Return("reader") ELSE Go("reader", "move")
          /\ UNCHANGED trouble
       \/ CallerFault /\ Return("reader")
    /\ UNCHANGED <<legs, timer, rearmed, calleeVars, lost, net>>

ReaderMove ==
    /\ At("reader", "move")
    /\ LET next == Final(th["reader"].kind) IN
         \/ Transition(next) /\ Go("reader", "ship")
         \/ ~LegalTransition(row.status, next) /\ Return("reader") /\ UNCHANGED <<row, timer, trouble>>
         \/ LegalTransition(row.status, next) /\ CallerFault /\ Return("reader") /\ UNCHANGED timer
    /\ UNCHANGED <<legs, rearmed, calleeVars, lost, net>>

\* An inbound accept (applyCallAccept).
RecvAccept(d) ==
    /\ At("reader", "idle")
    /\ \E i \in DOMAIN toCaller[d] :
         /\ toCaller[d][i] = "accept"
         /\ FromDev(d, i)
         /\ IF row.status = "none" THEN UNCHANGED th
            ELSE th' = [th EXCEPT !["reader"] = [Idle EXCEPT !.pc = "claim", !.dev = d, !.kind = "accept"]]
    /\ UNCHANGED <<row, legs, timer, rearmed, calleeVars, lost, toDev>>

\* ClaimAnswer.  The first device has the call and the others are told; a
\* device that came too late, or whose claim could not be written, is sent an
\* end; a repeat from the winner is ignored.
Claim ==
    /\ At("reader", "claim")
    /\ LET d == th["reader"].dev IN
         \/ /\ Unanswered(row)
            /\ row' = [row EXCEPT !.ans = d]
            /\ End(RingingExcept(row, d), {})
            /\ Go("reader", "spawn")
         \/ /\ ~Unanswered(row)
            /\ AnswerLost(d)
            /\ Return("reader")
            /\ UNCHANGED row
         \/ Unanswered(row) /\ End({d}, {"callerwrite"}) /\ Return("reader") /\ UNCHANGED row
    /\ UNCHANGED <<legs, timer, rearmed, calleeVars, lost, toCaller>>

\* The receiver leg.  A streamer that started and was not ready in time takes
\* every leg of the call down with it (spawnReceiverLeg).
ReaderSpawn ==
    /\ At("reader", "spawn")
    /\ \/ legs' = legs \union {"receiver"} /\ Go("reader", "accept") /\ UNCHANGED trouble
       \/ Meet({"unspawned"}) /\ legs' \in {legs, {}} /\ Go("reader", "failans")
    /\ UNCHANGED <<row, timer, rearmed, calleeVars, lost, net>>

ReaderAccept ==
    /\ At("reader", "accept")
    /\ \/ Transition("accepted") /\ Return("reader")
       \/ ~LegalTransition(row.status, "accepted") /\ MovedOn /\ UNCHANGED <<row, timer, trouble>>
       \/ LegalTransition(row.status, "accepted") /\ CallerFault /\ Go("reader", "failans") /\ UNCHANGED timer
    /\ UNCHANGED <<legs, rearmed, calleeVars, lost, net>>

FailAnsweredCall ==
    /\ At("reader", "failans")
    /\ \/ /\ Transition("failed")
          /\ th' = [th EXCEPT !["reader"] = [@ EXCEPT !.pc = "ship", !.devs = Recipients(row')]]
       \/ ~LegalTransition(row.status, "failed") /\ Return("reader") /\ UNCHANGED <<row, timer, trouble>>
       \/ /\ LegalTransition(row.status, "failed") /\ CallerFault
          /\ th' = [th EXCEPT !["reader"] = [@ EXCEPT !.pc = "ship", !.devs = {th["reader"].dev}]]
          /\ UNCHANGED timer
    /\ UNCHANGED <<legs, rearmed, calleeVars, lost, net>>

\* The caller's frontend stops and starts again: SweepNonTerminal fails the row
\* and tells nobody.  The message in hand was decrypted, so its second delivery
\* is an old counter: an accept whose claim was not yet written is lost.
RestartCaller ==
    /\ Meet({"callerstop"})
    /\ row.status # "none"
    /\ row' = IF row.status \in Terminal THEN row ELSE [row EXCEPT !.status = "failed"]
    /\ legs' = {} /\ timer' = FALSE /\ rearmed' = 0
    /\ th' = [t \in Threads |-> Idle]
    /\ lost' = lost \union {d \in Devices : At("reader", "claim") /\ d = th["reader"].dev}
    /\ UNCHANGED <<calleeVars, net>>

-----------------------------------------------------------------------------
(* A called device *)

\* Transition of the device's row, and the same when its write fails.
CMove(d, next) == LegalTransition(crow[d], next) /\ crow' = [crow EXCEPT ![d] = next]

CalleeFault(d, next) ==
    /\ LegalTransition(crow[d], next) /\ UNCHANGED crow
    /\ Meet({"calleewrite"})

\* ingestCallOffer: a call it knows is ignored, an offer over two minutes old
\* is dropped, and so is one whose row cannot be stored.
RecvOffer(d) ==
    /\ creader[d] = "idle"
    /\ \E i \in DOMAIN toDev[d] : toDev[d][i] = "offer" /\ FromCaller(d, i, {})
    /\ \/ crow[d] = "none" /\ crow' = [crow EXCEPT ![d] = "ringing"] /\ ring' = [ring EXCEPT ![d] = "armed"]
       \/ UNCHANGED <<crow, ring>>
    /\ UNCHANGED <<callerVars, clegs, answer, hang, creader, toCaller>>

\* An inbound end (applyCallTransition); the caller is the only target of the row.
CalleeRecvEnd(d) ==
    /\ creader[d] = "idle"
    /\ \E i \in DOMAIN toDev[d] :
         /\ toDev[d][i] = "end"
         /\ \/ CMove(d, "ended") /\ creader' = [creader EXCEPT ![d] = "teardown"] /\ FromCaller(d, i, {})
            \/ ~LegalTransition(crow[d], "ended") /\ UNCHANGED <<crow, creader>> /\ FromCaller(d, i, {})
            \/ LegalTransition(crow[d], "ended") /\ UNCHANGED <<crow, creader>> /\ FromCaller(d, i, {"calleewrite"})
    /\ UNCHANGED <<callerVars, clegs, ring, answer, hang, toCaller>>

CalleeReaderTeardown(d) ==
    /\ creader[d] = "teardown"
    /\ clegs' = [clegs EXCEPT ![d] = {}]
    /\ creader' = [creader EXCEPT ![d] = "idle"]
    /\ UNCHANGED <<callerVars, crow, ring, answer, hang, net, trouble>>

RingNext(d) ==
    IF crow[d] # "ringing" THEN "off" ELSE IF answer[d] # "idle" THEN "armed" ELSE "firing"

\* armCalleeRingTimer's callback, 60 s after the offer came: nothing to do for a
\* call that rings no more, and an answer that has begun is waited for.
RingFire(d) ==
    /\ ring[d] = "armed"
    /\ ring' = [ring EXCEPT ![d] = RingNext(d)]
    /\ UNCHANGED <<callerVars, crow, clegs, answer, hang, creader, net, trouble>>

\* The ringing ends on this device alone and nothing is sent; a failed write is
\* tried again.
RingEnd(d) ==
    /\ ring[d] = "firing"
    /\ \/ CMove(d, "ended") /\ ring' = [ring EXCEPT ![d] = "teardown"] /\ UNCHANGED trouble
       \/ ~LegalTransition(crow[d], "ended") /\ ring' = [ring EXCEPT ![d] = "off"] /\ UNCHANGED <<crow, trouble>>
       \/ CalleeFault(d, "ended") /\ ring' = [ring EXCEPT ![d] = "armed"]
    /\ UNCHANGED <<callerVars, clegs, answer, hang, creader, net>>

RingTeardown(d) ==
    /\ ring[d] = "teardown"
    /\ clegs' = [clegs EXCEPT ![d] = {}]
    /\ ring' = [ring EXCEPT ![d] = "off"]
    /\ UNCHANGED <<callerVars, crow, answer, hang, creader, net, trouble>>

\* handleRespondCall, accept: both legs come up before the row is moved.
Answer(d) ==
    /\ answer[d] = "idle" /\ crow[d] = "ringing"
    /\ answer' = [answer EXCEPT ![d] = "sender"]
    /\ UNCHANGED <<callerVars, crow, clegs, ring, hang, creader, net, trouble>>

AnswerSpawn(d) ==
    /\ answer[d] \in Legs
    /\ \/ /\ clegs' = [clegs EXCEPT ![d] = @ \union {answer[d]}]
          /\ answer' = [answer EXCEPT ![d] = IF @ = "sender" THEN "receiver" ELSE "move"]
          /\ UNCHANGED trouble
       \/ Meet({"unspawned"}) /\ clegs' = [clegs EXCEPT ![d] = {}] /\ answer' = [answer EXCEPT ![d] = "fail"]
    /\ UNCHANGED <<callerVars, crow, ring, hang, creader, net>>

\* The row did not move: the legs just started are taken down again.
Undo(d) == answer' = [answer EXCEPT ![d] = "undo"]

AnswerMove(d) ==
    /\ answer[d] = "move"
    /\ \/ CMove(d, "accepted") /\ answer' = [answer EXCEPT ![d] = "ship"] /\ UNCHANGED trouble
       \/ ~LegalTransition(crow[d], "accepted") /\ Undo(d) /\ UNCHANGED <<crow, trouble>>
       \/ CalleeFault(d, "accepted") /\ Undo(d)
    /\ UNCHANGED <<callerVars, clegs, ring, hang, creader, net>>

AnswerUndo(d) ==
    /\ answer[d] \in {"undo", "unsent"}
    /\ clegs' = [clegs EXCEPT ![d] = {}]
    /\ answer' = [answer EXCEPT ![d] = IF @ = "undo" THEN "idle" ELSE "fail"]
    /\ UNCHANGED <<callerVars, crow, ring, hang, creader, net, trouble>>

AnswerShip(d) ==
    /\ answer[d] = "ship"
    /\ \/ toCaller' = [toCaller EXCEPT ![d] = Append(@, "accept")] /\ answer' = [answer EXCEPT ![d] = "idle"] /\ UNCHANGED trouble
       \/ Meet({"unsent"}) /\ answer' = [answer EXCEPT ![d] = "unsent"] /\ UNCHANGED toCaller
    /\ UNCHANGED <<callerVars, crow, clegs, ring, hang, creader, toDev>>

AnswerFail(d) ==
    /\ answer[d] = "fail"
    /\ \/ CMove(d, "failed") /\ UNCHANGED trouble
       \/ ~LegalTransition(crow[d], "failed") /\ UNCHANGED <<crow, trouble>>
       \/ CalleeFault(d, "failed")
    /\ answer' = [answer EXCEPT ![d] = "idle"]
    /\ UNCHANGED <<callerVars, clegs, ring, hang, creader, net>>

\* handleRespondCall, reject or end.
CalleeHangUp(d) ==
    /\ hang[d] = "idle"
    /\ Meet({"hangup"})
    /\ \E kind \in {"reject", "end"} :
         CMove(d, Final(kind)) /\ hang' = [hang EXCEPT ![d] = kind]
    /\ UNCHANGED <<callerVars, clegs, ring, answer, creader, net>>

CalleeHangShip(d) ==
    /\ hang[d] \in {"reject", "end"}
    /\ \/ toCaller' = [toCaller EXCEPT ![d] = Append(@, hang[d])] /\ hang' = [hang EXCEPT ![d] = "teardown"] /\ UNCHANGED trouble
       \/ Meet({"unsent"}) /\ hang' = [hang EXCEPT ![d] = "idle"] /\ UNCHANGED toCaller
    /\ UNCHANGED <<callerVars, crow, clegs, ring, answer, creader, toDev>>

CalleeHangTeardown(d) ==
    /\ hang[d] = "teardown"
    /\ clegs' = [clegs EXCEPT ![d] = {}]
    /\ hang' = [hang EXCEPT ![d] = "idle"]
    /\ UNCHANGED <<callerVars, crow, ring, answer, creader, net, trouble>>

RestartCallee(d) ==
    /\ Meet({"calleestop"})
    /\ crow[d] # "none"
    /\ crow' = [crow EXCEPT ![d] = IF @ \in Terminal THEN @ ELSE "failed"]
    /\ clegs' = [clegs EXCEPT ![d] = {}]
    /\ ring' = [ring EXCEPT ![d] = "off"]
    /\ answer' = [answer EXCEPT ![d] = "idle"]
    /\ hang' = [hang EXCEPT ![d] = "idle"]
    /\ creader' = [creader EXCEPT ![d] = "idle"]
    /\ UNCHANGED <<callerVars, net>>

-----------------------------------------------------------------------------
Caller ==
    \/ StartSpawn \/ StartPut \/ StartOffer \/ StartFail \/ StartSkip \/ StartArm
    \/ HangUpShip \/ TimerFire \/ TimerFail
    \/ \E t \in Threads : ShipEnds(t) \/ Teardown(t)
    \/ ReaderStop \/ ReaderMove \/ Claim \/ ReaderSpawn \/ ReaderAccept \/ FailAnsweredCall

Callee(d) ==
    \/ CalleeReaderTeardown(d) \/ RingFire(d) \/ RingEnd(d) \/ RingTeardown(d)
    \/ AnswerSpawn(d) \/ AnswerMove(d) \/ AnswerUndo(d) \/ AnswerShip(d) \/ AnswerFail(d)
    \/ CalleeHangShip(d) \/ CalleeHangTeardown(d)

Environment ==
    \/ HangUp \/ RestartCaller
    \/ \E d \in Devices : \/ RecvOver(d) \/ RecvAccept(d) \/ RecvOffer(d) \/ CalleeRecvEnd(d)
                          \/ Answer(d) \/ CalleeHangUp(d) \/ RestartCallee(d)

Next == Caller \/ Environment \/ \E d \in Devices : Callee(d)

Spec == Init /\ [][Next]_vars

-----------------------------------------------------------------------------
(* Properties *)

\* Nothing is under way: no goroutine, no message.  Timers may be pending.
Quiet ==
    /\ \A t \in Threads : th[t].pc = "idle"
    /\ \A d \in Devices : /\ answer[d] = "idle" /\ hang[d] = "idle" /\ creader[d] = "idle" /\ ring[d] \in {"off", "armed"}
                          /\ toDev[d] = <<>> /\ toCaller[d] = <<>>

\* At rest a device shows an accepted call only if the caller has accepted it
\* and with that device: whoever answers late, answers while the caller hangs
\* up or while the offer times out is told so (Claim, answerLost, callRecipients).
\* A word that could not be sent, a called device's failed write and a restart,
\* which tells nobody, are excepted.
AcceptedAgree ==
    Quiet /\ trouble \subseteq {"reorder", "unspawned", "callerwrite", "hangup"} =>
        \A d \in Devices : crow[d] = "accepted" => row.status = "accepted" /\ row.ans = d

\* The weaker promise that survives a restart of either side, at any moment: a
\* device left in an accepted call is the one whose answer was recorded, or the
\* one whose answer the caller had in its hand when it stopped (ClaimAnswer,
\* SweepNonTerminal); any other is told that it came too late.
OneAnswer ==
    Quiet /\ trouble \intersect {"unsent", "calleewrite"} = {} =>
        \A d \in Devices : crow[d] = "accepted" => row.ans = d \/ d \in lost

\* At rest the streamers are those of the row: none for a call that is over,
\* both directions for an accepted one, at both ends; whichever teardown ran
\* while another goroutine was still starting legs (teardownCall).  A word that
\* could not be sent is excepted: a hang-up nobody was told of skips its teardown.
MediaFollowsRow ==
    Quiet /\ "unsent" \notin trouble =>
      /\ row.status \notin {"offered", "accepted"} => legs = {}
      /\ row.status = "accepted" => legs = Legs
      /\ \A d \in Devices : clegs[d] = IF crow[d] = "accepted" THEN Legs ELSE {}

\* The device that has the call keeps it, and a call that is over stays over,
\* on every side (legalTransition, ClaimAnswer).
AnswerFinal ==
    [][ /\ row.ans # None => row'.ans = row.ans
        /\ row.status \in Terminal => row'.status = row.status
        /\ \A d \in Devices : crow[d] \in Terminal => crow'[d] = crow[d] ]_vars

\* Nothing rings for ever, whatever one of them does or fails to do: when
\* nothing is under way, an offer has its timer and a ringing device its own
\* (armCallOfferTimer, armCalleeRingTimer, SweepNonTerminal).  Excepted is a
\* call that failed, because nobody was reached or no streamer started, and
\* whose failure could not be written either.
RingingWatched ==
    Quiet /\ ("callerwrite" \in trouble => trouble \intersect {"unsent", "unspawned"} = {}) =>
             /\ row.status = "offered" => timer
             /\ \A d \in Devices : crow[d] = "ringing" => ring[d] = "armed"

\* At rest nobody is left in a call with the wrong device (ClaimAnswer, answerLost).
AnswerAgrees == AcceptedAgree /\ OneAnswer
=============================================================================
