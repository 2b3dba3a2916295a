-------------------------- MODULE FileTransferProofs --------------------------
(***************************************************************************)
(* A file that is ready stays ready and sealed, its bytes are always with  *)
(* someone, message and metadata agree at rest and no file is stranded:    *)
(* for any number of retries, broken downloads and troubles, any limits.   *)
(***************************************************************************)
EXTENDS FileTransfer, TLAPS

StampSteps == {"stamp", "stampRow", "stampMeta"}
Pcs == {"idle", "list", "offer", "offerMeta", "offerReceipt", "offerFetch", "key", "pull", "write",
        "drop", "receipt", "converge", "seal", "record", "await"} \cup StampSteps
Step == [pc : Pcs, to : FileStates \cup {"none"}, entry : {"none", "offer", "key"}]

\* What the worker publishes.
EventStates == FetchStates \ {"none"}

\* The goroutine is about to write "ready".
WritesReady(x) == x.pc = "record" \/ (x.pc \in StampSteps /\ x.to = "ready")

\* Who is about to write "ready" has sealed the file; ReadyIsFinal alone does
\* not say so, and sealing and recording are steps of their own.
SealedInv ==
    /\ act \in [Actors -> Step]
    /\ sealed \in BOOLEAN
    /\ events \in Seq(EventStates)
    /\ meta = "ready" => sealed
    /\ \A a \in Actors : WritesReady(act[a]) => sealed

\* What a step may do to the goroutines and to the records.
Moves ==
    /\ act' \in [Actors -> Step]
    /\ \A a \in Actors : act'[a] = act[a] \/ (WritesReady(act'[a]) => sealed')

KeepsReady ==
    /\ sealed' \in BOOLEAN /\ (sealed => sealed')
    /\ meta = "ready" => meta' = "ready"
    /\ meta' = "ready" => meta = "ready" \/ sealed'

\* A step of this kind keeps the invariant and a ready file.
LEMMA MoveKeeps ==
    ASSUME SealedInv, KeepsReady, Moves, events' \in Seq(EventStates)
    PROVE  SealedInv' /\ (meta = "ready" => meta' = "ready" /\ sealed')
BY DEF SealedInv, KeepsReady, Moves

\* A goroutine goes to a step that writes no "ready", or is sealed already.
LEMMA GotoMoves ==
    ASSUME SealedInv, NEW a \in Actors, NEW pc \in Pcs, Goto(a, pc),
           sealed \in BOOLEAN, sealed' \in BOOLEAN,
           pc \notin {"record"} \cup StampSteps \/ sealed'
    PROVE  Moves
BY DEF SealedInv, Goto, Moves, WritesReady, Step

\* A goroutine that starts a stamp (stampState) carries "ready" only once sealed.
LEMMA StampMoves ==
    ASSUME SealedInv, NEW a \in Actors, NEW s \in FileStates, Stamp(a, s),
           sealed' \in BOOLEAN, s # "ready" \/ sealed'
    PROVE  Moves
<1> DEFINE new == [act[a] EXCEPT !.pc = "stamp", !.to = s]
<1>1. new \in Step /\ new.to = s /\ new.pc = "stamp"
  BY DEF SealedInv, Step, Pcs, StampSteps
<1>2. act' = [act EXCEPT ![a] = new]
  BY DEF Stamp, SealedInv, Step
<1> HIDE DEF new
<1>3. act' \in [Actors -> Step]
  BY <1>1, <1>2 DEF SealedInv
<1>4. \A b \in Actors : act'[b] = act[b] \/ (b = a /\ act'[b] = new)
  BY <1>2 DEF SealedInv
<1>5. WritesReady(new) => sealed'
  BY <1>1 DEF WritesReady
<1>6. QED
  BY <1>3, <1>4, <1>5 DEF Moves

\* A goroutine that ends its work is idle and writes nothing.
LEMMA FinishMoves ==
    ASSUME SealedInv, NEW a \in Actors, Finish(a) PROVE Moves
<1>1. Idle \in Step /\ ~WritesReady(Idle)
  BY DEF Idle, Step, Pcs, WritesReady, StampSteps
<1>2. act' = [act EXCEPT ![a] = Idle]
  BY DEF Finish
<1>3. act' \in [Actors -> Step]
  BY <1>1, <1>2 DEF SealedInv
<1>4. \A b \in Actors : act'[b] = act[b] \/ act'[b] = Idle
  BY <1>2 DEF SealedInv
<1>5. QED
  BY <1>1, <1>3, <1>4 DEF Moves

\* A step that leaves both goroutines alone is a legal move.
LEMMA StayMoves ==
    ASSUME SealedInv, UNCHANGED act PROVE Moves
BY DEF SealedInv, Moves

\* The backend, the sender and the stream touch neither the frontend's records
\* nor its goroutines.
LEMMA BackendSteps ==
    ASSUME SealedInv,
           \/ WorkerStep \/ BackStop \/ BackStart \/ Disconnect \/ SenderAnswers
           \/ KeyArrives \/ EnvelopeFails \/ Withdraw
           \/ \E r \in Retriers : RetryStep(r)
    PROVE  KeepsReady /\ Moves
<1>1. CASE WorkerStep
  BY <1>1 DEF WorkerStep, StartFetch, RunOne, StreamSome, StreamWhole, StreamBreaks,
     StreamGone, Rename, WriteReady, WorkerWipes, WorkerExits, frontVars, SealedInv, KeepsReady, Moves
<1>2. CASE \E r \in Retriers : RetryStep(r)
  BY <1>2 DEF RetryStep, RetryList, RetryDecide, RetryWipes, RetryKicks, frontVars, SealedInv, KeepsReady, Moves
<1>3. CASE BackStop \/ BackStart \/ Disconnect
  BY <1>3 DEF BackStop, BackStart, Disconnect, frontVars, SealedInv, KeepsReady, Moves
<1>4. CASE SenderAnswers \/ KeyArrives \/ EnvelopeFails \/ Withdraw
  BY <1>4 DEF SenderAnswers, KeyArrives, EnvelopeFails, Withdraw, frontVars, SealedInv, KeepsReady, Moves
<1>5. QED
  BY <1>1, <1>2, <1>3, <1>4

\* The events loop and the start of the sweep write neither "ready" nor over it.
LEMMA LoopSteps ==
    ASSUME SealedInv, LoopStep \/ SweepList \/ Connect
    PROVE  KeepsReady /\ Moves
<1> USE DEF SameFront, SameBack, SameNet, Actors
<1>1. CASE OfferRow \/ OfferReceipt \/ KeyWritten \/ SweepList \/ Connect
  <2>1. KeepsReady
    BY <1>1 DEF SealedInv, KeepsReady, OfferRow, OfferReceipt, KeyWritten, SweepList, Connect
  <2>2. \E a \in Actors, pc \in {"offerMeta", "offerFetch", "converge", "list", "pull", "idle"} : Goto(a, pc)
    BY <1>1 DEF OfferRow, OfferReceipt, KeyWritten, SweepList, Connect
  <2>3. QED
    BY <2>1, <2>2, GotoMoves DEF StampSteps, Pcs, KeepsReady, SealedInv
<1>2. CASE OfferMeta
  <2>1. KeepsReady
    BY <1>2 DEF SealedInv, KeepsReady, OfferMeta
  <2>2. Goto("loop", "offerReceipt") \/ Finish("loop")
    BY <1>2 DEF OfferMeta
  <2>3. QED
    BY <2>1, <2>2, GotoMoves, FinishMoves DEF StampSteps, Pcs, KeepsReady, SealedInv
<1>3. CASE OfferFetch
  <2>1. KeepsReady
    BY <1>3 DEF SealedInv, KeepsReady, OfferFetch
  <2>2. Stamp("loop", "failed_transient") \/ Finish("loop")
    BY <1>3 DEF OfferFetch
  <2>3. QED
    BY <2>1, <2>2, StampMoves, FinishMoves DEF KeepsReady, FileStates, FetchStates
<1>4. CASE HandleEvent
  <2>1. KeepsReady
    BY <1>4 DEF SealedInv, KeepsReady, HandleEvent
  <2>2. Head(events) \in FileStates
    BY <1>4 DEF SealedInv, HandleEvent, EventStates, FileStates
  <2>3. UNCHANGED act \/ Goto("loop", "pull") \/ (Head(events) # "ready" /\ Stamp("loop", Head(events)))
    BY <1>4 DEF HandleEvent
  <2>4. QED
    BY <2>1, <2>2, <2>3, StampMoves, GotoMoves, StayMoves DEF KeepsReady, StampSteps, Pcs, SealedInv
<1>5. CASE \E e \in {"offer", "key"} : TakeEntry(e)
  BY <1>5 DEF SealedInv, KeepsReady, Moves, TakeEntry, StampSteps, Step, Pcs, WritesReady
<1>6. QED
  BY <1>1, <1>2, <1>3, <1>4, <1>5 DEF LoopStep

\* The pull, and the seal under the file's lock.
LEMMA ActorSteps ==
    ASSUME SealedInv, NEW a \in Actors, ActorStep(a)
    PROVE  KeepsReady /\ Moves
<1> USE DEF SameFront, SameBack, SameNet
<1>1. CASE Pull(a)
  <2>1. KeepsReady
    BY <1>1 DEF SealedInv, KeepsReady, Pull
  <2>2. Goto(a, "write") \/ Goto(a, "idle") \/ Stamp(a, "failed_transient")
    BY <1>1 DEF Pull
  <2>3. QED
    BY <2>1, <2>2, GotoMoves, StampMoves DEF StampSteps, Pcs, KeepsReady, SealedInv, FileStates, FetchStates
<1>2. CASE PullWrites(a) \/ PullDrops(a) \/ PostPullReceipt(a)
  <2>1. KeepsReady
    BY <1>2 DEF SealedInv, KeepsReady, PullWrites, PullDrops, PostPullReceipt
  <2>2. \E pc \in {"drop", "receipt", "converge"} : Goto(a, pc)
    BY <1>2 DEF PullWrites, PullDrops, PostPullReceipt
  <2>3. QED
    BY <2>1, <2>2, GotoMoves DEF StampSteps, Pcs, KeepsReady, SealedInv
<1>3. CASE Converge(a)
  <2>1. KeepsReady
    BY <1>3 DEF SealedInv, KeepsReady, Converge
  <2>2. Goto(a, "seal") \/ Goto(a, "await") \/ Finish(a)
    BY <1>3 DEF Converge
  <2>3. QED
    BY <2>1, <2>2, GotoMoves, FinishMoves DEF StampSteps, Pcs, KeepsReady, SealedInv
<1>4. CASE Seal(a)
  <2>1. KeepsReady /\ sealed'
    BY <1>4 DEF SealedInv, KeepsReady, Seal
  <2>2. Goto(a, "record")
    BY <1>4 DEF Seal
  <2>3. QED
    BY <2>1, <2>2, GotoMoves DEF Pcs, KeepsReady, SealedInv
<1>5. CASE Record(a)
  <2>1. sealed /\ sealed' = sealed
    BY <1>5 DEF SealedInv, Record, WritesReady
  <2>2. KeepsReady
    BY <1>5, <2>1 DEF SealedInv, KeepsReady, Record
  <2>3. Stamp(a, "ready")
    BY <1>5 DEF Record
  <2>4. QED
    BY <2>1, <2>2, <2>3, StampMoves DEF KeepsReady, FileStates, FetchStates
<1>6. CASE AwaitKey(a)
  <2>1. KeepsReady
    BY <1>6 DEF SealedInv, KeepsReady, AwaitKey, Settled
  <2>2. Finish(a) \/ Stamp(a, "awaiting_key")
    BY <1>6 DEF AwaitKey
  <2>3. QED
    BY <2>1, <2>2, FinishMoves, StampMoves DEF KeepsReady, FileStates
<1>7. CASE StampReads(a)
  <2>1. KeepsReady
    BY <1>7 DEF SealedInv, KeepsReady, StampReads
  <2>2. CASE Finish(a)
    BY <2>1, <2>2, FinishMoves
  <2>3. CASE Goto(a, "stampRow")
    BY <1>7, <2>1, <2>3 DEF SealedInv, StampReads, Goto, Moves, WritesReady, Step, Pcs, StampSteps, KeepsReady
  <2>4. QED
    BY <1>7, <2>2, <2>3 DEF StampReads
<1>8. CASE StampWritesRow(a)
  BY <1>8 DEF SealedInv, StampWritesRow, KeepsReady, Goto, Moves, WritesReady, Step, Pcs, StampSteps
<1>9. CASE StampWritesMeta(a)
  <2>1. Finish(a) /\ sealed' = sealed
    BY <1>9 DEF StampWritesMeta
  <2>2. act[a].to = "ready" => sealed
    BY <1>9 DEF SealedInv, StampWritesMeta, WritesReady, StampSteps
  <2>3. KeepsReady
    BY <1>9, <2>1, <2>2 DEF SealedInv, StampWritesMeta, KeepsReady, StampAllowed
  <2>4. QED
    BY <2>1, <2>3, FinishMoves
<1>10. CASE SealFails(a)
  <2>1. KeepsReady /\ Stamp(a, "failed_transient")
    BY <1>10 DEF SealedInv, KeepsReady, SealFails
  <2>2. QED
    BY <2>1, StampMoves DEF KeepsReady, FileStates, FetchStates
<1>11. QED
  BY <1>1, <1>2, <1>3, <1>4, <1>5, <1>6, <1>7, <1>8, <1>9, <1>10 DEF ActorStep

\* A stop of the frontend keeps the records and ends both goroutines.
LEMMA FrontStopStep ==
    ASSUME SealedInv, FrontStop
    PROVE  KeepsReady /\ Moves
<1>1. KeepsReady
  BY DEF SealedInv, FrontStop, KeepsReady
<1>2. Idle \in Step /\ ~WritesReady(Idle)
  BY DEF Idle, Step, Pcs, WritesReady, StampSteps
<1>3. act' = [a \in Actors |-> Idle]
  BY DEF FrontStop
<1>4. act' \in [Actors -> Step] /\ \A a \in Actors : act'[a] = Idle
  BY <1>2, <1>3
<1>5. QED
  BY <1>1, <1>2, <1>4 DEF Moves

\* The stream carries states of the file and nothing else.
LEMMA EventsTyped ==
    ASSUME SealedInv, [Next]_vars
    PROVE  events' \in Seq(EventStates)
<1> USE DEF SealedInv
<1>1. ASSUME NEW s \in EventStates, Publish(s) PROVE events' \in Seq(EventStates)
  BY <1>1 DEF Publish
<1>2. CASE WorkerStep
  BY <1>1, <1>2 DEF WorkerStep, StartFetch, RunOne, StreamSome, StreamWhole, StreamBreaks,
     StreamGone, Rename, WriteReady, WorkerWipes, WorkerExits, EventStates, FetchStates
<1>3. CASE \E r \in Retriers : RetryStep(r)
  BY <1>1, <1>3 DEF RetryStep, RetryList, RetryDecide, RetryWipes, RetryKicks, EventStates, FetchStates
<1>4. CASE LoopStep \/ SweepList
  <2>1. CASE HandleEvent
    BY <2>1 DEF HandleEvent
  <2>2. CASE ~HandleEvent
    BY <1>4, <2>2 DEF LoopStep, SweepList, OfferRow, OfferMeta, OfferReceipt, OfferFetch, KeyWritten,
       TakeEntry, SameBack
  <2>3. QED
    BY <2>1, <2>2
<1>5. CASE Environment
  <2>1. <<>> \in Seq(EventStates)
    OBVIOUS
  <2>2. events' = events \/ events' = <<>>
    BY <1>5 DEF Environment, BackStop, BackStart, FrontStop, Connect, Disconnect, SenderAnswers,
       KeyArrives, EnvelopeFails, Withdraw, SameBack
  <2>3. QED
    BY <2>1, <2>2
<1>6. CASE \E a \in Actors : ActorStep(a)
  BY <1>6 DEF ActorStep, Pull, PullWrites, PullDrops, PostPullReceipt, Converge, Seal, SealFails,
     Record, AwaitKey, StampReads, StampWritesRow, StampWritesMeta, SameBack
<1>7. CASE UNCHANGED vars
  BY <1>7 DEF vars
<1>8. QED
  BY <1>2, <1>3, <1>4, <1>5, <1>6, <1>7 DEF Next

\* Every step of the specification keeps the invariant and a ready file.
LEMMA StepKeeps ==
    ASSUME SealedInv, [Next]_vars
    PROVE  SealedInv' /\ (meta = "ready" => meta' = "ready" /\ sealed')
<1>1. CASE UNCHANGED vars
  BY <1>1 DEF vars, frontVars, SealedInv
<1>2. CASE Next
  <2>1. KeepsReady /\ Moves
    BY <1>2, BackendSteps, LoopSteps, ActorSteps, FrontStopStep DEF Next, Environment
  <2>2. QED
    BY <2>1, MoveKeeps, EventsTyped
<1>3. QED
  BY <1>1, <1>2

\* The first state, before the offer is read.
LEMMA StartsSealed == Init => SealedInv
<1>1. Idle \in Step /\ ~WritesReady(Idle)
  BY DEF Idle, Step, Pcs, WritesReady, StampSteps
<1>2. <<>> \in Seq(EventStates)
  OBVIOUS
<1>3. Init => act = [a \in Actors |-> Idle]
  BY DEF Init
<1>4. Init => act \in [Actors -> Step] /\ \A a \in Actors : ~WritesReady(act[a])
  <2>1. HAVE Init
  <2>2. \A a \in Actors : act[a] = Idle
    BY <1>3, <2>1
  <2>3. QED
    BY <1>1, <1>3, <2>1, <2>2
<1>5. QED
  BY <1>2, <1>4 DEF Init, SealedInv

\* A file that is ready stays ready, and sealed, whatever the worker reports
\* late, whoever pulls twice and wherever a daemon stops (stampAllowedFromReady,
\* convergeFileReady).
THEOREM FileReadyIsFinal == Spec => ReadyIsFinal
<1>1. SealedInv /\ [Next]_vars => SealedInv'
  BY StepKeeps
<1>2. SealedInv /\ [Next]_vars => [meta = "ready" => meta' = "ready" /\ sealed']_vars
  BY StepKeeps
<1>3. QED
  BY StartsSealed, <1>1, <1>2, PTL DEF Spec, ReadyIsFinal

-----------------------------------------------------------------------------
(* The downloaded bytes *)

\* The frontend has the bytes, pulled or sealed; it never gives them up.
Held == staged \/ sealed

\* Whoever is past the pull, or about to write "awaiting_key", has the bytes.
HasBytes(x, held) ==
    /\ x.pc \in {"drop", "await"} => held
    /\ x.pc \in StampSteps => x.to # "none" /\ (x.to = "awaiting_key" => held)

\* The offer has not asked for the download yet, and it asks only once.
Asking == {"offerReceipt", "offerFetch"}
Fresh == meta = "none" \/ act["loop"].pc \in Asking

FrontInv ==
    /\ staged \in BOOLEAN
    /\ \A a \in Actors : HasBytes(act[a], Held)
    /\ meta = "awaiting_key" => Held
    /\ act["loop"].pc \in Asking => meta # "none"

\* What a step of the frontend may do to its goroutines and records.
FrontMoves ==
    /\ staged' \in BOOLEAN /\ (Held => Held')
    /\ \A a \in Actors : act'[a] = act[a] \/ HasBytes(act'[a], Held')
    /\ meta' = meta \/ (meta' # "none" /\ (meta' = "awaiting_key" => Held'))
    /\ act'["loop"].pc \in Asking => act["loop"].pc \in Asking \/ (meta = "none" /\ meta' # "none")

\* Such a step keeps the frontend's half of the invariant.
LEMMA FrontMoveKeeps ==
    ASSUME FrontInv, FrontMoves PROVE FrontInv' /\ (~Fresh => ~Fresh')
BY DEF FrontInv, FrontMoves, HasBytes, Fresh, Held

\* A step that leaves the frontend alone is such a step.
LEMMA FrontStays ==
    ASSUME FrontInv, UNCHANGED <<act, meta, staged, sealed>> PROVE FrontMoves
BY DEF FrontInv, FrontMoves, Held

\* A goroutine goes on to a step that needs no bytes, or has them.
LEMMA GotoHas ==
    ASSUME SealedInv, FrontInv, NEW a \in Actors, NEW pc \in Pcs \ StampSteps, Goto(a, pc),
           pc \in {"drop", "await"} => Held'
    PROVE  /\ \A b \in Actors : act'[b] = act[b] \/ HasBytes(act'[b], Held')
           /\ act'["loop"].pc \in Asking => act["loop"].pc \in Asking \/ pc \in Asking
<1>1. act' = [act EXCEPT ![a].pc = pc] /\ "loop" \in Actors
  BY DEF Goto, Actors
<1>2. act'[a].pc = pc /\ \A b \in Actors \ {a} : act'[b] = act[b]
  BY <1>1 DEF SealedInv, Step
<1>3. HasBytes(act'[a], Held')
  BY <1>2 DEF HasBytes, Pcs
<1>4. QED
  BY <1>1, <1>2, <1>3

\* A goroutine starts a stamp.
LEMMA StampHas ==
    ASSUME SealedInv, FrontInv, NEW a \in Actors, NEW s \in FileStates, Stamp(a, s),
           s = "awaiting_key" => Held'
    PROVE  /\ \A b \in Actors : act'[b] = act[b] \/ HasBytes(act'[b], Held')
           /\ act'["loop"].pc \in Asking => act["loop"].pc \in Asking
<1>1. act'[a].pc = "stamp" /\ act'[a].to = s /\ \A b \in Actors \ {a} : act'[b] = act[b]
  BY DEF Stamp, SealedInv, Step
<1>2. HasBytes(act'[a], Held')
  BY <1>1 DEF HasBytes, StampSteps, FileStates, FetchStates
<1>3. QED
  BY <1>1, <1>2 DEF Asking, Actors

\* A goroutine ends its work.
LEMMA FinishHas ==
    ASSUME SealedInv, FrontInv, NEW a \in Actors, Finish(a)
    PROVE  /\ \A b \in Actors : act'[b] = act[b] \/ HasBytes(act'[b], Held')
           /\ act'["loop"].pc \in Asking => act["loop"].pc \in Asking
<1>1. act'[a] = Idle /\ \A b \in Actors \ {a} : act'[b] = act[b]
  BY DEF Finish, SealedInv
<1>2. HasBytes(act'[a], Held')
  BY <1>1 DEF HasBytes, StampSteps, Idle
<1>3. QED
  BY <1>1, <1>2 DEF Asking, Actors, Idle

\* The backend, the sender and the stream leave the frontend alone.
LEMMA BackFront ==
    ASSUME FrontInv,
           \/ WorkerStep \/ BackStop \/ BackStart \/ Disconnect \/ SenderAnswers
           \/ KeyArrives \/ EnvelopeFails \/ Withdraw
           \/ \E r \in Retriers : RetryStep(r)
    PROVE  FrontMoves
<1>1. UNCHANGED frontVars
  BY DEF WorkerStep, StartFetch, RunOne, StreamSome, StreamWhole, StreamBreaks,
     StreamGone, Rename, WriteReady, WorkerWipes, WorkerExits, RetryStep, RetryList, RetryDecide,
     RetryWipes, RetryKicks, BackStop, BackStart, Disconnect, SenderAnswers, KeyArrives,
     EnvelopeFails, Withdraw
<1>2. QED
  BY <1>1, FrontStays DEF frontVars

\* The events loop writes no "awaiting_key" and asks for the download once.
LEMMA LoopFront ==
    ASSUME SealedInv, FrontInv, LoopStep \/ SweepList \/ Connect
    PROVE  FrontMoves
<1> USE DEF SameFront, SameBack, SameNet, Actors
<1>1. CASE OfferRow \/ KeyWritten \/ SweepList \/ Connect
  <2>1. \E a \in Actors, pc \in {"offerMeta", "converge", "list", "pull", "idle"} : Goto(a, pc)
    BY <1>1 DEF OfferRow, KeyWritten, SweepList, Connect
  <2>2. UNCHANGED <<meta, staged, sealed>>
    BY <1>1 DEF OfferRow, KeyWritten, SweepList, Connect
  <2>3. QED
    BY <2>1, <2>2, GotoHas DEF StampSteps, Pcs, Asking, FrontMoves, FrontInv, Held
<1>2. CASE OfferReceipt
  <2>1. Goto("loop", "offerFetch") /\ act["loop"].pc \in Asking /\ UNCHANGED <<meta, staged, sealed>>
    BY <1>2 DEF OfferReceipt, Asking
  <2>2. QED
    BY <2>1, GotoHas DEF StampSteps, Pcs, FrontMoves, FrontInv, Held
<1>3. CASE OfferMeta
  <2>1. CASE meta = "none"
    <3>1. Goto("loop", "offerReceipt") /\ meta' = "downloading" /\ UNCHANGED <<staged, sealed>>
      BY <1>3, <2>1 DEF OfferMeta
    <3>2. QED
      BY <2>1, <3>1, GotoHas DEF StampSteps, Pcs, FrontMoves, FrontInv, Held
  <2>2. CASE meta # "none"
    BY <1>3, <2>2, FinishHas DEF OfferMeta, FrontMoves, FrontInv, Held
  <2>3. QED
    BY <2>1, <2>2
<1>4. CASE OfferFetch
  <2>1. UNCHANGED <<meta, staged, sealed>> /\ (Stamp("loop", "failed_transient") \/ Finish("loop"))
    BY <1>4 DEF OfferFetch
  <2>2. QED
    BY <2>1, StampHas, FinishHas DEF FrontMoves, FrontInv, Held, FileStates, FetchStates
<1>5. CASE HandleEvent
  <2>1. Head(events) \in FileStates /\ Head(events) # "awaiting_key"
    BY <1>5 DEF SealedInv, HandleEvent, EventStates, FileStates, FetchStates
  <2>2. /\ UNCHANGED <<meta, staged, sealed>>
        /\ UNCHANGED act \/ Goto("loop", "pull") \/ Stamp("loop", Head(events))
    BY <1>5 DEF HandleEvent
  <2>3. QED
    BY <2>1, <2>2, StampHas, GotoHas DEF FrontMoves, FrontInv, Held, StampSteps, Pcs, Asking
<1>6. CASE \E e \in {"offer", "key"} : TakeEntry(e)
  <2>1. UNCHANGED <<meta, staged, sealed>>
    BY <1>6 DEF TakeEntry
  <2>2. \/ UNCHANGED act
        \/ \E x \in {"offer", "key"} : act' = [act EXCEPT !["loop"] = [pc |-> x, to |-> "none", entry |-> x]]
    BY <1>6 DEF TakeEntry
  <2>3. QED
    BY <2>1, <2>2 DEF SealedInv, FrontMoves, FrontInv, Held, HasBytes, StampSteps, Asking
<1>7. QED
  BY <1>1, <1>2, <1>3, <1>4, <1>5, <1>6 DEF LoopStep

\* The pull writes the bytes before the backend drops them; the seal moves them.
LEMMA ActorFront ==
    ASSUME SealedInv, FrontInv, NEW a \in Actors, ActorStep(a)
    PROVE  FrontMoves
<1> USE DEF SameFront, SameBack, SameNet, FrontMoves, FrontInv, Held
<1>1. CASE Pull(a)
  <2>1. /\ UNCHANGED <<meta, staged, sealed>>
        /\ Goto(a, "write") \/ Goto(a, "idle") \/ Stamp(a, "failed_transient")
    BY <1>1 DEF Pull
  <2>2. QED
    BY <2>1, GotoHas, StampHas DEF StampSteps, Pcs, Asking, FileStates, FetchStates
<1>2. CASE PullWrites(a)
  <2>1. Goto(a, "drop") /\ staged' = TRUE /\ UNCHANGED <<meta, sealed>>
    BY <1>2 DEF PullWrites
  <2>2. QED
    BY <2>1, GotoHas DEF StampSteps, Pcs, Asking
<1>3. CASE PullDrops(a) \/ PostPullReceipt(a)
  <2>1. UNCHANGED <<meta, staged, sealed>> /\ \E pc \in {"receipt", "converge"} : Goto(a, pc)
    BY <1>3 DEF PullDrops, PostPullReceipt
  <2>2. QED
    BY <2>1, GotoHas DEF StampSteps, Pcs, Asking
<1>4. CASE Converge(a)
  <2>1. /\ UNCHANGED <<meta, staged, sealed>>
        /\ Goto(a, "seal") \/ (staged /\ Goto(a, "await")) \/ Finish(a)
    BY <1>4 DEF Converge
  <2>2. QED
    BY <2>1, GotoHas, FinishHas DEF StampSteps, Pcs, Asking
<1>5. CASE Seal(a)
  <2>1. Goto(a, "record") /\ sealed' = TRUE /\ staged' = FALSE /\ meta' = meta
    BY <1>5 DEF Seal
  <2>2. sealed' /\ staged' \in BOOLEAN
    BY <2>1
  <2>3. /\ \A b \in Actors : act'[b] = act[b] \/ HasBytes(act'[b], Held')
        /\ act'["loop"].pc \in Asking => act["loop"].pc \in Asking
    BY <2>1, GotoHas DEF StampSteps, Pcs, Asking
  <2>4. QED
    BY <2>1, <2>2, <2>3
<1>6. CASE Record(a)
  <2>1. Stamp(a, "ready") /\ meta' = "ready" /\ UNCHANGED <<staged, sealed>>
    BY <1>6 DEF Record
  <2>2. QED
    BY <2>1, StampHas DEF FileStates, FetchStates
<1>7. CASE AwaitKey(a)
  <2>1. Held
    BY <1>7 DEF AwaitKey, HasBytes
  <2>2. /\ UNCHANGED <<staged, sealed>>
        /\ \/ Finish(a) /\ meta' = meta
           \/ Stamp(a, "awaiting_key") /\ meta' = "awaiting_key"
    BY <1>7 DEF AwaitKey
  <2>3. QED
    BY <2>1, <2>2, StampHas, FinishHas DEF FileStates
<1>8. CASE StampReads(a)
  <2>1. UNCHANGED <<meta, staged, sealed>> /\ (Goto(a, "stampRow") \/ Finish(a))
    BY <1>8 DEF StampReads
  <2>2. CASE Finish(a)
    BY <2>1, <2>2, FinishHas
  <2>3. CASE Goto(a, "stampRow")
    BY <1>8, <2>1, <2>3 DEF StampReads, Goto, SealedInv, Step, HasBytes, StampSteps, Asking, Actors
  <2>4. QED
    BY <2>1, <2>2, <2>3
<1>9. CASE StampWritesRow(a)
  BY <1>9 DEF StampWritesRow, Goto, SealedInv, Step, HasBytes, StampSteps, Asking, Actors
<1>10. CASE StampWritesMeta(a)
  <2>1. /\ act[a].to # "none" /\ (act[a].to = "awaiting_key" => Held)
        /\ UNCHANGED <<staged, sealed>> /\ Finish(a) /\ meta' \in {meta, act[a].to}
    BY <1>10 DEF StampWritesMeta, HasBytes, StampSteps
  <2>2. QED
    BY <2>1, FinishHas
<1>11. CASE SealFails(a)
  <2>1. UNCHANGED <<meta, staged, sealed>> /\ Stamp(a, "failed_transient")
    BY <1>11 DEF SealFails
  <2>2. QED
    BY <2>1, StampHas DEF FileStates, FetchStates
<1>12. QED
  BY <1>1, <1>2, <1>3, <1>4, <1>5, <1>6, <1>7, <1>8, <1>9, <1>10, <1>11 DEF ActorStep

\* Every step is a legal step of the frontend.
LEMMA FrontSteps ==
    ASSUME SealedInv, FrontInv, Next PROVE FrontMoves
<1>1. CASE FrontStop
  <2>1. \A a \in Actors : act'[a] = Idle
    BY <1>1 DEF FrontStop
  <2>2. UNCHANGED <<meta, staged, sealed>> /\ "loop" \in Actors
    BY <1>1 DEF FrontStop, Actors
  <2>3. QED
    BY <2>1, <2>2 DEF FrontMoves, FrontInv, Held, HasBytes, Idle, StampSteps, Asking
<1>2. QED
  BY <1>1, BackFront, LoopFront, ActorFront DEF Next, Environment

JobPcs == {"idle", "begin", "stream", "rename", "ready", "wipe", "exit"}
RetryPcs == {"idle", "decide", "wipe", "kick"}
Job == [pc : JobPcs, row : Fetch]
Retry == [pc : RetryPcs, row : Fetch, kicked : BOOLEAN]

BackType ==
    /\ fetch \in Fetch /\ final \in BOOLEAN /\ queue \in Nat
    /\ job \in Job /\ retry \in [Retriers -> Retry]

\* Until the offer asks, the backend knows nothing of the file.
Untouched ==
    /\ fetch = NoFetch /\ queue = 0 /\ job.pc = "idle"
    /\ \A r \in Retriers : retry[r].pc = "idle"

\* The worker is between its row and its verdict.
Streaming == job.pc \in {"stream", "rename", "ready"}

\* As long as only the backend has the bytes: a row that is or is about to be
\* ready has its file, the row says "downloading" while the worker works on it,
\* and whoever is about to wipe has written the failure and nobody changed it.
Guarded ==
    /\ fetch.state = "ready" \/ job.pc = "ready" => final
    /\ Streaming => fetch.state = "downloading"
    /\ job.pc = "wipe" => fetch.state = "failed_permanent"
    /\ \A r \in Retriers : retry[r].pc = "wipe" => fetch.state = "failed_permanent"

BackInv ==
    /\ BackType
    /\ Fresh => Untouched
    /\ Streaming => job.row.state = "downloading"
    /\ "stale" \notin cut /\ ~Held => Guarded

\* The rows the code starts from, and the ones it makes of them.
LEMMA FetchRows ==
    /\ NoFetch \in Fetch /\ NoFetch.state = "none"
    /\ NoJob \in Job /\ NoJob.pc = "idle"
    /\ NoRetry \in Retry /\ NoRetry.pc = "idle"
    /\ \A f \in Fetch : /\ Transient(f) \in Fetch /\ Transient(f).state = "failed_transient"
                       /\ Permanent(f) \in Fetch /\ Permanent(f).state = "failed_permanent"
                       /\ \A s \in FetchStates : [f EXCEPT !.state = s] \in Fetch /\ [f EXCEPT !.state = s].state = s
BY DEF NoFetch, Fetch, NoJob, Job, NoRetry, Retry, Transient, Permanent, FetchStates, JobPcs, RetryPcs

\* A step of the backend alone leaves these as they are.
LEMMA FrontSame ==
    ASSUME UNCHANGED frontVars PROVE Fresh' = Fresh /\ Held' = Held
BY DEF frontVars, Fresh, Held

\* The worker: it works from "downloading" to its verdict and never wipes a
\* file that somebody calls ready.
LEMMA WorkerBack ==
    ASSUME BackInv, WorkerStep PROVE BackInv'
<1> USE DEF BackInv, BackType, Untouched, Streaming, Guarded, Job
<1>0. ~Fresh /\ UNCHANGED frontVars /\ ("stale" \notin cut' => "stale" \notin cut)
  BY DEF WorkerStep, StartFetch, RunOne, StreamSome, StreamWhole, StreamBreaks, StreamGone,
     Rename, WriteReady, WorkerWipes, WorkerExits, bounds, Unheard
<1>1. ~Fresh' /\ Held' = Held
  BY <1>0, FrontSame
<1>2. CASE StartFetch
  BY <1>0, <1>1, <1>2 DEF StartFetch, JobPcs
<1>3. CASE RunOne
  <2>1. CASE fetch.state \in Settled \cup {"none"}
    BY <1>0, <1>1, <1>3, <2>1 DEF RunOne, JobPcs
  <2>2. CASE fetch.state \notin Settled \cup {"none"}
    <3>1. /\ fetch' = [fetch EXCEPT !.state = "downloading"] /\ UNCHANGED <<final, queue, retry>>
          /\ job' = [pc |-> IF part = "whole" THEN "rename" ELSE "stream", row |-> fetch']
      BY <1>3, <2>2 DEF RunOne
    <3>2. fetch' \in Fetch /\ fetch'.state = "downloading"
      BY <3>1, FetchRows DEF FetchStates
    <3>3. job' \in Job /\ job'.row = fetch' /\ job'.pc \in {"stream", "rename"}
      BY <3>1, <3>2 DEF JobPcs
    <3>4. QED
      BY <1>0, <1>1, <2>2, <3>1, <3>2, <3>3 DEF Settled
  <2>3. QED
    BY <2>1, <2>2
<1>4. CASE StreamSome
  BY <1>0, <1>1, <1>4 DEF StreamSome
<1>5. CASE StreamWhole
  BY <1>0, <1>1, <1>5 DEF StreamWhole, JobPcs
<1>6. CASE StreamBreaks
  BY <1>0, <1>1, <1>6, FetchRows DEF StreamBreaks, JobPcs
<1>7. CASE StreamGone
  BY <1>0, <1>1, <1>7, FetchRows DEF StreamGone, JobPcs
<1>8. CASE Rename
  <2>1. CASE part = "whole"
    BY <1>0, <1>1, <1>8, <2>1 DEF Rename, JobPcs
  <2>2. CASE part # "whole"
    BY <1>0, <1>1, <1>8, <2>2, FetchRows DEF Rename, JobPcs
  <2>3. QED
    BY <2>1, <2>2
<1>9. CASE WriteReady
  <2>1. /\ fetch' \in Fetch /\ job.pc = "ready" /\ job' \in Job /\ job'.pc = "exit"
        /\ UNCHANGED <<final, queue, retry>>
    BY <1>9, FetchRows DEF WriteReady, FetchStates, JobPcs
  <2>2. QED
    BY <1>0, <1>1, <2>1
<1>10. CASE WorkerWipes
  BY <1>0, <1>1, <1>10 DEF WorkerWipes, JobPcs
<1>11. CASE WorkerExits
  BY <1>0, <1>1, <1>11, FetchRows DEF WorkerExits
<1>12. QED
  BY <1>2, <1>3, <1>4, <1>5, <1>6, <1>7, <1>8, <1>9, <1>10, <1>11 DEF WorkerStep

\* A retry that does not write over the worker wipes only what it gave up on.
LEMMA RetryBack ==
    ASSUME BackInv, NEW r \in Retriers, RetryStep(r) PROVE BackInv'
<1> USE DEF BackInv, BackType, Untouched, Streaming, Guarded, Retry
<1>0. UNCHANGED frontVars /\ ("stale" \notin cut' => "stale" \notin cut)
  BY DEF RetryStep, RetryList, RetryDecide, RetryWipes, RetryKicks, bounds, Overwrites, Kick, Unheard
<1>1. (Fresh' <=> Fresh) /\ Held' = Held
  BY <1>0, FrontSame
<1>2. ~Fresh
  BY FetchRows DEF RetryStep, RetryList, RetryDecide, RetryWipes, RetryKicks
<1>3. CASE \E k \in BOOLEAN : RetryList(r, k)
  BY <1>0, <1>1, <1>2, <1>3 DEF RetryList, RetryPcs
<1>4. CASE RetryDecide(r)
  <2> DEFINE f == retry[r].row
  <2>1. f \in Fetch /\ [f EXCEPT !.kicked = TRUE] \in Fetch /\ [f EXCEPT !.kicked = TRUE].state = f.state
    BY DEF Fetch
  <2>2. /\ UNCHANGED <<final, queue, job>>
        /\ \E pc \in {"wipe", "kick"} :
              /\ retry' = [retry EXCEPT ![r].pc = pc]
              /\ \/ pc = "wipe" /\ fetch' = Permanent(f) /\ cut' = Overwrites(f)
                 \/ pc = "kick" /\ fetch' = [f EXCEPT !.kicked = TRUE] /\ cut' = Overwrites(f)
                 \/ pc = "kick" /\ fetch' = fetch
    BY <1>4 DEF RetryDecide
  <2>3. PICK pc \in {"wipe", "kick"} :
              /\ retry' = [retry EXCEPT ![r].pc = pc]
              /\ \/ pc = "wipe" /\ fetch' = Permanent(f) /\ cut' = Overwrites(f)
                 \/ pc = "kick" /\ fetch' = [f EXCEPT !.kicked = TRUE] /\ cut' = Overwrites(f)
                 \/ pc = "kick" /\ fetch' = fetch
    BY <2>2
  <2>4. /\ retry' \in [Retriers -> Retry] /\ retry'[r].pc = pc
        /\ \A q \in Retriers \ {r} : retry'[q] = retry[q]
    BY <2>3 DEF RetryPcs
  <2>5. fetch' \in Fetch
    BY <2>1, <2>3, FetchRows
  <2>6. cut' = Overwrites(f) /\ "stale" \notin cut' => fetch = f /\ job.pc \in {"idle", "begin", "exit"}
    BY DEF Overwrites
  <2> HIDE DEF f
  <2>7. CASE fetch' = fetch
    BY <1>0, <1>1, <1>2, <2>2, <2>3, <2>4, <2>5, <2>6, <2>7, FetchRows
  <2>8. CASE pc = "wipe" /\ fetch' = Permanent(f) /\ cut' = Overwrites(f)
    <3>1. fetch'.state = "failed_permanent"
      BY <2>1, <2>8, FetchRows
    <3>2. "stale" \notin cut' /\ ~Held' => Guarded'
      BY <2>2, <2>4, <2>6, <2>8, <3>1
    <3>3. QED
      BY <1>1, <1>2, <2>2, <2>4, <2>5, <3>2
  <2>9. CASE pc = "kick" /\ fetch' = [f EXCEPT !.kicked = TRUE] /\ cut' = Overwrites(f)
    <3>1. fetch'.state = f.state
      BY <2>1, <2>9
    <3>2. "stale" \notin cut' /\ ~Held' => Guarded'
      BY <1>0, <1>1, <2>2, <2>4, <2>6, <2>9, <3>1
    <3>3. QED
      BY <1>1, <1>2, <2>2, <2>4, <2>5, <3>2
  <2>10. QED
    BY <2>3, <2>7, <2>8, <2>9
<1>5. CASE RetryWipes(r)
  BY <1>0, <1>1, <1>2, <1>5, FetchRows DEF RetryWipes
<1>6. CASE RetryKicks(r)
  <2>1. queue' \in Nat
    BY <1>6 DEF RetryKicks, Kick
  <2>2. QED
    BY <1>0, <1>1, <1>2, <1>6, <2>1, FetchRows DEF RetryKicks
<1>7. QED
  BY <1>3, <1>4, <1>5, <1>6 DEF RetryStep

\* A step that leaves the backend alone.
LEMMA BackSame ==
    ASSUME BackInv, FrontInv, FrontMoves, UNCHANGED backVars, "stale" \notin cut' => "stale" \notin cut
    PROVE  BackInv'
<1>1. (~Fresh => ~Fresh') /\ (Held => Held')
  BY FrontMoveKeeps DEF FrontMoves
<1>2. QED
  BY <1>1 DEF BackInv, BackType, Untouched, Streaming, Guarded, backVars

\* The offer asks for the download when the backend knows nothing of the file.
LEMMA OfferBack ==
    ASSUME SealedInv, BackInv, FrontInv, FrontMoves, OfferFetch PROVE BackInv'
<1>1. Fresh /\ meta # "none" /\ meta' = meta
  BY DEF OfferFetch, Fresh, FrontInv, Asking, SameFront
<1>2. Held => Held'
  BY DEF FrontMoves
<1>3. CASE fetch' = fetch /\ queue' = queue
  BY <1>1, <1>2, <1>3, FrontMoveKeeps DEF OfferFetch, BackInv, BackType, Untouched, Streaming, Guarded, Fresh
<1>4. CASE backUp /\ fetch' = PutFetch(fetch, final) /\ fetch' # fetch /\ Kick /\ Finish("loop")
  <2>1. fetch' \in Fetch /\ fetch'.state = "pending"
    BY <1>1, <1>4, FetchRows DEF BackInv, Untouched, PutFetch, InFlight, FetchStates
  <2>2. queue' \in Nat
    BY <1>4 DEF Kick, BackInv, BackType
  <2>3. act' = [act EXCEPT !["loop"] = Idle]
    BY <1>4 DEF Finish
  <2>4. act["loop"].pc = "offerFetch" /\ UNCHANGED <<final, job, retry>>
    BY DEF OfferFetch
  <2>5. CASE act'["loop"].pc \notin Asking
    BY <1>1, <2>1, <2>2, <2>4, <2>5 DEF BackInv, BackType, Untouched, Streaming, Guarded, Fresh
  <2>6. act'["loop"] = Idle
    BY <2>3 DEF SealedInv, Actors
  <2>7. QED
    BY <2>5, <2>6 DEF Asking, Idle
<1>5. QED
  BY <1>3, <1>4 DEF OfferFetch

\* The drop after a pull: the frontend has the bytes.
LEMMA DropBack ==
    ASSUME BackInv, FrontInv, FrontMoves, NEW a \in Actors, PullDrops(a) PROVE BackInv'
<1>1. Held /\ Held' /\ (~Fresh => ~Fresh')
  BY FrontMoveKeeps DEF PullDrops, FrontInv, FrontMoves, HasBytes
<1>2. CASE backUp /\ Droppable(fetch)
  BY <1>1, <1>2, FetchRows DEF PullDrops, BackInv, BackType, Untouched, Streaming
<1>3. CASE ~(backUp /\ Droppable(fetch))
  BY <1>1, <1>3 DEF PullDrops, BackInv, BackType, Untouched, Streaming
<1>4. QED
  BY <1>2, <1>3

\* ReconcileStaging never takes the file of a ready row.
LEMMA ReconcileKeeps ==
    ASSUME NEW f, f.state = "ready", NEW p, NEW fin \in BOOLEAN, fin
    PROVE  Reconciled(f, p, fin).final
BY DEF Reconciled

\* A stop ends worker and retries wherever they are; the start repairs.
LEMMA RestartBack ==
    ASSUME BackInv, BackStop \/ BackStart PROVE BackInv'
<1> USE DEF BackInv, BackType, Untouched, Streaming, Guarded
<1>1. Fresh' = Fresh /\ Held' = Held /\ ("stale" \notin cut' => "stale" \notin cut)
  BY FrontSame DEF BackStop, BackStart, Unheard
<1>2. CASE BackStop
  <2>1. /\ UNCHANGED <<fetch, final>> /\ queue' = 0 /\ job' = NoJob
        /\ retry' \in [Retriers -> Retry] /\ \A r \in Retriers : retry'[r].pc = "idle"
    BY <1>2, FetchRows DEF BackStop
  <2>2. QED
    BY <1>1, <2>1, FetchRows
<1>3. CASE BackStart
  <2>1. /\ UNCHANGED <<fetch, queue, retry>> /\ final' = Reconciled(fetch, part, final).final
        /\ job' = IF Resumes(fetch) THEN [NoJob EXCEPT !.pc = "begin"] ELSE NoJob
    BY <1>3 DEF BackStart
  <2>2. final' \in BOOLEAN /\ (fetch.state = "ready" /\ final => final')
    BY <2>1, ReconcileKeeps DEF Reconciled
  <2>3. /\ job' \in Job /\ job'.pc \in {"idle", "begin"}
        /\ fetch = NoFetch => job'.pc = "idle"
    BY <2>1, FetchRows DEF Job, JobPcs, Resumes, InFlight
  <2>4. QED
    BY <1>1, <2>1, <2>2, <2>3
<1>4. QED
  BY <1>2, <1>3

\* Every step of the specification keeps both halves.
LEMMA BytesStep ==
    ASSUME SealedInv, FrontInv, BackInv, [Next]_vars PROVE FrontInv' /\ BackInv'
<1>1. CASE UNCHANGED vars
  <2>1. UNCHANGED <<backVars, cut, act, meta, staged, sealed>>
    BY <1>1 DEF vars, frontVars, bounds
  <2>2. QED
    BY <2>1, FrontStays, FrontMoveKeeps, BackSame
<1>2. CASE Next
  <2>1. FrontMoves /\ FrontInv'
    BY <1>2, FrontSteps, FrontMoveKeeps
  <2>2. CASE SweepList \/ Connect \/ Disconnect \/ FrontStop \/ SenderAnswers \/ KeyArrives
             \/ EnvelopeFails \/ Withdraw
    <3>1. UNCHANGED backVars
      BY <2>2 DEF SweepList, Connect, Disconnect, FrontStop, SenderAnswers, KeyArrives,
         EnvelopeFails, Withdraw, SameBack
    <3>2. "stale" \notin cut' => "stale" \notin cut
      BY <2>2 DEF SweepList, Connect, Disconnect, FrontStop, SenderAnswers, KeyArrives,
         EnvelopeFails, Withdraw, bounds, Unheard
    <3>3. QED
      BY <2>1, <3>1, <3>2, BackSame
  <2>3. CASE LoopStep
    <3>1. CASE OfferFetch
      BY <2>1, <3>1, OfferBack
    <3>2. CASE OfferRow \/ OfferMeta \/ OfferReceipt \/ KeyWritten \/ HandleEvent
               \/ \E e \in {"offer", "key"} : TakeEntry(e)
      <4>1. UNCHANGED <<backVars, bounds>>
        BY <3>2 DEF OfferRow, OfferMeta, OfferReceipt, KeyWritten, HandleEvent, TakeEntry, SameBack
      <4>2. QED
        BY <2>1, <4>1, BackSame DEF bounds
    <3>3. QED
      BY <2>3, <3>1, <3>2 DEF LoopStep
  <2>4. ASSUME NEW a \in Actors, ActorStep(a) PROVE BackInv'
    <3>1. CASE PullDrops(a)
      BY <2>1, <3>1, DropBack
    <3>2. CASE ~PullDrops(a)
      <4>1. UNCHANGED backVars
        BY <2>4, <3>2 DEF ActorStep, Pull, PullWrites, PostPullReceipt, Converge, Seal, SealFails,
           Record, AwaitKey, StampReads, StampWritesRow, StampWritesMeta, SameBack
      <4>2. "stale" \notin cut' => "stale" \notin cut
        BY <2>4, <3>2 DEF ActorStep, Pull, PullWrites, PostPullReceipt, Converge, Seal, SealFails,
           Record, AwaitKey, StampReads, StampWritesRow, StampWritesMeta, bounds
      <4>3. QED
        BY <2>1, <4>1, <4>2, BackSame
    <3>3. QED
      BY <3>1, <3>2
  <2>5. QED
    BY <1>2, <2>1, <2>2, <2>3, <2>4, WorkerBack, RetryBack, RestartBack DEF Next, Environment
<1>3. QED
  BY <1>1, <1>2

\* The first state: no bytes anywhere and nothing asked for.
LEMMA BytesStart == Init => FrontInv /\ BackInv
<1> SUFFICES ASSUME Init PROVE FrontInv /\ BackInv
  OBVIOUS
<1>1. \A a \in Actors : act[a] = Idle
  BY DEF Init
<1>2. FrontInv
  BY <1>1 DEF Init, FrontInv, HasBytes, Held, Idle, StampSteps, Asking, Actors
<1>3. retry \in [Retriers -> Retry] /\ \A r \in Retriers : retry[r].pc = "idle"
  BY FetchRows DEF Init
<1>4. QED
  BY <1>2, <1>3, FetchRows DEF Init, BackInv, BackType, Untouched, Streaming, Guarded

\* The bytes of a download are never deleted before the next owner holds them
\* (finalizeReadyFetch, DropStaging, ReconcileStaging, DecryptSealMove), unless a
\* retry wrote its old copy of the row over the worker's.
THEOREM FileBytesKept == Spec => []BytesKept
<1>1. SealedInv /\ FrontInv /\ BackInv /\ [Next]_vars => SealedInv' /\ FrontInv' /\ BackInv'
  BY StepKeeps, BytesStep
<1>2. SealedInv /\ FrontInv /\ BackInv => BytesKept
  BY DEF SealedInv, FrontInv, BackInv, Guarded, BytesKept, Held
<1>3. QED
  BY StartsSealed, BytesStart, <1>1, <1>2, PTL DEF Spec

-----------------------------------------------------------------------------
(* Message and metadata *)

\* The goroutine will still write "ready" to the message.
WillShow(x) == x.pc \in {"stamp", "stampRow"} /\ x.to = "ready"

\* Neither did two goroutines write the message at once nor was one stopped.
Orderly == "stamp" \notin cut /\ "frontStop" \notin cut

\* A message that reads ready is not about to be overwritten, and ready metadata
\* has a ready message or one on its way.
RowInv ==
    Orderly =>
        /\ \A a \in Actors : act[a].pc = "stampMeta" /\ act[a].to = "ready" => row = "ready"
        /\ row = "ready" => \A a \in Actors : act[a].pc = "stampRow" => act[a].to = "ready"
        /\ meta = "ready" => row = "ready" \/ \E a \in Actors : WillShow(act[a])

\* The goroutine was at no stamp, and is at most at the start of one.
Shift(x, y) == x.pc \notin StampSteps /\ y.pc \notin {"stampRow", "stampMeta"}

\* A step that writes "ready" neither to the message nor to the metadata.
RowMoves ==
    /\ Orderly' => Orderly
    /\ row' = row \/ (row = "none" /\ row' # "ready")
    /\ meta' = "ready" => meta = "ready"
    /\ \A a \in Actors : act'[a] = act[a] \/ Shift(act[a], act'[a])

\* Such a step keeps message and metadata together.
LEMMA RowMoveKeeps ==
    ASSUME RowInv, RowMoves PROVE RowInv'
BY DEF RowInv, RowMoves, WillShow, Shift, StampSteps

\* How the shorthands for a goroutine's next step move it.
LEMMA ShiftMoves ==
    ASSUME SealedInv, NEW a \in Actors, act[a].pc \notin StampSteps,
           \/ \E pc \in Pcs \ StampSteps : Goto(a, pc)
           \/ \E s \in FileStates : Stamp(a, s)
           \/ Finish(a)
    PROVE  \A b \in Actors : act'[b] = act[b] \/ Shift(act[b], act'[b])
<1>1. CASE \E pc \in Pcs \ StampSteps : Goto(a, pc)
  BY <1>1 DEF Goto, SealedInv, Step, Shift, StampSteps
<1>2. CASE \E s \in FileStates : Stamp(a, s)
  BY <1>2 DEF Stamp, SealedInv, Step, Shift
<1>3. CASE Finish(a)
  BY <1>3 DEF Finish, SealedInv, Idle, Shift
<1>4. QED
  BY <1>1, <1>2, <1>3

\* The backend and the sender write neither.
LEMMA BackRow ==
    ASSUME \/ WorkerStep \/ BackStop \/ BackStart \/ Disconnect \/ SenderAnswers
           \/ KeyArrives \/ EnvelopeFails \/ Withdraw
           \/ \E r \in Retriers : RetryStep(r)
    PROVE  RowMoves
<1>1. UNCHANGED frontVars
  BY DEF WorkerStep, StartFetch, RunOne, StreamSome, StreamWhole, StreamBreaks,
     StreamGone, Rename, WriteReady, WorkerWipes, WorkerExits, RetryStep, RetryList, RetryDecide,
     RetryWipes, RetryKicks, BackStop, BackStart, Disconnect, SenderAnswers, KeyArrives,
     EnvelopeFails, Withdraw
<1>2. Orderly' => Orderly
  <2>1. CASE WorkerStep
    BY <2>1 DEF Orderly, WorkerStep, StartFetch, RunOne, StreamSome, StreamWhole, StreamBreaks,
       StreamGone, Rename, WriteReady, WorkerWipes, WorkerExits, bounds, Unheard
  <2>2. CASE \E r \in Retriers : RetryStep(r)
    BY <2>2 DEF Orderly, RetryStep, RetryList, RetryDecide, RetryWipes, RetryKicks, Kick, Overwrites, bounds, Unheard
  <2>3. QED
    BY <2>1, <2>2 DEF Orderly, BackStop, BackStart, Disconnect, SenderAnswers, KeyArrives,
       EnvelopeFails, Withdraw, bounds, Unheard
<1>3. QED
  BY <1>1, <1>2 DEF RowMoves, frontVars

\* Nor do the events loop and the start of the sweep.
LEMMA LoopRow ==
    ASSUME SealedInv, LoopStep \/ SweepList \/ Connect PROVE RowMoves
<1> USE DEF SameFront, SameBack, SameNet, Actors
<1>1. CASE OfferRow \/ OfferReceipt \/ KeyWritten
  <2>1. /\ UNCHANGED <<meta, bounds>> /\ (row' = row \/ (row = "none" /\ row' # "ready"))
        /\ act["loop"].pc \notin StampSteps
        /\ \E pc \in {"offerMeta", "offerFetch", "converge"} : Goto("loop", pc)
    BY <1>1 DEF OfferRow, OfferReceipt, KeyWritten, StampSteps
  <2>2. QED
    BY <2>1, ShiftMoves DEF RowMoves, Orderly, bounds, StampSteps, Pcs
<1>2. CASE SweepList \/ Connect
  <2>1. /\ UNCHANGED <<row, meta, bounds>> /\ act["sweep"].pc \notin StampSteps
        /\ \E pc \in {"list", "pull", "idle"} : Goto("sweep", pc)
    BY <1>2 DEF SweepList, Connect, StampSteps
  <2>2. QED
    BY <2>1, ShiftMoves DEF RowMoves, Orderly, bounds, StampSteps, Pcs
<1>3. CASE OfferMeta
  <2>1. /\ UNCHANGED <<row, bounds>> /\ meta' \in {meta, "downloading"}
        /\ act["loop"].pc \notin StampSteps
        /\ Goto("loop", "offerReceipt") \/ Finish("loop")
    BY <1>3 DEF OfferMeta, StampSteps
  <2>2. QED
    BY <2>1, ShiftMoves DEF RowMoves, Orderly, bounds, StampSteps, Pcs
<1>4. CASE OfferFetch
  <2>1. /\ UNCHANGED <<row, meta>> /\ (Orderly' => Orderly)
        /\ act["loop"].pc \notin StampSteps
        /\ Stamp("loop", "failed_transient") \/ Finish("loop")
    BY <1>4 DEF OfferFetch, StampSteps, Kick, Orderly
  <2>2. QED
    BY <2>1, ShiftMoves DEF RowMoves, FileStates, FetchStates
<1>5. CASE HandleEvent
  <2>1. Head(events) \in FileStates
    BY <1>5 DEF SealedInv, HandleEvent, EventStates, FileStates
  <2>2. /\ UNCHANGED <<row, meta, bounds>> /\ act["loop"].pc \notin StampSteps
        /\ UNCHANGED act \/ Goto("loop", "pull") \/ Stamp("loop", Head(events))
    BY <1>5 DEF HandleEvent, StampSteps
  <2>3. QED
    BY <2>1, <2>2, ShiftMoves DEF RowMoves, Orderly, bounds, StampSteps, Pcs
<1>6. CASE \E e \in {"offer", "key"} : TakeEntry(e)
  <2>1. UNCHANGED <<row, meta, bounds>> /\ act["loop"].pc = "idle"
    BY <1>6 DEF TakeEntry
  <2>2. \/ UNCHANGED act
        \/ \E x \in {"offer", "key"} : act' = [act EXCEPT !["loop"] = [pc |-> x, to |-> "none", entry |-> x]]
    BY <1>6 DEF TakeEntry
  <2>3. QED
    BY <2>1, <2>2 DEF SealedInv, RowMoves, Orderly, bounds, Shift, StampSteps
<1>7. QED
  BY <1>1, <1>2, <1>3, <1>4, <1>5, <1>6 DEF LoopStep

\* The pull and the seal end in a stamp; Record is the one that writes "ready"
\* to the metadata first.
LEMMA ActorRow ==
    ASSUME SealedInv, RowInv, NEW a \in Actors, ActorStep(a) PROVE RowInv'
<1> USE DEF SameFront, SameBack, SameNet
<1>1. CASE Pull(a)
  <2>1. /\ UNCHANGED <<row, meta>> /\ (Orderly' => Orderly) /\ act[a].pc \notin StampSteps
        /\ Goto(a, "write") \/ Goto(a, "idle") \/ Stamp(a, "failed_transient")
    BY <1>1 DEF Pull, StampSteps, Orderly
  <2>2. QED
    BY <2>1, ShiftMoves, RowMoveKeeps DEF RowMoves, StampSteps, Pcs, FileStates, FetchStates
<1>2. CASE PullWrites(a) \/ PullDrops(a) \/ PostPullReceipt(a) \/ Converge(a) \/ Seal(a)
  <2>1. /\ UNCHANGED <<row, meta, bounds>> /\ act[a].pc \notin StampSteps
        /\ Finish(a) \/ \E pc \in {"drop", "receipt", "converge", "seal", "await", "record"} : Goto(a, pc)
    BY <1>2 DEF PullWrites, PullDrops, PostPullReceipt, Converge, Seal, StampSteps
  <2>2. QED
    BY <2>1, ShiftMoves, RowMoveKeeps DEF RowMoves, Orderly, bounds, StampSteps, Pcs
<1>3. CASE Record(a)
  <2>1. UNCHANGED <<row, bounds>> /\ act[a].pc = "record"
    BY <1>3 DEF Record
  <2>2. act'[a].pc = "stamp" /\ act'[a].to = "ready" /\ \A b \in Actors \ {a} : act'[b] = act[b]
    BY <1>3 DEF Record, Stamp, SealedInv, Step
  <2>3. QED
    BY <2>1, <2>2 DEF RowInv, WillShow, Orderly, bounds
<1>4. CASE AwaitKey(a)
  <2>1. /\ UNCHANGED <<row, bounds>> /\ meta' \in {meta, "awaiting_key"}
        /\ act[a].pc \notin StampSteps
        /\ Finish(a) \/ Stamp(a, "awaiting_key")
    BY <1>4 DEF AwaitKey, StampSteps
  <2>2. QED
    BY <2>1, ShiftMoves, RowMoveKeeps DEF RowMoves, Orderly, bounds, FileStates
<1>5. CASE StampReads(a)
  <2>1. UNCHANGED <<row, meta, bounds>> /\ act[a].pc = "stamp"
    BY <1>5 DEF StampReads
  <2>2. CASE StampAllowed(row, act[a].to)
    <3>1. /\ act'[a].pc = "stampRow" /\ act'[a].to = act[a].to
          /\ \A b \in Actors \ {a} : act'[b] = act[b]
      BY <1>5, <2>2 DEF StampReads, Goto, SealedInv, Step
    <3>2. QED
      BY <2>1, <2>2, <3>1 DEF RowInv, WillShow, Orderly, bounds, StampAllowed
  <2>3. CASE ~StampAllowed(row, act[a].to)
    <3>1. /\ act'[a].pc = "idle" /\ \A b \in Actors \ {a} : act'[b] = act[b]
      BY <1>5, <2>3 DEF StampReads, Finish, SealedInv, Idle
    <3>2. QED
      BY <2>1, <2>3, <3>1 DEF RowInv, WillShow, Orderly, bounds, StampAllowed
  <2>4. QED
    BY <2>2, <2>3
<1>6. CASE StampWritesRow(a)
  <2>1. meta' = meta /\ act[a].pc = "stampRow" /\ row' = act[a].to
    BY <1>6 DEF StampWritesRow
  <2>2. /\ act'[a].pc = "stampMeta" /\ act'[a].to = act[a].to
        /\ \A b \in Actors \ {a} : act'[b] = act[b]
    BY <1>6 DEF StampWritesRow, Goto, SealedInv, Step
  <2>3. Orderly' => Orderly /\ \A b \in Actors \ {a} : act[b].pc # "stampRow"
    BY <1>6 DEF StampWritesRow, Orderly
  <2>4. QED
    BY <2>1, <2>2, <2>3 DEF RowInv, WillShow
<1>7. CASE StampWritesMeta(a)
  <2>1. UNCHANGED <<row, bounds>> /\ act[a].pc = "stampMeta" /\ meta' \in {meta, act[a].to}
    BY <1>7 DEF StampWritesMeta
  <2>2. /\ act'[a].pc = "idle" /\ \A b \in Actors \ {a} : act'[b] = act[b]
    BY <1>7 DEF StampWritesMeta, Finish, SealedInv, Idle
  <2>3. QED
    BY <2>1, <2>2 DEF RowInv, WillShow, Orderly, bounds
<1>8. CASE SealFails(a)
  <2>1. /\ UNCHANGED <<row, meta>> /\ (Orderly' => Orderly) /\ act[a].pc \notin StampSteps
        /\ Stamp(a, "failed_transient")
    BY <1>8 DEF SealFails, StampSteps, Orderly
  <2>2. QED
    BY <2>1, ShiftMoves, RowMoveKeeps DEF RowMoves, FileStates, FetchStates
<1>9. QED
  BY <1>1, <1>2, <1>3, <1>4, <1>5, <1>6, <1>7, <1>8 DEF ActorStep

\* A stop in the middle of a stamp is no orderly end.
LEMMA StopRow ==
    ASSUME RowInv, FrontStop PROVE RowInv'
<1>1. UNCHANGED <<row, meta>> /\ \A a \in Actors : act'[a].pc = "idle"
  BY DEF FrontStop, Idle
<1>2. Orderly' => Orderly /\ \A a \in Actors : TakenUp(a)
  BY DEF FrontStop, Orderly, Unheard
<1>3. \A a \in Actors : TakenUp(a) => ~WillShow(act[a])
  BY DEF TakenUp, WillShow
<1>4. QED
  BY <1>1, <1>2, <1>3 DEF RowInv

\* At rest the message shows ready when the metadata is ready, although two
\* goroutines write the two in separate steps (stampFileEventState).
THEOREM FileRowAgrees == Spec => []RowAgrees
<1>1. Init => RowInv
  BY DEF Init, RowInv, Actors, Idle
<1>2. SealedInv /\ RowInv /\ [Next]_vars => RowInv'
  <2> SUFFICES ASSUME SealedInv, RowInv, [Next]_vars PROVE RowInv'
    OBVIOUS
  <2>1. CASE UNCHANGED vars
    BY <2>1 DEF vars, frontVars, bounds, RowInv, Orderly
  <2>2. CASE Next
    BY <2>2, BackRow, LoopRow, ActorRow, StopRow, RowMoveKeeps DEF Next, Environment
  <2>3. QED
    BY <2>1, <2>2
<1>3. SealedInv /\ [Next]_vars => SealedInv'
  BY StepKeeps
<1>4. RowInv => RowAgrees
  BY DEF RowInv, Orderly, RowAgrees, Quiet, WillShow
<1>5. QED
  BY StartsSealed, <1>1, <1>2, <1>3, <1>4, PTL DEF Spec

-----------------------------------------------------------------------------
(* Nothing stays stranded *)

\* Nothing went wrong that the code has no second chance for; a full queue has
\* one at the next start.
Clean == cut \subseteq {"stamp", "full"}

\* Where the goroutines are, what they are about to write, what is on the stream.
SomeAt(pcs) == \E a \in Actors : act[a].pc \in pcs
Stamps(s) == \E a \in Actors : act[a].pc \in StampSteps /\ act[a].to = s
Pending(s) == \E i \in DOMAIN events : events[i] = s
Trace(s) == meta = s \/ Pending(s) \/ Stamps(s)

\* Types that the other invariants leave out.
RestType ==
    /\ part \in {"none", "some", "whole"} /\ meta \in FileStates \cup {"none"}
    /\ inbox \subseteq {"offer", "key"} /\ receipts \in Nat

\* A failed download has been counted, also one the network change kicked.
Counted(f) == f.kicked \/ f.state = "failed_transient" => f.attempts > 0

\* The worker: a row under way has its goroutine or a kick, the goroutine's copy
\* is the row, and a retry works from a failed row.
RunInv ==
    /\ blob /\ job.pc # "wipe"
    /\ ~backUp => job.pc = "idle"
    /\ InFlight(fetch) /\ backUp =>
          \/ Streaming \/ job.pc = "begin"
          \/ fetch.state = "pending" /\ job.pc = "idle" /\ (queue > 0 \/ "full" \in cut)
    /\ Streaming => fetch = job.row /\ fetch.state = "downloading"
    /\ Counted(fetch)
    /\ \A r \in Retriers :
          /\ retry[r].pc = "decide" => retry[r].row.state = "failed_transient" /\ retry[r].row.attempts > 0
          /\ retry[r].pc = "wipe" => fetch.state = "failed_permanent"

\* The staging directory: the final file belongs to a ready row, to a goroutine
\* about to write it, or to a row that a stop cut off.
FileInv ==
    /\ fetch.state = "ready" \/ job.pc = "ready" => final
    /\ final => /\ part = "none"
                /\ \/ fetch.state = "ready" \/ job.pc = "ready"
                   \/ ~backUp /\ fetch.state = "downloading"

\* The frontend has the bytes or is about to write them.
Got == Held \/ SomeAt({"write"})

\* The download under way has its last byte.
Assured ==
    \/ job.pc = "ready"
    \/ part = "whole" /\ job.pc \in {"begin", "rename"}
    \/ ~backUp /\ (final \/ part = "whole")

\* A file the frontend has is never fetched anew, and a ready event is about a
\* file that is ready or was pulled.
GotInv ==
    /\ Got => /\ ~Fresh
              /\ fetch.state \in {"downloading", "ready", "none"}
              /\ fetch.state = "downloading" => Assured
    /\ Pending("ready") \/ act["loop"].pc = "pull" =>
          fetch.state = "ready" \/ (fetch.state = "none" /\ ~Fresh)

\* What the frontend was told of a failure is so, or the failure was counted.
TraceInv ==
    /\ Trace("failed_permanent") => fetch.state = "failed_permanent"
    /\ Trace("failed_transient") => fetch.attempts > 0 \/ (fetch.state = "none" /\ ~Fresh)

\* Inbox entries: only the loop has one, it is deleted last, and what it brings
\* has been written by then.
EntryInv ==
    /\ meta = "none" => /\ "offer" \in inbox /\ events = <<>>
                        /\ \A a \in Actors : act[a].pc \in {"idle", "list", "offer", "offerMeta"}
    /\ \A a \in Actors :
          /\ act[a].entry # "none" => a = "loop" /\ act[a].entry \in inbox /\ act[a].pc # "idle"
          /\ act[a].entry = "offer" => act[a].pc \in {"offer", "offerMeta"} \/ meta # "none"
          /\ act[a].entry = "key" =>
                /\ act[a].pc = "key" \/ key \/ meta = "ready"
                /\ act[a].pc \in {"key", "converge", "seal", "record"} \/ meta = "ready"
          /\ act[a].pc = "key" => act[a].entry = "key"

\* The key is on its way: asked for, sent or delivered.
KeyComing == receipts > 0 \/ keyOut \/ "key" \in inbox

\* convergeFileReady: one goroutine at a time, and who waits for the key does
\* not wait for nothing.
KeyInv ==
    /\ KeyComing => meta # "none"
    /\ \A a, b \in Actors : Locked(a) /\ Locked(b) => a = b
    /\ \A a \in Actors :
          act[a].pc = "receipt" \/ (act[a].pc = "converge" /\ act[a].entry # "key") => Held
    /\ meta # "ready" => \A a \in Actors :
          /\ act[a].pc = "converge" => key \/ KeyComing
          /\ act[a].pc = "await" => KeyComing /\ staged
          /\ act[a].pc = "seal" => staged /\ key
    /\ sealed => meta = "ready" \/ SomeAt({"record"})

\* The two halves will meet.
Keyed ==
    \/ SomeAt({"record"})
    \/ staged /\ (SomeAt({"receipt"}) \/ KeyComing \/ (key /\ SomeAt({"converge", "seal"})))

\* A file that waits for its key, or that the backend dropped, gets it; a ready
\* one that the frontend was told had failed is being pulled.
RestInv ==
    /\ meta # "ready" /\ (meta = "awaiting_key" \/ Stamps("awaiting_key") \/ (fetch.state = "none" /\ ~Fresh))
          => Keyed
    /\ meta # "ready" /\ fetch.state = "ready" /\ Trace("failed_transient") =>
          Pending("ready") \/ act["loop"].pc \in {"pull", "write", "drop"} \/ Keyed

\* What a clean run keeps, next to the invariants above.
FlowInv == RunInv /\ FileInv /\ GotInv /\ TraceInv /\ EntryInv /\ KeyInv /\ RestInv

\* A goroutine that goes on keeps its entry and leaves the other one alone (Goto).
LEMMA GotoEffect ==
    ASSUME SealedInv, NEW a \in Actors, NEW pc \in Pcs, Goto(a, pc)
    PROVE  /\ act'[a].pc = pc /\ act'[a].to = act[a].to /\ act'[a].entry = act[a].entry
           /\ \A b \in Actors : b # a => act'[b] = act[b]
BY DEF Goto, SealedInv, Step

\* A goroutine that starts a stamp keeps its entry (stampState).
LEMMA StampEffect ==
    ASSUME SealedInv, NEW a \in Actors, NEW s \in FileStates, Stamp(a, s)
    PROVE  /\ act'[a].pc = "stamp" /\ act'[a].to = s /\ act'[a].entry = act[a].entry
           /\ \A b \in Actors : b # a => act'[b] = act[b]
BY DEF Stamp, SealedInv, Step

\* A goroutine that ends its work deletes its entry (processInboxEntry).
LEMMA FinishEffect ==
    ASSUME SealedInv, NEW a \in Actors, Finish(a)
    PROVE  /\ act'[a].pc = "idle" /\ act'[a].to = "none" /\ act'[a].entry = "none"
           /\ inbox' = inbox \ {act[a].entry}
           /\ \A b \in Actors : b # a => act'[b] = act[b]
BY DEF Finish, SealedInv, Idle

\* No step clears the record of what went wrong.
LEMMA CleanBack ==
    ASSUME [Next]_vars, Clean' PROVE Clean /\ ("full" \in cut /\ ~BackStart => "full" \in cut')
<1> USE DEF Clean
<1>1. CASE UNCHANGED vars
  BY <1>1 DEF vars, bounds
<1>2. CASE WorkerStep
  BY <1>2 DEF WorkerStep, StartFetch, RunOne, StreamSome, StreamWhole, StreamBreaks,
     StreamGone, Rename, WriteReady, WorkerWipes, WorkerExits, bounds, Unheard
<1>3. CASE \E r \in Retriers : RetryStep(r)
  BY <1>3 DEF RetryStep, RetryList, RetryDecide, RetryWipes, RetryKicks, Kick, Overwrites, bounds, Unheard
<1>4. CASE LoopStep \/ SweepList
  BY <1>4 DEF LoopStep, OfferRow, OfferMeta, OfferReceipt, OfferFetch, KeyWritten, HandleEvent,
     TakeEntry, SweepList, Kick, bounds
<1>5. CASE Environment
  BY <1>5 DEF Environment, BackStop, BackStart, FrontStop, Connect, Disconnect, SenderAnswers,
     KeyArrives, EnvelopeFails, Withdraw, bounds, Unheard
<1>6. CASE \E a \in Actors : ActorStep(a)
  BY <1>6 DEF ActorStep, Pull, PullWrites, PullDrops, PostPullReceipt, Converge, Seal, SealFails,
     Record, AwaitKey, StampReads, StampWritesRow, StampWritesMeta, bounds
<1>7. QED
  BY <1>1, <1>2, <1>3, <1>4, <1>5, <1>6 DEF Next

\* Receipts and inbox entries under way.
LEMMA NetTypeStep ==
    ASSUME RestType,
           \/ OfferReceipt \/ SenderAnswers \/ KeyArrives \/ EnvelopeFails
           \/ \E a \in Actors : PostPullReceipt(a)
    PROVE  RestType'
<1>1. receipts' \in Nat
  <2>1. CASE OfferReceipt \/ \E a \in Actors : PostPullReceipt(a)
    BY <2>1 DEF RestType, OfferReceipt, PostPullReceipt
  <2>2. CASE SenderAnswers \/ KeyArrives \/ EnvelopeFails
    BY <2>2 DEF RestType, SenderAnswers, KeyArrives, EnvelopeFails
  <2>3. QED
    BY <2>1, <2>2
<1>2. UNCHANGED <<part, meta>> /\ inbox' \in {inbox, inbox \cup {"key"}}
  BY DEF OfferReceipt, PostPullReceipt, SenderAnswers, KeyArrives, EnvelopeFails,
     SameFront, SameBack, backVars, frontVars
<1>3. QED
  BY <1>1, <1>2 DEF RestType

\* Types of what the earlier invariants leave out.
LEMMA RestTypeStep ==
    ASSUME SealedInv, FrontInv, RestType, [Next]_vars PROVE RestType'
<1> USE DEF RestType
<1>1. CASE UNCHANGED vars
  BY <1>1 DEF vars, backVars, frontVars, netVars
<1>2. CASE WorkerStep
  BY <1>2 DEF WorkerStep, StartFetch, RunOne, StreamSome, StreamWhole, StreamBreaks,
     StreamGone, Rename, WriteReady, WorkerWipes, WorkerExits, frontVars, netVars
<1>3. CASE \E r \in Retriers : RetryStep(r)
  BY <1>3 DEF RetryStep, RetryList, RetryDecide, RetryWipes, RetryKicks, frontVars, netVars
<1>4. CASE LoopStep \/ SweepList
  <2> USE DEF SameBack, SameNet, SameFront, backVars, netVars, Finish
  <2>1. CASE OfferRow \/ SweepList
    BY <2>1 DEF OfferRow, SweepList
  <2>6. CASE OfferMeta
    BY <2>6 DEF OfferMeta, FileStates, FetchStates
  <2>2. CASE OfferFetch
    BY <2>2 DEF OfferFetch
  <2>3. CASE KeyWritten \/ HandleEvent
    BY <2>3 DEF KeyWritten, HandleEvent
  <2>4. CASE \E e \in {"offer", "key"} : TakeEntry(e)
    BY <2>4 DEF TakeEntry
  <2>5. QED
    BY <1>4, <2>1, <2>2, <2>3, <2>4, <2>6, NetTypeStep DEF LoopStep
<1>5. CASE Environment
  <2>1. Reconciled(fetch, part, final).part \in {"none", "some", "whole"}
    BY DEF Reconciled
  <2>3. CASE BackStop \/ BackStart \/ FrontStop \/ Connect \/ Disconnect \/ Withdraw
    BY <2>1, <2>3 DEF BackStop, BackStart, FrontStop, Connect, Disconnect, Withdraw,
       backVars, frontVars, netVars, SameBack, SameNet
  <2>4. QED
    BY <1>5, <2>3, NetTypeStep DEF Environment
<1>6. CASE \E a \in Actors : ActorStep(a)
  <2> USE DEF SameBack, SameNet, SameFront, backVars, netVars, Finish
  <2>1. PICK a \in Actors : ActorStep(a)
    BY <1>6
  <2>2. act[a].to \in FileStates \cup {"none"}
    BY DEF SealedInv, Step
  <2>3. CASE Pull(a) \/ PullWrites(a) \/ PullDrops(a)
    BY <2>3 DEF Pull, PullWrites, PullDrops
  <2>4. CASE Converge(a) \/ Seal(a) \/ SealFails(a) \/ StampReads(a) \/ StampWritesRow(a)
    BY <2>4 DEF Converge, Seal, SealFails, StampReads, StampWritesRow
  <2>5. CASE Record(a) \/ AwaitKey(a)
    BY <2>5 DEF Record, AwaitKey, FileStates, FetchStates
  <2>6. CASE StampWritesMeta(a)
    BY <2>2, <2>6 DEF StampWritesMeta
  <2>7. QED
    BY <2>1, <2>3, <2>4, <2>5, <2>6, NetTypeStep DEF ActorStep
<1>7. QED
  BY <1>1, <1>2, <1>3, <1>4, <1>5, <1>6 DEF Next

\* An event that gets through is on the stream, and the ones before it stay.
LEMMA PublishEffect ==
    ASSUME SealedInv, NEW s \in EventStates, Publish(s)
    PROVE  /\ \A t \in EventStates : (Pending(t) => Pending(t)') /\ (Pending(t)' => Pending(t) \/ t = s)
           /\ events' # events => Pending(s)'
<1>1. CASE events' = events
  BY <1>1 DEF Pending
<1>2. CASE events' = Append(events, s)
  <2>1. /\ DOMAIN events = 1..Len(events) /\ Len(events) \in Nat
        /\ DOMAIN events' = 1..(Len(events) + 1)
        /\ \A i \in 1..Len(events) : events'[i] = events[i]
        /\ events'[Len(events) + 1] = s
    BY <1>2 DEF SealedInv
  <2>2. QED
    BY <2>1 DEF Pending
<1>3. QED
  BY <1>1, <1>2 DEF Publish

\* A step of the worker or of a retry: what it may do to the row and to the
\* stream, and to a file the frontend has.
FetchMoves ==
    /\ UNCHANGED <<frontVars, netVars>>
    /\ \A s \in {"none", "ready", "failed_permanent"} : fetch.state = s => fetch'.state = s
    /\ fetch'.state = "none" => fetch.state = "none"
    /\ fetch.attempts > 0 => fetch'.attempts > 0
    /\ \A t \in EventStates : Pending(t) => Pending(t)'
    /\ Pending("ready")' => Pending("ready") \/ fetch'.state = "ready"
    /\ Pending("failed_permanent")' => Pending("failed_permanent") \/ fetch'.state = "failed_permanent"
    /\ Pending("failed_transient")' =>
          Pending("failed_transient") \/ (fetch'.state = "failed_transient" /\ fetch'.attempts > 0)
    /\ fetch'.state = "ready" /\ fetch.attempts > 0 => fetch.state = "ready" \/ Pending("ready")'
    /\ Got => /\ fetch'.state \in {"downloading", "ready", "none"}
              /\ fetch'.state = "downloading" => Assured'

\* What the frontend sees of itself in such a step.
LEMMA FrontView ==
    ASSUME UNCHANGED <<frontVars, netVars>>
    PROVE  /\ Fresh' <=> Fresh
           /\ Got' <=> Got
           /\ Keyed' <=> Keyed
           /\ \A s \in FileStates : Stamps(s)' <=> Stamps(s)
           /\ KeyInv => KeyInv'
BY DEF frontVars, netVars, Fresh, Got, Held, Keyed, KeyComing, SomeAt, Stamps, KeyInv, Locked

\* Such a step keeps what the frontend relies on.
LEMMA FetchMovesKeep ==
    ASSUME FlowInv, RunInv', FileInv', FetchMoves, ~Fresh
    PROVE  FlowInv'
<1>1. /\ ~Fresh' /\ (Got' <=> Got) /\ (Keyed' <=> Keyed) /\ KeyInv'
      /\ Stamps("failed_permanent")' <=> Stamps("failed_permanent")
      /\ Stamps("failed_transient")' <=> Stamps("failed_transient")
      /\ Stamps("awaiting_key")' <=> Stamps("awaiting_key")
  BY FrontView DEF FetchMoves, FlowInv, FileStates, FetchStates
<1>2. UNCHANGED <<meta, act, inbox, key>> /\ meta # "none"
  BY DEF FetchMoves, frontVars, netVars, Fresh
<1>3. GotInv'
  BY <1>1, <1>2 DEF GotInv, FlowInv, FetchMoves
<1>4. TraceInv'
  BY <1>1, <1>2 DEF TraceInv, FlowInv, FetchMoves, Trace
<1>5. EntryInv'
  BY <1>2 DEF EntryInv, FlowInv
<1>6. RestInv'
  <2>1. Pending("ready") => Pending("ready")'
    BY DEF FetchMoves, EventStates, FetchStates
  <2>2. Pending("failed_transient")' /\ fetch'.state = "ready" => Pending("failed_transient")
    BY DEF FetchMoves
  <2>3. Trace("failed_transient") /\ fetch'.state = "ready" => fetch.attempts > 0
    BY DEF FlowInv, TraceInv, FetchMoves
  <2>4. QED
    BY <1>1, <1>2, <2>1, <2>2, <2>3 DEF RestInv, FlowInv, FetchMoves, Trace
<1>7. QED
  BY <1>1, <1>3, <1>4, <1>5, <1>6 DEF FlowInv

\* What the changes of a row keep of it.
LEMMA RowEffects ==
    /\ NoFetch.attempts = 0 /\ ~NoFetch.kicked
    /\ \A f \in Fetch :
          /\ f.attempts \in Nat
          /\ Counted(f) => Counted(Transient(f)) /\ Transient(f).attempts > 0
          /\ Permanent(f).attempts = f.attempts /\ (Permanent(f).kicked <=> f.kicked)
          /\ \A s \in FetchStates : /\ [f EXCEPT !.state = s].attempts = f.attempts
                                   /\ [f EXCEPT !.state = s].kicked <=> f.kicked
          /\ [f EXCEPT !.kicked = TRUE].state = f.state /\ [f EXCEPT !.kicked = TRUE].attempts = f.attempts
BY DEF Fetch, NoFetch, Transient, Permanent, Counted

\* The worker takes kicks and works from "downloading" to its verdict.
LEMMA WorkerRuns ==
    ASSUME SealedInv, BackInv, RestType, FlowInv, Clean', WorkerStep
    PROVE  RunInv' /\ FileInv' /\ FetchMoves /\ ~Fresh
<1> USE DEF FlowInv
<1>0. ~Fresh
  BY DEF WorkerStep, StartFetch, RunOne, StreamSome, StreamWhole, StreamBreaks, StreamGone,
     Rename, WriteReady, WorkerWipes, WorkerExits, BackInv, Untouched
<1>1. fetch \in Fetch /\ job \in Job /\ job.row \in Fetch /\ queue \in Nat
  BY DEF BackInv, BackType, Job
<1>2. UNCHANGED <<events, fetch>> => \A t \in EventStates : Pending(t)' <=> Pending(t)
  BY DEF Pending
<1>3. CASE StartFetch
  <2>1. /\ backUp /\ queue > 0 /\ queue' = queue - 1
        /\ UNCHANGED <<fetch, part, final, retry, backUp, events, frontVars, netVars, cut>>
        /\ job' = IF job.pc = "idle" THEN [job EXCEPT !.pc = "begin"] ELSE job
    BY <1>3 DEF StartFetch, bounds
  <2>2. \/ job.pc = "idle" /\ job'.pc = "begin" /\ job'.row = job.row
        \/ job.pc # "idle" /\ job' = job
    BY <1>1, <2>1 DEF Job
  <2>3. RunInv'
    BY <1>1, <2>1, <2>2 DEF RunInv, Streaming, netVars, Counted
  <2>4. FileInv'
    BY <1>1, <2>1, <2>2 DEF FileInv
  <2>5. FetchMoves
    BY <1>1, <1>2, <2>1, <2>2 DEF FetchMoves, GotInv, Assured, EventStates, FetchStates
  <2>6. QED
    BY <1>0, <2>3, <2>4, <2>5
<1>4. CASE RunOne
  <2>1. /\ backUp /\ job.pc = "begin"
        /\ UNCHANGED <<part, final, queue, retry, backUp, link, frontVars, netVars, cut>>
    BY <1>4 DEF RunOne, bounds
  <2>2. CASE fetch.state \in Settled \cup {"none"}
    <3>1. UNCHANGED <<fetch, events>> /\ job'.pc = "exit"
      BY <1>1, <1>4, <2>2 DEF RunOne, Job
    <3>2. RunInv'
      BY <2>1, <2>2, <3>1 DEF RunInv, Streaming, netVars, Counted, InFlight, Settled
    <3>3. FileInv'
      BY <2>1, <3>1 DEF FileInv
    <3>4. FetchMoves
      BY <1>2, <2>1, <2>2, <3>1 DEF FetchMoves, GotInv, Settled, EventStates, FetchStates
    <3>5. QED
      BY <1>0, <3>2, <3>3, <3>4
  <2>3. CASE fetch.state \notin Settled \cup {"none"}
    <3>1. /\ fetch' = [fetch EXCEPT !.state = "downloading"]
          /\ job' = [pc |-> IF part = "whole" THEN "rename" ELSE "stream", row |-> fetch']
          /\ Publish("downloading")
      BY <1>4, <2>3 DEF RunOne
    <3>2. /\ fetch'.state = "downloading" /\ fetch'.attempts = fetch.attempts
          /\ fetch'.kicked <=> fetch.kicked
      BY <1>1, <3>1, FetchRows, RowEffects DEF FetchStates
    <3>3. job'.row = fetch' /\ job'.pc = IF part = "whole" THEN "rename" ELSE "stream"
      BY <3>1
    <3>4. /\ \A t \in EventStates : (Pending(t) => Pending(t)')
          /\ \A t \in {"ready", "failed_permanent", "failed_transient"} : Pending(t)' => Pending(t)
      BY <3>1, PublishEffect DEF EventStates, FetchStates
    <3>5. ~final
      BY <2>1, <2>3 DEF FileInv, RunInv, Settled
    <3>6. RunInv'
      <4>1. \A r \in Retriers : retry[r].pc # "wipe"
        BY <2>3 DEF RunInv, Settled
      <4>2. QED
        BY <2>1, <3>2, <3>3, <4>1 DEF RunInv, Streaming, netVars, Counted
    <3>7. FileInv'
      BY <2>1, <3>2, <3>3, <3>5 DEF FileInv
    <3>8. Got => part = "whole"
      BY <2>1, <2>3, <3>5 DEF GotInv, Assured, Settled
    <3>9. FetchMoves
      BY <2>1, <2>3, <3>2, <3>3, <3>4, <3>8 DEF FetchMoves, Settled, Assured
    <3>10. QED
      BY <1>0, <3>6, <3>7, <3>9
  <2>4. QED
    BY <2>2, <2>3
<1>5. CASE StreamSome \/ StreamWhole
  <2>1. /\ backUp /\ job.pc = "stream" /\ part' \in {"some", "whole"}
        /\ UNCHANGED <<final, queue, retry, backUp, events, frontVars, netVars, cut>>
        /\ fetch = job.row /\ fetch' = fetch /\ fetch.state = "downloading"
    BY <1>5 DEF StreamSome, StreamWhole, RunInv, Streaming, bounds
  <2>2. job'.row = job.row /\ job'.pc \in {"stream", "rename"}
    BY <1>1, <1>5 DEF StreamSome, StreamWhole, Job
  <2>3. ~final /\ ~Got
    BY <2>1 DEF FileInv, GotInv, Assured
  <2>4. RunInv'
    BY <2>1, <2>2 DEF RunInv, Streaming, netVars, Counted
  <2>5. FileInv'
    BY <2>1, <2>2, <2>3 DEF FileInv
  <2>6. FetchMoves
    BY <1>2, <2>1, <2>3 DEF FetchMoves, EventStates, FetchStates
  <2>7. QED
    BY <1>0, <2>4, <2>5, <2>6
<1>6. CASE StreamGone \/ WorkerWipes
  BY <1>6 DEF StreamGone, WorkerWipes, RunInv
<1>7. CASE StreamBreaks \/ (Rename /\ part # "whole")
  <2>1. /\ backUp /\ Streaming /\ job.pc # "ready"
        /\ UNCHANGED <<final, queue, retry, backUp, frontVars, netVars, cut>>
        /\ fetch' = Transient(job.row) /\ Publish("failed_transient")
        /\ fetch = job.row /\ fetch.state = "downloading"
    BY <1>7 DEF StreamBreaks, Rename, RunInv, Streaming, bounds
  <2>2. job'.pc = "exit"
    BY <1>1, <1>7 DEF StreamBreaks, Rename, Job
  <2>3. fetch'.state = "failed_transient" /\ fetch'.attempts > 0 /\ Counted(fetch')
    BY <1>1, <2>1, RowEffects, FetchRows DEF RunInv
  <2>4. ~final /\ ~Got
    BY <1>7, <2>1 DEF FileInv, GotInv, Assured, StreamBreaks, Rename
  <2>5. /\ \A t \in EventStates : (Pending(t) => Pending(t)')
        /\ \A t \in {"ready", "failed_permanent"} : Pending(t)' => Pending(t)
    BY <2>1, PublishEffect DEF EventStates, FetchStates
  <2>6. RunInv'
    <3>1. \A r \in Retriers : retry[r].pc # "wipe"
      BY <2>1 DEF RunInv
    <3>2. QED
      BY <2>1, <2>2, <2>3, <3>1 DEF RunInv, Streaming, netVars, InFlight
  <2>7. FileInv'
    BY <2>1, <2>2, <2>3, <2>4 DEF FileInv
  <2>8. FetchMoves
    BY <2>1, <2>3, <2>4, <2>5 DEF FetchMoves
  <2>9. QED
    BY <1>0, <2>6, <2>7, <2>8
<1>8. CASE Rename /\ part = "whole"
  <2>1. /\ backUp /\ job.pc = "rename" /\ final' /\ part' = "none"
        /\ UNCHANGED <<fetch, events, queue, retry, backUp, frontVars, netVars, cut>>
    BY <1>8 DEF Rename, bounds
  <2>2. job'.pc = "ready" /\ job'.row = job.row
    BY <1>1, <1>8 DEF Rename, Job
  <2>3. RunInv'
    BY <2>1, <2>2 DEF RunInv, Streaming, netVars, Counted
  <2>4. FileInv'
    BY <2>1, <2>2 DEF FileInv
  <2>5. FetchMoves
    BY <1>2, <2>1, <2>2 DEF FetchMoves, GotInv, Assured, EventStates, FetchStates
  <2>6. QED
    BY <1>0, <2>3, <2>4, <2>5
<1>9. CASE WriteReady
  <2>1. /\ backUp /\ job.pc = "ready" /\ final /\ part = "none"
        /\ UNCHANGED <<part, final, queue, retry, backUp, frontVars, netVars>>
        /\ fetch' = [fetch EXCEPT !.state = "ready"] /\ Publish("ready")
        /\ cut' = Unheard(fetch', events' = events)
        /\ fetch.state = "downloading"
    BY <1>9 DEF WriteReady, RunInv, Streaming, FileInv
  <2>2. job'.pc = "exit"
    BY <1>1, <1>9 DEF WriteReady, Job
  <2>3. /\ fetch'.state = "ready" /\ fetch'.attempts = fetch.attempts
        /\ fetch'.kicked <=> fetch.kicked
    BY <1>1, <2>1, FetchRows, RowEffects DEF FetchStates
  <2>4. fetch'.attempts > 0 => Pending("ready")'
    BY <2>1, PublishEffect DEF Unheard, Clean, EventStates, FetchStates
  <2>5. /\ \A t \in EventStates : (Pending(t) => Pending(t)')
        /\ \A t \in {"failed_transient", "failed_permanent"} : Pending(t)' => Pending(t)
    BY <2>1, PublishEffect DEF EventStates, FetchStates
  <2>6. RunInv'
    <3>1. \A r \in Retriers : retry[r].pc # "wipe"
      BY <2>1 DEF RunInv
    <3>2. QED
      BY <2>1, <2>2, <2>3, <3>1 DEF RunInv, Streaming, netVars, InFlight, Counted
  <2>7. FileInv'
    BY <2>1, <2>2, <2>3 DEF FileInv
  <2>8. FetchMoves
    BY <2>1, <2>3, <2>4, <2>5 DEF FetchMoves
  <2>9. QED
    BY <1>0, <2>6, <2>7, <2>8
<1>10. CASE WorkerExits
  <2>1. /\ backUp /\ job.pc = "exit" /\ job'.pc = "idle"
        /\ UNCHANGED <<fetch, part, final, queue, retry, backUp, events, frontVars, netVars, cut>>
    BY <1>10, FetchRows DEF WorkerExits, bounds
  <2>2. RunInv'
    BY <2>1 DEF RunInv, Streaming, netVars, Counted
  <2>3. FileInv'
    BY <2>1 DEF FileInv
  <2>4. FetchMoves
    BY <1>2, <2>1 DEF FetchMoves, GotInv, Assured, EventStates, FetchStates
  <2>5. QED
    BY <1>0, <2>2, <2>3, <2>4
<1>11. QED
  BY <1>3, <1>4, <1>5, <1>6, <1>7, <1>8, <1>9, <1>10 DEF WorkerStep

\* A retry works from a copy; unless that is older than the worker's row, it
\* writes over a failed row only.
LEMMA RetryRuns ==
    ASSUME SealedInv, BackInv, RestType, FlowInv, Clean', NEW r \in Retriers, RetryStep(r)
    PROVE  RunInv' /\ FileInv' /\ FetchMoves /\ ~Fresh
<1> USE DEF FlowInv
<1>0. ~Fresh
  BY FetchRows DEF RetryStep, RetryList, RetryDecide, RetryWipes, RetryKicks, BackInv, Untouched
<1>1. /\ fetch \in Fetch /\ job \in Job /\ retry \in [Retriers -> Retry] /\ queue \in Nat
      /\ retry[r].row \in Fetch
  BY DEF BackInv, BackType, Retry
<1>2. UNCHANGED <<events, fetch>> => \A t \in EventStates : Pending(t)' <=> Pending(t)
  BY DEF Pending
<1>3. CASE \E k \in BOOLEAN : RetryList(r, k)
  <2>1. /\ fetch.state = "failed_transient"
        /\ UNCHANGED <<fetch, part, final, queue, job, backUp, events, frontVars, netVars, cut>>
    BY <1>3 DEF RetryList
  <2>2. /\ retry'[r].pc = "decide" /\ retry'[r].row = fetch
        /\ \A q \in Retriers : q # r => retry'[q] = retry[q]
    BY <1>1, <1>3 DEF RetryList
  <2>3. RunInv'
    BY <2>1, <2>2 DEF RunInv, Streaming, netVars, Counted
  <2>4. FileInv'
    BY <2>1 DEF FileInv
  <2>5. FetchMoves
    BY <1>2, <2>1 DEF FetchMoves, GotInv, EventStates, FetchStates
  <2>6. QED
    BY <1>0, <2>3, <2>4, <2>5
<1>4. CASE RetryDecide(r)
  <2>1. PICK f : f = retry[r].row
    OBVIOUS
  <2>2. /\ backUp /\ f \in Fetch /\ f.state = "failed_transient" /\ f.attempts > 0
        /\ UNCHANGED <<part, final, queue, job, backUp, events, frontVars, netVars>>
    BY <1>1, <1>4, <2>1 DEF RetryDecide, RunInv
  <2>3. PICK pc \in {"wipe", "kick"} :
              /\ retry' = [retry EXCEPT ![r].pc = pc]
              /\ \/ pc = "wipe" /\ fetch' = Permanent(f) /\ cut' = Overwrites(f)
                 \/ pc = "kick" /\ fetch' = [f EXCEPT !.kicked = TRUE] /\ cut' = Overwrites(f)
                 \/ pc = "kick" /\ fetch' = fetch /\ cut' = cut
    BY <1>4, <2>1 DEF RetryDecide
  <2>4. /\ retry'[r].pc = pc /\ \A q \in Retriers : q # r => retry'[q] = retry[q]
    BY <1>1, <2>3 DEF Retry
  <2>5. cut' = Overwrites(f) => fetch = f /\ ~Streaming /\ cut' = cut
    BY DEF Overwrites, Clean, Streaming, RunInv, BackInv, BackType, Job, JobPcs
  <2>6. UNCHANGED events => \A t \in EventStates : Pending(t)' <=> Pending(t)
    BY DEF Pending
  <2>7. CASE fetch' = fetch /\ pc = "kick" /\ cut' = cut
    <3>1. RunInv'
      BY <2>2, <2>4, <2>7 DEF RunInv, Streaming, netVars, Counted
    <3>2. FileInv'
      BY <2>2, <2>7 DEF FileInv
    <3>3. FetchMoves
      BY <2>2, <2>6, <2>7 DEF FetchMoves, GotInv, Assured, EventStates, FetchStates
    <3>4. QED
      BY <1>0, <3>1, <3>2, <3>3
  <2>8. CASE /\ fetch = f /\ ~Streaming /\ cut' = cut
             /\ fetch'.attempts > 0
             /\ \/ fetch'.state = "failed_transient" /\ pc = "kick"
                \/ fetch'.state = "failed_permanent"
    <3>1. \A q \in Retriers : retry[q].pc # "wipe"
      BY <2>2, <2>8 DEF RunInv
    <3>2. RunInv'
      BY <2>2, <2>4, <2>8, <3>1 DEF RunInv, Streaming, netVars, Counted, InFlight
    <3>3. ~final /\ ~Got
      BY <2>2, <2>8 DEF FileInv, GotInv, Streaming
    <3>4. FileInv'
      BY <2>2, <2>8, <3>3 DEF FileInv, Streaming
    <3>5. FetchMoves
      BY <2>2, <2>6, <2>8, <3>3 DEF FetchMoves, EventStates, FetchStates
    <3>6. QED
      BY <1>0, <3>2, <3>4, <3>5
  <2>9. /\ Permanent(f).state = "failed_permanent" /\ Permanent(f).attempts = f.attempts
        /\ [f EXCEPT !.kicked = TRUE].state = f.state /\ [f EXCEPT !.kicked = TRUE].attempts = f.attempts
    BY <2>2, FetchRows, RowEffects
  <2>10. QED
    BY <2>2, <2>3, <2>5, <2>7, <2>8, <2>9
<1>5. CASE RetryWipes(r)
  <2>1. /\ fetch.state = "failed_permanent" /\ final' = FALSE /\ part' = "none" /\ Publish("failed_permanent")
        /\ UNCHANGED <<fetch, queue, job, backUp, frontVars, netVars, cut>>
    BY <1>5 DEF RetryWipes, RunInv, Unheard, Clean
  <2>2. /\ retry'[r].pc = "idle" /\ \A q \in Retriers : q # r => retry'[q] = retry[q]
    BY <1>1, <1>5, FetchRows DEF RetryWipes
  <2>3. /\ \A t \in EventStates : (Pending(t) => Pending(t)')
        /\ \A t \in {"ready", "failed_transient"} : Pending(t)' => Pending(t)
    BY <2>1, PublishEffect DEF EventStates, FetchStates
  <2>4. RunInv'
    BY <2>1, <2>2 DEF RunInv, Streaming, netVars, Counted
  <2>5. job.pc # "ready"
    BY <2>1 DEF RunInv, Streaming
  <2>6. FileInv'
    BY <2>1, <2>5 DEF FileInv
  <2>7. FetchMoves
    BY <2>1, <2>3 DEF FetchMoves, GotInv
  <2>8. QED
    BY <1>0, <2>4, <2>6, <2>7
<1>6. CASE RetryKicks(r)
  <2>1. /\ Kick /\ UNCHANGED <<fetch, part, final, job, backUp, events, frontVars, netVars>>
    BY <1>6 DEF RetryKicks
  <2>2. /\ retry'[r].pc = "idle" /\ \A q \in Retriers : q # r => retry'[q] = retry[q]
    BY <1>1, <1>6, FetchRows DEF RetryKicks
  <2>3. /\ queue' \in {queue, queue + 1} /\ ("full" \in cut => "full" \in cut')
    BY <2>1 DEF Kick
  <2>4. queue > 0 => queue' > 0
    BY <1>1, <2>3
  <2>5. RunInv'
    BY <2>1, <2>2, <2>3, <2>4 DEF RunInv, Streaming, netVars, Counted
  <2>6. FileInv'
    BY <2>1 DEF FileInv
  <2>7. FetchMoves
    BY <1>2, <2>1 DEF FetchMoves, GotInv, Assured, EventStates, FetchStates
  <2>8. QED
    BY <1>0, <2>5, <2>6, <2>7
<1>7. QED
  BY <1>3, <1>4, <1>5, <1>6 DEF RetryStep

\* A stop takes the worker, the retries and the events with it.
LEMMA StopFlow ==
    ASSUME SealedInv, BackInv, RestType, FlowInv, Clean', BackStop
    PROVE  FlowInv'
<1> USE DEF FlowInv
<1>1. /\ backUp /\ ~backUp' /\ queue' = 0 /\ job'.pc = "idle" /\ events' = <<>>
      /\ UNCHANGED <<fetch, part, final, frontVars, netVars>>
      /\ \A r \in Retriers : retry'[r].pc = "idle"
      /\ cut' = Unheard(fetch, Verdict)
  BY FetchRows DEF BackStop
<1>2. /\ (Fresh' <=> Fresh) /\ (Got' <=> Got) /\ (Keyed' <=> Keyed) /\ KeyInv'
      /\ Stamps("failed_permanent")' <=> Stamps("failed_permanent")
      /\ Stamps("failed_transient")' <=> Stamps("failed_transient")
      /\ Stamps("awaiting_key")' <=> Stamps("awaiting_key")
  BY <1>1, FrontView DEF FileStates, FetchStates
<1>3. UNCHANGED <<meta, act, inbox, key>>
  BY <1>1 DEF frontVars, netVars
<1>4. \A t \in EventStates : ~Pending(t)'
  BY <1>1 DEF Pending
<1>5. RunInv'
  BY <1>1 DEF RunInv, Streaming, netVars, Counted
<1>6. FileInv'
  BY <1>1 DEF FileInv, RunInv, Streaming
<1>7. Got => (fetch.state = "downloading" => Assured')
  BY <1>1 DEF GotInv, Assured, FileInv
<1>8. GotInv'
  BY <1>1, <1>2, <1>3, <1>4, <1>7 DEF GotInv, EventStates, FetchStates
<1>9. TraceInv'
  BY <1>1, <1>2, <1>3, <1>4 DEF TraceInv, Trace, EventStates, FetchStates
<1>10. EntryInv'
  BY <1>1, <1>3 DEF EntryInv
<1>11. RestInv'
  <2>1. Pending("ready") => ~(fetch.attempts > 0)
    BY <1>1 DEF Unheard, Clean, Verdict, VerdictPending, Settled, Pending
  <2>2. fetch.state = "ready" /\ Trace("failed_transient") => fetch.attempts > 0
    BY DEF TraceInv
  <2>3. Trace("failed_transient")' => Trace("failed_transient")
    BY <1>2, <1>3, <1>4 DEF Trace, EventStates, FetchStates
  <2>4. QED
    BY <1>1, <1>2, <1>3, <2>1, <2>2, <2>3 DEF RestInv
<1>12. QED
  BY <1>2, <1>5, <1>6, <1>8, <1>9, <1>10, <1>11

\* What ReconcileStaging makes of the directory of a clean run.
LEMMA ReconcileEffect ==
    ASSUME RestType, BackInv, FlowInv, ~backUp
    PROVE  /\ Reconciled(fetch, part, final).final <=> fetch.state = "ready"
           /\ fetch.state = "ready" => Reconciled(fetch, part, final).part = "none"
           /\ fetch.state = "downloading" /\ (final \/ part = "whole")
                 => Reconciled(fetch, part, final).part = "whole"
<1>1. final \in BOOLEAN /\ part \in {"none", "some", "whole"}
  BY DEF BackInv, BackType, RestType
<1>2. final <=> fetch.state = "ready" \/ (final /\ fetch.state = "downloading")
  BY DEF FlowInv, FileInv, RunInv
<1>3. final => part = "none"
  BY DEF FlowInv, FileInv
<1>4. QED
  BY <1>1, <1>2, <1>3 DEF Reconciled

\* The start resumes what was under way, from the repaired directory.
LEMMA StartFlow ==
    ASSUME SealedInv, BackInv, RestType, FlowInv, Clean', BackStart
    PROVE  FlowInv'
<1> USE DEF FlowInv
<1>1. /\ ~backUp /\ backUp' /\ job.pc = "idle"
      /\ UNCHANGED <<fetch, queue, retry, events, frontVars, netVars>>
      /\ part' = Reconciled(fetch, part, final).part
      /\ final' = Reconciled(fetch, part, final).final
  BY DEF BackStart, RunInv
<1>2. job'.pc = IF InFlight(fetch) THEN "begin" ELSE "idle"
  BY FetchRows DEF BackStart, Resumes, NoJob
<1>3. /\ (Fresh' <=> Fresh) /\ (Got' <=> Got) /\ (Keyed' <=> Keyed) /\ KeyInv'
      /\ Stamps("failed_permanent")' <=> Stamps("failed_permanent")
      /\ Stamps("failed_transient")' <=> Stamps("failed_transient")
      /\ Stamps("awaiting_key")' <=> Stamps("awaiting_key")
  BY <1>1, FrontView DEF FileStates, FetchStates
<1>4. UNCHANGED <<meta, act, inbox, key>>
  BY <1>1 DEF frontVars, netVars
<1>5. \A t \in EventStates : Pending(t)' <=> Pending(t)
  BY <1>1 DEF Pending
<1>6. RunInv'
  BY <1>1, <1>2 DEF RunInv, Streaming, netVars, Counted
<1>7. FileInv'
  BY <1>1, <1>2, ReconcileEffect DEF FileInv
<1>8. Got => (fetch.state = "downloading" => Assured')
  BY <1>1, <1>2, ReconcileEffect DEF GotInv, Assured, InFlight
<1>9. GotInv'
  BY <1>1, <1>3, <1>4, <1>5, <1>8 DEF GotInv, EventStates, FetchStates
<1>10. TraceInv'
  BY <1>1, <1>3, <1>4, <1>5 DEF TraceInv, Trace, EventStates, FetchStates
<1>11. EntryInv'
  BY <1>1, <1>4 DEF EntryInv
<1>12. RestInv'
  BY <1>1, <1>3, <1>4, <1>5 DEF RestInv, Trace, EventStates, FetchStates
<1>13. QED
  BY <1>3, <1>6, <1>7, <1>9, <1>10, <1>11, <1>12

\* The loop will pull the file or is at it.
Pulling == Pending("ready") \/ act["loop"].pc \in {"pull", "write", "drop"}

\* A step of the frontend or of the sender: what it may hear, take and lose.
FrontFlow ==
    /\ UNCHANGED <<backVars, blob>> /\ ("full" \in cut => "full" \in cut')
    /\ ~Fresh => ~Fresh'
    /\ Fresh => Fresh' \/ fetch.state # "none"
    /\ Got' => Got \/ (backUp /\ final)
    /\ Pending("ready")' \/ act'["loop"].pc = "pull" => Pending("ready") \/ act["loop"].pc = "pull"
    /\ Trace("failed_permanent")' => Trace("failed_permanent")
    /\ Trace("failed_transient")' => Trace("failed_transient") \/ (fetch.state = "none" /\ ~Fresh)
    /\ meta = "ready" => meta' = "ready"
    /\ Keyed => Keyed' \/ meta' = "ready"
    /\ meta' = "awaiting_key" \/ Stamps("awaiting_key")' =>
          meta = "awaiting_key" \/ Stamps("awaiting_key") \/ Keyed'
    /\ Pulling /\ fetch.state = "ready" /\ Trace("failed_transient")' => Pulling' \/ Keyed' \/ meta' = "ready"

\* Such a step keeps the backend's half and what the two know of each other.
LEMMA FrontFlowKeeps ==
    ASSUME BackInv, FlowInv, FrontFlow
    PROVE  RunInv' /\ FileInv' /\ GotInv' /\ TraceInv' /\ RestInv'
<1> USE DEF FlowInv
<1>1. UNCHANGED <<fetch, part, final, queue, job, retry, backUp, blob>> /\ ("full" \in cut => "full" \in cut')
  BY DEF FrontFlow, backVars
<1>2. RunInv'
  BY <1>1 DEF RunInv, Streaming, Counted
<1>3. FileInv'
  BY <1>1 DEF FileInv
<1>4. Assured' <=> Assured
  BY <1>1 DEF Assured
<1>5. backUp /\ final => ~Fresh /\ (fetch.state = "ready" \/ (job.pc = "ready" /\ fetch.state = "downloading" /\ Assured))
  BY FetchRows DEF FileInv, RunInv, Streaming, BackInv, Untouched, Assured
<1>6. GotInv'
  BY <1>1, <1>4, <1>5 DEF GotInv, FrontFlow
<1>7. TraceInv'
  BY <1>1 DEF TraceInv, FrontFlow
<1>8. RestInv'
  BY <1>1 DEF RestInv, FrontFlow, Pulling
<1>9. QED
  BY <1>2, <1>3, <1>6, <1>7, <1>8

\* Events that stay on the stream.
LEMMA SameEvents ==
    ASSUME UNCHANGED events PROVE \A t \in EventStates : Pending(t)' <=> Pending(t)
BY DEF Pending

\* Given up for good, a file is not here.
LEMMA GivenUp ==
    ASSUME FlowInv PROVE meta = "failed_permanent" => ~Got
BY DEF FlowInv, GotInv, TraceInv, Trace

\* The sender answers every receipt while it hosts the file.
LEMMA SenderFlow ==
    ASSUME BackInv, RestType, FlowInv, SenderAnswers \/ KeyArrives PROVE FlowInv'
<1> USE DEF FlowInv
<1>1. UNCHANGED <<backVars, link, events, row, meta, key, staged, sealed, act, blob, cut>>
  BY DEF SenderAnswers, KeyArrives, SameBack, frontVars, bounds
<1>2. KeyComing' <=> KeyComing
  BY <1>1 DEF KeyComing, SenderAnswers, KeyArrives, RunInv, RestType
<1>3. inbox' \in {inbox, inbox \cup {"key"}}
  BY DEF SenderAnswers, KeyArrives
<1>4. EntryInv'
  BY <1>1, <1>3 DEF EntryInv
<1>5. KeyInv'
  BY <1>1, <1>2, <1>3 DEF KeyInv, Locked, Held, SomeAt
<1>6. Keyed' <=> Keyed
  BY <1>1, <1>2 DEF Keyed, SomeAt
<1>7. FrontFlow
  BY <1>1, <1>6, SameEvents DEF FrontFlow, Fresh, Got, Held, SomeAt, Trace, Stamps, Pulling, Pending
<1>8. QED
  BY <1>4, <1>5, <1>7, FrontFlowKeeps

\* The stream is set up or breaks.
LEMMA LinkFlow ==
    ASSUME SealedInv, BackInv, RestType, FlowInv, Clean', Connect \/ Disconnect PROVE FlowInv'
<1> USE DEF FlowInv
<1>1. /\ UNCHANGED <<backVars, row, meta, key, staged, sealed, inbox, receipts, keyOut, blob>>
      /\ "full" \in cut => "full" \in cut'
  BY DEF Connect, Disconnect, frontVars, netVars, bounds, Unheard
<1>2. KeyComing' <=> KeyComing
  BY <1>1 DEF KeyComing
<1>3. CASE Connect
  <2>1. /\ act["sweep"].pc = "idle" /\ act["loop"].pc = "idle" /\ UNCHANGED events
        /\ act'["sweep"].pc = "list" /\ act'["sweep"].entry = act["sweep"].entry
        /\ act'["loop"] = act["loop"]
    BY <1>3, GotoEffect DEF Connect, Actors, Pcs
  <2>2. EntryInv'
    BY <1>1, <2>1 DEF EntryInv, Actors
  <2>3. KeyInv'
    BY <1>1, <1>2, <2>1 DEF KeyInv, Locked, Held, SomeAt, Actors
  <2>4. Keyed' <=> Keyed
    BY <1>1, <1>2, <2>1 DEF Keyed, SomeAt, Actors
  <2>5. FrontFlow
    BY <1>1, <2>1, <2>4, SameEvents DEF FrontFlow, Fresh, Got, Held, SomeAt, Trace, Stamps, Pulling,
       Pending, Actors, StampSteps
  <2>6. QED
    BY <2>2, <2>3, <2>5, FrontFlowKeeps
<1>4. CASE Disconnect
  <2>1. events' = <<>> /\ UNCHANGED act /\ cut' = Unheard(fetch, VerdictPending)
    BY <1>4 DEF Disconnect, frontVars
  <2>2. EntryInv'
    BY <1>1, <2>1 DEF EntryInv
  <2>3. KeyInv'
    BY <1>1, <1>2, <2>1 DEF KeyInv, Locked, Held, SomeAt
  <2>4. Keyed' <=> Keyed
    BY <1>1, <1>2, <2>1 DEF Keyed, SomeAt
  <2>5. \A t \in EventStates : ~Pending(t)'
    BY <2>1 DEF Pending
  <2>6. /\ Trace("failed_permanent")' => Trace("failed_permanent")
        /\ Trace("failed_transient")' => Trace("failed_transient")
    BY <1>1, <2>1, <2>5 DEF Trace, Stamps, EventStates, FetchStates
  <2>7. Pulling /\ fetch.state = "ready" /\ Trace("failed_transient") => Pulling'
    <3>1. Pending("ready") => ~(fetch.attempts > 0)
      BY <2>1 DEF Unheard, Clean, VerdictPending, Settled, Pending
    <3>2. QED
      BY <2>1, <3>1 DEF TraceInv, Pulling
  <2>8. FrontFlow
    BY <1>1, <2>1, <2>4, <2>5, <2>6, <2>7 DEF FrontFlow, Fresh, Got, Held, SomeAt, Stamps, EventStates, FetchStates
  <2>9. QED
    BY <2>2, <2>3, <2>8, FrontFlowKeeps
<1>5. QED
  BY <1>3, <1>4

\* A stop of the frontend: what is not taken up again is recorded.
LEMMA FrontStopFlow ==
    ASSUME SealedInv, BackInv, RestType, FlowInv, Clean', FrontStop PROVE FlowInv'
<1> USE DEF FlowInv
<1>1. /\ UNCHANGED <<backVars, row, meta, key, staged, sealed, receipts, keyOut, blob>>
      /\ inbox' = inbox \ {act["loop"].entry}
      /\ "full" \in cut => "full" \in cut'
      /\ events' = <<>>
      /\ \A a \in Actors : act'[a].pc = "idle" /\ act'[a].to = "none" /\ act'[a].entry = "none"
  BY DEF FrontStop, SameNet, bounds, Unheard, Idle
<1>2. /\ \A a \in Actors : TakenUp(a)
      /\ Pending("ready") => ~(fetch.attempts > 0)
  BY DEF FrontStop, Clean, Unheard, VerdictPending, Settled, Pending
<1>3. KeyComing' => KeyComing
  BY <1>1 DEF KeyComing
<1>4. \A t \in EventStates : ~Pending(t)'
  BY <1>1 DEF Pending
<1>5. "loop" \in Actors /\ act["loop"].pc \notin Asking
  BY <1>2 DEF Actors, TakenUp, Asking
<1>6. EntryInv'
  <2>1. meta = "none" => act["loop"].entry # "offer"
    BY <1>2, <1>5 DEF EntryInv, TakenUp
  <2>2. QED
    BY <1>1, <2>1 DEF EntryInv
<1>7. KeyInv'
  <2>1. ~SomeAt({"record"})
    BY <1>2 DEF SomeAt, TakenUp
  <2>2. QED
    BY <1>1, <1>3, <2>1 DEF KeyInv, Locked, Held, StampSteps
<1>8. Keyed => Keyed' \/ meta' = "ready"
  <2>1. ~SomeAt({"record"}) /\ ~SomeAt({"receipt"})
    BY <1>2 DEF SomeAt, TakenUp
  <2>2. ~(staged /\ key /\ SomeAt({"converge", "seal"}))
    BY <1>2 DEF SomeAt, TakenUp
  <2>3. act["loop"].entry = "key" => ~staged \/ meta = "ready"
    BY <1>2, <1>5 DEF EntryInv, TakenUp
  <2>4. staged /\ KeyComing => KeyComing' \/ meta = "ready"
    BY <1>1, <2>3 DEF KeyComing
  <2>5. QED
    BY <1>1, <2>1, <2>2, <2>4 DEF Keyed
<1>9. FrontFlow
  <2>1. /\ Trace("failed_permanent")' => meta = "failed_permanent"
        /\ Trace("failed_transient")' => meta = "failed_transient"
        /\ ~Stamps("awaiting_key")'
    BY <1>1, <1>4 DEF Trace, Stamps, EventStates, FetchStates
  <2>2. Pulling /\ fetch.state = "ready" /\ meta = "failed_transient" => FALSE
    <3>1. meta = "failed_transient" /\ fetch.state = "ready" => fetch.attempts > 0
      BY DEF TraceInv, Trace
    <3>2. meta = "failed_transient" => act["loop"].pc \notin {"pull", "write", "drop"}
      BY <1>2, <1>5 DEF TakenUp
    <3>3. QED
      BY <1>2, <3>1, <3>2 DEF Pulling
  <2>3. (Fresh' <=> Fresh) /\ (Got' => Got)
    BY <1>1, <1>5 DEF Fresh, Got, Held, SomeAt, Asking
  <2>4. QED
    BY <1>1, <1>4, <1>5, <1>8, <2>1, <2>2, <2>3 DEF FrontFlow, Trace, EventStates, FetchStates
<1>10. QED
  BY <1>6, <1>7, <1>9, FrontFlowKeeps

\* The sweep looks for rows it may have missed the event of.
LEMMA SweepFlow ==
    ASSUME SealedInv, BackInv, RestType, FlowInv, SweepList PROVE FlowInv'
<1> USE DEF FlowInv
<1>1. UNCHANGED <<backVars, events, row, meta, key, staged, sealed, inbox, receipts, keyOut, blob, cut>>
  BY DEF SweepList, SameFront, SameBack, netVars, bounds
<1>2. /\ act["sweep"].pc = "list" /\ act'["sweep"].pc \in {"pull", "idle"}
      /\ meta = "none" => act'["sweep"].pc = "idle"
      /\ act'["sweep"].entry = act["sweep"].entry /\ act'["loop"] = act["loop"]
  BY GotoEffect DEF SweepList, Actors, Pcs
<1>3. KeyComing' <=> KeyComing
  BY <1>1 DEF KeyComing
<1>4. EntryInv'
  BY <1>1, <1>2 DEF EntryInv, Actors
<1>5. KeyInv'
  BY <1>1, <1>2, <1>3 DEF KeyInv, Locked, Held, SomeAt, Actors
<1>6. Keyed' <=> Keyed
  BY <1>1, <1>2, <1>3 DEF Keyed, SomeAt, Actors
<1>7. FrontFlow
  BY <1>1, <1>2, <1>6, SameEvents DEF FrontFlow, Fresh, Got, Held, SomeAt, Trace, Stamps, Pulling,
     Pending, Actors, StampSteps
<1>8. QED
  BY <1>4, <1>5, <1>7, FrontFlowKeeps

\* The loop takes an entry; a key for a file nobody waits for is thrown away.
LEMMA TakeFlow ==
    ASSUME SealedInv, BackInv, RestType, FlowInv, NEW e \in {"offer", "key"}, TakeEntry(e) PROVE FlowInv'
<1> USE DEF FlowInv
<1>1. /\ UNCHANGED <<backVars, events, row, meta, key, staged, sealed, receipts, keyOut, blob, cut>>
      /\ act["loop"].pc = "idle" /\ e \in inbox
  BY DEF TakeEntry, SameFront, SameBack, SameNet, bounds
<1>2. CASE e = "key" /\ meta \in Settled \cup {"none"}
  <2>1. UNCHANGED act /\ inbox' = inbox \ {"key"}
    BY <1>2 DEF TakeEntry
  <2>2. act["loop"].entry = "none" /\ meta # "none"
    BY <1>1, <1>2 DEF EntryInv, KeyInv, KeyComing, Actors
  <2>3. meta = "ready" \/ ~Got
    BY <1>2, <2>2, GivenUp DEF Settled
  <2>4. EntryInv'
    BY <1>1, <2>1, <2>2 DEF EntryInv, Actors
  <2>5. KeyInv'
    <3>1. KeyComing' => KeyComing
      BY <1>1, <2>1 DEF KeyComing
    <3>2. meta = "ready" \/ \A a \in Actors : act[a].pc \notin {"converge", "await", "seal"}
      <4>1. act["loop"].pc \notin {"converge", "await", "seal"}
        BY <1>1
      <4>2. act["sweep"].entry # "key"
        BY DEF EntryInv, Actors
      <4>3. meta = "ready" \/ act["sweep"].pc \notin {"converge", "await", "seal"}
        BY <2>3, <4>2 DEF KeyInv, Got, Held, Actors
      <4>4. QED
        BY <4>1, <4>3 DEF Actors
    <3>3. QED
      BY <1>1, <2>1, <3>1, <3>2 DEF KeyInv, Locked, Held, SomeAt
  <2>6. Keyed => Keyed' \/ meta' = "ready"
    BY <1>1, <2>1, <2>3 DEF Keyed, SomeAt, Got, Held
  <2>7. FrontFlow
    BY <1>1, <2>1, <2>6, SameEvents DEF FrontFlow, Fresh, Got, Held, SomeAt, Trace, Stamps, Pulling, Pending
  <2>8. QED
    BY <2>4, <2>5, <2>7, FrontFlowKeeps
<1>3. CASE ~(e = "key" /\ meta \in Settled \cup {"none"})
  <2>1. /\ act' = [act EXCEPT !["loop"] = [pc |-> e, to |-> "none", entry |-> e]] /\ UNCHANGED inbox
    BY <1>3 DEF TakeEntry
  <2>2. /\ act'["loop"].pc = e /\ act'["loop"].to = "none" /\ act'["loop"].entry = e
        /\ act'["sweep"] = act["sweep"]
    BY <2>1 DEF SealedInv, Actors
  <2>3. KeyComing' <=> KeyComing
    BY <1>1, <2>1 DEF KeyComing
  <2>4. EntryInv'
    BY <1>1, <1>3, <2>1, <2>2 DEF EntryInv, Actors
  <2>5. KeyInv'
    BY <1>1, <2>2, <2>3 DEF KeyInv, Locked, Held, SomeAt, Actors
  <2>6. Keyed' <=> Keyed
    BY <1>1, <2>2, <2>3 DEF Keyed, SomeAt, Actors
  <2>7. FrontFlow
    BY <1>1, <2>2, <2>6, SameEvents DEF FrontFlow, Fresh, Asking, Got, Held, SomeAt, Trace, Stamps, Pulling,
       Pending, Actors, StampSteps
  <2>8. QED
    BY <2>4, <2>5, <2>7, FrontFlowKeeps
<1>4. QED
  BY <1>2, <1>3

\* ingestFileOffer up to the request, and ingestFileKey.
LEMMA IngestFlow ==
    ASSUME SealedInv, FrontInv, BackInv, RestType, FlowInv,
           OfferRow \/ OfferReceipt \/ KeyWritten
    PROVE  FlowInv'
<1> USE DEF FlowInv
<1>1. UNCHANGED <<backVars, events, meta, staged, sealed, inbox, keyOut, blob, cut>>
  BY DEF OfferRow, OfferReceipt, KeyWritten, SameFront, SameBack, netVars, bounds
<1>2. \/ act["loop"].pc = "offer" /\ act'["loop"].pc = "offerMeta" /\ UNCHANGED <<key, receipts>>
      \/ /\ act["loop"].pc = "offerReceipt" /\ act'["loop"].pc = "offerFetch" /\ UNCHANGED key
         /\ receipts' = receipts + 1
      \/ act["loop"].pc = "key" /\ act'["loop"].pc = "converge" /\ key' = TRUE /\ UNCHANGED receipts
  BY GotoEffect DEF OfferRow, OfferReceipt, KeyWritten, SameFront, netVars, Actors, Pcs
<1>3. act'["loop"].entry = act["loop"].entry /\ act'["sweep"] = act["sweep"]
  BY GotoEffect DEF OfferRow, OfferReceipt, KeyWritten, Actors, Pcs
<1>4. KeyComing => KeyComing'
  BY <1>1, <1>2 DEF KeyComing, RestType
<1>5. KeyComing' => KeyComing \/ meta # "none"
  BY <1>1, <1>2 DEF KeyComing, FrontInv, Asking
<1>6. key => key'
  BY <1>2
<1>7. EntryInv'
  BY <1>1, <1>2, <1>3 DEF EntryInv, Actors
<1>8. KeyInv'
  <2>1. act'["loop"].pc = "converge" => act'["loop"].entry = "key" /\ key'
    BY <1>2, <1>3 DEF EntryInv, Actors
  <2>2. act'["loop"].pc \notin {"receipt", "await", "seal", "record"} \cup StampSteps
    BY <1>2 DEF StampSteps
  <2>3. act["loop"].pc \notin {"receipt", "await", "seal", "record"}
    BY <1>2
  <2>4. QED
    BY <1>1, <1>3, <1>4, <1>5, <1>6, <2>1, <2>2, <2>3 DEF KeyInv, Locked, Held, SomeAt, Actors, StampSteps
<1>9. Keyed => Keyed'
  BY <1>1, <1>2, <1>3, <1>4, <1>6 DEF Keyed, SomeAt, Actors
<1>10. FrontFlow
  BY <1>1, <1>2, <1>3, <1>9, SameEvents DEF FrontFlow, Fresh, Asking, Got, Held, SomeAt, Trace, Stamps,
     Pulling, Pending, Actors, StampSteps
<1>11. QED
  BY <1>7, <1>8, <1>10, FrontFlowKeeps

\* The metadata of a new file, or the end of an offer delivered twice.
LEMMA OfferMetaFlow ==
    ASSUME SealedInv, FrontInv, BackInv, RestType, FlowInv, OfferMeta PROVE FlowInv'
<1> USE DEF FlowInv
<1>1. /\ UNCHANGED <<backVars, events, key, staged, sealed, receipts, keyOut, blob, cut>>
      /\ act["loop"].pc = "offerMeta"
  BY DEF OfferMeta, SameBack, SameNet, bounds
<1>2. act'["sweep"] = act["sweep"]
  BY GotoEffect, FinishEffect DEF OfferMeta, Actors, Pcs
<1>3. CASE meta = "none"
  <2>1. /\ meta' = "downloading" /\ UNCHANGED inbox
        /\ act'["loop"].pc = "offerReceipt" /\ act'["loop"].entry = act["loop"].entry
    BY <1>3, GotoEffect DEF OfferMeta, Actors, Pcs
  <2>2. KeyComing' <=> KeyComing
    BY <1>1, <2>1 DEF KeyComing
  <2>3. EntryInv'
    BY <1>1, <1>2, <1>3, <2>1 DEF EntryInv, Actors
  <2>4. KeyInv'
    BY <1>1, <1>2, <1>3, <2>1, <2>2 DEF KeyInv, Locked, Held, SomeAt, Actors
  <2>5. Keyed' <=> Keyed
    BY <1>1, <1>2, <2>1, <2>2 DEF Keyed, SomeAt, Actors
  <2>6. FrontFlow
    BY <1>1, <1>2, <1>3, <2>1, <2>5, SameEvents DEF FrontFlow, Fresh, Asking, Got, Held, SomeAt, Trace,
       Stamps, Pulling, Pending, Actors, StampSteps
  <2>7. QED
    BY <2>3, <2>4, <2>6, FrontFlowKeeps
<1>4. CASE meta # "none"
  <2>1. /\ UNCHANGED meta /\ inbox' = inbox \ {act["loop"].entry}
        /\ act'["loop"].pc = "idle" /\ act'["loop"].entry = "none"
    BY <1>4, FinishEffect DEF OfferMeta, Actors
  <2>2. act["loop"].entry = "key" => meta = "ready"
    BY <1>1 DEF EntryInv, Actors
  <2>3. act["sweep"].entry = "none"
    BY DEF EntryInv, Actors
  <2>4. (KeyComing => KeyComing' \/ meta = "ready") /\ (KeyComing' => KeyComing)
    BY <1>1, <2>1, <2>2 DEF KeyComing
  <2>5. EntryInv'
    BY <1>1, <1>2, <1>4, <2>1, <2>3 DEF EntryInv, Actors
  <2>6. KeyInv'
    BY <1>1, <1>2, <1>4, <2>1, <2>4 DEF KeyInv, Locked, Held, SomeAt, Actors
  <2>7. Keyed => Keyed' \/ meta' = "ready"
    BY <1>1, <1>2, <2>1, <2>4 DEF Keyed, SomeAt, Actors
  <2>8. FrontFlow
    BY <1>1, <1>2, <1>4, <2>1, <2>7, SameEvents DEF FrontFlow, Fresh, Asking, Got, Held, SomeAt, Trace,
       Stamps, Pulling, Pending, Actors, StampSteps
  <2>9. QED
    BY <2>5, <2>6, <2>8, FrontFlowKeeps
<1>5. QED
  BY <1>3, <1>4

\* The request for the download, when the backend knows nothing of the file.
LEMMA OfferFetchFlow ==
    ASSUME SealedInv, FrontInv, BackInv, RestType, FlowInv, Clean', OfferFetch PROVE FlowInv'
<1> USE DEF FlowInv
<1>1. /\ UNCHANGED <<part, final, job, retry, backUp, events, row, meta, key, staged, sealed, receipts, keyOut, blob>>
      /\ act["loop"].pc = "offerFetch" /\ backUp /\ Finish("loop")
      /\ fetch' = PutFetch(fetch, final)
      /\ IF fetch' # fetch THEN Kick ELSE UNCHANGED <<queue, trouble, cut>>
  BY DEF OfferFetch, SameFront, SameNet, Clean
<1>2. Fresh /\ Untouched /\ fetch = NoFetch /\ meta # "none"
  BY <1>1 DEF Fresh, Asking, BackInv, Untouched, FrontInv
<1>3. fetch'.state = "pending" /\ fetch'.attempts = 0 /\ ~fetch'.kicked
  BY <1>1, <1>2 DEF PutFetch, InFlight, NoFetch
<1>4. Kick
  BY <1>1, <1>2, <1>3, FetchRows
<1>5. ~Got /\ ~final /\ ~Pending("ready") /\ ~Trace("failed_permanent") /\ ~Trace("failed_transient")
  BY <1>1, <1>2, FetchRows, RowEffects DEF GotInv, FileInv, TraceInv, Untouched
<1>6. /\ act'["loop"].pc = "idle" /\ act'["loop"].entry = "none"
      /\ act'["sweep"] = act["sweep"] /\ inbox' = inbox \ {act["loop"].entry}
  BY <1>1, FinishEffect DEF Actors
<1>7. RunInv'
  <2>1. queue' > 0 \/ "full" \in cut'
    BY <1>4, FileTransferAssumption DEF Kick, BackInv, BackType
  <2>2. QED
    BY <1>1, <1>2, <1>3, <2>1 DEF RunInv, Streaming, Counted, Untouched
<1>8. FileInv'
  BY <1>1, <1>2, <1>3, <1>5 DEF FileInv, Untouched
<1>9. ~Got' /\ ~Pending("ready")' /\ ~Trace("failed_permanent")' /\ ~Trace("failed_transient")'
  BY <1>1, <1>5, <1>6 DEF Got, Held, SomeAt, Trace, Stamps, Pending, Actors, StampSteps
<1>10. GotInv' /\ TraceInv'
  BY <1>6, <1>9 DEF GotInv, TraceInv
<1>11. act["sweep"].entry = "none" /\ (act["loop"].entry = "key" => meta = "ready")
  BY <1>1 DEF EntryInv, Actors
<1>12. EntryInv'
  BY <1>1, <1>2, <1>6, <1>11 DEF EntryInv, Actors
<1>13. (KeyComing => KeyComing' \/ meta = "ready") /\ (KeyComing' => KeyComing)
  BY <1>1, <1>6, <1>11 DEF KeyComing
<1>14. KeyInv'
  BY <1>1, <1>2, <1>6, <1>13 DEF KeyInv, Locked, Held, SomeAt, Actors
<1>15. Keyed => Keyed' \/ meta' = "ready"
  BY <1>1, <1>6, <1>13 DEF Keyed, SomeAt, Actors
<1>16. Stamps("awaiting_key")' => Stamps("awaiting_key")
  BY <1>6 DEF Stamps, Actors, StampSteps
<1>17. RestInv'
  BY <1>1, <1>3, <1>15, <1>16 DEF RestInv
<1>18. QED
  BY <1>7, <1>8, <1>10, <1>12, <1>14, <1>17

\* The first event leaves the stream.
LEMMA TailEffect ==
    ASSUME SealedInv, events # <<>>, events' = Tail(events)
    PROVE  /\ Head(events) \in EventStates /\ Pending(Head(events))
           /\ \A t \in EventStates : (Pending(t)' => Pending(t)) /\ (Pending(t) => Pending(t)' \/ Head(events) = t)
<1>1. /\ Len(events) \in Nat /\ Len(events) > 0 /\ DOMAIN events = 1..Len(events)
      /\ Head(events) = events[1] /\ DOMAIN events' = 1..(Len(events) - 1)
      /\ \A i \in 1..(Len(events) - 1) : events'[i] = events[i + 1]
      /\ \A i \in 1..Len(events) : events[i] \in EventStates
  BY DEF SealedInv
<1>2. 1 \in DOMAIN events
  BY <1>1
<1>3. ASSUME NEW t, Pending(t)' PROVE Pending(t)
  BY <1>1, <1>3 DEF Pending
<1>4. ASSUME NEW t, Pending(t) PROVE Pending(t)' \/ Head(events) = t
  <2>1. PICK i \in 1..Len(events) : events[i] = t
    BY <1>1, <1>4 DEF Pending
  <2>2. CASE i = 1
    BY <1>1, <2>1, <2>2
  <2>3. CASE i > 1
    <3>1. i - 1 \in 1..(Len(events) - 1) /\ events'[i - 1] = events[i]
      BY <1>1, <2>1, <2>3
    <3>2. QED
      BY <1>1, <2>1, <3>1 DEF Pending
  <2>4. QED
    BY <2>2, <2>3
<1>5. QED
  BY <1>1, <1>2, <1>3, <1>4 DEF Pending

\* An event is handled.
LEMMA EventFlow ==
    ASSUME SealedInv, FrontInv, BackInv, RestType, FlowInv, HandleEvent PROVE FlowInv'
<1> USE DEF FlowInv
<1>1. /\ UNCHANGED <<backVars, row, meta, key, staged, sealed, inbox, receipts, keyOut, blob, cut>>
      /\ act["loop"].pc = "idle" /\ events # <<>> /\ events' = Tail(events) /\ meta # "none"
  BY DEF HandleEvent, SameFront, netVars, bounds, EntryInv
<1>2. PICK s \in EventStates : s = Head(events)
  BY <1>1, TailEffect
<1>3. Pending(s) /\ \A t \in EventStates : (Pending(t)' => Pending(t)) /\ (Pending(t) => Pending(t)' \/ s = t)
  BY <1>1, <1>2, TailEffect
<1>4. /\ act'["loop"].entry = act["loop"].entry /\ act'["sweep"] = act["sweep"]
      /\ \/ s # "ready" /\ act'["loop"].pc = "idle"
         \/ s = "ready" /\ act'["loop"].pc = "pull"
         \/ s # "ready" /\ act'["loop"].pc = "stamp" /\ act'["loop"].to = s
  <2>1. s \in FileStates
    BY <1>2 DEF EventStates, FileStates
  <2>2. \/ s = "ready" /\ Goto("loop", "pull")
        \/ s # "ready" /\ UNCHANGED act
        \/ s # "ready" /\ Stamp("loop", s)
    BY <1>2 DEF HandleEvent
  <2>3. QED
    BY <1>1, <2>1, <2>2, GotoEffect, StampEffect DEF Actors, Pcs
<1>5. act["loop"].entry = "none"
  BY <1>1 DEF EntryInv, Actors
<1>6. s # "awaiting_key"
  BY <1>2 DEF EventStates, FetchStates
<1>7. KeyComing' <=> KeyComing
  BY <1>1 DEF KeyComing
<1>8. EntryInv'
  BY <1>1, <1>4, <1>5 DEF EntryInv, Actors
<1>9. KeyInv'
  BY <1>1, <1>4, <1>6, <1>7 DEF KeyInv, Locked, Held, SomeAt, Actors
<1>10. Keyed' <=> Keyed
  BY <1>1, <1>4, <1>7 DEF Keyed, SomeAt, Actors
<1>11. FrontFlow
  <2>1. \A t \in EventStates : Trace(t)' => Trace(t)
    BY <1>1, <1>3, <1>4 DEF Trace, Stamps, Actors, StampSteps
  <2>2. Stamps("awaiting_key")' => Stamps("awaiting_key")
    BY <1>4, <1>6 DEF Stamps, Actors, StampSteps
  <2>3. Pulling => Pulling'
    BY <1>1, <1>3, <1>4 DEF Pulling, EventStates, FetchStates
  <2>4. Pending("ready")' \/ act'["loop"].pc = "pull" => Pending("ready")
    BY <1>3, <1>4 DEF EventStates, FetchStates
  <2>5. (Fresh' <=> Fresh) /\ (Got' <=> Got)
    BY <1>1, <1>4 DEF Fresh, Asking, Got, Held, SomeAt, Actors
  <2>6. QED
    BY <1>1, <1>10, <2>1, <2>2, <2>3, <2>4, <2>5 DEF FrontFlow, EventStates, FetchStates
<1>12. QED
  BY <1>8, <1>9, <1>11, FrontFlowKeeps

\* The blob is read, or the pull fails.
LEMMA PullFlow ==
    ASSUME SealedInv, FrontInv, BackInv, RestType, FlowInv, Clean', NEW a \in Actors, Pull(a) PROVE FlowInv'
<1> USE DEF FlowInv
<1>1. /\ UNCHANGED <<backVars, events, row, meta, key, staged, sealed, inbox, receipts, keyOut, blob>>
      /\ act[a].pc = "pull" /\ ("full" \in cut => "full" \in cut')
  BY DEF Pull, SameFront, SameBack, netVars
<1>2. \/ backUp /\ final /\ Goto(a, "write")
      \/ a = "loop" /\ backUp /\ ~final /\ Stamp(a, "failed_transient")
      \/ a = "sweep" /\ Goto(a, "idle")
  BY DEF Pull, Clean, Actors
<1>3. /\ act'[a].entry = act[a].entry /\ \A b \in Actors : b # a => act'[b] = act[b]
      /\ \/ backUp /\ final /\ act'[a].pc = "write"
         \/ a = "loop" /\ backUp /\ ~final /\ act'[a].pc = "stamp" /\ act'[a].to = "failed_transient"
         \/ a = "sweep" /\ act'[a].pc = "idle"
  BY <1>2, GotoEffect, StampEffect DEF Pcs, FileStates, FetchStates
<1>4. meta # "none" /\ (a = "sweep" => act[a].entry = "none")
  BY <1>1 DEF EntryInv
<1>5. KeyComing' <=> KeyComing
  BY <1>1 DEF KeyComing
<1>6. EntryInv'
  BY <1>1, <1>3, <1>4 DEF EntryInv
<1>7. KeyInv'
  BY <1>1, <1>3, <1>4, <1>5 DEF KeyInv, Locked, Held, SomeAt
<1>8. Keyed => Keyed'
  BY <1>1, <1>3, <1>5 DEF Keyed, SomeAt
<1>9. FrontFlow
  <2>1. a = "loop" => (fetch.state = "none" /\ ~Fresh) \/ (fetch.state = "ready" /\ final)
    BY <1>1 DEF GotInv, FileInv
  <2>2. Trace("failed_permanent")' => Trace("failed_permanent")
    BY <1>1, <1>3, SameEvents DEF Trace, Stamps, StampSteps, Pending
  <2>3. Trace("failed_transient")' => Trace("failed_transient") \/ (fetch.state = "none" /\ ~Fresh)
    BY <1>1, <1>3, <2>1, SameEvents DEF Trace, Stamps, StampSteps, Pending
  <2>4. Stamps("awaiting_key")' => Stamps("awaiting_key")
    BY <1>3 DEF Stamps, StampSteps
  <2>5. (Fresh' <=> Fresh) /\ (Got' => Got \/ (backUp /\ final))
    BY <1>1, <1>3 DEF Fresh, Asking, Got, Held, SomeAt, Actors
  <2>6. Pending("ready")' \/ act'["loop"].pc = "pull" => Pending("ready") \/ act["loop"].pc = "pull"
    BY <1>1, <1>3 DEF Pending, Actors
  <2>7. Pulling /\ fetch.state = "ready" => Pulling'
    BY <1>1, <1>3, <2>1 DEF Pulling, Pending, Actors
  <2>8. QED
    BY <1>1, <1>8, <2>2, <2>3, <2>4, <2>5, <2>6, <2>7 DEF FrontFlow
<1>10. QED
  BY <1>6, <1>7, <1>9, FrontFlowKeeps

\* The bytes are written, and after the drop the key is asked for.
LEMMA WriteFlow ==
    ASSUME SealedInv, FrontInv, BackInv, RestType, FlowInv, NEW a \in Actors,
           PullWrites(a) \/ PostPullReceipt(a)
    PROVE  FlowInv'
<1> USE DEF FlowInv
<1>1. UNCHANGED <<backVars, events, meta, key, sealed, inbox, keyOut, blob, cut>>
  BY DEF PullWrites, PostPullReceipt, SameFront, SameBack, netVars, bounds
<1>2. /\ act'[a].entry = act[a].entry /\ \A b \in Actors : b # a => act'[b] = act[b]
      /\ \/ act[a].pc = "write" /\ act'[a].pc = "drop" /\ staged' = TRUE /\ UNCHANGED receipts
         \/ /\ act[a].pc = "receipt" /\ act'[a].pc = "converge" /\ UNCHANGED staged
            /\ receipts' = IF key THEN receipts ELSE receipts + 1
  BY GotoEffect DEF PullWrites, PostPullReceipt, SameFront, netVars, Pcs
<1>3. meta # "none"
  BY <1>2 DEF EntryInv
<1>4. /\ KeyComing => KeyComing'
      /\ act[a].pc = "receipt" => key \/ KeyComing'
  BY <1>1, <1>2 DEF KeyComing, RestType
<1>5. (staged => staged') /\ (Held => Held')
  BY <1>1, <1>2 DEF Held
<1>6. EntryInv'
  BY <1>1, <1>2, <1>3 DEF EntryInv
<1>7. KeyInv'
  BY <1>1, <1>2, <1>3, <1>4, <1>5 DEF KeyInv, Locked, SomeAt
<1>8. Keyed => Keyed'
  BY <1>1, <1>2, <1>4, <1>5 DEF Keyed, SomeAt
<1>9. FrontFlow
  <2>1. \A s \in FileStates : Trace(s)' => Trace(s)
    BY <1>1, <1>2 DEF Trace, Stamps, StampSteps, Pending
  <2>2. Stamps("awaiting_key")' => Stamps("awaiting_key")
    BY <1>2 DEF Stamps, StampSteps
  <2>3. (Fresh' <=> Fresh) /\ (Got' => Got)
    BY <1>1, <1>2 DEF Fresh, Asking, Got, Held, SomeAt, Actors
  <2>4. Pending("ready")' \/ act'["loop"].pc = "pull" => Pending("ready") \/ act["loop"].pc = "pull"
    BY <1>1, <1>2 DEF Pending, Actors
  <2>5. Pulling => Pulling'
    BY <1>1, <1>2 DEF Pulling, Pending, Actors
  <2>6. QED
    BY <1>1, <1>8, <2>1, <2>2, <2>3, <2>4, <2>5 DEF FrontFlow, FileStates, FetchStates
<1>10. QED
  BY <1>6, <1>7, <1>9, FrontFlowKeeps

\* The drop: the backend forgets a file that the frontend holds.
LEMMA DropFlow ==
    ASSUME SealedInv, FrontInv, BackInv, RestType, FlowInv, NEW a \in Actors, PullDrops(a) PROVE FlowInv'
<1> USE DEF FlowInv
<1>1. /\ UNCHANGED <<queue, job, retry, backUp, events, row, meta, key, staged, sealed, inbox, receipts, keyOut, blob, cut>>
      /\ act[a].pc = "drop" /\ act'[a].pc = "receipt" /\ act'[a].entry = act[a].entry
      /\ \A b \in Actors : b # a => act'[b] = act[b]
  BY GotoEffect DEF PullDrops, SameFront, netVars, bounds, Pcs
<1>2. /\ Held /\ Held' /\ Got /\ ~Fresh /\ meta # "none"
      /\ fetch.state \in {"downloading", "ready", "none"}
  BY <1>1 DEF FrontInv, HasBytes, Held, Got, GotInv, EntryInv
<1>3. ~Fresh'
  BY <1>1, <1>2 DEF Fresh, Asking, Actors
<1>4. KeyComing' <=> KeyComing
  BY <1>1 DEF KeyComing
<1>5. EntryInv'
  BY <1>1, <1>2 DEF EntryInv
<1>6. KeyInv'
  BY <1>1, <1>2, <1>4 DEF KeyInv, Locked, Held, SomeAt
<1>7. Keyed' \/ meta' = "ready"
  BY <1>1, <1>2 DEF Keyed, SomeAt, KeyInv, Held
<1>8. /\ Trace("failed_permanent")' => Trace("failed_permanent")
      /\ Trace("failed_transient")' => Trace("failed_transient")
      /\ Pending("ready")' \/ act'["loop"].pc = "pull" => Pending("ready") \/ act["loop"].pc = "pull"
  BY <1>1 DEF Trace, Stamps, StampSteps, Pending, Actors
<1>9. RestInv'
  BY <1>7 DEF RestInv
<1>10. CASE backUp /\ Droppable(fetch)
  <2>1. fetch' = NoFetch /\ final' = FALSE /\ part' = "none" /\ ~InFlight(fetch)
    BY <1>10 DEF PullDrops, Droppable
  <2>2. ~Streaming /\ \A r \in Retriers : retry[r].pc # "wipe"
    BY <1>2, <2>1 DEF RunInv, InFlight
  <2>3. RunInv'
    BY <1>1, <2>1, <2>2, FetchRows, RowEffects DEF RunInv, Streaming, Counted, InFlight
  <2>4. FileInv'
    BY <1>1, <2>1, <2>2, FetchRows DEF FileInv, Streaming
  <2>5. GotInv'
    BY <1>3, <2>1, FetchRows DEF GotInv
  <2>6. TraceInv'
    BY <1>2, <1>3, <1>8, <2>1, FetchRows DEF TraceInv
  <2>7. QED
    BY <1>5, <1>6, <1>9, <2>3, <2>4, <2>5, <2>6
<1>11. CASE ~(backUp /\ Droppable(fetch))
  <2>1. UNCHANGED <<fetch, final, part>>
    BY <1>11 DEF PullDrops
  <2>2. RunInv'
    BY <1>1, <2>1 DEF RunInv, Streaming, Counted
  <2>3. FileInv'
    BY <1>1, <2>1 DEF FileInv
  <2>4. Assured' <=> Assured
    BY <1>1, <2>1 DEF Assured
  <2>5. GotInv'
    BY <1>2, <1>3, <1>8, <2>1, <2>4 DEF GotInv
  <2>6. TraceInv'
    BY <1>3, <1>8, <2>1 DEF TraceInv
  <2>7. QED
    BY <1>5, <1>6, <1>9, <2>2, <2>3, <2>5, <2>6
<1>12. QED
  BY <1>10, <1>11

\* An entry is deleted at the end of its handling: the offer once there is
\* metadata, the key once it is written.
LEMMA FinishEntry ==
    ASSUME SealedInv, FlowInv, NEW a \in Actors, Finish(a), act[a].pc \notin {"key", "offer"},
           UNCHANGED <<receipts, keyOut>>, meta # "none", meta' # "none",
           meta' = meta \/ meta # "ready", (key /\ ~key') => meta' = "ready"
    PROVE  /\ EntryInv'
           /\ KeyComing' => KeyComing
           /\ KeyComing => KeyComing' \/ meta = "ready" \/ (key /\ act[a].pc \in {"converge", "seal", "record"})
<1> USE DEF FlowInv
<1>1. /\ act'[a].pc = "idle" /\ act'[a].entry = "none" /\ inbox' = inbox \ {act[a].entry}
      /\ \A b \in Actors : b # a => act'[b] = act[b]
  BY FinishEffect
<1>2. \A b \in Actors : b # a => act[a].entry = "none" \/ act[b].entry = "none"
  BY DEF EntryInv
<1>3. EntryInv'
  BY <1>1, <1>2 DEF EntryInv
<1>4. KeyComing' => KeyComing
  BY <1>1 DEF KeyComing
<1>5. KeyComing => KeyComing' \/ act[a].entry = "key"
  BY <1>1 DEF KeyComing
<1>6. QED
  BY <1>3, <1>4, <1>5 DEF EntryInv

\* convergeFileReady takes the file's lock and looks at what is here.
LEMMA ConvergeFlow ==
    ASSUME SealedInv, FrontInv, BackInv, RestType, FlowInv, NEW a \in Actors, Converge(a) PROVE FlowInv'
<1> USE DEF FlowInv
<1>1. /\ UNCHANGED <<backVars, events, row, meta, key, staged, sealed, receipts, keyOut, blob, cut>>
      /\ act[a].pc = "converge" /\ meta # "none"
      /\ \A b \in Actors : b # a => ~Locked(b)
  BY DEF Converge, SameFront, SameBack, SameNet, bounds, MayConverge, EntryInv
<1>2. \/ meta \notin Settled /\ staged /\ key /\ Goto(a, "seal") /\ UNCHANGED inbox
      \/ meta \notin Settled /\ staged /\ ~key /\ Goto(a, "await") /\ UNCHANGED inbox
      \/ Finish(a) /\ (meta \in Settled \/ ~staged \/ ~key)
  BY DEF Converge
<1>3. /\ \A b \in Actors : b # a => act'[b] = act[b]
      /\ act'[a].pc \in {"seal", "await", "idle"}
  BY <1>2, GotoEffect, FinishEffect DEF Pcs
<1>4. EntryInv' /\ KeyInv' /\ (Keyed => Keyed' \/ meta' = "ready")
  <2>1. CASE meta \notin Settled /\ staged /\ key /\ Goto(a, "seal") /\ UNCHANGED inbox
    <3>1. act'[a].pc = "seal" /\ act'[a].entry = act[a].entry
      BY <2>1, GotoEffect DEF Pcs
    <3>2. KeyComing' <=> KeyComing
      BY <1>1, <2>1 DEF KeyComing
    <3>3. EntryInv'
      BY <1>1, <1>3, <2>1, <3>1 DEF EntryInv
    <3>4. KeyInv'
      BY <1>1, <1>3, <2>1, <3>1, <3>2 DEF KeyInv, Locked, Held, SomeAt
    <3>5. Keyed'
      BY <1>1, <2>1, <3>1 DEF Keyed, SomeAt
    <3>6. QED
      BY <3>3, <3>4, <3>5
  <2>2. CASE meta \notin Settled /\ staged /\ ~key /\ Goto(a, "await") /\ UNCHANGED inbox
    <3>1. act'[a].pc = "await" /\ act'[a].entry = act[a].entry
      BY <2>2, GotoEffect DEF Pcs
    <3>2. KeyComing /\ KeyComing' /\ act[a].entry # "key"
      BY <1>1, <2>2 DEF KeyComing, KeyInv, EntryInv, Settled
    <3>3. EntryInv'
      BY <1>1, <1>3, <2>2, <3>1, <3>2 DEF EntryInv
    <3>4. KeyInv'
      BY <1>1, <1>3, <2>2, <3>1, <3>2 DEF KeyInv, Locked, Held, SomeAt
    <3>5. Keyed'
      BY <1>1, <2>2, <3>2 DEF Keyed
    <3>6. QED
      BY <3>3, <3>4, <3>5
  <2>3. CASE Finish(a) /\ (meta \in Settled \/ ~staged \/ ~key)
    <3>1. act'[a].pc = "idle"
      BY <2>3, FinishEffect
    <3>2. /\ EntryInv' /\ (KeyComing' => KeyComing)
          /\ KeyComing => KeyComing' \/ meta = "ready" \/ key
      BY <1>1, <2>3, FinishEntry
    <3>3. KeyInv'
      BY <1>1, <1>3, <3>1, <3>2 DEF KeyInv, Locked, Held, SomeAt
    <3>4. meta = "ready" \/ ~staged \/ ~key
      BY <2>3, GivenUp DEF Settled, Got, Held
    <3>5. Keyed => Keyed' \/ meta' = "ready"
      BY <1>1, <1>3, <3>1, <3>2, <3>4 DEF Keyed, SomeAt
    <3>6. QED
      BY <3>2, <3>3, <3>5
  <2>4. QED
    BY <1>2, <2>1, <2>2, <2>3
<1>5. FrontFlow
  <2>1. \A s \in FileStates : (Trace(s)' => Trace(s)) /\ (Stamps(s)' => Stamps(s))
    BY <1>1, <1>3 DEF Trace, Stamps, StampSteps, Pending
  <2>2. (Fresh' <=> Fresh) /\ (Got' => Got)
    BY <1>1, <1>3 DEF Fresh, Asking, Got, Held, SomeAt, Actors
  <2>3. Pending("ready")' \/ act'["loop"].pc = "pull" => Pending("ready") \/ act["loop"].pc = "pull"
    BY <1>1, <1>3 DEF Pending, Actors
  <2>4. Pulling => Pulling'
    BY <1>1, <1>3 DEF Pulling, Pending, Actors
  <2>5. QED
    BY <1>1, <1>4, <2>1, <2>2, <2>3, <2>4 DEF FrontFlow, FileStates, FetchStates
<1>6. QED
  BY <1>4, <1>5, FrontFlowKeeps

\* DecryptSealMove moves the bytes under the lock.
LEMMA SealFlow ==
    ASSUME SealedInv, FrontInv, BackInv, RestType, FlowInv, NEW a \in Actors, Seal(a) PROVE FlowInv'
<1> USE DEF FlowInv
<1>1. /\ UNCHANGED <<backVars, events, row, meta, key, inbox, receipts, keyOut, blob, cut>>
      /\ act[a].pc = "seal" /\ sealed' = TRUE /\ staged' = FALSE
      /\ act'[a].pc = "record" /\ act'[a].entry = act[a].entry
      /\ \A b \in Actors : b # a => act'[b] = act[b]
  BY GotoEffect DEF Seal, SameBack, netVars, bounds, Pcs
<1>2. /\ Held /\ Held' /\ meta # "none"
      /\ \A b \in Actors : b # a => ~Locked(b)
  BY <1>1 DEF KeyInv, SealedInv, Held, EntryInv, Locked
<1>3. KeyComing' <=> KeyComing
  BY <1>1 DEF KeyComing
<1>4. EntryInv'
  BY <1>1 DEF EntryInv
<1>5. KeyInv'
  BY <1>1, <1>2, <1>3 DEF KeyInv, Locked, SomeAt
<1>6. Keyed'
  BY <1>1 DEF Keyed, SomeAt
<1>7. FrontFlow
  <2>1. \A s \in FileStates : (Trace(s)' => Trace(s))
    BY <1>1 DEF Trace, Stamps, StampSteps, Pending
  <2>2. (Fresh' <=> Fresh) /\ (Got' => Got)
    BY <1>1, <1>2 DEF Fresh, Asking, Got, Actors
  <2>3. Pending("ready")' \/ act'["loop"].pc = "pull" => Pending("ready") \/ act["loop"].pc = "pull"
    BY <1>1 DEF Pending, Actors
  <2>4. QED
    BY <1>1, <1>6, <2>1, <2>2, <2>3 DEF FrontFlow, FileStates, FetchStates
<1>8. QED
  BY <1>4, <1>5, <1>7, FrontFlowKeeps

\* The metadata reads ready from here on.
LEMMA RecordFlow ==
    ASSUME SealedInv, FrontInv, BackInv, RestType, FlowInv, NEW a \in Actors, Record(a) PROVE FlowInv'
<1> USE DEF FlowInv
<1>1. /\ UNCHANGED <<backVars, events, row, staged, sealed, inbox, receipts, keyOut, blob, cut>>
      /\ act[a].pc = "record" /\ meta' = "ready" /\ meta # "none"
      /\ act'[a].pc = "stamp" /\ act'[a].to = "ready" /\ act'[a].entry = act[a].entry
      /\ \A b \in Actors : b # a => act'[b] = act[b]
  BY StampEffect DEF Record, SameBack, netVars, bounds, EntryInv, FileStates, FetchStates
<1>2. EntryInv'
  BY <1>1 DEF EntryInv
<1>3. KeyInv'
  BY <1>1 DEF KeyInv, Locked, Held, SomeAt
<1>4. FrontFlow
  <2>1. \A s \in FileStates \ {"ready"} : (Trace(s)' => Trace(s)) /\ (Stamps(s)' => Stamps(s))
    BY <1>1 DEF Trace, Stamps, StampSteps, Pending
  <2>2. (Fresh' <=> Fresh) /\ (Got' => Got)
    BY <1>1 DEF Fresh, Asking, Got, Held, SomeAt, Actors
  <2>3. Pending("ready")' \/ act'["loop"].pc = "pull" => Pending("ready") \/ act["loop"].pc = "pull"
    BY <1>1 DEF Pending, Actors
  <2>4. QED
    BY <1>1, <2>1, <2>2, <2>3 DEF FrontFlow, FileStates, FetchStates
<1>5. QED
  BY <1>2, <1>3, <1>4, FrontFlowKeeps

\* A file without its key waits for it.
LEMMA AwaitFlow ==
    ASSUME SealedInv, FrontInv, BackInv, RestType, FlowInv, NEW a \in Actors, AwaitKey(a) PROVE FlowInv'
<1> USE DEF FlowInv
<1>1. /\ UNCHANGED <<backVars, events, row, key, staged, sealed, receipts, keyOut, blob, cut>>
      /\ act[a].pc = "await" /\ meta # "none"
  BY DEF AwaitKey, SameBack, SameNet, bounds, EntryInv
<1>2. meta # "ready" => KeyComing /\ staged /\ Got /\ meta # "failed_permanent"
  BY <1>1, GivenUp DEF KeyInv, Got, Held
<1>3. /\ \A b \in Actors : b # a => act'[b] = act[b]
      /\ act'[a].pc \in {"idle", "stamp"}
      /\ act'[a].pc = "stamp" => act'[a].to = "awaiting_key"
  BY StampEffect, FinishEffect DEF AwaitKey, FileStates
<1>4. EntryInv' /\ KeyInv' /\ (meta' = "ready" \/ Keyed') /\ (meta = "ready" => meta' = "ready")
      /\ meta' \in {meta, "awaiting_key"}
  <2>1. CASE meta = "ready"
    <3>1. Finish(a) /\ meta' = meta /\ act'[a].pc = "idle"
      BY <2>1, FinishEffect DEF AwaitKey, Settled
    <3>2. /\ EntryInv' /\ (KeyComing' => KeyComing)
      BY <1>1, <3>1, FinishEntry
    <3>3. KeyInv'
      BY <1>1, <1>3, <2>1, <3>1, <3>2 DEF KeyInv, Locked, Held, SomeAt
    <3>4. QED
      BY <2>1, <3>1, <3>2, <3>3
  <2>2. CASE meta # "ready"
    <3>1. /\ meta' = "awaiting_key" /\ UNCHANGED inbox /\ act'[a].pc = "stamp" /\ act'[a].to = "awaiting_key"
          /\ act'[a].entry = act[a].entry
      BY <1>2, <2>2, StampEffect DEF AwaitKey, Settled, FileStates
    <3>2. KeyComing' /\ act[a].entry # "key"
      BY <1>1, <1>2, <2>2, <3>1 DEF KeyComing, EntryInv
    <3>3. EntryInv'
      BY <1>1, <1>3, <2>2, <3>1, <3>2 DEF EntryInv
    <3>4. KeyInv'
      BY <1>1, <1>2, <1>3, <2>2, <3>1, <3>2 DEF KeyInv, Locked, Held, SomeAt
    <3>5. Keyed'
      BY <1>1, <1>2, <2>2, <3>2 DEF Keyed
    <3>6. QED
      BY <2>2, <3>1, <3>3, <3>4, <3>5
  <2>3. QED
    BY <2>1, <2>2
<1>5. FrontFlow
  <2>1. \A s \in FileStates \ {"awaiting_key"} : Trace(s)' => Trace(s)
    BY <1>1, <1>3, <1>4 DEF Trace, Stamps, StampSteps, Pending
  <2>2. (Fresh' <=> Fresh) /\ (Got' => Got)
    BY <1>1, <1>3, <1>4 DEF Fresh, Asking, Got, Held, SomeAt, Actors
  <2>3. Pending("ready")' \/ act'["loop"].pc = "pull" => Pending("ready") \/ act["loop"].pc = "pull"
    BY <1>1, <1>3 DEF Pending, Actors
  <2>4. Stamps("awaiting_key")' => Stamps("awaiting_key") \/ Keyed'
    <3>1. meta' = "ready" => act'[a].pc = "idle"
      BY <1>1, <1>4, FinishEffect DEF AwaitKey, Settled
    <3>2. QED
      BY <1>3, <1>4, <3>1 DEF Stamps, StampSteps
  <2>5. meta' = "awaiting_key" => Keyed'
    BY <1>4
  <2>6. QED
    BY <1>1, <1>4, <2>1, <2>2, <2>3, <2>4, <2>5 DEF FrontFlow, FileStates, FetchStates
<1>6. QED
  BY <1>4, <1>5, FrontFlowKeeps

\* stampFileEventState: the message, then the metadata.
LEMMA StampFlow ==
    ASSUME SealedInv, FrontInv, BackInv, RestType, FlowInv, NEW a \in Actors,
           StampReads(a) \/ StampWritesRow(a) \/ StampWritesMeta(a)
    PROVE  FlowInv'
<1> USE DEF FlowInv
<1>1. /\ UNCHANGED <<backVars, events, key, staged, sealed, receipts, keyOut, blob>>
      /\ act[a].pc \in StampSteps /\ meta # "none" /\ ("full" \in cut => "full" \in cut')
  BY DEF StampReads, StampWritesRow, StampWritesMeta, SameFront, SameBack, SameNet, netVars, bounds,
     EntryInv, StampSteps
<1>2. /\ meta' \in {meta, act[a].to} /\ meta' # "none" /\ (meta = "ready" => meta' = "ready")
  BY <1>1 DEF StampReads, StampWritesRow, StampWritesMeta, SameFront, StampAllowed, FrontInv, HasBytes
<1>3. \/ Finish(a)
      \/ /\ UNCHANGED <<inbox, meta>>
         /\ \E pc \in StampSteps : Goto(a, pc)
  BY DEF StampReads, StampWritesRow, StampWritesMeta, SameFront, netVars, StampSteps
<1>4. /\ \A b \in Actors : b # a => act'[b] = act[b]
      /\ act'[a].pc \in StampSteps \cup {"idle"}
      /\ act'[a].pc \in StampSteps => act'[a].to = act[a].to
  BY <1>3, GotoEffect, FinishEffect DEF StampSteps, Pcs
<1>5. EntryInv' /\ (KeyComing' => KeyComing) /\ (KeyComing => KeyComing' \/ meta = "ready")
  <2>1. CASE Finish(a)
    <3>1. act[a].pc \notin {"key", "offer", "converge", "seal", "record"}
      BY <1>1 DEF StampSteps
    <3>2. meta' = meta \/ meta # "ready"
      BY <1>2
    <3>3. QED
      BY <1>1, <1>2, <2>1, <3>1, <3>2, FinishEntry
  <2>2. CASE UNCHANGED <<inbox, meta>> /\ \E pc \in StampSteps : Goto(a, pc)
    <3>1. KeyComing' <=> KeyComing
      BY <1>1, <2>2 DEF KeyComing
    <3>2. act'[a].entry = act[a].entry /\ act'[a].pc \in StampSteps
      BY <2>2, GotoEffect DEF Pcs
    <3>3. EntryInv'
      BY <1>1, <1>4, <2>2, <3>2 DEF EntryInv, StampSteps
    <3>4. QED
      BY <3>1, <3>3
  <2>3. QED
    BY <1>3, <2>1, <2>2
<1>6. KeyInv'
  <2>1. Locked(a)' => Locked(a)
    BY <1>1, <1>4 DEF Locked, StampSteps
  <2>2. \A b \in Actors : Locked(b)' => Locked(b)
    BY <1>4, <2>1 DEF Locked
  <2>3. act'[a].pc \notin {"receipt", "converge", "await", "seal", "record"}
    BY <1>4 DEF StampSteps
  <2>4. SomeAt({"record"}) => SomeAt({"record"})'
    BY <1>1, <1>4 DEF SomeAt, StampSteps
  <2>5. QED
    BY <1>1, <1>2, <1>4, <1>5, <2>2, <2>3, <2>4 DEF KeyInv, Held
<1>7. Keyed => Keyed' \/ meta' = "ready"
  BY <1>1, <1>2, <1>4, <1>5 DEF Keyed, SomeAt, StampSteps
<1>8. FrontFlow
  <2>1. \A s \in FileStates : Stamps(s)' => Stamps(s)
    BY <1>1, <1>4 DEF Stamps, StampSteps
  <2>2. \A s \in FileStates : meta' = s => meta = s \/ Stamps(s)
    BY <1>1, <1>2 DEF Stamps
  <2>3. \A s \in FileStates : Trace(s)' => Trace(s)
    BY <1>1, <2>1, <2>2 DEF Trace, Pending
  <2>4. (Fresh' <=> Fresh) /\ (Got' => Got)
    BY <1>1, <1>2, <1>4 DEF Fresh, Asking, Got, Held, SomeAt, Actors, StampSteps
  <2>5. Pending("ready")' \/ act'["loop"].pc = "pull" => Pending("ready") \/ act["loop"].pc = "pull"
    BY <1>1, <1>4 DEF Pending, Actors, StampSteps
  <2>6. Pulling => Pulling'
    BY <1>1, <1>4 DEF Pulling, Pending, Actors, StampSteps
  <2>7. QED
    BY <1>1, <1>2, <1>7, <2>1, <2>2, <2>3, <2>4, <2>5, <2>6 DEF FrontFlow, FileStates, FetchStates
<1>9. QED
  BY <1>5, <1>6, <1>8, FrontFlowKeeps

\* Every step of a clean run keeps all of it.
LEMMA FlowStep ==
    ASSUME SealedInv, FrontInv, BackInv, RestType, Clean => FlowInv, [Next]_vars
    PROVE  Clean' => FlowInv'
<1> SUFFICES ASSUME Clean' PROVE FlowInv'
  OBVIOUS
<1>1. FlowInv
  BY CleanBack
<1>2. CASE UNCHANGED vars
  <2>1. UNCHANGED <<backVars, frontVars, netVars, events, cut>>
    BY <1>2 DEF vars, bounds
  <2>2. /\ UNCHANGED <<row, meta, key, staged, sealed, act, inbox, receipts, keyOut, blob>>
    BY <2>1 DEF frontVars, netVars
  <2>3. KeyInv' /\ (Keyed' <=> Keyed) /\ (Fresh' <=> Fresh) /\ (Got' <=> Got)
        /\ \A s \in FileStates : Stamps(s)' <=> Stamps(s)
    BY <1>1, <2>1, FrontView DEF FlowInv
  <2>4. EntryInv'
    BY <1>1, <2>1, <2>2 DEF FlowInv, EntryInv
  <2>5. FrontFlow
    BY <2>1, <2>2, <2>3 DEF FrontFlow, Trace, Stamps, Pending, Pulling
  <2>6. QED
    BY <1>1, <2>3, <2>4, <2>5, FrontFlowKeeps DEF FlowInv
<1>3. CASE WorkerStep
  BY <1>1, <1>3, WorkerRuns, FetchMovesKeep
<1>4. ASSUME NEW r \in Retriers, RetryStep(r) PROVE FlowInv'
  BY <1>1, <1>4, RetryRuns, FetchMovesKeep
<1>5. CASE LoopStep \/ SweepList
  BY <1>1, <1>5, SweepFlow, TakeFlow, IngestFlow, OfferMetaFlow, OfferFetchFlow, EventFlow DEF LoopStep
<1>6. CASE Environment
  <2>1. ~Withdraw /\ ~EnvelopeFails
    BY DEF Withdraw, EnvelopeFails, Clean
  <2>2. QED
    BY <1>1, <1>6, <2>1, StopFlow, StartFlow, FrontStopFlow, LinkFlow, SenderFlow DEF Environment
<1>7. ASSUME NEW a \in Actors, ActorStep(a) PROVE FlowInv'
  <2>1. ~SealFails(a)
    BY DEF SealFails, Clean
  <2>2. QED
    BY <1>1, <1>7, <2>1, PullFlow, WriteFlow, DropFlow, ConvergeFlow, SealFlow, RecordFlow, AwaitFlow, StampFlow
       DEF ActorStep
<1>8. QED
  BY <1>2, <1>3, <1>4, <1>5, <1>6, <1>7 DEF Next

\* The first state: the offer is in the inbox and nothing else has happened.
LEMMA FlowStart == Init => RestType /\ FlowInv
<1> SUFFICES ASSUME Init PROVE RestType /\ FlowInv
  OBVIOUS
<1>1. \A a \in Actors : act[a].pc = "idle" /\ act[a].to = "none" /\ act[a].entry = "none"
  BY DEF Init, Idle
<1>2. \A r \in Retriers : retry[r].pc = "idle"
  BY FetchRows DEF Init
<1>3. RestType
  BY DEF Init, RestType
<1>4. RunInv /\ FileInv
  BY <1>2, FetchRows, RowEffects DEF Init, RunInv, FileInv, Streaming, InFlight, Counted
<1>5. \A s \in FileStates : ~Trace(s) /\ ~Stamps(s)
  BY <1>1 DEF Init, Trace, Pending, Stamps, StampSteps, FileStates, FetchStates
<1>6. GotInv
  BY <1>1 DEF Init, GotInv, Got, Held, SomeAt, Pending, Actors
<1>7. TraceInv
  BY <1>5 DEF TraceInv, FileStates, FetchStates
<1>8. EntryInv
  BY <1>1 DEF Init, EntryInv
<1>9. KeyInv
  BY <1>1 DEF Init, KeyInv, KeyComing, Locked
<1>10. Fresh
  BY DEF Init, Fresh
<1>11. RestInv
  BY <1>5, <1>10 DEF RestInv, Init, FileStates, FetchStates
<1>12. QED
  BY <1>3, <1>4, <1>6, <1>7, <1>8, <1>9, <1>11 DEF FlowInv

-----------------------------------------------------------------------------
(* The verdict is heard *)

\* A message reads ready only once the metadata does.
Shown == row = "ready" => meta = "ready"

\* The sweep writes only what convergeFileReady found.
SweepStamps == act["sweep"].pc \in StampSteps => act["sweep"].to \in {"ready", "awaiting_key"}

\* A file the backend has given up: a retry is about to say so, the stream ends
\* with it, the loop is writing it, or it is written.
Told ==
    fetch.state = "failed_permanent" /\ meta # "ready" =>
        \/ \E r \in Retriers : retry[r].pc = "wipe"
        \/ events # <<>> /\ events[Len(events)] = "failed_permanent"
        \/ events = <<>> /\ act["loop"].pc \in StampSteps /\ act["loop"].to = "failed_permanent"
        \/ events = <<>> /\ act["loop"].pc \notin StampSteps /\ meta = "failed_permanent"

ToldInv == Clean => Shown /\ SweepStamps /\ Told

\* What a step leaves alone of the verdict.
ToldMoves ==
    /\ fetch'.state = "failed_permanent" => fetch.state = "failed_permanent"
    /\ UNCHANGED <<retry, events, meta>>
    /\ \/ act'["loop"] = act["loop"]
       \/ act["loop"].pc \notin StampSteps /\ act'["loop"].pc \notin StampSteps

\* Such a step leaves it where it is.
LEMMA ToldStays ==
    ASSUME Told, ToldMoves PROVE Told'
BY DEF Told, ToldMoves

\* The last event of a stream is on it.
LEMMA LastPending ==
    ASSUME SealedInv, events # <<>>, events[Len(events)] = "failed_permanent" PROVE VerdictPending
<1>1. Len(events) \in DOMAIN events
  BY DEF SealedInv
<1>2. QED
  BY <1>1 DEF VerdictPending, Settled

\* The worker has no file to give up while the sender hosts it.
LEMMA WorkerTold ==
    ASSUME BackInv, FlowInv, Told, WorkerStep PROVE Told'
<1> USE DEF FlowInv
<1>1. blob /\ job.pc # "wipe" /\ (Streaming => fetch = job.row /\ fetch.state = "downloading")
  BY DEF RunInv
<1>2. UNCHANGED <<retry, frontVars>>
  BY DEF WorkerStep, StartFetch, RunOne, StreamSome, StreamWhole, StreamBreaks,
     StreamGone, Rename, WriteReady, WorkerWipes, WorkerExits
<1>3. job.row \in Fetch /\ fetch \in Fetch
  BY DEF BackInv, BackType, Job
<1>4. \/ UNCHANGED <<fetch, events>>
      \/ fetch'.state # "failed_permanent"
  <2>1. CASE StartFetch \/ StreamSome \/ WorkerExits \/ StreamWhole
    BY <1>1, <2>1 DEF StartFetch, StreamSome, WorkerExits, StreamWhole, Streaming
  <2>2. CASE RunOne
    BY <1>3, <2>2 DEF RunOne, Fetch
  <2>3. CASE StreamBreaks
    BY <2>3 DEF StreamBreaks, Transient
  <2>4. CASE Rename
    BY <2>4 DEF Rename, Transient
  <2>5. CASE WriteReady
    BY <1>3, <2>5 DEF WriteReady, Fetch
  <2>6. ~StreamGone /\ ~WorkerWipes
    BY <1>1 DEF StreamGone, WorkerWipes
  <2>7. QED
    BY <2>1, <2>2, <2>3, <2>4, <2>5, <2>6 DEF WorkerStep
<1>5. QED
  BY <1>2, <1>4 DEF Told, frontVars

\* A retry that gives the file up says so, or the loss is recorded.
LEMMA RetryTold ==
    ASSUME SealedInv, BackInv, FlowInv, Told, Clean', NEW r \in Retriers, RetryStep(r) PROVE Told'
<1> USE DEF FlowInv
<1>1. UNCHANGED <<meta, act>>
  BY DEF RetryStep, RetryList, RetryDecide, RetryWipes, RetryKicks, frontVars
<1>2. retry \in [Retriers -> Retry] /\ retry[r].row \in Fetch
  BY DEF BackInv, BackType, Retry
<1>3. CASE \E k \in BOOLEAN : RetryList(r, k)
  BY <1>3 DEF RetryList, Told
<1>4. CASE RetryDecide(r)
  <2>1. /\ retry[r].pc = "decide" /\ retry[r].row.state = "failed_transient" /\ UNCHANGED events
    BY <1>4 DEF RetryDecide, RunInv
  <2>2. PICK pc \in {"wipe", "kick"} :
              /\ retry' = [retry EXCEPT ![r].pc = pc]
              /\ \/ pc = "wipe"
                 \/ fetch' = [retry[r].row EXCEPT !.kicked = TRUE]
                 \/ fetch' = fetch
    BY <1>4 DEF RetryDecide
  <2>3. retry'[r].pc = pc /\ \A q \in Retriers : q # r => retry'[q] = retry[q]
    BY <1>2, <2>2 DEF Retry
  <2>4. [retry[r].row EXCEPT !.kicked = TRUE].state = "failed_transient"
    BY <1>2, <2>1 DEF Fetch
  <2>5. QED
    BY <1>1, <2>1, <2>2, <2>3, <2>4 DEF Told
<1>5. CASE RetryWipes(r)
  <2>1. fetch.state = "failed_permanent" /\ Publish("failed_permanent") /\ cut' = Unheard(fetch, events' = events)
    BY <1>5 DEF RetryWipes, RunInv
  <2>2. events' # events
    BY <2>1 DEF Unheard, Clean
  <2>3. events' = Append(events, "failed_permanent") /\ events \in Seq(EventStates)
    BY <2>1, <2>2 DEF Publish, SealedInv
  <2>4. Len(events') = Len(events) + 1 /\ events'[Len(events')] = "failed_permanent" /\ events' # <<>>
    BY <2>3
  <2>5. QED
    BY <2>4 DEF Told
<1>6. CASE RetryKicks(r)
  <2>1. retry[r].pc = "kick" /\ UNCHANGED <<fetch, events>> /\ retry' = [retry EXCEPT ![r] = NoRetry]
    BY <1>6 DEF RetryKicks
  <2>2. \A q \in Retriers : q # r => retry'[q] = retry[q]
    BY <1>2, <2>1
  <2>3. QED
    BY <1>1, <2>1, <2>2 DEF Told
<1>7. QED
  BY <1>3, <1>4, <1>5, <1>6 DEF RetryStep

\* Stops and breaks: a verdict on its way is lost, which is recorded.
LEMMA StopTold ==
    ASSUME SealedInv, FlowInv, Told, Clean', BackStop \/ Disconnect \/ FrontStop PROVE Told'
<1>1. UNCHANGED <<fetch, meta>> /\ events' = <<>>
  BY DEF BackStop, Disconnect, FrontStop, backVars, frontVars
<1>2. SUFFICES ASSUME fetch.state = "failed_permanent", meta # "ready" PROVE Told'
  BY <1>1 DEF Told
<1>3. ~VerdictPending /\ (BackStop => ~Verdict)
  BY <1>2 DEF BackStop, Disconnect, FrontStop, Unheard, Clean, Verdict
<1>4. events = <<>> \/ events[Len(events)] # "failed_permanent"
  BY <1>3, LastPending
<1>5. CASE BackStop
  BY <1>1, <1>2, <1>3, <1>4, <1>5 DEF Told, BackStop, Verdict, frontVars
<1>6. CASE Disconnect
  BY <1>1, <1>2, <1>4, <1>6 DEF Told, Disconnect, backVars, frontVars
<1>7. CASE FrontStop
  <2>1. "loop" \in Actors /\ TakenUp("loop")
    BY <1>7 DEF FrontStop, Clean, Actors
  <2>2. act["loop"].pc \notin StampSteps /\ act'["loop"].pc = "idle" /\ UNCHANGED retry
    BY <1>7, <2>1 DEF TakenUp, StampSteps, FrontStop, Idle, backVars
  <2>3. QED
    BY <1>1, <1>2, <1>4, <2>2 DEF Told, StampSteps
<1>8. QED
  BY <1>5, <1>6, <1>7

\* The loop writes what it hears, in the order of the stream.
LEMMA EventTold ==
    ASSUME SealedInv, FlowInv, Told, HandleEvent PROVE Told'
<1>1. /\ UNCHANGED <<fetch, retry, meta>> /\ act["loop"].pc = "idle" /\ events # <<>> /\ events' = Tail(events)
  BY DEF HandleEvent, SameFront, backVars
<1>2. SUFFICES ASSUME fetch.state = "failed_permanent", meta # "ready",
                      \A r \in Retriers : retry[r].pc # "wipe"
               PROVE  Told'
  BY <1>1 DEF Told
<1>3. events[Len(events)] = "failed_permanent"
  BY <1>1, <1>2 DEF Told
<1>4. /\ Len(events) \in Nat /\ Len(events) > 0 /\ Head(events) = events[1] /\ events \in Seq(EventStates)
  BY <1>1 DEF SealedInv
<1>5. CASE Len(events) = 1
  <2>1. events' = <<>> /\ Head(events) = "failed_permanent"
    BY <1>1, <1>3, <1>4, <1>5
  <2>2. Stamp("loop", "failed_permanent")
    BY <2>1 DEF HandleEvent
  <2>3. act'["loop"].pc = "stamp" /\ act'["loop"].to = "failed_permanent"
    BY <2>2, StampEffect DEF Actors, FileStates, FetchStates
  <2>4. QED
    BY <2>1, <2>3 DEF Told, StampSteps
<1>6. CASE Len(events) > 1
  <2>1. PICK n \in Nat : n = Len(events) /\ n > 1
    BY <1>4, <1>6
  <2>2. /\ Len(events') = n - 1 /\ \A i \in 1..(n - 1) : events'[i] = events[i + 1]
    BY <1>1, <1>4, <2>1
  <2>3. n - 1 \in 1..(n - 1) /\ n - 1 + 1 = n
    BY <2>1
  <2>4. events'[Len(events')] = events[Len(events)]
    BY <2>1, <2>2, <2>3
  <2>5. events' # <<>>
    BY <2>1, <2>2
  <2>6. QED
    BY <1>3, <2>4, <2>5 DEF Told
<1>7. Len(events) = 1 \/ Len(events) > 1
  <2>1. \A n \in Nat : n > 0 => n = 1 \/ n > 1
    OBVIOUS
  <2>2. Len(events) \in Nat /\ Len(events) > 0
    BY <1>4
  <2>3. QED
    BY <2>1, <2>2
<1>8. QED
  BY <1>5, <1>6, <1>7

\* A file the backend gave up is not here, so nobody writes anything else.
LEMMA ActorTold ==
    ASSUME SealedInv, FrontInv, BackInv, FlowInv, Shown, SweepStamps, Told, Clean',
           NEW a \in Actors, ActorStep(a)
    PROVE  Told'
<1> USE DEF FlowInv
<1>1. /\ UNCHANGED <<retry, events>> /\ (fetch' = fetch \/ fetch' = NoFetch) /\ (meta = "ready" => meta' = "ready")
  BY ActorSteps DEF ActorStep, Pull, PullWrites, PullDrops, PostPullReceipt, Converge, Seal, SealFails, Record, AwaitKey,
     StampReads, StampWritesRow, StampWritesMeta, SameBack, backVars, KeepsReady
<1>2. SUFFICES ASSUME fetch.state = "failed_permanent", fetch' = fetch, meta # "ready" PROVE Told'
  <2>1. CASE fetch' = NoFetch
    BY <2>1, FetchRows DEF Told
  <2>2. CASE fetch' = fetch
    BY <1>1, <2>2 DEF Told
  <2>3. QED
    BY <1>1, <2>1, <2>2
<1>3. ~Got /\ ~staged /\ ~sealed
  BY <1>2 DEF GotInv, Got, Held
<1>4. act[a].pc \notin {"write", "drop", "receipt", "seal", "record", "await"}
  BY <1>2, <1>3 DEF Got, SomeAt, FrontInv, HasBytes, Held, KeyInv, SealedInv, WritesReady
<1>5. ~(a = "loop" /\ act[a].pc = "pull")
  BY <1>2 DEF GotInv
<1>6. CASE Pull(a)
  <2>1. a = "sweep" /\ UNCHANGED meta /\ \A b \in Actors : b # a => act'[b] = act[b]
    BY <1>5, <1>6 DEF Pull, SameFront, Actors, Goto, SealedInv
  <2>2. QED
    BY <1>1, <1>2, <2>1, ToldStays DEF ToldMoves, Actors
<1>7. CASE Converge(a)
  <2>1. Finish(a) /\ UNCHANGED meta /\ act[a].pc = "converge"
    BY <1>3, <1>7 DEF Converge, SameFront
  <2>2. act'[a].pc = "idle" /\ \A b \in Actors : b # a => act'[b] = act[b]
    BY <2>1, FinishEffect
  <2>3. QED
    BY <1>1, <1>2, <2>1, <2>2, ToldStays DEF ToldMoves, Actors, StampSteps
<1>8. CASE StampReads(a) \/ StampWritesRow(a) \/ StampWritesMeta(a)
  <2>1. act[a].pc \in StampSteps /\ act[a].to # "awaiting_key" /\ act[a].to # "ready"
    <3>1. act[a].pc \in StampSteps
      BY <1>8 DEF StampReads, StampWritesRow, StampWritesMeta, StampSteps
    <3>2. QED
      BY <1>3, <3>1 DEF FrontInv, HasBytes, Held, SealedInv, WritesReady
  <2>2. a = "loop"
    BY <2>1 DEF SweepStamps, Actors
  <2>3. row # "ready"
    BY <1>2 DEF Shown
  <2>4. CASE StampReads(a)
    <3>1. Goto(a, "stampRow") /\ UNCHANGED meta
      BY <2>3, <2>4 DEF StampReads, StampAllowed, SameFront
    <3>2. act'["loop"].pc = "stampRow" /\ act'["loop"].to = act["loop"].to
      BY <2>2, <3>1, GotoEffect DEF Pcs, StampSteps
    <3>3. QED
      BY <1>1, <1>2, <2>1, <2>2, <3>1, <3>2 DEF Told, StampSteps
  <2>5. CASE StampWritesRow(a)
    <3>1. Goto(a, "stampMeta") /\ UNCHANGED meta
      BY <2>5 DEF StampWritesRow
    <3>2. act'["loop"].pc = "stampMeta" /\ act'["loop"].to = act["loop"].to
      BY <2>2, <3>1, GotoEffect DEF Pcs, StampSteps
    <3>3. QED
      BY <1>1, <1>2, <2>1, <2>2, <3>1, <3>2 DEF Told, StampSteps
  <2>6. CASE StampWritesMeta(a)
    <3>1. Finish(a) /\ meta' = act[a].to
      BY <1>2, <2>6 DEF StampWritesMeta, StampAllowed
    <3>2. act'["loop"].pc = "idle"
      BY <2>2, <3>1, FinishEffect
    <3>3. QED
      BY <1>1, <1>2, <2>1, <2>2, <3>1, <3>2 DEF Told, StampSteps
  <2>7. QED
    BY <1>8, <2>4, <2>5, <2>6
<1>9. QED
  BY <1>4, <1>6, <1>7, <1>8 DEF ActorStep, PullWrites, PullDrops, PostPullReceipt, Seal, SealFails, Record, AwaitKey

\* The other steps are not about the verdict.
LEMMA RestTold ==
    ASSUME SealedInv, FrontInv, BackInv, FlowInv, Told,
           \/ OfferRow \/ OfferMeta \/ OfferReceipt \/ OfferFetch \/ KeyWritten \/ SweepList
           \/ BackStart \/ Connect \/ SenderAnswers \/ KeyArrives
           \/ \E e \in {"offer", "key"} : TakeEntry(e)
    PROVE  Told'
<1> USE DEF FlowInv
<1>1. CASE BackStart \/ SenderAnswers \/ KeyArrives
  BY <1>1 DEF BackStart, SenderAnswers, KeyArrives, SameBack, backVars, frontVars, Told
<1>2. CASE SweepList \/ Connect
  <2>1. act'["loop"] = act["loop"]
    BY <1>2, GotoEffect DEF SweepList, Connect, Actors, Pcs
  <2>2. QED
    BY <1>2, <2>1, ToldStays DEF ToldMoves, SweepList, Connect, SameFront, SameBack, backVars
<1>3. CASE OfferRow \/ OfferReceipt \/ KeyWritten
  <2>1. act["loop"].pc \notin StampSteps /\ act'["loop"].pc \notin StampSteps
    BY <1>3, GotoEffect DEF OfferRow, OfferReceipt, KeyWritten, Actors, Pcs, StampSteps
  <2>2. QED
    BY <1>3, <2>1, ToldStays DEF ToldMoves, OfferRow, OfferReceipt, KeyWritten, SameFront, SameBack, backVars
<1>4. CASE \E e \in {"offer", "key"} : TakeEntry(e)
  <2>1. /\ act["loop"].pc \notin StampSteps /\ act'["loop"].pc \notin StampSteps
        /\ UNCHANGED <<backVars, events, meta>>
    BY <1>4 DEF TakeEntry, SealedInv, StampSteps, Actors, SameFront, SameBack
  <2>2. QED
    BY <2>1, ToldStays DEF ToldMoves, backVars
<1>5. CASE OfferMeta \/ OfferFetch
  <2>1. CASE Fresh
    <3>1. fetch = NoFetch
      BY <2>1 DEF BackInv, Untouched
    <3>2. fetch' = fetch \/ fetch'.state = "pending"
      BY <1>5, <3>1 DEF OfferMeta, OfferFetch, SameBack, backVars, PutFetch, NoFetch, InFlight
    <3>3. QED
      BY <3>1, <3>2, FetchRows DEF Told
  <2>2. CASE ~Fresh
    <3>1. OfferMeta /\ meta # "none"
      BY <1>5, <2>2 DEF Fresh, Asking, OfferFetch
    <3>2. Finish("loop") /\ UNCHANGED <<backVars, events, meta>> /\ act["loop"].pc = "offerMeta"
      BY <3>1 DEF OfferMeta, SameBack
    <3>3. act'["loop"].pc = "idle"
      BY <3>2, FinishEffect DEF Actors
    <3>4. QED
      BY <3>2, <3>3, ToldStays DEF ToldMoves, backVars, StampSteps
  <2>3. QED
    BY <2>1, <2>2
<1>6. QED
  BY <1>1, <1>2, <1>3, <1>4, <1>5

\* Ready in the message comes after ready in the metadata, and the sweep keeps
\* to its own stamps.
LEMMA ShownStep ==
    ASSUME SealedInv, FlowInv, Shown, SweepStamps, Clean', Next PROVE Shown' /\ SweepStamps'
<1> USE DEF FlowInv
<1>1. meta = "ready" => meta' = "ready"
  BY StepKeeps
<1>2. CASE WorkerStep \/ \E r \in Retriers : RetryStep(r)
  <2>1. UNCHANGED frontVars
    BY <1>2 DEF WorkerStep, StartFetch, RunOne, StreamSome, StreamWhole, StreamBreaks,
       StreamGone, Rename, WriteReady, WorkerWipes, WorkerExits, RetryStep, RetryList, RetryDecide,
       RetryWipes, RetryKicks
  <2>2. QED
    BY <2>1 DEF frontVars, Shown, SweepStamps
<1>3. CASE Environment
  <2>1. UNCHANGED <<row, meta>>
    BY <1>3 DEF Environment, BackStop, BackStart, FrontStop, Connect, Disconnect, SenderAnswers,
       KeyArrives, EnvelopeFails, Withdraw, frontVars
  <2>2. act'["sweep"] = act["sweep"] \/ act'["sweep"].pc \in {"idle", "list"}
    <3>1. CASE Connect
      BY <3>1, GotoEffect DEF Connect, Actors, Pcs
    <3>2. CASE FrontStop
      BY <3>2 DEF FrontStop, Actors, Idle
    <3>3. QED
      BY <1>3, <3>1, <3>2 DEF Environment, BackStop, BackStart, Disconnect, SenderAnswers,
         KeyArrives, EnvelopeFails, Withdraw, frontVars
  <2>3. QED
    BY <2>1, <2>2 DEF Shown, SweepStamps, StampSteps
<1>4. CASE LoopStep \/ SweepList
  <2>1. row' = row \/ row' = "downloading"
    BY <1>4 DEF LoopStep, OfferRow, OfferMeta, OfferReceipt, OfferFetch, KeyWritten, HandleEvent,
       TakeEntry, SweepList, SameFront
  <2>2. act'["sweep"] = act["sweep"] \/ act'["sweep"].pc \in {"pull", "idle"}
    <3>1. CASE SweepList
      BY <3>1, GotoEffect DEF SweepList, Actors, Pcs
    <3>2. CASE LoopStep
      BY <3>2 DEF LoopStep, OfferRow, OfferMeta, OfferReceipt, OfferFetch, KeyWritten, HandleEvent,
         TakeEntry, Goto, Stamp, Finish, SealedInv, Actors
    <3>3. QED
      BY <1>4, <3>1, <3>2
  <2>3. QED
    BY <1>1, <2>1, <2>2 DEF Shown, SweepStamps, StampSteps
<1>5. ASSUME NEW a \in Actors, ActorStep(a) PROVE Shown' /\ SweepStamps'
  <2>1. row' = row \/ (row' = act[a].to /\ act[a].pc = "stampRow")
    BY <1>5 DEF ActorStep, Pull, PullWrites, PullDrops, PostPullReceipt, Converge, Seal, SealFails, Record, AwaitKey,
       StampReads, StampWritesRow, StampWritesMeta, SameFront
  <2>2. act[a].pc = "stampRow" /\ act[a].to = "ready" => meta = "ready"
    <3>1. act[a].pc = "stampRow" /\ act[a].to = "ready" => Locked(a) /\ sealed
      BY DEF Locked, SealedInv, WritesReady, StampSteps
    <3>2. \A b \in Actors : act[b].pc = "record" => Locked(b)
      BY DEF Locked
    <3>3. QED
      BY <3>1, <3>2 DEF KeyInv, SomeAt
  <2>3. SweepStamps'
    <3>1. \/ act'["sweep"] = act["sweep"]
          \/ act'["sweep"].pc \notin StampSteps
          \/ act["sweep"].pc \in StampSteps /\ act'["sweep"].to = act["sweep"].to
          \/ act'["sweep"].to \in {"ready", "awaiting_key"}
      <4>1. CASE a = "loop"
        BY <1>5, <4>1 DEF ActorStep, Pull, PullWrites, PullDrops, PostPullReceipt, Converge, Seal, SealFails, Record,
           AwaitKey, StampReads, StampWritesRow, StampWritesMeta, Goto, Stamp, Finish, SealedInv, Actors
      <4>2. CASE a = "sweep"
        <5>1. \/ \E pc \in Pcs \ StampSteps : Goto(a, pc)
              \/ Finish(a)
              \/ Stamp(a, "ready") \/ Stamp(a, "awaiting_key")
              \/ act[a].pc \in StampSteps /\ \E pc \in Pcs : Goto(a, pc)
          BY <1>5, <4>2 DEF ActorStep, Pull, PullWrites, PullDrops, PostPullReceipt, Converge, Seal, SealFails, Record,
             AwaitKey, StampReads, StampWritesRow, StampWritesMeta, Clean, Pcs, StampSteps
        <5>2. QED
          BY <4>2, <5>1, GotoEffect, StampEffect, FinishEffect DEF Actors, FileStates, FetchStates, StampSteps
      <4>3. QED
        BY <4>1, <4>2 DEF Actors
    <3>2. QED
      BY <3>1 DEF SweepStamps
  <2>4. QED
    BY <1>1, <2>1, <2>2, <2>3 DEF Shown
<1>6. QED
  BY <1>2, <1>3, <1>4, <1>5 DEF Next

\* Every step keeps it.
LEMMA ToldStep ==
    ASSUME SealedInv, FrontInv, BackInv, RestType, Clean => FlowInv, ToldInv, [Next]_vars PROVE ToldInv'
<1> SUFFICES ASSUME Clean' PROVE Shown' /\ SweepStamps' /\ Told'
  BY DEF ToldInv
<1>1. FlowInv /\ Shown /\ SweepStamps /\ Told
  BY CleanBack DEF ToldInv
<1>2. CASE UNCHANGED vars
  BY <1>1, <1>2 DEF vars, backVars, frontVars, Shown, SweepStamps, Told
<1>3. CASE Next
  <2>1. Shown' /\ SweepStamps'
    BY <1>1, <1>3, ShownStep
  <2>2. ~Withdraw /\ ~EnvelopeFails
    BY DEF Withdraw, EnvelopeFails, Clean
  <2>3. Told'
    <3>1. CASE Environment
      BY <1>1, <2>2, <3>1, StopTold, RestTold DEF Environment
    <3>2. CASE LoopStep \/ SweepList
      BY <1>1, <3>2, RestTold, EventTold DEF LoopStep
    <3>3. QED
      BY <1>1, <1>3, <3>1, <3>2, WorkerTold, RetryTold, ActorTold DEF Next
  <2>4. QED
    BY <2>1, <2>3
<1>4. QED
  BY <1>2, <1>3

\* The first state: nothing is given up.
LEMMA ToldStart == Init => ToldInv
BY FetchRows DEF Init, ToldInv, Shown, SweepStamps, Told, Idle, StampSteps, Actors

-----------------------------------------------------------------------------
(* At rest *)

\* When nothing is under way, nothing is on its way to the file either.
LEMMA QuietSettled ==
    ASSUME BackInv, RestType, Clean => FlowInv, ToldInv PROVE NotStranded
<1> SUFFICES ASSUME Quiet, cut \subseteq {"stamp"}
             PROVE  \/ meta \in Settled
                    \/ fetch.state = "failed_transient"
                    \/ meta \in {"pending", "downloading"} /\ final
  BY DEF NotStranded
<1>1. FlowInv /\ "full" \notin cut
  BY DEF Clean
<1>2. /\ \A a \in Actors : act[a].pc = "idle"
      /\ "loop" \in Actors
      /\ backUp /\ job.pc = "idle" /\ queue = 0 /\ events = <<>>
      /\ inbox = {} /\ receipts = 0 /\ ~keyOut
  BY DEF Quiet, Actors
<1>3. meta # "none" /\ ~Fresh
  BY <1>1, <1>2 DEF FlowInv, EntryInv, Fresh, Asking
<1>4. ~Keyed /\ ~Pulling
  BY <1>2 DEF Keyed, KeyComing, SomeAt, Pulling, Pending
<1>5. ~InFlight(fetch)
  BY <1>1, <1>2 DEF FlowInv, RunInv, Streaming
<1>6. CASE meta \notin Settled
  <2>1. meta # "awaiting_key" /\ fetch.state # "none"
    BY <1>1, <1>3, <1>4, <1>6 DEF FlowInv, RestInv, Settled
  <2>2. fetch.state = "ready" => final /\ meta # "failed_transient"
    BY <1>1, <1>4, <1>6 DEF FlowInv, RestInv, FileInv, Trace, Pulling, Settled
  <2>3. fetch.state \in {"ready", "failed_transient", "failed_permanent"}
    BY <1>5, <2>1 DEF BackInv, BackType, Fetch, FetchStates, InFlight
  <2>4. fetch.state # "failed_permanent"
    <3>1. Told
      BY DEF ToldInv, Clean
    <3>2. /\ events = <<>> /\ \A r \in Retriers : retry[r].pc # "wipe"
          /\ act["loop"].pc \notin StampSteps
      BY <1>2 DEF Quiet, StampSteps
    <3>3. QED
      BY <1>6, <3>1, <3>2 DEF Told, Settled
  <2>5. QED
    BY <1>3, <1>6, <2>1, <2>2, <2>3, <2>4 DEF RestType, FileStates, FetchStates, Settled
<1>7. QED
  BY <1>6

\* When both daemons have come to rest, the file is ready or given up, or the
\* next retry or reconnect moves it (runOne, retryAllFailed, ReconcileStaging,
\* sweepStagedFetches, convergeFileReady), and message and metadata agree.
THEOREM FileAtRest == Spec => []AtRest
<1>1. SealedInv /\ [Next]_vars => SealedInv'
  BY StepKeeps
<1>2. SealedInv /\ FrontInv /\ BackInv /\ [Next]_vars => FrontInv' /\ BackInv'
  BY BytesStep
<1>3. SealedInv /\ FrontInv /\ RestType /\ [Next]_vars => RestType'
  BY RestTypeStep
<1>4. SealedInv /\ FrontInv /\ BackInv /\ RestType /\ (Clean => FlowInv) /\ [Next]_vars => (Clean => FlowInv)'
  BY FlowStep
<1>9. SealedInv /\ FrontInv /\ BackInv /\ RestType /\ (Clean => FlowInv) /\ ToldInv /\ [Next]_vars => ToldInv'
  BY ToldStep
<1>5. Init => RestType /\ (Clean => FlowInv) /\ ToldInv
  BY FlowStart, ToldStart
<1>6. BackInv /\ RestType /\ (Clean => FlowInv) /\ ToldInv => NotStranded
  BY QuietSettled
<1>7. Spec => []NotStranded
  BY StartsSealed, BytesStart, <1>1, <1>2, <1>3, <1>4, <1>5, <1>6, <1>9, PTL DEF Spec
<1>8. QED
  BY <1>7, FileRowAgrees, PTL DEF AtRest
=============================================================================
