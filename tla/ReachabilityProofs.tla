------------------------- MODULE ReachabilityProofs -------------------------
(***************************************************************************)
(* A peer that does not answer.  First the unreachable mark and what       *)
(* subscribers were told of it, for any number of workers, any clock and   *)
(* any number of restarts; then the circuit of a peer, renewed once per    *)
(* failure, for any number of requests and decisions side by side and any  *)
(* number of renewals.                                                     *)
(***************************************************************************)
EXTENDS UnreachableMark, CircuitRenew, TLAPS

-----------------------------------------------------------------------------
(* The unreachable mark *)


\* The record never knows of a failure the outbox does not have.
RecordBehindOutbox ==
    /\ undelivered <= failedRow
    /\ \A w \in Worker : todo[w].do = "undelivered" => todo[w].at <= failedRow

\* The newest failure is in the record, in the hand of a worker, or lost in a
\* write that failed.
NewestNoted ==
    \/ unnoted
    \/ undelivered = failedRow
    \/ \E w \in Worker : todo[w].do = "undelivered" /\ todo[w].at = failedRow

\* What was told differs from the mark only while a worker is on its way to
\* recompute it; one that only clears is enough when the mark was lifted.
Owed ==
    /\ sent = "marked" /\ ~Unreachable =>
         \E w \in Worker : todo[w].do \in {"recheck", "clear"}
    /\ sent = "clear" /\ Unreachable => \E w \in Worker : todo[w].do = "recheck"

MarkInv == MarkTypeOK /\ RecordBehindOutbox /\ NewestNoted /\ Owed

-----------------------------------------------------------------------------
\* Nothing is noted and nobody is told at the start.
LEMMA MarkInitKeeps == MarkInit => MarkInv
<1> SUFFICES ASSUME MarkInit PROVE MarkInv
  OBVIOUS
<1>1. Idle \in Tasks /\ Idle.do = "idle"
  BY MarkAssumption DEF Idle, Tasks, Time
<1>2. MarkTypeOK
  <2>1. 0 \in Time /\ 1 \in Time /\ 0 \in 0..MaxRestart
    BY MarkAssumption DEF Time
  <2>2. todo \in [Worker -> Tasks]
    BY <1>1 DEF MarkInit
  <2>3. QED
    BY <2>1, <2>2 DEF MarkInit, MarkTypeOK
<1>3. \A w \in Worker : todo[w].do = "idle"
  BY <1>1 DEF MarkInit
<1>4. RecordBehindOutbox /\ NewestNoted /\ Owed
  BY <1>3 DEF MarkInit, RecordBehindOutbox, NewestNoted, Owed, Unreachable
<1>5. QED
  BY <1>2, <1>4 DEF MarkInv

\* The greater of two times is a time.
LEMMA Max2Typed ==
    ASSUME NEW a \in Time, NEW b \in Time
    PROVE  Max2(a, b) \in Time /\ Max2(a, b) >= a /\ Max2(a, b) >= b
           /\ (Max2(a, b) = a \/ Max2(a, b) = b)
BY MarkAssumption DEF Max2, Time

\* Every variable keeps its type.
LEMMA MarkTypeStep == ASSUME MarkTypeOK, [MarkNext]_markVars PROVE MarkTypeOK'
<1> USE MarkAssumption DEF MarkTypeOK
<1>0. Idle \in Tasks /\ \A s \in {"idle", "undelivered", "delivered", "recheck", "clear"},
                            t \in Time : [do |-> s, at |-> t] \in Tasks
  BY DEF Idle, Tasks, Time
<1>1. ASSUME NEW w \in Worker, NEW q \in Time, GiveUp(w, q) PROVE MarkTypeOK'
  BY <1>0, <1>1, Max2Typed DEF GiveUp, record
<1>2. ASSUME NEW w \in Worker, NoteUndelivered(w) PROVE MarkTypeOK'
  <2>1. todo[w].at \in Time /\ 0 \in Time
    BY DEF Tasks, Time
  <2>2. QED
    BY <1>0, <1>2, <2>1, Max2Typed DEF NoteUndelivered, Then, rows
<1>3. ASSUME NEW w \in Worker, RowSent(w) PROVE MarkTypeOK'
  BY <1>0, <1>3 DEF RowSent, record
<1>4. ASSUME NEW w \in Worker, NoteDelivered(w) \/ Inbound(w) PROVE MarkTypeOK'
  <2>1. 0 \in Time
    BY DEF Time
  <2>2. QED
    BY <1>0, <1>4, <2>1, Max2Typed DEF NoteDelivered, Inbound, Then, rows
<1>5. ASSUME NEW w \in Worker, NoteFails(w) PROVE MarkTypeOK'
  BY <1>0, <1>5 DEF NoteFails, record, rows
<1>6. ASSUME NEW w \in Worker, Recheck(w) PROVE MarkTypeOK'
  <2>1. sent' \in {"unknown", "marked", "clear"}
    BY <1>6 DEF Recheck, Recorded, Told, Say
  <2>2. QED
    BY <1>0, <1>6, <2>1 DEF Recheck, record, rows
<1>7. ASSUME NEW seeded \in BOOLEAN, NEW noted \in BOOLEAN, Restart(seeded, noted) PROVE MarkTypeOK'
  <2>1. todo' \in [Worker -> Tasks]
    BY <1>0, <1>7 DEF Restart
  <2>2. undelivered' \in Time /\ delivered' \in Time
    BY <1>7, Max2Typed DEF Restart
  <2>3. sent' \in {"unknown", "marked", "clear"}
    BY <1>7 DEF Restart, Say
  <2>4. restarts' \in 0..MaxRestart
    BY <1>7 DEF Restart
  <2>5. QED
    BY <1>7, <2>1, <2>2, <2>3, <2>4 DEF Restart, rows
<1>8. CASE Attach
  BY <1>8 DEF Attach, record, rows
<1>9. CASE Tick
  BY <1>9 DEF Tick, record, rows, Time
<1>10. CASE UNCHANGED markVars
  BY <1>10 DEF markVars
<1>11. QED
  BY <1>1, <1>2, <1>3, <1>4, <1>5, <1>6, <1>7, <1>8, <1>9, <1>10 DEF MarkNext

\* GiveUp stores the row before its worker notes it.
LEMMA GiveUpKeeps ==
    ASSUME MarkInv, NEW w \in Worker, NEW q \in Time, GiveUp(w, q)
    PROVE  RecordBehindOutbox' /\ NewestNoted' /\ Owed'
<1> USE DEF MarkInv, MarkTypeOK
<1>1. todo[w].do = "idle" /\ todo'[w] = [do |-> "undelivered", at |-> q]
      /\ \A v \in Worker : v # w => todo'[v] = todo[v]
  BY DEF GiveUp, Idle
<1>2. failedRow' >= failedRow /\ failedRow' >= q /\ (failedRow' = failedRow \/ failedRow' = q)
  BY Max2Typed DEF GiveUp
<1>3. RecordBehindOutbox'
  BY <1>1, <1>2 DEF GiveUp, record, RecordBehindOutbox, Tasks, Time
<1>4. NewestNoted'
  <2>1. CASE failedRow' = q
    BY <1>1, <2>1 DEF NewestNoted
  <2>2. CASE failedRow' = failedRow
    BY <1>1, <2>2 DEF GiveUp, record, NewestNoted
  <2>3. QED
    BY <1>2, <2>1, <2>2
<1>5. Owed'
  BY <1>1 DEF GiveUp, record, Owed, Unreachable
<1>6. QED
  BY <1>3, <1>4, <1>5

\* noteUndelivered: from the record on, the mark may be up, and the worker owes
\* a full recheck.
LEMMA NoteUndeliveredKeeps ==
    ASSUME MarkInv, NEW w \in Worker, NoteUndelivered(w)
    PROVE  RecordBehindOutbox' /\ NewestNoted' /\ Owed'
<1> USE DEF MarkInv, MarkTypeOK
<1>1. todo[w].do = "undelivered" /\ todo'[w].do = "recheck"
      /\ \A v \in Worker : v # w => todo'[v] = todo[v]
  BY DEF NoteUndelivered, Then
<1>2. todo[w].at \in Time /\ todo[w].at <= failedRow
  BY <1>1 DEF Tasks, RecordBehindOutbox
<1>3. undelivered' >= undelivered /\ undelivered' >= todo[w].at
      /\ (undelivered' = undelivered \/ undelivered' = todo[w].at)
  BY <1>2, Max2Typed DEF NoteUndelivered
<1>4. RecordBehindOutbox'
  BY <1>1, <1>2, <1>3 DEF NoteUndelivered, rows, RecordBehindOutbox
<1>5. NewestNoted'
  <2>1. CASE todo[w].at = failedRow \/ undelivered = failedRow
    <3>1. undelivered' = failedRow'
      BY <1>2, <1>3, <2>1, <1>4 DEF NoteUndelivered, rows, RecordBehindOutbox, Time
    <3>2. QED
      BY <3>1 DEF NewestNoted
  <2>2. CASE todo[w].at # failedRow /\ undelivered # failedRow
    BY <1>1, <2>2 DEF NoteUndelivered, rows, NewestNoted
  <2>3. QED
    BY <2>1, <2>2
<1>6. Owed'
  BY <1>1 DEF Owed
<1>7. QED
  BY <1>4, <1>5, <1>6

\* A delivery or an inbound envelope can only lift the mark, and owes the clear.
LEMMA AnswerKeeps ==
    ASSUME MarkInv, NEW w \in Worker, NoteDelivered(w) \/ Inbound(w)
    PROVE  RecordBehindOutbox' /\ NewestNoted' /\ Owed'
<1> USE DEF MarkInv, MarkTypeOK
<1>1. todo[w].do \in {"idle", "delivered"} /\ todo'[w].do = "clear"
      /\ \A v \in Worker : v # w => todo'[v] = todo[v]
  BY DEF NoteDelivered, Inbound, Then, Idle
<1>2. Unreachable' => Unreachable
  <2>1. undelivered' = undelivered /\ passive' >= passive /\ delivered' >= delivered
        /\ passive' \in Time /\ delivered' \in Time
    <3>1. \A a \in Time : a >= a
      BY MarkAssumption DEF Time
    <3>2. CASE NoteDelivered(w)
      BY <3>1, <3>2, Max2Typed DEF NoteDelivered
    <3>3. CASE Inbound(w)
      BY <3>1, <3>3, Max2Typed DEF Inbound
    <3>4. QED
      BY <3>2, <3>3
  <2>2. QED
    BY <2>1 DEF Unreachable, Time
<1>3. RecordBehindOutbox' /\ NewestNoted'
  BY <1>1 DEF NoteDelivered, Inbound, rows, RecordBehindOutbox, NewestNoted
<1>4. Owed'
  BY <1>1, <1>2 DEF NoteDelivered, Inbound, Owed
<1>5. QED
  BY <1>3, <1>4

\* recheckUnreachable leaves the mark itself or nothing known, unless it was
\* only to clear what is already clear; then the debt is another worker's.
LEMMA RecheckKeeps ==
    ASSUME MarkInv, NEW w \in Worker, Recheck(w)
    PROVE  RecordBehindOutbox' /\ NewestNoted' /\ Owed'
<1> USE DEF MarkInv, MarkTypeOK
<1>1. todo[w].do \in {"recheck", "clear"} /\ todo'[w].do = "idle"
      /\ \A v \in Worker : v # w => todo'[v] = todo[v]
  BY DEF Recheck, Idle
<1>2. Unreachable' = Unreachable
  BY DEF Recheck, record, Unreachable
<1>3. RecordBehindOutbox' /\ NewestNoted'
  BY <1>1 DEF Recheck, record, rows, RecordBehindOutbox, NewestNoted
<1>4. \/ sent' \in {"unknown", Say(Unreachable)}
      \/ todo[w].do = "clear" /\ sent' = "clear" /\ sent = "clear"
  BY DEF Recheck, Recorded, Told, Say, Unreachable
<1>5. Owed'
  <2>1. CASE sent' \in {"unknown", Say(Unreachable)}
    BY <1>2, <2>1 DEF Owed, Say
  <2>2. CASE todo[w].do = "clear" /\ sent' = "clear" /\ sent = "clear"
    BY <1>1, <1>2, <2>2 DEF Owed
  <2>3. QED
    BY <1>4, <2>1, <2>2
<1>6. QED
  BY <1>3, <1>5

\* Start-up: the fold writes the newest failure into the record, or leaves it
\* unnoted, and the seed tells the mark as it then is.
LEMMA RestartKeeps ==
    ASSUME MarkInv, NEW seeded \in BOOLEAN, NEW noted \in BOOLEAN, Restart(seeded, noted)
    PROVE  RecordBehindOutbox' /\ NewestNoted' /\ Owed'
<1> USE DEF MarkInv, MarkTypeOK
<1>1. \A w \in Worker : todo'[w].do = "idle"
  BY DEF Restart, Idle
<1>2. failedRow' = failedRow
      /\ (undelivered' = failedRow \/ (undelivered' = undelivered /\ unnoted'))
  <2>1. CASE FoldFresh
    BY <2>1 DEF Restart, rows
  <2>2. CASE ~FoldFresh
    BY <2>2 DEF Restart, FoldFresh, rows, RecordBehindOutbox, Time
  <2>3. QED
    BY <2>1, <2>2
<1>3. sent' = Say(Unreachable')
  BY DEF Restart
<1>4. QED
  BY <1>1, <1>2, <1>3 DEF RecordBehindOutbox, NewestNoted, Owed, Say, Time

\* Every step keeps the invariant.
LEMMA MarkStepKeeps == ASSUME MarkInv, [MarkNext]_markVars PROVE MarkInv'
<1> USE DEF MarkInv
<1>1. ASSUME NEW w \in Worker, RowSent(w) PROVE RecordBehindOutbox' /\ NewestNoted' /\ Owed'
  <2>1. todo[w].do = "idle" /\ todo'[w].do = "delivered"
        /\ \A v \in Worker : v # w => todo'[v] = todo[v]
    BY <1>1 DEF RowSent, Idle, MarkTypeOK
  <2>2. QED
    BY <1>1, <2>1 DEF RowSent, record, RecordBehindOutbox, NewestNoted, Owed, Unreachable
<1>2. ASSUME NEW w \in Worker, NoteFails(w) PROVE RecordBehindOutbox' /\ NewestNoted' /\ Owed'
  <2>1. todo[w].do \in {"undelivered", "delivered"} /\ todo'[w].do = "idle"
        /\ \A v \in Worker : v # w => todo'[v] = todo[v]
    BY <1>2 DEF NoteFails, Idle, MarkTypeOK
  <2>2. QED
    BY <1>2, <2>1 DEF NoteFails, record, rows, RecordBehindOutbox, NewestNoted, Owed, Unreachable
<1>3. ASSUME Attach \/ Tick \/ UNCHANGED markVars PROVE RecordBehindOutbox' /\ NewestNoted' /\ Owed'
  <2>1. UNCHANGED <<undelivered, passive, delivered, failedRow, sent, todo, unnoted>>
    BY <1>3 DEF Attach, Tick, markVars, record, rows
  <2>2. Unreachable' = Unreachable
    BY <2>1 DEF Unreachable
  <2>3. RecordBehindOutbox' /\ NewestNoted'
    BY <2>1 DEF RecordBehindOutbox, NewestNoted
  <2>4. QED
    BY <2>1, <2>2, <2>3 DEF Owed
<1>4. QED
  BY <1>1, <1>2, <1>3, MarkTypeStep, GiveUpKeeps, NoteUndeliveredKeeps, AnswerKeeps, RecheckKeeps,
     RestartKeeps DEF MarkNext

\* The invariant holds in every reachable state.
LEMMA MarkInvariant == MarkSpec => []MarkInv
BY MarkInitKeeps, MarkStepKeeps, PTL DEF MarkSpec

-----------------------------------------------------------------------------
\* recheckUnreachable: in whatever order workers write the record and recompute
\* the mark, once they are done subscribers were told the mark as it is.
THEOREM MarkToldAgrees == MarkSpec => []ToldAgrees
<1>1. MarkInv => ToldAgrees
  BY DEF MarkInv, MarkTypeOK, Owed, ToldAgrees, Settled, Idle, Say
<1>2. QED
  BY <1>1, MarkInvariant, PTL

\* Unreachable and foldOutboxIntoMarks: no failure is missed, and no peer that
\* answered later than every failure is marked, restarts at any step included.
THEOREM MarkIsExact == MarkSpec => []MarkExact
<1>1. MarkInv => NoMarkMissed
  BY DEF MarkInv, MarkTypeOK, NewestNoted, NoMarkMissed, Settled, Idle, Unreachable, Time
<1>2. MarkInv => NoStaleMark
  BY DEF MarkInv, MarkTypeOK, RecordBehindOutbox, NoStaleMark, Unreachable, Time
<1>3. MarkInv => MarkExact
  BY <1>1, <1>2 DEF MarkExact
<1>4. QED
  BY <1>3, MarkInvariant, PTL

-----------------------------------------------------------------------------
(* The circuit *)


RouteType == [known : BOOLEAN, gen : 0..MaxGen, warm : BOOLEAN, window : BOOLEAN,
              deciding : BOOLEAN]
ReqType == [at : {"idle", "waiting", "connected", "cut"}, tag : 0..MaxGen,
            armed : BOOLEAN, heard : BOOLEAN]
Places == {"none", "called", "due", "clear", "begun", "proved", "checked"}
DecType == [at : Places, moved : BOOLEAN]

Types ==
    /\ removed \in BOOLEAN /\ gone \in BOOLEAN
    /\ route \in RouteType
    /\ req \in [Request -> ReqType]
    /\ dec \in [Decision -> DecType]

Own == {"begun", "proved", "checked"}
Waiting == {"due", "clear"}

\* A forgotten peer has the empty entry.
Unkept == gone => route = Fresh

\* The flag belongs to one decision, which is about the route in use: nobody
\* else can raise the generation under it.
OwnersHoldFlag ==
    ~gone => \A d \in Decision :
        dec[d].at \in Own => route.deciding /\ Tag(d) = route.gen /\ spent = 0
OneOwner == ~gone => \A c, d \in Decision : dec[c].at \in Own /\ dec[d].at \in Own => c = d

\* A decision on its way to the flag was overtaken by a renewal only if the
\* window which that renewal opened is still open.
OvertakenInWindow ==
    ~gone => \A d \in Decision : dec[d].at \in Waiting => Tag(d) = route.gen \/ route.window

SpentInWindow == spent \in {0, 1} /\ (spent = 1 /\ ~gone => route.window)

\* A request has a decision about its failure only when it has failed, and one
\* about the cut only when the timer has run out.
NoneYet ==
    \A r \in Request :
        /\ req[r].at \in {"waiting", "connected"} => dec[<<r, "fail">>].at = "none"
        /\ req[r].at = "waiting" /\ req[r].armed => dec[<<r, "cut">>].at = "none"

RenewInv ==
    /\ Types /\ NoneYet /\ Unkept /\ OwnersHoldFlag /\ OneOwner /\ OvertakenInWindow /\ SpentInWindow
    /\ CutMeansRenewed /\ FlagHasOwner

-----------------------------------------------------------------------------
(* Types.                                                                  *)

\* The records a peer and a decision start from have their types.
LEMMA FreshTyped == Fresh \in RouteType /\ Done \in DecType
BY MaxGenAssumption DEF Fresh, RouteType, Done, DecType, Places

\* A decision belongs to a request.
LEMMA DecisionParts == \A d \in Decision : d[1] \in Request
BY DEF Decision

\* The entry a step reads is a route, and so is the one it leaves (state).
LEMMA EntryTyped == ASSUME Types PROVE Entry \in RouteType
BY FreshTyped DEF Entry, Types

\* Keep leaves routes of the right type.
LEMMA KeepTyped ==
    ASSUME Types, NEW s \in RouteType, Keep(s) PROVE route' \in RouteType
BY DEF Keep, Types, RouteType

\* A decision that moves to another step keeps its type.
LEMMA AtTyped ==
    ASSUME Types, NEW d \in Decision, NEW where \in Places, At(d, where)
    PROVE  dec' \in [Decision -> DecType]
BY DEF At, Types, DecType

\* A decision that ends keeps its type.
LEMMA EndTyped ==
    ASSUME Types, NEW d \in Decision, End(d) PROVE dec' \in [Decision -> DecType]
BY FreshTyped DEF End, Types

\* Requests and the book keep their types.
LEMMA RequestTypes ==
    ASSUME Types, NEW r \in Request,
           Start(r) \/ GotConn(r) \/ Answered(r) \/ CutTimer(r) \/ Fails(r) \/ CutReturns(r)
    PROVE  Types'
<1>0. <<r, "cut">> \in Decision /\ <<r, "fail">> \in Decision
  BY DEF Decision, Kinds
<1>1. CASE Start(r)
  <2>1. Entry.gen \in 0..MaxGen /\ Entry.warm \in BOOLEAN
    BY EntryTyped DEF RouteType
  <2>2. QED
    BY <1>1, <2>1 DEF Start, Types, ReqType
<1>2. CASE GotConn(r)
  BY <1>2 DEF GotConn, Types, ReqType
<1>3. CASE Answered(r)
  <2>1. PICK b \in BOOLEAN : Keep([Entry EXCEPT !.warm = b])
    BY <1>3, EntryTyped DEF Answered, RouteType
  <2>2. [Entry EXCEPT !.warm = b] \in RouteType
    BY EntryTyped DEF RouteType
  <2>3. route' \in RouteType
    BY <2>1, <2>2, KeepTyped
  <2>4. req' \in [Request -> ReqType]
    BY <1>3 DEF Answered, Types, ReqType
  <2>5. QED
    BY <1>3, <2>3, <2>4 DEF Answered, Types
<1>4. CASE CutTimer(r)
  <2>1. dec' \in [Decision -> DecType]
    BY <1>0, <1>4 DEF CutTimer, Types, DecType, Places
  <2>2. req' \in [Request -> ReqType]
    BY <1>4 DEF CutTimer, Types, ReqType
  <2>3. QED
    BY <1>4, <2>1, <2>2 DEF CutTimer, Types
<1>5. CASE Fails(r)
  <2>1. dec' \in [Decision -> DecType]
    BY <1>0, <1>5 DEF Fails, Types, DecType, Places
  <2>2. req' \in [Request -> ReqType]
    BY <1>5 DEF Fails, Types, ReqType
  <2>3. QED
    BY <1>5, <2>1, <2>2 DEF Fails, Types
<1>6. CASE CutReturns(r)
  BY <1>6 DEF CutReturns, Types, ReqType
<1>7. QED
  BY <1>1, <1>2, <1>3, <1>4, <1>5, <1>6

\* Releasing the flag keeps the types, whoever does it.
LEMMA ReleaseTyped == ASSUME Types, Release PROVE route' \in RouteType
<1>1. [Entry EXCEPT !.deciding = FALSE] \in RouteType
  BY EntryTyped DEF RouteType
<1>2. QED
  BY <1>1, KeepTyped DEF Release

\* So do the decisions.
LEMMA DecisionTypes ==
    ASSUME Types, NEW d \in Decision, Decide(d) PROVE Types'
<1>1. ASSUME Keep(Entry) PROVE route' \in RouteType
  BY <1>1, EntryTyped, KeepTyped
<1>2. CASE Due(d)
  <2>1. dec' \in [Decision -> DecType]
    BY <1>2, AtTyped, EndTyped DEF Due, Places
  <2>2. QED
    BY <1>1, <1>2, <2>1 DEF Due, Types
<1>3. CASE CallCheck(d)
  <2>1. dec' \in [Decision -> DecType]
    BY <1>3, AtTyped, EndTyped DEF CallCheck, Places
  <2>2. QED
    BY <1>3, <2>1 DEF CallCheck, Types
<1>4. CASE Begin(d)
  <2>1. dec' \in [Decision -> DecType]
    BY <1>4, AtTyped, EndTyped DEF Begin, Places
  <2>2. [Entry EXCEPT !.deciding = TRUE] \in RouteType
    BY EntryTyped DEF RouteType
  <2>3. route' \in RouteType
    BY <1>1, <1>4, <2>2, KeepTyped DEF Begin
  <2>4. QED
    BY <1>4, <2>1, <2>3 DEF Begin, Types
<1>5. CASE MoveOn(d)
  BY <1>5, ReleaseTyped DEF MoveOn, Types, DecType, Places
<1>6. CASE Prove(d)
  <2>1. dec' \in [Decision -> DecType]
    BY <1>6, AtTyped DEF Prove, Places
  <2>2. QED
    BY <1>6, <2>1 DEF Prove, Types
<1>7. CASE NoProof(d)
  BY <1>7, ReleaseTyped, EndTyped DEF NoProof, Types
<1>8. CASE CheckAgain(d)
  <2>1. dec' \in [Decision -> DecType]
    BY <1>8, AtTyped, EndTyped DEF CheckAgain, Places
  <2>2. route' \in RouteType
    BY <1>1, <1>8, ReleaseTyped DEF CheckAgain
  <2>3. QED
    BY <1>8, <2>1, <2>2 DEF CheckAgain, Types
<1>9. CASE Renew(d)
  <2> DEFINE new == [Entry EXCEPT !.deciding = FALSE, !.gen = Raise(@), !.window = TRUE,
                                  !.warm = FALSE]
  <2>0. Raise(Entry.gen) \in 0..MaxGen
    BY <1>9, EntryTyped, MaxGenAssumption DEF RouteType, Renew, Raise
  <2>1. new \in RouteType
    BY <2>0, EntryTyped DEF RouteType
  <2>2. route' \in RouteType
    <3> HIDE DEF new
    <3>1. Keep(new)
      BY <1>9 DEF Renew, new
    <3>2. QED
      BY <2>1, <3>1, KeepTyped
  <2>3. dec' \in [Decision -> DecType]
    BY <1>9, EndTyped DEF Renew
  <2>4. req' \in [Request -> ReqType]
    BY <1>9, DecisionParts DEF Renew, Types, ReqType
  <2>5. QED
    BY <1>9, <2>2, <2>3, <2>4 DEF Renew, Types
<1>10. QED
  BY <1>2, <1>3, <1>4, <1>5, <1>6, <1>7, <1>8, <1>9 DEF Decide

\* Everything else is left to the rest of the daemon.
LEMMA OtherTypes ==
    ASSUME Types, Cools \/ WindowEnds \/ Arm \/ Remove \/ Forget PROVE Types'
<1>1. CASE Cools
  BY <1>1 DEF Cools, Types, RouteType
<1>2. CASE WindowEnds
  BY <1>2 DEF WindowEnds, Types, RouteType
<1>3. CASE Arm
  <2>1. [Entry EXCEPT !.window = TRUE] \in RouteType
    BY EntryTyped DEF RouteType
  <2>2. QED
    BY <1>3, <2>1, KeepTyped DEF Arm, Types
<1>4. CASE Remove
  BY <1>4 DEF Remove, Types
<1>5. CASE Forget
  BY <1>5, FreshTyped DEF Forget, Types
<1>6. QED
  BY <1>1, <1>2, <1>3, <1>4, <1>5

-----------------------------------------------------------------------------
(* What the steps do to the flag, the generation and the window.           *)

\* Nobody takes or lets go of the flag, and the generation stays.
Quiet ==
    /\ ~gone /\ ~gone' /\ spent' = spent
    /\ route'.gen = route.gen /\ route'.deciding = route.deciding
    /\ route.window => route'.window
    /\ \A d \in Decision :
         /\ dec'[d].at \in Own <=> dec[d].at \in Own
         /\ dec'[d].at \in Own => req'[d[1]].tag = Tag(d)
         /\ dec'[d].at \in Waiting =>
              \/ req'[d[1]].tag = route.gen
              \/ dec[d].at \in Waiting /\ req'[d[1]].tag = Tag(d)
    /\ \A r \in Request : req'[r].at = "cut" => req[r].at = "cut" /\ req'[r].tag = req[r].tag

\* The owner d lets go of the flag and ends or starts over.
LetsGo(d) ==
    /\ ~gone /\ ~gone' /\ spent' = spent /\ req' = req
    /\ dec[d].at \in Own
    /\ route'.gen = route.gen /\ ~route'.deciding /\ route'.window = route.window
    /\ dec'[d].at \notin Own \cup Waiting
    /\ \A c \in Decision \ {d} : dec'[c] = dec[c]

\* A step that moves neither flag nor generation keeps the invariant.
LEMMA QuietKeeps == ASSUME RenewInv, Types', NoneYet', Quiet PROVE RenewInv'
<1>1. Unkept'
  BY DEF Quiet, Unkept
<1>2. OwnersHoldFlag' /\ OneOwner'
  BY DEF RenewInv, Quiet, OwnersHoldFlag, OneOwner, Tag
<1>3. OvertakenInWindow'
  BY DEF RenewInv, Quiet, OvertakenInWindow, Tag
<1>4. SpentInWindow' /\ CutMeansRenewed'
  BY DEF RenewInv, Quiet, SpentInWindow, CutMeansRenewed
<1>5. FlagHasOwner'
  BY DEF RenewInv, Quiet, FlagHasOwner, Own
<1>6. QED
  BY <1>1, <1>2, <1>3, <1>4, <1>5 DEF RenewInv

\* Nor does letting go: no other decision holds the flag.
LEMMA LetsGoKeeps ==
    ASSUME RenewInv, Types', NoneYet', NEW d \in Decision, LetsGo(d) PROVE RenewInv'
<1>1. \A c \in Decision : dec'[c].at \notin Own
  BY DEF RenewInv, LetsGo, OneOwner
<1>2. Unkept' /\ OwnersHoldFlag' /\ OneOwner'
  BY <1>1 DEF LetsGo, Unkept, OwnersHoldFlag, OneOwner
<1>3. OvertakenInWindow'
  BY DEF RenewInv, LetsGo, OvertakenInWindow, Tag
<1>4. SpentInWindow' /\ CutMeansRenewed' /\ FlagHasOwner'
  BY DEF RenewInv, LetsGo, SpentInWindow, CutMeansRenewed, FlagHasOwner
<1>5. QED
  BY <1>2, <1>3, <1>4 DEF RenewInv

\* Once the peer is forgotten nothing is kept (routeBook.state).
LEMMA GoneKeeps ==
    ASSUME RenewInv, Types', NoneYet', gone', route' = Fresh, spent' = spent PROVE RenewInv'
BY DEF RenewInv, Unkept, OwnersHoldFlag, OneOwner, OvertakenInWindow, SpentInWindow,
   CutMeansRenewed, FlagHasOwner, Fresh

\* Steps that do not touch the routes leave a removed peer forgotten.
LEMMA GoneStays ==
    ASSUME RenewInv, gone, Next PROVE gone' /\ route' = Fresh /\ spent' = spent
<1>0. route = Fresh /\ ~route.warm /\ ~route.window
  BY DEF RenewInv, Unkept, Fresh
<1>1. CASE Requests
  BY <1>0, <1>1 DEF Requests, Start, GotConn, Answered, CutTimer, Fails, CutReturns, Keep
<1>2. ASSUME NEW d \in Decision, Decide(d) PROVE gone' /\ route' = Fresh /\ spent' = spent
  BY <1>0, <1>2 DEF Decide, Due, CallCheck, Begin, MoveOn, Prove, NoProof, CheckAgain, Renew,
     Release, Keep
<1>3. CASE Cools \/ WindowEnds \/ Arm \/ Remove \/ Forget
  BY <1>0, <1>3 DEF Cools, WindowEnds, Arm, Remove, Forget, Keep
<1>4. QED
  BY <1>1, <1>2, <1>3 DEF Next
-----------------------------------------------------------------------------
(* The steps of a peer that is not forgotten.                              *)

\* A live entry is the one in the book.
LEMMA LiveEntry ==
    ASSUME ~gone PROVE Entry = route /\ \A s : Keep(s) => route' = [s EXCEPT !.known = TRUE]
BY DEF Entry, Keep

\* Requests come and go, answer and fail without touching the flag; a tag is
\* taken only when no decision about the request is left.
LEMMA RequestQuiet ==
    ASSUME RenewInv, ~gone, NEW r \in Request,
           Start(r) \/ GotConn(r) \/ Answered(r) \/ CutTimer(r) \/ Fails(r) \/ CutReturns(r)
    PROVE  Quiet
<1> USE DEF RenewInv, Types
<1>0. /\ <<r, "cut">> \in Decision /\ <<r, "fail">> \in Decision
      /\ \A d \in Decision : d[1] \in Request /\ d[2] \in Kinds /\ d = <<d[1], d[2]>>
  BY DEF Decision, Kinds
<1>1. CASE Start(r)
  <2>1. \A d \in Decision : d[1] = r => dec[d] = Done
    BY <1>0, <1>1 DEF Start
  <2>2. \A d \in Decision : d[1] = r => dec[d].at \notin Own \cup Waiting
    BY <2>1 DEF Done, Own, Waiting
  <2>3. \A x \in Request : x # r => req'[x] = req[x]
    BY <1>1 DEF Start
  <2>4. req'[r].at = "waiting"
    BY <1>1 DEF Start
  <2>5. QED
    BY <1>0, <1>1, <2>2, <2>3, <2>4 DEF Start, Quiet, Tag
<1>2. CASE GotConn(r)
  BY <1>0, <1>2 DEF GotConn, Quiet, Tag, ReqType
<1>3. CASE Answered(r)
  <2>1. \A x \in Request : req'[x].tag = req[x].tag /\ (req'[x].at = "cut" => req[x].at = "cut")
    BY <1>3 DEF Answered, ReqType
  <2>2. route'.gen = route.gen /\ route'.deciding = route.deciding /\ route'.window = route.window
    <3>1. PICK b \in BOOLEAN : Keep([route EXCEPT !.warm = b])
      BY <1>3, LiveEntry DEF Answered, RouteType
    <3>2. route' = [[route EXCEPT !.warm = b] EXCEPT !.known = TRUE]
      BY <3>1, LiveEntry
    <3>3. QED
      BY <3>2 DEF RouteType
  <2>3. QED
    BY <1>0, <1>3, <2>1, <2>2 DEF Answered, Quiet, Tag
<1>4. CASE CutTimer(r)
  <2>1. \A x \in Request : req'[x].tag = req[x].tag /\ req'[x].at = req[x].at
    BY <1>4 DEF CutTimer, ReqType
  <2>2. \A d \in Decision : d # <<r, "cut">> => dec'[d] = dec[d]
    BY <1>0, <1>4 DEF CutTimer
  <2>3. dec[<<r, "cut">>].at = "none" /\ dec'[<<r, "cut">>].at = "called"
    BY <1>0, <1>4 DEF CutTimer, DecType, NoneYet
  <2>4. QED
    BY <1>0, <1>4, <2>1, <2>2, <2>3 DEF CutTimer, Quiet, Tag, Own, Waiting
<1>5. CASE Fails(r)
  <2>1. \A x \in Request : req'[x].tag = req[x].tag /\ (req'[x].at = "cut" => req[x].at = "cut")
    BY <1>5 DEF Fails, ReqType
  <2>2. \A d \in Decision : d # <<r, "fail">> => dec'[d] = dec[d]
    BY <1>0, <1>5 DEF Fails
  <2>3. dec[<<r, "fail">>].at = "none" /\ dec'[<<r, "fail">>].at \in {"none", "called"}
    BY <1>0, <1>5 DEF Fails, DecType, NoneYet
  <2>4. QED
    BY <1>0, <1>5, <2>1, <2>2, <2>3 DEF Fails, Quiet, Tag, Own, Waiting
<1>6. CASE CutReturns(r)
  BY <1>0, <1>6 DEF CutReturns, Quiet, Tag, ReqType
<1>7. QED
  BY <1>1, <1>2, <1>3, <1>4, <1>5, <1>6
\* Decisions end, and a request that fails or is answered waits no longer.
LEMMA NoneYetKept == ASSUME Types, NoneYet, Next PROVE NoneYet'
<1> USE DEF Types, NoneYet
<1>0. /\ \A r \in Request : <<r, "cut">> \in Decision /\ <<r, "fail">> \in Decision
      /\ \A d \in Decision : d[1] \in Request
  BY DEF Decision, Kinds
<1>1. ASSUME NEW r \in Request,
             Start(r) \/ GotConn(r) \/ Answered(r) \/ CutTimer(r) \/ Fails(r) \/ CutReturns(r)
      PROVE  NoneYet'
  <2>1. CASE Start(r)
    <3>1. \A k \in Kinds : dec[<<r, k>>].at = "none"
      BY <2>1 DEF Start, Done
    <3>2. QED
      BY <2>1, <3>1 DEF Start, Kinds
  <2>2. CASE GotConn(r) \/ CutReturns(r)
    BY <2>2 DEF GotConn, CutReturns, ReqType
  <2>3. CASE Answered(r)
    BY <2>3 DEF Answered, ReqType
  <2>4. CASE CutTimer(r)
    BY <1>0, <2>4 DEF CutTimer, ReqType
  <2>5. CASE Fails(r)
    BY <1>0, <2>5 DEF Fails, ReqType
  <2>6. QED
    BY <1>1, <2>1, <2>2, <2>3, <2>4, <2>5
<1>2. ASSUME NEW d \in Decision, Decide(d) PROVE NoneYet'
  <2>1. dec[d].at # "none" /\ \A c \in Decision : c # d => dec'[c] = dec[c]
    BY <1>2 DEF Decide, Due, CallCheck, Begin, MoveOn, Prove, NoProof, CheckAgain, Renew, At, End
  <2>2. \A r \in Request : req'[r] = req[r] \/ req'[r].at = "cut"
    BY <1>0, <1>2 DEF Decide, Due, CallCheck, Begin, MoveOn, Prove, NoProof, CheckAgain, Renew, ReqType
  <2>3. QED
    BY <1>0, <2>1, <2>2
<1>3. CASE Cools \/ WindowEnds \/ Arm \/ Remove \/ Forget
  BY <1>3 DEF Cools, WindowEnds, Arm, Remove, Forget
<1>4. QED
  BY <1>1, <1>2, <1>3 DEF Next, Requests

\* Looking at the request, at the call and at the own side leaves the flag alone.
LEMMA LookQuiet ==
    ASSUME RenewInv, ~gone, NEW d \in Decision, Due(d) \/ CallCheck(d) \/ Prove(d)
    PROVE  Quiet
<1> USE DEF RenewInv, Types
<1>1. req' = req /\ ~gone' /\ spent' = spent /\ \A c \in Decision : c[1] \in Request
  BY DecisionParts DEF Due, CallCheck, Prove
<1>2. route'.gen = route.gen /\ route'.deciding = route.deciding /\ route'.window = route.window
  BY LiveEntry DEF Due, CallCheck, Prove, RouteType
<1>3. \A c \in Decision : c # d => dec'[c] = dec[c]
  BY DEF Due, CallCheck, Prove, At, End
<1>4. CASE Due(d)
  <2>1. dec[d].at = "called" /\ dec'[d].at \in {"none", "due"}
    BY <1>4 DEF Due, At, End, Done, DecType
  <2>2. dec'[d].at = "due" => Tag(d) = route.gen
    BY <1>4, LiveEntry DEF Due, At, End, Done
  <2>3. QED
    BY <1>1, <1>2, <1>3, <2>1, <2>2 DEF Quiet, Own, Waiting, Tag
<1>5. CASE CallCheck(d)
  <2>1. dec[d].at = "due" /\ dec'[d].at \in {"none", "clear"}
    BY <1>5 DEF CallCheck, At, End, Done, DecType
  <2>2. QED
    BY <1>1, <1>2, <1>3, <2>1 DEF Quiet, Own, Waiting, Tag
<1>6. CASE Prove(d)
  <2>1. dec[d].at = "begun" /\ dec'[d].at \in {"proved", "checked"}
    BY <1>6 DEF Prove, At, DecType
  <2>2. QED
    BY <1>1, <1>2, <1>3, <2>1 DEF Quiet, Own, Waiting, Tag
<1>7. QED
  BY <1>4, <1>5, <1>6

\* The ways out of a decision that began.
LEMMA OutLetsGo ==
    ASSUME RenewInv, ~gone, NEW d \in Decision, MoveOn(d) \/ NoProof(d) \/ CheckAgain(d)
    PROVE  LetsGo(d) \/ Quiet
<1> USE DEF RenewInv, Types
<1>1. req' = req /\ ~gone' /\ spent' = spent /\ dec[d].at \in Own
      /\ \A c \in Decision : c[1] \in Request
  BY DecisionParts DEF MoveOn, NoProof, CheckAgain, Own
<1>2. \A c \in Decision : c # d => dec'[c] = dec[c]
  BY DEF MoveOn, NoProof, CheckAgain, At, End
<1>3. CASE Release /\ dec'[d].at \notin Own \cup Waiting
  <2>1. route'.gen = route.gen /\ ~route'.deciding /\ route'.window = route.window
    BY <1>3, LiveEntry DEF Release, RouteType
  <2>2. QED
    BY <1>1, <1>2, <1>3, <2>1 DEF LetsGo
<1>4. CASE Keep(Entry) /\ dec'[d].at = "checked"
  <2>1. route'.gen = route.gen /\ route'.deciding = route.deciding /\ route'.window = route.window
    BY <1>4, LiveEntry DEF RouteType
  <2>2. QED
    BY <1>1, <1>2, <1>4, <2>1 DEF Quiet, Own, Waiting, Tag
<1>5. QED
  BY <1>3, <1>4 DEF MoveOn, NoProof, CheckAgain, At, End, Done, DecType, Own, Waiting
\* begin: whoever finds the flag down and the window closed takes the flag, and
\* outside the window its tag is the generation in use.
LEMMA BeginKeeps ==
    ASSUME RenewInv, Types', NoneYet', ~gone, NEW d \in Decision, Begin(d)
    PROVE  RenewInv'
<1> USE DEF RenewInv, Types
<1>0. req' = req /\ ~gone' /\ spent' = spent /\ dec[d].at = "clear" /\ Entry = route
      /\ \A c \in Decision : c[1] \in Request
  BY DecisionParts, LiveEntry DEF Begin
<1>1. \A c \in Decision : c # d => dec'[c] = dec[c]
  BY DEF Begin, At, End
<1>2. CASE ~Free(route)
  <2>1. route'.gen = route.gen /\ route'.deciding = route.deciding /\ route'.window = route.window
    BY <1>0, <1>2, LiveEntry DEF Begin, RouteType
  <2>2. dec'[d].at = "none"
    BY <1>0, <1>2 DEF Begin, End, Done
  <2>3. Quiet
    BY <1>0, <1>1, <2>1, <2>2 DEF Quiet, Own, Waiting, Tag
  <2>4. QED
    BY <2>3, QuietKeeps
<1>3. CASE Free(route)
  <2>1. route'.gen = route.gen /\ route'.deciding /\ ~route'.window
    BY <1>0, <1>3, LiveEntry DEF Begin, Free, RouteType
  <2>2. dec'[d].at = "begun"
    BY <1>0, <1>3 DEF Begin, At, DecType
  <2>3. ~route.deciding /\ ~route.window
    BY <1>3 DEF Free
  <2>4. Tag(d) = route.gen /\ spent = 0
    BY <1>0, <2>3 DEF OvertakenInWindow, SpentInWindow, Waiting
  <2>5. \A c \in Decision : dec[c].at \notin Own
    BY <1>0, <2>3 DEF OwnersHoldFlag
  <2>6. Unkept' /\ OwnersHoldFlag' /\ OneOwner'
    BY <1>0, <1>1, <2>1, <2>2, <2>4, <2>5 DEF Unkept, OwnersHoldFlag, OneOwner, Tag
  <2>7. OvertakenInWindow' /\ SpentInWindow' /\ CutMeansRenewed'
    BY <1>0, <1>1, <2>1, <2>2, <2>3, <2>4
       DEF OvertakenInWindow, SpentInWindow, CutMeansRenewed, Waiting, Tag
  <2>8. FlagHasOwner'
    BY <2>2 DEF FlagHasOwner
  <2>9. QED
    BY <2>6, <2>7, <2>8
<1>4. QED
  BY <1>2, <1>3

\* renew: the owner raises the generation of the route its request failed on,
\* and leaves the window to keep out every decision it overtook.
LEMMA RenewKeeps ==
    ASSUME RenewInv, Types', NoneYet', ~gone, NEW d \in Decision, Renew(d)
    PROVE  RenewInv' /\ dec[d].at = "checked" /\ Tag(d) = route.gen
<1> USE DEF RenewInv, Types
<1>0. ~gone' /\ spent' = spent + 1 /\ dec[d].at = "checked" /\ Entry = route
      /\ \A c \in Decision : c[1] \in Request
  BY DecisionParts, LiveEntry DEF Renew
<1>1. \A c \in Decision : c # d => dec'[c] = dec[c]
  BY DEF Renew, End
<1>2. dec'[d].at = "none"
  BY DEF Renew, End, Done
<1>3. route'.gen = route.gen + 1 /\ ~route'.deciding /\ route'.window
  <2> DEFINE new == [route EXCEPT !.deciding = FALSE, !.gen = Raise(@), !.window = TRUE,
                                  !.warm = FALSE]
  <2>0. Raise(route.gen) \in Nat
    BY DEF RouteType, Raise
  <2>1. new.gen = route.gen + 1 /\ ~new.deciding /\ new.window
    BY DEF RouteType, Raise
  <2>2. Keep(new)
    BY <1>0 DEF Renew
  <2>3. new \in [known : BOOLEAN, gen : Nat, warm : BOOLEAN, window : BOOLEAN, deciding : BOOLEAN]
    BY <2>0 DEF RouteType
  <2> HIDE DEF new
  <2>4. route' = [new EXCEPT !.known = TRUE]
    BY <2>2, LiveEntry
  <2>5. QED
    BY <2>1, <2>3, <2>4
<1>4. Tag(d) = route.gen /\ spent = 0
  BY <1>0 DEF OwnersHoldFlag, Own
<1>5. \A c \in Decision : dec'[c].at \notin Own
  BY <1>0, <1>1, <1>2 DEF OneOwner, Own
<1>6. \A r \in Request :
        /\ req'[r].tag = req[r].tag
        /\ req'[r].at = "cut" => req[r].at = "cut" \/ r = d[1]
  BY <1>0 DEF Renew, ReqType
<1>7. Unkept' /\ OwnersHoldFlag' /\ OneOwner' /\ OvertakenInWindow' /\ SpentInWindow'
  BY <1>0, <1>3, <1>4, <1>5 DEF Unkept, OwnersHoldFlag, OneOwner, OvertakenInWindow, SpentInWindow
<1>8. CutMeansRenewed'
  <2>1. route.gen \in Nat /\ \A r \in Request : req[r].tag \in Nat
    BY DEF RouteType, ReqType
  <2>2. QED
    BY <1>0, <1>3, <1>4, <1>6, <2>1 DEF CutMeansRenewed, Tag
<1>9. FlagHasOwner'
  BY <1>3 DEF FlagHasOwner
<1>10. QED
  BY <1>0, <1>4, <1>7, <1>8, <1>9

\* The rest of the daemon: a window ends only when no decision is between
\* finding its request failed and begin.
LEMMA OtherKeeps ==
    ASSUME RenewInv, Types', NoneYet', ~gone, Cools \/ WindowEnds \/ Arm \/ Remove \/ Forget
    PROVE  RenewInv' /\ route'.gen <= route.gen
<1> USE DEF RenewInv, Types
<1>0. route.gen \in Nat /\ \A c \in Decision : c[1] \in Request
  BY DecisionParts DEF RouteType
<1>1. CASE Cools \/ Arm \/ Remove
  <2>1. /\ route'.gen = route.gen /\ route'.deciding = route.deciding
        /\ route.window => route'.window
    BY <1>1, LiveEntry DEF Cools, Arm, Remove, RouteType
  <2>2. Quiet
    BY <1>0, <1>1, <2>1 DEF Quiet, Cools, Arm, Remove, Tag
  <2>3. QED
    BY <1>0, <2>1, <2>2, QuietKeeps
<1>2. CASE WindowEnds
  <2>1. /\ route'.gen = route.gen /\ route'.deciding = route.deciding
        /\ req' = req /\ dec' = dec /\ ~gone' /\ spent' = 0
        /\ \A d \in Decision : dec[d].at \notin Waiting
    BY <1>2 DEF WindowEnds, RouteType, Waiting
  <2>2. OwnersHoldFlag' /\ OneOwner' /\ OvertakenInWindow'
    BY <2>1 DEF OwnersHoldFlag, OneOwner, OvertakenInWindow, Tag
  <2>3. Unkept' /\ SpentInWindow' /\ CutMeansRenewed' /\ FlagHasOwner'
    BY <2>1 DEF Unkept, SpentInWindow, CutMeansRenewed, FlagHasOwner
  <2>4. QED
    BY <1>0, <2>1, <2>2, <2>3
<1>3. CASE Forget
  BY <1>0, <1>3, GoneKeeps DEF Forget, Fresh
<1>4. QED
  BY <1>1, <1>2, <1>3

RaisesFailedRoute ==
    route'.gen > route.gen => \E d \in Decision : dec[d].at = "checked" /\ Tag(d) = route.gen

\* Every step keeps the invariant and raises only the generation it is about.
LEMMA StepKeeps ==
    ASSUME RenewInv, [Next]_vars PROVE RenewInv' /\ RaisesFailedRoute
<1>0. route.gen \in Nat
  BY DEF RenewInv, Types, RouteType
<1>1. CASE UNCHANGED vars
  <2>1. RenewInv'
    BY <1>1 DEF vars, RenewInv, Types, NoneYet, Unkept, OwnersHoldFlag, OneOwner,
       OvertakenInWindow, SpentInWindow, CutMeansRenewed, FlagHasOwner, Tag
  <2>2. QED
    BY <1>0, <1>1, <2>1 DEF vars, RaisesFailedRoute
<1>2. CASE Next
  <2>1. Types' /\ NoneYet'
    BY <1>2, RequestTypes, DecisionTypes, OtherTypes, NoneYetKept DEF Next, Requests, RenewInv
  <2>2. CASE gone
    BY <1>0, <1>2, <2>1, <2>2, GoneStays, GoneKeeps DEF RaisesFailedRoute, RenewInv, Unkept
  <2>3. ASSUME ~gone, Quiet PROVE RenewInv' /\ RaisesFailedRoute
    BY <1>0, <2>1, <2>3, QuietKeeps DEF Quiet, RaisesFailedRoute
  <2>4. ASSUME ~gone, NEW d \in Decision, LetsGo(d) PROVE RenewInv' /\ RaisesFailedRoute
    BY <1>0, <2>1, <2>4, LetsGoKeeps DEF LetsGo, RaisesFailedRoute
  <2>5. CASE ~gone /\ Requests
    BY <2>3, <2>5, RequestQuiet DEF Requests
  <2>6. ASSUME ~gone, NEW d \in Decision, Decide(d) PROVE RenewInv' /\ RaisesFailedRoute
    <3>1. CASE Begin(d)
      <4>1. route'.gen = route.gen
        BY <2>6, <3>1, LiveEntry DEF Begin, RenewInv, Types, RouteType
      <4>2. QED
        BY <1>0, <2>1, <2>6, <3>1, <4>1, BeginKeeps DEF RaisesFailedRoute
    <3>2. CASE Renew(d)
      BY <2>1, <2>6, <3>2, RenewKeeps DEF RaisesFailedRoute
    <3>3. CASE Due(d) \/ CallCheck(d) \/ Prove(d)
      BY <2>3, <2>6, <3>3, LookQuiet
    <3>4. CASE MoveOn(d) \/ NoProof(d) \/ CheckAgain(d)
      BY <2>3, <2>4, <2>6, <3>4, OutLetsGo
    <3>5. QED
      BY <2>6, <3>1, <3>2, <3>3, <3>4 DEF Decide
  <2>7. CASE ~gone /\ (Cools \/ WindowEnds \/ Arm \/ Remove \/ Forget)
    <3>1. RenewInv' /\ route'.gen <= route.gen
      BY <2>1, <2>7, OtherKeeps
    <3>2. route'.gen \in Nat
      BY <2>1 DEF Types, RouteType
    <3>3. QED
      BY <1>0, <3>1, <3>2 DEF RaisesFailedRoute
  <2>8. QED
    BY <1>2, <2>2, <2>5, <2>6, <2>7 DEF Next
<1>3. QED
  BY <1>1, <1>2

\* Nothing has been sent, renewed or removed at the start.
LEMMA InitKeeps == Init => RenewInv
<1> SUFFICES ASSUME Init PROVE RenewInv
  OBVIOUS
<1>1. NoReq \in ReqType
  BY MaxGenAssumption DEF NoReq, ReqType
<1>2. \A d \in Decision : dec[d].at = "none"
  BY DEF Init, Done
<1>3. \A r \in Request : req[r].at = "idle"
  BY DEF Init, NoReq
<1>4. Types
  BY <1>1, FreshTyped DEF Init, Types
<1>5. NoneYet /\ OwnersHoldFlag /\ OneOwner /\ OvertakenInWindow /\ CutMeansRenewed
  BY <1>2, <1>3 DEF NoneYet, OwnersHoldFlag, OneOwner, OvertakenInWindow, CutMeansRenewed, Own, Waiting
<1>6. Unkept /\ SpentInWindow /\ FlagHasOwner
  BY DEF Init, Unkept, SpentInWindow, FlagHasOwner, Fresh
<1>7. QED
  BY <1>4, <1>5, <1>6 DEF RenewInv

\* The invariant holds in every reachable state.
LEMMA RenewInvariant == Spec => []RenewInv
BY InitKeeps, StepKeeps, PTL DEF Spec

-----------------------------------------------------------------------------
\* renew: a decision, however long it waited and whatever ran beside it, renews
\* only the route on which its own request failed.
THEOREM CircuitRenewsFailedRoute == Spec => RenewsFailedRoute
<1>1. RenewInv /\ [Next]_vars => [RaisesFailedRoute]_vars
  BY StepKeeps
<1>2. QED
  BY <1>1, RenewInvariant, PTL DEF Spec, RenewsFailedRoute, RaisesFailedRoute

\* begin and onRenew: decisions side by side share one renewal per window, and a
\* waiting request is cut only when there is a newer route to try.
THEOREM CircuitRenewOnce == Spec => []RenewOnce
<1>1. RenewInv => RenewOnce
  BY DEF RenewInv, RenewOnce, OnePerWindow, SpentInWindow
<1>2. QED
  BY <1>1, RenewInvariant, PTL

\* forget: decisions that outlive their peer leave nothing in the book.
THEOREM CircuitNoGhost == Spec => []NoGhost
<1>1. RenewInv => NoGhost
  BY DEF RenewInv, NoGhost, Unkept, Fresh
<1>2. QED
  BY <1>1, RenewInvariant, PTL

\* decideCircuitRenewal: the flag is never left up by a decision that is over.
THEOREM CircuitFlagHasOwner == Spec => []FlagHasOwner
<1>1. RenewInv => FlagHasOwner
  BY DEF RenewInv
<1>2. QED
  BY <1>1, RenewInvariant, PTL
=============================================================================
