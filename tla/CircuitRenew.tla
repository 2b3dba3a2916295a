---------------------------- MODULE CircuitRenew ----------------------------
(***************************************************************************)
(* Renewing the Tor circuit of one peer                                    *)
(* (backend/cmd/haomad/circuit_renew.go).  A request goes out under a tag  *)
(* that carries the route's generation.  One that times out, or has no     *)
(* connection after 30 s on a route that answered lately, starts a         *)
(* decision: many reads of the routeBook, the registry and the stream      *)
(* proxy, each under its own lock, with a sleep and a self-probe between   *)
(* them, at the end of which the generation is raised.  Decisions of       *)
(* several requests run side by side; the peer may be removed meanwhile.   *)
(***************************************************************************)
EXTENDS Naturals

CONSTANTS
    Request,    \* requests in flight at the same time
    MaxGen      \* bound on the generation

ASSUME MaxGenAssumption == MaxGen \in Nat \ {0}

VARIABLES
    removed,    \* the registry no longer has the peer
    gone,       \* routeBook.forget was called
    route,      \* the peer's routeState
    req,        \* the requests
    dec,        \* their decisions: after the cut timer, after the failure
    spent       \* renewals since the renewal window last ran out

vars == <<removed, gone, route, req, dec, spent>>

Kinds == {"cut", "fail"}
Decision == Request \X Kinds

\* known: the book has an entry; warm: it answered within ten minutes under
\* the current tag; window: nextRenewAt is in the future.
Fresh == [known |-> FALSE, gen |-> 0, warm |-> FALSE, window |-> FALSE, deciding |-> FALSE]
NoReq == [at |-> "idle", tag |-> 0, armed |-> FALSE, heard |-> FALSE]
Done == [at |-> "none", moved |-> FALSE]

\* Type correctness of the book entry, the requests and their decisions.
TypeOK ==
    /\ removed \in BOOLEAN /\ gone \in BOOLEAN
    /\ route \in [known : BOOLEAN, gen : 0..MaxGen, warm : BOOLEAN, window : BOOLEAN,
                  deciding : BOOLEAN]
    /\ req \in [Request -> [at : {"idle", "waiting", "connected", "cut"}, tag : 0..MaxGen,
                            armed : BOOLEAN, heard : BOOLEAN]]
    /\ dec \in [Decision -> [at : {"none", "called", "due", "clear", "begun", "proved",
                                   "checked"}, moved : BOOLEAN]]
    /\ spent \in 0..MaxGen

Init ==
    /\ removed = FALSE /\ gone = FALSE
    /\ route = Fresh
    /\ req = [r \in Request |-> NoReq]
    /\ dec = [d \in Decision |-> Done]
    /\ spent = 0

\* Mutant: a forgotten peer is entered again.
KeepAlways(s) == route' = [s EXCEPT !.known = TRUE]

\* routeBook.state: a forgotten peer gets an entry that nobody keeps.
Keep(s) == route' = IF gone THEN route ELSE [s EXCEPT !.known = TRUE]
Entry == IF gone THEN Fresh ELSE route

At(d, where) == dec' = [dec EXCEPT ![d].at = where]
End(d) == dec' = [dec EXCEPT ![d] = Done]
Tag(d) == req[d[1]].tag

-----------------------------------------------------------------------------
(* Requests: routeWatch.RoundTrip.                                         *)

\* httpClientForPeer takes the tag; the cut timer is armed on a warm route.
Start(r) ==
    /\ req[r].at = "idle" /\ ~removed
    /\ \A k \in Kinds : dec[<<r, k>>] = Done
    /\ req' = [req EXCEPT ![r] = [at |-> "waiting", tag |-> Entry.gen,
                                  armed |-> Entry.warm, heard |-> FALSE]]
    /\ UNCHANGED <<removed, gone, route, dec, spent>>

GotConn(r) ==
    /\ req[r].at = "waiting"
    /\ req' = [req EXCEPT ![r].at = "connected"]
    /\ UNCHANGED <<removed, gone, route, dec, spent>>

\* answered, from the headers or from a read of the body; every request of
\* the tag that began earlier has been answered meanwhile.
Answered(r) ==
    /\ req[r].at = "connected"
    /\ Keep([Entry EXCEPT !.warm = @ \/ req[r].tag = Entry.gen])
    /\ req' = [x \in Request |->
                  [req[x] EXCEPT !.at = IF x = r THEN "idle" ELSE @,
                                 !.heard = @ \/ req[x].tag = req[r].tag]]
    /\ UNCHANGED <<removed, gone, dec, spent>>

\* The cut timer runs out on a request without a connection.
CutTimer(r) ==
    /\ req[r].at = "waiting" /\ req[r].armed
    /\ req' = [req EXCEPT ![r].armed = FALSE]
    /\ dec' = [dec EXCEPT ![<<r, "cut">>].at = "called"]
    /\ UNCHANGED <<removed, gone, route, spent>>

\* RoundTrip fails: a timeout leads to a decision, other errors do not.
Fails(r) ==
    /\ req[r].at \in {"waiting", "connected"}
    /\ req' = [req EXCEPT ![r].at = "idle"]
    /\ \/ dec' = [dec EXCEPT ![<<r, "fail">>].at = "called"]
       \/ UNCHANGED dec
    /\ UNCHANGED <<removed, gone, route, spent>>

CutReturns(r) ==
    /\ req[r].at = "cut"
    /\ req' = [req EXCEPT ![r].at = "idle"]
    /\ UNCHANGED <<removed, gone, route, dec, spent>>

-----------------------------------------------------------------------------
(* Decisions: decideCircuitRenewal, one lock or one wait per step.         *)

\* Mutant: the tag of the failed request is not compared.
DueAnyTag(d) ==
    /\ dec[d].at = "called"
    /\ IF removed \/ req[d[1]].heard THEN End(d) ELSE At(d, "due")
    /\ Keep(Entry)
    /\ UNCHANGED <<removed, gone, req, spent>>

\* failed, or stillDue when the decision was moved to its own goroutine.
Due(d) ==
    /\ dec[d].at = "called"
    /\ IF removed \/ Tag(d) # Entry.gen \/ req[d[1]].heard THEN End(d) ELSE At(d, "due")
    /\ Keep(Entry)
    /\ UNCHANGED <<removed, gone, req, spent>>

\* What the proxy says of a call and the book of inbound envelopes may be
\* anything at any time: those answers are left open.
CallCheck(d) ==
    /\ dec[d].at = "due"
    /\ End(d) \/ At(d, "clear")
    /\ UNCHANGED <<removed, gone, route, req, spent>>

\* Mutant: a decision under way is not looked for.
FreeOutsideWindow(s) == ~s.window

\* begin: one decision at a time, none inside the window.
Free(s) == ~s.deciding /\ ~s.window

Begin(d) ==
    /\ dec[d].at = "clear"
    /\ IF Free(Entry)
       THEN Keep([Entry EXCEPT !.deciding = TRUE]) /\ At(d, "begun")
       ELSE Keep(Entry) /\ End(d)
    /\ UNCHANGED <<removed, gone, req, spent>>

Release == Keep([Entry EXCEPT !.deciding = FALSE])

\* A decision that would have to wait - other peers decided just now, or the
\* own side must be probed - starts over on its own goroutine.
MoveOn(d) ==
    /\ dec[d].at = "begun" /\ ~dec[d].moved
    /\ Release
    /\ dec' = [dec EXCEPT ![d] = [at |-> "called", moved |-> TRUE]]
    /\ UNCHANGED <<removed, gone, req, spent>>

\* The delay, and the proof that this side works: a recent envelope or a
\* self-probe.  The daemon's end cuts the delay short.
Prove(d) ==
    /\ dec[d].at = "begun"
    /\ At(d, IF dec[d].moved THEN "proved" ELSE "checked")
    /\ UNCHANGED <<removed, gone, route, req, spent>>

\* Mutant: a failed self-probe does not let go.
NoProofHolds(d) ==
    /\ dec[d].at = "begun" /\ dec[d].moved
    /\ End(d)
    /\ UNCHANGED <<removed, gone, route, req, spent>>

NoProof(d) ==
    /\ dec[d].at = "begun" /\ dec[d].moved
    /\ Release /\ End(d)
    /\ UNCHANGED <<removed, gone, req, spent>>

\* After the wait: stillDue once more, and the call once more.
CheckAgain(d) ==
    /\ dec[d].at = "proved"
    /\ \/ Release /\ End(d)
       \/ /\ Tag(d) = Entry.gen /\ ~req[d[1]].heard
          /\ Keep(Entry) /\ At(d, "checked")
    /\ UNCHANGED <<removed, gone, req, spent>>

Raise(g) == g + 1

\* renew, then onRenew: the waiting request is cut, a connected one is not.
Cuttable(d) == d[2] = "cut" /\ req[d[1]].at = "waiting"

Renew(d) ==
    /\ dec[d].at = "checked"
    /\ Entry.gen < MaxGen
    /\ Keep([Entry EXCEPT !.deciding = FALSE, !.gen = Raise(@), !.window = TRUE, !.warm = FALSE])
    /\ req' = IF Cuttable(d) THEN [req EXCEPT ![d[1]].at = "cut"] ELSE req
    /\ End(d)
    /\ spent' = IF gone THEN spent ELSE spent + 1
    /\ UNCHANGED <<removed, gone>>

-----------------------------------------------------------------------------
(* The rest of the daemon.                                                 *)

\* A route that has not answered for ten minutes is no longer warm.
Cools ==
    /\ route.warm
    /\ route' = [route EXCEPT !.warm = FALSE]
    /\ UNCHANGED <<removed, gone, req, dec, spent>>

\* Three minutes and more pass; no decision stays that long between finding
\* the request failed and begin.
WindowEnds ==
    /\ route.window /\ \A d \in Decision : dec[d].at \notin {"due", "clear"}
    /\ route' = [route EXCEPT !.window = FALSE]
    /\ spent' = 0
    /\ UNCHANGED <<removed, gone, req, dec>>

\* A circuit renewed by hand opens a window too.
Arm ==
    /\ ~removed
    /\ Keep([Entry EXCEPT !.window = TRUE])
    /\ UNCHANGED <<removed, gone, req, dec, spent>>

\* handleDeletePeer: first the registry, then the book.
Remove == removed' = TRUE /\ UNCHANGED <<gone, route, req, dec, spent>>
Forget ==
    /\ removed /\ ~gone
    /\ gone' = TRUE /\ route' = Fresh
    /\ UNCHANGED <<removed, req, dec, spent>>

Requests == \E r \in Request :
    Start(r) \/ GotConn(r) \/ Answered(r) \/ CutTimer(r) \/ Fails(r) \/ CutReturns(r)
Decide(d) == Due(d) \/ CallCheck(d) \/ Begin(d) \/ MoveOn(d) \/ Prove(d) \/ NoProof(d)
             \/ CheckAgain(d) \/ Renew(d)
Next ==
    \/ Requests \/ \E d \in Decision : Decide(d)
    \/ Cools \/ WindowEnds \/ Arm \/ Remove \/ Forget

Spec == Init /\ [][Next]_vars

-----------------------------------------------------------------------------
\* A decision that raises the generation is about the route it replaces,
\* however long it waited: two requests that failed on one route renew it once.
RenewsFailedRoute ==
    [][route'.gen > route.gen =>
         \E d \in Decision : dec[d].at = "checked" /\ Tag(d) = route.gen]_vars

\* Side-by-side decisions, moved and not, share one renewal per window.
OnePerWindow == spent <= 1

\* A removed peer leaves nothing in the book, decisions under way included.
NoGhost == gone => ~route.known

\* A request is cut only for a newer route to try again on.
CutMeansRenewed == \A r \in Request : req[r].at = "cut" /\ ~gone => route.gen > req[r].tag

\* Every way out of a decision lets the next one begin: the flag that keeps
\* others out is up only while a decision that began has still to end.
FlagHasOwner ==
    route.deciding => \E d \in Decision : dec[d].at \in {"begun", "proved", "checked"}

\* Side-by-side decisions renew once, and a request is cut only if they did.
RenewOnce == OnePerWindow /\ CutMeansRenewed
=============================================================================
