--------------------------- MODULE ContactDelete ---------------------------
(***************************************************************************)
(* Deleting a person on one of two linked devices                          *)
(* (frontend/cmd/haoma/contact_delete.go, internal/peerstate/tombstone.go, *)
(* the contacts and chats sections of backfill.go).  The delete leaves a   *)
(* tombstone, takes the chat, the pairings and the person record away in   *)
(* separate transactions, and travels to the sibling by a push and by      *)
(* every sweep.  Sweeps and pushes also carry the person, so an answer     *)
(* built before the delete meets the tombstone.  Each handler is a         *)
(* goroutine: a job in a slot of its device, which waits there while its   *)
(* message is under way.  Beside them the relay handles what the person    *)
(* sends, and makes the chat anew when there is none.                      *)
(*                                                                         *)
(* A pairing is known by the second it was made, on the device's clock: no *)
(* two are made in the same second.                                        *)
(***************************************************************************)
EXTENDS Integers, FiniteSets, FiniteSetsExt

CONSTANTS
    Linked,         \* the two linked devices
    Slots,          \* handlers that may run at once, per device
    Skew,           \* how far each device's clock is ahead
    Grace,          \* deadPeerGrace
    MaxClock,       \* bound: seconds
    MaxDeletes,     \* bound: deletes by the operator
    MaxPairings,    \* bound: pairings made after the start
    MaxFaults,      \* bound: failed calls and writes, and stops
    MaxEntries,     \* bound: inbox entries of the person
    Mixed           \* bound: may handlers or an entry meet pairings and faults

ASSUME TwoDevices == \E d, o \in Linked : d # o /\ Linked = {d, o}
ASSUME ClocksPositive == /\ Skew \in [Linked -> Nat]
                         /\ {Grace, MaxClock, MaxDeletes, MaxPairings, MaxFaults, MaxEntries} \subseteq Nat
                         /\ MaxClock > 0
ASSUME MixedOrNot == Mixed \in BOOLEAN

VARIABLES
    clock,      \* seconds
    pairs,      \* pairing records of the frontend, per device
    live,       \* pairings the backend holds, per device
    chat,       \* the person's chat, per device
    person,     \* is the person record stored, per device
    tomb,       \* the tombstone, per device
    jobs,       \* running handlers, per device and slot
    news,       \* devices that still have to push a new pairing
    inbox,      \* pairings an inbox entry in hand came over, per device
    deletes, pairings, faults, entries,  \* counters of the bounds
    made,       \* history: every pairing ever made
    applied,    \* history: when a delete was first applied, per device and stamp
    disturbed   \* history: devices where a delete was cut, ran beside a merge, or was
                \* followed by an entry of a pairing it covers

deleteVars == <<clock, pairs, live, chat, person, tomb, jobs, news, inbox, deletes, pairings, faults,
                entries, made, applied, disturbed>>
store == <<pairs, live, chat, person, tomb>>
mail == <<inbox, entries>>
counts == <<clock, news, deletes, pairings, faults, made, mail>>

Now(d) == clock + Skew[d]
MaxDeleteTime == MaxClock + Max({Skew[d] : d \in Linked}) + MaxDeletes
DeleteTimes == 1 .. MaxDeleteTime
Other(d) == CHOOSE o \in Linked : o # d

NoTomb == [at |-> 0, applied |-> 0, done |-> FALSE]
NoChat == [held |-> FALSE, routes |-> {}, created |-> 0]
Nobody == 0 - 1         \* an answer that does not describe the person

(* The time up to which a tombstone covers: the sender's, or the time it   *)
(* was applied here if that is earlier on this clock.                      *)
BoundBySender(t) == t.at

Bound(t) == IF t.applied > 0 /\ t.applied < t.at THEN t.applied ELSE t.at

Covers(t, pairedAt) == pairedAt <= Bound(t)

(* A newer delete replaces the tombstone; the one held keeps its times.    *)
MarkDeleted(t, at, now) == IF t.at >= at THEN t
                           ELSE [at |-> at, applied |-> now, done |-> FALSE]

MarkDeleteDone(t, at) == IF t.at = at THEN [t EXCEPT !.done = TRUE] ELSE t

Known(d) == person[d] \/ pairs[d] # {}

PersonDeletedHere(d) ==
    /\ tomb[d].at > 0
    /\ ~person[d]
    /\ \A p \in pairs[d] : Covers(tomb[d], p)

NewestPairingAt(d) == Max(pairs[d] \cup {0})

(* What a contacts answer or push of d says of the person.                 *)
Described(d) == IF Known(d) /\ ~PersonDeletedHere(d) THEN NewestPairingAt(d) ELSE Nobody

ChatOffered(d) == chat[d].held /\ ~PersonDeletedHere(d)

(***************************************************************************)
(* Jobs                                                                    *)
(***************************************************************************)

Idle == [pc |-> "idle", src |-> "none", at |-> 0, seen |-> Nobody, offered |-> FALSE,
         held |-> NoTomb, doomed |-> {}, kept |-> {}, cur |-> 0, keptChat |-> FALSE, ok |-> TRUE]

DeletingPcs == {"read", "chat", "pair", "forget", "person", "finish"}
Pcs == DeletingPcs \cup {"idle", "mark", "contact", "merge", "chats", "chatcheck", "adopt"}

Deleting(d) == \E s \in Slots[d] : jobs[d][s].pc \in DeletingPcs

Free(d) == {s \in Slots[d] : jobs[d][s].pc = "idle"}

(* A delete at work beside a merge or an adoption that passed its check.   *)
Overlapping(js) ==
    /\ \E s \in DOMAIN js : js[s].pc \in {"merge", "adopt"}
    /\ \E s \in DOMAIN js : js[s].pc \in DeletingPcs

JobsBecome(js) == /\ jobs' = js
                  /\ disturbed' = disturbed \cup {d \in Linked : Overlapping(js[d])}

(* Bound: unless Mixed, a handler beside another and an inbound entry come *)
(* without pairings and faults, all of which they use up.                  *)
Alone == /\ faults = 0 /\ faults' = MaxFaults
         /\ pairings = 0 /\ pairings' = MaxPairings

(* A handler begins, alone on its device or beside another one.            *)
Begin(js, d, job) ==
    /\ Free(d) # {}
    /\ JobsBecome([js EXCEPT ![d][CHOOSE s \in Free(d) : TRUE] = job])
    /\ IF Mixed \/ Free(d) = Slots[d] THEN UNCHANGED <<faults, pairings>> ELSE Alone
Becomes(d, s, job) == JobsBecome([jobs EXCEPT ![d][s] = job])
Moves(d, s, pc) == Becomes(d, s, [jobs[d][s] EXCEPT !.pc = pc])

(* After its deletes a sweep's handler goes on to the contacts.            *)
AfterDelete(job) == IF job.src = "sweep" THEN [Idle EXCEPT !.pc = "contact", !.src = "sweep", !.seen = job.seen]
                    ELSE Idle

(***************************************************************************)
(* The operator                                                            *)
(***************************************************************************)

(* The person's chat is found, or made, and takes the route.               *)
Routed(c, p, now) == [held |-> TRUE, routes |-> c.routes \cup {p},
                      created |-> IF c.held THEN c.created ELSE now]

(* The person is met again: the pairing, its route in the person's chat    *)
(* and the person record.                                                  *)
PairAgain(d) ==
    /\ pairings < MaxPairings
    /\ Now(d) \notin made \cup {1}
    /\ pairs' = [pairs EXCEPT ![d] = @ \cup {Now(d)}]
    /\ live' = [live EXCEPT ![d] = @ \cup {Now(d)}]
    /\ chat' = [chat EXCEPT ![d] = Routed(@, Now(d), Now(d))]
    /\ person' = [person EXCEPT ![d] = TRUE]
    /\ pairings' = pairings + 1
    /\ made' = made \cup {Now(d)}
    /\ news' = news \cup {d}
    /\ UNCHANGED <<tomb, jobs, disturbed, clock, deletes, faults, applied, mail>>

(* The push that follows a new pairing, to the sibling.                    *)
ContactsPush(d) ==
    /\ d \in news
    /\ news' = news \ {d}
    /\ Described(d) # Nobody
    /\ Begin(jobs, Other(d), [Idle EXCEPT !.pc = "contact", !.src = "push", !.seen = Described(d),
                                          !.offered = chat[d].held])
    /\ UNCHANGED <<store, clock, deletes, made, applied, mail>>

OtherLive(d, p) == (live[d] \cap pairs[d]) \ {p}

(* One of several live pairings: only its route and its records go.        *)
DeletePairing(d, p) ==
    /\ deletes < MaxDeletes
    /\ p \in live[d] \cap pairs[d]
    /\ OtherLive(d, p) # {}
    /\ chat' = [chat EXCEPT ![d] = IF @.routes \cap OtherLive(d, p) # {}
                                     THEN [chat[d] EXCEPT !.routes = @ \ {p}]
                                     ELSE IF p \in @.routes THEN NoChat ELSE @]
    /\ \/ /\ live' = [live EXCEPT ![d] = @ \ {p}]
          /\ pairs' = [pairs EXCEPT ![d] = @ \ {p}]
          /\ UNCHANGED faults
       \/ /\ faults < MaxFaults
          /\ faults' = faults + 1
          /\ UNCHANGED <<live, pairs>>
    /\ deletes' = deletes + 1
    /\ UNCHANGED <<person, tomb, jobs, disturbed, clock, news, pairings, made, applied, mail>>

Remember(d, at) == applied' = [applied EXCEPT ![d][at] = IF @ = 0 THEN Now(d) ELSE @]

(* The last live pairing: the person goes, under a time newer than any     *)
(* tombstone held.                                                         *)
DeletePerson(d, p) ==
    LET at == IF tomb[d].at >= Now(d) THEN tomb[d].at + 1 ELSE Now(d)
        held == MarkDeleted(tomb[d], at, Now(d))
    IN /\ deletes < MaxDeletes
       /\ p \in live[d] \cap pairs[d]
       /\ OtherLive(d, p) = {}
       /\ tomb' = [tomb EXCEPT ![d] = held]
       /\ Begin(jobs, d, [Idle EXCEPT !.pc = "read", !.src = "operator", !.held = held])
       /\ deletes' = deletes + 1
       /\ Remember(d, at)
       /\ UNCHANGED <<pairs, live, chat, person, clock, news, made, mail>>

(***************************************************************************)
(* applyDeletedContacts and deletePerson, transaction by transaction       *)
(***************************************************************************)

AlreadyHeld(t, at) == t.at >= at

AlreadyApplied(t, at) == t.at >= at /\ t.done

ApplyMark(d, s) ==
    LET job == jobs[d][s]
        held == MarkDeleted(tomb[d], job.at, Now(d))
    IN /\ job.pc = "mark"
       /\ tomb' = [tomb EXCEPT ![d] = held]
       /\ IF AlreadyApplied(tomb[d], job.at)
            THEN Becomes(d, s, AfterDelete(job))
            ELSE Becomes(d, s, [job EXCEPT !.pc = "read", !.held = held, !.at = 0])
       /\ Remember(d, job.at)
       /\ UNCHANGED <<pairs, live, chat, person, counts>>

ReadPairings(d, s) ==
    LET job == jobs[d][s]
        doomed == {p \in pairs[d] : Covers(job.held, p)}
    IN /\ job.pc = "read"
       /\ Becomes(d, s, [job EXCEPT !.pc = "chat", !.doomed = doomed, !.kept = pairs[d] \ doomed])
       /\ UNCHANGED <<store, counts, applied>>

(* The chat goes on when a pairing that stays routes it, or when it was    *)
(* adopted after the delete was applied here.                              *)
ChatGoesOn(c, job) ==
    \/ c.routes \cap job.kept # {}
    \/ /\ job.held.applied > 0
       /\ c.created > job.held.applied
       /\ c.routes \cap job.doomed = {}

ChatAfter(c, job) == IF ChatGoesOn(c, job) THEN [c EXCEPT !.routes = @ \ job.doomed] ELSE NoChat

DropChat(d, s) ==
    LET job == jobs[d][s]
        goesOn == chat[d].held /\ ChatGoesOn(chat[d], job)
    IN /\ job.pc = "chat"
       /\ chat' = [chat EXCEPT ![d] = IF @.held THEN ChatAfter(@, job) ELSE @]
       /\ Becomes(d, s, [job EXCEPT !.pc = "pair", !.keptChat = goesOn])
       /\ UNCHANGED <<pairs, live, person, tomb, counts, applied>>

(* The chat cannot be erased, or the pairings that go cannot be taken out  *)
(* of one that goes on, and then they stay: the delete is not recorded as  *)
(* done.                                                                   *)
DropChatFails(d, s) ==
    LET job == jobs[d][s]
        left == IF ChatGoesOn(chat[d], job) THEN job.doomed \ chat[d].routes ELSE job.doomed
    IN /\ job.pc = "chat" /\ chat[d].held
       /\ faults < MaxFaults
       /\ faults' = faults + 1
       /\ jobs' = [jobs EXCEPT ![d][s] = [job EXCEPT !.pc = "pair", !.doomed = left, !.ok = FALSE]]
       /\ disturbed' = disturbed \cup {d}
       /\ UNCHANGED <<store, clock, news, deletes, pairings, made, applied, mail>>

(* The backend deletes a pairing, or the call fails and the delete is not  *)
(* recorded as done.                                                       *)
DropPairing(d, s) ==
    LET job == jobs[d][s]
    IN /\ job.pc = "pair"
       /\ \/ /\ job.doomed = {}
             /\ Moves(d, s, "person")
             /\ UNCHANGED <<live, faults>>
          \/ \E p \in job.doomed :
                /\ live' = [live EXCEPT ![d] = @ \ {p}]
                /\ Becomes(d, s, [job EXCEPT !.pc = "forget", !.cur = p, !.doomed = @ \ {p}])
                /\ UNCHANGED faults
          \/ \E p \in job.doomed :
                /\ faults < MaxFaults
                /\ faults' = faults + 1
                /\ Becomes(d, s, [job EXCEPT !.doomed = @ \ {p}, !.ok = FALSE])
                /\ UNCHANGED live
       /\ UNCHANGED <<pairs, chat, person, tomb, clock, news, deletes, pairings, made, applied, mail>>

ForgetPeer(d, s) ==
    LET job == jobs[d][s]
    IN /\ job.pc = "forget"
       /\ pairs' = [pairs EXCEPT ![d] = @ \ {job.cur}]
       /\ Becomes(d, s, [job EXCEPT !.pc = "pair", !.cur = 0])
       /\ UNCHANGED <<live, chat, person, tomb, counts, applied>>

ForgetPerson(d, s) ==
    LET job == jobs[d][s]
    IN /\ job.pc = "person"
       /\ person' = [person EXCEPT ![d] = @ /\ (job.kept # {} \/ job.keptChat)]
       /\ Moves(d, s, "finish")
       /\ UNCHANGED <<pairs, live, chat, tomb, counts, applied>>

(* A complete delete is recorded as done, and the operator's is pushed to  *)
(* the sibling; a push that fails is left to the sweep.                    *)
Finish(d, s) ==
    LET job == jobs[d][s]
        ended == [jobs EXCEPT ![d][s] = AfterDelete(job)]
        push == [Idle EXCEPT !.pc = "mark", !.src = "push", !.at = job.held.at]
    IN /\ job.pc = "finish"
       /\ tomb' = [tomb EXCEPT ![d] = IF job.ok THEN MarkDeleteDone(@, job.held.at) ELSE @]
       /\ \/ /\ JobsBecome(ended)
             /\ UNCHANGED <<faults, pairings>>
          \/ /\ job.ok /\ job.src = "operator"
             /\ Begin(ended, Other(d), push)
       /\ UNCHANGED <<pairs, live, chat, person, clock, news, deletes, made, applied, mail>>

(***************************************************************************)
(* The sweep: contacts, then chats                                         *)
(***************************************************************************)

(* The sibling answers with its tombstone and, unless it deleted the       *)
(* person, with the person.                                                *)
SweepContacts(d) ==
    LET o == Other(d)
    IN /\ Begin(jobs, d, [Idle EXCEPT !.pc = IF tomb[o].at > 0 THEN "mark" ELSE "contact",
                                      !.src = "sweep", !.at = tomb[o].at, !.seen = Described(o)])
       /\ UNCHANGED <<store, clock, news, deletes, made, applied, mail>>

RefusesNothing(d, pairedAt) == FALSE

RefusesAny(d, pairedAt) == PersonDeletedHere(d)

Refuses(d, pairedAt) == PersonDeletedHere(d) /\ pairedAt <= tomb[d].at

CheckContact(d, s) ==
    /\ jobs[d][s].pc = "contact"
    /\ IF jobs[d][s].seen = Nobody \/ Refuses(d, jobs[d][s].seen)
         THEN Moves(d, s, "chats")
         ELSE Moves(d, s, "merge")
    /\ UNCHANGED <<store, counts, applied>>

MergePerson(d, s) ==
    /\ jobs[d][s].pc = "merge"
    /\ person' = [person EXCEPT ![d] = TRUE]
    /\ Moves(d, s, "chats")
    /\ UNCHANGED <<pairs, live, chat, tomb, counts, applied>>

(* A sweep asks for the chats; a push brought its chat along.              *)
ReadChats(d, s) ==
    LET job == jobs[d][s]
        offered == IF job.src = "sweep" THEN ChatOffered(Other(d)) ELSE job.offered
    IN /\ job.pc = "chats"
       /\ Becomes(d, s, IF offered THEN [Idle EXCEPT !.pc = "chatcheck"] ELSE Idle)
       /\ UNCHANGED <<store, counts, applied>>

CheckChat(d, s) ==
    /\ jobs[d][s].pc = "chatcheck"
    /\ IF PersonDeletedHere(d) \/ chat[d].held
         THEN Becomes(d, s, Idle)
         ELSE Moves(d, s, "adopt")
    /\ UNCHANGED <<store, counts, applied>>

AdoptChat(d, s) ==
    /\ jobs[d][s].pc = "adopt"
    /\ chat' = [chat EXCEPT ![d] = IF @.held THEN @ ELSE [held |-> TRUE, routes |-> {}, created |-> Now(d)]]
    /\ Becomes(d, s, Idle)
    /\ UNCHANGED <<pairs, live, person, tomb, counts, applied>>

(* Records of pairings the backend no longer has, after the grace; the     *)
(* guards on the whole registry may keep the sweep from it.                *)
SweepDeadPeerRows(d) ==
    LET dead == {p \in pairs[d] \ live[d] : p + Grace <= Now(d) /\ p \notin chat[d].routes}
    IN /\ dead # {}
       /\ pairs' = [pairs EXCEPT ![d] = @ \ dead]
       /\ UNCHANGED <<live, chat, person, tomb, jobs, disturbed, counts, applied>>

(***************************************************************************)
(* The relay                                                               *)
(***************************************************************************)

(* The inbox is read: an entry of a live pairing is in hand.               *)
ReadInbox(d, p) ==
    /\ entries < MaxEntries
    /\ p \in live[d]
    /\ entries' = entries + 1
    /\ inbox' = [inbox EXCEPT ![d] = @ \cup {p}]
    /\ IF Mixed THEN UNCHANGED <<faults, pairings>> ELSE Alone
    /\ UNCHANGED <<store, jobs, clock, news, deletes, made, applied, disturbed>>

(* processInboxEntry: its chat is looked up and made if there is none; no  *)
(* tombstone is asked for.                                                 *)
HandleEntry(d, p) ==
    /\ p \in inbox[d]
    /\ inbox' = [inbox EXCEPT ![d] = @ \ {p}]
    /\ chat' = [chat EXCEPT ![d] = Routed(@, p, Now(d))]
    /\ disturbed' = IF tomb[d].at > 0 /\ Covers(tomb[d], p) THEN disturbed \cup {d} ELSE disturbed
    /\ UNCHANGED <<pairs, live, person, tomb, jobs, clock, news, deletes, pairings, faults, entries,
                   made, applied>>

(***************************************************************************)
(* The environment                                                         *)
(***************************************************************************)

SecondPasses == /\ clock < MaxClock
                /\ clock' = clock + 1
                /\ UNCHANGED <<store, jobs, disturbed, news, deletes, pairings, faults, made, applied, mail>>

(* The frontend stops: its handlers end where they are, and the messages   *)
(* they were handling with them.                                           *)
StopFrontend(d) ==
    /\ faults < MaxFaults
    /\ faults' = faults + 1
    /\ Free(d) # Slots[d]
    /\ jobs' = [jobs EXCEPT ![d] = [s \in Slots[d] |-> Idle]]
    /\ inbox' = [inbox EXCEPT ![d] = {}]
    /\ disturbed' = IF Deleting(d) THEN disturbed \cup {d} ELSE disturbed
    /\ UNCHANGED <<store, clock, news, deletes, pairings, entries, made, applied>>

(* Both devices know the person, by one pairing each.                      *)
DeleteInit ==
    /\ clock = 1
    /\ pairs = [d \in Linked |-> {1}]
    /\ live = [d \in Linked |-> {1}]
    /\ chat = [d \in Linked |-> [held |-> TRUE, routes |-> {1}, created |-> 1]]
    /\ person = [d \in Linked |-> TRUE]
    /\ tomb = [d \in Linked |-> NoTomb]
    /\ jobs = [d \in Linked |-> [s \in Slots[d] |-> Idle]]
    /\ news = {}
    /\ inbox = [d \in Linked |-> {}]
    /\ deletes = 0 /\ pairings = 0 /\ faults = 0 /\ entries = 0
    /\ made = {}
    /\ applied = [d \in Linked |-> [a \in DeleteTimes |-> 0]]
    /\ disturbed = {}

JobStep(d) == \E s \in Slots[d] \ Free(d) :
    \/ ApplyMark(d, s) \/ ReadPairings(d, s) \/ DropChat(d, s) \/ DropChatFails(d, s)
    \/ DropPairing(d, s)
    \/ ForgetPeer(d, s) \/ ForgetPerson(d, s) \/ Finish(d, s)
    \/ CheckContact(d, s) \/ MergePerson(d, s) \/ ReadChats(d, s) \/ CheckChat(d, s) \/ AdoptChat(d, s)

DeleteNext == \/ SecondPasses
              \/ \E d \in Linked :
                    \/ JobStep(d) \/ SweepContacts(d) \/ ContactsPush(d) \/ PairAgain(d)
                    \/ SweepDeadPeerRows(d) \/ StopFrontend(d)
                    \/ \E p \in live[d] : DeletePairing(d, p) \/ DeletePerson(d, p) \/ ReadInbox(d, p)
                    \/ \E p \in inbox[d] : HandleEntry(d, p)

DeleteSpec == DeleteInit /\ [][DeleteNext]_deleteVars

(* A device goes on with its handlers and, when it has none, sweeps: with  *)
(* at most one handler begun beside another (not Mixed), a device that     *)
(* takes steps for ever does both again and again.                         *)
FairSpec == DeleteSpec /\ \A d \in Linked : WF_deleteVars(JobStep(d) \/ SweepContacts(d))

(***************************************************************************)
(* Properties                                                              *)
(***************************************************************************)

Tombs == [at : 0 .. MaxDeleteTime, applied : 0 .. MaxDeleteTime, done : BOOLEAN]

\* Type correctness; a chat that is not held leaves no route behind.
DeleteTypeOK ==
    /\ clock \in 1 .. MaxClock
    /\ pairs \in [Linked -> SUBSET DeleteTimes] /\ live \in [Linked -> SUBSET DeleteTimes]
    /\ person \in [Linked -> BOOLEAN]
    /\ tomb \in [Linked -> Tombs]
    /\ \A d \in Linked : /\ chat[d].routes \subseteq DeleteTimes
                         /\ chat[d].held \/ chat[d] = NoChat
                         /\ \A s \in Slots[d] : /\ jobs[d][s].pc \in Pcs
                                             /\ jobs[d][s].held \in Tombs

(* No pairing anywhere was made since the delete d holds.                  *)
NotMetSince(d) == \A p \in made : p < Bound(tomb[d])

Erased(d) == ~person[d] /\ ~chat[d].held /\ live[d] = {}

(* The person only comes back where the delete was cut by a stop or could  *)
(* not erase the chat, where a merge or an adoption that had passed its    *)
(* check ran beside it, or where the relay handled an entry of a pairing   *)
(* the delete covers: no answer that starts to be applied after a delete,  *)
(* a failed and retried one included, brings anything back.                *)
BackOnlyIfDisturbed == \A d \in Linked :
    tomb[d].done /\ NotMetSince(d) /\ ~Deleting(d) /\ d \notin disturbed => Erased(d)

(* A delete never takes a pairing made after it was first applied on this  *)
(* device, by this device's clock: not when it comes round again, not when *)
(* the sender's clock is ahead, not when it is retried after a failure.    *)
LaterPairingStays == [][\A d \in Linked : \A s \in Slots[d] :
    jobs[d][s].pc = "pair" /\ jobs'[d][s].pc = "forget" =>
        \A p \in live[d] \ live'[d] : p <= applied[d][jobs[d][s].held.at]]_deleteVars

(* A delete ends on both devices: whatever fails, and wherever it stops,   *)
(* both devices hold the same tombstone in the end and have recorded it as *)
(* done.                                                                   *)
DeleteEnds == <>[](\A d, o \in Linked :
    /\ tomb[d].at = tomb[o].at
    /\ tomb[d].at > 0 => tomb[d].done)

(* A person met again becomes known on the sibling: a pairing that stays   *)
(* and is not covered by a delete is adopted by the other device.          *)
RePairReaches == \A d \in Linked :
    (<>[](\E p \in live[d] \cap pairs[d] : p > tomb[d].at))
        => <>[](Described(Other(d)) # Nobody)

============================================================================
