------------------------------ MODULE Rotation ------------------------------
(***************************************************************************)
(* Rotating the onion address one contact is reached at: the protocol of   *)
(* src/frontend/internal/rotation/manager.go as rotation_wire.go wires it, *)
(* run by both ends, over the address book of the backend                  *)
(* (src/backend/internal/peers/registry.go) and the onions its Tor serves. *)
(*                                                                         *)
(* Each end has three actors: the reader of the backend's event stream,    *)
(* which handles one inbound message at a time; the deadline ticker; and   *)
(* the user's client.  They share the manager's records under its lock,    *)
(* and every call that leaves the lock (mint, overlay, rotate, collapse,   *)
(* delete) is a step of its own.  A message handed to the outbox may arrive*)
(* in any order and at any time, so a send is joined to the locked section *)
(* before it.  The deadline may pass at any moment.                        *)
(***************************************************************************)
EXTENDS Naturals, FiniteSets

CONSTANTS
    Ends,           \* the two ends of the contact
    Rots,           \* rotation ids; also the onion minted for that rotation
    None,           \* no rotation, no address
    MaxFaults,      \* bound: sends and registry calls that fail
    MaxCrashes,     \* bound: restarts of the frontend daemon
    MaxReconnects,  \* bound: Tor control connections lost
    TroubledRots    \* bound: rotations begun in a behaviour with one of these

ASSUME RotationAssumption ==
    /\ \E a, b \in Ends : a # b /\ Ends = {a, b}
    /\ Ends \cap Rots = {}
    /\ None \notin Ends \cup Rots
    /\ MaxFaults \in Nat /\ MaxCrashes \in Nat /\ MaxReconnects \in Nat
    /\ TroubledRots \in Nat

Other(p) == CHOOSE q \in Ends : q # p

\* An end's first onion is named after the end.
Addr == Ends \cup Rots

Terminal == {"confirmed", "failed"}

Open == {"proposed", "requested", "accepted", "address_exchanged"}

\* A record; minted and theirs say whether MyNewAddr and TheirNewAddr are set.
Record == [role : {"none", "initiator", "responder"},
           state : {"none"} \cup Open \cup Terminal,
           minted : BOOLEAN, theirs : BOOLEAN,
           iConfirmed : BOOLEAN, peerConfirmed : BOOLEAN]

NoRecord == [role |-> "none", state |-> "none", minted |-> FALSE,
             theirs |-> FALSE, iConfirmed |-> FALSE, peerConfirmed |-> FALSE]

Kinds == {"request", "accept", "address", "confirm", "cancel"}

\* An envelope: where it was addressed to and which own onion it names as its
\* source are fixed when it is enqueued.
Message == [kind : Kinds, rot : Rots, to : Ends, via : Addr, from : Addr]

VARIABLES
    rec,        \* Manager.inflight, terminal records included
    perPeer,    \* Manager.perPeer
    used,       \* rotation ids minted so far
    cleanup,    \* what terminateAsFailed has still to do outside the lock
    hand,       \* what the inbound reader of each end is in the middle of
    inbox,      \* envelopes the backend took in, not yet deleted
    net,        \* envelopes waiting in the sender's outbox
    my, prev,   \* Peer.MyOnionAddr, Peer.PrevMyOnion
    cooling,    \* PrevMyOnion.ExpiresAt lies ahead
    known,      \* Peer.KnownAddresses, as a set ...
    front,      \* ... and the first of them, which envelopes go to
    retired,    \* Peer.RetiredAddrs
    keys,       \* AddrKey index: addresses resolved to the peer
    served,     \* onions this end's Tor serves
    faults, crashes, reconnects

manager == <<rec, perPeer, used, cleanup>>
wire == <<hand, inbox, net>>
book == <<my, prev, cooling, known, front, retired, keys>>
counters == <<faults, crashes, reconnects>>
vars == <<manager, wire, book, served, counters>>

Idle == [pc |-> "idle", msg |-> None, old |-> None]

\* Type correctness of both ends, the onions and the messages.
TypeOK ==
    /\ rec \in [Ends -> [Rots -> Record]]
    /\ perPeer \in [Ends -> Rots \cup {None}]
    /\ used \subseteq Rots
    /\ cleanup \in [Ends -> SUBSET ({"del", "cancel"} \X Rots)]
    /\ hand \in [Ends -> [pc : {"idle", "accept", "minted", "unmint", "overlay",
                                "ship", "apply", "delold"},
                          msg : Message \cup {None}, old : Addr \cup {None}]]
    /\ inbox \in [Ends -> SUBSET Message] /\ net \subseteq Message
    /\ my \in [Ends -> Addr] /\ prev \in [Ends -> Addr \cup {None}]
    /\ cooling \in [Ends -> BOOLEAN]
    /\ known \in [Ends -> SUBSET Addr] /\ front \in [Ends -> Addr]
    /\ retired \in [Ends -> SUBSET Addr] /\ keys \in [Ends -> SUBSET Addr]
    /\ served \in [Ends -> SUBSET Addr]
    /\ faults \in 0..MaxFaults
    /\ crashes \in 0..MaxCrashes /\ reconnects \in 0..MaxReconnects

-----------------------------------------------------------------------------
(* Helpers *)

\* Nothing failed or restarted so far.
Untroubled == faults = 0 /\ crashes = 0 /\ reconnects = 0

\* The bounds on trouble: each kind has its own, and it comes only while at
\* most TroubledRots rotations were begun.
Room(count, max) == count < max /\ Cardinality(used) <= TroubledRots

Fault == Room(faults, MaxFaults) /\ faults' = faults + 1

Msg(p, kind, r) == [kind |-> kind, rot |-> r, to |-> Other(p),
                    via |-> front[p], from |-> my[p]]

Send(p, kind, r) == net' = net \cup {Msg(p, kind, r)}

SetRec(p, r, new) == rec' = [rec EXCEPT ![p][r] = new]

StaysBusy(p) == UNCHANGED perPeer

Release(p) == perPeer' = [perPeer EXCEPT ![p] = None]

\* What is left to do after this end failed a rotation: delete the onion minted
\* for it, and tell the peer.
FailOwes(p, r) ==
    (IF rec[p][r].minted THEN {<<"del", r>>} ELSE {}) \cup {<<"cancel", r>>}

\* fail, that is terminateAsFailed up to its unlock; nothing happens to a
\* terminal record.  Whoever called it does the rest next (CleanDel, CleanCancel).
Fail(p, r) ==
    IF rec[p][r].state \in Open
    THEN /\ SetRec(p, r, [rec[p][r] EXCEPT !.state = "failed"])
         /\ Release(p)
         /\ cleanup' = [cleanup EXCEPT ![p] = @ \cup FailOwes(p, r)]
    ELSE UNCHANGED <<rec, perPeer, cleanup>>

\* The end of processInboxEntry: the entry is deleted.  When the delete fails a
\* later sweep hands it out again, and Decrypt refuses it as an old counter
\* before any handler sees it: handled entries are gone either way.
Ack(p, m) ==
    /\ hand' = [hand EXCEPT ![p] = Idle]
    /\ inbox' = [inbox EXCEPT ![p] = @ \ {m}]

Stay(p, pc, m) ==
    /\ hand' = [hand EXCEPT ![p] = [pc |-> pc, msg |-> m, old |-> None]]
    /\ UNCHANGED inbox

\* The reader takes up an entry of the given kind.
Takes(p, m, kind) == hand[p].pc = "idle" /\ m \in inbox[p] /\ m.kind = kind

\* The reader goes on with the entry it has in hand.
At(p, pc) == hand[p].pc = pc
-----------------------------------------------------------------------------
(* Starting a rotation, and failing one *)

NewRec(role, state) == [NoRecord EXCEPT !.role = role, !.state = state]

\* handleRotateBegin and Begin.  The cooldown is not looked at when the backend
\* does not answer the question; a request that cannot be sent fails it.
Begin(p, r) ==
    /\ r \notin used /\ perPeer[p] = None
    /\ Untroubled \/ Cardinality(used) < TroubledRots
    /\ used' = used \cup {r}
    /\ \/ /\ ~cooling[p]
          /\ SetRec(p, r, NewRec("initiator", "proposed"))
          /\ perPeer' = [perPeer EXCEPT ![p] = r]
          /\ Send(p, "request", r)
          /\ UNCHANGED <<cleanup, faults>>
       \/ /\ cooling[p] /\ Fault
          /\ SetRec(p, r, NewRec("initiator", "proposed"))
          /\ perPeer' = [perPeer EXCEPT ![p] = r]
          /\ Send(p, "request", r)
          /\ UNCHANGED cleanup
       \/ /\ ~cooling[p] /\ Fault
          /\ SetRec(p, r, NewRec("initiator", "failed"))
          /\ cleanup' = [cleanup EXCEPT ![p] = @ \cup {<<"cancel", r>>}]
          /\ UNCHANGED <<perPeer, net>>
    /\ UNCHANGED <<hand, inbox, book, served, crashes, reconnects>>

\* Tick past the deadline, UserDecline, Cancel.
Abandon(p, r) ==
    /\ rec[p][r].state \in Open
    /\ Fail(p, r)
    /\ UNCHANGED <<used, wire, book, served, counters>>

\* The rest of terminateAsFailed: DelOnion, then the cancel.  Errors of either
\* are only logged.
CleanDel(p, r) ==
    /\ <<"del", r>> \in cleanup[p]
    /\ cleanup' = [cleanup EXCEPT ![p] = @ \ {<<"del", r>>}]
    /\ \/ served' = [served EXCEPT ![p] = @ \ {r}] /\ UNCHANGED faults
       \/ Fault /\ UNCHANGED served
    /\ UNCHANGED <<rec, perPeer, used, wire, book, crashes, reconnects>>

CleanCancel(p, r) ==
    /\ <<"cancel", r>> \in cleanup[p] /\ <<"del", r>> \notin cleanup[p]
    /\ cleanup' = [cleanup EXCEPT ![p] = @ \ {<<"cancel", r>>}]
    /\ \/ Send(p, "cancel", r) /\ UNCHANGED faults
       \/ Fault /\ UNCHANGED net
    /\ UNCHANGED <<rec, perPeer, used, hand, inbox, book, served, crashes,
                   reconnects>>
-----------------------------------------------------------------------------
(* The responder's inbound messages *)

\* dispatchRotateRequest refuses: cooldown, a call in progress (which may be the
\* case at any time), another rotation in flight, or an id already known.
RefuseRequest(p, m) ==
    /\ Takes(p, m, "request")
    /\ \/ Send(p, "cancel", m.rot) /\ UNCHANGED faults
       \/ Fault /\ UNCHANGED net
    /\ Ack(p, m)
    /\ UNCHANGED <<manager, book, served, crashes, reconnects>>

\* OnRequest; the reader goes on to accept at once.
OnRequest(p, m) ==
    /\ Takes(p, m, "request")
    /\ \/ ~cooling[p] /\ UNCHANGED faults
       \/ cooling[p] /\ Fault
    /\ perPeer[p] = None /\ rec[p][m.rot].state = "none"
    /\ SetRec(p, m.rot, NewRec("responder", "requested"))
    /\ perPeer' = [perPeer EXCEPT ![p] = m.rot]
    /\ Stay(p, "accept", m)
    /\ UNCHANGED <<used, cleanup, net, book, served, crashes, reconnects>>

\* UserAccept, called by the reader or by the user's client.
Accept(p, r) ==
    IF rec[p][r].role = "responder" /\ rec[p][r].state = "requested"
    THEN \/ /\ SetRec(p, r, [rec[p][r] EXCEPT !.state = "accepted"])
            /\ Send(p, "accept", r)
            /\ UNCHANGED <<perPeer, cleanup, faults>>
         \/ /\ Fault
            /\ Fail(p, r)
            /\ UNCHANGED net
    ELSE UNCHANGED <<rec, perPeer, cleanup, net, faults>>

AutoAccept(p) ==
    /\ At(p, "accept")
    /\ Accept(p, hand[p].msg.rot)
    /\ Ack(p, hand[p].msg)
    /\ UNCHANGED <<used, book, served, crashes, reconnects>>

ClientAccept(p, r) ==
    /\ rec[p][r].role = "responder" /\ rec[p][r].state = "requested"
    /\ Accept(p, r)
    /\ UNCHANGED <<used, hand, inbox, book, served, crashes, reconnects>>

\* OnAddress: the locked part; the overlay comes next.
OnAddress(p, m) ==
    /\ Takes(p, m, "address")
    /\ IF rec[p][m.rot].state = "accepted"
       THEN /\ SetRec(p, m.rot, [rec[p][m.rot] EXCEPT !.theirs = TRUE,
                                       !.state = "address_exchanged"])
            /\ Stay(p, "overlay", m)
       ELSE Ack(p, m) /\ UNCHANGED rec
    /\ UNCHANGED <<perPeer, used, cleanup, net, book, served, faults, crashes,
                   reconnects>>

\* Registry.OverlayPeerAddress: the address moves to the front.
OverlayPeerAddress(p, a) ==
    /\ known' = [known EXCEPT ![p] = @ \cup {a}]
    /\ front' = [front EXCEPT ![p] = a]
    /\ keys' = [keys EXCEPT ![p] = @ \cup (IF front[p] = a THEN {} ELSE {a})]

Overlay(p) ==
    LET m == hand[p].msg
    IN  /\ At(p, "overlay")
        /\ \/ /\ OverlayPeerAddress(p, m.rot)
              /\ Stay(p, "ship", m)
              /\ UNCHANGED <<rec, perPeer, cleanup, faults>>
           \/ /\ Fault
              /\ Fail(p, m.rot)
              /\ Ack(p, m)
              /\ UNCHANGED <<known, front, keys>>
        /\ UNCHANGED <<used, net, my, prev, cooling, retired, served, crashes,
                       reconnects>>

\* OnCancel: terminateAsFailed without a cancel in return; the reader itself
\* deletes the onion minted for the rotation.
OnCancel(p, m) ==
    /\ Takes(p, m, "cancel")
    /\ IF rec[p][m.rot].state \in Open
       THEN /\ SetRec(p, m.rot, [rec[p][m.rot] EXCEPT !.state = "failed"])
            /\ Release(p)
            /\ IF rec[p][m.rot].minted THEN Stay(p, "unmint", m) ELSE Ack(p, m)
       ELSE Ack(p, m) /\ UNCHANGED <<rec, perPeer>>
    /\ UNCHANGED <<used, cleanup, net, book, served, faults, crashes, reconnects>>
-----------------------------------------------------------------------------
(* The initiator's side *)

\* OnAccept: the check, then AddOnionNew.
OnAccept(p, m) ==
    /\ Takes(p, m, "accept")
    /\ IF rec[p][m.rot].role = "initiator" /\ rec[p][m.rot].state = "proposed"
       THEN \/ /\ served' = [served EXCEPT ![p] = @ \cup {m.rot}]
               /\ Stay(p, "minted", m)
               /\ UNCHANGED <<rec, perPeer, cleanup, faults>>
            \/ /\ Fault
               /\ Fail(p, m.rot)
               /\ Ack(p, m)
               /\ UNCHANGED served
       ELSE Ack(p, m) /\ UNCHANGED <<rec, perPeer, cleanup, served, faults>>
    /\ UNCHANGED <<used, net, book, crashes, reconnects>>

KeepsMinted(p, m) == Ack(p, m)

\* The rotation failed while the onion was being minted: it is to be deleted.
UnwindMint(p, m) == Stay(p, "unmint", m)

\* The second look at the record, and the address.
AfterMint(p) ==
    LET m == hand[p].msg
        r == m.rot
        new == [rec[p][r] EXCEPT !.minted = TRUE, !.state = "address_exchanged"]
    IN  /\ At(p, "minted")
        /\ IF rec[p][r].state = "proposed"
           THEN \/ /\ SetRec(p, r, new)
                   /\ Send(p, "address", r)
                   /\ Stay(p, "ship", m)
                   /\ UNCHANGED <<perPeer, cleanup, faults>>
                \/ /\ Fault
                   /\ SetRec(p, r, [new EXCEPT !.state = "failed"])
                   /\ Release(p)
                   /\ cleanup' = [cleanup EXCEPT
                                    ![p] = @ \cup {<<"del", r>>, <<"cancel", r>>}]
                   /\ Ack(p, m)
                   /\ UNCHANGED net
           ELSE UnwindMint(p, m) /\ UNCHANGED <<rec, perPeer, cleanup, net, faults>>
        /\ UNCHANGED <<used, book, served, crashes, reconnects>>

\* DelOnion, by the reader.
Unmint(p) ==
    LET m == hand[p].msg
    IN  /\ At(p, "unmint")
        /\ \/ served' = [served EXCEPT ![p] = @ \ {m.rot}] /\ UNCHANGED faults
           \/ Fault /\ UNCHANGED served
        /\ Ack(p, m)
        /\ UNCHANGED <<manager, net, book, crashes, reconnects>>
-----------------------------------------------------------------------------
(* Confirming, on either side *)

\* Setting one of the two confirmed flags; the second one ends the rotation.
Confirms(p, r, flagged) ==
    IF flagged.iConfirmed /\ flagged.peerConfirmed
    THEN SetRec(p, r, [flagged EXCEPT !.state = "confirmed"]) /\ Release(p)
    ELSE SetRec(p, r, flagged) /\ UNCHANGED perPeer

\* shipConfirm: the state is not looked at again after the send.
ShipConfirm(p) ==
    LET m == hand[p].msg
        flagged == [rec[p][m.rot] EXCEPT !.iConfirmed = TRUE]
    IN  /\ At(p, "ship")
        /\ \/ /\ Send(p, "confirm", m.rot)
              /\ Confirms(p, m.rot, flagged)
              /\ IF flagged.peerConfirmed THEN Stay(p, "apply", m) ELSE Ack(p, m)
              /\ UNCHANGED <<cleanup, faults>>
           \/ /\ Fault
              /\ Fail(p, m.rot)
              /\ Ack(p, m)
              /\ UNCHANGED net
        /\ UNCHANGED <<used, book, served, crashes, reconnects>>

MayConfirmAny(p, r) == rec[p][r].state # "none"

MayConfirm(p, r) == rec[p][r].state = "address_exchanged"

OnConfirm(p, m) ==
    LET flagged == [rec[p][m.rot] EXCEPT !.peerConfirmed = TRUE]
    IN  /\ Takes(p, m, "confirm")
        /\ IF MayConfirm(p, m.rot)
           THEN /\ Confirms(p, m.rot, flagged)
                /\ IF flagged.iConfirmed THEN Stay(p, "apply", m) ELSE Ack(p, m)
           ELSE Ack(p, m) /\ UNCHANGED <<rec, perPeer>>
        /\ UNCHANGED <<used, cleanup, net, book, served, faults, crashes,
                       reconnects>>

\* Registry.RotateOwnOnion: the old onion is kept for the grace time; one still
\* kept from the rotation before is to be deleted at once.
RotateOwnOnion(p, a) ==
    /\ prev' = [prev EXCEPT ![p] = my[p]]
    /\ cooling' = [cooling EXCEPT ![p] = TRUE]
    /\ my' = [my EXCEPT ![p] = a]

CollapseRetiresAll(p, a) ==
    IF a \in known[p]
    THEN /\ known' = [known EXCEPT ![p] = {a}] /\ front' = [front EXCEPT ![p] = a]
         /\ retired' = [retired EXCEPT ![p] = @ \cup known[p]]
    ELSE UNCHANGED <<known, front, retired>>

\* Registry.CollapsePeerAddress: every other address is kept for inbound
\* envelopes only, for the grace time.  An address not listed is an error.
CollapsePeerAddress(p, a) ==
    IF a \in known[p]
    THEN /\ known' = [known EXCEPT ![p] = {a}] /\ front' = [front EXCEPT ![p] = a]
         /\ retired' = [retired EXCEPT ![p] = @ \cup (known[p] \ {a})]
    ELSE UNCHANGED <<known, front, retired>>

EvictsOwn(p) == my[p]

\* The address RotateOwnOnion returns for immediate deletion.
Evicted(p) == prev[p]

\* applyConfirmedSideEffects for the end that minted.
ApplyOwn(p) ==
    LET m == hand[p].msg
    IN  /\ At(p, "apply") /\ rec[p][m.rot].minted
        /\ \/ /\ RotateOwnOnion(p, m.rot)
              /\ IF Evicted(p) \notin {None, m.rot}
                 THEN /\ hand' = [hand EXCEPT ![p] = [pc |-> "delold", msg |-> m,
                                                      old |-> Evicted(p)]]
                      /\ UNCHANGED inbox
                 ELSE Ack(p, m)
              /\ UNCHANGED faults
           \/ Fault /\ Ack(p, m) /\ UNCHANGED <<my, prev, cooling>>
        /\ UNCHANGED <<manager, net, known, front, retired, keys, served, crashes,
                       reconnects>>

DelOld(p) ==
    /\ At(p, "delold")
    /\ \/ served' = [served EXCEPT ![p] = @ \ {hand[p].old}] /\ UNCHANGED faults
       \/ Fault /\ UNCHANGED served
    /\ Ack(p, hand[p].msg)
    /\ UNCHANGED <<manager, net, book, crashes, reconnects>>

\* ... and for the end that was told a new address.
ApplyTheirs(p) ==
    LET m == hand[p].msg
    IN  /\ At(p, "apply") /\ rec[p][m.rot].theirs
        /\ \/ CollapsePeerAddress(p, m.rot) /\ UNCHANGED faults
           \/ Fault /\ UNCHANGED <<known, front, retired>>
        /\ Ack(p, m)
        /\ UNCHANGED <<manager, net, my, prev, cooling, keys, served, crashes,
                       reconnects>>
-----------------------------------------------------------------------------
(* Time, transport and failures *)

\* The outbox delivers: the sender must resolve the address, the receiver must
\* serve it; a source address the receiver does not resolve is refused.
Arrive(m) ==
    /\ m \in net
    /\ m.via \in keys[Other(m.to)] /\ m.via \in served[m.to]
    /\ net' = net \ {m}
    /\ inbox' = IF m.from \in keys[m.to]
                THEN [inbox EXCEPT ![m.to] = @ \cup {m}] ELSE inbox
    /\ UNCHANGED <<manager, hand, book, served, counters>>

GraceEnds(p) ==
    /\ cooling[p]
    /\ cooling' = [cooling EXCEPT ![p] = FALSE]
    /\ UNCHANGED <<manager, wire, my, prev, known, front, retired, keys, served,
                   counters>>

\* SweepRetiredOwnOnions and the DelOnion of what it returns.
SweepOwn(p) ==
    /\ prev[p] # None /\ ~cooling[p]
    /\ prev' = [prev EXCEPT ![p] = None]
    /\ served' = [served EXCEPT ![p] = @ \ {prev[p]}]
    /\ UNCHANGED <<manager, wire, my, cooling, known, front, retired, keys, counters>>

\* SweepRetiredAddrs: an address whose time is over resolves to nobody.
SweepAddr(p, a) ==
    /\ a \in retired[p]
    /\ retired' = [retired EXCEPT ![p] = @ \ {a}]
    /\ keys' = [keys EXCEPT ![p] = @ \ {a}]
    /\ UNCHANGED <<manager, wire, my, prev, cooling, known, front, served, counters>>

\* The entries a stop can cut: the one the reader has in hand, or one decrypted
\* just now that no handler has seen, or none.
Cut(p) == IF hand[p].pc = "idle" THEN inbox[p] \cup {None} ELSE {hand[p].msg}

\* The frontend daemon restarts: the manager keeps nothing on disk, and the
\* entry that was decrypted is an old counter when it is handed out again.
Crash(p) ==
    /\ Room(crashes, MaxCrashes)
    /\ crashes' = crashes + 1
    /\ rec' = [rec EXCEPT ![p] = [r \in Rots |-> NoRecord]]
    /\ Release(p)
    /\ cleanup' = [cleanup EXCEPT ![p] = {}]
    /\ hand' = [hand EXCEPT ![p] = Idle]
    /\ \E m \in Cut(p) : inbox' = [inbox EXCEPT ![p] = @ \ {m}]
    /\ UNCHANGED <<used, net, book, served, faults, reconnects>>

\* The Tor control connection is lost and with it every onion; the ones in the
\* address book are published again.
Reconnect(p) ==
    /\ Room(reconnects, MaxReconnects)
    /\ reconnects' = reconnects + 1
    /\ served' = [served EXCEPT
                    ![p] = {my[p]} \cup (IF cooling[p] THEN {prev[p]} ELSE {})]
    /\ UNCHANGED <<manager, wire, book, faults, crashes>>
-----------------------------------------------------------------------------
Init ==
    /\ rec = [p \in Ends |-> [r \in Rots |-> NoRecord]]
    /\ perPeer = [p \in Ends |-> None]
    /\ used = {} /\ cleanup = [p \in Ends |-> {}]
    /\ hand = [p \in Ends |-> Idle]
    /\ inbox = [p \in Ends |-> {}] /\ net = {}
    /\ my = [p \in Ends |-> p] /\ prev = [p \in Ends |-> None]
    /\ cooling = [p \in Ends |-> FALSE]
    /\ known = [p \in Ends |-> {Other(p)}] /\ front = [p \in Ends |-> Other(p)]
    /\ retired = [p \in Ends |-> {}]
    /\ keys = [p \in Ends |-> {Other(p)}]
    /\ served = [p \in Ends |-> {p}]
    /\ faults = 0 /\ crashes = 0 /\ reconnects = 0

Inbound(p) ==
    \/ \E m \in inbox[p] :
          \/ RefuseRequest(p, m) \/ OnRequest(p, m) \/ OnAccept(p, m)
          \/ OnAddress(p, m) \/ OnConfirm(p, m) \/ OnCancel(p, m)
    \/ AutoAccept(p) \/ AfterMint(p) \/ Unmint(p) \/ Overlay(p) \/ ShipConfirm(p)
    \/ ApplyOwn(p) \/ DelOld(p) \/ ApplyTheirs(p)

Next ==
    \/ \E p \in Ends, r \in Rots :
          \/ Begin(p, r) \/ Abandon(p, r) \/ CleanDel(p, r) \/ CleanCancel(p, r)
          \/ ClientAccept(p, r)
    \/ \E p \in Ends : Inbound(p) \/ GraceEnds(p) \/ SweepOwn(p) \/ Crash(p)
                       \/ Reconnect(p)
    \/ \E p \in Ends, a \in Addr : SweepAddr(p, a)
    \/ \E m \in net : Arrive(m)

Spec == Init /\ [][Next]_vars
-----------------------------------------------------------------------------
(* Properties *)

\* The peer is marked busy exactly while one of its rotations is open: no
\* failure, cancel or late confirm of one rotation frees the slot of another,
\* and none keeps it taken for ever.
PerPeerExact ==
    \A p \in Ends : {r \in Rots : rec[p][r].state \in Open} = {perPeer[p]} \ {None}

\* A rotation reported failed stays failed: the confirm that shipConfirm sends
\* without looking at the state again, and every late message, leave it alone.
FailedIsFinal ==
    [][\A p \in Ends, r \in Rots :
         rec[p][r].state = "failed" => rec'[p][r].state \in {"failed", "none"}]_vars

\* While the Tor control connection lasts, the onion the address book names as
\* ours is served, and the one before it through its grace time: no clean-up
\* deletes an onion in use, whatever fails or restarts around it.
OwnOnionServed ==
    reconnects = 0 => \A p \in Ends :
        /\ my[p] \in served[p]
        /\ cooling[p] => prev[p] \in served[p]

\* Without failures every onion served is in the address book, belongs to an
\* open rotation, or is about to be deleted.
NoOrphanOnion ==
    Untroubled => \A p \in Ends : \A a \in served[p] \ {my[p], prev[p]} :
        \/ hand[p].old = a
        \/ a \in Rots /\ rec[p][a].state \in Open
        \/ <<"del", a>> \in cleanup[p]
        \/ hand[p].pc \in {"minted", "unmint", "apply"} /\ hand[p].msg.rot = a

\* The end has finished a rotation its peer gave up or has not finished.
Ahead(p, r) ==
    /\ rec[p][r].role = "responder" /\ rec[p][r].state = "confirmed"
    /\ \/ rec[Other(p)][r].state # "confirmed"
       \/ hand[Other(p)].pc = "apply" /\ hand[Other(p)].msg.rot = r

\* Without failures the peer resolves our current onion, so what we send is not
\* refused, unless it is ahead of us in some rotation.
NotCutOff ==
    Untroubled => \A p \in Ends :
        my[p] \in keys[Other(p)] \/ \E r \in Rots : Ahead(Other(p), r)

\* Without failures what we send goes to an onion the peer serves, unless the
\* peer has failed the rotation that onion was minted for.
ReachesPeer ==
    Untroubled => \A p \in Ends :
        \/ front[p] \in served[Other(p)]
        \/ \E r \in Rots : front[p] = r /\ rec[Other(p)][r].state = "failed"

\* The address the responder retains is the one the initiator rotated to: an
\* end does not finish a rotation its peer has failed.
RetainsRotated ==
    \A p \in Ends, r \in Rots :
        ~(rec[p][r].state = "confirmed" /\ rec[Other(p)][r].state = "failed")

\* Both directions: what either end sends is addressed to an onion the other
\* serves and comes from one the other resolves (overlay, collapse and the
\* rotation of the own onion, in whatever order the two ends apply them).
StaysConnected == NotCutOff /\ ReachesPeer
=============================================================================
