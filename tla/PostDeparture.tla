--------------------------- MODULE PostDeparture ---------------------------
(***************************************************************************)
(* How a shipment that was handed over comes to have a lifecycle.  The     *)
(* registry commits a handoff with an outbox row, the outbox delivers its  *)
(* request to the inbox, and a worker of the inbox starts the lifecycle:   *)
(* one departure event and one flow per container, for the containers the  *)
(* request froze.  In between, the shipment may be joined by another       *)
(* source, corrected or completed, its request may be delivered again or   *)
(* replayed, and workers may overlap, fail and die.                        *)
(*                                                                         *)
(* The outbox is taken at its word (OutboxLedger, which Outbox implements):*)
(* a row is delivered at least once, published only after that, or closed  *)
(* as a dead letter whether or not it was delivered.                       *)
(***************************************************************************)
EXTENDS ShipmentHandoff

CONSTANTS
  Worker,        \* see Inbox
  NoFlow,        \* a container without a flow
  Planned,       \* a flow made before departure, from 'cargo_ready' on
  MaxEvents      \* bound: handoffs and mishaps together

ASSUME PostDepartureAssumption ==
  /\ {None, NoFlow, Planned} \cap Nat = {}
  /\ None # NoFlow /\ None # Planned /\ NoFlow # Planned
  /\ MaxEvents \in Nat

VARIABLES
  inbox, task,   \* see Inbox
  flow,          \* flow_instance of a container: by which request it was made
  applied,       \* requests whose departure event exists
  mishaps        \* spent bound

Queue == INSTANCE Inbox WITH Payload <- HandoffId, Event <- RowId

queue == <<inbox, task>>
lifecycle == <<flow, applied>>
vars == <<registry, outbox, queue, lifecycle, mishaps>>

TypeOK ==
  /\ RegistryTypeOK
  /\ Queue!InboxTypeOK
  /\ flow \in [Container -> {NoFlow, Planned} \cup HandoffId]
  /\ applied \subseteq HandoffId
  /\ mishaps \in 0..MaxMishaps

Init ==
  /\ RegistryInit
  /\ Queue!InboxInit
  /\ flow = [c \in Container |-> NoFlow]
  /\ applied = {}
  /\ mishaps = 0

\* What costs a part of the bound: leases that lapse under a worker, workers
\* and drains that die, drains behind the others, database errors, dead
\* letters, replays by people, flows planned for a container of a shipment.
Mishap ==
  /\ mishaps < MaxMishaps
  /\ Len(handoff) + mishaps < MaxEvents
  /\ mishaps' = mishaps + 1

-----------------------------------------------------------------------------
(* The registry, and the flows of containers that have not departed        *)

Register ==
  /\ RegistryNext
  /\ Len(handoff') + mishaps <= MaxEvents
  /\ UNCHANGED <<queue, lifecycle, mishaps>>

\* ensureFlow, for a container nobody has started a flow for
PlanFlow(c) ==
  /\ Mishap
  /\ flow[c] = NoFlow
  /\ flow' = [flow EXCEPT ![c] = Planned]
  /\ UNCHANGED <<registry, outbox, inbox, task, applied>>

-----------------------------------------------------------------------------
(* The outbox                                                              *)

Mark(r, state) == outbox' = [outbox EXCEPT ![r].state = state]

\* Mutant of Deliver: the receipt fails and the row is published all the same.
Deliver_Unreceived(r) ==
  /\ outbox[r].state = "open"
  /\ Mark(r, "published")
  /\ UNCHANGED <<registry, queue, lifecycle, mishaps>>

\* deliverPostDepartureLifecycle: reads the request of the handoff the row
\* names, and receives it under the row's event id; then the row is closed
\* as published.
Deliver(r) ==
  /\ outbox[r].state = "open"
  /\ Queue!Receive(r, outbox[r].handoff)
  /\ Mark(r, "published")
  /\ UNCHANGED <<registry, lifecycle, mishaps>>

\* The drain dies before it closes the row, or it is behind others that
\* closed it.
DeliverOnly(r) ==
  /\ Queue!Receive(r, outbox[r].handoff)
  /\ Mishap
  /\ UNCHANGED <<registry, outbox, lifecycle>>

GiveUp(r) ==
  /\ outbox[r].state = "open"
  /\ Mark(r, "dead")
  /\ Mishap
  /\ UNCHANGED <<registry, inbox, task, lifecycle>>

\* ReplayDeadLetterService: a fresh row, hence a fresh event id.
Replay(r) ==
  /\ outbox[r].state = "dead"
  /\ Mishap
  /\ outbox' = Append(outbox, [handoff |-> outbox[r].handoff,
                               state |-> "open", replay |-> TRUE])
  /\ UNCHANGED <<registry, inbox, task, lifecycle>>

-----------------------------------------------------------------------------
(* Starting the lifecycle: initialize                                      *)

Request(w) == Queue!Message(w).payload

\* Mutant of Newest: the query is ordered the wrong way round.
Newest_First(s) == {h \in Accepted(s) :
  \A g \in Accepted(s) : handoff[g].version >= handoff[h].version}

\* The accepted handoffs of the highest version; which of them the query
\* returns first is not determined.
Newest(s) == {h \in Accepted(s) :
                \A g \in Accepted(s) : handoff[g].version <= handoff[h].version}

\* departureContext and the departure time the shipment must agree with
Proven(h) ==
  \/ handoff[h].proof = "status"
  \/ handoff[h].proof = "actual_time" /\ shipment[handoff[h].shipment].atd

\* Mutant of Current: the update looks at the lifecycle version only.
Current_AnyRelationships(h) == shipment[handoff[h].shipment].lc = 1

Current(h) ==
  LET s == handoff[h].shipment IN
  shipment[s].rel = handoff[h].rel /\ shipment[s].lc = 1

Unflowed(h) == \A c \in handoff[h].scope : flow[c] = NoFlow

\* What the reads require, when they take handoff 'newest' for the context
Startable(h, newest) ==
  /\ Current(h)
  /\ Active(handoff[h].shipment) = handoff[h].scope
  /\ newest = h
  /\ Proven(h)
  /\ Unflowed(h)

At(w, step) == ~Queue!Idle(w) /\ task[w].step = step

Read(w) ==
  LET h == Request(w) IN
  /\ At(w, "claimed")
  /\ \/ Queue!LoseLease(w)
     \/ h \in applied /\ Queue!Complete(w)
     \/ /\ Queue!HasLease(w)
        /\ h \notin applied
        /\ \E newest \in Newest(handoff[h].shipment) :
             IF Startable(h, newest) THEN Queue!ReadsPass(w)
             ELSE Queue!Fail(w, "business_rejected")
  /\ UNCHANGED <<registry, outbox, lifecycle, mishaps>>

\* Inserting the event or a flow that has appeared since breaks a unique
\* index, an error nobody classified.
Collides(h) == h \in applied \/ ~Unflowed(h)

Start(w) ==
  LET h == Request(w) IN
  /\ At(w, "writing")
  /\ ~Collides(h)
  /\ Current(h)
  /\ Queue!Complete(w)
  /\ applied' = applied \cup {h}
  /\ flow' = [c \in Container |->
                IF c \in handoff[h].scope THEN h ELSE flow[c]]
  /\ shipment' = [shipment EXCEPT ![handoff[h].shipment].lc = @ + 1]
  /\ UNCHANGED <<link, handoff, correcting, outbox, mishaps>>

Abort(w) ==
  LET h == Request(w) IN
  /\ At(w, "writing")
  /\ \/ Collides(h) /\ Queue!Fail(w, "unknown_code")
     \/ ~Collides(h) /\ ~Current(h) /\ Queue!Fail(w, "business_rejected")
     \/ ~Collides(h) /\ Current(h) /\ Queue!LoseLease(w)
  /\ UNCHANGED <<registry, outbox, lifecycle, mishaps>>

\* classifyHttpConsumeError goes by words in the text of the error.
DatabaseFails(w) ==
  /\ At(w, "claimed") \/ At(w, "writing")
  /\ \E cause \in {"dependency_unavailable", "unknown_code"} :
       Queue!Fail(w, cause)
  /\ Mishap
  /\ UNCHANGED <<registry, outbox, lifecycle>>

-----------------------------------------------------------------------------
(* Specification                                                           *)

OnlyQueue == UNCHANGED <<registry, outbox, lifecycle>>
Smooth == OnlyQueue /\ UNCHANGED mishaps

Claim(w) == Smooth /\ \E i \in DOMAIN inbox : Queue!Claim(w, i)
RecordFailure(w) == Smooth /\ Queue!RecordFailure(w)
Crash(w) == Queue!Crash(w) /\ Mishap /\ OnlyQueue
Revive(i, source) == Queue!Revive(i, source) /\ Mishap /\ OnlyQueue

\* The lease of a dead worker lapses for sure.
Expire(i) == ~Queue!Held(i) /\ Queue!Lapse(i) /\ Smooth
LapseEarly(i) == Queue!Held(i) /\ Queue!Lapse(i) /\ Mishap /\ OnlyQueue

Work(w) == Read(w) \/ Start(w) \/ Abort(w) \/ RecordFailure(w)

Next ==
  \/ Register
  \/ \E c \in Container : PlanFlow(c)
  \/ \E r \in DOMAIN outbox : Deliver(r) \/ DeliverOnly(r) \/ GiveUp(r) \/ Replay(r)
  \/ \E w \in Worker :
       Claim(w) \/ Work(w) \/ DatabaseFails(w) \/ Crash(w)
  \/ \E i \in DOMAIN inbox : Expire(i) \/ LapseEarly(i)
  \/ \E i, source \in DOMAIN inbox : Revive(i, source)

Spec == Init /\ [][Next]_vars

-----------------------------------------------------------------------------
(* The read projection of a shipment                                       *)

Ready(s) ==
  /\ Active(s) # {}
  /\ \A c \in Active(s) : /\ flow[c] \in HandoffId
                           /\ handoff[flow[c]].shipment = s
                           /\ handoff[flow[c]].rel = shipment[s].rel

RowsOf(s) == {r \in DOMAIN outbox : handoff[outbox[r].handoff].shipment = s}
LatestRow(s) == CHOOSE r \in RowsOf(s) : \A q \in RowsOf(s) : q <= r

Signal(s) ==
  LET r == LatestRow(s) IN
  IF Ready(s) THEN "ready"
  ELSE IF \/ outbox[r].state = "dead"
          \/ \E i \in DOMAIN inbox : /\ inbox[i].event = r
                                     /\ inbox[i].state = "dead_letter"
  THEN "manual_review" ELSE "pending"

-----------------------------------------------------------------------------
(* Properties                                                              *)

\* A message is processed only by a transaction that leaves its request
\* started, however often the request is delivered, claimed, replayed or
\* abandoned half-way (initialize, assertInboxLease and completeInbox).
ProcessedMeansStarted ==
  \A i \in DOMAIN inbox :
    inbox[i].state = "processed" => inbox[i].payload \in applied

TimedFromTheStart(s) ==
  \E g \in DOMAIN handoff : /\ handoff[g].shipment = s
                            /\ handoff[g].kind = "new"
                            /\ handoff[g].proof = "actual_time"

\* What may stand against a start request
Grounds(h) ==
  LET s == handoff[h].shipment IN
  \/ shipment[s].rel > handoff[h].rel
  \/ shipment[s].lc > 1
  \/ handoff[h].proof = "missing"
  \/ handoff[h].proof = "actual_time" /\ ~TimedFromTheStart(s)
  \/ \E c \in handoff[h].scope : flow[c] # NoFlow
  \/ \E g \in Accepted(s) \ {h} : handoff[g].version >= handoff[h].version

\* A start request is refused as business only when it is of no more use, or
\* cannot be: the relationships have moved on, the shipment has started, its
\* departure was not proven, a container already had a flow, or another
\* accepted handoff of the shipment competes with it (initialize).
RefusedForAReason ==
  \A i \in DOMAIN inbox :
    inbox[i].state = "dead_letter" /\ inbox[i].cause = "business_rejected"
      => Grounds(inbox[i].payload)

\* What the projection calls pending is under way: the latest start message
\* of the shipment, or the inbox row it was delivered as, is still open.
\* (LatestRow of a replay may be older than what decided the shipment.)
PendingIsUnderWay ==
  \A s \in Shipment :
    LET r == LatestRow(s) IN
    Exists(s) /\ Signal(s) = "pending" /\ ~outbox[r].replay
    => \/ outbox[r].state = "open"
       \/ \E i \in DOMAIN inbox : inbox[i].event = r /\ Queue!Open(i)

\* The shipment starts at most once and as a whole, although its containers
\* may change between reading and starting them, and no container starts
\* twice (initialize, the guarded update of the shipment).
Started(s) == {c \in Container : /\ flow[c] \in HandoffId
                                /\ handoff[flow[c]].shipment = s}

Whole == INSTANCE LifecycleStart WITH
  version <- [s \in Shipment |-> shipment[s].rel],
  scope   <- [s \in Shipment |-> Active(s)],
  started <- [s \in Shipment |-> Started(s)]

ImplementsLifecycleStart == Whole!StartSpec

\* The containers a departure event froze stay in their shipment
\* (resolveCorrection refuses a correction after lifecycle progress).
FrozenScopeStaysLinked ==
  \A h \in applied : handoff[h].scope \subseteq Active(handoff[h].shipment)
=============================================================================
