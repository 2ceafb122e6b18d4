------------------------------ MODULE DateFacts ------------------------------
(***************************************************************************)
(* Date facts of one container: each is appended, handed to the lifecycle  *)
(* flow as an event, and shows what became of it.  A fact whose node is    *)
(* not ready stays pending until a later command replays it.               *)
(*                                                                         *)
(* The call that appended a fact writes the outcome without a fence; calls *)
(* that replay pending facts hold a lease.  Both work on the same facts.   *)
(* The flow is reduced to which fact completed which node; LifecycleFlow   *)
(* has its details.  Facts that are not verified actual dates never reach  *)
(* the flow and are left out, and so are events for several nodes.         *)
(***************************************************************************)
EXTENDS Naturals, FiniteSets, Sequences

CONSTANTS
  FinalNode,    \* nodes are 1 .. FinalNode, in the order of the flow
  Fact,         \* date facts, by idempotency key
  NodeOf,       \* the node that the event of a fact completes
  PlaceOf,      \* what else tells dates of a node apart: event and location
  At,           \* occurredAt
  Supersedes,   \* the fact that a fact corrects, or None
  Guarded,      \* nodes that lack the records their guard asks for
  Caller,       \* commands in progress
  None,         \* SQL NULL
  MaxRepeats,   \* bound: facts delivered again
  MaxTouches,   \* bound: applicability decisions
  MaxTroubles   \* bound: crashes, database errors, and leases that lapse while
                \* their replay works

Node == 1 .. FinalNode

ASSUME FactAssumption ==
  /\ FinalNode \in Nat \ {0}
  /\ IsFiniteSet(Fact)
  /\ NodeOf \in [Fact -> Node]
  /\ At \in [Fact -> Nat]
  /\ Supersedes \in [Fact -> Fact \cup {None}]
  /\ \A f \in Fact : Supersedes[f] # None => NodeOf[Supersedes[f]] = NodeOf[f]
  /\ Guarded \subseteq Node
  /\ None \notin Fact \cup Caller
  /\ {MaxRepeats, MaxTouches, MaxTroubles} \subseteq Nat

VARIABLES
  fact,         \* lifecycle_date_fact rows
  saved,        \* facts whose canonical event is saved
  doneBy,       \* the fact whose event completed a node
  judged,       \* facts whose node application is recorded as rejected
  ready,        \* nodes that have the records their guard asks for
  touches,      \* changes of the flow version other than completed nodes
  \* commands: place, fact being applied, claimed facts still to apply, the
  \* fact they appended, the flow as read, and what it answered
  pc, doing, queue, own, seen, result,
  \* history: pending facts that the last claim left to their lease, facts
  \* that lost a replay's lease to the outcome their own call wrote, and nodes
  \* completed by a replay
  skipped, stripped, byReplay,
  \* history: facts that completed their node while another execution of their
  \* event was between its last lookup and its transaction's read of the node
  crossed,
  \* spent bounds
  repeats, lapses, failures

rows   == <<fact, saved, doneBy, judged, ready, touches>>
locals == <<doing, queue, own, seen, result>>
bounds == <<repeats, lapses, failures>>
history == <<skipped, stripped, byReplay, crossed>>
vars   == <<rows, pc, locals, history, bounds>>

\* A row, and its lease: only pending facts are leased.
FactRow ==
  {r \in [state : {"none", "pending", "applied", "rejected"},
          current : BOOLEAN, version : 0 .. Cardinality(Fact),
          owner : Caller \cup {None}, live : BOOLEAN] :
     r.live => r.state = "pending" /\ r.owner # None}
SeenFlow == [done : SUBSET Node, ready : SUBSET Node, touches : Nat]

TypeOK ==
  /\ fact \in [Fact -> FactRow]
  /\ saved \subseteq Fact
  /\ doneBy \in [Node -> Fact \cup {None}]
  /\ judged \subseteq Fact
  /\ ready \subseteq Node
  /\ touches \in 0 .. MaxTouches
  /\ pc \in [Caller -> {"idle", "open", "save", "read", "decide", "apply",
                        "update", "claim", "undo"}]
  /\ doing \in [Caller -> Fact \cup {None}]
  /\ queue \in [Caller -> Seq(Fact)]
  /\ own \in [Caller -> Fact \cup {None}]
  /\ seen \in [Caller -> SeenFlow]
  /\ result \in [Caller -> {"none", "pending", "applied", "rejected"}]
  /\ skipped \subseteq Fact /\ stripped \subseteq Fact /\ byReplay \subseteq Node
  /\ crossed \subseteq Fact
  /\ repeats \in Nat /\ lapses \in Nat /\ failures \in Nat

Nothing == [done |-> {}, ready |-> {}, touches |-> 0]

Init ==
  /\ fact = [f \in Fact |-> [state |-> "none", current |-> FALSE, version |-> 0,
                             owner |-> None, live |-> FALSE]]
  /\ saved = {} /\ judged = {}
  /\ skipped = {} /\ stripped = {} /\ byReplay = {} /\ crossed = {}
  /\ doneBy = [n \in Node |-> None]
  /\ ready = Node \ Guarded
  /\ touches = 0
  /\ pc     = [c \in Caller |-> "idle"]
  /\ doing  = [c \in Caller |-> None]
  /\ queue  = [c \in Caller |-> <<>>]
  /\ own    = [c \in Caller |-> None]
  /\ seen   = [c \in Caller |-> Nothing]
  /\ result = [c \in Caller |-> "none"]
  /\ repeats = 0 /\ lapses = 0 /\ failures = 0

Done == {n \in Node : doneBy[n] # None}
Recorded == {f \in Fact : fact[f].state # "none"}

Goto(c, place) == pc' = [pc EXCEPT ![c] = place]

\* The command returns, throws or dies.
Leave(c) ==
  /\ Goto(c, "idle")
  /\ doing'  = [doing EXCEPT ![c] = None]
  /\ queue'  = [queue EXCEPT ![c] = <<>>]
  /\ own'    = [own EXCEPT ![c] = None]
  /\ seen'   = [seen EXCEPT ![c] = Nothing]
  /\ result' = [result EXCEPT ![c] = "none"]

\* The command turns to another fact f, with rest still to apply.
TurnTo(c, f, rest, place) ==
  /\ Goto(c, place)
  /\ doing'  = [doing EXCEPT ![c] = f]
  /\ queue'  = [queue EXCEPT ![c] = rest]
  /\ seen'   = [seen EXCEPT ![c] = Nothing]
  /\ result' = [result EXCEPT ![c] = "none"]
  /\ UNCHANGED own

-----------------------------------------------------------------------------
(* Commands.                                                               *)

\* The lookup of append and correctionTarget: the fact that is corrected must
\* be current; if none is, no current fact may stand for the same date.
Correctable(f) ==
  /\ Supersedes[f] # None => fact[Supersedes[f]].current
  /\ Supersedes[f] = None =>
       \A g \in Fact :
         fact[g].current => NodeOf[g] # NodeOf[f] \/ PlaceOf[g] # PlaceOf[f]

\* append, under a lock on the container.
Record(c, f) ==
  /\ pc[c] = "idle"
  /\ fact[f].state = "none"
  /\ Correctable(f)
  /\ fact' = [g \in Fact |->
       CASE g = f -> [state |-> "pending", current |-> TRUE,
                      version |-> Cardinality(Recorded) + 1,
                      owner |-> None, live |-> FALSE]
         [] g = Supersedes[f] -> [fact[g] EXCEPT !.current = FALSE]
         [] OTHER -> fact[g]]
  /\ own' = [own EXCEPT ![c] = f]
  /\ doing' = [doing EXCEPT ![c] = f]
  /\ Goto(c, "open")
  /\ UNCHANGED <<saved, doneBy, judged, ready, touches, queue, seen, result,
                 history, bounds>>

\* The fact is delivered again: if it is still pending, a replay starts.
Repeat(c, f) ==
  /\ pc[c] = "idle"
  /\ fact[f].state = "pending"
  /\ repeats < MaxRepeats
  /\ repeats' = repeats + 1
  /\ Goto(c, "claim")
  /\ UNCHANGED <<rows, locals, history, lapses, failures>>

\* The records that the guard of a node asks for are written, then a replay
\* starts (decide-cargo-ready-and-replay and the like).
MakeReady(c, n) ==
  /\ pc[c] = "idle"
  /\ n \notin ready
  /\ ready' = ready \cup {n}
  /\ Goto(c, "claim")
  /\ UNCHANGED <<fact, saved, doneBy, judged, touches, locals, history, bounds>>

\* set-node-applicability changes the flow version and replays; whether a node
\* is applicable is left to LifecycleFlow.
Touch(c) ==
  /\ pc[c] = "idle"
  /\ touches < MaxTouches
  /\ touches' = touches + 1
  /\ Goto(c, "claim")
  /\ UNCHANGED <<fact, saved, doneBy, judged, ready, locals, history, bounds>>

-----------------------------------------------------------------------------
(* apply-lifecycle-event on one fact.                                      *)

Answer(c, answer) ==
  /\ result' = [result EXCEPT ![c] = answer]
  /\ Goto(c, "update")

\* The event is refused unless its fact may still prove a state.  Then the
\* saved event is looked up.
Open(c) ==
  LET f == doing[c]
  IN  /\ pc[c] = "open"
      /\ \/ /\ fact[f].state = "rejected"
            /\ Answer(c, "rejected")
         \/ /\ fact[f].state # "rejected"
            /\ Goto(c, IF f \in saved THEN "read" ELSE "save")
            /\ UNCHANGED result
      /\ UNCHANGED <<rows, doing, queue, own, seen, history, bounds>>

\* saveEvent: fails on the unique key if the event was saved meanwhile, and an
\* error that is no business error leaves the fact pending.
Save(c) ==
  LET f == doing[c]
  IN  /\ pc[c] = "save"
      /\ \/ /\ f \in saved
            /\ Answer(c, "pending")
         \/ /\ f \notin saved
            /\ Goto(c, "read")
            /\ UNCHANGED result
      /\ saved' = saved \cup {f}
      /\ UNCHANGED <<fact, doneBy, judged, ready, touches, doing, queue, own,
                     seen, history, bounds>>

\* ensureFlow.
Read(c) ==
  /\ pc[c] = "read"
  /\ seen' = [seen EXCEPT ![c] =
                [done |-> Done, ready |-> ready, touches |-> touches]]
  /\ Goto(c, "decide")
  /\ UNCHANGED <<rows, doing, queue, own, result, history, bounds>>

Before(n) == 1 .. (n - 1)

\* decideNodeEventApplication on the completed nodes as read.
Sealed(f, nodes) == NodeOf[f] \in nodes
Waits(f, nodes) == ~(Before(NodeOf[f]) \subseteq nodes)

\* Mutant of TooEarly: the times are compared the wrong way round.
TooEarly_Swapped(f, nodes) ==
  \E p \in Before(NodeOf[f]) \cap nodes : At[doneBy[p]] < At[f]

TooEarly(f, nodes) ==
  \E p \in Before(NodeOf[f]) \cap nodes : At[doneBy[p]] > At[f]

AlreadyApplied(f) == doneBy[NodeOf[f]] = f

\* Mutant of ConflictAnswer: a lost race is answered like a sealed history.
ConflictAnswer_Final == "rejected"

\* classifyLifecycleApplicationFailure(LIFECYCLE_VERSION_CONFLICT).
ConflictAnswer == "pending"

\* Mutant of WaitingAnswer: pendingNodes is not looked at.
WaitingAnswer_Applied == "applied"

\* The answer when apply-lifecycle-event returns pendingNodes.
WaitingAnswer == "pending"

\* Rejections are recorded and final.
Reject(c) ==
  LET f == doing[c]
      nodes == seen[c].done
  IN  /\ pc[c] = "decide"
      /\ ~AlreadyApplied(f)
      /\ \/ f \in judged
         \/ Sealed(f, nodes)
         \/ ~Waits(f, nodes) /\ TooEarly(f, nodes)
      /\ judged' = judged \cup {f}
      /\ Answer(c, "rejected")
      /\ UNCHANGED <<fact, saved, doneBy, ready, touches, doing, queue, own,
                     seen, history, bounds>>

\* A predecessor is missing, or records that the guard asks for were.
Postpone(c) ==
  LET f == doing[c]
      nodes == seen[c].done
  IN  /\ pc[c] = "decide"
      /\ ~AlreadyApplied(f) /\ f \notin judged /\ ~Sealed(f, nodes)
      /\ \/ Waits(f, nodes)
         \/ NodeOf[f] \notin seen[c].ready /\ ~TooEarly(f, nodes)
      /\ Answer(c, WaitingAnswer)
      /\ UNCHANGED <<rows, doing, queue, own, seen, history, bounds>>

\* Looked up before the decision, or first of all by applyEventToNode.
Repeated(c) ==
  /\ pc[c] = "decide"
  /\ AlreadyApplied(doing[c])
  /\ Answer(c, "applied")
  /\ UNCHANGED <<rows, doing, queue, own, seen, history, bounds>>

\* c applies the fact it appended.
Direct(c) == own[c] # None /\ doing[c] = own[c]

\* The event may complete its node, and applyEventToNode finds no application
\* of it either.
Admitted(c) ==
  LET f == doing[c]
      nodes == seen[c].done
  IN  /\ pc[c] = "decide"
      /\ ~AlreadyApplied(f) /\ f \notin judged
      /\ ~Sealed(f, nodes) /\ ~Waits(f, nodes) /\ ~TooEarly(f, nodes)
      /\ NodeOf[f] \in ready
      /\ Goto(c, "apply")
      /\ UNCHANGED <<rows, locals, history, bounds>>

\* Another execution of the event of f is about to read its node.
Crossed(c, f) == \E d \in Caller \ {c} : pc[d] = "apply" /\ doing[d] = f

\* The rest of applyEventToNode, whose statements see what was committed in the
\* meantime: the node is sealed, by this very fact perhaps, or the flow version
\* has changed, or the node is completed.
Apply(c) ==
  LET f == doing[c]
      n == NodeOf[f]
      unchanged == Done = seen[c].done /\ touches = seen[c].touches
  IN  /\ pc[c] = "apply"
      /\ \/ /\ n \in Done
            /\ Answer(c, "rejected")
            /\ UNCHANGED <<doneBy, byReplay, crossed>>
         \/ /\ ~unchanged
            /\ Answer(c, ConflictAnswer)
            /\ UNCHANGED <<doneBy, byReplay, crossed>>
         \/ /\ unchanged
            /\ Answer(c, "applied")
            /\ doneBy' = [doneBy EXCEPT ![n] = f]
            /\ byReplay' = byReplay \cup (IF Direct(c) THEN {} ELSE {n})
            /\ crossed' = crossed \cup (IF Crossed(c, f) THEN {f} ELSE {})
      /\ UNCHANGED <<fact, saved, judged, ready, touches, doing, queue, own,
                     seen, skipped, stripped, bounds>>

-----------------------------------------------------------------------------
(* What became of the fact.                                                *)

\* Mutant of Settled: the lease is kept.
Settled_KeepsLease(row, state) == [row EXCEPT !.state = state]

Settled(row, state) == [row EXCEPT !.state = state, !.owner = None, !.live = FALSE]

\* Mutant of Replays: a correction is not followed by a replay.
Replays_NoCorrection(c) == result[c] = "applied" /\ Supersedes[own[c]] = None

\* A fact that was applied may have been waited for.
Replays(c) == result[c] = "applied"

\* updateApplication by the call that appended the fact: no fence, so that the
\* lease a replay may have on the fact is gone.
Overwrite(f, state) ==
  /\ fact' = [fact EXCEPT ![f] = Settled(@, state)]
  /\ stripped' = stripped \cup (IF fact[f].owner # None THEN {f} ELSE {})

Update(c) ==
  /\ pc[c] = "update" /\ Direct(c)
  /\ Overwrite(own[c], result[c])
  /\ IF Replays(c) THEN TurnTo(c, None, <<>>, "claim") ELSE Leave(c)
  /\ UNCHANGED <<saved, doneBy, judged, ready, touches, skipped, byReplay,
                 crossed, bounds>>

\* Mutant of Held: the owner is not compared.
Held_ByAnyone(c, f) == c \in Caller /\ f \in Recorded

\* The fence of finishClaimedApplication.
Held(c, f) == fact[f].state = "pending" /\ fact[f].owner = c

\* The rest of what was claimed follows in turn.
GoOn(c) ==
  IF queue[c] = <<>> THEN Leave(c)
  ELSE TurnTo(c, Head(queue[c]), Tail(queue[c]), "open")

\* The replay throws.  The call that appended a fact catches that as if its
\* own application had failed.
Throw(c) ==
  IF own[c] = None THEN Leave(c) ELSE TurnTo(c, None, <<>>, "undo")

\* finishClaimedApplication.  APPLICATION_LEASE_LOST ends the replay, with the
\* rest of what it claimed still leased.
Finish(c) ==
  LET f == doing[c]
  IN  /\ pc[c] = "update" /\ ~Direct(c)
      /\ \/ /\ Held(c, f)
            /\ fact' = [fact EXCEPT ![f] = Settled(@, result[c])]
            /\ GoOn(c)
         \/ /\ ~Held(c, f)
            /\ Throw(c)
            /\ UNCHANGED fact
      /\ UNCHANGED <<saved, doneBy, judged, ready, touches, history, bounds>>

\* The catch after a replay that threw: the fact that was applied is pending.
Undo(c) ==
  /\ pc[c] = "undo"
  /\ Overwrite(own[c], "pending")
  /\ Leave(c)
  /\ UNCHANGED <<saved, doneBy, judged, ready, touches, skipped, byReplay,
                 crossed, bounds>>

Candidates == {f \in Fact : fact[f].current /\ fact[f].state = "pending"}
Leased(f) == fact[f].owner # None /\ fact[f].live

\* By time, then by version.
Earlier(f, g) ==
  At[f] < At[g] \/ (At[f] = At[g] /\ fact[f].version < fact[g].version)

\* The facts of S in that order.
Sorted(S) ==
  {order \in [1 .. Cardinality(S) -> S] :
     \A i, j \in 1 .. Cardinality(S) : i < j => Earlier(order[i], order[j])}

\* claimPendingApplications.
Claim(c) ==
  LET claimed == {f \in Candidates : ~Leased(f)}
  IN  /\ pc[c] = "claim"
      /\ fact' = [f \in Fact |-> IF f \in claimed
                                 THEN [fact[f] EXCEPT !.owner = c, !.live = TRUE]
                                 ELSE fact[f]]
      /\ skipped' = (skipped \ claimed) \cup (Candidates \ claimed)
      /\ stripped' = stripped \ claimed
      /\ \/ claimed = {} /\ Leave(c)
         \/ /\ claimed # {}
            /\ \E order \in Sorted(claimed) :
                 TurnTo(c, Head(order), Tail(order), "open")
      /\ UNCHANGED <<saved, doneBy, judged, ready, touches, byReplay, crossed,
                     bounds>>

-----------------------------------------------------------------------------
(* Time and failures.                                                      *)

WorksOn(c, f) == f = doing[c] \/ \E i \in DOMAIN queue[c] : queue[c][i] = f

\* A lease lapses, most often long after its replay has ended.
Lapse(f) ==
  /\ Leased(f)
  /\ lapses' = lapses + (IF WorksOn(fact[f].owner, f) THEN 1 ELSE 0)
  /\ lapses' + failures <= MaxTroubles
  /\ fact' = [fact EXCEPT ![f].live = FALSE]
  /\ UNCHANGED <<saved, doneBy, judged, ready, touches, pc, locals, history,
                 repeats, failures>>

\* A statement fails: while the event is applied, or the outcome of that is
\* written, which leaves the fact pending; in the catch of a replay, which then
\* throws; or in the claim.
DatabaseFails(c) ==
  /\ failures + lapses < MaxTroubles
  /\ failures' = failures + 1
  /\ \/ /\ \/ pc[c] \in {"open", "save", "read", "decide", "apply"}
           \/ pc[c] = "update" /\ result[c] # "rejected"
        /\ Answer(c, "pending")
        /\ UNCHANGED <<doing, queue, own, seen>>
     \/ /\ \/ pc[c] = "update" /\ result[c] # "applied" /\ ~Direct(c)
           \/ pc[c] = "claim"
        /\ Throw(c)
  /\ UNCHANGED <<rows, history, repeats, lapses>>

Crash(c) ==
  /\ pc[c] # "idle"
  /\ failures + lapses < MaxTroubles
  /\ failures' = failures + 1
  /\ Leave(c)
  /\ UNCHANGED <<rows, history, repeats, lapses>>

CallerStep(c) ==
  \/ \E f \in Fact : Record(c, f) \/ Repeat(c, f)
  \/ \E n \in Node : MakeReady(c, n)
  \/ Touch(c)
  \/ Open(c) \/ Save(c) \/ Read(c)
  \/ Reject(c) \/ Postpone(c) \/ Repeated(c) \/ Admitted(c) \/ Apply(c)
  \/ Update(c) \/ Finish(c) \/ Undo(c) \/ Claim(c)
  \/ DatabaseFails(c) \/ Crash(c)

Next == (\E c \in Caller : CallerStep(c)) \/ (\E f \in Fact : Lapse(f))

Spec == Init /\ [][Next]_vars
-----------------------------------------------------------------------------
(* What a reader of the code relies on.                                    *)

\* A fact shown as applied did complete its node, although calls without a
\* fence and replays with a lapsed lease write what they learnt long before.
AppliedIsDone ==
  \A f \in Fact : fact[f].state = "applied" => doneBy[NodeOf[f]] = f

\* A rejection is final, so it needs a reason that lasts: another fact completed
\* the node, or a node before it happened later.  A lost race is no reason, with
\* one exception: the race was lost to another execution of the same event.
RejectionIsJustified ==
  \A f \in Fact : fact[f].state = "rejected" =>
    \/ doneBy[NodeOf[f]] \notin {f, None}
    \/ TooEarly(f, Done)
    \/ doneBy[NodeOf[f]] = f /\ f \in crossed

\* The nodes are completed in order, with times that do not decrease, whatever
\* the order in which facts arrive and are replayed.
CompletedInOrder ==
  \A n \in Done : \A m \in Before(n) :
    m \in Done /\ At[doneBy[m]] <= At[doneBy[n]]

\* Only the call that appended a fact ever takes back that it was applied: a
\* replay that lost its lease changes nothing.
OnlyOwnCallUndoes ==
  [][\A f \in Fact :
       fact[f].state = "applied" /\ fact'[f].state # "applied" =>
         \E c \in Caller : own[c] = f /\ pc[c] \in {"update", "undo"}]_vars

\* All commands have ended, none of them by a failure.
Quiet == failures = 0 /\ \A c \in Caller : pc[c] = "idle"

\* f could complete its node now.
Due(f) ==
  /\ fact[f].state = "pending" /\ fact[f].current
  /\ NodeOf[f] \in ready \ Done
  /\ ~Waits(f, Done) /\ ~TooEarly(f, Done)

\* A fact that could complete its node is applied by somebody.  When it still
\* waits, a lease kept the last claim from it, or its own call took it out of
\* the hands of the replay that had claimed it (which ended before it came to
\* the fact), or the node before was completed by a replay, which does not look
\* for what that makes due.
WaitsForAReason ==
  Quiet => \A f \in Fact : Due(f) =>
    \/ fact[f].owner # None
    \/ f \in skipped
    \/ f \in stripped
    \/ NodeOf[f] - 1 \in byReplay

-----------------------------------------------------------------------------
(* What documents of the repository say, and the code does not do.         *)

\* Once the node before is completed, the facts saved for the next one are
\* applied, by the command that completed it or by another one.
DueFactsAreReplayed == Quiet => \A f \in Fact : ~Due(f)

\* When an event is executed twice at once, the execution that comes late gives
\* the result of the other one: a fact that completed its node is not shown as
\* rejected.
DoneIsNotRejected ==
  \A f \in Fact : doneBy[NodeOf[f]] = f => fact[f].state # "rejected"
=============================================================================
