---------------------------- MODULE LifecycleFlow ----------------------------
(***************************************************************************)
(* The lifecycle flow of one container: business events complete its nodes *)
(* in order, advance its status and announce the next task.                *)
(*                                                                         *)
(* Executing an event takes several transactions, each decided on rows     *)
(* read earlier; executions of several events, repeated executions of one  *)
(* event, applicability decisions and blocks interleave between them.      *)
(* Node tasks, the outbox and the inbox are other modules.                 *)
(***************************************************************************)
EXTENDS Naturals, FiniteSets

CONSTANTS
  Last,         \* nodes are 1 .. Last, in NODE_SEQUENCE order
  Departure,    \* origin_departure, where flows of handed over ships start
  Optional,     \* OPTIONAL_NODE_CODES; the last node is required
  Event,        \* canonical events, by idempotency key
  Targets,      \* EVENT_TO_COMPLETION_NODES, per event
  StatusOf,     \* rank of EVENT_TO_CONTAINER_STATUS per event, 0 if none
  At,           \* occurredAt per event
  Caller,       \* executions in progress of apply-lifecycle-event
  Operator,     \* executions in progress of set-node-applicability
  Asked,        \* applicability requests people send
  None,         \* no event, no request
  MaxExecutions,\* bound: executions of events, repetitions included
  MaxCrashes,   \* bound: executions that die or fail on the database
  MaxDecisions, \* bound: applicability decisions
  MaxBlocks     \* bound: blocks raised

Node == 1 .. Last
Request == [node : Node, applicable : BOOLEAN]

ASSUME FlowAssumption ==
  /\ Last \in Nat \ {0}
  /\ Departure \in Node /\ Departure + 1 \in Node
  /\ Optional \subseteq Node \ {Last}
  /\ Targets \in [Event -> SUBSET Node]
  /\ StatusOf \in [Event -> Nat]
  /\ At \in [Event -> Nat \ {0}]
  /\ Asked \subseteq Request
  /\ None \notin Event \cup Asked
  /\ {MaxExecutions, MaxCrashes, MaxDecisions, MaxBlocks} \subseteq Nat

VARIABLES
  \* flow_instance, node_instance and node_block rows
  flow, node, blocks,
  \* canonical_event and node_event_application rows
  saved, application,
  \* container_record.currentStatus, and the nodes whose task was created or
  \* updated as current
  status, announced,
  \* executions of events: place, event, whether it is new and for no node,
  \* targets not looked at and nodes completed so far, status and flow as read
  pc, event, fresh, todo, done, seenStatus, seenFlow,
  \* applicability requests that have passed their check
  request,
  \* history: nodes whose applicability changed after the flow reached them
  overtaken,
  \* spent bounds
  executions, crashes, decisions, raised

rows   == <<flow, node, blocks, saved, application, status, announced>>
locals == <<event, fresh, todo, done, seenStatus, seenFlow>>
bounds == <<executions, crashes, decisions, raised>>
vars   == <<rows, pc, locals, request, overtaken, bounds>>

NodeRow == [state : {"absent", "pending", "active", "blocked", "completed"},
            applicable : BOOLEAN, at : Nat]
FlowRow == [state : {"none", "active", "completed"},
            definition : {"container", "post_departure"},
            current : Node, version : Nat]
Verdict == {"apply", "pending", "rejected"}
SeenFlow == [version : Nat, node : [Node -> NodeRow]]

TypeOK ==
  /\ flow \in FlowRow
  /\ node \in [Node -> NodeRow]
  /\ blocks \in [Node -> Nat]
  /\ saved \subseteq Event
  /\ application \in [Event -> [Node -> {"none", "pending", "applied", "rejected"}]]
  /\ status \in Nat
  /\ announced \subseteq Node
  /\ pc \in [Caller -> {"idle", "load", "look", "write", "reload",
                        "status", "ensure", "announce"}]
  /\ event \in [Caller -> Event \cup {None}]
  /\ fresh \in [Caller -> BOOLEAN]
  /\ todo \in [Caller -> SUBSET Node]
  /\ done \in [Caller -> SUBSET Node]
  /\ seenStatus \in [Caller -> Nat]
  /\ seenFlow \in [Caller -> SeenFlow]
  /\ request \in [Operator -> Request \cup {None}]
  /\ overtaken \subseteq Node
  /\ executions \in Nat /\ crashes \in Nat
  /\ decisions \in Nat /\ raised \in Nat

Absent == [state |-> "absent", applicable |-> TRUE, at |-> 0]
Nothing == [version |-> 0, node |-> [n \in Node |-> Absent]]

Init ==
  /\ flow = [state |-> "none", definition |-> "container",
             current |-> 1, version |-> 0]
  /\ node = Nothing.node
  /\ blocks = [n \in Node |-> 0]
  /\ saved = {}
  /\ application = [e \in Event |-> [n \in Node |-> "none"]]
  /\ status = 0 /\ announced = {}
  /\ pc         = [c \in Caller |-> "idle"]
  /\ event      = [c \in Caller |-> None]
  /\ fresh      = [c \in Caller |-> FALSE]
  /\ todo       = [c \in Caller |-> {}]
  /\ done       = [c \in Caller |-> {}]
  /\ seenStatus = [c \in Caller |-> 0]
  /\ seenFlow   = [c \in Caller |-> Nothing]
  /\ request    = [o \in Operator |-> None]
  /\ overtaken = {}
  /\ executions = 0 /\ crashes = 0 /\ decisions = 0 /\ raised = 0

-----------------------------------------------------------------------------
(* Creating the flow.                                                      *)

\* ensureFlow: the flow is created if it is missing, and so is every node of
\* the sequence, whatever definition the flow has.
EnsuredFlow ==
  IF flow.state = "none" THEN [flow EXCEPT !.state = "active"] ELSE flow

EnsuredNode(n) ==
  IF node[n].state # "absent" THEN node[n]
  ELSE [Absent EXCEPT !.state =
          IF n = EnsuredFlow.current THEN "active" ELSE "pending"]

EnsureFlow ==
  /\ flow' = EnsuredFlow
  /\ node' = [n \in Node |-> EnsuredNode(n)]

\* Mutant of ToldCurrent: every task is created with isCurrent at its default.
ToldCurrent_Default == Node

ToldCurrent == {EnsuredFlow.current}

\* initialize-container-flow: creates or updates a task for every node; only
\* that of the current node is told that it is current.  The tasks follow the
\* transaction of ensureFlow one by one and what they say was computed from it;
\* nothing here reads announced, so they are part of its step.
InitializeContainerFlow ==
  /\ EnsureFlow
  /\ announced' = announced \cup ToldCurrent
  /\ UNCHANGED <<blocks, saved, application, status, pc, locals, request,
                 overtaken, bounds>>

Completed(row, at) ==
  [state |-> "completed", applicable |-> row.applicable, at |-> at]

\* The handoff of a departed shipment: a flow that starts at Departure.
InitializePostDeparture(at) ==
  /\ flow.state = "none"
  /\ flow' = [state |-> "active", definition |-> "post_departure",
              current |-> Departure + 1, version |-> 1]
  /\ node' = [n \in Node |->
       IF n < Departure THEN Absent
       ELSE IF n = Departure THEN Completed(Absent, at)
       ELSE [Absent EXCEPT !.state =
               IF n = Departure + 1 THEN "active" ELSE "pending"]]
  /\ UNCHANGED <<blocks, saved, application, status, announced, pc, locals,
                 request, overtaken, bounds>>

-----------------------------------------------------------------------------
(* Executing an event.                                                     *)

Goto(c, place) == pc' = [pc EXCEPT ![c] = place]

\* execute returns, throws or dies.
Leave(c) ==
  /\ Goto(c, "idle")
  /\ event'      = [event EXCEPT ![c] = None]
  /\ fresh'      = [fresh EXCEPT ![c] = FALSE]
  /\ todo'       = [todo EXCEPT ![c] = {}]
  /\ done'       = [done EXCEPT ![c] = {}]
  /\ seenStatus' = [seenStatus EXCEPT ![c] = 0]
  /\ seenFlow'   = [seenFlow EXCEPT ![c] = Nothing]

\* findContainerBase, findEventByIdempotencyKey and saveEvent.  The event may
\* arrive for the first time or be delivered or replayed again.  Statements of
\* other executions between these three have the effect they have before or
\* after them; one that saves the same event in between makes this one fail,
\* and leave what Crash leaves.
Begin(c, e) ==
  /\ pc[c] = "idle"
  /\ executions < MaxExecutions
  /\ executions' = executions + 1
  /\ event' = [event EXCEPT ![c] = e]
  /\ seenStatus' = [seenStatus EXCEPT ![c] = status]
  /\ fresh' = [fresh EXCEPT ![c] = Targets[e] = {} /\ e \notin saved]
  /\ saved' = saved \cup {e}
  /\ todo' = [todo EXCEPT ![c] = Targets[e]]
  /\ Goto(c, "load")
  /\ UNCHANGED <<flow, node, blocks, application, status, announced, done,
                 seenFlow, request, overtaken, crashes, decisions, raised>>

SeeFlow(c) ==
  seenFlow' = [seenFlow EXCEPT ![c] = [version |-> flow'.version, node |-> node']]

\* What was read is not used again.
Forget(c) == seenFlow' = [seenFlow EXCEPT ![c] = Nothing]

\* ensureFlow before the first target.
Load(c) ==
  /\ pc[c] = "load"
  /\ EnsureFlow
  /\ SeeFlow(c)
  /\ Goto(c, IF todo[c] = {} THEN "status" ELSE "look")
  /\ UNCHANGED <<blocks, saved, application, status, announced, event,
                 fresh, todo, done, seenStatus, request, overtaken, bounds>>

Target(c) == CHOOSE n \in todo[c] : \A m \in todo[c] : n <= m

\* The loop goes on with the next target on the flow read before.
Continue(c) ==
  /\ todo' = [todo EXCEPT ![c] = @ \ {Target(c)}]
  /\ Goto(c, IF todo[c] = {Target(c)} THEN "status" ELSE "look")

\* findNodeEventApplication.
Look(c) ==
  LET a == application[event[c]][Target(c)]
  IN  /\ pc[c] = "look"
      /\ \/ /\ a = "applied"
            /\ Continue(c)
            /\ UNCHANGED <<event, fresh, done, seenStatus, seenFlow>>
         \/ /\ a = "rejected"
            /\ Leave(c)
         \/ /\ a \in {"none", "pending"}
            /\ Goto(c, "write")
            /\ UNCHANGED locals
      /\ UNCHANGED <<rows, request, overtaken, bounds>>

Before(n) == 1 .. (n - 1)

\* An applicable node that is not completed keeps its successors waiting.
Open(row) == row.applicable /\ row.state # "completed"

\* Mutant of Decision: a node may be completed before its predecessor.
Decision_AnyTime(rowOf, n, at) ==
  IF ~rowOf[n].applicable \/ at = 0 THEN "rejected"
  ELSE IF rowOf[n].state = "blocked" THEN "pending"
  ELSE IF rowOf[n].state = "completed" THEN "rejected"
  ELSE IF \E p \in Before(n) : Open(rowOf[p]) THEN "pending"
  ELSE "apply"

\* decideNodeEventApplication on the flow as read.
Decision(rowOf, n, at) ==
  IF ~rowOf[n].applicable THEN "rejected"
  ELSE IF rowOf[n].state = "blocked" THEN "pending"
  ELSE IF rowOf[n].state = "completed" THEN "rejected"
  ELSE IF \E p \in Before(n) : Open(rowOf[p]) THEN "pending"
  ELSE IF \E p \in Before(n) : rowOf[p].state = "completed" /\ rowOf[p].at > at
       THEN "rejected"
  ELSE "apply"

\* The specialized guards ask other modules; they apply or postpone.
Decide(c, verdict) ==
  LET d == Decision(seenFlow[c].node, Target(c), At[event[c]])
  IN  /\ pc[c] = "write"
      /\ verdict \in IF d = "apply" THEN {"apply", "pending"} ELSE {d}

\* Mutant of Recorded: the row is updated whatever its state.
Recorded_Always(old, verdict) == IF old = verdict THEN old ELSE verdict

\* recordNodeEventApplication replaces a pending row or adds a new one.
Recorded(old, verdict) == IF old \in {"none", "pending"} THEN verdict ELSE old

Record(c, verdict) ==
  /\ Decide(c, verdict)
  /\ verdict # "apply"
  /\ application' = [application EXCEPT ![event[c]][Target(c)] =
                                          Recorded(@, verdict)]
  /\ IF verdict = "pending"
     THEN Continue(c) /\ UNCHANGED <<event, fresh, done, seenStatus, seenFlow>>
     ELSE Leave(c)
  /\ UNCHANGED <<flow, node, blocks, saved, status, announced, request,
                 overtaken, bounds>>

\* Mutant of NextNode: the node with the next number, whatever it is.
NextNode_Successor(rowOf, n) == IF rowOf[n].applicable THEN n + 1 ELSE 0

\* nextApplicableNode, 0 if there is none.
NextNode(rowOf, n) ==
  LET later == {m \in Node : m > n /\ rowOf[m].applicable}
  IN  IF later = {} THEN 0 ELSE CHOOSE m \in later : \A l \in later : m <= l

\* Mutant of MayApply: the flow is updated without its version.
MayApply_AnyVersion(c) ==
  /\ node[Target(c)].state \notin {"completed", "blocked"}
  /\ flow.state = "active"

\* Mutant of MayApply: neither the target nor the version is checked again.
MayApply_Unchecked(c) == flow.state = "active" /\ pc[c] = "write"

\* The guards of applyEventToNode on the rows it updates.
MayApply(c) ==
  /\ node[Target(c)].state \notin {"completed", "blocked"}
  /\ flow.version = seenFlow[c].version
  /\ flow.state = "active"

\* The target is completed, and the next node wakes up unless it is completed.
Advanced(n, next, at) ==
  [node EXCEPT ![n] = Completed(@, at),
               ![next] = IF @.state = "completed" THEN @
                         ELSE [@ EXCEPT !.state = "active"]]

Closed(n, at) == [node EXCEPT ![n] = Completed(@, at)]

\* applyEventToNode: one transaction.
Apply(c) ==
  LET n == Target(c)
      e == event[c]
      next == NextNode(seenFlow[c].node, n)
  IN  /\ Decide(c, "apply")
      /\ application[e][n] # "applied"
      /\ MayApply(c)
      /\ flow' = [state      |-> IF next = 0 THEN "completed" ELSE flow.state,
                  definition |-> flow.definition,
                  current    |-> IF next = 0 THEN n ELSE next,
                  version    |-> flow.version + 1]
      /\ node' = IF next = 0 THEN Closed(n, At[e]) ELSE Advanced(n, next, At[e])
      /\ application' = [application EXCEPT ![e][n] = "applied"]
      /\ todo' = [todo EXCEPT ![c] = @ \ {n}]
      /\ done' = [done EXCEPT ![c] = @ \cup {n}]
      /\ Forget(c)
      /\ Goto(c, "reload")
      /\ UNCHANGED <<blocks, saved, status, announced, event, fresh,
                     seenStatus, request, overtaken, bounds>>

\* Another execution applied the same event meanwhile.
AlreadyApplied(c) ==
  /\ Decide(c, "apply")
  /\ application[event[c]][Target(c)] = "applied"
  /\ todo' = [todo EXCEPT ![c] = @ \ {Target(c)}]
  /\ Forget(c)
  /\ Goto(c, "reload")
  /\ UNCHANGED <<rows, event, fresh, done, seenStatus, request, overtaken,
                 bounds>>

\* LIFECYCLE_VERSION_CONFLICT, HISTORY_SEALED or NODE_BLOCKED is thrown; also
\* when another execution applies the same event between the transaction's look
\* at the application and its look at the node.
ApplyConflict(c) ==
  /\ Decide(c, "apply")
  /\ ~MayApply(c)
  /\ Leave(c)
  /\ UNCHANGED <<rows, request, overtaken, bounds>>

\* findFlowByContainer after a target.
Reload(c) ==
  /\ pc[c] = "reload"
  /\ seenFlow' = [seenFlow EXCEPT ![c] = [version |-> flow.version, node |-> node]]
  /\ Goto(c, IF todo[c] = {} THEN "status" ELSE "look")
  /\ UNCHANGED <<rows, event, fresh, todo, done, seenStatus, request,
                 overtaken, bounds>>

\* Mutant of Advances: an execution that completes nothing advances the status.
Advances_Always(c) ==
  StatusOf[event[c]] # 0 /\ StatusOf[event[c]] >= seenStatus[c]

\* The status follows an event that completed a node, or that is for no node
\* and new, unless the status read at first was further.
Advances(c) ==
  /\ StatusOf[event[c]] # 0
  /\ done[c] # {} \/ fresh[c]
  /\ StatusOf[event[c]] >= seenStatus[c]

\* applyContainerRecord, then activateFollowingTask if a node was completed.
AdvanceStatus(c) ==
  /\ pc[c] = "status"
  /\ status' = IF Advances(c) THEN StatusOf[event[c]] ELSE status
  /\ IF done[c] = {}
     THEN Leave(c)
     ELSE /\ Goto(c, "ensure")
          /\ Forget(c)
          /\ seenStatus' = [seenStatus EXCEPT ![c] = 0]
          /\ UNCHANGED <<event, fresh, todo, done>>
  /\ UNCHANGED <<flow, node, blocks, saved, application, announced, request,
                 overtaken, bounds>>

\* activateFollowingTask reads the flow again.
EnsureForTask(c) ==
  /\ pc[c] = "ensure"
  /\ seenFlow' = [seenFlow EXCEPT ![c] = [version |-> flow.version, node |-> node]]
  /\ Goto(c, "announce")
  /\ UNCHANGED <<rows, event, fresh, todo, done, seenStatus, request,
                 overtaken, bounds>>

Farthest(c) == CHOOSE n \in done[c] : \A m \in done[c] : m <= n

\* The task of the next node is created, or updated, as current.  A failure is
\* swallowed, and leaves what Crash leaves here.
Announce(c) ==
  LET next == NextNode(seenFlow[c].node, Farthest(c))
  IN  /\ pc[c] = "announce"
      /\ announced' = announced \cup ({next} \ {0})
      /\ Leave(c)
      /\ UNCHANGED <<flow, node, blocks, saved, application, status, request,
                     overtaken, bounds>>

\* The process dies, a statement fails, applyEventToNode finds the ocean route
\* replaced, or another execution saved the event first.  An execution that
\* lost the inbox lease of its event saved nothing, as if it had not begun.
Crash(c) ==
  /\ pc[c] # "idle"
  /\ crashes < MaxCrashes
  /\ crashes' = crashes + 1
  /\ Leave(c)
  /\ UNCHANGED <<rows, request, overtaken, executions, decisions,
                 raised>>

-----------------------------------------------------------------------------
(* Applicability and blocks.                                               *)

Reached(n) == \E m \in Node : m >= n /\ node[m].state \notin {"absent", "pending"}

\* decideSetNodeApplicability.
MaySet(n) ==
  /\ n \in Optional
  /\ node[n].state \notin {"active", "completed"}
  /\ \A m \in Node : m > n => node[m].state \notin {"active", "completed"}

\* The request names the flow version it was made for, which is compared with
\* the one read here, and passes the check on the nodes read here.
CheckApplicability(o, r) ==
  /\ request[o] = None
  /\ flow.state # "none"
  /\ decisions < MaxDecisions
  /\ MaySet(r.node)
  /\ decisions' = decisions + 1
  /\ request' = [request EXCEPT ![o] = r]
  /\ UNCHANGED <<rows, pc, locals, overtaken, executions, crashes,
                 raised>>

\* applyNodeApplicability: the write is not guarded.
SetApplicability(o) ==
  LET r == request[o]
  IN  /\ r # None
      /\ node' = [node EXCEPT ![r.node] =
                    [state |-> IF @.state = "absent" THEN "pending" ELSE @.state,
                     applicable |-> r.applicable, at |-> @.at]]
      /\ flow' = [flow EXCEPT !.version = @ + 1]
      /\ overtaken' = IF Reached(r.node) /\ node[r.node].applicable # r.applicable
                      THEN overtaken \cup {r.node} ELSE overtaken
      /\ request' = [request EXCEPT ![o] = None]
      /\ UNCHANGED <<blocks, saved, application, status, announced, pc,
                     locals, bounds>>

\* createBlock: decided in the transaction; the version in the request must be
\* the current one.
Block(n) ==
  /\ flow.state = "active" /\ flow.current = n
  /\ node[n].state \in {"active", "blocked"}
  /\ raised < MaxBlocks
  /\ raised' = raised + 1
  /\ flow' = [flow EXCEPT !.version = @ + 1]
  /\ node' = [node EXCEPT ![n].state = "blocked"]
  /\ blocks' = [blocks EXCEPT ![n] = @ + 1]
  /\ UNCHANGED <<saved, application, status, announced, pc, locals, request,
                 overtaken, executions, crashes, decisions>>

\* resolveBlock: the node is active again without open blocks.
Unblocked(n) == blocks[n] = 1

Resolve(n) ==
  /\ flow.state = "active" /\ flow.current = n
  /\ node[n].state = "blocked"
  /\ blocks[n] > 0
  /\ flow' = [flow EXCEPT !.version = @ + 1]
  /\ node' = [node EXCEPT ![n].state = IF Unblocked(n) THEN "active" ELSE @]
  /\ blocks' = [blocks EXCEPT ![n] = @ - 1]
  /\ UNCHANGED <<saved, application, status, announced, pc, locals, request,
                 overtaken, bounds>>

-----------------------------------------------------------------------------
CallerStep(c) ==
  \/ \E e \in Event : Begin(c, e)
  \/ Load(c) \/ Look(c)
  \/ \E v \in Verdict : Record(c, v)
  \/ Apply(c) \/ AlreadyApplied(c) \/ ApplyConflict(c) \/ Reload(c)
  \/ AdvanceStatus(c) \/ EnsureForTask(c) \/ Announce(c)
  \/ Crash(c)

Next ==
  \/ InitializeContainerFlow
  \/ \E at \in {At[e] : e \in Event} : InitializePostDeparture(at)
  \/ \E c \in Caller : CallerStep(c)
  \/ \E o \in Operator :
       \/ \E r \in Asked : CheckApplicability(o, r)
       \/ SetApplicability(o)
  \/ \E n \in Node : Block(n) \/ Resolve(n)

Spec == Init /\ [][Next]_vars
-----------------------------------------------------------------------------
(* What a reader of the code relies on.                                    *)

\* The flow was created whole, and nobody changed the applicability of a node
\* that the flow had reached.
Regular == flow.definition = "container" /\ overtaken = {}

\* The flow is a line: every applicable node before the current one is
\* completed, the current one alone is active or blocked (or, when the flow
\* has ended, completed), every later one waits.  Several executions decide
\* from old reads which node comes next.
OneOpenNode ==
  Regular /\ flow.state # "none" /\ node[1].state # "absent" =>
    /\ \A n \in Before(flow.current) :
         node[n].state = IF node[n].applicable THEN "completed" ELSE "pending"
    /\ node[flow.current].applicable
    /\ node[flow.current].state \in
         IF flow.state = "active" THEN {"active", "blocked"} ELSE {"completed"}
    /\ \A n \in Node : n > flow.current => node[n].state = "pending"

\* Actual times never decrease along the completed nodes.
TimesInOrder ==
  Regular =>
    \A n, m \in Node :
      n < m /\ node[n].state = "completed" /\ node[m].state = "completed" =>
        node[n].at <= node[m].at

\* A node is completed by exactly one event, whose time it shows, although
\* events for one node race and are repeated.
CompletedByOneEvent ==
  \A n \in Node :
    LET causes == {e \in Event : application[e][n] = "applied"}
    IN  /\ Cardinality(causes) <= 1
        /\ \A e \in causes : node[n].state = "completed" /\ node[n].at = At[e]
        /\ node[n].state = "completed" /\ causes = {} =>
             flow.definition = "post_departure" /\ n = Departure

\* R3: history is sealed.  Completed nodes and applied events stay as they
\* are, whatever late executions decide; so do the stages of the flow.
HistorySealed ==
  [][/\ \A n \in Node : node[n].state = "completed" =>
          node'[n].state = "completed" /\ node'[n].at = node[n].at
     /\ \A e \in Event, n \in Node :
          application[e][n] = "applied" => application'[e][n] = "applied"
     /\ Regular' /\ flow.state # "none" => flow'.current >= flow.current]_vars

\* The status shown is that of an event that completed a node, or of an event
\* that concerns no node.
StatusIsExplained ==
  status # 0 =>
    \E e \in saved :
      /\ StatusOf[e] = status
      /\ Targets[e] = {} \/ \E n \in Targets[e] : application[e][n] = "applied"

\* A task is announced as current only when the flow has reached its node.
AnnouncedWasReached ==
  Regular => \A n \in announced : node[n].state \notin {"absent", "pending"}

\* A node is blocked only while it has an open block, and always while it has
\* one, as long as no decision overtook the flow: an executed decision that makes
\* a node applicable again behind a blocked one wakes the blocked one when its
\* event comes.
BlockedWhileOpen ==
  \A n \in Node :
    /\ node[n].state = "blocked" => blocks[n] > 0
    /\ overtaken = {} /\ blocks[n] > 0 => node[n].state = "blocked"

-----------------------------------------------------------------------------
(* What documents of the repository say, and the code does not do.         *)

\* R2: the status of a container never goes back.
StatusMonotone == [][status' >= status]_vars

\* A flow that starts at departure has no nodes before departure: the migration
\* of the post-departure core lists this to be verified after deployment.
NoNodeBeforeDeparture ==
  flow.definition = "post_departure" =>
    \A n \in Before(Departure) : node[n].state = "absent"

\* Each target of an event is judged on its own: a target whose application was
\* rejected does not keep the others from being judged.
TargetsJudgedIndependently ==
  \A e \in Event :
    (\A c \in Caller : event[c] # e)
      /\ (\E n \in Targets[e] : application[e][n] = "rejected") =>
        \A n \in Targets[e] : application[e][n] # "none"
=============================================================================
