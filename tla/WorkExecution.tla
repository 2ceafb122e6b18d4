---------------------------- MODULE WorkExecution ----------------------------
(***************************************************************************)
(* Node tasks and their work orders: created when a lifecycle node needs   *)
(* work, claimed and completed by users, and completed by lifecycle facts  *)
(* that the outbox delivers.                                               *)
(*                                                                         *)
(* Every operation reads the work order and its task in separate           *)
(* statements, decides on what it read, and writes in one transaction      *)
(* guarded by versions or states; the model interleaves these steps.       *)
(* Each task has exactly one required work order, as created by            *)
(* upsertTaskWithRequiredWorkOrder.                                        *)
(***************************************************************************)
EXTENDS Naturals, FiniteSets, WorkStateRules

CONSTANTS
  Node,         \* node instances; a task and its work order carry its id
  User,         \* requests in progress of the claim and complete commands
  Worker,       \* deliveries in progress of lifecycle facts
  Actor,        \* people
  Key,          \* idempotency keys
  Command,      \* the requests people send
  Fact,         \* business facts (canonical events applied to a node)
  None,         \* SQL NULL
  MaxRetries,   \* MAX_VERSION_RETRIES
  MaxTouches,   \* bound: repeated task creations in a behaviour
  MaxFailures   \* bound: database errors in a behaviour

Request == [act : {"claim", "complete"}, node : Node, actor : Actor, key : Key]

Work == "work"                        \* the cause of an outcome without a fact

ASSUME WorkAssumption ==
  /\ Command \subseteq Request
  /\ None \notin Actor \cup Fact
  /\ Work \notin Fact
  /\ User \cap Worker = {}
  /\ MaxRetries \in Nat \ {0}
  /\ MaxTouches \in Nat
  /\ MaxFailures \in Nat

VARIABLES
  \* node_task and work_order rows
  task, wo,
  \* node_task_outcome, work_order_fact_application, client_operation rows
  outcomes, applications, receipts,
  \* requests and deliveries in progress: where they are, what they are
  \* about, what they have read, how often they have retried
  pc, request, message, seenTask, seenWo, tries,
  \* the answer a delivery got
  answer,
  \* spent bounds
  touches, failures

tables   == <<task, wo, outcomes, applications, receipts>>
progress == <<pc, seenTask, seenWo, tries>>
bounds   == <<touches, failures>>
vars == <<tables, progress, request, message, answer, bounds>>

Proc == User \cup Worker

TaskRow == [state : NodeTaskState \cup {"none"}, version : Nat]
WoRow   == [state : WorkOrderState \cup {"none"},
            assignee : Actor \cup {None}, version : Nat]
Message == [node : Node, fact : Fact]
Outcome == [node : Node, cause : Fact \cup {Work}]
Application == [node : Node, fact : Fact,
                decision : {"applied", "no_op", "rejected"}]
Receipt == [req : Request, verdict : {"committed", "rejected"},
            applied : BOOLEAN, reason : {"none", "refused", "internal"}]
Place   == {"idle", "task", "wo", "commit", "recheck", "refused", "internal"}
Answer  == {"none", "applied", "no_op", "rejected", "error"}

TypeOK ==
  /\ task \in [Node -> TaskRow]
  /\ wo   \in [Node -> WoRow]
  /\ outcomes \subseteq Outcome
  /\ applications \subseteq Application
  /\ receipts \subseteq Receipt
  /\ pc       \in [Proc -> Place]
  /\ request  \in [User -> Request \cup {None}]
  /\ message  \in [Worker -> Message \cup {None}]
  /\ seenTask \in [Proc -> TaskRow]
  /\ seenWo   \in [Proc -> WoRow]
  /\ tries    \in [Proc -> Nat]
  /\ answer   \in [Worker -> Answer]
  /\ touches  \in Nat
  /\ failures \in Nat

NoTask == [state |-> "none", version |-> 0]
NoWo   == [state |-> "none", assignee |-> None, version |-> 0]

Init ==
  /\ task = [n \in Node |-> NoTask]
  /\ wo   = [n \in Node |-> NoWo]
  /\ outcomes = {} /\ applications = {} /\ receipts = {}
  /\ pc       = [p \in Proc |-> "idle"]
  /\ request  = [u \in User |-> None]
  /\ message  = [w \in Worker |-> None]
  /\ seenTask = [p \in Proc |-> NoTask]
  /\ seenWo   = [p \in Proc |-> NoWo]
  /\ tries    = [p \in Proc |-> 0]
  /\ answer   = [w \in Worker |-> "none"]
  /\ touches  = 0
  /\ failures = 0

-----------------------------------------------------------------------------
(* Creating a task: one transaction on locked rows.                        *)

\* A concurrent creation of the same task fails on the unique node instance,
\* as if it had not run.
CreateTask(n, ready) ==
  /\ task[n].state = "none"
  /\ task' = [task EXCEPT ![n] = [state |-> "pending", version |-> 0]]
  /\ wo' = [wo EXCEPT ![n] =
              [NoWo EXCEPT !.state = IF ready THEN "ready" ELSE "draft"]]
  /\ UNCHANGED <<outcomes, applications, receipts, progress, request,
                 message, answer, bounds>>

\* Updates give a row a state and increment its version.
TaskMoved(row, state) == [state |-> state, version |-> row.version + 1]
WoMoved(row, state) ==
  [state |-> state, assignee |-> row.assignee, version |-> row.version + 1]

\* Mutant of Readied: a ready condition resets the work order.
Readied_Reset(row) == WoMoved(row, "ready")

\* draft -> ready once the node is current or one of its facts is known.
Readied(row) == IF row.state = "draft" THEN WoMoved(row, "ready") ELSE row

\* The node is announced again: conditions only improve, the version grows.
TouchTask(n, ready) ==
  /\ task[n].state # "none"
  /\ touches < MaxTouches
  /\ touches' = touches + 1
  /\ task' = [task EXCEPT ![n].version = @ + 1]
  /\ wo' = [wo EXCEPT ![n] = IF ready THEN Readied(@) ELSE @]
  /\ UNCHANGED <<outcomes, applications, receipts, progress, request,
                 message, answer, failures>>

-----------------------------------------------------------------------------
(* What requests and deliveries have in common.                            *)

\* Mutant of KeyFree: receipts are not unique per actor, action and key.
KeyFree_NotUnique(r) == r.node \in Node

\* The unique index of client_operation.
KeyFree(r) ==
  \A rc \in receipts :
    ~(rc.req.actor = r.actor /\ rc.req.act = r.act /\ rc.req.key = r.key)

\* execute returns or throws.
Leave(p) ==
  /\ pc' = [pc EXCEPT ![p] = "idle"]
  /\ seenTask' = [seenTask EXCEPT ![p] = NoTask]
  /\ seenWo' = [seenWo EXCEPT ![p] = NoWo]
  /\ tries' = [tries EXCEPT ![p] = 0]

\* Control moves on with everything read so far.
Goto(p, place) ==
  /\ pc' = [pc EXCEPT ![p] = place]
  /\ UNCHANGED <<seenTask, seenWo, tries>>

\* A commit whose acknowledgement is lost is an error to the code.
MayLoseAck(u) ==
  \/ Leave(u) /\ request' = [request EXCEPT ![u] = None] /\ UNCHANGED failures
  \/ /\ failures < MaxFailures
     /\ failures' = failures + 1
     /\ Goto(u, "internal")
     /\ UNCHANGED request

Insert(r, verdict, applied, reason) ==
  receipts' = receipts \cup
    {[req |-> r, verdict |-> verdict, applied |-> applied, reason |-> reason]}

-----------------------------------------------------------------------------
(* Claim and complete commands.                                            *)

\* findByIdempotency found nothing; with an earlier receipt execute answers
\* from it (or reports a conflict of payloads) and writes nothing.
StartRequest(u, r) ==
  /\ pc[u] = "idle"
  /\ KeyFree(r)
  /\ task[r.node].state # "none"
  /\ pc' = [pc EXCEPT ![u] = "wo"]
  /\ request' = [request EXCEPT ![u] = r]
  /\ UNCHANGED <<tables, seenTask, seenWo, tries, message, answer, bounds>>

\* findWorkOrderInTenant.
ReadWorkOrder(u) ==
  /\ pc[u] = "wo"
  /\ seenWo' = [seenWo EXCEPT ![u] = wo[request[u].node]]
  /\ pc' = [pc EXCEPT ![u] = "task"]
  /\ UNCHANGED <<tables, seenTask, tries, request, message, answer, bounds>>

\* findTaskInTenant.
ReadTask(u) ==
  /\ pc[u] = "task"
  /\ seenTask' = [seenTask EXCEPT ![u] = task[request[u].node]]
  /\ pc' = [pc EXCEPT ![u] = "commit"]
  /\ UNCHANGED <<tables, seenWo, tries, request, message, answer, bounds>>

\* decideWorkOrderClaim: on a row read for actor a.
AlreadyMine(row, a) == row.assignee = a
MayClaim(row) == row.assignee = None /\ row.state \in ClaimableIn

\* Mutant of ClaimGuard: the update names the work order only.
ClaimGuard_ById(row) == row.state # "none"

\* The WHERE clause of applyWorkOrderClaim.
ClaimGuard(row) == row.assignee = None /\ row.state \in ClaimableIn

ClaimIntended(u) ==
  /\ pc[u] = "commit"
  /\ request[u].act = "claim"
  /\ MayClaim(seenWo[u])
  /\ ~TaskRefuses(seenTask[u].state, Aggregate({"in_progress"}))

\* applyWorkOrderClaim: the task gets the state decided on what was read.
CommitClaim(u) ==
  LET r == request[u]
      n == r.node
  IN  /\ ClaimIntended(u)
      /\ ClaimGuard(wo[n])
      /\ KeyFree(r)
      /\ wo' = [wo EXCEPT ![n] = [state |-> "in_progress", assignee |-> r.actor,
                                  version |-> @.version + 1]]
      /\ task' = [task EXCEPT ![n] =
           TaskMoved(@, TaskAfter(seenTask[u].state, Aggregate({"in_progress"})))]
      /\ Insert(r, "committed", TRUE, "none")
      /\ MayLoseAck(u)
      /\ UNCHANGED <<outcomes, applications, message, answer, touches>>

\* state_conflict: the work order is read again.
ClaimConflict(u) ==
  /\ ClaimIntended(u)
  /\ ~ClaimGuard(wo[request[u].node])
  /\ Goto(u, "recheck")
  /\ UNCHANGED <<tables, request, message, answer, bounds>>

\* The insert of the receipt of a request that changes nothing.
CommitNothing(u) ==
  LET r == request[u]
  IN  /\ KeyFree(r)
      /\ Insert(r, "committed", FALSE, "none")
      /\ MayLoseAck(u)
      /\ UNCHANGED <<task, wo, outcomes, applications, message, answer,
                     touches>>

ClaimDone(u) ==
  /\ pc[u] = "commit"
  /\ request[u].act = "claim"
  /\ AlreadyMine(seenWo[u], request[u].actor)
  /\ CommitNothing(u)

ClaimRecheckDone(u) ==
  /\ pc[u] = "recheck"
  /\ AlreadyMine(wo[request[u].node], request[u].actor)
  /\ CommitNothing(u)

\* The decision, or the second look, refuses the claim.
ClaimRefused(u) ==
  /\ \/ /\ pc[u] = "commit"
        /\ request[u].act = "claim"
        /\ ~AlreadyMine(seenWo[u], request[u].actor)
        /\ ~ClaimIntended(u)
     \/ /\ pc[u] = "recheck"
        /\ ~AlreadyMine(wo[request[u].node], request[u].actor)
  /\ Goto(u, "refused")
  /\ UNCHANGED <<tables, request, message, answer, bounds>>

\* Mutant of Fresh: only the version of the task is compared.
Fresh_TaskOnly(p, n) == task[n].version = seenTask[p].version

\* The version guards of applyWorkOrderCompletion.
Fresh(p, n) ==
  /\ wo[n].version = seenWo[p].version
  /\ task[n].version = seenTask[p].version

CompletionIntended(u) ==
  /\ pc[u] = "commit"
  /\ request[u].act = "complete"
  /\ seenWo[u].state \in CompletableFrom
  /\ ~TaskRefuses(seenTask[u].state, Aggregate({"completed"}))

\* Mutant of NewOutcomes: the causation of the outcome is lost.
NewOutcomes_NoCause(n, before, cause) ==
  IF before = cause THEN {} ELSE {[node |-> n, cause |-> None]}

\* decideTaskOutcome: an outcome is written when the task becomes completed.
NewOutcomes(n, before, cause) ==
  IF before = "completed" THEN {} ELSE {[node |-> n, cause |-> cause]}

\* applyWorkOrderCompletion with createCompletionArtifacts.
CommitCompletion(u) ==
  LET r == request[u]
      n == r.node
  IN  /\ CompletionIntended(u)
      /\ Fresh(u, n)
      /\ KeyFree(r)
      /\ wo' = [wo EXCEPT ![n] = WoMoved(@, "completed")]
      /\ task' = [task EXCEPT ![n] =
           TaskMoved(@, TaskAfter(seenTask[u].state, Aggregate({"completed"})))]
      /\ outcomes' = outcomes \cup NewOutcomes(n, seenTask[u].state, Work)
      /\ Insert(r, "committed", TRUE, "none")
      /\ MayLoseAck(u)
      /\ UNCHANGED <<applications, message, answer, touches>>

\* version_conflict: read everything again, at most MaxRetries times in all;
\* then the request ends without a receipt.
CompletionConflict(u) ==
  /\ CompletionIntended(u)
  /\ ~Fresh(u, request[u].node)
  /\ \/ /\ tries[u] + 1 < MaxRetries
        /\ tries' = [tries EXCEPT ![u] = @ + 1]
        /\ pc' = [pc EXCEPT ![u] = "wo"]
        /\ UNCHANGED <<seenTask, seenWo, request>>
     \/ /\ tries[u] + 1 >= MaxRetries
        /\ Leave(u)
        /\ request' = [request EXCEPT ![u] = None]
  /\ UNCHANGED <<tables, message, answer, bounds>>

CompletionDone(u) ==
  /\ pc[u] = "commit"
  /\ request[u].act = "complete"
  /\ seenWo[u].state = "completed"
  /\ CommitNothing(u)

CompletionRefused(u) ==
  /\ pc[u] = "commit"
  /\ request[u].act = "complete"
  /\ seenWo[u].state # "completed"
  /\ ~CompletionIntended(u)
  /\ Goto(u, "refused")
  /\ UNCHANGED <<tables, request, message, answer, bounds>>

\* A write that wants a receipt whose key was taken meanwhile: the unique
\* index rolls the transaction back with an error the code does not know.
KeyTaken(u) ==
  /\ pc[u] \in {"commit", "recheck"}
  /\ ~KeyFree(request[u])
  /\ \/ ClaimIntended(u) /\ ClaimGuard(wo[request[u].node])
     \/ CompletionIntended(u) /\ Fresh(u, request[u].node)
     \/ pc[u] = "commit" /\ request[u].act = "claim"
        /\ AlreadyMine(seenWo[u], request[u].actor)
     \/ pc[u] = "commit" /\ request[u].act = "complete"
        /\ seenWo[u].state = "completed"
     \/ pc[u] = "recheck" /\ AlreadyMine(wo[request[u].node], request[u].actor)
  /\ Goto(u, "internal")
  /\ UNCHANGED <<tables, request, message, answer, bounds>>

\* A read or a transaction fails and is rolled back.
DatabaseFails(u) ==
  /\ pc[u] \in {"wo", "task", "commit", "recheck"}
  /\ failures < MaxFailures
  /\ failures' = failures + 1
  /\ Goto(u, "internal")
  /\ UNCHANGED <<tables, request, message, answer, touches>>

\* The catch block of execute: a receipt says rejected, whether the rules
\* refused the request or the database failed.  If the key is taken, this
\* insert fails too.
RecordRejection(u) ==
  LET r == request[u]
  IN  /\ pc[u] \in {"refused", "internal"}
      /\ IF KeyFree(r) THEN Insert(r, "rejected", FALSE, pc[u])
                       ELSE UNCHANGED receipts
      /\ Leave(u)
      /\ request' = [request EXCEPT ![u] = None]
      /\ UNCHANGED <<task, wo, outcomes, applications, message, answer, bounds>>

-----------------------------------------------------------------------------
(* Deliveries of lifecycle facts (reconcile-applied-lifecycle-fact).       *)

StartDelivery(w, m) ==
  /\ pc[w] = "idle"
  /\ pc' = [pc EXCEPT ![w] = "task"]
  /\ message' = [message EXCEPT ![w] = m]
  /\ answer' = [answer EXCEPT ![w] = "none"]
  /\ UNCHANGED <<tables, seenTask, seenWo, tries, request, bounds>>

\* The delivery ends; the outbox may deliver the fact again.
EndDelivery(w, a) ==
  /\ Leave(w)
  /\ message' = [message EXCEPT ![w] = None]
  /\ answer' = [answer EXCEPT ![w] = a]

\* findTaskByNodeInstanceId reads the task, then its work orders.  Without
\* a task the answer is TASK_NOT_INITIALIZED, which the outbox retries.
ReadFactTask(w) ==
  LET n == message[w].node
  IN  /\ pc[w] = "task"
      /\ \/ /\ task[n].state = "none"
            /\ EndDelivery(w, "error")
         \/ /\ task[n].state # "none"
            /\ pc' = [pc EXCEPT ![w] = "wo"]
            /\ seenTask' = [seenTask EXCEPT ![w] = task[n]]
            /\ UNCHANGED <<seenWo, tries, message, answer>>
      /\ UNCHANGED <<tables, request, bounds>>

ReadFactWorkOrder(w) ==
  /\ pc[w] = "wo"
  /\ pc' = [pc EXCEPT ![w] = "commit"]
  /\ seenWo' = [seenWo EXCEPT ![w] = wo[message[w].node]]
  /\ UNCHANGED <<tables, seenTask, tries, request, message, answer, bounds>>

\* The application of the fact to this work order, if there is one.
Recorded(m) == {a \in applications : a.node = m.node /\ a.fact = m.fact}

\* The fact was applied before, seen by the lookup or inside the transaction
\* or through the unique index: the recorded decision is the answer.
ReplayDecision(w) ==
  /\ pc[w] = "commit"
  /\ \E a \in Recorded(message[w]) : EndDelivery(w, a.decision)
  /\ UNCHANGED <<tables, request, bounds>>

\* decideFactApplication and decideWorkOrderFactApplication.
Decision(w) ==
  IF seenTask[w].state = "cancelled" THEN "rejected"
  ELSE IF seenWo[w].state \in CompletableFrom THEN "applied"
  ELSE IF seenWo[w].state = "completed" THEN "no_op"
  ELSE "rejected"

Apply(m, decision) ==
  applications' = applications \cup
    {[node |-> m.node, fact |-> m.fact, decision |-> decision]}

\* Mutant of TaskGuard: the task is updated by id, without its version.
TaskGuard_ById(w, n) == seenTask[w].state # "none" /\ task[n].state # "none"

\* The guards of applyLifecycleFactReconciliation on the rows it updates.
TaskGuard(w, n) ==
  /\ task[n].version = seenTask[w].version
  /\ task[n].state = seenTask[w].state

WoGuard(w, n) ==
  /\ wo[n].version = seenWo[w].version
  /\ wo[n].state = seenWo[w].state

\* The states the decision leads to; a row that keeps its state is neither
\* updated nor guarded.
WoResult(w) == IF Decision(w) = "applied" THEN "completed" ELSE seenWo[w].state
TaskResult(w) == TaskAfter(seenTask[w].state, Aggregate({WoResult(w)}))
FactRefused(w) == TaskRefuses(seenTask[w].state, Aggregate({WoResult(w)}))

FactCommits(w, n) ==
  /\ ~FactRefused(w)
  /\ WoResult(w) # seenWo[w].state => WoGuard(w, n)
  /\ TaskResult(w) # seenTask[w].state => TaskGuard(w, n)

FactIntended(w) ==
  /\ pc[w] = "commit"
  /\ Recorded(message[w]) = {}

\* applyLifecycleFactReconciliation: the application row with the decision,
\* and what the decision changes.
CommitFact(w) ==
  LET m == message[w]
      n == m.node
  IN  /\ FactIntended(w)
      /\ FactCommits(w, n)
      /\ wo' = IF WoResult(w) = seenWo[w].state THEN wo
               ELSE [wo EXCEPT ![n] = WoMoved(@, WoResult(w))]
      /\ task' = IF TaskResult(w) = seenTask[w].state THEN task
                 ELSE [task EXCEPT ![n] = TaskMoved(@, TaskResult(w))]
      /\ outcomes' = outcomes \cup
           IF TaskResult(w) = "completed"
           THEN NewOutcomes(n, seenTask[w].state, m.fact) ELSE {}
      /\ Apply(m, Decision(w))
      /\ EndDelivery(w, Decision(w))
      /\ UNCHANGED <<receipts, request, bounds>>

\* Mutant of FactConflict: the retry decides on what was read at first.
FactConflict_NoReread(w) ==
  /\ FactIntended(w)
  /\ ~FactCommits(w, message[w].node)
  /\ UNCHANGED vars

\* version_conflict: read the task again, at most MaxRetries times in all;
\* then an error, after which the outbox delivers again.
FactConflict(w) ==
  /\ FactIntended(w)
  /\ ~FactCommits(w, message[w].node)
  /\ \/ /\ ~FactRefused(w)
        /\ tries[w] + 1 < MaxRetries
        /\ tries' = [tries EXCEPT ![w] = @ + 1]
        /\ pc' = [pc EXCEPT ![w] = "task"]
        /\ UNCHANGED <<seenTask, seenWo, message, answer>>
     \/ /\ FactRefused(w) \/ tries[w] + 1 >= MaxRetries
        /\ EndDelivery(w, "error")
  /\ UNCHANGED <<tables, request, bounds>>

\* A read or the transaction fails, or the process dies.
DeliveryFails(w) ==
  /\ pc[w] # "idle"
  /\ failures < MaxFailures
  /\ failures' = failures + 1
  /\ EndDelivery(w, "error")
  /\ UNCHANGED <<tables, request, touches>>

-----------------------------------------------------------------------------
RequestStep(u) ==
  \/ ReadWorkOrder(u) \/ ReadTask(u)
  \/ CommitClaim(u) \/ ClaimConflict(u) \/ ClaimDone(u)
  \/ ClaimRecheckDone(u) \/ ClaimRefused(u)
  \/ CommitCompletion(u) \/ CompletionConflict(u) \/ CompletionDone(u)
  \/ CompletionRefused(u)
  \/ KeyTaken(u) \/ RecordRejection(u)

DeliveryStep(w) ==
  \/ ReadFactTask(w) \/ ReadFactWorkOrder(w)
  \/ ReplayDecision(w) \/ CommitFact(w) \/ FactConflict(w)

Next ==
  \/ \E n \in Node, ready \in BOOLEAN : CreateTask(n, ready) \/ TouchTask(n, ready)
  \/ \E u \in User :
       \/ \E r \in Command : StartRequest(u, r)
       \/ RequestStep(u)
       \/ DatabaseFails(u)
  \/ \E w \in Worker :
       \/ \E m \in Message : StartDelivery(w, m)
       \/ DeliveryStep(w)
       \/ DeliveryFails(w)

Spec == Init /\ [][Next]_vars
-----------------------------------------------------------------------------
(* What a reader of the code relies on.                                    *)

\* A task always shows the aggregate of its work order, although its state
\* is computed from reads that are older than the write.
TaskFollowsWorkOrder ==
  \A n \in Node : task[n].state =
    IF wo[n].state = "none" THEN "none" ELSE Aggregate({wo[n].state})

\* A work order is completed exactly when its task has an outcome, there is
\* one outcome, and one applied fact or one applied completion explains it.
OutcomeExplained ==
  /\ \A n \in Node :
       wo[n].state = "completed" <=> \E o \in outcomes : o.node = n
  /\ \A o1, o2 \in outcomes : o1.node = o2.node => o1 = o2
  /\ \A n \in Node, f \in Fact :
       [node |-> n, cause |-> f] \in outcomes <=>
         [node |-> n, fact |-> f, decision |-> "applied"] \in applications
  /\ \A n \in Node :
       [node |-> n, cause |-> Work] \in outcomes <=>
         \E rc \in receipts : rc.req.act = "complete" /\ rc.req.node = n
                              /\ rc.applied

\* A receipt tells the truth for ever: a committed claim means that the work
\* is the actor's, a committed completion that it is completed, and a request
\* that was told it was rejected has changed nothing.
ReceiptsAreTrue ==
  \A rc \in receipts :
    LET r == rc.req
    IN  /\ rc.verdict = "committed" /\ r.act = "claim" =>
             wo[r.node].assignee = r.actor
        /\ rc.verdict = "committed" /\ r.act = "complete" =>
             wo[r.node].state = "completed"
        /\ \A other \in receipts :
             other.req.actor = r.actor /\ other.req.act = r.act
               /\ other.req.key = r.key => other = rc

\* A claim is never lost to another actor, and a completed work order never
\* changes again.
WorkIsFinal ==
  [][\A n \in Node :
       /\ wo[n].assignee # None => wo'[n].assignee = wo[n].assignee
       /\ wo[n].state = "completed" => wo'[n] = wo[n]]_vars

\* Work execution keeps the promises of the ledger.
Ledger == INSTANCE WorkLedger WITH
  item <- [n \in Node |->
    CASE wo[n].state = "none"  -> "absent"
      [] wo[n].state = "draft" -> "waiting"
      [] wo[n].state = "ready" -> "open"
      [] wo[n].state = "in_progress" -> "taken"
      [] OTHER -> "done"],
  holder <- [n \in Node |-> wo[n].assignee],
  causes <- [n \in Node |-> {o.cause : o \in {x \in outcomes : x.node = n}}]

ImplementsWorkLedger == Ledger!LedgerSpec

-----------------------------------------------------------------------------
(* What documents of the repository say, and the code does not do.         *)

\* A delivery that finds the work order completable is not answered
\* "rejected": a fact that came too early is delivered again once it is ready.
RejectionIsReconsidered ==
  [][\A w \in Worker :
       pc[w] # "idle" /\ pc'[w] = "idle" /\ answer'[w] = "rejected" =>
         seenWo[w].state \notin CompletableFrom]_vars
=============================================================================
