------------------------- MODULE WorkExecution_proofs -------------------------
(***************************************************************************)
(* Proofs about WorkExecution, for any number of nodes, requests in        *)
(* progress, deliveries in progress, people, keys and facts.               *)
(***************************************************************************)
EXTENDS WorkExecution, TLAPS

USE WorkAssumption DEF Proc

-----------------------------------------------------------------------------
(* Type correctness.                                                       *)

\* A request or a delivery in progress is about something, and only claims
\* take a second look.
Busy ==
  /\ \A u \in User : pc[u] # "idle" => request[u] \in Request
  /\ \A u \in User : pc[u] = "recheck" => request[u].act = "claim"
  /\ \A w \in Worker : pc[w] \in {"idle", "task", "wo", "commit"}
  /\ \A w \in Worker : pc[w] # "idle" => message[w] \in Message

Types == TypeOK /\ Busy

\* Leave, Goto and Insert keep the types of what they assign.
LEMMA LeaveTypes ==
  ASSUME TypeOK, NEW p \in Proc, Leave(p)
  PROVE  /\ pc' = [pc EXCEPT ![p] = "idle"] /\ pc' \in [Proc -> Place]
         /\ seenTask' \in [Proc -> TaskRow]
         /\ seenWo' \in [Proc -> WoRow]
         /\ tries' \in [Proc -> Nat]
<1>1. NoTask \in TaskRow /\ NoWo \in WoRow
  BY DEF NoTask, NoWo, TaskRow, WoRow
<1>2. QED
  BY <1>1 DEF Leave, TypeOK, Place

LEMMA InsertTypes ==
  ASSUME TypeOK, NEW r \in Request, NEW v \in {"committed", "rejected"},
         NEW b \in BOOLEAN, NEW t \in {"none", "refused", "internal"},
         Insert(r, v, b, t)
  PROVE  receipts' \subseteq Receipt
BY DEF Insert, TypeOK, Receipt

\* What MayLoseAck leaves of a request is well typed.
LEMMA AckTypes ==
  ASSUME Types, NEW u \in User, pc[u] \in {"commit", "recheck"}, MayLoseAck(u),
         UNCHANGED message
  PROVE  /\ pc' \in [Proc -> Place]
         /\ seenTask' \in [Proc -> TaskRow]
         /\ seenWo' \in [Proc -> WoRow]
         /\ tries' \in [Proc -> Nat]
         /\ request' \in [User -> Request \cup {None}]
         /\ failures' \in Nat
         /\ Busy'
<1>1. CASE Leave(u) /\ request' = [request EXCEPT ![u] = None] /\ UNCHANGED failures
  <2>1. /\ pc' = [pc EXCEPT ![u] = "idle"] /\ pc' \in [Proc -> Place]
        /\ seenTask' \in [Proc -> TaskRow]
        /\ seenWo' \in [Proc -> WoRow]
        /\ tries' \in [Proc -> Nat]
    BY <1>1, LeaveTypes DEF Types
  <2>2. Busy'
    BY <1>1, <2>1 DEF Types, Busy, TypeOK
  <2>3. QED
    BY <1>1, <2>1, <2>2 DEF Types, TypeOK
<1>2. CASE /\ failures' = failures + 1
           /\ Goto(u, "internal")
           /\ UNCHANGED request
  BY <1>2 DEF Goto, Types, TypeOK, Busy, Place
<1>3. QED
  BY <1>1, <1>2 DEF MayLoseAck

\* Updated rows are rows.
LEMMA RowTypes ==
  ASSUME NEW row \in WoRow
  PROVE  /\ \A s \in WorkOrderState : WoMoved(row, s) \in WoRow
         /\ Readied(row) \in WoRow
BY DEF WoMoved, Readied, WoRow, WorkOrderState

LEMMA TaskRowTypes ==
  ASSUME NEW row \in TaskRow, NEW s \in NodeTaskState \cup {"none"}
  PROVE  TaskMoved(row, s) \in TaskRow
BY DEF TaskMoved, TaskRow

LEMMA TypesRows ==
  ASSUME Types, NEW n \in Node, NEW ready \in BOOLEAN,
         CreateTask(n, ready) \/ TouchTask(n, ready)
  PROVE  Types'
<1> USE DEF Types, TypeOK
<1>1. CASE CreateTask(n, ready)
  BY <1>1 DEF CreateTask, TaskRow, WoRow, NoWo, NodeTaskState, WorkOrderState,
     progress, bounds, Busy
<1>2. CASE TouchTask(n, ready)
  <2>1. Readied(wo[n]) \in WoRow
    BY RowTypes
  <2>2. wo' \in [Node -> WoRow]
    BY <1>2, <2>1 DEF TouchTask
  <2>3. task' \in [Node -> TaskRow]
    BY <1>2 DEF TouchTask, TaskRow
  <2>4. QED
    BY <1>2, <2>2, <2>3 DEF TouchTask, progress, Busy
<1>3. QED
  BY <1>1, <1>2

LEMMA TaskAfterType ==
  ASSUME NEW s \in NodeTaskState \cup {"none"}, NEW S
  PROVE  TaskAfter(s, Aggregate(S)) \in NodeTaskState \cup {"none"}
BY DEF TaskAfter, Aggregate, NodeTaskState

LEMMA TypesRequest ==
  ASSUME Types, NEW u \in User,
         \/ \E r \in Command : StartRequest(u, r)
         \/ RequestStep(u) \/ DatabaseFails(u)
  PROVE  Types'
<1>1. ASSUME NEW r \in Command, StartRequest(u, r) PROVE Types'
  BY <1>1 DEF StartRequest, Types, TypeOK, Busy, Place, tables, bounds
<1>2. CASE ReadWorkOrder(u)
  BY <1>2 DEF ReadWorkOrder, Types, TypeOK, Busy, Place, tables, bounds, Request
<1>3. CASE ReadTask(u)
  BY <1>3 DEF ReadTask, Types, TypeOK, Busy, Place, tables, bounds, Request
<1>4. ASSUME CommitClaim(u) \/ CommitCompletion(u) PROVE Types'
  <2> DEFINE n == request[u].node
  <2>1. request[u] \in Request /\ pc[u] = "commit"
    BY <1>4 DEF CommitClaim, CommitCompletion, ClaimIntended,
       CompletionIntended, Types, Busy
  <2>2. n \in Node /\ request[u].actor \in Actor
    BY <2>1 DEF Request
  <2>3. \A S : TaskAfter(seenTask[u].state, Aggregate(S)) \in NodeTaskState \cup {"none"}
    <3>1. seenTask[u].state \in NodeTaskState \cup {"none"}
      BY DEF Types, TypeOK, TaskRow
    <3>2. QED
      BY <3>1, TaskAfterType
  <2>4. /\ task' \in [Node -> TaskRow]
        /\ wo' \in [Node -> WoRow]
        /\ outcomes' \subseteq Outcome
    <3> DEFINE after(S) == TaskAfter(seenTask[u].state, Aggregate(S))
    <3>1. wo[n] \in WoRow /\ task[n] \in TaskRow
      BY <2>2 DEF Types, TypeOK
    <3>2. \A S : TaskMoved(task[n], after(S)) \in TaskRow
      BY <2>3, <3>1, TaskRowTypes
    <3>3. [state |-> "in_progress", assignee |-> request[u].actor,
           version |-> wo[n].version + 1] \in WoRow
      BY <2>2, <3>1 DEF WoRow, WorkOrderState
    <3>4. WoMoved(wo[n], "completed") \in WoRow
      BY <3>1, RowTypes DEF WorkOrderState
    <3>5. CASE CommitClaim(u)
      <4>1. /\ task' = [task EXCEPT ![n] = TaskMoved(@, after({"in_progress"}))]
            /\ wo' = [wo EXCEPT ![n] =
                        [state |-> "in_progress", assignee |-> request[u].actor,
                         version |-> wo[n].version + 1]]
            /\ UNCHANGED outcomes
        BY <3>5 DEF CommitClaim
      <4>2. QED
        BY <3>2, <3>3, <4>1 DEF Types, TypeOK
    <3>6. CASE CommitCompletion(u)
      <4>1. /\ task' = [task EXCEPT ![n] = TaskMoved(@, after({"completed"}))]
            /\ wo' = [wo EXCEPT ![n] = WoMoved(@, "completed")]
            /\ outcomes' = outcomes \cup NewOutcomes(n, seenTask[u].state, Work)
        BY <3>6 DEF CommitCompletion
      <4>2. NewOutcomes(n, seenTask[u].state, Work) \subseteq Outcome
        BY <2>2 DEF NewOutcomes, Outcome
      <4>3. QED
        BY <3>2, <3>4, <4>1, <4>2 DEF Types, TypeOK
    <3>7. QED
      BY <1>4, <3>5, <3>6
  <2>7. receipts' \subseteq Receipt
    BY <1>4, <2>1, InsertTypes DEF CommitClaim, CommitCompletion, Types
  <2>8. MayLoseAck(u) /\ UNCHANGED <<applications, message, answer, touches>>
    BY <1>4 DEF CommitClaim, CommitCompletion
  <2>9. QED
    BY <2>1, <2>4, <2>7, <2>8, AckTypes DEF Types, TypeOK
<1>5. ASSUME ClaimDone(u) \/ ClaimRecheckDone(u) \/ CompletionDone(u)
      PROVE  Types'
  <2>1. pc[u] \in {"commit", "recheck"} /\ CommitNothing(u)
    BY <1>5 DEF ClaimDone, ClaimRecheckDone, CompletionDone
  <2>2. request[u] \in Request
    BY <2>1 DEF Types, Busy
  <2>3. receipts' \subseteq Receipt
    BY <2>1, <2>2, InsertTypes DEF CommitNothing, Types
  <2>4. QED
    BY <2>1, <2>3, AckTypes DEF CommitNothing, Types, TypeOK
<1>6. CASE \/ ClaimConflict(u) \/ ClaimRefused(u) \/ CompletionRefused(u)
           \/ KeyTaken(u) \/ DatabaseFails(u)
  <2>1. /\ pc[u] \in {"wo", "task", "commit", "recheck"}
        /\ \/ Goto(u, "recheck") /\ request[u].act = "claim"
           \/ Goto(u, "refused")
           \/ Goto(u, "internal")
        /\ UNCHANGED <<tables, request, message, answer, touches>>
        /\ failures' \in Nat
    BY <1>6 DEF ClaimConflict, ClaimRefused, CompletionRefused, KeyTaken,
       DatabaseFails, ClaimIntended, bounds, Types, TypeOK
  <2>2. QED
    BY <2>1 DEF Goto, Types, TypeOK, Busy, Place, tables
<1>7. CASE CompletionConflict(u)
  <2>1. pc[u] = "commit" /\ UNCHANGED <<tables, message, answer, bounds>>
    BY <1>7 DEF CompletionConflict, CompletionIntended
  <2>2. CASE Leave(u) /\ request' = [request EXCEPT ![u] = None]
    <3>1. /\ pc' = [pc EXCEPT ![u] = "idle"] /\ pc' \in [Proc -> Place]
          /\ seenTask' \in [Proc -> TaskRow]
          /\ seenWo' \in [Proc -> WoRow]
          /\ tries' \in [Proc -> Nat]
      BY <2>2, LeaveTypes DEF Types
    <3>2. QED
      BY <2>1, <2>2, <3>1 DEF Types, TypeOK, Busy, tables, bounds
  <2>3. CASE /\ tries' = [tries EXCEPT ![u] = @ + 1]
             /\ pc' = [pc EXCEPT ![u] = "wo"]
             /\ UNCHANGED <<seenTask, seenWo, request>>
    BY <2>1, <2>3 DEF Types, TypeOK, Busy, Place, tables, bounds
  <2>4. QED
    BY <1>7, <2>2, <2>3 DEF CompletionConflict
<1>8. CASE RecordRejection(u)
  <2>1. /\ Leave(u) /\ request' = [request EXCEPT ![u] = None]
        /\ UNCHANGED <<task, wo, outcomes, applications, message, answer, bounds>>
        /\ pc[u] \in {"refused", "internal"}
    BY <1>8 DEF RecordRejection
  <2>2. receipts' \subseteq Receipt
    <3>1. request[u] \in Request
      BY <2>1 DEF Types, Busy
    <3>2. CASE Insert(request[u], "rejected", FALSE, pc[u])
      BY <2>1, <3>1, <3>2, InsertTypes DEF Types
    <3>3. QED
      BY <1>8, <3>2 DEF RecordRejection, Types, TypeOK
  <2>3. /\ pc' = [pc EXCEPT ![u] = "idle"] /\ pc' \in [Proc -> Place]
        /\ seenTask' \in [Proc -> TaskRow]
        /\ seenWo' \in [Proc -> WoRow]
        /\ tries' \in [Proc -> Nat]
    BY <2>1, LeaveTypes DEF Types
  <2>4. QED
    BY <2>1, <2>2, <2>3 DEF Types, TypeOK, Busy, bounds
<1>9. QED
  BY <1>1, <1>2, <1>3, <1>4, <1>5, <1>6, <1>7, <1>8 DEF RequestStep

\* What EndDelivery leaves of a delivery is well typed.
LEMMA EndTypes ==
  ASSUME Types, NEW w \in Worker, NEW a \in Answer, EndDelivery(w, a),
         UNCHANGED request
  PROVE  /\ pc' \in [Proc -> Place]
         /\ seenTask' \in [Proc -> TaskRow]
         /\ seenWo' \in [Proc -> WoRow]
         /\ tries' \in [Proc -> Nat]
         /\ message' \in [Worker -> Message \cup {None}]
         /\ answer' \in [Worker -> Answer]
         /\ Busy'
<1>1. /\ pc' = [pc EXCEPT ![w] = "idle"] /\ pc' \in [Proc -> Place]
      /\ seenTask' \in [Proc -> TaskRow]
      /\ seenWo' \in [Proc -> WoRow]
      /\ tries' \in [Proc -> Nat]
  BY LeaveTypes DEF EndDelivery, Types
<1>2. Busy'
  BY <1>1 DEF EndDelivery, Types, TypeOK, Busy
<1>3. QED
  BY <1>1, <1>2 DEF EndDelivery, Types, TypeOK

\* The states a fact leads to are states.
LEMMA FactTypes ==
  ASSUME Types, NEW w \in Worker
  PROVE  /\ Decision(w) \in {"applied", "no_op", "rejected"}
         /\ WoResult(w) \in WorkOrderState \cup {"none"}
         /\ TaskResult(w) \in NodeTaskState \cup {"none"}
<1>1. seenWo[w].state \in WorkOrderState \cup {"none"}
  BY DEF Types, TypeOK, WoRow
<1>2. seenTask[w].state \in NodeTaskState \cup {"none"}
  BY DEF Types, TypeOK, TaskRow
<1>3. WoResult(w) \in WorkOrderState \cup {"none"}
  BY <1>1 DEF WoResult, WorkOrderState
<1>4. QED
  BY <1>2, <1>3, TaskAfterType DEF Decision, TaskResult

LEMMA TypesDelivery ==
  ASSUME Types, NEW w \in Worker,
         \/ \E m \in Message : StartDelivery(w, m)
         \/ DeliveryStep(w) \/ DeliveryFails(w)
  PROVE  Types'
<1>1. ASSUME NEW m \in Message, StartDelivery(w, m) PROVE Types'
  BY <1>1 DEF StartDelivery, Types, TypeOK, Busy, Place, Answer, tables, bounds
<1>2. CASE ReadFactTask(w)
  <2>1. CASE EndDelivery(w, "error")
    <3>1. "error" \in Answer
      BY DEF Answer
    <3>2. QED
      BY <1>2, <2>1, <3>1, EndTypes DEF ReadFactTask, Types, TypeOK, tables,
         bounds
  <2>2. CASE /\ pc' = [pc EXCEPT ![w] = "wo"]
             /\ seenTask' = [seenTask EXCEPT ![w] = task[message[w].node]]
             /\ UNCHANGED <<seenWo, tries, message, answer>>
    <3>1. pc[w] = "task" /\ UNCHANGED <<tables, request, bounds>>
      BY <1>2 DEF ReadFactTask
    <3>2. task[message[w].node] \in TaskRow
      BY <3>1 DEF Types, TypeOK, Busy, Message
    <3>3. QED
      BY <2>2, <3>1, <3>2 DEF Types, TypeOK, Busy, Place, tables, bounds
  <2>3. QED
    BY <1>2, <2>1, <2>2 DEF ReadFactTask
<1>3. CASE ReadFactWorkOrder(w)
  <2>1. wo[message[w].node] \in WoRow
    BY <1>3 DEF ReadFactWorkOrder, Types, TypeOK, Busy, Message
  <2>2. QED
    BY <1>3, <2>1 DEF ReadFactWorkOrder, Types, TypeOK, Busy, Place, tables,
       bounds
<1>4. CASE ReplayDecision(w)
  <2>1. PICK a \in Recorded(message[w]) : EndDelivery(w, a.decision)
    BY <1>4 DEF ReplayDecision
  <2>2. a.decision \in Answer
    BY DEF Recorded, Types, TypeOK, Application, Answer
  <2>3. QED
    BY <1>4, <2>1, <2>2, EndTypes DEF ReplayDecision, Types, TypeOK, tables,
       bounds
<1>5. CASE CommitFact(w)
  <2> DEFINE n == message[w].node
             f == message[w].fact
  <2>1. n \in Node /\ f \in Fact
    BY <1>5 DEF CommitFact, FactIntended, Types, Busy, Message
  <2>2. /\ Decision(w) \in {"applied", "no_op", "rejected"}
        /\ WoResult(w) \in WorkOrderState \cup {"none"}
        /\ TaskResult(w) \in NodeTaskState \cup {"none"}
    BY FactTypes
  <2>3. task' \in [Node -> TaskRow]
    <3>1. TaskMoved(task[n], TaskResult(w)) \in TaskRow
      BY <2>1, <2>2, TaskRowTypes DEF Types, TypeOK
    <3>2. QED
      BY <1>5, <3>1 DEF CommitFact, Types, TypeOK
  <2>4. wo' \in [Node -> WoRow]
    <3>1. WoMoved(wo[n], WoResult(w)) \in WoRow
      BY <2>1, <2>2 DEF Types, TypeOK, WoMoved, WoRow
    <3>2. QED
      BY <1>5, <3>1 DEF CommitFact, Types, TypeOK
  <2>5. outcomes' \subseteq Outcome
    BY <1>5, <2>1 DEF CommitFact, NewOutcomes, Outcome, Types, TypeOK
  <2>6. applications' \subseteq Application
    <3>1. [node |-> n, fact |-> f, decision |-> Decision(w)] \in Application
      BY <2>1, <2>2 DEF Application
    <3>2. QED
      BY <1>5, <3>1 DEF CommitFact, Apply, Types, TypeOK
  <2>7. Decision(w) \in Answer
    BY <2>2 DEF Answer
  <2>8. QED
    BY <1>5, <2>3, <2>4, <2>5, <2>6, <2>7, EndTypes
    DEF CommitFact, Types, TypeOK, bounds
<1>6. CASE FactConflict(w)
  <2>1. CASE EndDelivery(w, "error")
    <3>1. "error" \in Answer
      BY DEF Answer
    <3>2. QED
      BY <1>6, <2>1, <3>1, EndTypes DEF FactConflict, Types, TypeOK, tables,
         bounds
  <2>2. CASE /\ tries' = [tries EXCEPT ![w] = @ + 1]
             /\ pc' = [pc EXCEPT ![w] = "task"]
             /\ UNCHANGED <<seenTask, seenWo, message, answer>>
    BY <1>6, <2>2 DEF FactConflict, FactIntended, Types, TypeOK, Busy, Place,
       tables, bounds
  <2>3. QED
    BY <1>6, <2>1, <2>2 DEF FactConflict
<1>7. CASE DeliveryFails(w)
  <2>1. "error" \in Answer
    BY DEF Answer
  <2>2. QED
    BY <1>7, <2>1, EndTypes DEF DeliveryFails, Types, TypeOK, tables
<1>8. QED
  BY <1>1, <1>2, <1>3, <1>4, <1>5, <1>6, <1>7 DEF DeliveryStep

LEMMA TypesInit == Init => Types
<1>1. NoTask \in TaskRow /\ NoWo \in WoRow
  BY DEF NoTask, NoWo, TaskRow, WoRow
<1>2. QED
  BY <1>1 DEF Init, Types, TypeOK, Busy, Place, Answer

LEMMA TypesStep == Types /\ [Next]_vars => Types'
<1> SUFFICES ASSUME Types, [Next]_vars PROVE Types'
  OBVIOUS
<1>1. CASE UNCHANGED vars
  BY <1>1 DEF vars, tables, progress, bounds, Types, TypeOK, Busy
<1>2. QED
  BY <1>1, TypesRows, TypesRequest, TypesDelivery DEF Next

\* Rows, memories and tables keep their types, and whatever runs is about
\* something.
THEOREM TypeInvariant == Spec => []TypeOK
<1>1. Types => TypeOK
  BY DEF Types
<1>2. QED
  BY <1>1, TypesInit, TypesStep, PTL DEF Spec

-----------------------------------------------------------------------------
(* What the rows look like, and what is known of a row read earlier.       *)

\* The work orders there are, and who has them.
RowsInv ==
  /\ \A n \in Node :
       wo[n].state \in {"none", "draft", "ready", "in_progress", "completed"}
  /\ \A n \in Node : wo[n].state \in {"none", "draft", "ready"} => wo[n].assignee = None
  /\ \A n \in Node : wo[n].state = "in_progress" => wo[n].assignee # None
  /\ TaskFollowsWorkOrder

\* A row that was read is the current one as long as the versions agree, and
\* some of what it says lasts.
TaskRead(seen, row) ==
  /\ seen.state \in {"pending", "in_progress", "completed"}
  /\ row.state # "none"
  /\ seen.version <= row.version
  /\ seen.version = row.version => seen = row

WoRead(seen, row) ==
  /\ seen.state \in {"draft", "ready", "in_progress", "completed"}
  /\ row.state # "none"
  /\ seen.version <= row.version
  /\ seen.version = row.version => seen = row
  /\ seen.assignee # None => row.assignee = seen.assignee
  /\ seen.state = "completed" => row.state = "completed"

\* A delivery reads the task before the work order: the work order it reads
\* is at least as far as the task it has read.
Behind(taskState, woState) ==
  /\ taskState = "in_progress" => woState \in {"in_progress", "completed"}
  /\ taskState = "completed" => woState = "completed"

UserReads(u) ==
  /\ pc[u] = "wo" => task[request[u].node].state # "none"
  /\ pc[u] \in {"task", "commit"} => WoRead(seenWo[u], wo[request[u].node])
  /\ pc[u] = "commit" => TaskRead(seenTask[u], task[request[u].node])

WorkerReads(w) ==
  LET n == message[w].node
  IN  /\ pc[w] \in {"wo", "commit"} => TaskRead(seenTask[w], task[n])
      /\ pc[w] = "wo" => Behind(seenTask[w].state, wo[n].state)
      /\ pc[w] = "commit" => /\ WoRead(seenWo[w], wo[n])
                             /\ Behind(seenTask[w].state, seenWo[w].state)

ReadsInv ==
  /\ \A u \in User : UserReads(u)
  /\ \A w \in Worker : WorkerReads(w)

Inv == Types /\ RowsInv /\ ReadsInv

\* A task has one required work order: the aggregate of one state.
LEMMA AggregateOfOne ==
  /\ Aggregate({"draft"}) = "pending"
  /\ Aggregate({"ready"}) = "pending"
  /\ Aggregate({"in_progress"}) = "in_progress"
  /\ Aggregate({"completed"}) = "completed"
<1>1. {"draft"} \cap {"failed", "blocked", "cancelled"} = {}
  OBVIOUS
<1>2. {"ready"} \cap {"failed", "blocked", "cancelled"} = {}
  OBVIOUS
<1>3. {"in_progress"} \cap {"failed", "blocked", "cancelled"} = {}
  OBVIOUS
<1>4. {"completed"} \cap {"failed", "blocked", "cancelled"} = {}
  OBVIOUS
<1>5. {"draft"} # {"completed"} /\ {"ready"} # {"completed"}
      /\ {"in_progress"} # {"completed"}
  OBVIOUS
<1>6. {"draft"} \subseteq {"draft", "ready"} /\ {"ready"} \subseteq {"draft", "ready"}
      /\ ~({"in_progress"} \subseteq {"draft", "ready"})
  OBVIOUS
<1>7. QED
  BY <1>1, <1>2, <1>3, <1>4, <1>5, <1>6 DEF Aggregate

\* Whatever the work order of a task, the task is pending, in progress or
\* completed with it.
LEMMA TaskStates ==
  ASSUME RowsInv, NEW n \in Node
  PROVE  /\ wo[n].state = "none" <=> task[n].state = "none"
         /\ wo[n].state \in {"draft", "ready"} <=> task[n].state = "pending"
         /\ wo[n].state = "in_progress" <=> task[n].state = "in_progress"
         /\ wo[n].state = "completed" <=> task[n].state = "completed"
         /\ task[n].state \in {"none", "pending", "in_progress", "completed"}
BY AggregateOfOne DEF RowsInv, TaskFollowsWorkOrder

-----------------------------------------------------------------------------
(* What each write does, given what its reads are worth.                   *)

\* A claim takes a ready work order nobody has; although the task's state was
\* read earlier, it becomes that of the work order.
Claims(u) ==
  LET n == request[u].node
  IN  /\ n \in Node /\ request[u].actor \in Actor
      /\ wo[n].state = "ready" /\ wo[n].assignee = None
      /\ wo' = [wo EXCEPT ![n] =
                  [state |-> "in_progress", assignee |-> request[u].actor,
                   version |-> @.version + 1]]
      /\ task' = [task EXCEPT ![n] = TaskMoved(@, "in_progress")]
      /\ UNCHANGED <<outcomes, applications>>

\* A work order that was ready or in progress is completed with its task, for
\* one cause.
Finishes(n, cause) ==
  /\ n \in Node
  /\ wo[n].state \in {"ready", "in_progress"}
  /\ wo' = [wo EXCEPT ![n] = WoMoved(@, "completed")]
  /\ task' = [task EXCEPT ![n] = TaskMoved(@, "completed")]
  /\ outcomes' = outcomes \cup {[node |-> n, cause |-> cause]}

LEMMA ClaimEffect ==
  ASSUME Inv, NEW u \in User, CommitClaim(u)
  PROVE  Claims(u)
<1> DEFINE n == request[u].node
<1>1. pc[u] = "commit" /\ n \in Node /\ request[u].actor \in Actor
  BY DEF CommitClaim, ClaimIntended, Inv, Types, Busy, Request
<1>2. wo[n].state = "ready" /\ wo[n].assignee = None
  BY <1>1 DEF CommitClaim, ClaimGuard, ClaimableIn, Inv, RowsInv
<1>3. seenTask[u].state # "cancelled"
  BY <1>1 DEF Inv, ReadsInv, UserReads, TaskRead
<1>4. TaskAfter(seenTask[u].state, Aggregate({"in_progress"})) = "in_progress"
  BY <1>3, AggregateOfOne DEF TaskAfter
<1>5. QED
  BY <1>1, <1>2, <1>4 DEF CommitClaim, Claims

LEMMA CompletionEffect ==
  ASSUME Inv, NEW u \in User, CommitCompletion(u)
  PROVE  Finishes(request[u].node, Work) /\ UNCHANGED applications
<1> DEFINE n == request[u].node
<1>1. pc[u] = "commit" /\ n \in Node
  BY DEF CommitCompletion, CompletionIntended, Inv, Types, Busy, Request
<1>2. wo[n] = seenWo[u] /\ task[n] = seenTask[u]
  BY <1>1 DEF CommitCompletion, Fresh, Inv, ReadsInv, UserReads, WoRead, TaskRead
<1>3. wo[n].state \in {"ready", "in_progress"}
  BY <1>1, <1>2 DEF CommitCompletion, CompletionIntended, CompletableFrom, Inv, RowsInv
<1>4. task[n].state \in {"pending", "in_progress"}
  BY <1>1, <1>3, TaskStates DEF Inv
<1>5. TaskAfter(seenTask[u].state, Aggregate({"completed"})) = "completed"
  BY <1>2, <1>4, AggregateOfOne DEF TaskAfter
<1>6. NewOutcomes(n, seenTask[u].state, Work) = {[node |-> n, cause |-> Work]}
  BY <1>2, <1>4 DEF NewOutcomes
<1>7. QED
  BY <1>1, <1>3, <1>5, <1>6 DEF CommitCompletion, Finishes

LEMMA FactEffect ==
  ASSUME Inv, NEW w \in Worker, CommitFact(w)
  PROVE  IF Decision(w) = "applied"
         THEN Finishes(message[w].node, message[w].fact)
         ELSE UNCHANGED <<wo, task, outcomes>>
<1> DEFINE n == message[w].node
<1>1. pc[w] = "commit" /\ n \in Node
  BY DEF CommitFact, FactIntended, Inv, Types, Busy, Message
<1>2. /\ TaskRead(seenTask[w], task[n]) /\ WoRead(seenWo[w], wo[n])
      /\ Behind(seenTask[w].state, seenWo[w].state)
  BY <1>1 DEF Inv, ReadsInv, WorkerReads
<1>3. seenTask[w].state \in {"pending", "in_progress", "completed"}
  BY <1>2 DEF TaskRead
<1>4. TaskResult(w) = Aggregate({WoResult(w)})
  BY <1>3 DEF TaskResult, TaskAfter
<1>5. CASE Decision(w) = "applied"
  <2>1. seenWo[w].state \in CompletableFrom
    BY <1>5 DEF Decision
  <2>2. WoResult(w) = "completed" /\ TaskResult(w) = "completed"
    BY <1>4, <1>5, AggregateOfOne DEF WoResult
  <2>3. seenWo[w].state # "completed" /\ seenTask[w].state # "completed"
    BY <1>2, <2>1 DEF CompletableFrom, Behind
  <2>4. wo[n] = seenWo[w]
    BY <1>2, <2>2, <2>3 DEF CommitFact, FactCommits, WoGuard, WoRead
  <2>5. wo[n].state \in {"ready", "in_progress"}
    BY <1>1, <2>1, <2>4 DEF CompletableFrom, Inv, RowsInv
  <2>6. NewOutcomes(n, seenTask[w].state, message[w].fact) =
          {[node |-> n, cause |-> message[w].fact]}
    BY <2>3 DEF NewOutcomes
  <2>7. QED
    BY <1>1, <1>5, <2>2, <2>3, <2>5, <2>6 DEF CommitFact, Finishes
<1>6. CASE Decision(w) # "applied"
  <2>1. WoResult(w) = seenWo[w].state
    BY <1>6 DEF WoResult
  <2>2. TaskResult(w) = seenTask[w].state
    <3>1. CASE seenWo[w].state = "completed"
      <4>1. wo[n].state = "completed" /\ task[n].state = "completed"
        BY <1>1, <1>2, <3>1, TaskStates DEF WoRead, Inv
      <4>2. TaskResult(w) = "completed"
        BY <1>4, <2>1, <3>1, AggregateOfOne
      <4>3. QED
        BY <4>1, <4>2 DEF CommitFact, FactCommits, TaskGuard
    <3>2. CASE seenWo[w].state # "completed"
      <4>1. seenWo[w].state \notin CompletableFrom
        BY <1>3, <1>6 DEF Decision
      <4>2. seenWo[w].state = "draft"
        BY <1>2, <3>2, <4>1 DEF WoRead, CompletableFrom
      <4>3. seenTask[w].state = "pending"
        BY <1>2, <1>3, <4>2 DEF Behind
      <4>4. QED
        BY <1>4, <2>1, <4>2, <4>3, AggregateOfOne
    <3>3. QED
      BY <3>1, <3>2
  <2>3. QED
    BY <1>6, <2>1, <2>2 DEF CommitFact, NewOutcomes
<1>7. QED
  BY <1>5, <1>6

\* Creating a task, and announcing it again.
LEMMA CreateEffect ==
  ASSUME Inv, NEW n \in Node, NEW ready \in BOOLEAN, CreateTask(n, ready)
  PROVE  /\ wo[n].state = "none" /\ task[n].state = "none"
         /\ wo' = [wo EXCEPT ![n] = wo'[n]] /\ wo'[n].state \in {"draft", "ready"}
         /\ wo'[n].assignee = None
         /\ task' = [task EXCEPT ![n] = task'[n]] /\ task'[n].state = "pending"
         /\ UNCHANGED <<outcomes, applications, receipts>>
<1>1. wo'[n] = [NoWo EXCEPT !.state = IF ready THEN "ready" ELSE "draft"]
      /\ task'[n] = [state |-> "pending", version |-> 0]
  BY DEF CreateTask, Inv, Types, TypeOK
<1>2. wo' = [wo EXCEPT ![n] = wo'[n]] /\ task' = [task EXCEPT ![n] = task'[n]]
  BY DEF CreateTask, Inv, Types, TypeOK
<1>3. wo'[n].state \in {"draft", "ready"} /\ wo'[n].assignee = None
  BY <1>1 DEF NoWo
<1>4. task[n].state = "none" /\ wo[n].state = "none"
  BY TaskStates DEF CreateTask, Inv
<1>5. QED
  BY <1>1, <1>2, <1>3, <1>4 DEF CreateTask

LEMMA TouchEffect ==
  ASSUME Inv, NEW n \in Node, NEW ready \in BOOLEAN, TouchTask(n, ready)
  PROVE  /\ task[n].state # "none" /\ wo[n].state # "none"
         /\ task' = [task EXCEPT ![n] = TaskMoved(@, @.state)]
         /\ \/ UNCHANGED wo
            \/ wo[n].state = "draft" /\ wo' = [wo EXCEPT ![n] = WoMoved(@, "ready")]
         /\ UNCHANGED <<outcomes, applications, receipts>>
<1>1. task[n] \in TaskRow /\ wo \in [Node -> WoRow]
  BY DEF Inv, Types, TypeOK
<1>2. [task[n] EXCEPT !.version = @ + 1] = TaskMoved(task[n], task[n].state)
  BY <1>1 DEF TaskRow, TaskMoved
<1>3. task' = [task EXCEPT ![n] = [task[n] EXCEPT !.version = @ + 1]]
  BY DEF TouchTask, Inv, Types, TypeOK
<1>4. wo[n].state # "none" /\ task[n].state # "none"
  BY TaskStates DEF TouchTask, Inv
<1>5. QED
  BY <1>1, <1>2, <1>3, <1>4 DEF TouchTask, Readied

\* The steps that change rows, and the rest.
RowChange ==
  \/ \E n \in Node, ready \in BOOLEAN : CreateTask(n, ready) \/ TouchTask(n, ready)
  \/ \E u \in User : CommitClaim(u) \/ CommitCompletion(u)
  \/ \E w \in Worker : CommitFact(w)

LEMMA OtherSteps ==
  ASSUME [Next]_vars, ~RowChange
  PROVE  UNCHANGED <<task, wo, outcomes, applications>>
<1>1. CASE UNCHANGED vars
  BY <1>1 DEF vars, tables
<1>2. ASSUME NEW u \in User,
             \/ \E r \in Command : StartRequest(u, r)
             \/ RequestStep(u) \/ DatabaseFails(u)
      PROVE  UNCHANGED <<task, wo, outcomes, applications>>
  BY <1>2 DEF RowChange, StartRequest, RequestStep, ReadWorkOrder, ReadTask,
     ClaimConflict, ClaimDone, ClaimRecheckDone, ClaimRefused, CommitNothing,
     CompletionConflict, CompletionDone, CompletionRefused, KeyTaken,
     RecordRejection, DatabaseFails, tables
<1>3. ASSUME NEW w \in Worker,
             \/ \E m \in Message : StartDelivery(w, m)
             \/ DeliveryStep(w) \/ DeliveryFails(w)
      PROVE  UNCHANGED <<task, wo, outcomes, applications>>
  BY <1>3 DEF RowChange, StartDelivery, DeliveryStep, ReadFactTask,
     ReadFactWorkOrder, ReplayDecision, FactConflict, DeliveryFails, tables
<1>4. QED
  BY <1>1, <1>2, <1>3 DEF Next, RowChange

\* How rows change: never back to nothing, and never without a new version.
\* Who has work and that it is completed lasts; work in progress can only be
\* completed.
TaskGrows(n) ==
  task[n].state # "none" =>
    /\ task'[n].state # "none"
    /\ task'[n] = task[n] \/ task'[n].version = task[n].version + 1

WoGrows(n) ==
  wo[n].state # "none" =>
    \/ wo'[n] = wo[n]
    \/ /\ wo[n].state # "completed" /\ wo'[n].state # "none"
       /\ wo'[n].version = wo[n].version + 1
       /\ wo[n].assignee # None => wo'[n].assignee = wo[n].assignee
       /\ wo[n].state = "in_progress" => wo'[n].state = "completed"

\* The rows of one node, and of the others.
RowInv(n) ==
  /\ wo[n].state \in {"none", "draft", "ready", "in_progress", "completed"}
  /\ wo[n].state \in {"none", "draft", "ready"} => wo[n].assignee = None
  /\ wo[n].state = "in_progress" => wo[n].assignee # None
  /\ task[n].state = IF wo[n].state = "none" THEN "none" ELSE Aggregate({wo[n].state})

LEMMA RowByRow ==
  /\ RowsInv <=> \A n \in Node : RowInv(n)
  /\ RowsInv' <=> \A n \in Node : RowInv(n)'
BY DEF RowsInv, RowInv, TaskFollowsWorkOrder

Kept(n) == RowInv(n)' /\ TaskGrows(n) /\ WoGrows(n)

LEMMA RowUnchanged ==
  ASSUME NEW n \in Node, RowInv(n), task'[n] = task[n], wo'[n] = wo[n]
  PROVE  Kept(n)
BY DEF Kept, RowInv, TaskGrows, WoGrows

LEMMA RowsStep ==
  ASSUME Inv, [Next]_vars
  PROVE  RowsInv' /\ \A n \in Node : TaskGrows(n) /\ WoGrows(n)
<1> SUFFICES ASSUME NEW m \in Node PROVE Kept(m)
  BY RowByRow DEF Kept
<1>0. /\ task \in [Node -> TaskRow] /\ wo \in [Node -> WoRow]
      /\ RowInv(m)
  BY RowByRow DEF Inv, Types, TypeOK
<1>1. ASSUME NEW n \in Node, NEW ready \in BOOLEAN, CreateTask(n, ready)
      PROVE  Kept(m)
  <2>1. CASE m # n
    BY <1>0, <1>1, <2>1, RowUnchanged DEF CreateTask
  <2>2. CASE m = n
    <3>1. /\ wo[n].state = "none" /\ task[n].state = "none"
          /\ wo'[n].state \in {"draft", "ready"} /\ wo'[n].assignee = None
          /\ task'[n].state = "pending"
      BY <1>1, CreateEffect
    <3>2. Aggregate({wo'[n].state}) = "pending"
      BY <3>1, AggregateOfOne
    <3>3. QED
      BY <2>2, <3>1, <3>2 DEF Kept, RowInv, TaskGrows, WoGrows
  <2>3. QED
    BY <2>1, <2>2
<1>2. ASSUME NEW n \in Node, NEW ready \in BOOLEAN, TouchTask(n, ready)
      PROVE  Kept(m)
  <2>1. CASE m # n
    BY <1>0, <1>2, <2>1, RowUnchanged DEF TouchTask
  <2>2. CASE m = n
    <3>1. /\ task' = [task EXCEPT ![n] = TaskMoved(@, @.state)]
          /\ task[n].state # "none" /\ wo[n].state # "none"
          /\ \/ UNCHANGED wo
             \/ wo[n].state = "draft" /\ wo' = [wo EXCEPT ![n] = WoMoved(@, "ready")]
      BY <1>2, TouchEffect
    <3>2. task'[n].state = task[n].state /\ task'[n].version = task[n].version + 1
      BY <1>0, <3>1 DEF TaskMoved
    <3>3. CASE UNCHANGED wo
      BY <1>0, <2>2, <3>1, <3>2, <3>3 DEF Kept, RowInv, TaskGrows, WoGrows
    <3>4. CASE wo[n].state = "draft" /\ wo' = [wo EXCEPT ![n] = WoMoved(@, "ready")]
      <4>1. /\ wo'[n].state = "ready" /\ wo'[n].version = wo[n].version + 1
            /\ wo'[n].assignee = wo[n].assignee
        BY <1>0, <3>4 DEF WoMoved
      <4>2. QED
        <5>1. Aggregate({wo[n].state}) = "pending"
          BY <3>4, AggregateOfOne
        <5>2. Aggregate({wo'[n].state}) = "pending"
          BY <4>1, AggregateOfOne
        <5>3. QED
          BY <1>0, <2>2, <3>1, <3>2, <3>4, <4>1, <5>1, <5>2
          DEF Kept, RowInv, TaskGrows, WoGrows
    <3>5. QED
      BY <3>1, <3>3, <3>4
  <2>3. QED
    BY <2>1, <2>2
<1>3. ASSUME NEW n, NEW c, Finishes(n, c) PROVE Kept(m)
  <2>1. CASE m # n
    BY <1>0, <1>3, <2>1, RowUnchanged DEF Finishes
  <2>2. CASE m = n
    <3>1. /\ wo[n].state \in {"ready", "in_progress"}
          /\ wo'[n].state = "completed" /\ wo'[n].version = wo[n].version + 1
          /\ wo'[n].assignee = wo[n].assignee
          /\ task'[n].state = "completed" /\ task'[n].version = task[n].version + 1
      BY <1>0, <1>3 DEF Finishes, WoMoved, TaskMoved
    <3>2. QED
      BY <2>2, <3>1, AggregateOfOne DEF Kept, RowInv, TaskGrows, WoGrows
  <2>3. QED
    BY <2>1, <2>2
<1>4. ASSUME NEW u \in User, Claims(u) PROVE Kept(m)
  <2> DEFINE n == request[u].node
  <2>1. CASE m # n
    BY <1>0, <1>4, <2>1, RowUnchanged DEF Claims
  <2>2. CASE m = n
    <3>1. /\ wo[n].state = "ready" /\ wo[n].assignee = None
          /\ wo'[n].state = "in_progress" /\ wo'[n].version = wo[n].version + 1
          /\ wo'[n].assignee # None
          /\ task'[n].state = "in_progress" /\ task'[n].version = task[n].version + 1
      BY <1>0, <1>4 DEF Claims, TaskMoved
    <3>2. QED
      BY <2>2, <3>1, AggregateOfOne DEF Kept, RowInv, TaskGrows, WoGrows
  <2>3. QED
    BY <2>1, <2>2
<1>5. ASSUME task' = task, wo' = wo PROVE Kept(m)
  BY <1>0, <1>5, RowUnchanged
<1>6. ASSUME NEW w \in Worker, CommitFact(w) PROVE Kept(m)
  <2>1. CASE Decision(w) = "applied"
    BY <1>3, <1>6, <2>1, FactEffect
  <2>2. CASE Decision(w) # "applied"
    <3>1. UNCHANGED <<wo, task, outcomes>>
      BY <1>6, <2>2, FactEffect
    <3>2. QED
      BY <1>5, <3>1
  <2>3. QED
    BY <2>1, <2>2
<1>7. ASSUME NEW u \in User, CommitClaim(u) \/ CommitCompletion(u) PROVE Kept(m)
  BY <1>3, <1>4, <1>7, ClaimEffect, CompletionEffect
<1>8. CASE RowChange
  BY <1>1, <1>2, <1>6, <1>7, <1>8 DEF RowChange
<1>9. QED
  BY <1>5, <1>8, OtherSteps

-----------------------------------------------------------------------------
(* What was read stays worth what it is worth.                             *)

Grows == \A n \in Node : TaskGrows(n) /\ WoGrows(n)

LEMMA ReadKept ==
  ASSUME Inv, Grows, NEW n \in Node
  PROVE  /\ \A seen \in TaskRow : TaskRead(seen, task[n]) => TaskRead(seen, task'[n])
         /\ \A seen \in WoRow : WoRead(seen, wo[n]) => WoRead(seen, wo'[n])
<1>1. task[n] \in TaskRow /\ wo[n] \in WoRow
  BY DEF Inv, Types, TypeOK
<1>2. task[n].version \in Nat /\ wo[n].version \in Nat
  BY <1>1 DEF TaskRow, WoRow
<1>3. ASSUME NEW seen \in TaskRow, TaskRead(seen, task[n])
      PROVE  TaskRead(seen, task'[n])
  <2>1. seen.version \in Nat
    BY DEF TaskRow
  <2>2. QED
    BY <1>2, <1>3, <2>1 DEF TaskRead, Grows, TaskGrows
<1>4. ASSUME NEW seen \in WoRow, WoRead(seen, wo[n])
      PROVE  WoRead(seen, wo'[n])
  <2>1. seen.version \in Nat
    BY DEF WoRow
  <2>2. QED
    BY <1>2, <1>4, <2>1 DEF WoRead, Grows, WoGrows
<1>5. QED
  BY <1>3, <1>4

\* What was just read is worth everything.
LEMMA ReadNow ==
  ASSUME Inv, NEW n \in Node, task[n].state # "none"
  PROVE  /\ TaskRead(task[n], task[n])
         /\ WoRead(wo[n], wo[n])
         /\ Behind(task[n].state, wo[n].state)
<1>1. task[n].version \in Nat /\ wo[n].version \in Nat
  BY DEF Inv, Types, TypeOK, TaskRow, WoRow
<1>2. QED
  BY <1>1, TaskStates DEF Inv, RowsInv, TaskRead, WoRead, Behind

\* A process whose own memory does not change keeps its reads.
LEMMA UserReadsKept ==
  ASSUME Inv, Grows, NEW u \in User, pc'[u] = pc[u], request'[u] = request[u],
         seenWo'[u] = seenWo[u], seenTask'[u] = seenTask[u]
  PROVE  UserReads(u)'
<1>1. CASE pc[u] = "idle"
  BY <1>1 DEF UserReads
<1>2. CASE pc[u] # "idle"
  <2>1. request[u].node \in Node
    BY <1>2 DEF Inv, Types, Busy, Request
  <2>2. seenTask[u] \in TaskRow /\ seenWo[u] \in WoRow
    BY DEF Inv, Types, TypeOK
  <2>3. UserReads(u)
    BY DEF Inv, ReadsInv
  <2>4. QED
    BY <2>1, <2>2, <2>3, ReadKept DEF UserReads, Grows, TaskGrows
<1>3. QED
  BY <1>1, <1>2

LEMMA WorkerReadsKept ==
  ASSUME Inv, Grows, NEW w \in Worker, pc'[w] = pc[w], message'[w] = message[w],
         seenWo'[w] = seenWo[w], seenTask'[w] = seenTask[w]
  PROVE  WorkerReads(w)'
<1> DEFINE n == message[w].node
<1>1. CASE pc[w] = "idle"
  BY <1>1 DEF WorkerReads
<1>2. CASE pc[w] # "idle"
  <2>1. n \in Node
    BY <1>2 DEF Inv, Types, Busy, Message
  <2>2. seenTask[w] \in TaskRow /\ seenWo[w] \in WoRow
    BY DEF Inv, Types, TypeOK
  <2>3. WorkerReads(w)
    BY DEF Inv, ReadsInv
  <2>4. Behind(seenTask[w].state, wo[n].state) /\ task[n].state # "none" =>
          Behind(seenTask[w].state, wo'[n].state)
    <3>1. wo[n].state # "none" <=> task[n].state # "none"
      BY <2>1, TaskStates DEF Inv
    <3>2. QED
      BY <2>1, <3>1 DEF Behind, Grows, WoGrows
  <2>5. pc[w] \in {"wo", "commit"} => TaskRead(seenTask[w], task[n])
                                      /\ TaskRead(seenTask[w], task'[n])
    BY <2>1, <2>2, <2>3, ReadKept DEF WorkerReads
  <2>6. pc[w] = "commit" => WoRead(seenWo[w], wo'[n])
    BY <2>1, <2>2, <2>3, ReadKept DEF WorkerReads
  <2>7. QED
    BY <2>3, <2>4, <2>5, <2>6 DEF WorkerReads, TaskRead
<1>3. QED
  BY <1>1, <1>2

\* A step of a request touches no other request and no delivery.
Local(p) ==
  /\ \A q \in Proc \ {p} : /\ pc'[q] = pc[q]
                           /\ seenWo'[q] = seenWo[q]
                           /\ seenTask'[q] = seenTask[q]
  /\ \A u \in User \ {p} : request'[u] = request[u]
  /\ \A w \in Worker \ {p} : message'[w] = message[w]

LEMMA OthersKept ==
  ASSUME Inv, Grows, NEW p \in Proc, Local(p)
  PROVE  /\ \A u \in User \ {p} : UserReads(u)'
         /\ \A w \in Worker \ {p} : WorkerReads(w)'
BY UserReadsKept, WorkerReadsKept DEF Local

LEMMA AckLocal ==
  ASSUME Types, NEW u \in User, MayLoseAck(u), UNCHANGED message
  PROVE  Local(u) /\ pc'[u] \in {"idle", "internal"}
BY DEF MayLoseAck, Leave, Goto, Local, Types, TypeOK

LEMMA RequestReads ==
  ASSUME Inv, Grows, NEW u \in User,
         \/ \E r \in Command : StartRequest(u, r)
         \/ RequestStep(u) \/ DatabaseFails(u)
  PROVE  ReadsInv'
<1> USE DEF Inv, Types, TypeOK
<1>1. ASSUME Local(u), UserReads(u)' PROVE ReadsInv'
  BY <1>1, OthersKept DEF ReadsInv
<1>2. ASSUME Local(u), pc'[u] \in {"idle", "recheck", "refused", "internal"}
      PROVE  ReadsInv'
  BY <1>1, <1>2 DEF UserReads
<1>3. ASSUME NEW r \in Command, StartRequest(u, r) PROVE ReadsInv'
  <2>1. Local(u) /\ pc'[u] = "wo" /\ request'[u] = r /\ task' = task
        /\ task[r.node].state # "none"
    BY <1>3 DEF StartRequest, Local, tables
  <2>2. QED
    BY <1>1, <2>1 DEF UserReads
<1>4. CASE ReadWorkOrder(u)
  <2> DEFINE n == request[u].node
  <2>1. /\ Local(u) /\ pc[u] = "wo" /\ pc'[u] = "task"
        /\ seenWo'[u] = wo[n] /\ wo' = wo /\ request'[u] = request[u]
    BY <1>4 DEF ReadWorkOrder, Local, tables
  <2>2. n \in Node /\ task[n].state # "none"
    BY <2>1 DEF Busy, Request, ReadsInv, UserReads
  <2>3. QED
    BY <1>1, <2>1, <2>2, ReadNow DEF UserReads
<1>5. CASE ReadTask(u)
  <2> DEFINE n == request[u].node
  <2>1. /\ Local(u) /\ pc[u] = "task" /\ pc'[u] = "commit"
        /\ seenTask'[u] = task[n] /\ seenWo'[u] = seenWo[u]
        /\ wo' = wo /\ task' = task /\ request'[u] = request[u]
    BY <1>5 DEF ReadTask, Local, tables
  <2>2. n \in Node /\ WoRead(seenWo[u], wo[n])
    BY <2>1 DEF Busy, Request, ReadsInv, UserReads
  <2>3. task[n].state # "none"
    BY <2>2, TaskStates DEF WoRead
  <2>4. QED
    BY <1>1, <2>1, <2>2, <2>3, ReadNow DEF UserReads
<1>6. CASE CommitClaim(u) \/ CommitCompletion(u)
  BY <1>2, <1>6, AckLocal DEF CommitClaim, CommitCompletion
<1>7. CASE ClaimDone(u) \/ ClaimRecheckDone(u) \/ CompletionDone(u)
  BY <1>2, <1>7, AckLocal DEF ClaimDone, ClaimRecheckDone, CompletionDone,
     CommitNothing
<1>8. CASE \/ ClaimConflict(u) \/ ClaimRefused(u) \/ CompletionRefused(u)
           \/ KeyTaken(u) \/ DatabaseFails(u)
  <2>1. /\ Goto(u, "recheck") \/ Goto(u, "refused") \/ Goto(u, "internal")
        /\ UNCHANGED <<request, message>>
    BY <1>8 DEF ClaimConflict, ClaimRefused, CompletionRefused, KeyTaken,
       DatabaseFails
  <2>2. QED
    BY <1>2, <2>1 DEF Goto, Local
<1>9. CASE CompletionConflict(u)
  <2>1. CASE Leave(u) /\ request' = [request EXCEPT ![u] = None]
    BY <1>2, <1>9, <2>1 DEF CompletionConflict, Leave, Local
  <2>2. CASE /\ tries' = [tries EXCEPT ![u] = @ + 1]
             /\ pc' = [pc EXCEPT ![u] = "wo"]
             /\ UNCHANGED <<seenTask, seenWo, request>>
    <3>1. /\ Local(u) /\ pc'[u] = "wo" /\ task' = task
          /\ request'[u] = request[u] /\ pc[u] = "commit"
      BY <1>9, <2>2 DEF CompletionConflict, CompletionIntended, Local, tables
    <3>2. task[request[u].node].state # "none"
      BY <3>1 DEF ReadsInv, UserReads, TaskRead
    <3>3. QED
      BY <1>1, <3>1, <3>2 DEF UserReads
  <2>3. QED
    BY <1>9, <2>1, <2>2 DEF CompletionConflict
<1>10. CASE RecordRejection(u)
  BY <1>2, <1>10 DEF RecordRejection, Leave, Local
<1>11. QED
  BY <1>3, <1>4, <1>5, <1>6, <1>7, <1>8, <1>9, <1>10 DEF RequestStep

LEMMA EndLocal ==
  ASSUME Types, NEW w \in Worker, NEW a, EndDelivery(w, a), UNCHANGED request
  PROVE  Local(w) /\ pc'[w] = "idle"
BY DEF EndDelivery, Leave, Local, Types, TypeOK

LEMMA DeliveryReads ==
  ASSUME Inv, Grows, NEW w \in Worker,
         \/ \E m \in Message : StartDelivery(w, m)
         \/ DeliveryStep(w) \/ DeliveryFails(w)
  PROVE  ReadsInv'
<1> DEFINE n == message[w].node
<1> USE DEF Inv, Types, TypeOK
<1>1. ASSUME Local(w), WorkerReads(w)' PROVE ReadsInv'
  BY <1>1, OthersKept DEF ReadsInv
<1>2. ASSUME Local(w), pc'[w] \in {"idle", "task"} PROVE ReadsInv'
  BY <1>1, <1>2 DEF WorkerReads
<1>3. ASSUME NEW m \in Message, StartDelivery(w, m) PROVE ReadsInv'
  BY <1>2, <1>3 DEF StartDelivery, Local
<1>4. CASE ReadFactTask(w)
  <2>1. CASE EndDelivery(w, "error")
    BY <1>2, <1>4, <2>1, EndLocal DEF ReadFactTask
  <2>2. CASE /\ task[n].state # "none"
             /\ pc' = [pc EXCEPT ![w] = "wo"]
             /\ seenTask' = [seenTask EXCEPT ![w] = task[n]]
             /\ UNCHANGED <<seenWo, tries, message, answer>>
    <3>1. /\ Local(w) /\ pc'[w] = "wo" /\ seenTask'[w] = task[n]
          /\ task' = task /\ wo' = wo /\ message'[w] = message[w]
          /\ pc[w] = "task"
      BY <1>4, <2>2 DEF ReadFactTask, Local, tables
    <3>2. n \in Node
      BY <3>1 DEF Busy, Message
    <3>3. QED
      BY <1>1, <2>2, <3>1, <3>2, ReadNow DEF WorkerReads
  <2>3. QED
    BY <1>4, <2>1, <2>2 DEF ReadFactTask
<1>5. CASE ReadFactWorkOrder(w)
  <2>1. /\ Local(w) /\ pc[w] = "wo" /\ pc'[w] = "commit" /\ seenWo'[w] = wo[n]
        /\ task' = task /\ wo' = wo /\ message'[w] = message[w]
        /\ seenTask'[w] = seenTask[w]
    BY <1>5 DEF ReadFactWorkOrder, Local, tables
  <2>2. n \in Node /\ TaskRead(seenTask[w], task[n])
        /\ Behind(seenTask[w].state, wo[n].state)
    BY <2>1 DEF Busy, Message, ReadsInv, WorkerReads
  <2>3. task[n].state # "none"
    BY <2>2 DEF TaskRead
  <2>4. QED
    BY <1>1, <2>1, <2>2, <2>3, ReadNow DEF WorkerReads
<1>6. CASE ReplayDecision(w)
  BY <1>2, <1>6, EndLocal DEF ReplayDecision
<1>7. CASE CommitFact(w)
  BY <1>2, <1>7, EndLocal DEF CommitFact
<1>8. CASE FactConflict(w)
  <2>1. CASE EndDelivery(w, "error")
    BY <1>2, <1>8, <2>1, EndLocal DEF FactConflict
  <2>2. CASE /\ pc' = [pc EXCEPT ![w] = "task"]
             /\ UNCHANGED <<seenTask, seenWo, message, answer>>
    BY <1>2, <1>8, <2>2 DEF FactConflict, Local
  <2>3. QED
    BY <1>8, <2>1, <2>2 DEF FactConflict
<1>9. CASE DeliveryFails(w)
  BY <1>2, <1>9, EndLocal DEF DeliveryFails
<1>10. QED
  BY <1>3, <1>4, <1>5, <1>6, <1>7, <1>8, <1>9 DEF DeliveryStep

LEMMA InvInit == Init => Inv
<1> SUFFICES ASSUME Init PROVE Inv
  OBVIOUS
<1>1. RowsInv
  BY DEF Init, RowsInv, TaskFollowsWorkOrder, NoTask, NoWo
<1>2. ReadsInv
  BY DEF Init, ReadsInv, UserReads, WorkerReads
<1>3. QED
  BY <1>1, <1>2, TypesInit DEF Inv

LEMMA InvStep == Inv /\ [Next]_vars => Inv'
<1> SUFFICES ASSUME Inv, [Next]_vars PROVE Inv'
  OBVIOUS
<1>1. Types'
  BY TypesStep DEF Inv
<1>2. RowsInv' /\ Grows
  BY RowsStep DEF Grows
<1>3. ReadsInv'
  <2>1. ASSUME UNCHANGED <<pc, seenWo, seenTask, request, message>> PROVE ReadsInv'
    BY <1>2, <2>1, UserReadsKept, WorkerReadsKept DEF ReadsInv
  <2>2. CASE UNCHANGED vars
    BY <2>1, <2>2 DEF vars, progress
  <2>3. ASSUME NEW n \in Node, NEW ready \in BOOLEAN,
               CreateTask(n, ready) \/ TouchTask(n, ready)
        PROVE  ReadsInv'
    BY <2>1, <2>3 DEF CreateTask, TouchTask, progress
  <2>4. QED
    BY <1>2, <2>2, <2>3, RequestReads, DeliveryReads DEF Next
<1>4. QED
  BY <1>1, <1>2, <1>3 DEF Inv

\* Rows, and what those in the middle of an operation know of them.
LEMMA Invariant == Spec => []Inv
  BY InvInit, InvStep, PTL DEF Spec

\* A task always shows the aggregate of its work order, although its state is
\* computed from reads that are older than the write, and a claim writes the
\* task without comparing versions.
THEOREM TasksFollow == Spec => []TaskFollowsWorkOrder
<1>1. Inv => TaskFollowsWorkOrder
  BY DEF Inv, RowsInv
<1>2. QED
  BY <1>1, Invariant, PTL

\* Work is never taken from the one who has it, and completed work never
\* changes, whatever outdated decisions are written late.
THEOREM WorkStaysFinal == Spec => WorkIsFinal
<1>1. Inv /\ [Next]_vars =>
        [\A n \in Node :
           /\ wo[n].assignee # None => wo'[n].assignee = wo[n].assignee
           /\ wo[n].state = "completed" => wo'[n] = wo[n]]_vars
  <2> SUFFICES ASSUME Inv, [Next]_vars, NEW n \in Node
               PROVE  /\ wo[n].assignee # None => wo'[n].assignee = wo[n].assignee
                      /\ wo[n].state = "completed" => wo'[n] = wo[n]
    OBVIOUS
  <2>1. WoGrows(n)
    BY RowsStep
  <2>2. wo[n].state = "none" => wo[n].assignee = None
    BY DEF Inv, RowsInv
  <2>3. QED
    BY <2>1, <2>2 DEF WoGrows
<1>2. QED
  BY <1>1, Invariant, PTL DEF Spec, WorkIsFinal

-----------------------------------------------------------------------------
(* Receipts.                                                               *)

\* The steps that give a receipt, with what they say.
Receipts(u) ==
  LET r == request[u]
  IN  /\ r \in Request
      /\ KeyFree(r)
      /\ \E v \in {"committed", "rejected"}, b \in BOOLEAN,
            t \in {"none", "refused", "internal"} :
           /\ Insert(r, v, b, t)
           /\ v = "committed" /\ r.act = "claim" => wo'[r.node].assignee = r.actor
           /\ v = "committed" /\ r.act = "complete" => wo'[r.node].state = "completed"
           /\ r.act = "complete" /\ b => CommitCompletion(u)

LEMMA NothingReceipt ==
  ASSUME Inv, NEW u \in User,
         ClaimDone(u) \/ ClaimRecheckDone(u) \/ CompletionDone(u)
  PROVE  Receipts(u)
<1> DEFINE r == request[u]
           n == r.node
<1>1. /\ pc[u] \in {"commit", "recheck"} /\ CommitNothing(u) /\ wo' = wo
  BY DEF ClaimDone, ClaimRecheckDone, CompletionDone, CommitNothing
<1>2. r \in Request /\ n \in Node /\ r.actor \in Actor
  BY <1>1 DEF Inv, Types, Busy, Request
<1>3. pc[u] = "commit" => WoRead(seenWo[u], wo[n])
  BY DEF Inv, ReadsInv, UserReads
<1>4. r.act = "claim" => wo[n].assignee = r.actor
  BY <1>1, <1>2, <1>3 DEF ClaimDone, ClaimRecheckDone, CompletionDone, AlreadyMine,
     WoRead
<1>5. r.act = "complete" => wo[n].state = "completed"
  <2>1. r.act = "complete" => CompletionDone(u)
    BY DEF ClaimDone, ClaimRecheckDone, Inv, Types, Busy
  <2>2. QED
    BY <1>3, <2>1 DEF CompletionDone, WoRead
<1>6. KeyFree(r) /\ Insert(r, "committed", FALSE, "none")
  BY <1>1 DEF CommitNothing
<1>7. QED
  BY <1>1, <1>2, <1>4, <1>5, <1>6 DEF Receipts

LEMMA WriteReceipt ==
  ASSUME Inv, NEW u \in User, CommitClaim(u) \/ CommitCompletion(u)
  PROVE  Receipts(u)
<1> DEFINE r == request[u]
           n == r.node
<1>1. r \in Request /\ n \in Node
  BY DEF CommitClaim, ClaimIntended, CommitCompletion, CompletionIntended, Inv,
     Types, Busy, Request
<1>2. KeyFree(r) /\ Insert(r, "committed", TRUE, "none")
  BY DEF CommitClaim, CommitCompletion
<1>3. CASE CommitClaim(u)
  <2>1. r.act = "claim" /\ wo'[n].assignee = r.actor
    BY <1>1, <1>3, ClaimEffect DEF CommitClaim, ClaimIntended, Claims, Inv,
       Types, TypeOK
  <2>2. QED
    BY <1>1, <1>2, <2>1 DEF Receipts
<1>4. CASE CommitCompletion(u)
  <2>1. r.act = "complete" /\ wo'[n].state = "completed"
    BY <1>1, <1>4, CompletionEffect DEF CommitCompletion, CompletionIntended,
       Finishes, WoMoved, Inv, Types, TypeOK
  <2>2. QED
    BY <1>1, <1>2, <1>4, <2>1 DEF Receipts
<1>5. QED
  BY <1>3, <1>4

LEMMA RejectionReceipt ==
  ASSUME Inv, NEW u \in User, RecordRejection(u)
  PROVE  Receipts(u) \/ UNCHANGED receipts
<1>1. request[u] \in Request /\ pc[u] \in {"refused", "internal"}
  BY DEF RecordRejection, Inv, Types, Busy
<1>2. CASE KeyFree(request[u])
  BY <1>1, <1>2 DEF RecordRejection, Receipts
<1>3. CASE ~KeyFree(request[u])
  BY <1>3 DEF RecordRejection
<1>4. QED
  BY <1>2, <1>3

\* A step that changes the receipts is one of these.
LEMMA ReceiptSteps ==
  ASSUME Inv, [Next]_vars
  PROVE  UNCHANGED receipts \/ \E u \in User : Receipts(u)
<1>1. CASE UNCHANGED vars
  BY <1>1 DEF vars, tables
<1>2. ASSUME NEW u \in User,
             \/ \E r \in Command : StartRequest(u, r)
             \/ RequestStep(u) \/ DatabaseFails(u)
      PROVE  UNCHANGED receipts \/ Receipts(u)
  <2>1. CASE ClaimDone(u) \/ ClaimRecheckDone(u) \/ CompletionDone(u)
    BY <2>1, NothingReceipt
  <2>2. CASE CommitClaim(u) \/ CommitCompletion(u)
    BY <2>2, WriteReceipt
  <2>3. CASE RecordRejection(u)
    BY <2>3, RejectionReceipt
  <2>4. CASE \/ \E r \in Command : StartRequest(u, r)
             \/ ReadWorkOrder(u) \/ ReadTask(u) \/ ClaimConflict(u)
             \/ ClaimRefused(u) \/ CompletionConflict(u)
             \/ CompletionRefused(u) \/ KeyTaken(u) \/ DatabaseFails(u)
    BY <2>4 DEF StartRequest, ReadWorkOrder, ReadTask, ClaimConflict,
       ClaimRefused, CompletionConflict, CompletionRefused, KeyTaken,
       DatabaseFails, tables
  <2>5. QED
    BY <1>2, <2>1, <2>2, <2>3, <2>4 DEF RequestStep
<1>3. ASSUME NEW w \in Worker,
             \/ \E m \in Message : StartDelivery(w, m)
             \/ DeliveryStep(w) \/ DeliveryFails(w)
      PROVE  UNCHANGED receipts
  BY <1>3 DEF StartDelivery, DeliveryStep, ReadFactTask, ReadFactWorkOrder,
     ReplayDecision, CommitFact, FactConflict, DeliveryFails, tables
<1>4. ASSUME NEW n \in Node, NEW ready \in BOOLEAN,
             CreateTask(n, ready) \/ TouchTask(n, ready)
      PROVE  UNCHANGED receipts
  BY <1>4 DEF CreateTask, TouchTask
<1>5. QED
  BY <1>1, <1>2, <1>3, <1>4 DEF Next

\* What a receipt says stays true while rows grow.
LEMMA ReceiptLasts ==
  ASSUME Inv, Grows, ReceiptsAreTrue, NEW rc \in receipts
  PROVE  LET r == rc.req
         IN  /\ rc.verdict = "committed" /\ r.act = "claim" =>
                  wo'[r.node].assignee = r.actor
             /\ rc.verdict = "committed" /\ r.act = "complete" =>
                  wo'[r.node].state = "completed"
<1> DEFINE r == rc.req
<1>1. r.node \in Node /\ r.actor \in Actor
  BY DEF Inv, Types, TypeOK, Receipt, Request
<1>2. WoGrows(r.node) /\ r.actor # None
  BY <1>1 DEF Grows
<1>3. /\ rc.verdict = "committed" /\ r.act = "claim" => wo[r.node].assignee = r.actor
      /\ rc.verdict = "committed" /\ r.act = "complete" => wo[r.node].state = "completed"
  BY DEF ReceiptsAreTrue
<1>4. wo[r.node].state = "none" => wo[r.node].assignee = None
  BY <1>1 DEF Inv, RowsInv
<1>5. QED
  BY <1>2, <1>3, <1>4 DEF WoGrows

LEMMA ReceiptsStep ==
  ASSUME Inv, ReceiptsAreTrue, [Next]_vars
  PROVE  ReceiptsAreTrue'
<1>1. Grows
  BY RowsStep DEF Grows
<1>2. CASE UNCHANGED receipts
  BY <1>1, <1>2, ReceiptLasts DEF ReceiptsAreTrue
<1>3. ASSUME NEW u \in User, Receipts(u) PROVE ReceiptsAreTrue'
  <2> DEFINE r == request[u]
  <2>1. PICK v \in {"committed", "rejected"}, b \in BOOLEAN,
             t \in {"none", "refused", "internal"} :
          /\ Insert(r, v, b, t)
          /\ v = "committed" /\ r.act = "claim" => wo'[r.node].assignee = r.actor
          /\ v = "committed" /\ r.act = "complete" => wo'[r.node].state = "completed"
    BY <1>3 DEF Receipts
  <2> DEFINE new == [req |-> r, verdict |-> v, applied |-> b, reason |-> t]
  <2>2. receipts' = receipts \cup {new} /\ new.req = r /\ new.verdict = v
    BY <2>1 DEF Insert
  <2> HIDE DEF new
  <2>3. \A rc \in receipts : ~(/\ rc.req.actor = r.actor /\ rc.req.act = r.act
                               /\ rc.req.key = r.key)
    BY <1>3 DEF Receipts, KeyFree
  <2>4. ASSUME NEW rc \in receipts'
        PROVE  /\ rc.verdict = "committed" /\ rc.req.act = "claim" =>
                    wo'[rc.req.node].assignee = rc.req.actor
               /\ rc.verdict = "committed" /\ rc.req.act = "complete" =>
                    wo'[rc.req.node].state = "completed"
    BY <1>1, <2>1, <2>2, ReceiptLasts
  <2>5. ASSUME NEW rc \in receipts', NEW other \in receipts',
               /\ other.req.actor = rc.req.actor /\ other.req.act = rc.req.act
               /\ other.req.key = rc.req.key
        PROVE  other = rc
    BY <2>2, <2>3, <2>5 DEF ReceiptsAreTrue
  <2>6. QED
    BY <2>4, <2>5 DEF ReceiptsAreTrue
<1>4. QED
  BY <1>2, <1>3, ReceiptSteps

\* A receipt never lies: work that was claimed is the claimant's, work that was
\* completed is completed, and no key has two receipts; through conflicts,
\* retries, lost acknowledgements and requests with one key.
THEOREM ReceiptsStayTrue == Spec => []ReceiptsAreTrue
<1>1. Init => ReceiptsAreTrue
  BY DEF Init, ReceiptsAreTrue
<1>2. QED
  BY <1>1, ReceiptsStep, Invariant, PTL DEF Spec

-----------------------------------------------------------------------------
(* Outcomes.                                                               *)

\* The two kinds of causes an outcome may have.
AppliedFact(n, f) == [node |-> n, fact |-> f, decision |-> "applied"] \in applications
AppliedWork(n) ==
  \E rc \in receipts : rc.req.act = "complete" /\ rc.req.node = n /\ rc.applied
Completed(n) == wo[n].state = "completed"
HasOutcome(n) == \E o \in outcomes : o.node = n
Caused(n, c) == [node |-> n, cause |-> c] \in outcomes

LEMMA OutcomesByParts ==
  OutcomeExplained <=>
    /\ \A n \in Node : Completed(n) <=> HasOutcome(n)
    /\ \A o1, o2 \in outcomes : o1.node = o2.node => o1 = o2
    /\ \A n \in Node, f \in Fact : Caused(n, f) <=> AppliedFact(n, f)
    /\ \A n \in Node : Caused(n, Work) <=> AppliedWork(n)
BY DEF OutcomeExplained, Completed, HasOutcome, Caused, AppliedFact, AppliedWork

LEMMA OutcomesByPartsNext ==
  OutcomeExplained' <=>
    /\ \A n \in Node : Completed(n)' <=> HasOutcome(n)'
    /\ \A o1, o2 \in outcomes' : o1.node = o2.node => o1 = o2
    /\ \A n \in Node, f \in Fact : Caused(n, f)' <=> AppliedFact(n, f)'
    /\ \A n \in Node : Caused(n, Work)' <=> AppliedWork(n)'
BY DEF OutcomeExplained, Completed, HasOutcome, Caused, AppliedFact, AppliedWork

\* A step that completes nothing.
LEMMA NoOutcome ==
  ASSUME OutcomeExplained, UNCHANGED outcomes,
         \A n \in Node : Completed(n)' <=> Completed(n),
         \A n \in Node, f \in Fact : AppliedFact(n, f)' <=> AppliedFact(n, f),
         \A n \in Node : AppliedWork(n)' <=> AppliedWork(n)
  PROVE  OutcomeExplained'
<1>1. /\ \A n \in Node : HasOutcome(n)' <=> HasOutcome(n)
      /\ \A n, c : Caused(n, c)' <=> Caused(n, c)
  BY DEF HasOutcome, Caused
<1>2. QED
  BY <1>1, OutcomesByParts, OutcomesByPartsNext, Zenon

\* A step that completes one work order, for a cause it records.
LEMMA OneOutcome ==
  ASSUME Inv, OutcomeExplained, NEW n \in Node, NEW c \in Fact \cup {Work},
         Finishes(n, c),
         \A m \in Node, f \in Fact :
           AppliedFact(m, f)' <=> AppliedFact(m, f) \/ (m = n /\ f = c),
         \A m \in Node : AppliedWork(m)' <=> AppliedWork(m) \/ (m = n /\ c = Work)
  PROVE  OutcomeExplained'
<1>1. /\ ~Completed(n)
      /\ \A m \in Node : Completed(m)' <=> Completed(m) \/ m = n
  BY DEF Finishes, Completed, WoMoved, Inv, Types, TypeOK
<1>2. ~HasOutcome(n)
  BY <1>1, OutcomesByParts
<1>3. \A m \in Node : HasOutcome(m)' <=> HasOutcome(m) \/ m = n
  <2> DEFINE new == [node |-> n, cause |-> c]
  <2>1. outcomes' = outcomes \cup {new} /\ new.node = n
    BY DEF Finishes
  <2> HIDE DEF new
  <2>2. QED
    BY <2>1 DEF HasOutcome
<1>4. \A m \in Node, d \in Fact \cup {Work} :
        Caused(m, d)' <=> Caused(m, d) \/ (m = n /\ d = c)
  BY DEF Caused, Finishes
<1>5. \A o1, o2 \in outcomes' : o1.node = o2.node => o1 = o2
  <2>1. \A o \in outcomes : o.node # n
    BY <1>2 DEF HasOutcome
  <2>2. \A o1, o2 \in outcomes : o1.node = o2.node => o1 = o2
    BY OutcomesByParts
  <2>3. QED
    BY <2>1, <2>2 DEF Finishes
<1>6. \A m \in Node : Completed(m)' <=> HasOutcome(m)'
  BY <1>1, <1>3, OutcomesByParts
<1>7. \A m \in Node, f \in Fact : Caused(m, f)' <=> AppliedFact(m, f)'
  BY <1>4, OutcomesByParts
<1>8. \A m \in Node : Caused(m, Work)' <=> AppliedWork(m)'
  BY <1>4, OutcomesByParts
<1>9. QED
  BY <1>5, <1>6, <1>7, <1>8, OutcomesByPartsNext

\* A receipt of a request that completed nothing.
LEMMA NoWorkApplied ==
  ASSUME Inv, NEW u \in User, Receipts(u), ~CommitCompletion(u)
  PROVE  \A n \in Node : AppliedWork(n)' <=> AppliedWork(n)
<1> DEFINE r == request[u]
<1>1. PICK v \in {"committed", "rejected"}, b \in BOOLEAN,
           t \in {"none", "refused", "internal"} :
        Insert(r, v, b, t) /\ (r.act = "complete" /\ b => CommitCompletion(u))
  BY DEF Receipts
<1> DEFINE new == [req |-> r, verdict |-> v, applied |-> b, reason |-> t]
<1>2. receipts' = receipts \cup {new} /\ ~(new.req.act = "complete" /\ new.applied)
  BY <1>1 DEF Insert
<1> HIDE DEF new
<1>3. QED
  BY <1>2 DEF AppliedWork

\* The receipt of an applied completion.
LEMMA WorkApplied ==
  ASSUME Inv, NEW u \in User, CommitCompletion(u)
  PROVE  \A n \in Node :
           AppliedWork(n)' <=> AppliedWork(n) \/ n = request[u].node
<1> DEFINE r == request[u]
           new == [req |-> r, verdict |-> "committed", applied |-> TRUE,
                   reason |-> "none"]
<1>1. /\ receipts' = receipts \cup {new}
      /\ new.req.act = "complete" /\ new.req.node = r.node /\ new.applied
  BY DEF CommitCompletion, CompletionIntended, Insert
<1> HIDE DEF new
<1>2. QED
  BY <1>1 DEF AppliedWork

LEMMA OutcomesStep ==
  ASSUME Inv, OutcomeExplained, [Next]_vars
  PROVE  OutcomeExplained'
<1> USE DEF Inv, Types, TypeOK
<1>1. ASSUME NEW u \in User, CommitCompletion(u) PROVE OutcomeExplained'
  <2> DEFINE n == request[u].node
  <2>1. Finishes(n, Work) /\ UNCHANGED applications
    BY <1>1, CompletionEffect
  <2>2. n \in Node
    BY <2>1 DEF Finishes
  <2>3. \A m \in Node, f \in Fact : AppliedFact(m, f)' <=> AppliedFact(m, f)
    BY <2>1 DEF AppliedFact
  <2>4. \A f \in Fact : f # Work
    OBVIOUS
  <2>5. QED
    BY <1>1, <2>1, <2>2, <2>3, <2>4, WorkApplied, OneOutcome
<1>2. ASSUME NEW w \in Worker, CommitFact(w) PROVE OutcomeExplained'
  <2> DEFINE n == message[w].node
             f == message[w].fact
             new == [node |-> n, fact |-> f, decision |-> Decision(w)]
  <2>1. applications' = applications \cup {new} /\ UNCHANGED receipts
    BY <1>2 DEF CommitFact, Apply
  <2>2. n \in Node /\ f \in Fact /\ f # Work
    BY <1>2 DEF CommitFact, FactIntended, Busy, Message
  <2>3. \A m \in Node : AppliedWork(m)' <=> AppliedWork(m)
    BY <2>1 DEF AppliedWork
  <2>4. CASE Decision(w) = "applied"
    <3>1. \A m \in Node, g \in Fact :
            AppliedFact(m, g)' <=> AppliedFact(m, g) \/ (m = n /\ g = f)
      BY <2>1, <2>4 DEF AppliedFact
    <3>2. Finishes(n, f)
      BY <1>2, <2>4, FactEffect
    <3>3. QED
      BY <2>2, <2>3, <3>1, <3>2, OneOutcome
  <2>5. CASE Decision(w) # "applied"
    <3>1. \A m \in Node, g \in Fact : AppliedFact(m, g)' <=> AppliedFact(m, g)
      BY <2>1, <2>5 DEF AppliedFact
    <3>2. UNCHANGED <<wo, task, outcomes>>
      BY <1>2, <2>5, FactEffect
    <3>3. \A m \in Node : Completed(m)' <=> Completed(m)
      BY <3>2 DEF Completed
    <3>4. QED
      BY <2>3, <3>1, <3>2, <3>3, NoOutcome
  <2>6. QED
    BY <2>4, <2>5
<1>3. ASSUME UNCHANGED <<outcomes, applications>>,
             \A n \in Node : Completed(n)' <=> Completed(n),
             \A u \in User : ~CommitCompletion(u)
      PROVE  OutcomeExplained'
  <2>1. \A n \in Node, f \in Fact : AppliedFact(n, f)' <=> AppliedFact(n, f)
    BY <1>3 DEF AppliedFact
  <2>2. \A n \in Node : AppliedWork(n)' <=> AppliedWork(n)
    <3>1. CASE UNCHANGED receipts
      BY <3>1 DEF AppliedWork
    <3>2. ASSUME NEW u \in User, Receipts(u)
          PROVE  \A n \in Node : AppliedWork(n)' <=> AppliedWork(n)
      BY <1>3, <3>2, NoWorkApplied
    <3>3. QED
      BY <3>1, <3>2, ReceiptSteps
  <2>3. QED
    BY <1>3, <2>1, <2>2, NoOutcome
<1>4. CASE \E u \in User : CommitCompletion(u)
  BY <1>1, <1>4
<1>5. CASE \A u \in User : ~CommitCompletion(u)
  <2>1. ASSUME NEW n \in Node, NEW ready \in BOOLEAN,
               CreateTask(n, ready) \/ TouchTask(n, ready)
        PROVE  OutcomeExplained'
    <3>1. UNCHANGED <<outcomes, applications>>
      BY <2>1 DEF CreateTask, TouchTask
    <3>2. \A m \in Node : Completed(m)' <=> Completed(m)
      <4>1. CASE CreateTask(n, ready)
        BY <4>1, CreateEffect DEF Completed
      <4>2. CASE TouchTask(n, ready)
        BY <4>2, TouchEffect DEF Completed, WoMoved
      <4>3. QED
        BY <2>1, <4>1, <4>2
    <3>3. QED
      BY <1>3, <1>5, <3>1, <3>2
  <2>2. ASSUME NEW u \in User, CommitClaim(u) PROVE OutcomeExplained'
    <3>1. Claims(u)
      BY <2>2, ClaimEffect
    <3>2. \A m \in Node : Completed(m)' <=> Completed(m)
      BY <3>1 DEF Claims, Completed
    <3>3. QED
      BY <1>3, <1>5, <3>1, <3>2 DEF Claims
  <2>3. CASE ~RowChange
    <3>1. UNCHANGED <<task, wo, outcomes, applications>>
      BY <2>3, OtherSteps
    <3>2. \A m \in Node : Completed(m)' <=> Completed(m)
      BY <3>1 DEF Completed
    <3>3. QED
      BY <1>3, <1>5, <3>1, <3>2
  <2>4. QED
    BY <1>2, <1>5, <2>1, <2>2, <2>3 DEF RowChange
<1>6. QED
  BY <1>4, <1>5

\* Every completed work order has one outcome with one cause that is on
\* record, and no cause is on record without its outcome; although people and
\* several facts race to complete it.
THEOREM OutcomesAreExplained == Spec => []OutcomeExplained
<1>1. Init => OutcomeExplained
  <2> SUFFICES ASSUME Init PROVE OutcomeExplained
    OBVIOUS
  <2>1. /\ \A n \in Node : ~Completed(n) /\ ~HasOutcome(n) /\ ~AppliedWork(n)
        /\ \A n \in Node : \A f : ~Caused(n, f) /\ ~AppliedFact(n, f)
        /\ outcomes = {}
    BY DEF Init, NoWo, Completed, HasOutcome, AppliedWork, Caused, AppliedFact
  <2>2. QED
    BY <2>1, OutcomesByParts
<1>2. QED
  BY <1>1, OutcomesStep, Invariant, PTL DEF Spec

-----------------------------------------------------------------------------
(* The ledger.                                                             *)

\* What the ledger sees of a node.
Item(n) ==
  CASE wo[n].state = "none"  -> "absent"
    [] wo[n].state = "draft" -> "waiting"
    [] wo[n].state = "ready" -> "open"
    [] wo[n].state = "in_progress" -> "taken"
    [] OTHER -> "done"
Causes(n) == {o.cause : o \in {x \in outcomes : x.node = n}}

Items   == [n \in Node |-> Item(n)]
Holders == [n \in Node |-> wo[n].assignee]
AllCauses == [n \in Node |-> Causes(n)]

\* The items by the state of the work order.
LEMMA ItemOf ==
  /\ \A n : wo[n].state = "none" => Item(n) = "absent"
  /\ \A n : wo[n].state = "draft" => Item(n) = "waiting"
  /\ \A n : wo[n].state = "ready" => Item(n) = "open"
  /\ \A n : wo[n].state = "in_progress" => Item(n) = "taken"
  /\ \A n : wo[n].state = "completed" => Item(n) = "done"
BY DEF Item

LEMMA ItemOfNext ==
  /\ \A n : wo'[n].state = "draft" => Item(n)' = "waiting"
  /\ \A n : wo'[n].state = "ready" => Item(n)' = "open"
  /\ \A n : wo'[n].state = "in_progress" => Item(n)' = "taken"
  /\ \A n : wo'[n].state = "completed" => Item(n)' = "done"
BY DEF Item

\* A step that changes the work order of one node at most changes what the
\* ledger sees of that node at most.
LEMMA SeenOfOne ==
  ASSUME NEW n \in Node, \A m \in Node \ {n} : wo'[m] = wo[m]
  PROVE  /\ Items' = [Items EXCEPT ![n] = Item(n)']
         /\ Holders' = [Holders EXCEPT ![n] = wo'[n].assignee]
<1>1. \A m \in Node \ {n} : Item(m)' = Item(m)
  BY DEF Item
<1>2. QED
  BY <1>1 DEF Items, Holders

LEMMA CausesSame ==
  ASSUME UNCHANGED outcomes
  PROVE  AllCauses' = AllCauses
<1>1. \A n \in Node : Causes(n)' = Causes(n)
  BY DEF Causes
<1>2. QED
  BY <1>1 DEF AllCauses

LEMMA SeenSame ==
  ASSUME UNCHANGED <<wo, outcomes>>
  PROVE  UNCHANGED <<Items, Holders, AllCauses>>
<1>1. \A n \in Node : Item(n)' = Item(n)
  BY DEF Item
<1>2. QED
  BY <1>1, CausesSame DEF Items, Holders

LEMMA LedgerInitMaps == Init => Ledger!LedgerInit
<1> SUFFICES ASSUME Init PROVE Ledger!LedgerInit
  OBVIOUS
<1>1. \A n \in Node : Item(n) = "absent" /\ wo[n].assignee = None /\ Causes(n) = {}
  BY ItemOf DEF Init, NoWo, Causes
<1>2. /\ Items = [n \in Node |-> "absent"]
      /\ Holders = [n \in Node |-> None]
      /\ AllCauses = [n \in Node |-> {}]
  BY <1>1 DEF Items, Holders, AllCauses
<1>3. QED
  BY <1>2 DEF Ledger!LedgerInit, Items, Holders, AllCauses, Item, Causes

\* Completing work is what the ledger calls finishing it.
LEMMA FinishMaps ==
  ASSUME Inv, OutcomeExplained, NEW n, NEW c \in Fact \cup {Work}, Finishes(n, c)
  PROVE  Ledger!Finish(n) /\ n \in Node
<1>1. /\ n \in Node /\ wo \in [Node -> WoRow]
      /\ wo' = [wo EXCEPT ![n] = WoMoved(@, "completed")]
      /\ wo[n].state \in {"ready", "in_progress"}
  BY DEF Finishes, Inv, Types, TypeOK
<1>2. wo'[n].state = "completed" /\ wo'[n].assignee = wo[n].assignee
  BY <1>1 DEF WoMoved
<1>3. Item(n) \in {"open", "taken"} /\ Item(n)' = "done"
  BY <1>1, <1>2, ItemOf, ItemOfNext
<1>4. /\ Items' = [Items EXCEPT ![n] = "done"]
      /\ Holders' = [Holders EXCEPT ![n] = wo[n].assignee]
  BY <1>1, <1>2, <1>3, SeenOfOne
<1>5. Holders' = Holders
  BY <1>1, <1>4 DEF Holders
<1>6. \A o \in outcomes : o.node # n
  BY <1>1 DEF OutcomeExplained
<1>7. Causes(n)' = {c}
  <2> DEFINE new == [node |-> n, cause |-> c]
  <2>1. outcomes' = outcomes \cup {new} /\ new.node = n /\ new.cause = c
    BY DEF Finishes
  <2> HIDE DEF new
  <2>2. {x \in outcomes' : x.node = n} = {new}
    BY <1>6, <2>1
  <2>3. QED
    BY <2>1, <2>2 DEF Causes
<1>8. \A m \in Node \ {n} : Causes(m)' = Causes(m)
  <2> SUFFICES ASSUME NEW m \in Node \ {n} PROVE Causes(m)' = Causes(m)
    OBVIOUS
  <2> DEFINE new == [node |-> n, cause |-> c]
  <2>1. outcomes' = outcomes \cup {new} /\ new.node = n
    BY DEF Finishes
  <2> HIDE DEF new
  <2>2. {x \in outcomes' : x.node = m} = {x \in outcomes : x.node = m}
    BY <2>1
  <2>3. QED
    BY <2>2 DEF Causes
<1>9. AllCauses' = [AllCauses EXCEPT ![n] = {c}]
  BY <1>7, <1>8 DEF AllCauses
<1>10. Items[n] \in {"open", "taken"}
  BY <1>1, <1>3 DEF Items
<1>11. \E d \in Fact \cup {"work"} : AllCauses' = [AllCauses EXCEPT ![n] = {d}]
  BY <1>9 DEF Work
<1>12. QED
  BY <1>1, <1>4, <1>5, <1>10, <1>11, Zenon
  DEF Ledger!Finish, Items, Holders, AllCauses, Item, Causes

\* A claim is what the ledger calls taking the work.
LEMMA ClaimMaps ==
  ASSUME Inv, NEW n \in Node, NEW a \in Actor, UNCHANGED outcomes,
         wo[n].state = "ready",
         wo' = [wo EXCEPT ![n] = [state |-> "in_progress", assignee |-> a,
                                  version |-> @.version + 1]]
  PROVE  Ledger!Take(n)
<1>1. /\ wo \in [Node -> WoRow]
      /\ wo'[n].state = "in_progress" /\ wo'[n].assignee = a
      /\ \A m \in Node \ {n} : wo'[m] = wo[m]
  BY DEF Inv, Types, TypeOK
<1>2. Item(n) = "open" /\ Item(n)' = "taken"
  BY <1>1, ItemOf, ItemOfNext
<1>3. /\ Items' = [Items EXCEPT ![n] = "taken"]
      /\ Holders' = [Holders EXCEPT ![n] = a]
  BY <1>1, <1>2, SeenOfOne
<1>4. Items[n] = "open" /\ AllCauses' = AllCauses
  BY <1>2, CausesSame DEF Items
<1>5. QED
  BY <1>3, <1>4, Zenon
  DEF Ledger!Take, Items, Holders, AllCauses, Item, Causes

\* A new task appears; a ready condition opens its work.
LEMMA CreateMaps ==
  ASSUME Inv, NEW n \in Node, NEW ready \in BOOLEAN, CreateTask(n, ready)
  PROVE  Ledger!Appear(n)
<1>1. /\ wo \in [Node -> WoRow]
      /\ wo[n].state = "none" /\ wo[n].assignee = None
      /\ wo'[n].state \in {"draft", "ready"} /\ wo'[n].assignee = None
      /\ \A m \in Node \ {n} : wo'[m] = wo[m]
      /\ UNCHANGED outcomes
  BY CreateEffect DEF CreateTask, Inv, Types, TypeOK, RowsInv
<1>2. Item(n) = "absent" /\ Item(n)' \in {"waiting", "open"}
  BY <1>1, ItemOf, ItemOfNext
<1>3. /\ Items' = [Items EXCEPT ![n] = Item(n)']
      /\ Holders' = [Holders EXCEPT ![n] = wo'[n].assignee]
  BY <1>1, SeenOfOne
<1>4. \E i \in {"waiting", "open"} : Items' = [Items EXCEPT ![n] = i]
  BY <1>2, <1>3
<1>5. Items[n] = "absent" /\ Holders' = Holders /\ AllCauses' = AllCauses
  BY <1>1, <1>2, <1>3, CausesSame DEF Items, Holders
<1>6. QED
  BY <1>4, <1>5, Zenon
  DEF Ledger!Appear, Items, Holders, AllCauses, Item, Causes

LEMMA OpenMaps ==
  ASSUME Inv, NEW n \in Node, UNCHANGED outcomes,
         wo[n].state = "draft", wo' = [wo EXCEPT ![n] = WoMoved(@, "ready")]
  PROVE  Ledger!Opens(n)
<1>1. /\ wo \in [Node -> WoRow]
      /\ wo'[n].state = "ready" /\ wo'[n].assignee = wo[n].assignee
      /\ \A m \in Node \ {n} : wo'[m] = wo[m]
  BY DEF WoMoved, Inv, Types, TypeOK
<1>2. Item(n) = "waiting" /\ Item(n)' = "open"
  BY <1>1, ItemOf, ItemOfNext
<1>3. /\ Items' = [Items EXCEPT ![n] = "open"]
      /\ Holders' = [Holders EXCEPT ![n] = wo[n].assignee]
  BY <1>1, <1>2, SeenOfOne
<1>4. Items[n] = "waiting" /\ Holders' = Holders /\ AllCauses' = AllCauses
  BY <1>1, <1>2, <1>3, CausesSame DEF Items, Holders
<1>5. QED
  BY <1>3, <1>4, Zenon
  DEF Ledger!Opens, Items, Holders, AllCauses, Item, Causes

\* Every step of work execution is a step of the ledger or shows it nothing.
LEMMA LedgerStepMaps ==
  Inv /\ OutcomeExplained /\ [Next]_vars => [Ledger!LedgerNext]_(Ledger!ledgerVars)
<1> DEFINE Stutter == UNCHANGED <<Items, Holders, AllCauses>>
<1> SUFFICES ASSUME Inv, OutcomeExplained, [Next]_vars
             PROVE  Ledger!LedgerNext \/ Stutter
  BY DEF Ledger!ledgerVars, Items, Holders, AllCauses, Item, Causes
<1>1. ASSUME NEW n \in Node,
             \/ Ledger!Appear(n) \/ Ledger!Opens(n)
             \/ Ledger!Take(n) \/ Ledger!Finish(n)
      PROVE  Ledger!LedgerNext
  BY <1>1 DEF Ledger!LedgerNext
<1>2. ASSUME UNCHANGED <<wo, outcomes>> PROVE Stutter
  BY <1>2, SeenSame
<1> HIDE DEF Stutter
<1>3. ASSUME NEW n \in Node, NEW ready \in BOOLEAN, CreateTask(n, ready)
      PROVE  Ledger!LedgerNext
  BY <1>1, <1>3, CreateMaps
<1>4. ASSUME NEW n \in Node, NEW ready \in BOOLEAN, TouchTask(n, ready)
      PROVE  Ledger!LedgerNext \/ Stutter
  <2>1. /\ UNCHANGED outcomes
        /\ \/ UNCHANGED wo
           \/ wo[n].state = "draft" /\ wo' = [wo EXCEPT ![n] = WoMoved(@, "ready")]
    BY <1>4, TouchEffect
  <2>2. CASE UNCHANGED wo
    BY <1>2, <2>1, <2>2
  <2>3. CASE wo[n].state = "draft" /\ wo' = [wo EXCEPT ![n] = WoMoved(@, "ready")]
    BY <1>1, <2>1, <2>3, OpenMaps
  <2>4. QED
    BY <2>1, <2>2, <2>3
<1>5. ASSUME NEW u \in User, CommitClaim(u) PROVE Ledger!LedgerNext
  <2>1. PICK n \in Node, a \in Actor :
          /\ UNCHANGED outcomes
          /\ wo[n].state = "ready"
          /\ wo' = [wo EXCEPT ![n] = [state |-> "in_progress", assignee |-> a,
                                      version |-> @.version + 1]]
    BY <1>5, ClaimEffect DEF Claims
  <2>2. QED
    BY <1>1, <2>1, ClaimMaps
<1>6. ASSUME NEW n, NEW c \in Fact \cup {Work}, Finishes(n, c)
      PROVE  Ledger!LedgerNext
  BY <1>1, <1>6, FinishMaps
<1>7. ASSUME NEW u \in User, CommitCompletion(u) PROVE Ledger!LedgerNext
  BY <1>6, <1>7, CompletionEffect
<1>8. ASSUME NEW w \in Worker, CommitFact(w) PROVE Ledger!LedgerNext \/ Stutter
  <2>1. message[w].fact \in Fact
    BY <1>8 DEF CommitFact, FactIntended, Inv, Types, Busy, Message
  <2>2. CASE Decision(w) = "applied"
    <3>1. Finishes(message[w].node, message[w].fact)
      BY <1>8, <2>2, FactEffect
    <3>2. QED
      BY <1>6, <2>1, <3>1
  <2>3. CASE Decision(w) # "applied"
    <3>1. UNCHANGED <<wo, task, outcomes>>
      BY <1>8, <2>3, FactEffect
    <3>2. QED
      BY <1>2, <3>1
  <2>4. QED
    BY <2>2, <2>3
<1>9. CASE ~RowChange
  BY <1>2, <1>9, OtherSteps
<1>10. QED
  BY <1>3, <1>4, <1>5, <1>7, <1>8, <1>9 DEF RowChange

\* Work waits until it is open, at most one person ever takes it, and it is
\* done once, for one cause: claims, completions, facts and repeated creations
\* together implement WorkLedger.
THEOREM KeepsTheLedger == Spec => ImplementsWorkLedger
<1>1. Spec => Ledger!LedgerInit /\ [][Ledger!LedgerNext]_(Ledger!ledgerVars)
  BY LedgerInitMaps, LedgerStepMaps, Invariant, OutcomesAreExplained, PTL DEF Spec
<1>2. QED
  BY <1>1 DEF ImplementsWorkLedger, Ledger!LedgerSpec
=============================================================================
