--------------------------- MODULE WorkStateRules ---------------------------
(***************************************************************************)
(* The pure rules of work-execution: legal transitions of work orders and  *)
(* node tasks, and the aggregation of a task from its work orders.         *)
(***************************************************************************)

WorkOrderState == {"draft", "ready", "in_progress", "blocked", "completed",
                   "failed", "reopened", "cancelled"}
NodeTaskState  == {"pending", "in_progress", "blocked", "completed",
                   "reopened", "cancelled"}

\* The states a work order may be completed from (WORK_ORDER_TRANSITIONS).
CompletableFrom == {"ready", "in_progress", "blocked", "reopened"}

\* The states a work order may be claimed in.
ClaimableIn == {"ready", "reopened", "in_progress"}

\* NODE_TASK_TRANSITIONS.
TaskTransition ==
  {<<"pending", "in_progress">>, <<"pending", "blocked">>,
   <<"pending", "completed">>, <<"pending", "cancelled">>,
   <<"in_progress", "blocked">>, <<"in_progress", "completed">>,
   <<"in_progress", "cancelled">>,
   <<"blocked", "pending">>, <<"blocked", "in_progress">>,
   <<"blocked", "completed">>, <<"blocked", "cancelled">>,
   <<"completed", "reopened">>,
   <<"reopened", "in_progress">>, <<"reopened", "blocked">>,
   <<"reopened", "completed">>, <<"reopened", "cancelled">>}

\* aggregateNodeTaskState, on the set of states of the required work orders.
Aggregate(S) ==
  IF S \cap {"failed", "blocked", "cancelled"} # {} THEN "blocked"
  ELSE IF S = {"completed"} THEN "completed"
  ELSE IF S \subseteq {"draft", "ready"} THEN "pending"
  ELSE "in_progress"

\* decideNodeTaskTransition refuses the move of a task to state next.
TaskRefuses(current, next) ==
  /\ current # next
  /\ current # "cancelled"
  /\ <<current, next>> \notin TaskTransition

\* Mutant of TaskAfter: the task is left as it was.
TaskAfter_Stays(current, next) == current

\* The state the task is given when the move is not refused.
TaskAfter(current, next) == IF current = "cancelled" THEN current ELSE next
=============================================================================
