------------------------- MODULE LifecycleFlow_proofs -------------------------
(***************************************************************************)
(* Proofs about LifecycleFlow, for any number of nodes, events, executions *)
(* in progress, decisions, blocks and crashes.                             *)
(***************************************************************************)
EXTENDS LifecycleFlow, FiniteSetTheorems, WellFoundedInduction, TLAPS

USE FlowAssumption

-----------------------------------------------------------------------------
(* The nodes that the code picks by their number.                          *)

LEMMA Smallest ==
  ASSUME NEW S \in SUBSET Nat, S # {}
  PROVE  \E n \in S : \A m \in S : n <= m
<1> DEFINE R == {ss \in Nat \X Nat : ss[1] < ss[2]}
<1>1. IsWellFoundedOn(R, Nat)
  BY NatLessThanWellFounded DEF OpToRel
<1>2. \A n, m \in Nat : <<m, n>> \notin R => ~ (m < n)
  OBVIOUS
<1> HIDE DEF R
<1>3. PICK n \in S : \A m \in S : ~ (<<m, n>> \in R)
  BY <1>1, WFMin
<1>4. \A m \in S : ~ (m < n)
  BY <1>2, <1>3, Zenon
<1>5. QED
  BY <1>4

LEMMA SmallestNode ==
  ASSUME NEW S \in SUBSET Node, S # {}
  PROVE  \E n \in S : \A m \in S : n <= m
<1>1. S \in SUBSET Nat
  BY DEF Node
<1>2. QED
  BY <1>1, Smallest

LEMMA GreatestNode ==
  ASSUME NEW S \in SUBSET Node, S # {}
  PROVE  \E n \in S : \A m \in S : m <= n
<1> DEFINE T == {Last - n : n \in S}
<1>1. T \in SUBSET Nat
  BY DEF Node
<1>2. T # {}
  OBVIOUS
<1>3. \A n \in S : Last - n \in T
  OBVIOUS
<1>4. \A t \in T : \E n \in S : t = Last - n
  OBVIOUS
<1> HIDE DEF T
<1>5. PICK t \in T : \A u \in T : t <= u
  BY <1>1, <1>2, Smallest
<1>6. PICK n \in S : t = Last - n
  BY <1>4
<1>7. ASSUME NEW m \in S PROVE m <= n
  <2>1. Last - n <= Last - m
    BY <1>3, <1>5, <1>6
  <2>2. QED
    BY <2>1 DEF Node
<1>8. QED
  BY <1>7

\* The loop looks at the first node that is left.
LEMMA TargetIs ==
  ASSUME NEW c \in Caller, todo[c] \subseteq Node, todo[c] # {}
  PROVE  Target(c) \in todo[c] /\ Target(c) \in Node
BY SmallestNode DEF Target

LEMMA FarthestIs ==
  ASSUME NEW c \in Caller, done[c] \subseteq Node, done[c] # {}
  PROVE  Farthest(c) \in done[c] /\ Farthest(c) \in Node
BY GreatestNode DEF Farthest

\* nextApplicableNode returns the first applicable node after n, if any.
LEMMA NextNodeIs ==
  ASSUME NEW rowOf \in [Node -> NodeRow], NEW n \in Node
  PROVE  \/ /\ NextNode(rowOf, n) = 0
            /\ \A m \in Node : m > n => ~ rowOf[m].applicable
         \/ /\ NextNode(rowOf, n) \in Node
            /\ NextNode(rowOf, n) > n
            /\ rowOf[NextNode(rowOf, n)].applicable
            /\ \A m \in Node : n < m /\ m < NextNode(rowOf, n) =>
                 ~ rowOf[m].applicable
<1> DEFINE later == {m \in Node : m > n /\ rowOf[m].applicable}
<1>1. CASE later = {}
  BY <1>1 DEF NextNode
<1>2. CASE later # {}
  <2>1. later \in SUBSET Node
    OBVIOUS
  <2>2. \E m \in later : \A l \in later : m <= l
    <3> HIDE DEF later
    <3> QED
      BY <1>2, <2>1, SmallestNode
  <2> DEFINE first == CHOOSE m \in later : \A l \in later : m <= l
  <2>3. first \in later /\ \A l \in later : first <= l
    <3> HIDE DEF later
    <3> QED
      BY <2>2
  <2>4. NextNode(rowOf, n) = first
    BY <1>2 DEF NextNode
  <2> HIDE DEF first
  <2>5. /\ first \in Node /\ first > n /\ rowOf[first].applicable
    BY <2>3
  <2>6. ASSUME NEW m \in Node, n < m, m < first PROVE ~ rowOf[m].applicable
    <3>1. m \notin later
      <4> HIDE DEF later
      <4> QED
        BY <2>3, <2>5, <2>6 DEF Node
    <3>2. QED
      BY <2>6, <3>1
  <2>7. QED
    BY <2>4, <2>5, <2>6
<1>3. QED
  BY <1>1, <1>2

-----------------------------------------------------------------------------
(* Type correctness.                                                       *)

\* An execution in progress has saved its event, looks at targets while some
\* are left, and announces a task only after it completed a node.
Busy ==
  \A c \in Caller :
    /\ pc[c] # "idle" => event[c] \in saved
    /\ pc[c] \in {"look", "write"} => todo[c] # {}
    /\ pc[c] \in {"ensure", "announce"} => done[c] # {}

Types == TypeOK /\ Busy

LEMMA AbsentTypes ==
  /\ Absent \in NodeRow
  /\ Nothing \in SeenFlow
  /\ \A s \in {"active", "pending"} : [Absent EXCEPT !.state = s] \in NodeRow
BY DEF Absent, Nothing, NodeRow, SeenFlow

\* Leave, Goto and Continue keep the types of what they assign.
LEMMA LeaveTypes ==
  ASSUME Types, NEW c \in Caller, Leave(c), saved' = saved
  PROVE  /\ pc' \in [Caller -> {"idle", "load", "look", "write", "reload",
                                "status", "ensure", "announce"}]
         /\ event' \in [Caller -> Event \cup {None}]
         /\ fresh' \in [Caller -> BOOLEAN]
         /\ todo' \in [Caller -> SUBSET Node]
         /\ done' \in [Caller -> SUBSET Node]
         /\ seenStatus' \in [Caller -> Nat]
         /\ seenFlow' \in [Caller -> SeenFlow]
         /\ Busy'
BY AbsentTypes DEF Leave, Goto, Types, TypeOK, Busy

LEMMA ContinueTypes ==
  ASSUME Types, NEW c \in Caller, Continue(c), saved' = saved,
         UNCHANGED <<event, done>>
  PROVE  /\ pc' \in [Caller -> {"idle", "load", "look", "write", "reload",
                                "status", "ensure", "announce"}]
         /\ todo' \in [Caller -> SUBSET Node]
         /\ pc[c] \in {"look", "write"} => Busy'
<1>1. /\ pc' \in [Caller -> {"idle", "load", "look", "write", "reload",
                             "status", "ensure", "announce"}]
      /\ todo' \in [Caller -> SUBSET Node]
  BY DEF Continue, Goto, Types, TypeOK
<1>2. ASSUME pc[c] \in {"look", "write"} PROVE Busy'
  <2>1. todo[c] # {} /\ event[c] \in saved
    BY <1>2 DEF Types, Busy
  <2>2. Target(c) \in todo[c]
    BY <2>1, TargetIs DEF Types, TypeOK
  <2>3. /\ pc'[c] = IF todo[c] = {Target(c)} THEN "status" ELSE "look"
        /\ todo'[c] = todo[c] \ {Target(c)}
    BY DEF Continue, Goto, Types, TypeOK
  <2>4. \A d \in Caller : d # c => pc'[d] = pc[d] /\ todo'[d] = todo[d]
    BY DEF Continue, Goto, Types, TypeOK
  <2>5. QED
    BY <2>1, <2>2, <2>3, <2>4 DEF Types, Busy
<1>3. QED
  BY <1>1, <1>2

LEMMA EnsureTypes ==
  ASSUME TypeOK, EnsureFlow
  PROVE  /\ flow' \in FlowRow
         /\ node' \in [Node -> NodeRow]
<1>1. flow' \in FlowRow
  BY DEF EnsureFlow, EnsuredFlow, TypeOK, FlowRow
<1>2. \A n \in Node : EnsuredNode(n) \in NodeRow
  BY AbsentTypes DEF EnsuredNode, TypeOK
<1>3. QED
  BY <1>1, <1>2 DEF EnsureFlow

LEMMA CompletedType ==
  ASSUME NEW row \in NodeRow, NEW at \in Nat
  PROVE  Completed(row, at) \in NodeRow
BY DEF Completed, NodeRow

LEMMA HandoffTypes ==
  ASSUME NEW at \in Nat, InitializePostDeparture(at)
  PROVE  /\ flow' \in FlowRow
         /\ node' \in [Node -> NodeRow]
<1>1. flow' \in FlowRow
  BY DEF InitializePostDeparture, FlowRow
<1>2. QED
  BY <1>1, AbsentTypes, CompletedType DEF InitializePostDeparture

LEMMA VersionType ==
  ASSUME NEW row \in FlowRow
  PROVE  [row EXCEPT !.version = @ + 1] \in FlowRow
BY DEF FlowRow

LEMMA StateTypes ==
  ASSUME NEW row \in NodeRow
  PROVE  \A s \in {"pending", "active", "blocked"} :
           [row EXCEPT !.state = s] \in NodeRow
BY DEF NodeRow

\* What an execution that decides knows of its target.
LEMMA DecideIs ==
  ASSUME Types, NEW c \in Caller, NEW v \in Verdict, Decide(c, v)
  PROVE  /\ pc[c] = "write"
         /\ event[c] \in saved /\ event[c] \in Event
         /\ Target(c) \in todo[c] /\ Target(c) \in Node
         /\ seenFlow[c].node \in [Node -> NodeRow]
         /\ seenFlow[c].version \in Nat
         /\ At[event[c]] \in Nat
<1>1. pc[c] = "write" /\ event[c] \in saved /\ todo[c] # {}
  BY DEF Decide, Types, Busy
<1>2. event[c] \in Event /\ todo[c] \subseteq Node /\ seenFlow[c] \in SeenFlow
  BY <1>1 DEF Types, TypeOK
<1>3. QED
  BY <1>1, <1>2, TargetIs DEF SeenFlow

LEMMA AdvancedTypes ==
  ASSUME TypeOK, NEW n \in Node, NEW next \in Node, NEW at \in Nat
  PROVE  /\ Advanced(n, next, at) \in [Node -> NodeRow]
         /\ Closed(n, at) \in [Node -> NodeRow]
<1>1. \A row \in NodeRow : [row EXCEPT !.state = "active"] \in NodeRow
  BY DEF NodeRow
<1>2. QED
  BY <1>1, CompletedType DEF Advanced, Closed, TypeOK

LEMMA TypesCaller ==
  ASSUME Types, NEW c \in Caller, CallerStep(c)
  PROVE  Types'
<1> USE DEF Types, TypeOK, rows, locals, bounds
<1>1. ASSUME NEW e \in Event, Begin(c, e) PROVE Types'
  BY <1>1 DEF Begin, Goto, Busy
<1>2. CASE Load(c)
  <2>1. flow' \in FlowRow /\ node' \in [Node -> NodeRow]
    BY <1>2, EnsureTypes DEF Load
  <2>2. [version |-> flow'.version, node |-> node'] \in SeenFlow
    BY <2>1 DEF FlowRow, SeenFlow
  <2>3. seenFlow' \in [Caller -> SeenFlow]
    BY <1>2, <2>2 DEF Load, SeeFlow
  <2>4. QED
    BY <1>2, <2>1, <2>3 DEF Load, Goto, Busy
<1>3. CASE Look(c)
  <2>1. CASE Continue(c) /\ UNCHANGED <<event, fresh, done, seenStatus, seenFlow>>
    BY <1>3, <2>1, ContinueTypes DEF Look
  <2>2. CASE Leave(c)
    BY <1>3, <2>2, LeaveTypes DEF Look
  <2>3. CASE Goto(c, "write") /\ UNCHANGED locals
    BY <1>3, <2>3 DEF Look, Goto, Busy
  <2>4. QED
    BY <1>3, <2>1, <2>2, <2>3 DEF Look
<1>4. ASSUME NEW v \in Verdict, Record(c, v) PROVE Types'
  <2>1. /\ pc[c] = "write" /\ event[c] \in Event
        /\ Target(c) \in Node
    BY <1>4, DecideIs DEF Record
  <2>2. v \in {"pending", "rejected"}
    BY <1>4 DEF Record, Verdict
  <2>3. application' \in [Event -> [Node -> {"none", "pending", "applied", "rejected"}]]
    BY <1>4, <2>1, <2>2 DEF Record, Recorded
  <2>4. CASE Continue(c) /\ UNCHANGED <<event, fresh, done, seenStatus, seenFlow>>
    BY <1>4, <2>1, <2>3, <2>4, ContinueTypes DEF Record
  <2>5. CASE Leave(c)
    BY <1>4, <2>3, <2>5, LeaveTypes DEF Record
  <2>6. QED
    BY <1>4, <2>4, <2>5 DEF Record
<1>5. CASE Apply(c)
  <2> DEFINE n == Target(c)
             e == event[c]
             next == NextNode(seenFlow[c].node, n)
  <2>1. /\ pc[c] = "write" /\ e \in Event /\ e \in saved
        /\ n \in Node /\ At[e] \in Nat
        /\ seenFlow[c].node \in [Node -> NodeRow]
    BY <1>5, DecideIs DEF Apply, Verdict
  <2>2. next \in Node \cup {0}
    BY <2>1, NextNodeIs
  <2> HIDE DEF n, e, next
  <2>3. /\ flow' = [state      |-> IF next = 0 THEN "completed" ELSE flow.state,
                    definition |-> flow.definition,
                    current    |-> IF next = 0 THEN n ELSE next,
                    version    |-> flow.version + 1]
        /\ node' = IF next = 0 THEN Closed(n, At[e]) ELSE Advanced(n, next, At[e])
        /\ application' = [application EXCEPT ![e][n] = "applied"]
        /\ todo' = [todo EXCEPT ![c] = @ \ {n}]
        /\ done' = [done EXCEPT ![c] = @ \cup {n}]
        /\ Forget(c)
        /\ Goto(c, "reload")
    BY <1>5 DEF Apply, n, e, next
  <2>4. flow' \in FlowRow
    BY <2>1, <2>2, <2>3 DEF FlowRow
  <2>5. node' \in [Node -> NodeRow]
    BY <2>1, <2>2, <2>3, AdvancedTypes
  <2>6. seenFlow' \in [Caller -> SeenFlow]
    BY <2>3, AbsentTypes DEF Forget
  <2>7. UNCHANGED <<blocks, saved, status, announced, event, fresh, seenStatus,
                    request, overtaken, bounds>>
    BY <1>5 DEF Apply
  <2>8. Busy'
    BY <2>1, <2>3, <2>7 DEF Goto, Busy
  <2>9. /\ application' \in [Event -> [Node -> {"none", "pending", "applied", "rejected"}]]
        /\ todo' \in [Caller -> SUBSET Node]
        /\ done' \in [Caller -> SUBSET Node]
        /\ pc' \in [Caller -> {"idle", "load", "look", "write", "reload",
                               "status", "ensure", "announce"}]
    BY <2>1, <2>3 DEF Goto
  <2>10. QED
    BY <2>4, <2>5, <2>6, <2>7, <2>8, <2>9
<1>6. CASE AlreadyApplied(c)
  <2>1. pc[c] = "write" /\ event[c] \in saved
    BY <1>6, DecideIs DEF AlreadyApplied, Verdict
  <2>2. seenFlow' \in [Caller -> SeenFlow]
    BY <1>6, AbsentTypes DEF AlreadyApplied, Forget
  <2>3. Busy'
    BY <1>6, <2>1 DEF AlreadyApplied, Goto, Busy
  <2>4. QED
    BY <1>6, <2>2, <2>3 DEF AlreadyApplied, Goto
<1>7. CASE ApplyConflict(c)
  BY <1>7, LeaveTypes DEF ApplyConflict
<1>8. [version |-> flow.version, node |-> node] \in SeenFlow
  BY DEF FlowRow, SeenFlow
<1>9. CASE Reload(c)
  BY <1>8, <1>9 DEF Reload, Goto, Busy
<1>10. CASE AdvanceStatus(c)
  <2>1. event[c] \in Event
    BY <1>10 DEF AdvanceStatus, Busy
  <2>2. status' \in Nat
    BY <1>10, <2>1 DEF AdvanceStatus
  <2>3. CASE done[c] = {}
    BY <1>10, <2>2, <2>3, LeaveTypes DEF AdvanceStatus
  <2>4. CASE done[c] # {}
    <3>1. seenFlow' \in [Caller -> SeenFlow]
      BY <1>10, <2>4, AbsentTypes DEF AdvanceStatus, Forget
    <3>2. Busy'
      BY <1>10, <2>4 DEF AdvanceStatus, Goto, Busy
    <3>3. QED
      <4>1. pc' \in [Caller -> {"idle", "load", "look", "write", "reload",
                                "status", "ensure", "announce"}]
        BY <1>10, <2>4 DEF AdvanceStatus, Goto
      <4>2. seenStatus' \in [Caller -> Nat]
        <5>1. seenStatus' = [seenStatus EXCEPT ![c] = 0]
          BY <1>10, <2>4, Zenon DEF AdvanceStatus
        <5>2. QED
          BY <5>1
      <4>3. UNCHANGED <<flow, node, blocks, saved, application, announced,
                        request, overtaken, bounds, event, fresh, todo, done>>
        BY <1>10, <2>4 DEF AdvanceStatus
      <4>4. QED
        BY <2>2, <3>1, <3>2, <4>1, <4>2, <4>3
  <2>5. QED
    BY <2>3, <2>4
<1>11. CASE EnsureForTask(c)
  BY <1>8, <1>11 DEF EnsureForTask, Goto, Busy
<1>12. CASE Announce(c)
  <2>1. Farthest(c) \in Node
    BY <1>12, FarthestIs DEF Announce, Busy
  <2>2. seenFlow[c].node \in [Node -> NodeRow]
    BY DEF SeenFlow
  <2>3. NextNode(seenFlow[c].node, Farthest(c)) \in Node \cup {0}
    BY <2>1, <2>2, NextNodeIs
  <2>4. announced' \subseteq Node
    BY <1>12, <2>3 DEF Announce
  <2>5. QED
    BY <1>12, <2>4, LeaveTypes DEF Announce
<1>13. CASE Crash(c)
  BY <1>13, LeaveTypes DEF Crash
<1>14. QED
  BY <1>1, <1>2, <1>3, <1>4, <1>5, <1>6, <1>7, <1>9, <1>10, <1>11, <1>12, <1>13
     DEF CallerStep

LEMMA TypesRows ==
  ASSUME Types,
         \/ InitializeContainerFlow
         \/ \E at \in {At[e] : e \in Event} : InitializePostDeparture(at)
         \/ \E o \in Operator :
              \/ \E r \in Asked : CheckApplicability(o, r)
              \/ SetApplicability(o)
         \/ \E n \in Node : Block(n) \/ Resolve(n)
  PROVE  Types'
<1> USE DEF Types, TypeOK, rows, locals, bounds
<1>1. CASE InitializeContainerFlow
  <2>1. flow' \in FlowRow /\ node' \in [Node -> NodeRow]
    BY <1>1, EnsureTypes DEF InitializeContainerFlow
  <2>2. announced' \subseteq Node
    BY <1>1 DEF InitializeContainerFlow, ToldCurrent, EnsuredFlow, FlowRow
  <2>3. QED
    BY <1>1, <2>1, <2>2 DEF InitializeContainerFlow, Busy
<1>2. ASSUME NEW at \in {At[e] : e \in Event}, InitializePostDeparture(at)
      PROVE  Types'
  <2>1. at \in Nat
    OBVIOUS
  <2>2. flow' \in FlowRow /\ node' \in [Node -> NodeRow]
    BY <1>2, <2>1, HandoffTypes
  <2>3. QED
    BY <1>2, <2>2 DEF InitializePostDeparture, Busy
<1>3. ASSUME NEW o \in Operator, NEW r \in Asked, CheckApplicability(o, r)
      PROVE  Types'
  <2>1. r \in Request
    OBVIOUS
  <2>2. request' \in [Operator -> Request \cup {None}]
    BY <1>3, <2>1 DEF CheckApplicability
  <2>3. QED
    BY <1>3, <2>2 DEF CheckApplicability, Busy
<1>4. ASSUME NEW o \in Operator, SetApplicability(o) PROVE Types'
  <2>1. request[o] \in Request
    BY <1>4 DEF SetApplicability
  <2>2. request[o].node \in Node /\ request[o].applicable \in BOOLEAN
    BY <2>1 DEF Request
  <2>3. [state |-> IF node[request[o].node].state = "absent" THEN "pending"
                   ELSE node[request[o].node].state,
         applicable |-> request[o].applicable,
         at |-> node[request[o].node].at] \in NodeRow
    BY <2>2 DEF NodeRow
  <2>4. node' \in [Node -> NodeRow]
    BY <1>4, <2>2, <2>3 DEF SetApplicability
  <2>5. flow' \in FlowRow
    BY <1>4, VersionType DEF SetApplicability
  <2>6. overtaken' \subseteq Node /\ request' \in [Operator -> Request \cup {None}]
    BY <1>4, <2>2 DEF SetApplicability
  <2>7. QED
    BY <1>4, <2>4, <2>5, <2>6 DEF SetApplicability, Busy
<1>5. ASSUME NEW n \in Node, Block(n) PROVE Types'
  <2>1. flow' \in FlowRow
    BY <1>5, VersionType DEF Block
  <2>2. node' \in [Node -> NodeRow]
    BY <1>5, StateTypes DEF Block
  <2>3. QED
    BY <1>5, <2>1, <2>2 DEF Block, Busy
<1>6. ASSUME NEW n \in Node, Resolve(n) PROVE Types'
  <2>1. flow' \in FlowRow
    BY <1>6, VersionType DEF Resolve
  <2>2. node' \in [Node -> NodeRow]
    <3>1. node[n] \in NodeRow
      OBVIOUS
    <3>2. \/ node' = [node EXCEPT ![n] = [@ EXCEPT !.state = "active"]]
          \/ node' = [node EXCEPT ![n] = [@ EXCEPT !.state = node[n].state]]
      BY <1>6 DEF Resolve
    <3>3. [node[n] EXCEPT !.state = node[n].state] \in NodeRow
      BY <3>1 DEF NodeRow
    <3>4. QED
      BY <3>1, <3>2, <3>3, StateTypes
  <2>3. blocks' \in [Node -> Nat]
    BY <1>6 DEF Resolve
  <2>4. QED
    BY <1>6, <2>1, <2>2, <2>3 DEF Resolve, Busy
<1>7. QED
  BY <1>1, <1>2, <1>3, <1>4, <1>5, <1>6

LEMMA TypesInit == Init => Types
<1> SUFFICES ASSUME Init PROVE Types
  OBVIOUS
<1>1. flow \in FlowRow /\ node \in [Node -> NodeRow]
  BY AbsentTypes DEF Init, Nothing, FlowRow, Node
<1>2. QED
  BY <1>1, AbsentTypes DEF Init, Types, TypeOK, Busy

LEMMA TypesStep == Types /\ [Next]_vars => Types'
<1> SUFFICES ASSUME Types, [Next]_vars PROVE Types'
  OBVIOUS
<1>1. CASE UNCHANGED vars
  BY <1>1 DEF vars, rows, locals, bounds, Types, TypeOK, Busy
<1>2. CASE Next
  BY <1>2, TypesCaller, TypesRows DEF Next
<1>3. QED
  BY <1>1, <1>2

\* Every row, every read and every step of an execution has its type, whatever
\* the nodes, the events and the executions that race.
THEOREM TypeInvariant == Spec => []TypeOK
<1>1. Init => Types
  BY TypesInit
<1>2. Types /\ [Next]_vars => Types'
  BY TypesStep
<1>3. Types => TypeOK
  BY DEF Types
<1>4. QED
  BY <1>1, <1>2, <1>3, PTL DEF Spec

-----------------------------------------------------------------------------
(* What one step does to the executions.                                   *)

Local(c) == <<pc[c], event[c], fresh[c], todo[c], done[c], seenFlow[c]>>

LEMMA LeaveIs ==
  ASSUME Types, NEW c \in Caller, Leave(c)
  PROVE  /\ pc'[c] = "idle" /\ event'[c] = None /\ fresh'[c] = FALSE
         /\ todo'[c] = {} /\ done'[c] = {}
         /\ \A d \in Caller \ {c} : Local(d)' = Local(d)
BY DEF Leave, Goto, Types, TypeOK, Local

\* An execution only touches its own variables.
LEMMA OthersStay ==
  ASSUME Types, NEW c \in Caller, NEW d \in Caller, CallerStep(d), c # d
  PROVE  Local(c)' = Local(c)
<1> USE DEF Types, TypeOK, Local, Goto, locals
<1>1. ASSUME NEW e \in Event, Begin(d, e) PROVE Local(c)' = Local(c)
  BY <1>1 DEF Begin
<1>2. CASE Load(d)
  BY <1>2 DEF Load, SeeFlow
<1>3. CASE Leave(d)
  BY <1>3, LeaveIs
<1>4. CASE Continue(d) /\ UNCHANGED <<event, fresh, done, seenStatus, seenFlow>>
  BY <1>4 DEF Continue
<1>5. CASE Look(d)
  BY <1>3, <1>4, <1>5 DEF Look
<1>6. ASSUME NEW v \in Verdict, Record(d, v) PROVE Local(c)' = Local(c)
  BY <1>3, <1>4, <1>6 DEF Record
<1>7. CASE Apply(d)
  BY <1>7 DEF Apply, Forget
<1>8. CASE AlreadyApplied(d)
  BY <1>8 DEF AlreadyApplied, Forget
<1>9. CASE Reload(d)
  BY <1>9 DEF Reload
<1>10. CASE AdvanceStatus(d)
  BY <1>3, <1>10 DEF AdvanceStatus, Forget
<1>11. CASE EnsureForTask(d)
  BY <1>11 DEF EnsureForTask
<1>12. CASE ApplyConflict(d) \/ Announce(d) \/ Crash(d)
  BY <1>3, <1>12 DEF ApplyConflict, Announce, Crash
<1>13. QED
  BY <1>1, <1>2, <1>5, <1>6, <1>7, <1>8, <1>9, <1>10, <1>11, <1>12 DEF CallerStep

\* Every other step leaves the executions alone.
RowStep ==
  \/ InitializeContainerFlow
  \/ \E at \in {At[e] : e \in Event} : InitializePostDeparture(at)
  \/ \E o \in Operator :
       \/ \E r \in Asked : CheckApplicability(o, r)
       \/ SetApplicability(o)
  \/ \E n \in Node : Block(n) \/ Resolve(n)

LEMMA RowStepStays ==
  ASSUME RowStep \/ UNCHANGED vars
  PROVE  UNCHANGED <<pc, locals, saved, application, status>>
BY DEF RowStep, InitializeContainerFlow, InitializePostDeparture,
   CheckApplicability, SetApplicability, Block, Resolve, vars, rows, locals,
   bounds

LEMMA Steps ==
  [Next]_vars <=> UNCHANGED vars \/ RowStep \/ \E c \in Caller : CallerStep(c)
BY DEF Next, RowStep

\* The steps that change the flow and its nodes.
Move ==
  \/ UNCHANGED <<flow, node>>
  \/ EnsureFlow
  \/ \E at \in {At[e] : e \in Event} : InitializePostDeparture(at)
  \/ \E c \in Caller : Apply(c)
  \/ \E o \in Operator : SetApplicability(o)
  \/ \E n \in Node : Block(n) \/ Resolve(n)

LEMMA CallerMoves ==
  ASSUME NEW c \in Caller, CallerStep(c)
  PROVE  /\ UNCHANGED <<flow, node>> \/ (Load(c) /\ EnsureFlow) \/ Apply(c)
         /\ UNCHANGED <<blocks, request, overtaken>>
BY DEF CallerStep, Begin, Load, Look, Record, Apply, AlreadyApplied,
   ApplyConflict, Reload, AdvanceStatus, EnsureForTask, Announce, Crash, rows

LEMMA Moves == [Next]_vars => Move
<1> SUFFICES ASSUME [Next]_vars PROVE Move
  OBVIOUS
<1>1. CASE UNCHANGED vars
  BY <1>1 DEF vars, rows, Move
<1>2. CASE RowStep
  BY <1>2 DEF RowStep, InitializeContainerFlow, CheckApplicability, rows, Move
<1>3. ASSUME NEW c \in Caller, CallerStep(c) PROVE Move
  BY <1>3, CallerMoves DEF Move
<1>4. QED
  BY <1>1, <1>2, <1>3, Steps

\* An execution that has read the flow.
Past(c) == pc[c] \notin {"idle", "load"}

LEMMA PastStep ==
  ASSUME Types, [Next]_vars, NEW c \in Caller, Past(c)'
  PROVE  Past(c) \/ Load(c)
<1>1. CASE RowStep \/ UNCHANGED vars
  BY <1>1, RowStepStays DEF Past
<1>2. ASSUME NEW d \in Caller, CallerStep(d), d # c PROVE Past(c)
  BY <1>2, OthersStay DEF Past, Local
<1>3. CASE CallerStep(c)
  BY <1>3, LeaveIs DEF CallerStep, Begin, Look, Record, Decide, Apply,
     AlreadyApplied, ApplyConflict, Reload, AdvanceStatus, EnsureForTask,
     Announce, Crash, Past, Goto, Types, TypeOK
<1>4. QED
  BY <1>1, <1>2, <1>3, Steps

-----------------------------------------------------------------------------
(* What an execution has read, and what becomes of its target.             *)

Whole == \A n \in Node : node[n].state # "absent"

\* What a look or a write uses is what the rows were at the version read.
Reads ==
  \A c \in Caller : pc[c] \in {"look", "write"} =>
    /\ seenFlow[c].version <= flow.version
    /\ seenFlow[c].version = flow.version => seenFlow[c].node = node

\* Before the flow there is nothing; afterwards it is always at a node that
\* exists, it is whole once an execution has read it, and it ends at the last
\* node, which always applies.
Made ==
  IF flow.state = "none"
  THEN /\ flow.definition = "container" /\ flow.current = 1
       /\ node = Nothing.node
       /\ \A c \in Caller : ~ Past(c)
       /\ \A o \in Operator : request[o] = None
  ELSE /\ node[flow.current].state # "absent"
       /\ flow.definition = "container" => Whole
       /\ (\E c \in Caller : Past(c)) => Whole
       /\ \A n \in Node : node[n].state = "absent" => node[n].applicable
       /\ node[Last].applicable
       /\ flow.state = "completed" => flow.current = Last
       /\ \A o \in Operator : request[o] # None => request[o].node \in Optional

\* Completing node n by event e; next is the node that wakes up, or 0.
Completes(e, n, next) ==
  /\ flow.state = "active"
  /\ node[n].applicable /\ node[n].state \notin {"completed", "blocked"}
  /\ \A p \in Before(n) : ~ Open(node[p])
  /\ \A p \in Before(n) : node[p].state = "completed" => node[p].at <= At[e]
  /\ flow'.version = flow.version + 1
  /\ flow'.definition = flow.definition
  /\ node'[n].state = "completed"
  /\ node'[n].applicable = node[n].applicable
  /\ node'[n].at = At[e]
  /\ \/ /\ next = 0
        /\ \A m \in Node : m > n => ~ node[m].applicable
        /\ flow'.state = "completed" /\ flow'.current = n
     \/ /\ next \in Node /\ next > n
        /\ node[next].applicable
        /\ \A m \in Node : n < m /\ m < next => ~ node[m].applicable
        /\ flow'.state = "active" /\ flow'.current = next
        /\ node'[next].state =
             IF node[next].state = "completed" THEN "completed" ELSE "active"
        /\ node'[next].applicable = node[next].applicable
        /\ node'[next].at = node[next].at
  /\ \A m \in Node : m # n /\ m # next => node'[m] = node[m]
  /\ application[e][n] # "applied"
  /\ application' = [application EXCEPT ![e][n] = "applied"]
  /\ UNCHANGED <<blocks, saved, announced, status, request, overtaken>>

LEMMA BeforeIs ==
  ASSUME NEW n \in Node
  PROVE  \A p : p \in Before(n) <=> p \in Node /\ p < n
BY DEF Before, Node

\* A write that goes through decides on the rows as they are: nothing has
\* changed them since they were read.
LEMMA ApplyEffect ==
  ASSUME Types, Reads, NEW c \in Caller, Apply(c)
  PROVE  \E n \in todo[c], next \in Node \cup {0} :
           /\ pc[c] = "write" /\ pc'[c] = "reload"
           /\ event[c] \in saved /\ n \in Node
           /\ Completes(event[c], n, next)
           /\ todo'[c] = todo[c] \ {n} /\ done'[c] = done[c] \cup {n}
           /\ UNCHANGED <<event, fresh>>
<1> DEFINE n == Target(c)
           e == event[c]
           next == NextNode(seenFlow[c].node, n)
<1>1. /\ pc[c] = "write" /\ e \in saved /\ e \in Event
      /\ n \in todo[c] /\ n \in Node /\ At[e] \in Nat
      /\ seenFlow[c].node \in [Node -> NodeRow]
  BY DecideIs DEF Apply, Verdict
<1>2. Decision(seenFlow[c].node, n, At[e]) = "apply"
  BY DEF Apply, Decide
<1>3. /\ node[n].state \notin {"completed", "blocked"}
      /\ flow.version = seenFlow[c].version
      /\ flow.state = "active"
  BY DEF Apply, MayApply
<1>4. seenFlow[c].node = node
  BY <1>1, <1>3 DEF Reads
<1>5. /\ node[n].applicable
      /\ \A p \in Before(n) : ~ Open(node[p])
      /\ \A p \in Before(n) : ~ (node[p].state = "completed" /\ node[p].at > At[e])
  BY <1>2, <1>4 DEF Decision
<1>6. \A p \in Before(n) : node[p].at \in Nat
  <2> HIDE DEF n
  <2>1. \A p \in Before(n) : p \in Node
    BY <1>1, BeforeIs
  <2>2. QED
    BY <2>1 DEF Types, TypeOK, NodeRow
<1>7. \A p \in Before(n) : node[p].state = "completed" => node[p].at <= At[e]
  BY <1>1, <1>5, <1>6
<1>8. \/ /\ next = 0
         /\ \A m \in Node : m > n => ~ node[m].applicable
      \/ /\ next \in Node /\ next > n
         /\ node[next].applicable
         /\ \A m \in Node : n < m /\ m < next => ~ node[m].applicable
  BY <1>1, <1>4, NextNodeIs
<1>9. /\ flow' = [state      |-> IF next = 0 THEN "completed" ELSE flow.state,
                  definition |-> flow.definition,
                  current    |-> IF next = 0 THEN n ELSE next,
                  version    |-> flow.version + 1]
      /\ node' = IF next = 0 THEN Closed(n, At[e]) ELSE Advanced(n, next, At[e])
      /\ application[e][n] # "applied"
      /\ application' = [application EXCEPT ![e][n] = "applied"]
      /\ todo' = [todo EXCEPT ![c] = @ \ {n}]
      /\ done' = [done EXCEPT ![c] = @ \cup {n}]
      /\ pc' = [pc EXCEPT ![c] = "reload"]
      /\ UNCHANGED <<blocks, saved, status, announced, event, fresh,
                     request, overtaken>>
  BY DEF Apply, Goto
<1> HIDE DEF n, e, next
<1>10. node \in [Node -> NodeRow] /\ flow \in FlowRow
  BY DEF Types, TypeOK
<1>11. CASE next = 0
  <2>1. node' = [node EXCEPT ![n] = Completed(@, At[e])]
    BY <1>9, <1>11 DEF Closed
  <2>2. node'[n] = Completed(node[n], At[e])
    BY <1>1, <1>10, <2>1
  <2>3. \A m \in Node : m # n => node'[m] = node[m]
    BY <1>10, <2>1
  <2>4. /\ node'[n].state = "completed"
        /\ node'[n].applicable = node[n].applicable
        /\ node'[n].at = At[e]
    BY <2>2 DEF Completed
  <2>5. /\ flow'.version = flow.version + 1
        /\ flow'.definition = flow.definition
        /\ flow'.state = "completed" /\ flow'.current = n
    BY <1>9, <1>11
  <2>6. \A m \in Node : m > n => ~ node[m].applicable
    BY <1>8, <1>11 DEF Node
  <2>7. Completes(e, n, next)
    BY <1>3, <1>5, <1>7, <1>9, <1>11, <2>3, <2>4, <2>5, <2>6 DEF Completes
  <2>8. QED
    BY <1>1, <1>9, <1>11, <2>7 DEF Types, TypeOK, e
<1>12. CASE next # 0
  <2>1. node' = [node EXCEPT ![n] = Completed(@, At[e]),
                             ![next] = IF @.state = "completed" THEN @
                                       ELSE [@ EXCEPT !.state = "active"]]
    BY <1>9, <1>12 DEF Advanced
  <2>2. next \in Node /\ next > n /\ next # n
    BY <1>8, <1>12, <1>1 DEF Node
  <2>3. node'[n] = Completed(node[n], At[e])
    BY <1>1, <1>10, <2>1, <2>2
  <2>4. node'[next] = IF node[next].state = "completed" THEN node[next]
                      ELSE [node[next] EXCEPT !.state = "active"]
    BY <1>1, <1>10, <2>1, <2>2
  <2>5. \A m \in Node : m # n /\ m # next => node'[m] = node[m]
    BY <1>10, <2>1
  <2>6. /\ node'[n].state = "completed"
        /\ node'[n].applicable = node[n].applicable
        /\ node'[n].at = At[e]
    BY <2>3 DEF Completed
  <2>7. /\ node'[next].state =
             IF node[next].state = "completed" THEN "completed" ELSE "active"
        /\ node'[next].applicable = node[next].applicable
        /\ node'[next].at = node[next].at
    BY <1>10, <2>2, <2>4 DEF NodeRow
  <2>8. /\ flow'.version = flow.version + 1
        /\ flow'.definition = flow.definition
        /\ flow'.state = "active" /\ flow'.current = next
    BY <1>3, <1>9, <1>12
  <2>9. /\ node[next].applicable
        /\ \A m \in Node : n < m /\ m < next => ~ node[m].applicable
    BY <1>8, <1>12
  <2>10. Completes(e, n, next)
    BY <1>3, <1>5, <1>7, <1>9, <2>2, <2>5, <2>6, <2>7, <2>8, <2>9 DEF Completes
  <2>11. QED
    BY <1>1, <1>9, <2>2, <2>10 DEF Types, TypeOK, e
<1>13. QED
  BY <1>11, <1>12

LEMMA CompletesApplicable ==
  ASSUME NEW e, NEW n \in Node, NEW next \in Node \cup {0}, Completes(e, n, next),
         NEW m \in Node
  PROVE  node'[m].applicable = node[m].applicable
<1>1. CASE m = n
  BY <1>1 DEF Completes
<1>2. CASE m = next /\ m # n
  BY <1>2 DEF Completes, Node
<1>3. CASE m # n /\ m # next
  BY <1>3 DEF Completes
<1>4. QED
  BY <1>1, <1>2, <1>3

\* ensureFlow adds what is missing and changes nothing else.
LEMMA EnsureEffect ==
  ASSUME Types, EnsureFlow
  PROVE  /\ flow.state # "none" => flow' = flow
         /\ flow.state = "none" => /\ flow'.state = "active"
                                   /\ flow'.definition = flow.definition
                                   /\ flow'.current = flow.current
                                   /\ flow'.version = flow.version
         /\ Whole'
         /\ \A n \in Node : node[n].state # "absent" => node'[n] = node[n]
         /\ \A n \in Node : node[n].state = "absent" =>
              /\ node'[n].state = IF n = flow.current THEN "active" ELSE "pending"
              /\ node'[n].applicable
         /\ flow.state # "none" /\ Whole => node' = node
<1>1. node \in [Node -> NodeRow] /\ flow \in FlowRow
  BY DEF Types, TypeOK
<1>2. /\ flow.state # "none" => flow' = flow
      /\ flow.state = "none" => flow' = [flow EXCEPT !.state = "active"]
  BY DEF EnsureFlow, EnsuredFlow
<1>3. EnsuredFlow.current = flow.current
  BY <1>1 DEF EnsuredFlow, FlowRow
<1>4. /\ \A n \in Node : node[n].state # "absent" => node'[n] = node[n]
      /\ \A n \in Node : node[n].state = "absent" =>
           /\ node'[n].state = IF n = flow.current THEN "active" ELSE "pending"
           /\ node'[n].applicable
  <2>1. \A n \in Node : node'[n] = EnsuredNode(n)
    BY DEF EnsureFlow
  <2>2. \A n \in Node : node[n].state # "absent" => EnsuredNode(n) = node[n]
    BY DEF EnsuredNode
  <2>3. \A n \in Node : node[n].state = "absent" =>
          EnsuredNode(n) =
            [Absent EXCEPT !.state = IF n = flow.current THEN "active" ELSE "pending"]
    BY <1>3 DEF EnsuredNode
  <2>4. \A s : /\ [Absent EXCEPT !.state = s].state = s
               /\ [Absent EXCEPT !.state = s].applicable
    BY DEF Absent
  <2>5. ASSUME NEW n \in Node, node[n].state = "absent"
        PROVE  /\ node'[n].state = IF n = flow.current THEN "active" ELSE "pending"
               /\ node'[n].applicable
    <3>1. node'[n] =
            [Absent EXCEPT !.state = IF n = flow.current THEN "active" ELSE "pending"]
      BY <2>1, <2>3, <2>5
    <3>2. QED
      BY <2>4, <3>1
  <2>6. QED
    BY <2>1, <2>2, <2>5
<1>5. Whole'
  BY <1>4 DEF Whole
<1>6. ASSUME Whole PROVE node' = node
  <2>1. \A n \in Node : EnsuredNode(n) = node[n]
    BY <1>6 DEF EnsuredNode, Whole
  <2>2. node' = [n \in Node |-> EnsuredNode(n)]
    BY DEF EnsureFlow
  <2>3. QED
    BY <1>1, <2>1, <2>2
<1>7. flow.state = "none" => /\ flow'.state = "active"
                             /\ flow'.definition = flow.definition
                             /\ flow'.current = flow.current
                             /\ flow'.version = flow.version
  BY <1>1, <1>2 DEF FlowRow
<1>8. QED
  BY <1>2, <1>4, <1>5, <1>6, <1>7

LEMMA HandoffEffect ==
  ASSUME NEW at, InitializePostDeparture(at)
  PROVE  /\ flow.state = "none" /\ flow'.state = "active"
         /\ flow'.definition = "post_departure"
         /\ flow'.current = Departure + 1 /\ flow'.version = 1
         /\ \A n \in Node :
              /\ node'[n].applicable
              /\ node'[n].state = IF n < Departure THEN "absent"
                                  ELSE IF n = Departure THEN "completed"
                                  ELSE IF n = Departure + 1 THEN "active"
                                  ELSE "pending"
         /\ UNCHANGED <<blocks, announced, request, overtaken>>
BY DEF InitializePostDeparture, Completed, Absent, Node

\* An executed decision sets one applicability.
LEMMA SetEffect ==
  ASSUME Types, NEW o \in Operator, SetApplicability(o)
  PROVE  /\ request[o] \in Request /\ request[o] # None
         /\ request[o].node \in Node
         /\ flow'.version = flow.version + 1 /\ flow'.state = flow.state
         /\ flow'.current = flow.current /\ flow'.definition = flow.definition
         /\ \A n \in Node : n # request[o].node => node'[n] = node[n]
         /\ node'[request[o].node].state =
              IF node[request[o].node].state = "absent" THEN "pending"
              ELSE node[request[o].node].state
         /\ node'[request[o].node].at = node[request[o].node].at
         /\ node'[request[o].node].applicable = request[o].applicable
         /\ UNCHANGED <<blocks, announced>>
         /\ \A p \in Operator : request'[p] # None => request'[p] = request[p]
<1>1. node \in [Node -> NodeRow] /\ flow \in FlowRow
      /\ request \in [Operator -> Request \cup {None}]
  BY DEF Types, TypeOK
<1>2. request[o] \in Request /\ request[o] # None
  BY <1>1 DEF SetApplicability
<1>3. request[o].node \in Node
  BY <1>2 DEF Request
<1>4. flow' = [flow EXCEPT !.version = @ + 1]
  BY DEF SetApplicability
<1>5. /\ flow'.version = flow.version + 1 /\ flow'.state = flow.state
      /\ flow'.current = flow.current /\ flow'.definition = flow.definition
  BY <1>1, <1>4 DEF FlowRow
<1>6. node' = [node EXCEPT ![request[o].node] =
                [state |-> IF @.state = "absent" THEN "pending" ELSE @.state,
                 applicable |-> request[o].applicable, at |-> @.at]]
  BY DEF SetApplicability
<1>7. /\ \A n \in Node : n # request[o].node => node'[n] = node[n]
      /\ node'[request[o].node] =
           [state |-> IF node[request[o].node].state = "absent" THEN "pending"
                      ELSE node[request[o].node].state,
            applicable |-> request[o].applicable,
            at |-> node[request[o].node].at]
  BY <1>1, <1>3, <1>6
<1>8. \A p \in Operator : request'[p] # None => request'[p] = request[p]
  BY <1>1 DEF SetApplicability
<1>9. QED
  BY <1>2, <1>3, <1>5, <1>7, <1>8 DEF SetApplicability

\* Blocks only touch the state of the current node.
LEMMA BlockEffect ==
  ASSUME Types, NEW n \in Node, Block(n) \/ Resolve(n)
  PROVE  /\ flow.state = "active" /\ flow.current = n
         /\ flow'.version = flow.version + 1 /\ flow'.state = flow.state
         /\ flow'.current = flow.current /\ flow'.definition = flow.definition
         /\ \A m \in Node : m # n => node'[m] = node[m] /\ blocks'[m] = blocks[m]
         /\ node[n].state \in {"active", "blocked"}
         /\ node'[n].state \in {"active", "blocked"}
         /\ node'[n].at = node[n].at
         /\ node'[n].applicable = node[n].applicable
         /\ UNCHANGED <<announced, request, overtaken>>
<1>1. node \in [Node -> NodeRow] /\ flow \in FlowRow /\ blocks \in [Node -> Nat]
  BY DEF Types, TypeOK
<1>2. flow' = [flow EXCEPT !.version = @ + 1]
  BY DEF Block, Resolve
<1>3. PICK s \in {"active", "blocked"} : node' = [node EXCEPT ![n].state = s]
  BY <1>1 DEF Block, Resolve
<1>4. node'[n] = [node[n] EXCEPT !.state = s]
  BY <1>1, <1>3
<1>5. /\ node'[n].state = s /\ node'[n].at = node[n].at
      /\ node'[n].applicable = node[n].applicable
  BY <1>1, <1>4 DEF NodeRow
<1>6. \A m \in Node : m # n => node'[m] = node[m] /\ blocks'[m] = blocks[m]
  BY <1>1, <1>3 DEF Block, Resolve
<1>7. /\ flow'.version = flow.version + 1 /\ flow'.state = flow.state
      /\ flow'.current = flow.current /\ flow'.definition = flow.definition
  BY <1>1, <1>2 DEF FlowRow
<1>8. QED
  BY <1>5, <1>6, <1>7 DEF Block, Resolve

-----------------------------------------------------------------------------
(* The flow is made once, and reads at its version are up to date.         *)

LEMMA FlowStays ==
  ASSUME Types, Reads, [Next]_vars, flow.state # "none"
  PROVE  flow'.state # "none" /\ flow'.definition = flow.definition
<1>1. CASE UNCHANGED <<flow, node>>
  BY <1>1
<1>2. CASE EnsureFlow
  BY <1>2, EnsureEffect
<1>3. ASSUME NEW at, InitializePostDeparture(at) PROVE FALSE
  BY <1>3 DEF InitializePostDeparture
<1>4. ASSUME NEW c \in Caller, Apply(c)
      PROVE  flow'.state # "none" /\ flow'.definition = flow.definition
  BY <1>4, ApplyEffect DEF Completes
<1>5. ASSUME NEW o \in Operator, SetApplicability(o)
      PROVE  flow'.state # "none" /\ flow'.definition = flow.definition
  BY <1>5, SetEffect
<1>6. ASSUME NEW n \in Node, Block(n) \/ Resolve(n)
      PROVE  flow'.state # "none" /\ flow'.definition = flow.definition
  BY <1>6, BlockEffect
<1>7. QED
  BY <1>1, <1>2, <1>3, <1>4, <1>5, <1>6, Moves DEF Move

\* Neither a node nor the fact that the flow reached it goes away, and absent
\* nodes appear as applicable ones.
LEMMA NodeStays ==
  ASSUME Types, Reads, Made, [Next]_vars, NEW n \in Node
  PROVE  /\ node[n].state # "absent" => node'[n].state # "absent"
         /\ node[n].state \notin {"absent", "pending"} =>
              node'[n].state \notin {"absent", "pending"}
         /\ node[n].state = "completed" =>
              node'[n].state = "completed" /\ node'[n].at = node[n].at
<1>1. CASE UNCHANGED <<flow, node>>
  BY <1>1
<1>2. CASE EnsureFlow
  BY <1>2, EnsureEffect
<1>3. ASSUME NEW at, InitializePostDeparture(at), Made PROVE node[n].state = "absent"
  BY <1>3 DEF InitializePostDeparture, Made, Nothing, Absent
<1>4. ASSUME NEW c \in Caller, Apply(c)
      PROVE  /\ node[n].state # "absent" => node'[n].state # "absent"
             /\ node[n].state \notin {"absent", "pending"} =>
                  node'[n].state \notin {"absent", "pending"}
             /\ node[n].state = "completed" =>
                  node'[n].state = "completed" /\ node'[n].at = node[n].at
  <2>1. PICK m \in Node, next \in Node \cup {0} : Completes(event[c], m, next)
    BY <1>4, ApplyEffect
  <2>2. CASE n = m
    BY <2>1, <2>2 DEF Completes
  <2>3. CASE n = next /\ n # m
    BY <2>1, <2>3 DEF Completes, Node
  <2>4. CASE n # next /\ n # m
    BY <2>1, <2>4 DEF Completes
  <2>5. QED
    BY <2>2, <2>3, <2>4
<1>5. ASSUME NEW o \in Operator, SetApplicability(o)
      PROVE  /\ node[n].state # "absent" => node'[n].state = node[n].state
             /\ node'[n].at = node[n].at
  BY <1>5, SetEffect
<1>6. ASSUME NEW m \in Node, Block(m) \/ Resolve(m)
      PROVE  /\ node[n].state # "absent" => node'[n].state # "absent"
             /\ node[n].state \notin {"absent", "pending"} =>
                  node'[n].state \notin {"absent", "pending"}
             /\ node[n].state = "completed" => node'[n] = node[n]
  BY <1>6, BlockEffect
<1>7. QED
  BY <1>1, <1>2, <1>3, <1>4, <1>5, <1>6, Moves DEF Move

LEMMA RequestStep ==
  ASSUME Types, [Next]_vars, NEW o \in Operator, request'[o] # None
  PROVE  \/ request'[o] = request[o]
         \/ flow.state # "none" /\ request'[o].node \in Optional
<1>1. CASE UNCHANGED vars
  BY <1>1 DEF vars
<1>2. ASSUME NEW c \in Caller, CallerStep(c) PROVE request' = request
  BY <1>2, CallerMoves
<1>3. CASE RowStep
  <2>1. ASSUME NEW p \in Operator, NEW r \in Asked, CheckApplicability(p, r)
        PROVE  \/ request'[o] = request[o]
               \/ flow.state # "none" /\ request'[o].node \in Optional
    BY <2>1 DEF CheckApplicability, MaySet, Types, TypeOK
  <2>2. ASSUME NEW p \in Operator, SetApplicability(p)
        PROVE  request'[o] = request[o]
    BY <2>2, SetEffect
  <2>3. ASSUME NEW n \in Node, Block(n) \/ Resolve(n)
        PROVE  request'[o] = request[o]
    BY <2>3, BlockEffect
  <2>4. QED
    BY <1>3, <2>1, <2>2, <2>3
       DEF RowStep, InitializeContainerFlow, InitializePostDeparture
<1>4. QED
  BY <1>1, <1>2, <1>3, Steps

\* Once a node is behind it, the flow's current node is there, the last node
\* applies, and absent nodes apply.
LEMMA MadeRows ==
  ASSUME Types, Reads, Made, [Next]_vars, flow'.state # "none"
  PROVE  /\ node'[flow'.current].state # "absent"
         /\ flow'.definition = "container" => Whole'
         /\ \A n \in Node : node'[n].state = "absent" => node'[n].applicable
         /\ node'[Last].applicable
         /\ flow'.state = "completed" => flow'.current = Last
<1> DEFINE Goal == /\ node'[flow'.current].state # "absent"
                   /\ flow'.definition = "container" => Whole'
                   /\ \A n \in Node : node'[n].state = "absent" => node'[n].applicable
                   /\ node'[Last].applicable
                   /\ flow'.state = "completed" => flow'.current = Last
<1>1. Last \in Node /\ flow.current \in Node /\ flow.state \in {"none", "active", "completed"}
  BY DEF Node, Types, TypeOK, FlowRow
<1>2. \A n \in Node : node[n].state # "absent" => node'[n].state # "absent"
  BY NodeStays
<1>3. CASE flow.state # "none" /\ UNCHANGED <<flow, node>>
  BY <1>3 DEF Made, Whole
<1>4. CASE EnsureFlow
  <2>1. flow'.current = flow.current
    BY <1>4, EnsureEffect
  <2>2. Whole' /\ node'[flow'.current].state # "absent"
    BY <1>1, <1>4, <2>1, EnsureEffect DEF Whole
  <2>3. \A n \in Node : node[n].state # "absent" => node'[n] = node[n]
    BY <1>4, EnsureEffect
  <2>4. node'[Last].applicable
    <3>1. CASE node[Last].state = "absent"
      BY <1>1, <1>4, <3>1, EnsureEffect
    <3>2. CASE node[Last].state # "absent"
      BY <1>1, <2>3, <3>2 DEF Made, Nothing, Absent
    <3>3. QED
      BY <3>1, <3>2
  <2>5. flow'.state = "completed" => flow'.current = Last
    BY <1>4, EnsureEffect DEF Made
  <2>6. QED
    BY <2>2, <2>4, <2>5 DEF Whole
<1>5. ASSUME NEW at, InitializePostDeparture(at) PROVE Goal
  BY <1>1, <1>5, HandoffEffect DEF Node
<1>6. ASSUME NEW c \in Caller, Apply(c) PROVE Goal
  <2>1. PICK m \in Node, next \in Node \cup {0} : Completes(event[c], m, next)
    BY <1>6, ApplyEffect
  <2>2. flow.state = "active"
    BY <2>1 DEF Completes
  <2>3. \A n \in Node : node'[n].applicable = node[n].applicable
    BY <2>1, CompletesApplicable
  <2>4. flow'.definition = flow.definition
    BY <2>1 DEF Completes
  <2>5. node'[flow'.current].state # "absent" /\ flow'.current \in Node
    BY <2>1 DEF Completes
  <2>6. flow'.state = "completed" => flow'.current = Last
    <3>1. flow'.state = "completed" =>
            flow'.current = m /\ \A l \in Node : l > m => ~ node[l].applicable
      BY <2>1 DEF Completes
    <3>2. QED
      BY <1>1, <2>2, <3>1 DEF Made, Node
  <2>7. \A n \in Node : node'[n].state = "absent" => node'[n].applicable
    BY <1>2, <2>2, <2>3 DEF Made
  <2>8. QED
    BY <1>1, <1>2, <2>2, <2>3, <2>4, <2>5, <2>6, <2>7 DEF Made, Whole
<1>7. ASSUME NEW o \in Operator, SetApplicability(o) PROVE Goal
  <2>1. flow.state # "none" /\ request[o].node \in Optional
    BY <1>7, SetEffect DEF Made
  <2>2. request[o].node # Last
    BY <2>1
  <2>3. node'[Last] = node[Last]
    BY <1>1, <1>7, <2>2, SetEffect
  <2>4. \A n \in Node : node'[n].state = "absent" => node'[n].applicable
    BY <1>7, <2>1, SetEffect DEF Made
  <2>5. /\ flow'.current = flow.current /\ flow'.definition = flow.definition
        /\ flow'.state = flow.state
    BY <1>7, SetEffect
  <2>6. QED
    BY <1>1, <1>2, <2>1, <2>3, <2>4, <2>5 DEF Made, Whole
<1>8. ASSUME NEW n \in Node, Block(n) \/ Resolve(n) PROVE Goal
  <2>1. flow.state # "none"
    BY <1>8, BlockEffect
  <2>2. \A m \in Node : node'[m].applicable = node[m].applicable
    BY <1>8, BlockEffect
  <2>3. /\ flow'.current = flow.current /\ flow'.definition = flow.definition
        /\ flow'.state = flow.state
    BY <1>8, BlockEffect
  <2>4. QED
    BY <1>1, <1>2, <2>1, <2>2, <2>3 DEF Made, Whole
<1>9. QED
  BY <1>3, <1>4, <1>5, <1>6, <1>7, <1>8, Moves DEF Move

LEMMA MadeStep ==
  ASSUME Types, Reads, Made, [Next]_vars
  PROVE  Made'
<1>1. \A c \in Caller : Past(c)' => Past(c) \/ Load(c)
  BY PastStep
<1>2. \A c \in Caller : Load(c) => Whole' /\ flow'.state # "none"
  BY EnsureEffect DEF Load
<1>3. \A o \in Operator : request'[o] # None =>
        \/ request'[o] = request[o]
        \/ flow.state # "none" /\ request'[o].node \in Optional
  BY RequestStep
<1>4. CASE flow'.state # "none"
  <2>1. (\E c \in Caller : Past(c)') => Whole'
    <3>1. ASSUME NEW c \in Caller, Past(c) PROVE Whole'
      BY <3>1, NodeStays DEF Made, Whole
    <3>2. QED
      BY <1>1, <1>2, <3>1
  <2>2. \A o \in Operator : request'[o] # None => request'[o].node \in Optional
    BY <1>3 DEF Made
  <2>3. QED
    BY <1>4, <2>1, <2>2, MadeRows DEF Made, Whole, Past
<1>5. CASE flow'.state = "none"
  <2>1. flow.state = "none"
    BY <1>5, FlowStays
  <2>2. \A c \in Caller : ~ Past(c)'
    BY <1>1, <1>2, <1>5, <2>1 DEF Made
  <2>3. \A o \in Operator : request'[o] = None
    BY <1>3, <2>1 DEF Made
  <2>4. UNCHANGED <<flow, node>>
    <3>1. CASE EnsureFlow
      BY <1>5, <2>1, <3>1, EnsureEffect
    <3>2. ASSUME NEW at, InitializePostDeparture(at) PROVE FALSE
      BY <1>5, <3>2, HandoffEffect
    <3>3. ASSUME NEW c \in Caller, Apply(c) PROVE FALSE
      BY <2>1, <3>3, ApplyEffect DEF Completes
    <3>4. ASSUME NEW o \in Operator, SetApplicability(o) PROVE FALSE
      BY <2>1, <3>4, SetEffect DEF Made
    <3>5. ASSUME NEW n \in Node, Block(n) \/ Resolve(n) PROVE FALSE
      BY <2>1, <3>5, BlockEffect
    <3>6. QED
      BY <3>1, <3>2, <3>3, <3>4, <3>5, Moves DEF Move
  <2>5. QED
    BY <1>5, <2>1, <2>2, <2>3, <2>4 DEF Made, Past, Nothing
<1>6. QED
  BY <1>4, <1>5

\* A step that changes the flow or its nodes under an execution that has read
\* them gives the flow a new version.
LEMMA VersionMoves ==
  ASSUME Types, Reads, Made, [Next]_vars, NEW c \in Caller, Past(c)
  PROVE  UNCHANGED <<flow, node>> \/ flow'.version = flow.version + 1
<1>1. flow.state # "none" /\ Whole
  BY DEF Made
<1>2. CASE EnsureFlow
  BY <1>1, <1>2, EnsureEffect
<1>3. ASSUME NEW at, InitializePostDeparture(at) PROVE FALSE
  BY <1>1, <1>3, HandoffEffect
<1>4. ASSUME NEW d \in Caller, Apply(d) PROVE flow'.version = flow.version + 1
  BY <1>4, ApplyEffect DEF Completes
<1>5. ASSUME NEW o \in Operator, SetApplicability(o)
      PROVE  flow'.version = flow.version + 1
  BY <1>5, SetEffect
<1>6. ASSUME NEW n \in Node, Block(n) \/ Resolve(n)
      PROVE  flow'.version = flow.version + 1
  BY <1>6, BlockEffect
<1>7. QED
  BY <1>2, <1>3, <1>4, <1>5, <1>6, Moves DEF Move

LEMMA ReadsStep ==
  ASSUME Types, Reads, Made, [Next]_vars
  PROVE  Reads'
<1> SUFFICES ASSUME NEW c \in Caller, pc'[c] \in {"look", "write"}
             PROVE  /\ seenFlow'[c].version <= flow'.version
                    /\ seenFlow'[c].version = flow'.version =>
                         seenFlow'[c].node = node'
  BY DEF Reads
<1>1. flow \in FlowRow /\ seenFlow[c] \in SeenFlow /\ flow' \in FlowRow
  BY TypesStep DEF Types, TypeOK
<1>2. flow.version \in Nat /\ seenFlow[c].version \in Nat /\ flow'.version \in Nat
  BY <1>1 DEF FlowRow, SeenFlow
<1>3. CASE pc[c] \in {"look", "write"} /\ seenFlow'[c] = seenFlow[c]
  <2>1. UNCHANGED <<flow, node>> \/ flow'.version = flow.version + 1
    BY <1>3, VersionMoves DEF Past
  <2>2. QED
    BY <1>2, <1>3, <2>1 DEF Reads
<1>4. CASE seenFlow'[c] = [version |-> flow'.version, node |-> node']
  BY <1>2, <1>4
<1>5. CASE RowStep \/ UNCHANGED vars
  <2>1. pc' = pc /\ seenFlow' = seenFlow
    BY <1>5, RowStepStays DEF locals
  <2>2. QED
    BY <1>3, <2>1
<1>6. ASSUME NEW d \in Caller, d # c, CallerStep(d)
      PROVE  pc[c] \in {"look", "write"} /\ seenFlow'[c] = seenFlow[c]
  <2>1. Local(c)' = Local(c)
    BY <1>6, OthersStay
  <2>2. QED
    BY <2>1 DEF Local
<1>7. CASE CallerStep(c)
  <2> USE DEF Goto, Types, TypeOK, locals
  <2>1. CASE Load(c)
    BY <1>4, <2>1 DEF Load, SeeFlow
  <2>2. CASE Reload(c)
    BY <1>4, <2>2 DEF Reload, rows
  <2>3. CASE Look(c)
    BY <1>3, <2>3, LeaveIs DEF Look, Continue
  <2>4. ASSUME NEW v \in Verdict, Record(c, v)
        PROVE  pc[c] \in {"look", "write"} /\ seenFlow'[c] = seenFlow[c]
    BY <2>4, LeaveIs DEF Record, Decide, Continue
  <2>5. ~ Leave(c)
    BY LeaveIs
  <2>6. ~ Apply(c) /\ ~ AlreadyApplied(c) /\ ~ ApplyConflict(c)
    BY <2>5 DEF Apply, AlreadyApplied, ApplyConflict
  <2>7. ~ AdvanceStatus(c) /\ ~ EnsureForTask(c) /\ ~ Announce(c) /\ ~ Crash(c)
    BY <2>5 DEF AdvanceStatus, EnsureForTask, Announce, Crash
  <2>8. \A e \in Event : ~ Begin(c, e)
    BY DEF Begin
  <2>9. QED
    BY <1>3, <1>7, <2>1, <2>2, <2>3, <2>4, <2>6, <2>7, <2>8 DEF CallerStep
<1>8. QED
  BY <1>3, <1>5, <1>6, <1>7, Steps

Core == Types /\ Reads /\ Made

LEMMA CoreInit == Init => Core
<1> SUFFICES ASSUME Init PROVE Core
  OBVIOUS
<1>1. Reads /\ Made
  BY DEF Init, Reads, Made, Past
<1>2. QED
  BY <1>1, TypesInit DEF Core

LEMMA CoreStep == Core /\ [Next]_vars => Core'
BY TypesStep, ReadsStep, MadeStep DEF Core

-----------------------------------------------------------------------------
(* Every completed node has one cause.                                     *)

Applied(e, n) == application[e][n] = "applied"

\* Only a write that goes through applies an event; a decision recorded late
\* neither adds nor removes an application.
LEMMA AppliedStep ==
  ASSUME Types, [Next]_vars, NEW e \in Event, NEW n \in Node
  PROVE  (Applied(e, n) <=> Applied(e, n)') \/ \E c \in Caller : Apply(c)
<1>1. CASE RowStep \/ UNCHANGED vars
  BY <1>1, RowStepStays DEF Applied
<1>2. ASSUME NEW c \in Caller, CallerStep(c), ~ Apply(c)
      PROVE  Applied(e, n) <=> Applied(e, n)'
  <2>1. ASSUME NEW v \in Verdict, Record(c, v)
        PROVE  Applied(e, n) <=> Applied(e, n)'
    <3>1. event[c] \in Event /\ Target(c) \in Node
      BY <2>1, DecideIs DEF Record
    <3>2. application' = [application EXCEPT ![event[c]][Target(c)] = Recorded(@, v)]
      BY <2>1 DEF Record
    <3>3. v # "applied"
      BY DEF Verdict
    <3>4. CASE e = event[c] /\ n = Target(c)
      <4>1. application'[e][n] = Recorded(application[e][n], v)
        BY <3>1, <3>2, <3>4 DEF Types, TypeOK
      <4>2. QED
        BY <3>3, <4>1 DEF Recorded, Applied
    <3>5. CASE ~ (e = event[c] /\ n = Target(c))
      BY <3>1, <3>2, <3>5 DEF Types, TypeOK, Applied
    <3>6. QED
      BY <3>4, <3>5
  <2>2. (\E v \in Verdict : Record(c, v)) \/ UNCHANGED application
    BY <1>2 DEF CallerStep, Begin, Load, Look, AlreadyApplied, ApplyConflict,
       Reload, AdvanceStatus, EnsureForTask, Announce, Crash, rows
  <2>3. QED
    BY <2>1, <2>2 DEF Applied
<1>3. QED
  BY <1>1, <1>2, Steps

OneCause ==
  \A n \in Node :
    /\ \A d, e \in Event : Applied(d, n) /\ Applied(e, n) => d = e
    /\ \A e \in Event : Applied(e, n) =>
         node[n].state = "completed" /\ node[n].at = At[e]
    /\ node[n].state = "completed" =>
         \/ \E e \in Event : Applied(e, n)
         \/ flow.definition = "post_departure" /\ n = Departure

\* Only an event or a handoff completes a node.
LEMMA CompletedStep ==
  ASSUME Core, [Next]_vars, NEW n \in Node,
         node'[n].state = "completed", node[n].state # "completed"
  PROVE  \/ \E c \in Caller : Apply(c)
         \/ flow'.definition = "post_departure" /\ n = Departure
<1> USE DEF Core
<1>1. CASE EnsureFlow
  BY <1>1, EnsureEffect
<1>2. ASSUME NEW at, InitializePostDeparture(at)
      PROVE  flow'.definition = "post_departure" /\ n = Departure
  BY <1>2, HandoffEffect
<1>3. ASSUME NEW o \in Operator, SetApplicability(o) PROVE FALSE
  BY <1>3, SetEffect
<1>4. ASSUME NEW m \in Node, Block(m) \/ Resolve(m) PROVE FALSE
  BY <1>4, BlockEffect
<1>5. QED
  BY <1>1, <1>2, <1>3, <1>4, Moves DEF Move

LEMMA OneCauseStep ==
  ASSUME Core, OneCause, [Next]_vars
  PROVE  OneCause'
<1> USE DEF Core
<1> SUFFICES ASSUME NEW n \in Node
             PROVE  /\ \A d, e \in Event : Applied(d, n)' /\ Applied(e, n)' => d = e
                    /\ \A e \in Event : Applied(e, n)' =>
                         node'[n].state = "completed" /\ node'[n].at = At[e]
                    /\ node'[n].state = "completed" =>
                         \/ \E e \in Event : Applied(e, n)'
                         \/ flow'.definition = "post_departure" /\ n = Departure
  BY DEF OneCause
<1>1. node[n].state = "completed" =>
        node'[n].state = "completed" /\ node'[n].at = node[n].at
  BY NodeStays
<1>2. node[n].state = "completed" => flow'.definition = flow.definition
  <2>1. node[n].state = "completed" => flow.state # "none"
    BY DEF Made, Nothing, Absent
  <2>2. QED
    BY <2>1, FlowStays
<1>3. CASE ~ \E c \in Caller : Apply(c)
  <2>1. \A e \in Event : Applied(e, n) <=> Applied(e, n)'
    BY <1>3, AppliedStep
  <2>2. node'[n].state = "completed" /\ node[n].state # "completed" =>
          flow'.definition = "post_departure" /\ n = Departure
    BY <1>3, CompletedStep
  <2>3. QED
    BY <1>1, <1>2, <2>1, <2>2 DEF OneCause
<1>4. ASSUME NEW c \in Caller, Apply(c)
      PROVE  /\ \A d, e \in Event : Applied(d, n)' /\ Applied(e, n)' => d = e
             /\ \A e \in Event : Applied(e, n)' =>
                  node'[n].state = "completed" /\ node'[n].at = At[e]
             /\ node'[n].state = "completed" =>
                  \/ \E e \in Event : Applied(e, n)'
                  \/ flow'.definition = "post_departure" /\ n = Departure
  <2>1. PICK m \in Node, next \in Node \cup {0} : Completes(event[c], m, next)
    BY <1>4, ApplyEffect
  <2> DEFINE b == event[c]
  <2>2. b \in Event
    BY <1>4, ApplyEffect DEF Types, TypeOK
  <2> HIDE DEF b
  <2>3. application' = [application EXCEPT ![b][m] = "applied"]
    BY <2>1 DEF Completes, b
  <2>4. application \in [Event -> [Node -> {"none", "pending", "applied", "rejected"}]]
    BY DEF Types, TypeOK
  <2>5. CASE n = m
    <3>1. \A e \in Event : ~ Applied(e, n)
      BY <2>1, <2>5 DEF Completes, OneCause
    <3>2. \A e \in Event : Applied(e, n)' <=> e = b
      BY <2>2, <2>3, <2>4, <2>5, <3>1 DEF Applied
    <3>3. node'[n].state = "completed" /\ node'[n].at = At[b]
      BY <2>1, <2>5 DEF Completes, b
    <3>4. QED
      BY <2>2, <3>2, <3>3
  <2>6. CASE n # m
    <3>1. \A e \in Event : Applied(e, n)' <=> Applied(e, n)
      BY <2>2, <2>3, <2>4, <2>6 DEF Applied
    <3>2. node'[n].state = "completed" => node[n].state = "completed"
      BY <2>1, <2>6 DEF Completes, Node
    <3>3. QED
      BY <1>1, <1>2, <3>1, <3>2 DEF OneCause
  <2>7. QED
    BY <2>5, <2>6
<1>5. QED
  BY <1>3, <1>4

LEMMA OneCauseInit == Init => OneCause
<1> SUFFICES ASSUME Init PROVE OneCause
  OBVIOUS
<1>1. \A e \in Event, n \in Node : ~ Applied(e, n)
  BY DEF Init, Applied
<1>2. \A n \in Node : node[n].state = "absent"
  BY DEF Init, Nothing, Absent
<1>3. QED
  BY <1>1, <1>2 DEF OneCause

LEMMA OneCauseIs == OneCause => CompletedByOneEvent
<1> SUFFICES ASSUME OneCause, NEW n \in Node
             PROVE  LET causes == {e \in Event : application[e][n] = "applied"}
                    IN  /\ Cardinality(causes) <= 1
                        /\ \A e \in causes :
                             node[n].state = "completed" /\ node[n].at = At[e]
                        /\ node[n].state = "completed" /\ causes = {} =>
                             flow.definition = "post_departure" /\ n = Departure
  BY DEF CompletedByOneEvent
<1> DEFINE causes == {e \in Event : application[e][n] = "applied"}
<1>1. Cardinality(causes) <= 1
  <2>1. \A d, e \in causes : d = e
    BY DEF OneCause, Applied
  <2>2. causes = {} \/ \E e \in causes : causes = {e}
    BY <2>1
  <2> HIDE DEF causes
  <2>3. QED
    <3>1. CASE causes = {}
      BY <3>1, FS_EmptySet
    <3>2. ASSUME NEW e \in causes, causes = {e} PROVE Cardinality(causes) <= 1
      <4>1. Cardinality(causes) = 1
        BY <3>2, FS_Singleton, Zenon
      <4>2. QED
        BY <4>1
    <3>3. QED
      BY <2>2, <3>1, <3>2
<1>2. QED
  BY <1>1 DEF OneCause, Applied

\* A node is completed by exactly one event, whose time it shows, whichever
\* executions of whichever events race for it.
THEOREM CompletedOnce == Spec => []CompletedByOneEvent
<1>1. Init => Core /\ OneCause
  BY CoreInit, OneCauseInit
<1>2. (Core /\ OneCause) /\ [Next]_vars => (Core /\ OneCause)'
  BY CoreStep, OneCauseStep
<1>3. QED
  BY <1>1, <1>2, OneCauseIs, PTL DEF Spec

\* What is applied stays applied.
LEMMA AppliedStays ==
  ASSUME Core, [Next]_vars, NEW e \in Event, NEW n \in Node, Applied(e, n)
  PROVE  Applied(e, n)'
<1>1. ASSUME NEW c \in Caller, Apply(c) PROVE Applied(e, n)'
  <2>1. PICK m \in Node, next \in Node \cup {0} : Completes(event[c], m, next)
    BY <1>1, ApplyEffect DEF Core
  <2>2. application \in [Event -> [Node -> {"none", "pending", "applied", "rejected"}]]
        /\ event[c] \in Event
    BY <1>1, ApplyEffect DEF Core, Types, TypeOK
  <2>3. application' = [application EXCEPT ![event[c]][m] = "applied"]
    BY <2>1 DEF Completes
  <2>4. QED
    BY <2>2, <2>3 DEF Applied
<1>2. QED
  BY <1>1, AppliedStep DEF Core

-----------------------------------------------------------------------------
(* The status is that of an event that happened.                           *)

\* What an execution counts as done was applied for its own event, and only an
\* event for no node is fresh.
Evidence ==
  \A c \in Caller :
    /\ pc[c] = "idle" => done[c] = {}
    /\ pc[c] # "idle" =>
         /\ todo[c] \subseteq Targets[event[c]]
         /\ \A n \in done[c] : n \in Targets[event[c]] /\ Applied(event[c], n)
         /\ fresh[c] => Targets[event[c]] = {}

LEMMA EvidenceStep ==
  ASSUME Core, Evidence, [Next]_vars
  PROVE  Evidence'
<1> SUFFICES ASSUME NEW c \in Caller
             PROVE  /\ pc'[c] = "idle" => done'[c] = {}
                    /\ pc'[c] # "idle" =>
                         /\ todo'[c] \subseteq Targets[event'[c]]
                         /\ \A n \in done'[c] :
                              /\ n \in Targets[event'[c]]
                              /\ application'[event'[c]][n] = "applied"
                         /\ fresh'[c] => Targets[event'[c]] = {}
  BY DEF Evidence, Applied
<1> USE DEF Core
<1>1. /\ pc \in [Caller -> {"idle", "load", "look", "write", "reload",
                            "status", "ensure", "announce"}]
      /\ event \in [Caller -> Event \cup {None}]
      /\ fresh \in [Caller -> BOOLEAN]
      /\ todo \in [Caller -> SUBSET Node]
      /\ done \in [Caller -> SUBSET Node]
      /\ pc[c] # "idle" => event[c] \in Event
  BY DEF Types, TypeOK, Busy
<1>2. \A e \in Event, n \in Node : application[e][n] = "applied" =>
                                  application'[e][n] = "applied"
  BY AppliedStays DEF Applied
<1>3. CASE /\ pc[c] # "idle" /\ pc'[c] # "idle" /\ event'[c] = event[c]
           /\ fresh'[c] = fresh[c]
           /\ todo'[c] \subseteq todo[c] /\ done'[c] = done[c]
  BY <1>1, <1>2, <1>3 DEF Evidence, Applied
<1>4. CASE UNCHANGED <<pc[c], event[c], fresh[c], todo[c], done[c]>>
  BY <1>1, <1>2, <1>4 DEF Evidence, Applied
<1>5. CASE RowStep \/ UNCHANGED vars
  BY <1>4, <1>5, RowStepStays DEF locals
<1>6. ASSUME NEW d \in Caller, d # c, CallerStep(d)
      PROVE  UNCHANGED <<pc[c], event[c], fresh[c], todo[c], done[c]>>
  <2>1. Local(c)' = Local(c)
    BY <1>6, OthersStay
  <2>2. QED
    BY <2>1 DEF Local
<1>7. CASE Leave(c)
  BY <1>7, LeaveIs
<1>8. CASE Continue(c) /\ UNCHANGED <<event, fresh, done>> /\ pc[c] # "idle"
  BY <1>1, <1>3, <1>8 DEF Continue, Goto
<1>9. CASE CallerStep(c)
  <2> USE DEF Goto, locals
  <2>1. ASSUME NEW e \in Event, Begin(c, e)
        PROVE  /\ pc'[c] # "idle" /\ done'[c] = {}
               /\ todo'[c] \subseteq Targets[event'[c]]
               /\ fresh'[c] => Targets[event'[c]] = {}
    BY <1>1, <2>1 DEF Begin, Evidence
  <2>2. CASE Load(c) \/ Reload(c) \/ AlreadyApplied(c) \/ EnsureForTask(c)
    BY <1>1, <1>3, <2>2 DEF Load, Reload, AlreadyApplied, Decide, EnsureForTask
  <2>3. CASE Look(c)
    BY <1>1, <1>3, <1>7, <1>8, <2>3 DEF Look
  <2>4. ASSUME NEW v \in Verdict, Record(c, v)
        PROVE  Leave(c) \/ (Continue(c) /\ UNCHANGED <<event, fresh, done>> /\ pc[c] # "idle")
    BY <2>4 DEF Record, Decide
  <2>5. CASE Apply(c)
    <3>1. PICK n \in todo[c], next \in Node \cup {0} :
            /\ pc[c] = "write" /\ pc'[c] = "reload" /\ n \in Node
            /\ Completes(event[c], n, next)
            /\ todo'[c] = todo[c] \ {n} /\ done'[c] = done[c] \cup {n}
            /\ UNCHANGED <<event, fresh>>
      BY <2>5, ApplyEffect
    <3>2. application'[event'[c]][n] = "applied"
      <4>1. application' = [application EXCEPT ![event[c]][n] = "applied"]
            /\ event' = event
        BY <3>1 DEF Completes
      <4>2. event[c] \in Event /\ n \in Node
        BY <1>1, <3>1
      <4>3. application \in [Event -> [Node -> {"none", "pending", "applied", "rejected"}]]
        BY DEF Types, TypeOK
      <4>4. application'[event[c]][n] = "applied"
        BY <4>1, <4>2, <4>3
      <4>5. QED
        BY <4>1, <4>4
    <3>3. QED
      BY <1>1, <1>2, <3>1, <3>2 DEF Evidence, Applied
  <2>6. CASE AdvanceStatus(c)
    <3>1. CASE done[c] = {}
      BY <1>7, <2>6, <3>1 DEF AdvanceStatus
    <3>2. CASE done[c] # {}
      BY <1>1, <1>3, <2>6, <3>2 DEF AdvanceStatus
    <3>3. QED
      BY <3>1, <3>2
  <2>7. CASE ApplyConflict(c) \/ Announce(c) \/ Crash(c)
    BY <1>7, <2>7 DEF ApplyConflict, Announce, Crash
  <2>8. QED
    BY <1>7, <1>8, <1>9, <2>1, <2>2, <2>3, <2>4, <2>5, <2>6, <2>7 DEF CallerStep
<1>10. QED
  BY <1>4, <1>5, <1>6, <1>9, Steps

LEMMA StatusStep ==
  ASSUME Core, Evidence, StatusIsExplained, [Next]_vars
  PROVE  StatusIsExplained'
<1> USE DEF Core
<1>1. saved \subseteq Event /\ saved \subseteq saved'
  <2>1. ASSUME NEW c \in Caller, CallerStep(c) PROVE saved \subseteq saved'
    BY <2>1 DEF CallerStep, Begin, Load, Look, Record, Apply, AlreadyApplied,
       ApplyConflict, Reload, AdvanceStatus, EnsureForTask, Announce, Crash, rows
  <2>2. QED
    BY <2>1, RowStepStays, Steps DEF Types, TypeOK
<1>2. \A e \in Event, n \in Node : Applied(e, n) => Applied(e, n)'
  BY AppliedStays
<1>3. CASE status' = status
  <2>1. SUFFICES ASSUME status # 0 PROVE StatusIsExplained'
    BY <1>3 DEF StatusIsExplained
  <2>2. PICK e \in saved :
          /\ StatusOf[e] = status
          /\ Targets[e] = {} \/ \E n \in Targets[e] : Applied(e, n)
    BY <2>1 DEF StatusIsExplained, Applied
  <2>3. e \in saved' /\ e \in Event /\ Targets[e] \subseteq Node
    BY <1>1
  <2>4. Targets[e] = {} \/ \E n \in Targets[e] : Applied(e, n)'
    BY <1>2, <2>2, <2>3
  <2>5. QED
    BY <1>3, <2>2, <2>3, <2>4 DEF StatusIsExplained, Applied
<1>4. ASSUME NEW c \in Caller, AdvanceStatus(c), status' # status
      PROVE  StatusIsExplained'
  <2>1. /\ pc[c] = "status" /\ Advances(c) /\ status' = StatusOf[event[c]]
        /\ UNCHANGED <<saved, application>>
    BY <1>4 DEF AdvanceStatus
  <2>2. event[c] \in saved
    BY <2>1 DEF Types, Busy
  <2>3. Targets[event[c]] = {} \/ \E n \in Targets[event[c]] : Applied(event[c], n)
    BY <2>1 DEF Advances, Evidence
  <2>4. QED
    BY <2>1, <2>2, <2>3 DEF StatusIsExplained, Applied
<1>5. ASSUME NEW c \in Caller, CallerStep(c), ~ AdvanceStatus(c)
      PROVE  status' = status
  BY <1>5 DEF CallerStep, Begin, Load, Look, Record, Apply, AlreadyApplied,
     ApplyConflict, Reload, EnsureForTask, Announce, Crash, rows
<1>6. QED
  BY <1>3, <1>4, <1>5, RowStepStays, Steps

LEMMA EvidenceInit == Init => Evidence /\ StatusIsExplained
BY DEF Init, Evidence, StatusIsExplained

\* The status that a container shows is that of an event that completed one of
\* its nodes or concerns none, however the executions that write it race.
THEOREM StatusExplained == Spec => []StatusIsExplained
<1>1. Init => Core /\ Evidence /\ StatusIsExplained
  BY CoreInit, EvidenceInit
<1>2. (Core /\ Evidence /\ StatusIsExplained) /\ [Next]_vars =>
        (Core /\ Evidence /\ StatusIsExplained)'
  BY CoreStep, EvidenceStep, StatusStep
<1>3. QED
  BY <1>1, <1>2, PTL DEF Spec

-----------------------------------------------------------------------------
(* The flow is a line.                                                     *)

\* OneOpenNode, node by node.
Place(n) ==
  IF n < flow.current
  THEN node[n].state = IF node[n].applicable THEN "completed" ELSE "pending"
  ELSE IF n = flow.current
  THEN /\ node[n].applicable
       /\ node[n].state \in IF flow.state = "active" THEN {"active", "blocked"}
                            ELSE {"completed"}
  ELSE node[n].state = "pending"

Line == Regular /\ flow.state # "none" => \A n \in Node : Place(n)

LEMMA LineIs == Types /\ Line => OneOpenNode
<1> SUFFICES ASSUME Types, Line, Regular, flow.state # "none"
             PROVE  /\ \A n \in Before(flow.current) :
                         node[n].state = IF node[n].applicable THEN "completed"
                                         ELSE "pending"
                    /\ node[flow.current].applicable
                    /\ node[flow.current].state \in
                         IF flow.state = "active" THEN {"active", "blocked"}
                         ELSE {"completed"}
                    /\ \A n \in Node : n > flow.current => node[n].state = "pending"
  BY DEF OneOpenNode
<1>1. flow.current \in Node
  BY DEF Types, TypeOK, FlowRow
<1>2. \A n \in Node : Place(n)
  BY DEF Line
<1>3. \A n \in Before(flow.current) : n \in Node /\ n < flow.current
  BY <1>1, BeforeIs
<1>4. \A n \in Node : n > flow.current => ~ (n < flow.current) /\ n # flow.current
  BY <1>1 DEF Node
<1>5. ~ (flow.current < flow.current)
  BY <1>1 DEF Node
<1>6. QED
  BY <1>1, <1>2, <1>3, <1>4, <1>5 DEF Place

\* A decision that overtook the flow is not forgotten.
LEMMA OvertakenStays ==
  ASSUME [Next]_vars
  PROVE  overtaken \subseteq overtaken'
<1>1. ASSUME NEW c \in Caller, CallerStep(c) PROVE overtaken' = overtaken
  BY <1>1, CallerMoves
<1>2. CASE RowStep
  BY <1>2 DEF RowStep, InitializeContainerFlow, InitializePostDeparture,
     CheckApplicability, SetApplicability, Block, Resolve
<1>3. QED
  BY <1>1, <1>2, Steps DEF vars

LEMMA RegularStays ==
  ASSUME Core, [Next]_vars, flow.state # "none", Regular'
  PROVE  Regular
BY FlowStays, OvertakenStays DEF Core, Regular

\* In a regular flow an event completes the current node.
LEMMA CompletesCurrent ==
  ASSUME Core, Line, Regular, NEW e \in Event, NEW n \in Node,
         NEW next \in Node \cup {0}, Completes(e, n, next)
  PROVE  n = flow.current /\ flow.current \in Node
<1>1. flow.current \in Node /\ flow.state = "active"
  BY DEF Core, Types, TypeOK, FlowRow, Completes
<1>2. \A m \in Node : Place(m)
  BY <1>1 DEF Line
<1>3. CASE n < flow.current
  BY <1>2, <1>3 DEF Place, Completes
<1>4. CASE flow.current < n
  <2>1. ~ Open(node[flow.current])
    BY <1>1, <1>4, BeforeIs DEF Completes
  <2>2. Place(flow.current) /\ ~ (flow.current < flow.current)
    BY <1>1, <1>2 DEF Node
  <2>3. QED
    BY <1>1, <2>1, <2>2 DEF Open, Place
<1>5. QED
  BY <1>1, <1>3, <1>4 DEF Node

LEMMA LineStep ==
  ASSUME Core, Line, [Next]_vars
  PROVE  Line'
<1> USE DEF Core
<1> SUFFICES ASSUME Regular', flow'.state # "none", NEW n \in Node
             PROVE  Place(n)'
  BY DEF Line
<1>1. flow.state # "none" => Regular /\ \A m \in Node : Place(m)
  BY RegularStays DEF Line
<1>2. flow.current \in Node /\ flow.state \in {"none", "active", "completed"}
  BY DEF Types, TypeOK, FlowRow
<1>3. CASE UNCHANGED <<flow, node>>
  BY <1>1, <1>3 DEF Place
<1>4. CASE EnsureFlow
  <2>1. CASE flow.state # "none"
    <3>1. UNCHANGED <<flow, node>>
      BY <1>1, <1>4, <2>1, EnsureEffect DEF Made, Regular
    <3>2. QED
      BY <1>3, <3>1
  <2>2. CASE flow.state = "none"
    <3>1. flow.current = 1 /\ node[n].state = "absent"
      BY <2>2 DEF Made, Nothing, Absent
    <3>2. /\ flow'.current = 1 /\ flow'.state = "active" /\ node'[n].applicable
          /\ node'[n].state = IF n = 1 THEN "active" ELSE "pending"
      BY <1>4, <2>2, <3>1, EnsureEffect
    <3>3. ~ (n < 1)
      BY DEF Node
    <3>4. QED
      BY <3>2, <3>3 DEF Place
  <2>3. QED
    BY <2>1, <2>2
<1>5. ASSUME NEW at, InitializePostDeparture(at) PROVE FALSE
  BY <1>5, HandoffEffect DEF Regular
<1>6. ASSUME NEW c \in Caller, Apply(c) PROVE Place(n)'
  <2>1. PICK m \in Node, next \in Node \cup {0} : Completes(event[c], m, next)
    BY <1>6, ApplyEffect
  <2>2. event[c] \in Event
    BY <1>6, ApplyEffect DEF Types, TypeOK
  <2>3. flow.state = "active"
    BY <2>1 DEF Completes
  <2>4. m = flow.current /\ Place(n)
    BY <1>1, <2>1, <2>2, <2>3, CompletesCurrent
  <2>5. CASE n < m
    <3>1. (next = 0 /\ flow'.current = m) \/ (next > m /\ flow'.current = next)
      BY <2>1 DEF Completes
    <3>2. n # m /\ n # next /\ n < flow'.current
      BY <2>5, <3>1 DEF Node
    <3>3. node'[n] = node[n]
      BY <2>1, <3>2 DEF Completes
    <3>4. QED
      BY <2>4, <2>5, <3>2, <3>3 DEF Place
  <2>6. CASE n = m
    <3>1. n < flow'.current \/ n = flow'.current
      BY <2>1, <2>6 DEF Completes, Node
    <3>2. n = flow'.current => flow'.state = "completed" /\ ~ (n < flow'.current)
      BY <2>1, <2>6 DEF Completes, Node
    <3>3. node'[n].state = "completed" /\ node'[n].applicable
      BY <2>1, <2>6 DEF Completes
    <3>4. QED
      BY <3>1, <3>2, <3>3 DEF Place
  <2>7. CASE m < n
    <3>1. node[n].state = "pending"
      BY <2>4, <2>7 DEF Place, Node
    <3>2. CASE next = 0
      <4>1. node'[n] = node[n] /\ flow'.current = m
        BY <2>1, <2>7, <3>2 DEF Completes, Node
      <4>2. ~ (n < m) /\ n # m
        BY <2>7 DEF Node
      <4>3. QED
        BY <3>1, <4>1, <4>2 DEF Place
    <3>3. CASE next \in Node /\ n < next
      <4>1. n # m /\ n # next /\ next # 0
        BY <2>7, <3>3 DEF Node
      <4>2. flow'.current = next /\ ~ node[n].applicable
        BY <2>1, <2>7, <3>3, <4>1 DEF Completes
      <4>3. node'[n] = node[n]
        BY <2>1, <4>1 DEF Completes
      <4>4. QED
        BY <3>1, <3>3, <4>2, <4>3 DEF Place
    <3>4. CASE next \in Node /\ n = next
      <4>1. /\ flow'.current = n /\ flow'.state = "active"
            /\ node'[n].applicable /\ node'[n].state = "active"
        BY <2>1, <2>7, <3>1, <3>4 DEF Completes, Node
      <4>2. ~ (n < n)
        BY DEF Node
      <4>3. QED
        BY <4>1, <4>2 DEF Place
    <3>5. CASE next \in Node /\ next < n
      <4>1. flow'.current = next /\ node'[n] = node[n]
        BY <2>1, <2>7, <3>5 DEF Completes, Node
      <4>2. ~ (n < next) /\ n # next
        BY <3>5 DEF Node
      <4>3. QED
        BY <3>1, <4>1, <4>2 DEF Place
    <3>6. QED
      BY <2>1, <3>2, <3>3, <3>4, <3>5 DEF Node
  <2>8. QED
    BY <2>5, <2>6, <2>7 DEF Node
<1>7. ASSUME NEW o \in Operator, SetApplicability(o) PROVE Place(n)'
  <2>1. flow.state # "none" /\ Place(n) /\ node[n].state # "absent"
    BY <1>1, <1>7, SetEffect DEF Made, Regular, Whole
  <2>2. flow'.current = flow.current /\ flow'.state = flow.state
    BY <1>7, SetEffect
  <2>3. CASE n # request[o].node
    BY <1>7, <2>1, <2>2, <2>3, SetEffect DEF Place
  <2>4. CASE n = request[o].node
    <3>1. node'[n].state = node[n].state
      BY <1>7, <2>1, <2>4, SetEffect
    <3>2. overtaken' = {}
      BY DEF Regular
    <3>3. CASE node[n].applicable = request[o].applicable
      <4>1. node'[n].applicable = node[n].applicable
        BY <1>7, <2>4, <3>3, SetEffect
      <4>2. QED
        BY <2>1, <2>2, <3>1, <4>1 DEF Place
    <3>4. CASE ~ Reached(n)
      <4>1. ~ (flow.current >= n)
        <5>1. node[flow.current].state \notin {"absent", "pending"}
          <6>1. Place(flow.current) /\ ~ (flow.current < flow.current)
            BY <1>1, <1>2, <2>1 DEF Node
          <6>2. QED
            BY <6>1 DEF Place
        <5>2. QED
          BY <1>2, <3>4, <5>1 DEF Reached
      <4>2. ~ (n < flow.current) /\ n # flow.current
        BY <1>2, <4>1 DEF Node
      <4>3. QED
        BY <2>1, <2>2, <3>1, <4>2 DEF Place
    <3>5. QED
      BY <1>7, <2>4, <3>2, <3>3, <3>4 DEF SetApplicability
  <2>5. QED
    BY <2>3, <2>4
<1>8. ASSUME NEW m \in Node, Block(m) \/ Resolve(m) PROVE Place(n)'
  <2>1. flow.state = "active" /\ Place(n) /\ m = flow.current
    BY <1>1, <1>8, BlockEffect
  <2>2. flow'.current = flow.current /\ flow'.state = flow.state
    BY <1>8, BlockEffect
  <2>3. CASE n # m
    <3>1. node'[n] = node[n]
      BY <1>8, <2>3, BlockEffect
    <3>2. QED
      BY <2>1, <2>2, <3>1 DEF Place
  <2>4. CASE n = m
    <3>1. /\ node'[n].state \in {"active", "blocked"}
          /\ node'[n].applicable = node[n].applicable
      BY <1>8, <2>4, BlockEffect
    <3>2. ~ (n < flow.current)
      BY <2>1, <2>4 DEF Node
    <3>3. QED
      BY <2>1, <2>2, <2>4, <3>1, <3>2 DEF Place
  <2>5. QED
    BY <2>3, <2>4
<1>9. QED
  BY <1>3, <1>4, <1>5, <1>6, <1>7, <1>8, Moves DEF Move

LEMMA LineInit == Init => Line
BY DEF Init, Line

\* A flow that was created whole and that no decision overtook has exactly one
\* open node, however executions, decisions and blocks interleave.
THEOREM FlowIsALine == Spec => []OneOpenNode
<1>1. Init => Core /\ Line
  BY CoreInit, LineInit
<1>2. (Core /\ Line) /\ [Next]_vars => (Core /\ Line)'
  BY CoreStep, LineStep
<1>3. Core /\ Line => OneOpenNode
  BY LineIs DEF Core
<1>4. QED
  BY <1>1, <1>2, <1>3, PTL DEF Spec

-----------------------------------------------------------------------------
(* Times are in order and history is sealed.                               *)

LEMMA TimesStep ==
  ASSUME Core, Line, TimesInOrder, [Next]_vars
  PROVE  TimesInOrder'
<1> USE DEF Core
<1> SUFFICES ASSUME Regular', NEW n \in Node, NEW m \in Node, n < m,
                    node'[n].state = "completed", node'[m].state = "completed"
             PROVE  node'[n].at <= node'[m].at
  BY DEF TimesInOrder
<1>1. ASSUME NEW l \in Node, node'[l].state = "completed", ~ \E c \in Caller : Apply(c)
      PROVE  node[l].state = "completed"
  BY <1>1, CompletedStep DEF Regular
<1>2. \A l \in Node : node[l].state = "completed" => node'[l].at = node[l].at
  BY NodeStays
<1>3. \A l \in Node : node[l].state = "completed" => flow.state # "none"
  BY DEF Made, Nothing, Absent
<1>4. CASE node[n].state = "completed" /\ node[m].state = "completed"
  BY <1>2, <1>3, <1>4, RegularStays DEF TimesInOrder
<1>5. ASSUME NEW c \in Caller, Apply(c) PROVE node'[n].at <= node'[m].at
  <2>1. PICK k \in Node, next \in Node \cup {0} : Completes(event[c], k, next)
    BY <1>5, ApplyEffect
  <2>2. event[c] \in Event
    BY <1>5, ApplyEffect DEF Types, TypeOK
  <2>3. flow.state = "active" /\ Regular
    BY <2>1, RegularStays DEF Completes
  <2>4. k = flow.current
    BY <2>1, <2>2, <2>3, CompletesCurrent
  <2>5. \A l \in Node : l # k /\ node'[l].state = "completed" =>
          node[l].state = "completed"
    BY <2>1 DEF Completes, Node
  <2>6. \A l \in Node : node[l].state = "completed" => l < k \/ l = k
    <3>1. ASSUME NEW l \in Node, ~ (l < k), l # k
          PROVE  node[l].state = "pending"
      BY <2>3, <2>4, <3>1 DEF Line, Place
    <3>2. QED
      BY <3>1
  <2>7. ~ (k < n) /\ ~ (k < m)
    BY <2>5, <2>6 DEF Node
  <2>8. n # k
    BY <2>7
  <2>9. CASE m = k
    <3>1. n \in Before(k) /\ node[n].state = "completed"
      BY <2>5, <2>8, <2>9, BeforeIs
    <3>2. node[n].at <= At[event[c]] /\ node'[m].at = At[event[c]]
      BY <2>1, <2>9, <3>1 DEF Completes
    <3>3. QED
      BY <1>2, <3>1, <3>2
  <2>10. QED
    BY <1>4, <2>5, <2>8, <2>9
<1>6. QED
  BY <1>1, <1>4, <1>5

\* Actual times never decrease along the completed nodes of a regular flow,
\* whatever order the events arrive in.
THEOREM TimesStayInOrder == Spec => []TimesInOrder
<1>1. Init => Core /\ Line /\ TimesInOrder
  <2>1. Init => TimesInOrder
    BY DEF Init, Nothing, Absent, TimesInOrder
  <2>2. QED
    BY <2>1, CoreInit, LineInit
<1>2. (Core /\ Line /\ TimesInOrder) /\ [Next]_vars =>
        (Core /\ Line /\ TimesInOrder)'
  BY CoreStep, LineStep, TimesStep
<1>3. QED
  BY <1>1, <1>2, PTL DEF Spec

\* The stages of a regular flow are passed in their order.
LEMMA CurrentStep ==
  ASSUME Core, Line, [Next]_vars, Regular', flow.state # "none"
  PROVE  flow'.current >= flow.current
<1> USE DEF Core
<1>1. flow.current \in Nat
  BY DEF Types, TypeOK, FlowRow, Node
<1>2. CASE UNCHANGED <<flow, node>> \/ EnsureFlow
  BY <1>1, <1>2, EnsureEffect
<1>3. ASSUME NEW at, InitializePostDeparture(at) PROVE FALSE
  BY <1>3, HandoffEffect
<1>4. ASSUME NEW c \in Caller, Apply(c) PROVE flow'.current >= flow.current
  <2>1. PICK k \in Node, next \in Node \cup {0} : Completes(event[c], k, next)
    BY <1>4, ApplyEffect
  <2>2. event[c] \in Event
    BY <1>4, ApplyEffect DEF Types, TypeOK
  <2>3. k = flow.current
    BY <2>1, <2>2, RegularStays, CompletesCurrent
  <2>4. flow'.current = k \/ (flow'.current = next /\ next \in Node /\ next > k)
    BY <2>1 DEF Completes
  <2>5. QED
    BY <1>1, <2>3, <2>4 DEF Node
<1>5. ASSUME NEW o \in Operator, SetApplicability(o)
      PROVE  flow'.current = flow.current
  BY <1>5, SetEffect
<1>6. ASSUME NEW n \in Node, Block(n) \/ Resolve(n)
      PROVE  flow'.current = flow.current
  BY <1>6, BlockEffect
<1>7. QED
  BY <1>1, <1>2, <1>3, <1>4, <1>5, <1>6, Moves DEF Move

\* R3: completed nodes and applied events stay as they are, and a regular flow
\* does not return to an earlier stage.
THEOREM HistoryStaysSealed == Spec => HistorySealed
<1> DEFINE Sealed ==
      /\ \A n \in Node : node[n].state = "completed" =>
           node'[n].state = "completed" /\ node'[n].at = node[n].at
      /\ \A e \in Event, n \in Node :
           application[e][n] = "applied" => application'[e][n] = "applied"
      /\ Regular' /\ flow.state # "none" => flow'.current >= flow.current
<1>1. Init => Core /\ Line
  BY CoreInit, LineInit
<1>2. (Core /\ Line) /\ [Next]_vars => (Core /\ Line)'
  BY CoreStep, LineStep
<1>3. (Core /\ Line) /\ [Next]_vars => Sealed
  <2> SUFFICES ASSUME Core, Line, [Next]_vars PROVE Sealed
    OBVIOUS
  <2>1. \A n \in Node : node[n].state = "completed" =>
          node'[n].state = "completed" /\ node'[n].at = node[n].at
    BY NodeStays DEF Core
  <2>2. \A e \in Event, n \in Node :
          application[e][n] = "applied" => application'[e][n] = "applied"
    BY AppliedStays DEF Applied
  <2>3. QED
    BY <2>1, <2>2, CurrentStep
<1>4. Spec => [][Sealed]_vars
  <2> HIDE DEF Sealed
  <2> QED
    BY <1>1, <1>2, <1>3, PTL DEF Spec
<1>5. QED
  BY <1>4 DEF HistorySealed

-----------------------------------------------------------------------------
(* Only reached nodes are announced.                                       *)

\* The node whose task an execution is about to announce, or 0.
Announcing(c) == NextNode(seenFlow[c].node, Farthest(c))

\* What an execution is about to announce has been reached, as far as it has
\* read a flow that is still regular.
Heard ==
  Regular => \A c \in Caller : pc[c] = "announce" =>
    Announcing(c) = 0 \/ node[Announcing(c)].state \notin {"absent", "pending"}

\* After the nodes that an event completed comes the current node or one
\* before it, or nothing.
LEMMA NextIsReached ==
  ASSUME Core, Line, Regular, flow.state # "none",
         NEW f \in Node, node[f].state = "completed"
  PROVE  \/ NextNode(node, f) = 0
         \/ /\ NextNode(node, f) \in Node
            /\ node[NextNode(node, f)].state \notin {"absent", "pending"}
<1> DEFINE next == NextNode(node, f)
<1>1. /\ flow.current \in Node /\ node \in [Node -> NodeRow]
      /\ flow.state \in {"active", "completed"}
  BY DEF Core, Types, TypeOK, FlowRow
<1>2. \A n \in Node : Place(n)
  BY DEF Line
<1>3. \/ next = 0
      \/ /\ next \in Node /\ next > f /\ node[next].applicable
         /\ \A m \in Node : f < m /\ m < next => ~ node[m].applicable
  BY <1>1, NextNodeIs
<1> HIDE DEF next
<1>4. Place(flow.current) /\ ~ (flow.current < flow.current)
  BY <1>1, <1>2 DEF Node
<1>5. CASE f = flow.current
  <2>1. flow.state = "completed"
    BY <1>1, <1>4, <1>5 DEF Place
  <2>2. f = Last
    BY <1>5, <2>1 DEF Core, Made
  <2>3. ~ (next \in Node /\ next > f)
    BY <2>2 DEF Node
  <2>4. QED
    BY <1>3, <2>3 DEF next
<1>6. CASE f < flow.current /\ next # 0
  <2>1. node[flow.current].applicable
    BY <1>4 DEF Place
  <2>2. ~ (flow.current < next)
    BY <1>1, <1>3, <1>6, <2>1
  <2>3. next < flow.current \/ next = flow.current
    BY <1>1, <1>3, <1>6, <2>2 DEF Node
  <2>4. node[next].state \notin {"absent", "pending"}
    BY <1>2, <1>3, <1>4, <1>6, <2>3 DEF Place
  <2>5. QED
    BY <1>3, <1>6, <2>4 DEF next
<1>7. CASE flow.current < f
  BY <1>1, <1>2, <1>7 DEF Place, Node
<1>8. QED
  BY <1>1, <1>5, <1>6, <1>7 DEF Node, next

LEMMA HeardStep ==
  ASSUME Core, Line, OneCause, Evidence, Heard, [Next]_vars
  PROVE  Heard'
<1> USE DEF Core
<1> SUFFICES ASSUME Regular', NEW c \in Caller, pc'[c] = "announce"
             PROVE  \/ Announcing(c)' = 0
                    \/ node'[Announcing(c)'].state \notin {"absent", "pending"}
  BY DEF Heard
<1>1. CASE pc[c] = "announce" /\ Announcing(c)' = Announcing(c)
  <2>1. flow.state # "none"
    BY <1>1 DEF Made, Past
  <2>2. Regular
    BY <2>1, RegularStays
  <2>3. \/ Announcing(c) = 0
        \/ node[Announcing(c)].state \notin {"absent", "pending"}
    BY <1>1, <2>2 DEF Heard
  <2>4. Announcing(c) \in Node \cup {0}
    <3>1. Farthest(c) \in Node
      BY <1>1, FarthestIs DEF Types, TypeOK, Busy
    <3>2. seenFlow[c].node \in [Node -> NodeRow]
      BY DEF Types, TypeOK, SeenFlow
    <3>3. QED
      BY <3>1, <3>2, NextNodeIs DEF Announcing
  <2>5. QED
    BY <1>1, <2>3, <2>4, NodeStays
<1>2. CASE RowStep \/ UNCHANGED vars
  <2>1. pc' = pc /\ Announcing(c)' = Announcing(c)
    BY <1>2, RowStepStays DEF locals, Announcing, Farthest
  <2>2. QED
    BY <1>1, <2>1
<1>3. ASSUME NEW d \in Caller, d # c, CallerStep(d)
      PROVE  pc[c] = "announce" /\ Announcing(c)' = Announcing(c)
  <2>1. Local(c)' = Local(c)
    BY <1>3, OthersStay
  <2>2. QED
    BY <2>1 DEF Local, Announcing, Farthest
<1>4. CASE CallerStep(c)
  <2> USE DEF Goto, Types, TypeOK
  <2>1. CASE EnsureForTask(c)
    <3>1. /\ pc[c] = "ensure" /\ done' = done /\ UNCHANGED <<flow, node>>
          /\ seenFlow'[c].node = node
      BY <2>1 DEF EnsureForTask, rows
    <3>2. Farthest(c) \in done[c] /\ Farthest(c) \in Node
      BY <3>1, FarthestIs DEF Busy
    <3>3. node[Farthest(c)].state = "completed"
      <4>1. event[c] \in Event /\ Applied(event[c], Farthest(c))
        BY <3>1, <3>2 DEF Busy, Evidence
      <4>2. QED
        BY <3>2, <4>1 DEF OneCause
    <3>4. flow.state # "none" /\ Regular
      BY <3>1, RegularStays DEF Made, Past
    <3>5. Announcing(c)' = NextNode(node, Farthest(c))
      <4>1. Farthest(c)' = Farthest(c)
        BY <3>1 DEF Farthest
      <4>2. Announcing(c)' = NextNode(seenFlow'[c].node, Farthest(c)')
        BY DEF Announcing, NextNode
      <4>3. QED
        BY <3>1, <4>1, <4>2
    <3>6. QED
      BY <3>1, <3>2, <3>3, <3>4, <3>5, NextIsReached
  <2>2. ~ Leave(c)
    BY LeaveIs
  <2>3. EnsureForTask(c)
    BY <1>4, <2>2 DEF CallerStep, Begin, Load, Look, Record, Continue, Apply,
       AlreadyApplied, ApplyConflict, Reload, AdvanceStatus, Announce, Crash
  <2>4. QED
    BY <2>1, <2>3
<1>5. QED
  BY <1>1, <1>2, <1>3, <1>4, Steps

LEMMA AnnouncedStep ==
  ASSUME Core, Line, Heard, AnnouncedWasReached, [Next]_vars
  PROVE  AnnouncedWasReached'
<1> USE DEF Core
<1> SUFFICES ASSUME Regular', NEW n \in announced'
             PROVE  node'[n].state \notin {"absent", "pending"}
  BY DEF AnnouncedWasReached
<1>1. announced \subseteq Node
  BY DEF Types, TypeOK
<1>2. CASE n \in announced
  <2>1. Regular
    <3>1. CASE flow.state = "none"
      BY <3>1, OvertakenStays DEF Made, Regular
    <3>2. QED
      BY <3>1, RegularStays
  <2>2. QED
    BY <1>1, <1>2, <2>1, NodeStays DEF AnnouncedWasReached
<1>3. CASE InitializeContainerFlow
  <2>1. flow'.current \in Node /\ flow'.state \in {"active", "completed"}
    BY <1>3, TypesStep, EnsureEffect
       DEF InitializeContainerFlow, Types, TypeOK, FlowRow
  <2>2. PICK k \in Node : k = flow'.current
    BY <2>1
  <2>3. Place(k)' /\ ~ (k < k)
    BY <2>1, LineStep DEF Line, Node
  <2>4. n \in announced \/ n = k
    BY <1>3, <2>2 DEF InitializeContainerFlow, ToldCurrent, EnsureFlow
  <2>5. QED
    BY <1>2, <2>2, <2>3, <2>4 DEF Place
<1>4. ASSUME NEW c \in Caller, Announce(c), n \notin announced
      PROVE  node'[n].state \notin {"absent", "pending"}
  <2>1. /\ pc[c] = "announce" /\ UNCHANGED <<flow, node, overtaken>>
        /\ n = Announcing(c) /\ n # 0
    BY <1>4 DEF Announce, Announcing
  <2>2. Regular
    BY <2>1 DEF Regular
  <2>3. QED
    BY <2>1, <2>2 DEF Heard
<1>5. ASSUME NEW c \in Caller, CallerStep(c), ~ Announce(c)
      PROVE  announced' = announced
  BY <1>5 DEF CallerStep, Begin, Load, Look, Record, Apply, AlreadyApplied,
     ApplyConflict, Reload, AdvanceStatus, EnsureForTask, Crash, rows
<1>6. RowStep /\ ~ InitializeContainerFlow => announced' = announced
  BY DEF RowStep, InitializePostDeparture, CheckApplicability, SetApplicability,
     Block, Resolve, rows
<1>7. QED
  BY <1>2, <1>3, <1>4, <1>5, <1>6, Steps DEF vars, rows

\* A task is announced as current only after a regular flow reached its node,
\* although the announcement is computed from rows read earlier.
THEOREM OnlyReachedIsAnnounced == Spec => []AnnouncedWasReached
<1> DEFINE Inv == /\ Core /\ Line /\ OneCause /\ Evidence /\ Heard
                  /\ AnnouncedWasReached
<1>1. Init => Inv
  <2>1. Init => Heard /\ AnnouncedWasReached
    BY DEF Init, Heard, AnnouncedWasReached
  <2>2. QED
    BY <2>1, CoreInit, LineInit, OneCauseInit, EvidenceInit
<1>2. Inv /\ [Next]_vars => Inv'
  BY CoreStep, LineStep, OneCauseStep, EvidenceStep, HeardStep, AnnouncedStep
<1>3. QED
  BY <1>1, <1>2, PTL DEF Spec

-----------------------------------------------------------------------------
(* Blocked nodes have open blocks.                                         *)

\* p is the applicable node right before n.
Precedes(p, n) ==
  /\ p < n /\ node[p].applicable
  /\ \A q \in Node : p < q /\ q < n => ~ node[q].applicable

\* A node is woken when the applicable node before it is completed, so the node
\* that a completion wakes is never one that is open already, and blocked.
InTurn(n) ==
  /\ node[n].state = "blocked" <=> blocks[n] > 0
  /\ node[n].state \in {"active", "blocked"} =>
       \A p \in Node : Precedes(p, n) => node[p].state = "completed"

Turns == overtaken = {} => \A n \in Node : InTurn(n)

LEMMA OnlyBlocksCount ==
  ASSUME Core, [Next]_vars
  PROVE  blocks' = blocks \/ \E m \in Node : Block(m) \/ Resolve(m)
<1> USE DEF Core
<1>1. ASSUME NEW c \in Caller, CallerStep(c) PROVE blocks' = blocks
  BY <1>1, CallerMoves
<1>2. QED
  BY <1>1, Steps DEF RowStep, InitializeContainerFlow, InitializePostDeparture,
     CheckApplicability, SetApplicability, vars, rows

LEMMA TurnsStep ==
  ASSUME Core, Turns, [Next]_vars
  PROVE  Turns'
<1> USE DEF Core
<1> SUFFICES ASSUME overtaken' = {}, NEW n \in Node PROVE InTurn(n)'
  BY DEF Turns
<1>1. overtaken = {} /\ \A m \in Node : InTurn(m)
  BY OvertakenStays DEF Turns
<1>2. \A m \in Node : node[m].state = "completed" => node'[m].state = "completed"
  BY NodeStays
<1>3. blocks \in [Node -> Nat]
  BY DEF Types, TypeOK
\* Enough when the states of n and the applicability of the others stay.
<1>4. ASSUME /\ node'[n].state = node[n].state /\ blocks'[n] = blocks[n]
             /\ \A m \in Node : m < n => node'[m].applicable = node[m].applicable
      PROVE  InTurn(n)'
  <2>1. \A p \in Node : Precedes(p, n)' => Precedes(p, n)
    BY <1>4 DEF Precedes, Node
  <2>2. QED
    BY <1>1, <1>2, <1>4, <2>1 DEF InTurn
<1>5. CASE UNCHANGED <<flow, node, blocks>>
  BY <1>4, <1>5
<1>6. CASE EnsureFlow /\ blocks' = blocks
  <2>1. CASE node[n].state # "absent"
    <3>1. \A m \in Node : node[m].state # "absent" => node'[m] = node[m]
      BY <1>6, EnsureEffect
    <3>2. flow.state # "none"
      BY <2>1 DEF Made, Nothing, Absent
    <3>3. \A m \in Node : node'[m].applicable <=> node[m].applicable
      BY <1>6, <3>1, <3>2, EnsureEffect DEF Made
    <3>4. \A p \in Node : Precedes(p, n)' => Precedes(p, n)
      BY <3>3 DEF Precedes
    <3>5. QED
      BY <1>1, <1>2, <1>6, <2>1, <3>1, <3>4 DEF InTurn
  <2>2. CASE node[n].state = "absent"
    <3>1. node'[n].state = IF n = flow.current THEN "active" ELSE "pending"
      BY <1>6, <2>2, EnsureEffect
    <3>2. ~ (blocks'[n] > 0)
      BY <1>1, <1>6, <2>2 DEF InTurn
    <3>3. n = flow.current => n = 1
      BY <2>2 DEF Made
    <3>4. \A p \in Node : n = flow.current => ~ Precedes(p, n)'
      BY <3>3 DEF Precedes, Node
    <3>5. QED
      BY <3>1, <3>2, <3>4 DEF InTurn
  <2>3. QED
    BY <2>1, <2>2
<1>7. ASSUME NEW at, InitializePostDeparture(at) PROVE InTurn(n)'
  <2>1. node[n].state = "absent"
    BY <1>7, HandoffEffect DEF Made, Nothing, Absent
  <2>2. ~ (blocks'[n] > 0) /\ node'[n].state # "blocked"
    BY <1>1, <1>7, <2>1, HandoffEffect DEF InTurn
  <2>3. node'[n].state = "active" => n = Departure + 1
    BY <1>7, HandoffEffect
  <2>4. ASSUME NEW p \in Node, n = Departure + 1, Precedes(p, n)'
        PROVE  p = Departure
    <3>1. node'[Departure].applicable /\ Departure \in Node
      BY <1>7, HandoffEffect
    <3>2. ~ (p < Departure /\ Departure < n)
      BY <2>4, <3>1 DEF Precedes
    <3>3. p < n
      BY <2>4 DEF Precedes
    <3>4. QED
      BY <2>4, <3>1, <3>2, <3>3 DEF Node
  <2>5. node'[Departure].state = "completed"
    BY <1>7, HandoffEffect DEF Node
  <2>6. QED
    BY <2>2, <2>3, <2>4, <2>5 DEF InTurn
<1>8. ASSUME NEW c \in Caller, Apply(c) PROVE InTurn(n)'
  <2>1. PICK k \in Node, next \in Node \cup {0} : Completes(event[c], k, next)
    BY <1>8, ApplyEffect
  <2>2. \A m \in Node : node'[m].applicable = node[m].applicable
    BY <2>1, CompletesApplicable
  <2>3. blocks' = blocks
    BY <2>1 DEF Completes
  <2>4. CASE n # k /\ n # next
    <3>1. node'[n] = node[n]
      BY <2>1, <2>4 DEF Completes
    <3>2. QED
      BY <1>4, <2>2, <2>3, <3>1
  <2>5. CASE n = k
    <3>1. node'[n].state = "completed" /\ node[n].state # "blocked"
      BY <2>1, <2>5 DEF Completes
    <3>2. QED
      BY <1>1, <2>3, <3>1 DEF InTurn
  <2>6. CASE n = next /\ n # k
    <3>1. next \in Node /\ next # 0
      BY <2>6 DEF Node
    <3>2. /\ next > k /\ node[k].applicable /\ node[k].state # "completed"
          /\ \A m \in Node : k < m /\ m < next => ~ node[m].applicable
          /\ node'[next].state =
               IF node[next].state = "completed" THEN "completed" ELSE "active"
          /\ node'[k].state = "completed"
      BY <2>1, <3>1 DEF Completes
    <3>3. Precedes(k, n)
      BY <2>6, <3>1, <3>2 DEF Precedes, Node
    <3>4. node[n].state # "blocked"
      BY <1>1, <3>2, <3>3 DEF InTurn
    <3>5. ASSUME NEW p \in Node, Precedes(p, n)' PROVE p = k
      <4>1. ~ (p < k /\ k < n) /\ p < n /\ node[p].applicable
        BY <2>2, <3>2, <3>5 DEF Precedes
      <4>2. ~ (k < p /\ p < n)
        BY <2>6, <3>2, <4>1
      <4>3. QED
        BY <2>6, <3>2, <4>1, <4>2 DEF Node
    <3>6. QED
      BY <1>1, <2>3, <2>6, <3>2, <3>4, <3>5 DEF InTurn
  <2>7. QED
    BY <2>4, <2>5, <2>6
<1>9. ASSUME NEW o \in Operator, SetApplicability(o) PROVE InTurn(n)'
  <2> DEFINE r == request[o].node
  <2>1. /\ r \in Node /\ blocks' = blocks
        /\ node'[r].applicable = request[o].applicable
        /\ \A m \in Node : m # r => node'[m] = node[m]
        /\ node'[r].state = IF node[r].state = "absent" THEN "pending"
                            ELSE node[r].state
    BY <1>9, SetEffect
  <2>2. ~ Reached(r) \/ node[r].applicable = request[o].applicable
    BY <1>9 DEF SetApplicability
  <2> HIDE DEF r
  <2>3. CASE node[n].state = "absent"
    <3>1. node'[n].state \in {"absent", "pending"}
      BY <2>1, <2>3
    <3>2. QED
      BY <1>1, <2>1, <2>3, <3>1 DEF InTurn
  <2>4. CASE node[n].state # "absent"
    <3>1. node'[n].state = node[n].state
      BY <2>1, <2>4
    <3>2. CASE node[n].state \in {"active", "blocked"}
      <4>1. r > n \/ node[r].applicable = request[o].applicable
        <5>1. ~ Reached(r) => ~ (n >= r)
          BY <3>2 DEF Reached
        <5>2. QED
          BY <2>1, <2>2, <5>1 DEF Node
      <4>2. \A m \in Node : m < n => node'[m].applicable = node[m].applicable
        BY <2>1, <4>1 DEF Node
      <4>3. QED
        BY <1>4, <2>1, <3>1, <4>2
    <3>3. CASE node[n].state \notin {"active", "blocked"}
      BY <1>1, <2>1, <3>1, <3>3 DEF InTurn
    <3>4. QED
      BY <3>2, <3>3
  <2>5. QED
    BY <2>3, <2>4
<1>10. ASSUME NEW m \in Node, Block(m) \/ Resolve(m) PROVE InTurn(n)'
  <2>1. \A k \in Node : node'[k].applicable = node[k].applicable
    BY <1>10, BlockEffect
  <2>2. CASE n # m
    BY <1>4, <1>10, <2>1, <2>2, BlockEffect
  <2>3. CASE n = m
    <3>1. \A p \in Node : Precedes(p, n)' => node[p].state = "completed"
      <4>1. \A p \in Node : Precedes(p, n)' => Precedes(p, n)
        BY <2>1 DEF Precedes
      <4>2. node[n].state \in {"active", "blocked"}
        BY <1>10, <2>3, BlockEffect
      <4>3. QED
        BY <1>1, <4>1, <4>2 DEF InTurn
    <3>2. node'[n].state = "blocked" <=> blocks'[n] > 0
      <4>1. blocks[n] \in Nat /\ node[n] \in NodeRow /\ node \in [Node -> NodeRow]
        BY DEF Types, TypeOK
      <4>2. CASE Block(n)
        <5>1. node'[n].state = "blocked" /\ blocks'[n] = blocks[n] + 1
          BY <1>3, <4>1, <4>2 DEF Block, NodeRow
        <5>2. QED
          BY <4>1, <5>1
      <4>3. CASE Resolve(n)
        <5>1. /\ blocks'[n] = blocks[n] - 1 /\ blocks[n] > 0
              /\ node'[n].state = IF blocks[n] = 1 THEN "active" ELSE "blocked"
          BY <1>3, <4>1, <4>3 DEF Resolve, Unblocked, NodeRow
        <5>2. QED
          BY <4>1, <5>1
      <4>4. QED
        BY <1>10, <2>3, <4>2, <4>3
    <3>3. QED
      BY <1>2, <3>1, <3>2 DEF InTurn
  <2>4. QED
    BY <2>2, <2>3
<1>11. blocks' = blocks \/ \E m \in Node : Block(m) \/ Resolve(m)
  BY OnlyBlocksCount
<1>12. QED
  BY <1>5, <1>6, <1>7, <1>8, <1>9, <1>10, <1>11, Moves DEF Move

LEMMA TurnsInit == Init => Turns
<1> SUFFICES ASSUME Init, NEW n \in Node PROVE InTurn(n)
  BY DEF Turns
<1>1. node[n].state = "absent" /\ blocks[n] = 0
  BY DEF Init, Nothing, Absent
<1>2. QED
  BY <1>1 DEF InTurn

\* Nothing but a block makes a node blocked, and nothing but its resolution
\* closes a block.
BlocksAreOpen == \A n \in Node : node[n].state = "blocked" => blocks[n] > 0

LEMMA BlocksStep ==
  ASSUME Core, BlocksAreOpen, [Next]_vars
  PROVE  BlocksAreOpen'
<1> USE DEF Core
<1> SUFFICES ASSUME NEW n \in Node, node'[n].state = "blocked"
             PROVE  blocks'[n] > 0
  BY DEF BlocksAreOpen
<1>1. blocks \in [Node -> Nat] /\ node \in [Node -> NodeRow] /\ node[n] \in NodeRow
  BY DEF Types, TypeOK
\* Enough when the node was blocked before, and no block is resolved.
<1>2. ASSUME node[n].state = "blocked", blocks'[n] = blocks[n] PROVE blocks'[n] > 0
  BY <1>2 DEF BlocksAreOpen
<1>3. CASE UNCHANGED <<flow, node, blocks>>
  BY <1>2, <1>3
<1>4. CASE EnsureFlow /\ blocks' = blocks
  <2>1. node[n].state # "absent" => node'[n] = node[n]
    BY <1>4, EnsureEffect
  <2>2. node[n].state = "absent" => node'[n].state \in {"active", "pending"}
    BY <1>4, EnsureEffect
  <2>3. QED
    BY <1>2, <1>4, <2>1, <2>2
<1>5. ASSUME NEW at, InitializePostDeparture(at) PROVE FALSE
  <2>1. node[n].state = "absent"
    BY <1>5, HandoffEffect DEF Made, Nothing, Absent
  <2>2. QED
    BY <1>5, <2>1, HandoffEffect
<1>6. ASSUME NEW c \in Caller, Apply(c) PROVE blocks'[n] > 0
  <2>1. PICK k \in Node, next \in Node \cup {0} : Completes(event[c], k, next)
    BY <1>6, ApplyEffect
  <2>2. blocks' = blocks
    BY <2>1 DEF Completes
  <2>3. n # k
    BY <2>1 DEF Completes
  <2>4. n # next
    <3>1. node'[n].state = "completed" \/ node'[n].state = "active" \/ n # next
      BY <2>1, <2>3 DEF Completes, Node
    <3>2. QED
      BY <3>1
  <2>5. node'[n] = node[n]
    BY <2>1, <2>3, <2>4 DEF Completes
  <2>6. QED
    BY <1>2, <2>2, <2>5
<1>7. ASSUME NEW o \in Operator, SetApplicability(o) PROVE blocks'[n] > 0
  <2>1. node[n].state = "blocked" /\ blocks' = blocks
    BY <1>7, SetEffect
  <2>2. QED
    BY <1>2, <2>1
<1>8. ASSUME NEW m \in Node, Block(m) PROVE blocks'[n] > 0
  <2>1. CASE n = m
    BY <1>1, <1>8, <2>1 DEF Block
  <2>2. CASE n # m
    BY <1>1, <1>2, <1>8, <2>2 DEF Block
  <2>3. QED
    BY <2>1, <2>2
<1>9. ASSUME NEW m \in Node, Resolve(m) PROVE blocks'[n] > 0
  <2>1. CASE n = m
    BY <1>1, <1>9, <2>1 DEF Resolve, Unblocked, NodeRow
  <2>2. CASE n # m
    BY <1>1, <1>2, <1>9, <2>2 DEF Resolve
  <2>3. QED
    BY <2>1, <2>2
<1>10. blocks' = blocks \/ \E m \in Node : Block(m) \/ Resolve(m)
  BY OnlyBlocksCount
<1>11. QED
  BY <1>3, <1>4, <1>5, <1>6, <1>7, <1>8, <1>9, <1>10, Moves DEF Move

\* A node is blocked only while it has an open block, and always while it has
\* one as long as no decision overtook the flow, whatever completions race with
\* blocks.
THEOREM BlocksMatch == Spec => []BlockedWhileOpen
<1>1. Init => Core /\ Turns /\ BlocksAreOpen
  BY CoreInit, TurnsInit DEF Init, Nothing, Absent, BlocksAreOpen
<1>2. (Core /\ Turns /\ BlocksAreOpen) /\ [Next]_vars =>
        (Core /\ Turns /\ BlocksAreOpen)'
  BY CoreStep, TurnsStep, BlocksStep
<1>3. Turns /\ BlocksAreOpen => BlockedWhileOpen
  BY DEF Turns, InTurn, BlocksAreOpen, BlockedWhileOpen
<1>4. QED
  BY <1>1, <1>2, <1>3, PTL DEF Spec
=============================================================================
