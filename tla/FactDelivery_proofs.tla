-------------------------- MODULE FactDelivery_proofs --------------------------
(***************************************************************************)
(* Proofs about FactDelivery, for any number of nodes, facts, people and   *)
(* drains: deliveries from the outbox are deliveries as WorkExecution has  *)
(* them, and what the outbox records of them is true.                      *)
(***************************************************************************)
EXTENDS FactDelivery, WorkExecution_proofs

USE WorkAssumption, DeliveryAssumption DEF Proc

-----------------------------------------------------------------------------
(* Deliveries made for rows of the outbox are deliveries.                  *)

LEMMA WorkOrNothing == DeliveryNext => [Next]_vars
<1> SUFFICES ASSUME DeliveryNext PROVE [Next]_vars
  OBVIOUS
<1>1. CASE WorkStep
  BY <1>1 DEF WorkStep, Next
<1>2. ASSUME NEW w \in Worker, NEW m \in Message, Claim(w, m) PROVE [Next]_vars
  BY <1>2 DEF Claim, Next
<1>3. ASSUME NEW w \in Worker, DrainStep(w) PROVE [Next]_vars
  BY <1>3 DEF DrainStep, Record, Next
<1>4. ASSUME NEW w \in Worker, LoadFails(w) \/ MarkFails(w) \/ DrainDies(w)
      PROVE  [Next]_vars
  BY <1>4 DEF LoadFails, MarkFails, DrainDies, Next
<1>5. ASSUME NEW m \in Message, LeaseLapses(m) PROVE [Next]_vars
  BY <1>5 DEF LeaseLapses
<1>6. QED
  BY <1>1, <1>2, <1>3, <1>4, <1>5 DEF DeliveryNext

\* Claims, attempts, leases and recorded outcomes of the outbox restrict the
\* deliveries and add none: whatever holds of WorkExecution holds here.
THEOREM DeliveriesAreWork == DeliverySpec => Spec
<1>1. DeliveryInit => Init
  BY DEF DeliveryInit
<1>2. [DeliveryNext]_deliveryVars => [Next]_vars
  BY WorkOrNothing DEF deliveryVars
<1>3. QED
  BY <1>1, <1>2, PTL DEF DeliverySpec, Spec

-----------------------------------------------------------------------------
(* The inductive invariant.                                                *)

RowState == {"pending", "publishing", "published",
             "refused", "exhausted", "overdue", "unclassified"}

Carried == [fact : Message, attempt : Nat, unclassified : BOOLEAN]

Decided == {"applied", "no_op", "rejected"}

\* Decision d on m is on record.
Told(m, d) == [node |-> m.node, fact |-> m.fact, decision |-> d] \in applications

ToldNow(m, d) ==
  [node |-> m.node, fact |-> m.fact, decision |-> d] \in applications'

\* A fact has one decision at most.
OneDecision ==
  \A a, b \in applications : a.node = b.node /\ a.fact = b.fact => a = b

\* What a drain has in hand is what its delivery is about, the answer it got is
\* on record, and its claim is one of those counted.
Hand(w) ==
  /\ carried[w] \in Carried
  /\ pc[w] # "idle" => message[w] = carried[w].fact
  /\ pc[w] = "idle" /\ answer[w] \in Decided => Told(carried[w].fact, answer[w])
  /\ carried[w].attempt <= attempts[carried[w].fact]

RowTells(m) ==
  /\ row[m] = "published" => Told(m, "applied") \/ Told(m, "no_op")
  /\ row[m] = "refused" => Told(m, "rejected")
  /\ row[m] = "exhausted" => attempts[m] >= MaxAttempts

DeliveryInv ==
  /\ row \in [Message -> RowState]
  /\ attempts \in [Message -> Nat]
  /\ carried \in [Worker -> Carried \cup {None}]
  /\ OneDecision
  /\ \A w \in Worker : carried[w] # None => Hand(w)
  /\ \A m \in Message : RowTells(m)

\* A recorded application of m tells its decision.
LEMMA RecordedTells ==
  ASSUME Types, NEW m \in Message, NEW a \in Recorded(m)
  PROVE  Told(m, a.decision) /\ a.decision \in Decided
<1>1. a \in Application /\ a.node = m.node /\ a.fact = m.fact
  BY DEF Recorded, Types, TypeOK
<1>2. a = [node |-> m.node, fact |-> m.fact, decision |-> a.decision]
  BY <1>1 DEF Application
<1>3. QED
  BY <1>1, <1>2 DEF Told, Recorded, Application, Decided

-----------------------------------------------------------------------------
(* What a step of the deliveries changes of what the outbox relies on.     *)

Untouched(w) == pc'[w] = pc[w] /\ message'[w] = message[w] /\ answer'[w] = answer[w]

\* The delivery of w goes on, or ends with an answer that is on record.
GoesOn(w) ==
  /\ pc[w] # "idle"
  /\ \/ pc'[w] # "idle" /\ message'[w] = message[w]
     \/ pc'[w] = "idle" /\ (answer'[w] \in Decided => ToldNow(message[w], answer'[w]))

\* No decision is lost or made twice.
Remembers == applications \subseteq applications' /\ OneDecision'

LEMMA EndGoesOn ==
  ASSUME Types, NEW w \in Worker, NEW a, EndDelivery(w, a), pc[w] # "idle",
         a \in Decided => ToldNow(message[w], a)
  PROVE  GoesOn(w) /\ \A e \in Worker \ {w} : Untouched(e)
<1>1. /\ pc' = [pc EXCEPT ![w] = "idle"]
      /\ message' = [message EXCEPT ![w] = None]
      /\ answer' = [answer EXCEPT ![w] = a]
      /\ w \in DOMAIN pc /\ w \in DOMAIN message /\ w \in DOMAIN answer
  BY DEF EndDelivery, Leave, Types, TypeOK
<1>2. pc'[w] = "idle" /\ answer'[w] = a
  BY <1>1
<1>3. \A e \in Worker \ {w} : Untouched(e)
  BY <1>1 DEF Untouched, Types, TypeOK
<1>4. QED
  BY <1>2, <1>3 DEF GoesOn

\* The steps of a delivery.
LEMMA DeliveryRemembers ==
  ASSUME Types, OneDecision, NEW w \in Worker, DeliveryStep(w) \/ DeliveryFails(w)
  PROVE  Remembers /\ GoesOn(w) /\ \A e \in Worker \ {w} : Untouched(e)
<1> USE DEF Types, TypeOK
<1>1. ASSUME EndDelivery(w, "error"), pc[w] # "idle", UNCHANGED applications
      PROVE  Remembers /\ GoesOn(w) /\ \A e \in Worker \ {w} : Untouched(e)
  <2>1. "error" \notin Decided
    BY DEF Decided
  <2>2. Remembers
    BY <1>1 DEF Remembers, OneDecision
  <2>3. QED
    BY <1>1, <2>1, <2>2, EndGoesOn
<1>2. ASSUME NEW place \in {"task", "wo", "commit"},
             pc[w] # "idle", pc' = [pc EXCEPT ![w] = place],
             UNCHANGED <<message, answer, applications>>
      PROVE  Remembers /\ GoesOn(w) /\ \A e \in Worker \ {w} : Untouched(e)
  BY <1>2 DEF Remembers, OneDecision, GoesOn, Untouched
<1>3. CASE ReadFactTask(w)
  BY <1>1, <1>2, <1>3 DEF ReadFactTask, tables
<1>4. CASE ReadFactWorkOrder(w)
  BY <1>2, <1>4 DEF ReadFactWorkOrder, tables
<1>5. CASE ReplayDecision(w)
  <2>1. pc[w] = "commit" /\ message[w] \in Message /\ UNCHANGED applications
    BY <1>5 DEF ReplayDecision, tables, Busy
  <2>2. PICK a \in Recorded(message[w]) : EndDelivery(w, a.decision)
    BY <1>5 DEF ReplayDecision
  <2>3. Told(message[w], a.decision)
    BY <2>1, <2>2, RecordedTells
  <2>4. ToldNow(message[w], a.decision)
    BY <2>1, <2>3 DEF Told, ToldNow
  <2>5. Remembers
    BY <2>1 DEF Remembers, OneDecision
  <2>6. QED
    BY <2>1, <2>2, <2>4, <2>5, EndGoesOn
<1>6. CASE CommitFact(w)
  <2> DEFINE m == message[w]
             new == [node |-> m.node, fact |-> m.fact, decision |-> Decision(w)]
  <2>1. /\ pc[w] = "commit" /\ Recorded(m) = {}
        /\ applications' = applications \cup {new}
        /\ EndDelivery(w, Decision(w))
    BY <1>6 DEF CommitFact, FactIntended, Apply
  <2>2. \A a \in applications : ~(a.node = m.node /\ a.fact = m.fact)
    BY <2>1 DEF Recorded
  <2>3. Remembers
    BY <2>1, <2>2 DEF Remembers, OneDecision
  <2>4. ToldNow(m, Decision(w))
    BY <2>1 DEF ToldNow
  <2>5. QED
    BY <2>1, <2>3, <2>4, EndGoesOn
<1>7. CASE FactConflict(w)
  BY <1>1, <1>2, <1>7 DEF FactConflict, FactIntended, tables
<1>8. CASE DeliveryFails(w)
  BY <1>1, <1>8 DEF DeliveryFails, tables
<1>9. QED
  BY <1>3, <1>4, <1>5, <1>6, <1>7, <1>8 DEF DeliveryStep

\* Creations, requests and failing requests leave deliveries alone.
LEMMA OthersRemember ==
  ASSUME Types, OneDecision,
         \/ \E n \in Node, ready \in BOOLEAN : CreateTask(n, ready) \/ TouchTask(n, ready)
         \/ \E u \in User :
              (\E r \in Command : StartRequest(u, r)) \/ RequestStep(u) \/ DatabaseFails(u)
  PROVE  Remembers /\ \A e \in Worker : Untouched(e)
<1> USE DEF Types, TypeOK
<1>1. ASSUME UNCHANGED <<applications, message, answer>>,
             \A e \in Worker : pc'[e] = pc[e]
      PROVE  Remembers /\ \A e \in Worker : Untouched(e)
  BY <1>1 DEF Remembers, OneDecision, Untouched
<1>2. ASSUME NEW n \in Node, NEW ready \in BOOLEAN,
             CreateTask(n, ready) \/ TouchTask(n, ready)
      PROVE  UNCHANGED <<applications, message, answer, pc>>
  BY <1>2 DEF CreateTask, TouchTask, progress
<1>3. ASSUME NEW u \in User,
             (\E r \in Command : StartRequest(u, r)) \/ RequestStep(u) \/ DatabaseFails(u)
      PROVE  /\ UNCHANGED <<applications, message, answer>>
             /\ \A e \in Worker : pc'[e] = pc[e]
  <2>1. ASSUME NEW place, pc' = [pc EXCEPT ![u] = place]
        PROVE  \A e \in Worker : pc'[e] = pc[e]
    BY <2>1
  <2>2. ASSUME NEW r \in Command, StartRequest(u, r)
        PROVE  /\ UNCHANGED <<applications, message, answer>>
               /\ pc' = [pc EXCEPT ![u] = "wo"]
    BY <2>2 DEF StartRequest, tables
  <2>3. ASSUME ReadWorkOrder(u) \/ ReadTask(u)
        PROVE  /\ UNCHANGED <<applications, message, answer>>
               /\ \E place : pc' = [pc EXCEPT ![u] = place]
    BY <2>3 DEF ReadWorkOrder, ReadTask, tables
  <2>4. ASSUME MayLoseAck(u) PROVE \E place : pc' = [pc EXCEPT ![u] = place]
    BY <2>4 DEF MayLoseAck, Leave, Goto
  <2>5. ASSUME \/ CommitClaim(u) \/ CommitCompletion(u)
               \/ ClaimDone(u) \/ ClaimRecheckDone(u) \/ CompletionDone(u)
        PROVE  UNCHANGED <<applications, message, answer>> /\ MayLoseAck(u)
    BY <2>5 DEF CommitClaim, CommitCompletion, ClaimDone, ClaimRecheckDone,
       CompletionDone, CommitNothing
  <2>6. ASSUME \/ ClaimConflict(u) \/ ClaimRefused(u) \/ CompletionRefused(u)
               \/ KeyTaken(u) \/ DatabaseFails(u)
        PROVE  /\ UNCHANGED <<applications, message, answer>>
               /\ \E place : pc' = [pc EXCEPT ![u] = place]
    BY <2>6 DEF ClaimConflict, ClaimRefused, CompletionRefused, KeyTaken,
       DatabaseFails, Goto, tables
  <2>7. ASSUME CompletionConflict(u) \/ RecordRejection(u)
        PROVE  /\ UNCHANGED <<applications, message, answer>>
               /\ \E place : pc' = [pc EXCEPT ![u] = place]
    BY <2>7 DEF CompletionConflict, RecordRejection, Leave, tables
  <2>8. QED
    BY <1>3, <2>1, <2>2, <2>3, <2>4, <2>5, <2>6, <2>7 DEF RequestStep
<1>4. QED
  BY <1>1, <1>2, <1>3

-----------------------------------------------------------------------------
(* Every step keeps the invariant.                                         *)

\* A row in hand stays true to its delivery.
LEMMA HandKept ==
  ASSUME DeliveryInv, applications \subseteq applications',
         NEW w \in Worker, Untouched(w) \/ GoesOn(w),
         carried[w] # None, carried'[w] \in Carried,
         carried'[w].fact = carried[w].fact,
         carried'[w].attempt = carried[w].attempt,
         attempts' = attempts
  PROVE  Hand(w)'
<1> DEFINE m == carried[w].fact
<1>1. Hand(w)
  BY DEF DeliveryInv
<1>2. carried'[w].attempt <= attempts'[carried'[w].fact]
  BY <1>1 DEF Hand
<1>3. CASE Untouched(w)
  BY <1>1, <1>2, <1>3 DEF Untouched, Hand, Told
<1>4. CASE GoesOn(w)
  BY <1>1, <1>2, <1>4 DEF GoesOn, Hand, Told, ToldNow
<1>5. QED
  BY <1>3, <1>4

\* A row that is left alone, or claimed again, tells what it told.
LEMMA RowKept ==
  ASSUME DeliveryInv, applications \subseteq applications', NEW m \in Message,
         row'[m] = row[m] \/ row'[m] \in {"pending", "publishing", "overdue", "unclassified"},
         attempts' \in [Message -> Nat], attempts'[m] >= attempts[m]
  PROVE  RowTells(m)'
<1>1. RowTells(m) /\ attempts[m] \in Nat /\ attempts'[m] \in Nat /\ MaxAttempts \in Nat
  BY DEF DeliveryInv
<1>2. CASE row'[m] = row[m]
  BY <1>1, <1>2 DEF RowTells, Told
<1>3. CASE row'[m] \in {"pending", "publishing", "overdue", "unclassified"}
  BY <1>3 DEF RowTells
<1>4. QED
  BY <1>2, <1>3

\* The steps of deliveries and requests that the outbox does not notice.
LEMMA UnnoticedKeeps ==
  ASSUME DeliveryInv, Remembers, UNCHANGED outboxVars,
         \A w \in Worker : Untouched(w) \/ GoesOn(w)
  PROVE  DeliveryInv'
<1>1. UNCHANGED <<row, attempts, carried>>
  BY DEF outboxVars
<1>2. \A w \in Worker : carried'[w] # None => Hand(w)'
  <2> SUFFICES ASSUME NEW w \in Worker, carried'[w] # None PROVE Hand(w)'
    OBVIOUS
  <2>1. carried[w] # None /\ carried'[w] = carried[w] /\ carried[w] \in Carried
    BY <1>1 DEF DeliveryInv, Hand
  <2>2. QED
    BY <1>1, <2>1, HandKept DEF Remembers
<1>3. \A m \in Message : RowTells(m)'
  BY <1>1, RowKept DEF Remembers, DeliveryInv
<1>4. QED
  BY <1>1, <1>2, <1>3 DEF DeliveryInv, Remembers

LEMMA ClaimKeeps ==
  ASSUME Types, DeliveryInv, NEW w \in Worker, NEW m \in Message, Claim(w, m)
  PROVE  DeliveryInv'
<1> DEFINE new == [fact |-> m, attempt |-> attempts[m] + 1, unclassified |-> FALSE]
<1>1. /\ row' = [row EXCEPT ![m] = "publishing"]
      /\ attempts' = [attempts EXCEPT ![m] = @ + 1]
      /\ carried' = [carried EXCEPT ![w] = new]
      /\ StartDelivery(w, m)
  BY DEF Claim
<1>2. /\ pc'[w] = "task" /\ message'[w] = m /\ applications' = applications
      /\ \A e \in Worker \ {w} : Untouched(e)
  BY <1>1 DEF StartDelivery, Untouched, Types, TypeOK, tables
<1>3. new \in Carried /\ attempts' \in [Message -> Nat]
  BY <1>1 DEF Carried, DeliveryInv
<1>4. ASSUME NEW e \in Worker, carried'[e] # None PROVE Hand(e)'
  <2>1. CASE e = w
    <3>1. carried'[e] = new /\ attempts'[m] = attempts[m] + 1
      BY <1>1, <2>1 DEF DeliveryInv
    <3>2. QED
      BY <1>2, <1>3, <2>1, <3>1 DEF Hand
  <2>2. CASE e # w
    <3>1. carried'[e] = carried[e] /\ carried[e] # None /\ Hand(e) /\ Untouched(e)
      BY <1>1, <1>2, <1>4, <2>2 DEF DeliveryInv
    <3>2. carried[e].attempt <= attempts'[carried[e].fact]
      BY <1>1, <3>1 DEF Hand, Carried, DeliveryInv
    <3>3. QED
      BY <1>2, <3>1, <3>2 DEF Hand, Untouched, Told
  <2>3. QED
    BY <2>1, <2>2
<1>5. ASSUME NEW q \in Message PROVE RowTells(q)'
  <2>1. /\ row'[q] = row[q] \/ row'[q] = "publishing"
        /\ attempts'[q] >= attempts[q]
    BY <1>1 DEF DeliveryInv
  <2>2. QED
    BY <1>2, <1>3, <2>1, RowKept
<1>6. QED
  BY <1>1, <1>2, <1>3, <1>4, <1>5 DEF DeliveryInv, OneDecision, RowState

\* A drain may fail or die, and a lease lapse, without the outbox noticing.
LEMMA LossKeeps ==
  ASSUME Types, DeliveryInv,
         \/ \E w \in Worker : LoadFails(w) \/ MarkFails(w) \/ DrainDies(w)
         \/ \E m \in Message : LeaseLapses(m)
  PROVE  DeliveryInv'
<1>1. UNCHANGED <<row, attempts>>
  BY DEF LoadFails, MarkFails, DrainDies, LeaseLapses
<1>2. Remembers /\ \A e \in Worker : Untouched(e) \/ GoesOn(e)
  <2>1. CASE UNCHANGED vars
    BY <2>1 DEF vars, tables, progress, Remembers, OneDecision, DeliveryInv, Untouched
  <2>2. ASSUME NEW w \in Worker, DeliveryFails(w)
        PROVE  Remembers /\ \A e \in Worker : Untouched(e) \/ GoesOn(e)
    BY <2>2, DeliveryRemembers DEF DeliveryInv
  <2>3. QED
    BY <2>1, <2>2 DEF LoadFails, MarkFails, DrainDies, LeaseLapses
<1>3. \A e \in Worker :
        \/ carried'[e] = carried[e]
        \/ carried'[e] = None
        \/ carried[e] # None /\ carried'[e] = [carried[e] EXCEPT !.unclassified = TRUE]
  BY DEF LoadFails, MarkFails, DrainDies, LeaseLapses, Answered, DeliveryInv
<1>4. carried' \in [Worker -> Carried \cup {None}]
  <2>1. \A c \in Carried : [c EXCEPT !.unclassified = TRUE] \in Carried
    BY DEF Carried
  <2>2. CASE carried' = carried
    BY <2>2 DEF DeliveryInv
  <2>3. ASSUME NEW w \in Worker, carried[w] # None,
               carried' = [carried EXCEPT ![w].unclassified = TRUE]
        PROVE  carried' \in [Worker -> Carried \cup {None}]
    BY <2>1, <2>3 DEF DeliveryInv
  <2>4. ASSUME NEW w \in Worker, carried' = [carried EXCEPT ![w] = None]
        PROVE  carried' \in [Worker -> Carried \cup {None}]
    BY <2>4 DEF DeliveryInv
  <2>5. QED
    BY <2>2, <2>3, <2>4 DEF LoadFails, MarkFails, DrainDies, LeaseLapses, Answered
<1>5. ASSUME NEW e \in Worker, carried'[e] # None PROVE Hand(e)'
  <2>1. carried'[e] \in Carried
    BY <1>4, <1>5
  <2>2. /\ carried[e] # None /\ carried[e] \in Carried
        /\ carried'[e].fact = carried[e].fact
        /\ carried'[e].attempt = carried[e].attempt
    BY <1>3, <1>5 DEF DeliveryInv, Hand, Carried
  <2>3. QED
    BY <1>1, <1>2, <2>1, <2>2, HandKept DEF Remembers
<1>6. \A m \in Message : RowTells(m)'
  BY <1>1, <1>2, RowKept DEF Remembers, DeliveryInv
<1>7. QED
  BY <1>1, <1>2, <1>4, <1>5, <1>6 DEF DeliveryInv, Remembers

LEMMA RecordKeeps ==
  ASSUME Types, DeliveryInv, NEW w \in Worker, Record(w)
  PROVE  DeliveryInv'
<1> DEFINE c == carried[w]
           m == c.fact
<1>1. /\ c # None /\ pc[w] = "idle" /\ Hand(w) /\ c \in Carried /\ m \in Message
      /\ carried' = [carried EXCEPT ![w] = None]
      /\ attempts' = attempts /\ UNCHANGED vars
  BY DEF Record, Answered, DeliveryInv, Hand, Carried
<1>2. /\ Remembers /\ \A e \in Worker : Untouched(e)
      /\ UNCHANGED <<applications, pc, answer, message>>
  BY <1>1 DEF vars, tables, progress, Remembers, OneDecision, DeliveryInv, Untouched
<1>3. \/ row' = row
      \/ \E v \in Verdict(c, answer[w]) : row' = [row EXCEPT ![m] = v]
  BY DEF Record
<1>4. ASSUME NEW v \in Verdict(c, answer[w])
      PROVE  /\ v \in RowState
             /\ v = "published" => Told(m, "applied") \/ Told(m, "no_op")
             /\ v = "refused" => Told(m, "rejected")
             /\ v = "exhausted" => c.attempt >= MaxAttempts
  <2>1. answer[w] \in Decided => Told(m, answer[w])
    BY <1>1 DEF Hand
  <2>2. QED
    BY <1>4, <2>1 DEF Verdict, RowState, Decided
<1>5. row' \in [Message -> RowState]
  BY <1>1, <1>3, <1>4 DEF DeliveryInv
<1>6. ASSUME NEW e \in Worker, carried'[e] # None PROVE Hand(e)'
  <2>1. /\ carried'[e] = carried[e] /\ carried[e] # None /\ carried[e] \in Carried
    BY <1>1, <1>6 DEF DeliveryInv, Hand
  <2>2. QED
    BY <1>1, <1>2, <2>1, HandKept DEF Remembers
<1>7. ASSUME NEW q \in Message PROVE RowTells(q)'
  <2>1. CASE row'[q] = row[q]
    BY <1>1, <1>2, <2>1, RowKept DEF Remembers, DeliveryInv
  <2>2. CASE q = m /\ row'[q] \in Verdict(c, answer[w])
    <3>1. c.attempt <= attempts[m] /\ c.attempt \in Nat /\ attempts[m] \in Nat
          /\ MaxAttempts \in Nat
      BY <1>1 DEF Hand, Carried, DeliveryInv
    <3>2. QED
      BY <1>1, <1>2, <1>4, <2>2, <3>1 DEF RowTells, Told
  <2>3. QED
    BY <1>1, <1>3, <2>1, <2>2 DEF DeliveryInv
<1>8. carried' \in [Worker -> Carried \cup {None}]
  BY <1>1 DEF DeliveryInv
<1>9. QED
  BY <1>1, <1>2, <1>5, <1>6, <1>7, <1>8 DEF DeliveryInv, Remembers

LEMMA DeliveryInvStep ==
  Types /\ DeliveryInv /\ [DeliveryNext]_deliveryVars => DeliveryInv'
<1> SUFFICES ASSUME Types, DeliveryInv, [DeliveryNext]_deliveryVars
             PROVE  DeliveryInv'
  OBVIOUS
<1>1. CASE UNCHANGED deliveryVars
  <2>1. Remembers /\ \A w \in Worker : Untouched(w)
    BY <1>1 DEF deliveryVars, vars, tables, progress, Remembers, OneDecision,
       DeliveryInv, Untouched
  <2>2. QED
    BY <1>1, <2>1, UnnoticedKeeps DEF deliveryVars
<1>2. CASE WorkStep /\ UNCHANGED outboxVars
  BY <1>2, OthersRemember, DeliveryRemembers, UnnoticedKeeps DEF WorkStep, DeliveryInv
<1>3. ASSUME NEW w \in Worker, NEW m \in Message, Claim(w, m) PROVE DeliveryInv'
  BY <1>3, ClaimKeeps
<1>4. ASSUME NEW w \in Worker, DrainStep(w) PROVE DeliveryInv'
  BY <1>4, DeliveryRemembers, UnnoticedKeeps, RecordKeeps DEF DrainStep, DeliveryInv
<1>5. CASE \/ \E w \in Worker : LoadFails(w) \/ MarkFails(w) \/ DrainDies(w)
           \/ \E m \in Message : LeaseLapses(m)
  BY <1>5, LossKeeps
<1>6. QED
  BY <1>1, <1>2, <1>3, <1>4, <1>5 DEF DeliveryNext

\* The outbox tells the truth about facts: published only what the work order
\* has, refused only what it turned down, exhausted only after all attempts,
\* however many drains with one identity record what they learnt.
THEOREM OutcomesAreTrue == DeliverySpec => []OutcomesTellTheTruth
<1>1. DeliveryInit => Types /\ DeliveryInv
  <2> SUFFICES ASSUME DeliveryInit PROVE Types /\ DeliveryInv
    OBVIOUS
  <2>1. Types
    BY TypesInit DEF DeliveryInit
  <2>2. DeliveryInv
    BY DEF DeliveryInit, Init, DeliveryInv, OneDecision, RowTells, RowState
  <2>3. QED
    BY <2>1, <2>2
<1>2. Types /\ DeliveryInv /\ [DeliveryNext]_deliveryVars => Types' /\ DeliveryInv'
  BY DeliveryInvStep, WorkOrNothing, TypesStep DEF deliveryVars
<1>3. Types /\ DeliveryInv => OutcomesTellTheTruth
  <2> SUFFICES ASSUME Types, DeliveryInv, NEW m \in Message
               PROVE  /\ row[m] = "published" => Counted(m)
                      /\ row[m] = "refused" => Recorded(m) # {} /\ ~Counted(m)
                      /\ row[m] = "exhausted" => attempts[m] >= MaxAttempts
    BY DEF OutcomesTellTheTruth
  <2>1. ASSUME NEW d, Told(m, d)
        PROVE  Recorded(m) = {[node |-> m.node, fact |-> m.fact, decision |-> d]}
    BY <2>1 DEF Told, Recorded, DeliveryInv, OneDecision
  <2>2. ASSUME NEW d \in Decided, Told(m, d)
        PROVE  /\ Recorded(m) # {}
               /\ Counted(m) <=> (d # "rejected")
    <3> DEFINE r == [node |-> m.node, fact |-> m.fact, decision |-> d]
    <3>1. r \in Recorded(m) /\ r.decision = d
      BY <2>1, <2>2
    <3>2. \A a \in Recorded(m) : a.decision = d
      BY <2>1, <2>2
    <3>3. QED
      BY <3>1, <3>2 DEF Counted
  <2>3. RowTells(m)
    BY DEF DeliveryInv
  <2>4. row[m] = "published" => Counted(m)
    BY <2>2, <2>3 DEF RowTells, Decided
  <2>5. row[m] = "refused" => Recorded(m) # {} /\ ~Counted(m)
    BY <2>2, <2>3 DEF RowTells, Decided
  <2>6. QED
    BY <2>3, <2>4, <2>5 DEF RowTells
<1>4. QED
  BY <1>1, <1>2, <1>3, PTL DEF DeliverySpec
=============================================================================
