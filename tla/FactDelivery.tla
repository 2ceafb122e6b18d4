---------------------------- MODULE FactDelivery ----------------------------
(***************************************************************************)
(* Lifecycle facts on their way from the outbox to a work order: the       *)
(* deliveries of WorkExecution, each made for a claimed outbox row that    *)
(* permits a limited number of attempts.                                   *)
(*                                                                         *)
(* Only the rows that carry a fact are modelled, one for each fact and     *)
(* node.  A drain carries one row at a time.  Drains share one service     *)
(* identity, as the scheduled ones do, so the fence of an outcome is the   *)
(* state of the row alone.  Back-offs are delays and not modelled; module  *)
(* Outbox has them, the owners and the batches.                            *)
(***************************************************************************)
EXTENDS WorkExecution

CONSTANT MaxAttempts  \* maximumAttempts of the retry policy

ASSUME DeliveryAssumption == MaxAttempts \in Nat \ {0}

VARIABLES
  row,       \* state of the outbox row of a fact: "pending", "publishing",
             \* "published", or the reason why it is a dead letter
  attempts,  \* claims of the row so far
  lapsed,    \* rows whose lease has lapsed
  carried,   \* the row a drain has in hand, with the count its claim returned
  losses     \* spent bound, shared with failures

outboxVars   == <<row, attempts, lapsed, carried>>
deliveryVars == <<vars, outboxVars, losses>>

DeliveryInit ==
  /\ Init
  /\ row = [m \in Message |-> "pending"]
  /\ attempts = [m \in Message |-> 0]
  /\ lapsed = {}
  /\ carried = [w \in Worker |-> None]
  /\ losses = 0

-----------------------------------------------------------------------------
(* A drain: claim a row, deliver it, record the outcome.                   *)

\* claimBatch and the call of reconcile.execute.
Claim(w, m) ==
  /\ carried[w] = None
  /\ \/ row[m] = "pending"
     \/ row[m] = "publishing" /\ m \in lapsed
  /\ row' = [row EXCEPT ![m] = "publishing"]
  /\ attempts' = [attempts EXCEPT ![m] = @ + 1]
  /\ lapsed' = lapsed \ {m}
  /\ carried' = [carried EXCEPT ![w] =
       [fact |-> m, attempt |-> attempts[m] + 1, unclassified |-> FALSE]]
  /\ StartDelivery(w, m)
  /\ UNCHANGED losses

\* loadCommand fails on the database, which nobody classifies.
LoadFails(w) ==
  /\ carried[w] # None
  /\ pc[w] = "task" /\ tries[w] = 0
  /\ DeliveryFails(w)
  /\ carried' = [carried EXCEPT ![w].unclassified = TRUE]
  /\ UNCHANGED <<row, attempts, lapsed, losses>>

\* The delivery has answered.
Answered(w) == carried[w] # None /\ pc[w] = "idle"

\* markPublished fails on the database: the catch block sees its error.
MarkFails(w) ==
  /\ Answered(w)
  /\ answer[w] \in {"applied", "no_op"}
  /\ ~carried[w].unclassified
  /\ losses' = losses + 1
  /\ carried' = [carried EXCEPT ![w].unclassified = TRUE]
  /\ UNCHANGED <<vars, row, attempts, lapsed>>

\* Mutant of Verdict: an answer without a decision is taken for a success.
Verdict_Swallowed(c, a) ==
  IF c.unclassified THEN {"unclassified"}
  ELSE IF a = "rejected" THEN {"refused"} ELSE {"published"}

\* deliver's classification of the answer, and decideOutboxFailure.  The
\* total timeout may pass at any time; the code asks for it at a failure.
\* A task that is not there, a lost race and an outage are retried.
Verdict(c, a) ==
  IF c.unclassified THEN {"unclassified"}
  ELSE IF a \in {"applied", "no_op"} THEN {"published"}
  ELSE IF a = "rejected" THEN {"refused"}
  ELSE IF c.attempt >= MaxAttempts THEN {"exhausted"}
  ELSE {"pending", "overdue"}

\* markPublished or markDeliveryFailed; a row that is not being published is
\* left alone.
Record(w) ==
  LET c == carried[w]
  IN  /\ Answered(w)
      /\ carried' = [carried EXCEPT ![w] = None]
      /\ IF row[c.fact] = "publishing"
         THEN /\ \E v \in Verdict(c, answer[w]) : row' = [row EXCEPT ![c.fact] = v]
              /\ lapsed' = lapsed \ {c.fact}
         ELSE UNCHANGED <<row, lapsed>>
      /\ UNCHANGED <<vars, attempts, losses>>

\* The process of a drain dies, in the delivery or before it is recorded.
DrainDies(w) ==
  /\ carried[w] # None
  /\ carried' = [carried EXCEPT ![w] = None]
  /\ \/ DeliveryFails(w) /\ UNCHANGED losses
     \/ Answered(w) /\ losses' = losses + 1 /\ UNCHANGED vars
  /\ UNCHANGED <<row, attempts, lapsed>>

\* Some drain has the row of m in hand.
InHand(m) == \E w \in Worker : carried[w] # None /\ carried[w].fact = m

\* lease_expires_at passes; while a drain has the row this counts as a loss.
LeaseLapses(m) ==
  /\ row[m] = "publishing"
  /\ m \notin lapsed
  /\ lapsed' = lapsed \cup {m}
  /\ losses' = IF InHand(m) THEN losses + 1 ELSE losses
  /\ UNCHANGED <<vars, row, attempts, carried>>

-----------------------------------------------------------------------------
DrainStep(w) ==
  \/ DeliveryStep(w) /\ UNCHANGED <<outboxVars, losses>>
  \/ Record(w)

\* What people do, and what fails in a delivery, does not concern the outbox.
WorkStep ==
  \/ \E n \in Node, ready \in BOOLEAN : CreateTask(n, ready) \/ TouchTask(n, ready)
  \/ \E u \in User :
       (\E r \in Command : StartRequest(u, r)) \/ RequestStep(u) \/ DatabaseFails(u)
  \/ \E w \in Worker : DeliveryFails(w)

DeliveryNext ==
  /\ \/ WorkStep /\ UNCHANGED <<outboxVars, losses>>
     \/ \E w \in Worker :
          \/ \E m \in Message : Claim(w, m)
          \/ DrainStep(w)
          \/ LoadFails(w) \/ MarkFails(w) \/ DrainDies(w)
     \/ \E m \in Message : LeaseLapses(m)
  /\ failures' + losses' <= MaxFailures

\* A drain that runs takes its next step, the schedule starts drains that
\* claim what is due, and leases lapse.  Nobody has to create a task or to
\* work on it, and nothing has to fail.
DeliveryFairness ==
  /\ \A w \in Worker : WF_deliveryVars(DrainStep(w))
  /\ \A m \in Message : /\ WF_deliveryVars(\E w \in Worker : Claim(w, m))
                        /\ WF_deliveryVars(~InHand(m) /\ LeaseLapses(m))

DeliverySpec == DeliveryInit /\ [][DeliveryNext]_deliveryVars /\ DeliveryFairness

-----------------------------------------------------------------------------
(* What a reader of the code relies on.                                    *)

\* The work order has the fact, as what completed it or as nothing new.
Counted(m) == \E a \in Recorded(m) : a.decision # "rejected"

\* The rules accept facts for the work order of m.
Receptive(m) == wo[m.node].state \in CompletableFrom \cup {"completed"}

\* A published row means that its work order has the fact, and a dead letter
\* says why: refused if that is on record and the fact is not counted,
\* exhausted if all attempts of the policy were made, whichever of several
\* drains recorded it for an answer it got long ago.
OutcomesTellTheTruth ==
  \A m \in Message :
    /\ row[m] = "published" => Counted(m)
    /\ row[m] = "refused" => Recorded(m) # {} /\ ~Counted(m)
    /\ row[m] = "exhausted" => attempts[m] >= MaxAttempts

\* A fact that is first delivered when its work order is receptive is counted,
\* unless an unclassified database error or the total timeout makes it a dead
\* letter: races with a claim, a completion and a repeated creation together
\* with one failure (an outage, a drain that dies, or a lease that lapses under
\* a working one) do not use up the attempts of the policy.
FactEventuallyCounted ==
  \A m \in Message :
    row[m] = "pending" /\ attempts[m] = 0 /\ Receptive(m) ~>
      Counted(m) \/ row[m] \in {"overdue", "unclassified"}
=============================================================================
