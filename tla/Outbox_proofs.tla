---------------------------- MODULE Outbox_proofs ----------------------------
(***************************************************************************)
(* Proofs about Outbox, for any number of rows, drains and replay clients, *)
(* and whether or not drains share an operator.                            *)
(***************************************************************************)
EXTENDS Outbox, FiniteSetTheorems, TLAPS

USE OutboxAssumption

\* The guards and helpers every drain step is written with.
USE DEF State, Lease, Backoff, Cause, Phase, Command, Replay

-----------------------------------------------------------------------------
(* Type correctness.                                                       *)

\* The columns, the drains' memory and the tables keep their types.
THEOREM TypeInvariant == Spec => []TypeOK
<1>1. Init => TypeOK
  BY DEF Init, TypeOK
<1>2. TypeOK /\ [Next]_vars => TypeOK'
  <2> SUFFICES ASSUME TypeOK, [Next]_vars PROVE TypeOK'
    OBVIOUS
  <2> USE DEF TypeOK
  <2>1. ASSUME NEW r \in Row, Append(r) PROVE TypeOK'
    BY <2>1 DEF Append, drainVars, replayVars, extVars, boundVars
  <2>2. ASSUME NEW r \in Row, TimeStep(r) PROVE TypeOK'
    <3>1. CASE LeaseLapses(r)
      BY <3>1 DEF LeaseLapses, drainVars, replayVars, extVars
    <3>2. CASE BackoffElapses(r)
      BY <3>2 DEF BackoffElapses, drainVars, replayVars, extVars, boundVars
    <3>3. CASE TotalTimeout(r)
      BY <3>3 DEF TotalTimeout, drainVars, replayVars, extVars, boundVars
    <3>4. QED
      BY <2>2, <3>1, <3>2, <3>3 DEF TimeStep
  <2>3. ASSUME NEW d \in Drain, ClaimBatch(d) PROVE TypeOK'
    <3>1. PICK S \in SUBSET Due :
            /\ state' = [r \in Row |-> IF r \in S THEN "publishing" ELSE state[r]]
            /\ attempts' = [r \in Row |-> IF r \in S THEN attempts[r] + 1
                                                     ELSE attempts[r]]
            /\ owner' = [r \in Row |-> IF r \in S THEN operatorOf[d] ELSE owner[r]]
            /\ lease' = [r \in Row |-> IF r \in S THEN "live" ELSE lease[r]]
            /\ batch' = [batch EXCEPT ![d] = S]
            /\ seen'  = [seen EXCEPT ![d] = [r \in Row |->
                           IF r \in S THEN attempts[r] + 1 ELSE 0]]
            /\ phase' = [phase EXCEPT ![d] = "work"]
      BY <2>3 DEF ClaimBatch
    <3>2. S \in SUBSET Row
      BY DEF Due
    <3>3. state' \in [Row -> State] /\ attempts' \in [Row -> Nat]
          /\ owner' \in [Row -> Operator \cup {None}] /\ lease' \in [Row -> Lease]
      BY <3>1
    <3>4. batch' \in [Drain -> SUBSET Row] /\ seen' \in [Drain -> [Row -> Nat]]
          /\ phase' \in [Drain -> Phase]
      BY <3>1, <3>2
    <3>5. QED
      BY <2>3, <3>3, <3>4 DEF ClaimBatch, replayVars, extVars, boundVars
  <2>4. ASSUME NEW d \in Drain, NEW r \in Row, RowStep(d, r)
        PROVE  TypeOK'
    <3>1. CASE Deliver(d, r)
      BY <3>1 DEF Deliver, rowVars, replayVars, boundVars
    <3>2. CASE DeliverTransient(d, r)
      BY <3>2 DEF DeliverTransient, rowVars, replayVars, boundVars
    <3>3. CASE DeliverFatal(d, r)
      BY <3>3 DEF DeliverFatal, rowVars, replayVars, extVars, boundVars
    <3>4. CASE MarkPublished(d, r)
      BY <3>4 DEF MarkPublished, Advance, Release, replayVars, extVars, boundVars
    <3>5. CASE ScheduleRetry(d, r)
      BY <3>5 DEF ScheduleRetry, Advance, Release, replayVars, extVars, boundVars
    <3>6. CASE DeadLetter(d, r)
      BY <3>6 DEF DeadLetter, Release, replayVars, extVars, boundVars
    <3>7. CASE Leftover(d, r)
      BY <3>7 DEF Leftover, Advance, rowVars, replayVars, extVars, boundVars
    <3>8. CASE PostNotification(d, r)
      BY <3>8 DEF PostNotification, Advance, rowVars, replayVars, boundVars
    <3>9. QED
      BY <2>4, <3>1, <3>2, <3>3, <3>4, <3>5, <3>6, <3>7, <3>8 DEF RowStep
  <2>5. ASSUME NEW d \in Drain, AckFails(d) PROVE TypeOK'
    BY <2>5 DEF AckFails, rowVars, replayVars, extVars, boundVars
  <2>6. ASSUME NEW d \in Drain, Abort(d) PROVE TypeOK'
    BY <2>6 DEF Abort, rowVars, replayVars, extVars
  <2>7. ASSUME NEW c \in Client, ReplayStep(c) PROVE TypeOK'
    <3>1. ASSUME NEW o \in Row, NEW k \in Key, ReplayLookup(c, o, k)
          PROVE  TypeOK'
      BY <3>1 DEF ReplayLookup, rowVars, drainVars, extVars, boundVars
    <3>2. ASSUME NEW r \in Row, InsertReplay(c, r) PROVE TypeOK'
      <4>1. PICK a \in asked[c] :
              /\ state' = [state EXCEPT ![r] = "pending"]
              /\ replays' = replays \cup
                             {[origin |-> a.origin, key |-> a.key, copy |-> r]}
              /\ asked' = [asked EXCEPT ![c] = {}]
        BY <3>2 DEF InsertReplay
      <4>2. a \in Command
        OBVIOUS
      <4>3. QED
        BY <3>2, <4>1, <4>2 DEF InsertReplay, drainVars, extVars, boundVars
    <3>3. CASE ReplayConflict(c)
      BY <3>3 DEF ReplayConflict, rowVars, drainVars, extVars, boundVars
    <3>4. QED
      BY <2>7, <3>1, <3>2, <3>3 DEF ReplayStep
  <2>8. CASE UNCHANGED vars
    BY <2>8 DEF vars, rowVars, drainVars, replayVars, extVars, boundVars
  <2>9. QED
    BY <2>1, <2>2, <2>3, <2>4, <2>5, <2>6, <2>7, <2>8
    DEF Next, DrainStep
<1>3. QED
  BY <1>1, <1>2, PTL DEF Spec

-----------------------------------------------------------------------------
(* The verdicts on a row.                                                  *)

\* What a drain remembers is true of the row it works on: an acknowledged
\* row was committed, a failed one has an error, an alert is for a dead
\* letter, and the attempt count read by a claim is never ahead of the row.
DrainMemory ==
  \A d \in Drain :
    /\ phase[d] = "acked"  => current[d] \in Row /\ delivered[current[d]]
    /\ phase[d] = "failed" => error[d] # "none"
    /\ phase[d] = "alert"  => current[d] \in Row /\ state[current[d]] = "dead_letter"
    /\ \A r \in Row : seen[d][r] <= attempts[r]

VerdictInv == DrainMemory /\ PublishedWasDelivered /\ DeadLetterJustified

LEMMA VerdictStep ==
  ASSUME TypeOK, VerdictInv, [Next]_vars
  PROVE  VerdictInv'
<1> USE DEF TypeOK, VerdictInv, DrainMemory, PublishedWasDelivered,
            DeadLetterJustified
<1>1. ASSUME NEW r \in Row, Append(r) PROVE VerdictInv'
  BY <1>1 DEF Append, drainVars, replayVars, extVars, boundVars
<1>2. ASSUME NEW r \in Row, TimeStep(r) PROVE VerdictInv'
  <2>1. CASE LeaseLapses(r)
    BY <2>1 DEF LeaseLapses, drainVars, replayVars, extVars
  <2>2. CASE BackoffElapses(r)
    BY <2>2 DEF BackoffElapses, drainVars, replayVars, extVars
  <2>3. CASE TotalTimeout(r)
    BY <2>3 DEF TotalTimeout, drainVars, replayVars, extVars
  <2>4. QED
    BY <1>2, <2>1, <2>2, <2>3 DEF TimeStep
<1>3. ASSUME NEW d \in Drain, ClaimBatch(d) PROVE VerdictInv'
  <2>1. PICK S \in SUBSET Due :
          /\ state' = [r \in Row |-> IF r \in S THEN "publishing" ELSE state[r]]
          /\ attempts' = [r \in Row |-> IF r \in S THEN attempts[r] + 1
                                                   ELSE attempts[r]]
          /\ seen'  = [seen EXCEPT ![d] = [r \in Row |->
                         IF r \in S THEN attempts[r] + 1 ELSE 0]]
          /\ phase' = [phase EXCEPT ![d] = "work"]
    BY <1>3 DEF ClaimBatch
  <2>2. \A r \in S : state[r] # "dead_letter"
    BY DEF Due, Claimable
  <2>3. UNCHANGED <<cause, overdue, current, error, delivered>>
    BY <1>3 DEF ClaimBatch, extVars
  <2>4. \A e \in Drain, r \in Row : seen'[e][r] <= attempts'[r]
    BY <2>1
  <2>5. QED
    BY <2>1, <2>2, <2>3, <2>4
<1>4. ASSUME NEW d \in Drain, NEW r \in Row, RowStep(d, r) PROVE VerdictInv'
  <2>1. CASE Deliver(d, r)
    BY <2>1 DEF Deliver, rowVars
  <2>2. CASE DeliverTransient(d, r)
    BY <2>2 DEF DeliverTransient, rowVars
  <2>3. CASE DeliverFatal(d, r)
    BY <2>3 DEF DeliverFatal, rowVars, extVars
  <2>4. CASE MarkPublished(d, r)
    BY <2>4 DEF MarkPublished, Fence, Advance, extVars
  <2>5. CASE ScheduleRetry(d, r)
    BY <2>5 DEF ScheduleRetry, Fence, Advance, extVars
  <2>6. CASE DeadLetter(d, r)
    BY <2>6 DEF DeadLetter, Fence, GivesUp, extVars
  <2>7. CASE Leftover(d, r)
    BY <2>7 DEF Leftover, Advance, rowVars, extVars
  <2>8. CASE PostNotification(d, r)
    BY <2>8 DEF PostNotification, Advance, rowVars
  <2>9. QED
    BY <1>4, <2>1, <2>2, <2>3, <2>4, <2>5, <2>6, <2>7, <2>8 DEF RowStep
<1>5. ASSUME NEW d \in Drain, AckFails(d) PROVE VerdictInv'
  BY <1>5 DEF AckFails, rowVars, extVars
<1>6. ASSUME NEW d \in Drain, Abort(d) PROVE VerdictInv'
  BY <1>6 DEF Abort, rowVars, extVars
<1>7. ASSUME NEW c \in Client, ReplayStep(c) PROVE VerdictInv'
  <2>1. ASSUME NEW r \in Row, InsertReplay(c, r) PROVE VerdictInv'
    BY <2>1 DEF InsertReplay, drainVars, extVars
  <2>2. CASE ~\E r \in Row : InsertReplay(c, r)
    BY <1>7, <2>2 DEF ReplayStep, ReplayLookup, ReplayConflict, rowVars,
       drainVars, extVars
  <2>3. QED
    BY <2>1, <2>2
<1>8. CASE UNCHANGED vars
  BY <1>8 DEF vars, rowVars, drainVars, extVars
<1>9. QED
  BY <1>1, <1>2, <1>3, <1>4, <1>5, <1>6, <1>7, <1>8 DEF Next, DrainStep

\* A row marked published was committed at its consumer, however many
\* drains worked on it and whoever owned its lease.
THEOREM PublishedOnlyAfterDelivery == Spec => []PublishedWasDelivered
<1>1. Init => VerdictInv
  BY DEF Init, VerdictInv, DrainMemory, PublishedWasDelivered,
         DeadLetterJustified
<1>2. TypeOK /\ VerdictInv /\ [Next]_vars => VerdictInv'
  BY VerdictStep
<1>3. VerdictInv => PublishedWasDelivered
  BY DEF VerdictInv
<1>4. QED
  BY <1>1, <1>2, <1>3, TypeInvariant, PTL DEF Spec

\* A dead letter had a non-retryable error, used up its attempts or its
\* time, even when the verdict was reached from an outdated attempt count.
THEOREM DeadLettersAreJustified == Spec => []DeadLetterJustified
<1>1. Init => VerdictInv
  BY DEF Init, VerdictInv, DrainMemory, PublishedWasDelivered,
         DeadLetterJustified
<1>2. TypeOK /\ VerdictInv /\ [Next]_vars => VerdictInv'
  BY VerdictStep
<1>3. VerdictInv => DeadLetterJustified
  BY DEF VerdictInv
<1>4. QED
  BY <1>1, <1>2, <1>3, TypeInvariant, PTL DEF Spec

-----------------------------------------------------------------------------
(* Mutual exclusion by lease.                                              *)

\* While no lease has lapsed under a working drain, whatever a drain has in
\* its batch is covered by its own live lease, except for the dead letter
\* it is about to report.
Covered(d, r) ==
  /\ seen[d][r] = attempts[r]
  /\ \/ state[r] = "publishing" /\ lease[r] = "live" /\ owner[r] = operatorOf[d]
     \/ state[r] = "dead_letter" /\ phase[d] = "alert" /\ current[d] = r

LeaseInv ==
  /\ \A d \in Drain : phase[d] = "idle" => batch[d] = {}
  /\ \A d \in Drain :
       phase[d] \in {"acked", "failed", "alert"} => current[d] \in batch[d]
  /\ NoSharedRowWithoutLapse
  /\ lapses = 0 => \A d \in Drain : \A r \in batch[d] : Covered(d, r)

LEMMA LeaseStep ==
  ASSUME TypeOK, LeaseInv, [Next]_vars
  PROVE  LeaseInv'
<1> USE DEF TypeOK, LeaseInv, NoSharedRowWithoutLapse, Covered
<1>1. ASSUME NEW r \in Row, Append(r) PROVE LeaseInv'
  BY <1>1 DEF Append, drainVars, boundVars
<1>2. ASSUME NEW r \in Row, TimeStep(r) PROVE LeaseInv'
  <2>1. CASE LeaseLapses(r)
    <3>1. CASE lapses' = lapses + 1
      BY <2>1, <3>1 DEF LeaseLapses, drainVars
    <3>2. CASE ~AtWork(r) /\ UNCHANGED lapses
      BY <2>1, <3>2 DEF LeaseLapses, AtWork, drainVars
    <3>3. QED
      BY <2>1, <3>1, <3>2 DEF LeaseLapses
  <2>2. CASE BackoffElapses(r)
    BY <2>2 DEF BackoffElapses, drainVars, boundVars
  <2>3. CASE TotalTimeout(r)
    BY <2>3 DEF TotalTimeout, drainVars, boundVars
  <2>4. QED
    BY <1>2, <2>1, <2>2, <2>3 DEF TimeStep
<1>3. ASSUME NEW d \in Drain, ClaimBatch(d) PROVE LeaseInv'
  <2>1. PICK S \in SUBSET Due :
          /\ state' = [r \in Row |-> IF r \in S THEN "publishing" ELSE state[r]]
          /\ attempts' = [r \in Row |-> IF r \in S THEN attempts[r] + 1
                                                   ELSE attempts[r]]
          /\ owner' = [r \in Row |-> IF r \in S THEN operatorOf[d] ELSE owner[r]]
          /\ lease' = [r \in Row |-> IF r \in S THEN "live" ELSE lease[r]]
          /\ batch' = [batch EXCEPT ![d] = S]
          /\ seen'  = [seen EXCEPT ![d] = [r \in Row |->
                         IF r \in S THEN attempts[r] + 1 ELSE 0]]
          /\ phase' = [phase EXCEPT ![d] = "work"]
    BY <1>3 DEF ClaimBatch
  <2>2. batch[d] = {} /\ UNCHANGED <<current, lapses>>
    BY <1>3 DEF ClaimBatch, boundVars
  <2>3. \A r \in S : r \in Row /\ state[r] # "dead_letter"
                    /\ ~(state[r] = "publishing" /\ lease[r] = "live")
    BY DEF Due, Claimable
  <2>4. lapses = 0 => \A e \in Drain : S \cap batch[e] = {}
    BY <2>3
  <2>5. QED
    BY <2>1, <2>2, <2>3, <2>4
<1>4. ASSUME NEW d \in Drain, NEW r \in Row, RowStep(d, r) PROVE LeaseInv'
  <2>1. CASE Deliver(d, r)
    BY <2>1 DEF Deliver, rowVars, boundVars
  <2>2. CASE DeliverTransient(d, r)
    BY <2>2 DEF DeliverTransient, rowVars, boundVars
  <2>3. CASE DeliverFatal(d, r)
    BY <2>3 DEF DeliverFatal, rowVars, boundVars
  <2>4. CASE MarkPublished(d, r)
    <3>1. r \in batch[d] /\ UNCHANGED <<attempts, seen, lapses>>
      BY <2>4 DEF MarkPublished, boundVars
    <3>2. lapses = 0 => \A e \in Drain \ {d} : r \notin batch[e]
      BY <3>1
    <3>3. \A e \in Drain : batch'[e] = IF e = d THEN batch[d] \ {r} ELSE batch[e]
      BY <2>4 DEF MarkPublished, Advance
    <3>4. \A q \in Row \ {r} : /\ state'[q] = state[q]
                               /\ lease'[q] = lease[q]
                               /\ owner'[q] = owner[q]
      BY <2>4 DEF MarkPublished, Release
    <3>5. \A e \in Drain \ {d} : phase'[e] = phase[e] /\ current'[e] = current[e]
      BY <2>4 DEF MarkPublished, Advance
    <3>6. \A q \in batch'[d] : (q # r /\ state[q] # "dead_letter") \/ lapses # 0
      BY <2>4, <3>3 DEF MarkPublished
    <3>7. /\ phase'[d] \in {"idle", "work"}
          /\ phase'[d] = "idle" => batch'[d] = {}
      BY <2>4 DEF MarkPublished, Advance
    <3>8. ASSUME lapses' = 0, NEW e \in Drain, NEW q \in batch'[e]
          PROVE  Covered(e, q)'
      <4>1. q \in Row \ {r} /\ q \in batch[e] /\ Covered(e, q)
        BY <3>1, <3>2, <3>3, <3>8
      <4>2. CASE e = d
        BY <3>1, <3>4, <3>6, <3>8, <4>1, <4>2
      <4>3. CASE e # d
        BY <3>1, <3>4, <3>5, <4>1, <4>3
      <4>4. QED
        BY <4>2, <4>3
    <3>9. NoSharedRowWithoutLapse'
      <4>1. \A e \in Drain : batch'[e] \subseteq batch[e]
        BY <3>3
      <4>2. QED
        BY <3>1, <4>1
    <3>10. \A e \in Drain :
             /\ phase'[e] = "idle" => batch'[e] = {}
             /\ phase'[e] \in {"acked", "failed", "alert"} =>
                  current'[e] \in batch'[e]
      BY <3>3, <3>5, <3>7
    <3>11. QED
      BY <3>8, <3>9, <3>10
  <2>5. CASE ScheduleRetry(d, r)
    <3>1. r \in batch[d] /\ UNCHANGED <<attempts, seen, lapses>>
      BY <2>5 DEF ScheduleRetry, boundVars
    <3>2. lapses = 0 => \A e \in Drain \ {d} : r \notin batch[e]
      BY <3>1
    <3>3. \A e \in Drain : batch'[e] = IF e = d THEN batch[d] \ {r} ELSE batch[e]
      BY <2>5 DEF ScheduleRetry, Advance
    <3>4. \A q \in Row \ {r} : /\ state'[q] = state[q]
                               /\ lease'[q] = lease[q]
                               /\ owner'[q] = owner[q]
      BY <2>5 DEF ScheduleRetry, Release
    <3>5. \A e \in Drain \ {d} : phase'[e] = phase[e] /\ current'[e] = current[e]
      BY <2>5 DEF ScheduleRetry, Advance
    <3>6. \A q \in batch'[d] : (q # r /\ state[q] # "dead_letter") \/ lapses # 0
      BY <2>5, <3>3 DEF ScheduleRetry
    <3>7. /\ phase'[d] \in {"idle", "work"}
          /\ phase'[d] = "idle" => batch'[d] = {}
      BY <2>5 DEF ScheduleRetry, Advance
    <3>8. ASSUME lapses' = 0, NEW e \in Drain, NEW q \in batch'[e]
          PROVE  Covered(e, q)'
      <4>1. q \in Row \ {r} /\ q \in batch[e] /\ Covered(e, q)
        BY <3>1, <3>2, <3>3, <3>8
      <4>2. CASE e = d
        BY <3>1, <3>4, <3>6, <3>8, <4>1, <4>2
      <4>3. CASE e # d
        BY <3>1, <3>4, <3>5, <4>1, <4>3
      <4>4. QED
        BY <4>2, <4>3
    <3>9. NoSharedRowWithoutLapse'
      <4>1. \A e \in Drain : batch'[e] \subseteq batch[e]
        BY <3>3
      <4>2. QED
        BY <3>1, <4>1
    <3>10. \A e \in Drain :
             /\ phase'[e] = "idle" => batch'[e] = {}
             /\ phase'[e] \in {"acked", "failed", "alert"} =>
                  current'[e] \in batch'[e]
      BY <3>3, <3>5, <3>7
    <3>11. QED
      BY <3>8, <3>9, <3>10
  <2>6. CASE DeadLetter(d, r)
    <3>1. r \in batch[d] /\ UNCHANGED <<attempts, seen, batch, current, lapses>>
      BY <2>6 DEF DeadLetter, boundVars
    <3>2. lapses = 0 => \A e \in Drain \ {d} : r \notin batch[e]
      BY <3>1
    <3>3. \A q \in Row \ {r} : /\ state'[q] = state[q]
                               /\ lease'[q] = lease[q]
                               /\ owner'[q] = owner[q]
      BY <2>6 DEF DeadLetter, Release
    <3>4. /\ state'[r] = "dead_letter" /\ phase'[d] = "alert" /\ current[d] = r
          /\ phase[d] = "failed"
          /\ \A e \in Drain \ {d} : phase'[e] = phase[e]
      BY <2>6 DEF DeadLetter
    <3>5. ASSUME lapses' = 0, NEW e \in Drain, NEW q \in batch'[e]
          PROVE  Covered(e, q)'
      <4>1. q \in Row /\ q \in batch[e] /\ Covered(e, q)
        BY <3>1, <3>5
      <4>2. CASE q = r
        BY <3>1, <3>2, <3>4, <3>5, <4>1, <4>2
      <4>3. CASE q # r
        BY <3>1, <3>3, <3>4, <4>1, <4>3
      <4>4. QED
        BY <4>2, <4>3
    <3>6. QED
      BY <3>1, <3>4, <3>5
  <2>7. CASE Leftover(d, r)
    BY <2>7 DEF Leftover, Advance, rowVars, boundVars
  <2>8. CASE PostNotification(d, r)
    BY <2>8 DEF PostNotification, Advance, rowVars, boundVars
  <2>9. QED
    BY <1>4, <2>1, <2>2, <2>3, <2>4, <2>5, <2>6, <2>7, <2>8 DEF RowStep
<1>5. ASSUME NEW d \in Drain, AckFails(d) PROVE LeaseInv'
  BY <1>5 DEF AckFails, rowVars, boundVars
<1>6. ASSUME NEW d \in Drain, Abort(d) PROVE LeaseInv'
  BY <1>6 DEF Abort, rowVars
<1>7. ASSUME NEW c \in Client, ReplayStep(c) PROVE LeaseInv'
  <2>1. ASSUME NEW r \in Row, InsertReplay(c, r) PROVE LeaseInv'
    BY <2>1 DEF InsertReplay, drainVars, boundVars
  <2>2. CASE ~\E r \in Row : InsertReplay(c, r)
    BY <1>7, <2>2 DEF ReplayStep, ReplayLookup, ReplayConflict, rowVars,
       drainVars, boundVars
  <2>3. QED
    BY <2>1, <2>2
<1>8. CASE UNCHANGED vars
  BY <1>8 DEF vars, rowVars, drainVars, boundVars
<1>9. QED
  BY <1>1, <1>2, <1>3, <1>4, <1>5, <1>6, <1>7, <1>8 DEF Next, DrainStep

\* Leases keep drains off each other's rows, even drains with one operator,
\* as long as every drain finishes a row within its lease.
THEOREM LeasesExclude == Spec => []NoSharedRowWithoutLapse
<1>1. Init => LeaseInv
  BY DEF Init, LeaseInv, NoSharedRowWithoutLapse
<1>2. TypeOK /\ LeaseInv /\ [Next]_vars => LeaseInv'
  BY LeaseStep
<1>3. LeaseInv => NoSharedRowWithoutLapse
  BY DEF LeaseInv
<1>4. QED
  BY <1>1, <1>2, <1>3, TypeInvariant, PTL DEF Spec

-----------------------------------------------------------------------------
(* What a drain holds, and the steps that claim nothing.                   *)

\* An idle drain holds nothing; the row whose outcome is pending is held.
Phases ==
  /\ \A d \in Drain : phase[d] = "idle" => batch[d] = {}
  /\ \A d \in Drain :
       phase[d] \in {"acked", "failed", "alert"} => current[d] \in batch[d]

\* A step that claims nothing leaves the counters alone, no row starts
\* publishing, changes hands or disappears, and batches only shrink.
Keeps ==
  /\ UNCHANGED <<attempts, seen>>
  /\ \A r \in Row : state'[r] = "absent" => state[r] = "absent"
  /\ \A r \in Row : state'[r] = "publishing" =>
                      state[r] = "publishing" /\ owner'[r] = owner[r]
  /\ \A d \in Drain : batch'[d] \subseteq batch[d]

\* After an outcome was recorded the row has left the drain's hands.
LEMMA AdvanceKeeps ==
  ASSUME TypeOK, Phases, NEW d \in Drain, NEW r \in Row, Advance(d, r)
  PROVE  Phases' /\ \A e \in Drain : batch'[e] \subseteq batch[e]
BY DEF Advance, Phases, TypeOK

\* Only a claim puts a row into a drain's hands.
LEMMA OnlyClaimsTake ==
  ASSUME TypeOK, Phases, [Next]_vars
  PROVE  (\E d \in Drain : ClaimBatch(d)) \/ (Keeps /\ Phases')
<1> USE DEF TypeOK, Keeps
<1> SUFFICES ASSUME \A d \in Drain : ~ClaimBatch(d) PROVE Keeps /\ Phases'
  OBVIOUS
<1>1. ASSUME NEW r \in Row, Append(r) PROVE Keeps /\ Phases'
  BY <1>1 DEF Append, drainVars, Phases
<1>2. ASSUME NEW r \in Row, TimeStep(r) PROVE Keeps /\ Phases'
  BY <1>2 DEF TimeStep, LeaseLapses, BackoffElapses, TotalTimeout, drainVars,
     Phases
<1>3. ASSUME NEW d \in Drain, NEW r \in Row, RowStep(d, r)
      PROVE  Keeps /\ Phases'
  <2>1. CASE Deliver(d, r) \/ DeliverTransient(d, r) \/ DeliverFatal(d, r)
    <3>1. /\ UNCHANGED <<attempts, seen, state, owner, batch>>
          /\ r \in batch[d]
          /\ current' = [current EXCEPT ![d] = r]
          /\ \E p \in {"acked", "failed"} : phase' = [phase EXCEPT ![d] = p]
      BY <2>1 DEF Deliver, DeliverTransient, DeliverFatal, rowVars
    <3>2. QED
      BY <3>1 DEF Phases
  <2>2. CASE MarkPublished(d, r) \/ ScheduleRetry(d, r)
    <3>1. /\ UNCHANGED <<attempts, seen>>
          /\ \E s \in State : state' = [state EXCEPT ![r] = s] /\ s \notin {"publishing", "absent"}
          /\ owner' = [owner EXCEPT ![r] = None]
          /\ Advance(d, r)
      BY <2>2 DEF MarkPublished, ScheduleRetry, Release, State
    <3>2. Phases' /\ \A e \in Drain : batch'[e] \subseteq batch[e]
      BY <3>1, AdvanceKeeps
    <3>3. QED
      BY <3>1, <3>2
  <2>3. CASE DeadLetter(d, r)
    <3>1. /\ UNCHANGED <<attempts, seen, batch, current>>
          /\ state' = [state EXCEPT ![r] = "dead_letter"]
          /\ owner' = [owner EXCEPT ![r] = None]
          /\ phase[d] = "failed" /\ phase' = [phase EXCEPT ![d] = "alert"]
      BY <2>3 DEF DeadLetter, Release
    <3>2. QED
      BY <3>1 DEF Phases
  <2>4. CASE Leftover(d, r) \/ PostNotification(d, r)
    <3>1. Advance(d, r) /\ UNCHANGED <<attempts, seen, state, owner>>
      BY <2>4 DEF Leftover, PostNotification, rowVars
    <3>2. Phases' /\ \A e \in Drain : batch'[e] \subseteq batch[e]
      BY <3>1, AdvanceKeeps
    <3>3. QED
      BY <3>1, <3>2
  <2>5. QED
    BY <1>3, <2>1, <2>2, <2>3, <2>4 DEF RowStep
<1>4. ASSUME NEW d \in Drain, AckFails(d) \/ Abort(d) PROVE Keeps /\ Phases'
  <2>1. CASE AckFails(d)
    BY <2>1 DEF AckFails, rowVars, Phases
  <2>2. CASE Abort(d)
    BY <2>2 DEF Abort, rowVars, Phases
  <2>3. QED
    BY <1>4, <2>1, <2>2
<1>5. ASSUME NEW c \in Client, ReplayStep(c) PROVE Keeps /\ Phases'
  <2>1. ASSUME NEW r \in Row, InsertReplay(c, r) PROVE Keeps /\ Phases'
    <3>1. /\ state[r] = "absent" /\ state' = [state EXCEPT ![r] = "pending"]
          /\ UNCHANGED <<attempts, owner, drainVars>>
      BY <2>1 DEF InsertReplay
    <3>2. QED
      BY <3>1 DEF drainVars, Phases
  <2>2. ASSUME \/ ReplayConflict(c)
               \/ \E o \in Row, k \in Key : ReplayLookup(c, o, k)
        PROVE  Keeps /\ Phases'
    BY <2>2 DEF ReplayLookup, ReplayConflict, rowVars, drainVars, Phases
  <2>3. QED
    BY <1>5, <2>1, <2>2 DEF ReplayStep
<1>6. CASE UNCHANGED vars
  BY <1>6 DEF vars, rowVars, drainVars, Phases
<1>7. QED
  BY <1>1, <1>2, <1>3, <1>4, <1>5, <1>6 DEF Next, DrainStep

\* What a claim writes.
Claims(d, S) ==
  /\ S \subseteq Due
  /\ state' = [r \in Row |-> IF r \in S THEN "publishing" ELSE state[r]]
  /\ attempts' = [r \in Row |-> IF r \in S THEN attempts[r] + 1
                                           ELSE attempts[r]]
  /\ owner' = [r \in Row |-> IF r \in S THEN operatorOf[d] ELSE owner[r]]
  /\ lease' = [r \in Row |-> IF r \in S THEN "live" ELSE lease[r]]
  /\ batch' = [batch EXCEPT ![d] = S]
  /\ seen'  = [seen EXCEPT ![d] = [r \in Row |->
                 IF r \in S THEN attempts[r] + 1 ELSE 0]]
  /\ phase' = [phase EXCEPT ![d] = "work"]

\* A claim is made by a drain that holds nothing.
LEMMA ClaimWrites ==
  ASSUME TypeOK, Phases, NEW d \in Drain, ClaimBatch(d)
  PROVE  /\ batch[d] = {} /\ UNCHANGED <<current, boundVars>> /\ Phases'
         /\ \E S \in SUBSET Row : Claims(d, S)
<1>1. PICK S \in SUBSET Due : Claims(d, S)
  BY DEF ClaimBatch, Claims
<1>2. batch[d] = {} /\ UNCHANGED <<current, boundVars>> /\ S \in SUBSET Row
  BY DEF ClaimBatch, Phases, Due
<1>3. Phases'
  BY <1>1, <1>2 DEF Claims, Phases, TypeOK
<1>4. QED
  BY <1>1, <1>2, <1>3

-----------------------------------------------------------------------------
(* The fence.                                                              *)

\* The owner column identifies the last claim of a drain with an operator of
\* its own: if such a drain still owns a row it holds, it claimed it last.
FenceInv ==
  /\ Phases
  /\ \A d \in Drain : \A r \in batch[d] :
       /\ state[r] # "absent"
       /\ Fence(d, r) /\ Alone(d) => seen[d][r] = attempts[r]

\* A step that claims nothing keeps FenceInv.
LEMMA FenceFrame ==
  ASSUME TypeOK, FenceInv, Keeps, Phases'
  PROVE  FenceInv'
<1>1. ASSUME NEW d \in Drain, NEW r \in batch'[d]
      PROVE  /\ state'[r] # "absent"
             /\ Fence(d, r)' /\ Alone(d) => seen'[d][r] = attempts'[r]
  <2>1. r \in batch[d] /\ r \in Row
    BY <1>1 DEF TypeOK, Keeps
  <2>2. state[r] # "absent" /\ (Fence(d, r) /\ Alone(d) => seen[d][r] = attempts[r])
    BY <2>1 DEF FenceInv
  <2>3. Fence(d, r)' => Fence(d, r)
    BY <2>1 DEF Fence, Keeps
  <2>4. QED
    BY <2>1, <2>2, <2>3 DEF Keeps
<1>2. QED
  BY <1>1 DEF FenceInv

\* Every step keeps FenceInv.
LEMMA FenceStep ==
  ASSUME TypeOK, FenceInv, [Next]_vars
  PROVE  FenceInv'
<1>1. ASSUME NEW d \in Drain, ClaimBatch(d) PROVE FenceInv'
  <2>1. /\ batch[d] = {} /\ UNCHANGED current /\ Phases'
        /\ \E S \in SUBSET Row : Claims(d, S)
    BY <1>1, ClaimWrites DEF FenceInv
  <2>2. PICK S \in SUBSET Row : Claims(d, S)
    BY <2>1
  <2>3. ASSUME NEW e \in Drain, NEW r \in batch'[e]
        PROVE  /\ state'[r] # "absent"
               /\ Fence(e, r)' /\ Alone(e) => seen'[e][r] = attempts'[r]
    <3>1. CASE e = d
      <4>1. r \in S /\ r \in Row
        BY <2>2, <2>3, <3>1 DEF TypeOK, Claims
      <4>2. state'[r] = "publishing" /\ attempts'[r] = attempts[r] + 1
        BY <2>2, <4>1 DEF Claims
      <4>3. seen'[e][r] = attempts[r] + 1
        BY <2>2, <3>1, <4>1 DEF TypeOK, Claims
      <4>4. QED
        BY <4>2, <4>3
    <3>2. CASE e # d
      <4>1. r \in batch[e] /\ r \in Row /\ seen'[e][r] = seen[e][r]
        BY <2>2, <2>3, <3>2 DEF TypeOK, Claims
      <4>2. state[r] # "absent" /\ (Fence(e, r) /\ Alone(e) => seen[e][r] = attempts[r])
        BY <4>1 DEF FenceInv
      <4>3. CASE r \in S
        <5>1. owner'[r] = operatorOf[d] /\ state'[r] = "publishing"
          BY <2>2, <4>1, <4>3 DEF Claims
        <5>2. Alone(e) => ~Fence(e, r)'
          BY <3>2, <5>1 DEF Fence, Alone
        <5>3. QED
          BY <5>1, <5>2
      <4>4. CASE r \notin S
        <5>1. /\ state'[r] = state[r]
              /\ owner'[r] = owner[r]
              /\ attempts'[r] = attempts[r]
          BY <2>2, <4>1, <4>4 DEF Claims
        <5>2. Fence(e, r)' <=> Fence(e, r)
          BY <5>1 DEF Fence
        <5>3. QED
          BY <4>1, <4>2, <5>1, <5>2
      <4>5. QED
        BY <4>3, <4>4
    <3>3. QED
      BY <3>1, <3>2
  <2>4. QED
    BY <2>1, <2>3 DEF FenceInv
<1>2. CASE ~ \E d \in Drain : ClaimBatch(d)
  BY <1>2, OnlyClaimsTake, FenceFrame DEF FenceInv
<1>3. QED
  BY <1>1, <1>2

\* The steps that change a publishing row's state are the three that record
\* an outcome.
LEMMA Settling ==
  ASSUME TypeOK, [Next]_vars, NEW r \in Row,
         state[r] = "publishing", state'[r] # "publishing"
  PROVE  \E d \in Drain :
           MarkPublished(d, r) \/ ScheduleRetry(d, r) \/ DeadLetter(d, r)
<1> USE DEF TypeOK
<1>1. ~ \E d \in Drain : ClaimBatch(d)
  BY DEF ClaimBatch
<1>2. ~ \E d \in Drain, q \in Row :
          \/ Deliver(d, q) \/ DeliverTransient(d, q) \/ DeliverFatal(d, q)
          \/ Leftover(d, q) \/ PostNotification(d, q)
  BY DEF Deliver, DeliverTransient, DeliverFatal, Leftover, PostNotification,
     rowVars
<1>3. ~ \E d \in Drain : AckFails(d) \/ Abort(d)
  BY DEF AckFails, Abort, rowVars
<1>4. ~ \E c \in Client : ReplayStep(c)
  BY DEF ReplayStep, ReplayLookup, InsertReplay, ReplayConflict, rowVars
<1>5. ~ \E q \in Row : Append(q) \/ TimeStep(q)
  BY DEF Append, TimeStep, LeaseLapses, BackoffElapses, TotalTimeout
<1>6. ~ UNCHANGED vars
  BY DEF vars, rowVars
<1>7. \A d \in Drain, q \in Row :
        MarkPublished(d, q) \/ ScheduleRetry(d, q) \/ DeadLetter(d, q) => q = r
  BY DEF MarkPublished, ScheduleRetry, DeadLetter
<1>8. QED
  BY <1>1, <1>2, <1>3, <1>4, <1>5, <1>6, <1>7 DEF Next, DrainStep, RowStep

\* For any assignment of operators to drains: a drain with an operator of its
\* own never records an outcome under an outdated claim, however many others
\* share theirs.  When no two drains share one this is OnlyLastClaimSettles.
THEOREM FenceIsSound == Spec => FenceStopsOthers
<1>1. Init => FenceInv
  BY DEF Init, FenceInv, Phases
<1>2. TypeOK /\ FenceInv /\ [Next]_vars => FenceInv'
  BY FenceStep
<1>3. TypeOK /\ FenceInv /\ [Next]_vars =>
      [\A r \in Row :
         state[r] = "publishing" /\ state'[r] # "publishing" =>
           \E d \in Drain : Settles(d, r) /\ (Alone(d) => CurrentClaim(d, r))]_vars
  <2> SUFFICES ASSUME TypeOK, FenceInv, [Next]_vars, NEW r \in Row,
                      state[r] = "publishing", state'[r] # "publishing"
               PROVE  \E d \in Drain :
                        Settles(d, r) /\ (Alone(d) => CurrentClaim(d, r))
    OBVIOUS
  <2>1. PICK d \in Drain :
          MarkPublished(d, r) \/ ScheduleRetry(d, r) \/ DeadLetter(d, r)
    BY Settling
  <2>2. current[d] = r /\ Fence(d, r) /\ phase[d] \in {"acked", "failed"}
    BY <2>1 DEF MarkPublished, ScheduleRetry, DeadLetter
  <2>3. phase'[d] # phase[d]
    BY <2>1, <2>2 DEF MarkPublished, ScheduleRetry, DeadLetter, Advance, TypeOK
  <2>4. Alone(d) => seen[d][r] = attempts[r]
    BY <2>2 DEF FenceInv, Phases
  <2>5. QED
    BY <2>2, <2>3, <2>4 DEF CurrentClaim, Settles
<1>4. QED
  BY <1>1, <1>2, <1>3, TypeInvariant, PTL DEF Spec, FenceStopsOthers

-----------------------------------------------------------------------------
(* Rows only move forward.                                                 *)

\* A step leaves a row alone, or creates it, or moves it while it is open.
Moved(r) ==
  \/ state'[r] = state[r] /\ cause'[r] = cause[r]
  \/ state[r] = "absent" /\ state'[r] = "pending" /\ cause'[r] = cause[r]
  \/ /\ state[r] \in {"pending", "publishing", "retry_wait"}
     /\ state'[r] \in {"publishing", "retry_wait", "published", "dead_letter"}

\* Every writer of outbox_message compares the state it writes over.
LEMMA RowsMove ==
  ASSUME TypeOK, [Next]_vars
  PROVE  \A r \in Row : Moved(r)
<1> USE DEF TypeOK, Moved
<1>1. ASSUME NEW q \in Row, Append(q) \/ TimeStep(q)
      PROVE  \A r \in Row : Moved(r)
  BY <1>1 DEF Append, TimeStep, LeaseLapses, BackoffElapses, TotalTimeout
<1>2. ASSUME NEW d \in Drain, ClaimBatch(d)
      PROVE  \A r \in Row : Moved(r)
  <2>1. PICK S \in SUBSET Due :
          state' = [r \in Row |-> IF r \in S THEN "publishing" ELSE state[r]]
    BY <1>2 DEF ClaimBatch
  <2>2. UNCHANGED cause
    BY <1>2 DEF ClaimBatch
  <2>3. \A r \in S : state[r] \in {"pending", "publishing", "retry_wait"}
    BY DEF Due, Claimable
  <2>4. QED
    BY <2>1, <2>2, <2>3
<1>3. ASSUME NEW d \in Drain, NEW q \in Row, RowStep(d, q)
      PROVE  \A r \in Row : Moved(r)
  <2>1. CASE MarkPublished(d, q)
    BY <2>1 DEF MarkPublished, Fence
  <2>2. CASE ScheduleRetry(d, q)
    BY <2>2 DEF ScheduleRetry, Fence
  <2>3. CASE DeadLetter(d, q)
    BY <2>3 DEF DeadLetter, Fence
  <2>4. CASE \/ Deliver(d, q) \/ DeliverTransient(d, q) \/ DeliverFatal(d, q)
             \/ Leftover(d, q) \/ PostNotification(d, q)
    BY <2>4 DEF Deliver, DeliverTransient, DeliverFatal, Leftover,
       PostNotification, rowVars
  <2>5. QED
    BY <1>3, <2>1, <2>2, <2>3, <2>4 DEF RowStep
<1>4. ASSUME NEW d \in Drain, AckFails(d) \/ Abort(d)
      PROVE  \A r \in Row : Moved(r)
  BY <1>4 DEF AckFails, Abort, rowVars
<1>5. ASSUME NEW c \in Client, ReplayStep(c)
      PROVE  \A r \in Row : Moved(r)
  <2>1. ASSUME NEW q \in Row, InsertReplay(c, q)
        PROVE  \A r \in Row : Moved(r)
    BY <2>1 DEF InsertReplay
  <2>2. CASE \/ ReplayConflict(c)
             \/ \E o \in Row, k \in Key : ReplayLookup(c, o, k)
    BY <2>2 DEF ReplayLookup, ReplayConflict, rowVars
  <2>3. QED
    BY <1>5, <2>1, <2>2 DEF ReplayStep
<1>6. CASE UNCHANGED vars
  BY <1>6 DEF vars, rowVars
<1>7. QED
  BY <1>1, <1>2, <1>3, <1>4, <1>5, <1>6 DEF Next, DrainStep

\* A published row and a dead letter are closed for good, whatever drains
\* that are behind still try to record.
THEOREM SettledStaysFinal == Spec => SettledIsFinal
<1>1. TypeOK /\ [Next]_vars =>
        [\A r \in Row : Settled(r) =>
           state'[r] = state[r] /\ cause'[r] = cause[r]]_vars
  <2> SUFFICES ASSUME TypeOK, [Next]_vars, NEW r \in Row, Settled(r)
               PROVE  state'[r] = state[r] /\ cause'[r] = cause[r]
    OBVIOUS
  <2>1. Moved(r)
    BY RowsMove
  <2>2. QED
    BY <2>1 DEF Moved, Settled
<1>2. QED
  BY <1>1, TypeInvariant, PTL DEF Spec, SettledIsFinal

-----------------------------------------------------------------------------
(* Manual replay.                                                          *)

\* A command that has passed its lookup is about a dead letter, which a dead
\* letter then stays until the insert.
ReplayInv ==
  /\ \A c \in Client : \A a \in asked[c] : state[a.origin] = "dead_letter"
  /\ ReplaysSound

\* Steps that leave the replay tables alone keep them true.
LEMMA ReplayFrame ==
  ASSUME TypeOK, ReplayInv, UNCHANGED replayVars, \A r \in Row : Moved(r)
  PROVE  ReplayInv'
<1>1. \A r \in Row : /\ state[r] = "dead_letter" => state'[r] = "dead_letter"
                     /\ Created(r) => Created(r)'
  BY DEF Moved, Created
<1>2. \A p \in replays : p.origin \in Row /\ p.copy \in Row
  BY DEF TypeOK
<1>3. \A c \in Client : \A a \in asked[c] : a.origin \in Row
  BY DEF TypeOK
<1>4. QED
  BY <1>1, <1>2, <1>3 DEF ReplayInv, ReplaysSound, replayVars

\* Every step keeps ReplayInv.
LEMMA ReplaysStep ==
  ASSUME TypeOK, ReplayInv, [Next]_vars
  PROVE  ReplayInv'
<1>1. \A r \in Row : Moved(r)
  BY RowsMove
<1>2. ASSUME NEW r \in Row, Append(r) \/ TimeStep(r) PROVE ReplayInv'
  <2>1. UNCHANGED replayVars
    BY <1>2 DEF Append, TimeStep, LeaseLapses, BackoffElapses, TotalTimeout
  <2>2. QED
    BY <1>1, <2>1, ReplayFrame
<1>3. ASSUME NEW d \in Drain, DrainStep(d) \/ Abort(d) PROVE ReplayInv'
  <2>1. UNCHANGED replayVars
    BY <1>3 DEF DrainStep, RowStep, ClaimBatch, Deliver, DeliverTransient,
       DeliverFatal, MarkPublished, ScheduleRetry, DeadLetter, Leftover,
       PostNotification, AckFails, Abort
  <2>2. QED
    BY <1>1, <2>1, ReplayFrame
<1>4. ASSUME NEW c \in Client, NEW o \in Row, NEW k \in Key,
             ReplayLookup(c, o, k)
      PROVE  ReplayInv'
  <2>1. /\ UNCHANGED <<state, replays>> /\ state[o] = "dead_letter"
        /\ asked' = [asked EXCEPT ![c] = {[origin |-> o, key |-> k]}]
    BY <1>4 DEF ReplayLookup, rowVars
  <2>2. \A e \in Client : \A a \in asked'[e] : state'[a.origin] = "dead_letter"
    BY <2>1 DEF TypeOK, ReplayInv
  <2>3. QED
    BY <2>1, <2>2 DEF ReplayInv, ReplaysSound, Created
<1>5. ASSUME NEW c \in Client, NEW r \in Row, InsertReplay(c, r)
      PROVE  ReplayInv'
  <2>1. PICK a \in asked[c] :
          /\ ReplayKeyFree(a.origin, a.key)
          /\ state[r] = "absent"
          /\ state' = [state EXCEPT ![r] = "pending"]
          /\ replays' = replays \cup
                          {[origin |-> a.origin, key |-> a.key, copy |-> r]}
          /\ asked' = [asked EXCEPT ![c] = {}]
    BY <1>5 DEF InsertReplay
  <2>2. a \in Command /\ state[a.origin] = "dead_letter"
    BY DEF TypeOK, ReplayInv
  <2>3. \A q \in Row : q # r => state'[q] = state[q]
    BY <2>1 DEF TypeOK
  <2>4. state'[r] = "pending"
    BY <2>1 DEF TypeOK
  <2>5. \A p \in replays : /\ p.origin \in Row \ {r} /\ p.copy \in Row \ {r}
                           /\ ~(p.origin = a.origin /\ p.key = a.key)
    BY <2>1 DEF TypeOK, ReplayInv, ReplaysSound, ReplayKeyFree, Created
  <2>6. \A e \in Client : \A b \in asked'[e] : state'[b.origin] = "dead_letter"
    <3> SUFFICES ASSUME NEW e \in Client, NEW b \in asked'[e]
                 PROVE  state'[b.origin] = "dead_letter"
      OBVIOUS
    <3>1. b \in asked[e] /\ b \in Command
      BY <2>1 DEF TypeOK
    <3>2. state[b.origin] = "dead_letter" /\ b.origin \in Row
      BY <3>1 DEF ReplayInv
    <3>3. QED
      BY <2>1, <2>3, <3>2
  <2> DEFINE new == [origin |-> a.origin, key |-> a.key, copy |-> r]
  <2>7. new.origin = a.origin /\ new.key = a.key /\ new.copy = r
    OBVIOUS
  <2>8. \A p \in replays' : /\ state'[p.origin] = "dead_letter"
                            /\ state'[p.copy] # "absent"
                            /\ p.copy # p.origin
    <3> SUFFICES ASSUME NEW p \in replays'
                 PROVE  /\ state'[p.origin] = "dead_letter"
                        /\ state'[p.copy] # "absent"
                        /\ p.copy # p.origin
      OBVIOUS
    <3>1. CASE p \in replays
      BY <2>3, <2>5, <3>1 DEF ReplayInv, ReplaysSound, Created
    <3>2. CASE p = new
      BY <2>1, <2>2, <2>3, <2>4, <3>2
    <3>3. QED
      BY <2>1, <3>1, <3>2
  <2>9. \A p, q \in replays' :
          (p.origin = q.origin /\ p.key = q.key) \/ p.copy = q.copy => p = q
    <3> SUFFICES ASSUME NEW p \in replays', NEW q \in replays',
                        (p.origin = q.origin /\ p.key = q.key) \/ p.copy = q.copy
                 PROVE  p = q
      OBVIOUS
    <3> HIDE DEF new
    <3>1. p \in replays \cup {new} /\ q \in replays \cup {new}
      BY <2>1 DEF new
    <3>2. CASE p \in replays /\ q \in replays
      BY <3>2 DEF ReplayInv, ReplaysSound
    <3>3. CASE p = new /\ q \in replays
      BY <2>5, <2>7, <3>3
    <3>4. CASE q = new /\ p \in replays
      BY <2>5, <2>7, <3>4
    <3>5. QED
      BY <3>1, <3>2, <3>3, <3>4
  <2>10. QED
    BY <2>6, <2>8, <2>9 DEF ReplayInv, ReplaysSound, Created
<1>6. ASSUME NEW c \in Client, ReplayConflict(c) PROVE ReplayInv'
  BY <1>6 DEF ReplayConflict, rowVars, ReplayInv, ReplaysSound, Created, TypeOK
<1>7. CASE UNCHANGED vars
  BY <1>1, <1>7, ReplayFrame DEF vars
<1>8. QED
  BY <1>2, <1>3, <1>4, <1>5, <1>6, <1>7 DEF Next, ReplayStep

\* One copy per request and key, never shared, of a row that stays dead.
THEOREM ReplaysStaySound == Spec => []ReplaysSound
<1>1. Init => ReplayInv
  BY DEF Init, ReplayInv, ReplaysSound
<1>2. TypeOK /\ ReplayInv /\ [Next]_vars => ReplayInv'
  BY ReplaysStep
<1>3. ReplayInv => ReplaysSound
  BY DEF ReplayInv
<1>4. QED
  BY <1>1, <1>2, <1>3, TypeInvariant, PTL DEF Spec

-----------------------------------------------------------------------------
(* The bound on attempts.                                                  *)

\* A drain's claim on a row is one of the row's attempts, no two drains hold
\* the same one, and while the row is publishing its last claimant owns it.
HoldInv ==
  /\ Phases
  /\ \A r \in Row : state[r] = "absent" => attempts[r] = 0
  /\ \A d \in Drain : \A r \in batch[d] :
       /\ state[r] # "absent"
       /\ seen[d][r] \in 1..attempts[r]
       /\ state[r] = "publishing" /\ seen[d][r] = attempts[r] =>
            owner[r] = operatorOf[d]
  /\ \A d, e \in Drain : \A r \in batch[d] \cap batch[e] :
       seen[e][r] = seen[d][r] => e = d

\* Every step keeps HoldInv.
LEMMA HoldStep ==
  ASSUME TypeOK, HoldInv, [Next]_vars
  PROVE  HoldInv'
<1> USE DEF TypeOK
<1>1. ASSUME NEW d \in Drain, ClaimBatch(d) PROVE HoldInv'
  <2>1. /\ batch[d] = {} /\ Phases'
        /\ \E S \in SUBSET Row : Claims(d, S)
    BY <1>1, ClaimWrites DEF HoldInv
  <2>2. PICK S \in SUBSET Row : Claims(d, S)
    BY <2>1
  <2>3. \A r \in S : state[r] # "absent"
    BY <2>2 DEF Claims, Due, Claimable
  <2>4. \A r \in Row :
          /\ state'[r] = IF r \in S THEN "publishing" ELSE state[r]
          /\ attempts'[r] = IF r \in S THEN attempts[r] + 1 ELSE attempts[r]
          /\ owner'[r] = IF r \in S THEN operatorOf[d] ELSE owner[r]
    BY <2>2 DEF Claims
  <2>5. \A e \in Drain : batch'[e] = IF e = d THEN S ELSE batch[e]
    BY <2>2 DEF Claims
  <2>6. \A e \in Drain \ {d} : seen'[e] = seen[e]
    BY <2>2 DEF Claims
  <2>7. \A r \in S : seen'[d][r] = attempts[r] + 1
    BY <2>2 DEF Claims
  <2>8. \A r \in Row : state'[r] = "absent" => attempts'[r] = 0
    BY <2>3, <2>4 DEF HoldInv
  <2>9. ASSUME NEW e \in Drain, NEW r \in batch'[e]
        PROVE  /\ state'[r] # "absent"
               /\ seen'[e][r] \in 1..attempts'[r]
               /\ state'[r] = "publishing" /\ seen'[e][r] = attempts'[r] =>
                    owner'[r] = operatorOf[e]
    <3>1. CASE e = d
      BY <2>4, <2>5, <2>7, <2>9, <3>1
    <3>2. CASE e # d
      <4>1. r \in batch[e] /\ r \in Row /\ seen'[e][r] = seen[e][r]
        BY <2>5, <2>6, <2>9, <3>2
      <4>2. /\ state[r] # "absent" /\ seen[e][r] \in 1..attempts[r]
            /\ state[r] = "publishing" /\ seen[e][r] = attempts[r] =>
                 owner[r] = operatorOf[e]
        BY <4>1 DEF HoldInv
      <4>3. QED
        BY <2>4, <4>1, <4>2
    <3>3. QED
      BY <3>1, <3>2
  <2>10. ASSUME NEW e \in Drain, NEW f \in Drain,
                NEW r \in batch'[e] \cap batch'[f], seen'[f][r] = seen'[e][r]
         PROVE  f = e
    <3>1. ASSUME NEW g \in Drain \ {d}, r \in batch'[g]
          PROVE  r \in batch[g] /\ seen'[g][r] \in 1..attempts[r]
      BY <2>5, <2>6, <3>1 DEF HoldInv
    <3>2. CASE e = d /\ f # d
      BY <2>5, <2>7, <2>10, <3>1, <3>2
    <3>3. CASE f = d /\ e # d
      BY <2>5, <2>7, <2>10, <3>1, <3>3
    <3>4. CASE e # d /\ f # d
      BY <2>6, <2>10, <3>1, <3>4 DEF HoldInv
    <3>5. QED
      BY <3>2, <3>3, <3>4
  <2>11. QED
    BY <2>1, <2>8, <2>9, <2>10 DEF HoldInv
<1>2. ASSUME Keeps, Phases' PROVE HoldInv'
  <2>1. \A r \in Row : state'[r] = "absent" => attempts'[r] = 0
    BY <1>2 DEF Keeps, HoldInv
  <2>2. ASSUME NEW e \in Drain, NEW r \in batch'[e]
        PROVE  /\ state'[r] # "absent"
               /\ seen'[e][r] \in 1..attempts'[r]
               /\ state'[r] = "publishing" /\ seen'[e][r] = attempts'[r] =>
                    owner'[r] = operatorOf[e]
    <3>1. r \in batch[e] /\ r \in Row
      BY <1>2, <2>2 DEF Keeps
    <3>2. QED
      BY <1>2, <3>1 DEF Keeps, HoldInv
  <2>3. \A e, f \in Drain : \A r \in batch'[e] \cap batch'[f] :
          seen'[f][r] = seen'[e][r] => f = e
    BY <1>2 DEF Keeps, HoldInv
  <2>4. QED
    BY <1>2, <2>1, <2>2, <2>3 DEF HoldInv
<1>3. QED
  BY <1>1, <1>2, OnlyClaimsTake DEF HoldInv

\* The attempts the policy allows to fail which no drain still works on.
Spent(r) ==
  {j \in 1..(MaxAttempts - 1) :
     j <= attempts[r] /\ \A d \in Drain : r \in batch[d] => seen[d][r] # j}

\* A row that could be claimed without a lease lapsing under a working drain.
Ready(r) ==
  \/ state[r] \in {"pending", "retry_wait"}
  \/ state[r] = "publishing" /\ (lease[r] # "live" \/ ~AtWork(r))

\* Every attempt but the one under way is paid for: by a failure the policy
\* allows, by an aborted drain or by a lapsed lease.
Paid(r) ==
  /\ attempts[r] <= Cardinality(Spent(r)) + 1 + aborts + lapses
  /\ Ready(r) => attempts[r] <= Cardinality(Spent(r)) + aborts + lapses

BudgetInv == \A r \in Row : Paid(r)

\* The failures the policy allows are finitely many.
LEMMA SpentIsFinite ==
  ASSUME NEW r \in Row
  PROVE  /\ IsFiniteSet(Spent(r)) /\ Cardinality(Spent(r)) \in Nat
         /\ Cardinality(Spent(r)) <= MaxAttempts - 1
         /\ IsFiniteSet(Spent(r)') /\ Cardinality(Spent(r)') \in Nat
         /\ Cardinality(Spent(r)') <= MaxAttempts - 1
<1> DEFINE All == 1..(MaxAttempts - 1)
<1>1. IsFiniteSet(All) /\ Cardinality(All) = MaxAttempts - 1
  BY FS_Interval
<1>2. Spent(r) \subseteq All /\ Spent(r)' \subseteq All
  BY DEF Spent
<1> HIDE DEF All
<1>3. \A T \in SUBSET All : /\ IsFiniteSet(T) /\ Cardinality(T) \in Nat
                            /\ Cardinality(T) <= MaxAttempts - 1
  BY <1>1, FS_Subset, FS_CardinalityType
<1>4. QED
  BY <1>2, <1>3

\* A step that claims nothing takes no attempt back.
LEMMA SpentGrows ==
  ASSUME TypeOK, Keeps, NEW r \in Row
  PROVE  Spent(r) \subseteq Spent(r)'
BY DEF Spent, Keeps, TypeOK

\* Bigger sets of attempts are not counted smaller.
LEMMA SpentCounts ==
  ASSUME NEW r \in Row, Spent(r) \subseteq Spent(r)'
  PROVE  /\ Cardinality(Spent(r)) <= Cardinality(Spent(r)')
         /\ Spent(r) # Spent(r)' =>
              Cardinality(Spent(r)) + 1 <= Cardinality(Spent(r)')
<1>1. /\ IsFiniteSet(Spent(r)) /\ Cardinality(Spent(r)) \in Nat
      /\ IsFiniteSet(Spent(r)') /\ Cardinality(Spent(r)') \in Nat
  BY SpentIsFinite
<1>2. \A T : T \subseteq Spent(r)' =>
        /\ Cardinality(T) <= Cardinality(Spent(r)')
        /\ Cardinality(T) = Cardinality(Spent(r)') => T = Spent(r)'
  BY <1>1, FS_Subset
<1>3. QED
  BY <1>1, <1>2

\* A step takes no crash and no outrun lease back; a step is one of them.
NoRefund == aborts' \in {aborts, aborts + 1} /\ lapses' \in {lapses, lapses + 1}
Pays == NoRefund /\ (aborts' = aborts + 1 \/ lapses' = lapses + 1)

\* A step that claims nothing keeps a row paid for if the row was ready
\* before, is not ready after, or the step paid.
LEMMA PaidFrame ==
  ASSUME TypeOK, Keeps, NEW r \in Row, Paid(r), NoRefund,
         Ready(r)' => Ready(r) \/ Pays \/ Spent(r) # Spent(r)'
  PROVE  Paid(r)'
<1>1. Spent(r) \subseteq Spent(r)'
  BY SpentGrows
<1> DEFINE n == Cardinality(Spent(r))
           m == Cardinality(Spent(r)')
           k == aborts + lapses
           l == aborts' + lapses'
<1>2. n <= m /\ (Spent(r) # Spent(r)' => n + 1 <= m)
  BY <1>1, SpentCounts
<1>3. n \in Nat /\ m \in Nat
  BY SpentIsFinite
<1>4. attempts'[r] = attempts[r] /\ attempts[r] \in Nat
  BY DEF Keeps, TypeOK
<1>5. k \in Nat /\ l \in Nat /\ k <= l
  <2>1. aborts \in Nat /\ lapses \in Nat
    BY DEF TypeOK
  <2>2. /\ aborts' = aborts \/ aborts' = aborts + 1
        /\ lapses' = lapses \/ lapses' = lapses + 1
    BY DEF NoRefund
  <2>3. k \in Nat
    BY <2>1
  <2>4. l = k \/ l = k + 1 \/ l = k + 2
    BY <2>1, <2>2
  <2> HIDE DEF k, l
  <2>5. QED
    BY <2>3, <2>4
<1>6. /\ attempts[r] <= n + 1 + k
      /\ Ready(r) => attempts[r] <= n + k
  <2>1. aborts \in Nat /\ lapses \in Nat
    BY DEF TypeOK
  <2> HIDE DEF n
  <2>2. /\ attempts[r] <= n + 1 + aborts + lapses
        /\ Ready(r) => attempts[r] <= n + aborts + lapses
    BY DEF Paid, n
  <2>3. QED
    BY <1>3, <1>4, <2>1, <2>2
<1>7. Pays => k < l
  <2>1. aborts \in Nat /\ lapses \in Nat
    BY DEF TypeOK
  <2>2. ASSUME Pays PROVE l = k + 1 \/ l = k + 2
    <3>1. CASE aborts' = aborts + 1 /\ lapses' = lapses
      BY <2>1, <3>1
    <3>2. CASE aborts' = aborts /\ lapses' = lapses + 1
      BY <2>1, <3>2
    <3>3. CASE aborts' = aborts + 1 /\ lapses' = lapses + 1
      BY <2>1, <3>3
    <3>4. QED
      BY <2>2, <3>1, <3>2, <3>3 DEF Pays, NoRefund
  <2> HIDE DEF k, l
  <2>3. QED
    BY <1>5, <2>2
<1>8. Ready(r)' => Ready(r) \/ k < l \/ n + 1 <= m
  BY <1>2, <1>7
<1> HIDE DEF n, m, k, l
<1>9. attempts'[r] <= m + 1 + l
  BY <1>2, <1>3, <1>4, <1>5, <1>6
<1>10. ASSUME Ready(r)' PROVE attempts'[r] <= m + l
  BY <1>2, <1>3, <1>4, <1>5, <1>6, <1>8, <1>10
<1>11. /\ attempts'[r] <= m + 1 + aborts' + lapses'
       /\ Ready(r)' => attempts'[r] <= m + aborts' + lapses'
  BY <1>3, <1>4, <1>9, <1>10 DEF NoRefund, TypeOK, l
<1>12. QED
  BY <1>11 DEF Paid, m

\* A row whose state and lease a step leaves alone, and whose last claimant
\* keeps it, was ready before if it is ready after.
LEMMA StillReady ==
  ASSUME TypeOK, Keeps, NEW q \in Row, Ready(q)',
         state'[q] = state[q], lease'[q] = lease[q],
         \A d \in Drain : q \in batch[d] /\ seen[d][q] = attempts[q] =>
                            q \in batch'[d]
  PROVE  Ready(q)
<1>1. AtWork(q) => AtWork(q)'
  BY DEF AtWork, Keeps
<1>2. QED
  BY <1>1 DEF Ready

\* A row that is created has made no attempt.
LEMMA NewRowIsPaid ==
  ASSUME TypeOK, Keeps, HoldInv, NEW r \in Row, state[r] = "absent",
         UNCHANGED <<aborts, lapses>>
  PROVE  Paid(r)'
<1>1. attempts'[r] = 0 /\ aborts' \in Nat /\ lapses' \in Nat
  BY DEF HoldInv, Keeps, TypeOK
<1> DEFINE m == Cardinality(Spent(r)')
<1>2. m \in Nat
  BY SpentIsFinite
<1> HIDE DEF m
<1>3. /\ attempts'[r] <= m + 1 + aborts' + lapses'
      /\ attempts'[r] <= m + aborts' + lapses'
  BY <1>1, <1>2
<1>4. QED
  BY <1>3 DEF Paid, m

\* A claim uses up what the row was ready for.
LEMMA ClaimIsPaid ==
  ASSUME TypeOK, HoldInv, BudgetInv, NEW d \in Drain, ClaimBatch(d)
  PROVE  BudgetInv'
<1> USE DEF TypeOK
<1>1. /\ batch[d] = {} /\ UNCHANGED boundVars
      /\ \E S \in SUBSET Row : Claims(d, S)
  BY ClaimWrites DEF HoldInv
<1>2. PICK S \in SUBSET Row : Claims(d, S)
  BY <1>1
<1>3. /\ \A e \in Drain : batch'[e] = IF e = d THEN S ELSE batch[e]
      /\ \A e \in Drain \ {d} : seen'[e] = seen[e]
      /\ \A q \in S : seen'[d][q] = attempts[q] + 1
  BY <1>2 DEF Claims
<1>4. \A q \in Row :
        /\ state'[q] = IF q \in S THEN "publishing" ELSE state[q]
        /\ attempts'[q] = IF q \in S THEN attempts[q] + 1 ELSE attempts[q]
        /\ lease'[q] = IF q \in S THEN "live" ELSE lease[q]
  BY <1>2 DEF Claims
<1>5. UNCHANGED <<aborts, lapses>> /\ aborts \in Nat /\ lapses \in Nat
  BY <1>1 DEF boundVars
<1> SUFFICES ASSUME NEW q \in Row PROVE Paid(q)'
  BY DEF BudgetInv
<1>6. ASSUME NEW e \in Drain, q \in batch'[e]
      PROVE  \/ e = d /\ q \in S /\ seen'[e][q] = attempts[q] + 1
             \/ e # d /\ q \in batch[e] /\ seen'[e][q] = seen[e][q]
  BY <1>3, <1>6
<1>7. Spent(q) \subseteq Spent(q)'
  <2> SUFFICES ASSUME NEW j \in Spent(q) PROVE j \in Spent(q)'
    OBVIOUS
  <2>1. /\ j \in 1..(MaxAttempts - 1) /\ j <= attempts[q]
        /\ \A e \in Drain : q \in batch[e] => seen[e][q] # j
    BY DEF Spent
  <2>2. j <= attempts'[q] /\ attempts[q] \in Nat
    BY <1>4, <2>1
  <2>3. \A e \in Drain : q \in batch'[e] => seen'[e][q] # j
    BY <1>6, <2>1, <2>2
  <2>4. QED
    BY <2>1, <2>2, <2>3 DEF Spent
<1> DEFINE n == Cardinality(Spent(q))
           m == Cardinality(Spent(q)')
<1>8. n <= m /\ n \in Nat /\ m \in Nat
  BY <1>7, SpentCounts, SpentIsFinite
<1>9. /\ attempts[q] <= n + 1 + aborts + lapses
      /\ Ready(q) => attempts[q] <= n + aborts + lapses
  BY DEF BudgetInv, Paid
<1>10. attempts[q] \in Nat
  OBVIOUS
<1> HIDE DEF n, m
<1>11. CASE q \in S
  <2>1. Ready(q)
    BY <1>2, <1>11 DEF Claims, Due, Claimable, Ready
  <2>2. AtWork(q)'
    BY <1>3, <1>4, <1>11 DEF AtWork
  <2>3. ~Ready(q)'
    BY <1>4, <1>11, <2>2 DEF Ready
  <2>4. attempts'[q] <= m + 1 + aborts' + lapses'
    BY <1>4, <1>5, <1>8, <1>9, <1>10, <1>11, <2>1
  <2>5. QED
    BY <2>3, <2>4 DEF Paid, m
<1>12. CASE q \notin S
  <2>1. AtWork(q) => AtWork(q)'
    BY <1>1, <1>3, <1>4, <1>12 DEF AtWork
  <2>2. Ready(q)' => Ready(q)
    BY <1>4, <1>12, <2>1 DEF Ready
  <2>3. /\ attempts'[q] <= m + 1 + aborts' + lapses'
        /\ Ready(q)' => attempts'[q] <= m + aborts' + lapses'
    BY <1>4, <1>5, <1>8, <1>9, <1>10, <1>12, <2>2
  <2>4. QED
    BY <2>3 DEF Paid, m
<1>13. QED
  BY <1>11, <1>12

\* Every step is paid for.
LEMMA BudgetStep ==
  ASSUME TypeOK, DrainMemory, HoldInv, BudgetInv, [Next]_vars
  PROVE  BudgetInv'
<1>1. ASSUME NEW d \in Drain, ClaimBatch(d) PROVE BudgetInv'
  BY <1>1, ClaimIsPaid
<1> SUFFICES ASSUME Keeps, NEW q \in Row PROVE Paid(q)'
  BY <1>1, OnlyClaimsTake DEF HoldInv, BudgetInv
<1> USE DEF TypeOK
<1>2. /\ Paid(q) /\ aborts \in Nat /\ lapses \in Nat
      /\ UNCHANGED <<aborts, lapses>> => NoRefund
  BY DEF BudgetInv, NoRefund
<1>3. ASSUME UNCHANGED <<aborts, lapses>>,
             state'[q] = state[q], lease'[q] = lease[q],
             \A d \in Drain : q \in batch[d] /\ seen[d][q] = attempts[q] =>
                                q \in batch'[d]
      PROVE  Paid(q)'
  BY <1>2, <1>3, StillReady, PaidFrame
<1>4. ASSUME UNCHANGED <<aborts, lapses>>,
             ~Ready(q)' \/ Spent(q) # Spent(q)'
      PROVE  Paid(q)'
  BY <1>2, <1>4, PaidFrame
<1>5. ASSUME NEW r \in Row, Append(r) PROVE Paid(q)'
  <2>1. CASE q = r
    BY <1>5, <2>1, NewRowIsPaid DEF Append, boundVars
  <2>2. CASE q # r
    BY <1>3, <1>5, <2>2 DEF Append, drainVars, boundVars
  <2>3. QED
    BY <2>1, <2>2
<1>6. ASSUME NEW r \in Row, TimeStep(r) PROVE Paid(q)'
  <2>1. CASE LeaseLapses(r) /\ lapses' = lapses + 1
    <3>1. UNCHANGED aborts
      BY <2>1 DEF LeaseLapses
    <3>2. NoRefund /\ Pays
      BY <1>2, <2>1, <3>1 DEF NoRefund, Pays
    <3>3. QED
      BY <1>2, <3>2, PaidFrame
  <2>2. CASE LeaseLapses(r) /\ ~AtWork(r) /\ UNCHANGED lapses
    <3>1. UNCHANGED <<aborts, lapses, state, drainVars, attempts>>
      BY <2>2 DEF LeaseLapses
    <3>2. CASE q = r
      <4>1. AtWork(q)' <=> AtWork(q)
        BY <3>1 DEF AtWork, drainVars
      <4>2. Ready(q)' => Ready(q)
        BY <2>2, <3>1, <3>2 DEF Ready
      <4>3. QED
        BY <1>2, <3>1, <4>2, PaidFrame
    <3>3. CASE q # r
      BY <1>3, <2>2, <3>1, <3>3 DEF LeaseLapses, drainVars
    <3>4. QED
      BY <3>2, <3>3
  <2>3. CASE BackoffElapses(r)
    BY <1>3, <2>3 DEF BackoffElapses, drainVars, boundVars
  <2>4. CASE TotalTimeout(r)
    BY <1>3, <2>4 DEF TotalTimeout, drainVars, boundVars
  <2>5. QED
    BY <1>6, <2>1, <2>2, <2>3, <2>4 DEF TimeStep, LeaseLapses
<1>7. ASSUME NEW d \in Drain, NEW r \in Row, RowStep(d, r) PROVE Paid(q)'
  <2>1. UNCHANGED <<aborts, lapses>>
    BY <1>7 DEF RowStep, Deliver, DeliverTransient, DeliverFatal, MarkPublished,
       ScheduleRetry, DeadLetter, Leftover, PostNotification, boundVars
  <2>2. CASE Deliver(d, r) \/ DeliverTransient(d, r) \/ DeliverFatal(d, r)
    BY <1>3, <2>1, <2>2 DEF Deliver, DeliverTransient, DeliverFatal, rowVars
  <2>3. CASE MarkPublished(d, r)
    <3>1. CASE q = r
      <4>1. state'[q] = "published"
        BY <2>3, <3>1 DEF MarkPublished
      <4>2. QED
        BY <1>4, <2>1, <4>1 DEF Ready
    <3>2. CASE q # r
      BY <1>3, <2>1, <2>3, <3>2 DEF MarkPublished, Advance, Release
    <3>3. QED
      BY <3>1, <3>2
  <2>4. CASE DeadLetter(d, r)
    <3>1. CASE q = r
      <4>1. state'[q] = "dead_letter"
        BY <2>4, <3>1 DEF DeadLetter
      <4>2. QED
        BY <1>4, <2>1, <4>1 DEF Ready
    <3>2. CASE q # r
      BY <1>3, <2>1, <2>4, <3>2 DEF DeadLetter, Release
    <3>3. QED
      BY <3>1, <3>2
  <2>5. CASE ScheduleRetry(d, r)
    <3>1. CASE q = r
      <4>1. r \in batch[d] /\ seen[d][r] < MaxAttempts
        BY <2>5 DEF ScheduleRetry, GivesUp, HoldInv, Phases
      <4>2. seen[d][r] \in 1..attempts[r]
        BY <4>1 DEF HoldInv
      <4>3. seen[d][r] \notin Spent(r)
        BY <4>1 DEF Spent
      <4>4. \A e \in Drain : r \in batch'[e] => e # d /\ r \in batch[e]
        BY <2>5 DEF ScheduleRetry, Advance
      <4>5. \A e \in Drain : r \in batch'[e] => seen[e][r] # seen[d][r]
        BY <4>1, <4>4 DEF HoldInv
      <4>6. UNCHANGED <<attempts, seen>>
        BY DEF Keeps
      <4>7. seen[d][r] \in 1..(MaxAttempts - 1)
        BY <4>1, <4>2
      <4>8. seen[d][r] \in Spent(r)'
        BY <4>2, <4>5, <4>6, <4>7 DEF Spent
      <4>9. QED
        BY <1>4, <2>1, <3>1, <4>3, <4>8
    <3>2. CASE q # r
      BY <1>3, <2>1, <2>5, <3>2 DEF ScheduleRetry, Advance, Release
    <3>3. QED
      BY <3>1, <3>2
  <2>6. CASE Leftover(d, r)
    <3>1. \A e \in Drain : batch'[e] = IF e = d THEN batch[d] \ {r} ELSE batch[e]
      BY <2>6 DEF Leftover, Advance
    <3>2. UNCHANGED <<state, lease>> /\ r \in batch[d] /\ ~Fence(d, r)
      BY <2>6 DEF Leftover, rowVars, HoldInv, Phases
    <3>3. CASE q = r /\ state[r] = "publishing"
      <4>1. seen[d][r] # attempts[r]
        BY <3>2, <3>3 DEF HoldInv, Fence
      <4>2. QED
        BY <1>3, <2>1, <3>1, <3>2, <3>3, <4>1
    <3>4. CASE q = r /\ state[r] # "publishing"
      <4>1. Ready(q)' => Ready(q)
        BY <3>2, <3>4 DEF Ready
      <4>2. QED
        BY <1>2, <2>1, <4>1, PaidFrame
    <3>5. CASE q # r
      BY <1>3, <2>1, <3>1, <3>2, <3>5
    <3>6. QED
      BY <3>3, <3>4, <3>5
  <2>7. CASE PostNotification(d, r)
    <3>1. UNCHANGED <<state, lease>>
      BY <2>7 DEF PostNotification, rowVars
    <3>2. CASE q = r
      <4>1. state'[q] = "dead_letter"
        BY <2>7, <3>1, <3>2 DEF PostNotification, DrainMemory
      <4>2. QED
        BY <1>4, <2>1, <4>1 DEF Ready
    <3>3. CASE q # r
      BY <1>3, <2>1, <2>7, <3>1, <3>3 DEF PostNotification, Advance
    <3>4. QED
      BY <3>2, <3>3
  <2>8. QED
    BY <1>7, <2>2, <2>3, <2>4, <2>5, <2>6, <2>7 DEF RowStep
<1>8. ASSUME NEW d \in Drain, AckFails(d) PROVE Paid(q)'
  BY <1>3, <1>8 DEF AckFails, rowVars, boundVars
<1>9. ASSUME NEW d \in Drain, Abort(d) PROVE Paid(q)'
  <2>1. aborts' = aborts + 1 /\ lapses' = lapses
    BY <1>9 DEF Abort
  <2>2. NoRefund /\ Pays
    BY <1>2, <2>1 DEF NoRefund, Pays
  <2>3. QED
    BY <1>2, <2>2, PaidFrame
<1>10. ASSUME NEW c \in Client, ReplayStep(c) PROVE Paid(q)'
  <2>1. ASSUME NEW r \in Row, InsertReplay(c, r) PROVE Paid(q)'
    <3>1. /\ state[r] = "absent" /\ state' = [state EXCEPT ![r] = "pending"]
          /\ UNCHANGED <<lease, batch, aborts, lapses>>
      BY <2>1 DEF InsertReplay, drainVars, boundVars
    <3>2. CASE q = r
      BY <3>1, <3>2, NewRowIsPaid
    <3>3. CASE q # r
      BY <1>3, <3>1, <3>3
    <3>4. QED
      BY <3>2, <3>3
  <2>2. CASE \/ ReplayConflict(c)
             \/ \E o \in Row, k \in Key : ReplayLookup(c, o, k)
    BY <1>3, <2>2 DEF ReplayLookup, ReplayConflict, rowVars, drainVars,
       boundVars
  <2>3. QED
    BY <1>10, <2>1, <2>2 DEF ReplayStep
<1>11. CASE UNCHANGED vars
  BY <1>3, <1>11 DEF vars, rowVars, drainVars, boundVars
<1>12. QED
  BY <1>1, <1>5, <1>6, <1>7, <1>8, <1>9, <1>10, <1>11
  DEF Next, DrainStep, BudgetInv

\* However the drains overlap, a row is claimed at most as often as the
\* policy allows, and once more for every crash and every outrun lease.
THEOREM AttemptsStayBounded == Spec => []AttemptsAreBounded
<1>1. Init => VerdictInv /\ HoldInv /\ BudgetInv
  <2>1. Init => VerdictInv /\ HoldInv
    BY DEF Init, VerdictInv, DrainMemory, PublishedWasDelivered,
           DeadLetterJustified, HoldInv, Phases
  <2>2. ASSUME Init, NEW r \in Row PROVE Paid(r)
    <3>1. attempts[r] = 0 /\ aborts = 0 /\ lapses = 0
      BY <2>2 DEF Init
    <3>2. Cardinality(Spent(r)) \in Nat
      BY SpentIsFinite
    <3>3. QED
      BY <3>1, <3>2 DEF Paid
  <2>3. QED
    BY <2>1, <2>2 DEF BudgetInv
<1>2. TypeOK /\ VerdictInv /\ HoldInv /\ BudgetInv /\ [Next]_vars =>
        VerdictInv' /\ HoldInv' /\ BudgetInv'
  BY VerdictStep, HoldStep, BudgetStep DEF VerdictInv
<1>3. TypeOK /\ BudgetInv => AttemptsAreBounded
  <2> SUFFICES ASSUME TypeOK, BudgetInv, NEW r \in Row
               PROVE  attempts[r] <= MaxAttempts + aborts + lapses
    BY DEF AttemptsAreBounded
  <2> DEFINE n == Cardinality(Spent(r))
  <2>1. n \in Nat /\ n <= MaxAttempts - 1
    BY SpentIsFinite
  <2>2. attempts[r] <= n + 1 + aborts + lapses
    BY DEF BudgetInv, Paid
  <2>3. attempts[r] \in Nat /\ aborts \in Nat /\ lapses \in Nat
    BY DEF TypeOK
  <2> HIDE DEF n
  <2>4. QED
    BY <2>1, <2>2, <2>3
<1>4. QED
  BY <1>1, <1>2, <1>3, TypeInvariant, PTL DEF Spec

-----------------------------------------------------------------------------
(* The outbox keeps the promises of the ledger.                            *)

\* What the ledger sees of the outbox.
Entry(r) ==
  CASE state[r] = "absent"      -> "absent"
    [] state[r] = "published"   -> "published"
    [] state[r] = "dead_letter" -> "dead"
    [] OTHER                    -> "open"

Entries == [r \in Row |-> Entry(r)]

\* The entry of a row in each of its states, before a step and after it.
LEMMA EntryOf ==
  /\ \A r : state[r] = "absent" => Entry(r) = "absent"
  /\ \A r : state[r] = "published" => Entry(r) = "published"
  /\ \A r : state[r] = "dead_letter" => Entry(r) = "dead"
  /\ \A r : state[r] \in {"pending", "publishing", "retry_wait"} =>
              Entry(r) = "open"
BY DEF Entry

LEMMA EntryOfNext ==
  /\ \A r : state'[r] = "absent" => Entry(r)' = "absent"
  /\ \A r : state'[r] = "published" => Entry(r)' = "published"
  /\ \A r : state'[r] = "dead_letter" => Entry(r)' = "dead"
  /\ \A r : state'[r] \in {"pending", "publishing", "retry_wait"} =>
              Entry(r)' = "open"
BY DEF Entry

\* A step that changes the state of one row at most changes one entry.
LEMMA EntryOfOne ==
  ASSUME NEW r \in Row, \A q \in Row \ {r} : state'[q] = state[q]
  PROVE  Entries' = [Entries EXCEPT ![r] = Entry(r)']
<1>1. \A q \in Row \ {r} : Entry(q)' = Entry(q)
  BY DEF Entry
<1>2. QED
  BY <1>1 DEF Entries

LEMMA EntriesSame ==
  ASSUME UNCHANGED state
  PROVE  UNCHANGED Entries
<1>1. \A r \in Row : Entry(r)' = Entry(r)
  BY DEF Entry
<1>2. QED
  BY <1>1 DEF Entries

LEMMA LedgerInitMaps == Init => Ledger!LedgerInit
<1> SUFFICES ASSUME Init PROVE Ledger!LedgerInit
  OBVIOUS
<1>1. \A r \in Row : Entry(r) = "absent"
  BY EntryOf DEF Init
<1>2. Entries = [r \in Row |-> "absent"]
  BY <1>1 DEF Entries
<1>3. delivered = [r \in Row |-> FALSE] /\ alerted = [r \in Row |-> FALSE]
  BY DEF Init
<1>4. QED
  BY <1>2, <1>3, Zenon DEF Ledger!LedgerInit, Entries, Entry

\* A new row, of a business transaction or of a replay, opens an entry.
LEMMA OpenMaps ==
  ASSUME TypeOK, NEW r \in Row, state[r] = "absent",
         state' = [state EXCEPT ![r] = "pending"], UNCHANGED extVars
  PROVE  Ledger!Open(r)
<1>1. state'[r] = "pending" /\ \A q \in Row \ {r} : state'[q] = state[q]
  BY DEF TypeOK
<1>2. Entries[r] = "absent" /\ Entries' = [Entries EXCEPT ![r] = "open"]
  BY <1>1, EntryOf, EntryOfNext, EntryOfOne DEF Entries
<1>3. UNCHANGED <<delivered, alerted>>
  BY DEF extVars
<1>4. QED
  BY <1>2, <1>3, Zenon DEF Ledger!Open, Entries, Entry

\* A claim shows the ledger nothing: it takes open rows, which stay open.
LEMMA ClaimMaps ==
  ASSUME TypeOK, NEW d \in Drain, ClaimBatch(d)
  PROVE  UNCHANGED <<Entries, delivered, alerted>>
<1>1. PICK S \in SUBSET Due :
        state' = [r \in Row |-> IF r \in S THEN "publishing" ELSE state[r]]
  BY DEF ClaimBatch
<1>2. ASSUME NEW r \in Row PROVE Entry(r)' = Entry(r)
  <2>1. CASE r \in S
    <3>1. state[r] \in {"pending", "publishing", "retry_wait"}
      BY <2>1 DEF Due, Claimable
    <3>2. state'[r] = "publishing"
      BY <1>1, <2>1
    <3>3. QED
      BY <3>1, <3>2, EntryOf, EntryOfNext
  <2>2. CASE r \notin S
    <3>1. state'[r] = state[r]
      BY <1>1, <2>2
    <3>2. QED
      BY <3>1 DEF Entry
  <2>3. QED
    BY <2>1, <2>2
<1>3. UNCHANGED <<delivered, alerted>>
  BY DEF ClaimBatch, extVars
<1>4. QED
  BY <1>2, <1>3 DEF Entries

\* A commit at the consumer is a commit of an entry that exists.
LEMMA CommitMaps ==
  ASSUME TypeOK, NEW r \in Row, state[r] # "absent",
         UNCHANGED <<state, alerted>>,
         delivered' = [delivered EXCEPT ![r] = TRUE]
  PROVE  Ledger!Commit(r)
<1>1. Entries[r] # "absent"
  <2>1. state[r] \in State \ {"absent"}
    BY DEF TypeOK
  <2>2. Entry(r) \in {"open", "published", "dead"}
    BY <2>1, EntryOf
  <2>3. QED
    BY <2>2 DEF Entries
<1>2. Entries' = Entries
  BY EntriesSame
<1>3. QED
  BY <1>1, <1>2, Zenon DEF Ledger!Commit, Entries, Entry

\* Recording an outcome closes an open entry or shows the ledger nothing.
LEMMA OutcomeMaps ==
  ASSUME TypeOK, VerdictInv, NEW d \in Drain, NEW r \in Row,
         MarkPublished(d, r) \/ ScheduleRetry(d, r) \/ DeadLetter(d, r)
  PROVE  \/ Ledger!ClosePublished(r) \/ Ledger!CloseDead(r)
         \/ UNCHANGED <<Entries, delivered, alerted>>
<1>1. /\ state[r] = "publishing" /\ UNCHANGED <<delivered, alerted>>
      /\ \A q \in Row \ {r} : state'[q] = state[q]
  BY DEF MarkPublished, ScheduleRetry, DeadLetter, Fence, extVars, TypeOK
<1>2. Entries[r] = "open" /\ Entries' = [Entries EXCEPT ![r] = Entry(r)']
  BY <1>1, EntryOf, EntryOfOne DEF Entries
<1>3. CASE MarkPublished(d, r)
  <2>1. state'[r] = "published"
    BY <1>3 DEF MarkPublished, TypeOK
  <2>2. phase[d] = "acked" /\ current[d] = r
    BY <1>3 DEF MarkPublished
  <2>3. delivered[r]
    BY <2>2 DEF VerdictInv, DrainMemory
  <2>4. Entries' = [Entries EXCEPT ![r] = "published"]
    BY <1>2, <2>1, EntryOfNext
  <2>5. Ledger!ClosePublished(r)
    BY <1>1, <1>2, <2>3, <2>4, Zenon DEF Ledger!ClosePublished, Entries, Entry
  <2>6. QED
    BY <2>5
<1>4. CASE ScheduleRetry(d, r)
  <2>1. state'[r] = "retry_wait"
    BY <1>4 DEF ScheduleRetry, TypeOK
  <2>2. Entry(r)' = Entry(r)
    BY <1>1, <2>1, EntryOf, EntryOfNext
  <2>3. \A q \in Row \ {r} : Entry(q)' = Entry(q)
    BY <1>1 DEF Entry
  <2>4. Entries' = Entries
    BY <2>2, <2>3 DEF Entries
  <2>5. QED
    BY <1>1, <2>4
<1>5. CASE DeadLetter(d, r)
  <2>1. state'[r] = "dead_letter"
    BY <1>5 DEF DeadLetter, TypeOK
  <2>2. Entries' = [Entries EXCEPT ![r] = "dead"]
    BY <1>2, <2>1, EntryOfNext
  <2>3. Ledger!CloseDead(r)
    BY <1>1, <1>2, <2>2, Zenon DEF Ledger!CloseDead, Entries, Entry
  <2>4. QED
    BY <2>3
<1>6. QED
  BY <1>3, <1>4, <1>5

\* The alert is about an entry that is dead.
LEMMA AlertMaps ==
  ASSUME TypeOK, VerdictInv, NEW d \in Drain, NEW r \in Row,
         PostNotification(d, r)
  PROVE  Ledger!Alert(r)
<1>1. /\ state[r] = "dead_letter" /\ UNCHANGED <<state, delivered>>
      /\ alerted' = [alerted EXCEPT ![r] = TRUE]
  BY DEF PostNotification, VerdictInv, DrainMemory, rowVars
<1>2. Entries[r] = "dead" /\ Entries' = Entries
  BY <1>1, EntryOf, EntriesSame DEF Entries
<1>3. QED
  BY <1>1, <1>2, Zenon DEF Ledger!Alert, Entries, Entry

\* Every step of the outbox is a step of the ledger or shows it nothing.
LEMMA LedgerStepMaps ==
  TypeOK /\ VerdictInv /\ HoldInv /\ [Next]_vars =>
    [Ledger!LedgerNext]_(Ledger!ledgerVars)
<1> DEFINE Stutter == UNCHANGED <<Entries, delivered, alerted>>
<1> SUFFICES ASSUME TypeOK, VerdictInv, HoldInv, [Next]_vars
             PROVE  Ledger!LedgerNext \/ Stutter
  BY DEF Ledger!ledgerVars, Entries, Entry
<1>1. ASSUME NEW r \in Row,
             \/ Ledger!Open(r) \/ Ledger!Commit(r) \/ Ledger!ClosePublished(r)
             \/ Ledger!CloseDead(r) \/ Ledger!Alert(r)
      PROVE  Ledger!LedgerNext
  BY <1>1 DEF Ledger!LedgerNext
<1>2. ASSUME UNCHANGED <<state, extVars>> PROVE Stutter
  BY <1>2, EntriesSame DEF extVars
<1>3. ASSUME NEW r \in Row, Append(r) PROVE Ledger!LedgerNext
  BY <1>1, <1>3, OpenMaps DEF Append
<1>4. ASSUME NEW r \in Row, TimeStep(r) PROVE Stutter
  BY <1>2, <1>4 DEF TimeStep, LeaseLapses, BackoffElapses, TotalTimeout
<1>5. ASSUME NEW d \in Drain, ClaimBatch(d) PROVE Stutter
  BY <1>5, ClaimMaps
<1>6. ASSUME NEW d \in Drain, NEW r \in Row, RowStep(d, r)
      PROVE  Ledger!LedgerNext \/ Stutter
  <2>1. CASE Deliver(d, r)
    <3>1. /\ state[r] # "absent" /\ UNCHANGED <<state, alerted>>
          /\ delivered' = [delivered EXCEPT ![r] = TRUE]
      BY <2>1 DEF Deliver, HoldInv, rowVars
    <3>2. QED
      BY <1>1, <3>1, CommitMaps
  <2>2. CASE DeliverTransient(d, r)
    <3>1. state[r] # "absent" /\ UNCHANGED <<state, alerted>>
      BY <2>2 DEF DeliverTransient, HoldInv, rowVars
    <3>2. \/ delivered' = [delivered EXCEPT ![r] = TRUE]
          \/ delivered' = delivered
      <4>1. PICK committed \in BOOLEAN :
              delivered' = [delivered EXCEPT ![r] = @ \/ committed]
        BY <2>2 DEF DeliverTransient
      <4>2. delivered \in [Row -> BOOLEAN]
        BY DEF TypeOK
      <4>3. CASE committed = TRUE
        BY <4>1, <4>3
      <4>4. CASE committed = FALSE
        BY <4>1, <4>2, <4>4
      <4>5. QED
        BY <4>1, <4>3, <4>4
    <3>3. QED
      BY <1>1, <1>2, <3>1, <3>2, CommitMaps DEF extVars
  <2>3. CASE DeliverFatal(d, r) \/ Leftover(d, r)
    BY <1>2, <2>3 DEF DeliverFatal, Leftover, rowVars
  <2>4. CASE MarkPublished(d, r) \/ ScheduleRetry(d, r) \/ DeadLetter(d, r)
    BY <1>1, <2>4, OutcomeMaps
  <2>5. CASE PostNotification(d, r)
    BY <1>1, <2>5, AlertMaps
  <2>6. QED
    BY <1>6, <2>1, <2>2, <2>3, <2>4, <2>5 DEF RowStep
<1>7. ASSUME NEW d \in Drain, AckFails(d) \/ Abort(d) PROVE Stutter
  BY <1>2, <1>7 DEF AckFails, Abort, rowVars
<1>8. ASSUME NEW c \in Client, NEW r \in Row, InsertReplay(c, r)
      PROVE  Ledger!LedgerNext
  <2>1. /\ state[r] = "absent" /\ state' = [state EXCEPT ![r] = "pending"]
        /\ UNCHANGED extVars
    BY <1>8 DEF InsertReplay
  <2>2. QED
    BY <1>1, <2>1, OpenMaps
<1>9. ASSUME NEW c \in Client,
             \/ ReplayConflict(c)
             \/ \E o \in Row, k \in Key : ReplayLookup(c, o, k)
      PROVE  Stutter
  BY <1>2, <1>9 DEF ReplayConflict, ReplayLookup, rowVars
<1>10. CASE UNCHANGED vars
  BY <1>2, <1>10 DEF vars, rowVars
<1>11. QED
  BY <1>3, <1>4, <1>5, <1>6, <1>7, <1>8, <1>9, <1>10
  DEF Next, DrainStep, ReplayStep

\* With leases, retries, crashes and drains that are behind, the outbox does
\* only what the ledger allows: an entry is closed once, as published only
\* after its effect was committed, and only dead entries are alerted.
THEOREM KeepsTheLedger == Spec => ImplementsLedger
<1>1. Init => VerdictInv /\ HoldInv
  BY DEF Init, VerdictInv, DrainMemory, PublishedWasDelivered,
         DeadLetterJustified, HoldInv, Phases
<1>2. TypeOK /\ VerdictInv /\ HoldInv /\ [Next]_vars => VerdictInv' /\ HoldInv'
  BY VerdictStep, HoldStep
<1>3. Spec => [](VerdictInv /\ HoldInv)
  BY <1>1, <1>2, TypeInvariant, PTL DEF Spec
<1>4. Spec => Ledger!LedgerInit /\ [][Ledger!LedgerNext]_(Ledger!ledgerVars)
  BY <1>3, LedgerInitMaps, LedgerStepMaps, TypeInvariant, PTL DEF Spec
<1>5. QED
  BY <1>4 DEF ImplementsLedger, Ledger!LedgerSpec
=============================================================================
