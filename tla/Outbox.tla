------------------------------- MODULE Outbox -------------------------------
(***************************************************************************)
(* The transactional outbox of lifecycle-control: rows of outbox_message,  *)
(* the drains that publish them in leased batches, and the manual replay   *)
(* of dead letters.                                                        *)
(*                                                                         *)
(* A drain is one execution of PublishOutboxBatchService.  Several run at  *)
(* once: users trigger them, a Temporal schedule triggers them, and a      *)
(* scheduled call that timed out on the client keeps running on the server *)
(* while its retry starts.  The lease owner is the operator of the call,   *)
(* so two drains may carry the same owner (operatorOf need not be          *)
(* injective).                                                             *)
(*                                                                         *)
(* Wall-clock time is abstracted to the three comparisons the code makes:  *)
(* a lease is live or has lapsed, a back-off is waiting or due, a row is   *)
(* overdue once the policy's total timeout has passed since its creation.  *)
(***************************************************************************)
EXTENDS Naturals, FiniteSets

CONSTANTS
  Row,          \* identities of outbox rows; the row id is also the event id
  Drain,        \* executions that may publish
  Client,       \* executions of the manual replay command
  Key,          \* idempotency keys of the replay command
  Operator,     \* lease owners
  operatorOf,   \* the operator on whose behalf a drain runs
  None,         \* SQL NULL
  BatchLimit,   \* rows claimed at most by one claim
  MaxAttempts,  \* maximumAttempts of the retry policy
  MaxAborts,    \* bound: aborted drains in a behaviour
  MaxLapses     \* bound: leases that lapse while their drain is still at work

ASSUME OutboxAssumption ==
  /\ operatorOf \in [Drain -> Operator]
  /\ None \notin Operator \cup Row \cup Key
  /\ BatchLimit \in Nat \ {0}
  /\ MaxAttempts \in Nat \ {0}
  /\ MaxAborts \in Nat
  /\ MaxLapses \in Nat

VARIABLES
  \* columns of outbox_message
  state, attempts, owner, lease, backoff, cause, overdue,
  \* memory of each drain
  phase, batch, current, seen, error,
  \* outbox_replay_request, and the replay commands between lookup and insert
  replays, asked,
  \* what other modules have committed: consumers, notification
  delivered, alerted,
  \* spent bounds
  aborts, lapses

rowVars    == <<state, attempts, owner, lease, backoff, cause, overdue>>
drainVars  == <<phase, batch, current, seen, error>>
replayVars == <<replays, asked>>
extVars    == <<delivered, alerted>>
boundVars  == <<aborts, lapses>>
vars == <<rowVars, drainVars, replayVars, extVars, boundVars>>

State   == {"absent", "pending", "publishing", "published", "retry_wait",
            "dead_letter"}
Lease   == {"none", "live", "lapsed"}
Backoff == {"none", "waiting", "due"}
Cause   == {"none", "transient", "fatal"}
Phase   == {"idle", "work", "acked", "failed", "alert"}

Command == [origin : Row, key : Key]
Replay  == [origin : Row, key : Key, copy : Row]

TypeOK ==
  /\ state    \in [Row -> State]
  /\ attempts \in [Row -> Nat]
  /\ owner    \in [Row -> Operator \cup {None}]
  /\ lease    \in [Row -> Lease]
  /\ backoff  \in [Row -> Backoff]
  /\ cause    \in [Row -> Cause]
  /\ overdue  \in [Row -> BOOLEAN]
  /\ phase    \in [Drain -> Phase]
  /\ batch    \in [Drain -> SUBSET Row]
  /\ current  \in [Drain -> Row \cup {None}]
  /\ seen     \in [Drain -> [Row -> Nat]]
  /\ error    \in [Drain -> Cause]
  /\ replays  \in SUBSET Replay
  /\ asked    \in [Client -> SUBSET Command]
  /\ delivered \in [Row -> BOOLEAN]
  /\ alerted   \in [Row -> BOOLEAN]
  /\ aborts \in Nat
  /\ lapses \in Nat

Init ==
  /\ state    = [r \in Row |-> "absent"]
  /\ attempts = [r \in Row |-> 0]
  /\ owner    = [r \in Row |-> None]
  /\ lease    = [r \in Row |-> "none"]
  /\ backoff  = [r \in Row |-> "none"]
  /\ cause    = [r \in Row |-> "none"]
  /\ overdue  = [r \in Row |-> FALSE]
  /\ phase    = [d \in Drain |-> "idle"]
  /\ batch    = [d \in Drain |-> {}]
  /\ current  = [d \in Drain |-> None]
  /\ seen     = [d \in Drain |-> [r \in Row |-> 0]]
  /\ error    = [d \in Drain |-> "none"]
  /\ replays  = {}
  /\ asked    = [c \in Client |-> {}]
  /\ delivered = [r \in Row |-> FALSE]
  /\ alerted   = [r \in Row |-> FALSE]
  /\ aborts = 0
  /\ lapses = 0

-----------------------------------------------------------------------------
(* Rows appear in the transaction of the business change they announce.    *)

\* A business transaction inserts a row (saveEvent, applyEventToNode).
Append(r) ==
  /\ state[r] = "absent"
  /\ state' = [state EXCEPT ![r] = "pending"]
  /\ UNCHANGED <<attempts, owner, lease, backoff, cause, overdue, drainVars,
                 replayVars, extVars, boundVars>>

-----------------------------------------------------------------------------
(* One batch: claim, then for each row deliver and record the outcome.     *)

\* Mutant of Claimable: the lease of a publishing row is not looked at.
Claimable_IgnoresLease(r) ==
  /\ backoff[r] # "waiting"
  /\ state[r] \in {"pending", "retry_wait", "publishing"}

\* Mutant of Claimable: a lapsed lease is never taken over.
Claimable_NoTakeover(r) ==
  /\ backoff[r] # "waiting"
  /\ state[r] \in {"pending", "retry_wait"}

\* The WHERE clause of claimBatch: a back-off blocks a row in every state.
Claimable(r) ==
  /\ backoff[r] # "waiting"
  /\ \/ state[r] \in {"pending", "retry_wait"}
     \/ state[r] = "publishing" /\ lease[r] # "live"

Due == {r \in Row : Claimable(r)}

\* ORDER BY next_attempt_at NULLS FIRST ... LIMIT: never-failed rows go first.
\* FOR UPDATE SKIP LOCKED makes the claim one step: a row that another update
\* holds locked is skipped, as if that update had come first.
ClaimOrder(S) ==
  /\ Cardinality(S) = IF Cardinality(Due) < BatchLimit
                      THEN Cardinality(Due) ELSE BatchLimit
  /\ \A r \in S, q \in Due \ S : backoff[q] = "none" => backoff[r] = "none"

ClaimBatch(d) ==
  /\ phase[d] = "idle"
  /\ \E S \in SUBSET Due :
       /\ S # {}
       /\ ClaimOrder(S)
       /\ state' = [r \in Row |-> IF r \in S THEN "publishing" ELSE state[r]]
       /\ attempts' = [r \in Row |-> IF r \in S THEN attempts[r] + 1
                                                ELSE attempts[r]]
       /\ owner' = [r \in Row |-> IF r \in S THEN operatorOf[d] ELSE owner[r]]
       /\ lease' = [r \in Row |-> IF r \in S THEN "live" ELSE lease[r]]
       /\ batch' = [batch EXCEPT ![d] = S]
       /\ seen'  = [seen EXCEPT ![d] = [r \in Row |->
                      IF r \in S THEN attempts[r] + 1 ELSE 0]]
       /\ phase' = [phase EXCEPT ![d] = "work"]
  /\ UNCHANGED <<backoff, cause, overdue, current, error, replayVars,
                 extVars, boundVars>>

\* deliver(row) commits at the consumer and returns.
Deliver(d, r) ==
  /\ phase[d] = "work"
  /\ r \in batch[d]
  /\ current' = [current EXCEPT ![d] = r]
  /\ phase' = [phase EXCEPT ![d] = "acked"]
  /\ delivered' = [delivered EXCEPT ![r] = TRUE]
  /\ UNCHANGED <<rowVars, batch, seen, error, replayVars, alerted, boundVars>>

\* Mutant of DeliverTransient: the error is swallowed and the row acked.
DeliverTransient_Swallowed(d, r) ==
  /\ phase[d] = "work"
  /\ r \in batch[d]
  /\ current' = [current EXCEPT ![d] = r]
  /\ phase' = [phase EXCEPT ![d] = "acked"]
  /\ UNCHANGED <<rowVars, batch, seen, error, replayVars, extVars, boundVars>>

\* deliver(row) throws a retryable OutboxDeliveryError: the consumer is not
\* ready, or its database failed before or after committing.
DeliverTransient(d, r) ==
  /\ phase[d] = "work"
  /\ r \in batch[d]
  /\ current' = [current EXCEPT ![d] = r]
  /\ phase' = [phase EXCEPT ![d] = "failed"]
  /\ error' = [error EXCEPT ![d] = "transient"]
  /\ \E committed \in BOOLEAN :
       delivered' = [delivered EXCEPT ![r] = @ \/ committed]
  /\ UNCHANGED <<rowVars, batch, seen, replayVars, alerted, boundVars>>

\* deliver(row) throws anything else: a refusal, a malformed message, or an
\* unclassified error of the reads that precede the consumer's transaction.
DeliverFatal(d, r) ==
  /\ phase[d] = "work"
  /\ r \in batch[d]
  /\ current' = [current EXCEPT ![d] = r]
  /\ phase' = [phase EXCEPT ![d] = "failed"]
  /\ error' = [error EXCEPT ![d] = "fatal"]
  /\ UNCHANGED <<rowVars, batch, seen, replayVars, extVars, boundVars>>

\* Mutants of Fence: the update is by id alone; the owner is not compared.
Fence_ById(d, r) == r \in batch[d]
Fence_AnyOwner(d, r) == state[r] = "publishing" /\ r \in batch[d]

\* The fence of markPublished and markDeliveryFailed: state and owner only.
Fence(d, r) ==
  /\ state[r] = "publishing"
  /\ owner[r] = operatorOf[d]

\* The loop goes on with the rest of the batch, or execute returns.
Advance(d, r) ==
  /\ batch' = [batch EXCEPT ![d] = @ \ {r}]
  /\ phase' = [phase EXCEPT ![d] = IF batch[d] = {r} THEN "idle" ELSE "work"]
  /\ current' = [current EXCEPT ![d] = None]
  /\ error' = [error EXCEPT ![d] = "none"]

\* Mutant of Release: the lease owner becomes an empty string, not NULL.
Release_EmptyOwner(r) ==
  /\ owner' = [owner EXCEPT ![r] = ""]
  /\ lease' = [lease EXCEPT ![r] = "none"]

\* Both outcome updates clear the lease columns.
Release(r) ==
  /\ owner' = [owner EXCEPT ![r] = None]
  /\ lease' = [lease EXCEPT ![r] = "none"]

\* The row reported as "leftover": the update matched nothing.
Leftover(d, r) ==
  /\ phase[d] \in {"acked", "failed"}
  /\ current[d] = r
  /\ ~Fence(d, r)
  /\ Advance(d, r)
  /\ UNCHANGED <<rowVars, seen, replayVars, extVars, boundVars>>

MarkPublished(d, r) ==
  /\ phase[d] = "acked"
  /\ current[d] = r
  /\ Fence(d, r)
  /\ state' = [state EXCEPT ![r] = "published"]
  /\ Release(r)
  /\ Advance(d, r)
  /\ UNCHANGED <<attempts, backoff, cause, overdue, seen, replayVars,
                 extVars, boundVars>>

\* markPublished itself throws: the catch block treats the row as failed.
AckFails(d) ==
  /\ phase[d] = "acked"
  /\ phase' = [phase EXCEPT ![d] = "failed"]
  /\ error' = [error EXCEPT ![d] = "fatal"]
  /\ UNCHANGED <<rowVars, batch, current, seen, replayVars, extVars,
                 boundVars>>

\* Mutant of GivesUp: the last permitted attempt is never made.
GivesUp_OneEarly(d, r) ==
  \/ error[d] = "fatal"
  \/ seen[d][r] + 1 >= MaxAttempts
  \/ overdue[r]

\* Mutant of GivesUp: one attempt more than the policy has.
GivesUp_OneLate(d, r) ==
  \/ error[d] = "fatal"
  \/ seen[d][r] > MaxAttempts
  \/ overdue[r]

\* decideOutboxFailure: the attempt count is the one read by the claim.
GivesUp(d, r) ==
  \/ error[d] = "fatal"
  \/ seen[d][r] >= MaxAttempts
  \/ overdue[r]

\* markDeliveryFailed with the decision to try again later.
ScheduleRetry(d, r) ==
  /\ phase[d] = "failed"
  /\ current[d] = r
  /\ Fence(d, r)
  /\ ~GivesUp(d, r)
  /\ state' = [state EXCEPT ![r] = "retry_wait"]
  /\ backoff' = [backoff EXCEPT ![r] = "waiting"]
  /\ cause' = [cause EXCEPT ![r] = error[d]]
  /\ Release(r)
  /\ Advance(d, r)
  /\ UNCHANGED <<attempts, overdue, seen, replayVars, extVars, boundVars>>

\* markDeliveryFailed with the decision to give up; the alert comes next.
DeadLetter(d, r) ==
  /\ phase[d] = "failed"
  /\ current[d] = r
  /\ Fence(d, r)
  /\ GivesUp(d, r)
  /\ state' = [state EXCEPT ![r] = "dead_letter"]
  /\ backoff' = [backoff EXCEPT ![r] = "none"]
  /\ cause' = [cause EXCEPT ![r] = error[d]]
  /\ Release(r)
  /\ phase' = [phase EXCEPT ![d] = "alert"]
  /\ UNCHANGED <<attempts, overdue, batch, current, seen, error, replayVars,
                 extVars, boundVars>>

\* Mutant of PostNotification: its failure is swallowed.
PostNotification_Swallowed(d, r) ==
  /\ phase[d] = "alert"
  /\ current[d] = r
  /\ Advance(d, r)
  /\ UNCHANGED <<rowVars, seen, replayVars, extVars, boundVars>>

\* postNotification.execute commits in the notification module.
PostNotification(d, r) ==
  /\ phase[d] = "alert"
  /\ current[d] = r
  /\ alerted' = [alerted EXCEPT ![r] = TRUE]
  /\ Advance(d, r)
  /\ UNCHANGED <<rowVars, seen, replayVars, delivered, boundVars>>

\* The process dies, or an exception leaves execute (postNotification or
\* markDeliveryFailed throws): the rest of the batch is abandoned.
Abort(d) ==
  /\ phase[d] # "idle"
  /\ aborts < MaxAborts
  /\ aborts' = aborts + 1
  /\ phase' = [phase EXCEPT ![d] = "idle"]
  /\ batch' = [batch EXCEPT ![d] = {}]
  /\ current' = [current EXCEPT ![d] = None]
  /\ error' = [error EXCEPT ![d] = "none"]
  /\ UNCHANGED <<rowVars, seen, replayVars, extVars, lapses>>

-----------------------------------------------------------------------------
(* The passage of time.                                                    *)

\* Some drain that claimed row r last still has it in memory.
AtWork(r) == \E d \in Drain : r \in batch[d] /\ seen[d][r] = attempts[r]

\* lease_expires_at passes.  MaxLapses bounds only leases that outrun a
\* drain still at work; an abandoned lease always lapses.
LeaseLapses(r) ==
  /\ lease[r] = "live"
  /\ lease' = [lease EXCEPT ![r] = "lapsed"]
  /\ \/ AtWork(r) /\ lapses < MaxLapses /\ lapses' = lapses + 1
     \/ ~AtWork(r) /\ UNCHANGED lapses
  /\ UNCHANGED <<state, attempts, owner, backoff, cause, overdue, drainVars,
                 replayVars, extVars, aborts>>

\* next_attempt_at passes.
BackoffElapses(r) ==
  /\ backoff[r] = "waiting"
  /\ backoff' = [backoff EXCEPT ![r] = "due"]
  /\ UNCHANGED <<state, attempts, owner, lease, cause, overdue, drainVars,
                 replayVars, extVars, boundVars>>

\* created_at + totalTimeoutSeconds passes.
TotalTimeout(r) ==
  /\ state[r] \in {"pending", "publishing", "retry_wait"}
  /\ ~overdue[r]
  /\ overdue' = [overdue EXCEPT ![r] = TRUE]
  /\ UNCHANGED <<state, attempts, owner, lease, backoff, cause, drainVars,
                 replayVars, extVars, boundVars>>

-----------------------------------------------------------------------------
(* Manual replay of a dead letter.                                         *)

\* findById, decideReplayDeadLetter and findReplayByIdempotency all pass;
\* otherwise the command answers without writing.
ReplayLookup(c, o, k) ==
  /\ asked[c] = {}
  /\ state[o] = "dead_letter"
  /\ \A p \in replays : ~(p.origin = o /\ p.key = k)
  /\ asked' = [asked EXCEPT ![c] = {[origin |-> o, key |-> k]}]
  /\ UNCHANGED <<rowVars, drainVars, replays, extVars, boundVars>>

\* Mutant of ReplayKeyFree: no unique index, the earlier lookup must do.
ReplayKeyFree_Unindexed(o, k) == o \in Row /\ k \in Key

\* The unique index on (tenant, dead letter, idempotency key).
ReplayKeyFree(o, k) == \A p \in replays : ~(p.origin = o /\ p.key = k)

\* insertReplay: a fresh pending row and its request, in one transaction.
InsertReplay(c, r) ==
  \E a \in asked[c] :
    /\ ReplayKeyFree(a.origin, a.key)
    /\ state[r] = "absent"
    /\ state' = [state EXCEPT ![r] = "pending"]
    /\ replays' = replays \cup
                    {[origin |-> a.origin, key |-> a.key, copy |-> r]}
    /\ asked' = [asked EXCEPT ![c] = {}]
    /\ UNCHANGED <<attempts, owner, lease, backoff, cause, overdue,
                   drainVars, extVars, boundVars>>

\* A concurrent command with the same key won: the insert rolls back.
ReplayConflict(c) ==
  \E a \in asked[c] :
    /\ ~ReplayKeyFree(a.origin, a.key)
    /\ asked' = [asked EXCEPT ![c] = {}]
    /\ UNCHANGED <<rowVars, drainVars, replays, extVars, boundVars>>

-----------------------------------------------------------------------------
RowStep(d, r) ==
  \/ Deliver(d, r) \/ DeliverTransient(d, r) \/ DeliverFatal(d, r)
  \/ MarkPublished(d, r) \/ ScheduleRetry(d, r) \/ DeadLetter(d, r)
  \/ Leftover(d, r)
  \/ PostNotification(d, r)

DrainStep(d) ==
  \/ ClaimBatch(d)
  \/ \E r \in Row : RowStep(d, r)
  \/ AckFails(d)

TimeStep(r) == LeaseLapses(r) \/ BackoffElapses(r) \/ TotalTimeout(r)

ReplayStep(c) ==
  \/ \E o \in Row, k \in Key : ReplayLookup(c, o, k)
  \/ \E r \in Row : InsertReplay(c, r)
  \/ ReplayConflict(c)

Next ==
  \/ \E r \in Row : Append(r) \/ TimeStep(r)
  \/ \E d \in Drain : DrainStep(d) \/ Abort(d)
  \/ \E c \in Client : ReplayStep(c)

Spec == Init /\ [][Next]_vars

\* The schedule keeps starting drains, a running drain takes its next step,
\* and time passes.  Nothing forces work to arrive, fail or be replayed.
Fairness ==
  /\ \A d \in Drain : WF_vars(DrainStep(d))
  /\ \A r \in Row : WF_vars(LeaseLapses(r)) /\ WF_vars(BackoffElapses(r))

FairSpec == Spec /\ Fairness
-----------------------------------------------------------------------------
(* What a reader of the code relies on.                                    *)

Created(r) == state[r] # "absent"
Settled(r) == state[r] \in {"published", "dead_letter"}

\* A row is published only if its effect was committed at the consumer,
\* whichever of several drains recorded it (publish-outbox-batch: deliver
\* first, markPublished after).
PublishedWasDelivered ==
  \A r \in Row : state[r] = "published" => delivered[r]

\* A row becomes a dead letter only for a non-retryable error, after all
\* attempts of the policy, or past the total timeout, although the attempt
\* count decided on is a snapshot that other claims may have outrun.
DeadLetterJustified ==
  \A r \in Row : state[r] = "dead_letter" =>
    \/ cause[r] = "fatal"
    \/ attempts[r] >= MaxAttempts
    \/ overdue[r]

\* The policy bounds the claims of a row, hence its deliveries, although it
\* only counts at a recorded failure and decides on a snapshot: each claim
\* beyond it costs a crash or a lease that lapsed under a working drain
\* (claimBatch, decideOutboxFailure).
AttemptsAreBounded ==
  \A r \in Row : attempts[r] <= MaxAttempts + aborts + lapses

\* As long as no lease lapses under a working drain, no two drains hold the
\* same row: duplicate delivery needs a drain slower than its lease.
NoSharedRowWithoutLapse ==
  lapses = 0 =>
    \A d1, d2 \in Drain : d1 # d2 => batch[d1] \cap batch[d2] = {}

\* A request maps one (dead letter, key) to one copy, copies are never
\* shared, and the original stays a dead letter (replay-dead-letter).
ReplaysSound ==
  \A p \in replays :
    /\ state[p.origin] = "dead_letter"
    /\ Created(p.copy)
    /\ p.copy # p.origin
    /\ \A q \in replays :
         \/ p.origin = q.origin /\ p.key = q.key
         \/ p.copy = q.copy
         => p = q

\* A late drain never reopens, or changes the verdict on, a closed row.
SettledIsFinal ==
  [][\A r \in Row : Settled(r) => state'[r] = state[r] /\ cause'[r] = cause[r]]_vars

\* d's claim on r is the last one made.
CurrentClaim(d, r) == current[d] = r /\ seen[d][r] = attempts[r]

\* d records the outcome of r in this step.
Settles(d, r) ==
  current[d] = r /\ phase[d] \in {"acked", "failed"} /\ phase'[d] # phase[d]

\* d runs under an operator that no other drain has.
Alone(d) == \A e \in Drain : operatorOf[e] = operatorOf[d] => e = d

\* The fence of an outcome compares the owner, which is as much as the identity
\* of a drain permits: one with an operator of its own records an outcome only
\* under the last claim on the row, whatever other drains share.
FenceStopsOthers ==
  [][\A r \in Row :
       state[r] = "publishing" /\ state'[r] # "publishing" =>
         \E d \in Drain : Settles(d, r) /\ (Alone(d) => CurrentClaim(d, r))]_vars

\* Every row is eventually published or a dead letter, through crashes,
\* lapsed leases and retries.
EventuallySettled == \A r \in Row : Created(r) ~> Settled(r)

\* The outbox implements the ledger of its promises.
Ledger == INSTANCE OutboxLedger WITH
  ledger <- [r \in Row |->
    CASE state[r] = "absent"      -> "absent"
      [] state[r] = "published"   -> "published"
      [] state[r] = "dead_letter" -> "dead"
      [] OTHER                    -> "open"]

ImplementsLedger == Ledger!LedgerSpec

\* Entering dead_letter alerts the responsible people, unless a drain dies or
\* is aborted: the alert is a second transaction (publish-outbox-batch).
DeadLetterIsAlerted ==
  \A r \in Row : state[r] = "dead_letter" ~> alerted[r] \/ aborts > 0

-----------------------------------------------------------------------------
(* What documents of the repository say, and the code does not do.         *)

\* Only the drain that made the last claim on a row records its outcome; a
\* drain that lost its lease leaves the row publishing.
OnlyLastClaimSettles ==
  [][\A r \in Row :
       state[r] = "publishing" /\ state'[r] # "publishing" =>
         \E d \in Drain : Settles(d, r) /\ CurrentClaim(d, r)]_vars
=============================================================================
