------------------------------- MODULE Inbox -------------------------------
(***************************************************************************)
(* The lifecycle inbox: messages received from the outbox, claimed under a *)
(* lease, consumed, and settled: as processed by the transaction that      *)
(* applies them, as retry or dead letter by the worker that saw the        *)
(* failure.  What consuming a message does is the business of the module   *)
(* that composes the inbox with a consumer.                                *)
(*                                                                         *)
(* Every worker calls under the same service identity, which is the lease  *)
(* owner: a lease tells a live claim from a lapsed one, never one worker   *)
(* from another.  Time is abstracted: a live lease may lapse, a message in *)
(* retry_wait may be due at any time.                                      *)
(***************************************************************************)
EXTENDS Naturals, Sequences, FiniteSets

CONSTANTS
  Worker,
  Payload,      \* what messages carry
  Event,        \* ids of the outbox rows they are delivered for
  None          \* no event: people replayed a dead letter under a fresh id

VARIABLES
  inbox,      \* inbox_message rows in the order they were received
  task        \* the message a worker has claimed and is busy with

inboxVars == <<inbox, task>>

Cause == {"none", "business_rejected", "dependency_unavailable",
          "unknown_code"}
Row == [event : Event \cup {None}, payload : Payload,
        state : {"received", "processing", "retry_wait", "processed",
                 "dead_letter"},
        leased : BOOLEAN, cause : Cause]

\* claimed, then past the reads of its transaction; or failed for a cause
Task == [message : Nat \ {0}, step : {"claimed", "writing", "failed"},
         cause : Cause]

Idle(w) == task[w] = None
Held(i) == \E w \in Worker : ~Idle(w) /\ task[w].message = i
Open(i) == inbox[i].state \in {"received", "processing", "retry_wait"}

InboxTypeOK ==
  /\ inbox \in Seq(Row)
  /\ task \in [Worker -> Task \cup {None}]
  /\ \A w \in Worker : ~Idle(w) => task[w].message \in DOMAIN inbox

InboxInit ==
  /\ inbox = <<>>
  /\ task = [w \in Worker |-> None]

-----------------------------------------------------------------------------
(* Receiving and replaying                                                 *)

Fresh(event, payload) ==
  [event |-> event, payload |-> payload, state |-> "received",
   leased |-> FALSE, cause |-> "none"]

Known(event) == \E i \in DOMAIN inbox : inbox[i].event = event

\* execute of ReceiveInboxMessageService: a repeated message id returns the
\* row there is.
Receive(event, payload) ==
  /\ inbox' = IF Known(event) THEN inbox
              ELSE Append(inbox, Fresh(event, payload))
  /\ UNCHANGED task

\* execute of ReplayInboxDeadLetterService: a fresh message with the payload
\* of the dead letter, or of another row of the inbox.
Revive(i, source) ==
  /\ inbox[i].state = "dead_letter"
  /\ inbox' = Append(inbox, Fresh(None, inbox[source].payload))
  /\ UNCHANGED task

-----------------------------------------------------------------------------
(* Claiming                                                                *)

\* isInboxClaimable, the claim's WHERE clause
Claimable(i) == \/ inbox[i].state \in {"received", "retry_wait"}
                \/ inbox[i].state = "processing" /\ ~inbox[i].leased

\* claimBatch: the oldest claimable row; a retry may not be due yet, so that
\* it may be passed over.  (A batch is worked off row by row, each under a
\* lease of its own; claims of one row leave out that its last rows wait.)
Claim(w, i) ==
  /\ Idle(w)
  /\ Claimable(i)
  /\ \A j \in 1..(i - 1) : Claimable(j) => inbox[j].state = "retry_wait"
  /\ inbox' = [inbox EXCEPT ![i] = [@ EXCEPT !.state = "processing",
                                             !.leased = TRUE]]
  /\ task' = [task EXCEPT ![w] = [message |-> i, step |-> "claimed",
                                   cause |-> "none"]]

-----------------------------------------------------------------------------
(* Consuming: the composing module chooses among these                     *)

Message(w) == inbox[task[w].message]

\* assertInboxLease, and the guard of every update by a worker: the row is
\* in processing under the service identity, whoever claimed it.
HasLease(w) == Message(w).state = "processing"

\* Mutant of ReadsPass: the row is marked before the effect, on its own.
ReadsPass_Marks(w) ==
  /\ HasLease(w)
  /\ task' = [task EXCEPT ![w].step = "writing"]
  /\ inbox' = [inbox EXCEPT ![task[w].message].state = "processed"]

\* The reads of the transaction passed: its writes come next.
ReadsPass(w) ==
  /\ HasLease(w)
  /\ task' = [task EXCEPT ![w].step = "writing"]
  /\ UNCHANGED inbox

\* The transaction ends with completeInbox; markProcessed then finds the row
\* processed and changes nothing.
Complete(w) ==
  /\ HasLease(w)
  /\ inbox' = [inbox EXCEPT ![task[w].message].state = "processed",
                            ![task[w].message].leased = FALSE]
  /\ task' = [task EXCEPT ![w] = None]

Failed(t, cause) == [t EXCEPT !.step = "failed", !.cause = cause]

Fail(w, cause) ==
  /\ task' = [task EXCEPT ![w] = Failed(@, cause)]
  /\ UNCHANGED inbox

\* INBOX_LEASE_LOST is a code nobody classified.
LoseLease(w) == ~HasLease(w) /\ Fail(w, "unknown_code")

\* decideInboxFailure: a dependency's failure is retried until the attempts
\* are exhausted, which Outbox counts, or the total timeout has passed; here
\* either may be so at any time.
Decisions(cause) ==
  IF cause = "dependency_unavailable" THEN {"retry_wait", "dead_letter"}
  ELSE {"dead_letter"}

\* markConsumptionFailed
RecordFailure(w) ==
  /\ ~Idle(w) /\ task[w].step = "failed"
  /\ \/ /\ HasLease(w)
        /\ \E state \in Decisions(task[w].cause) :
             inbox' = [inbox EXCEPT ![task[w].message] =
               [@ EXCEPT !.state = state, !.leased = FALSE,
                         !.cause = task[w].cause]]
     \/ ~HasLease(w) /\ UNCHANGED inbox
  /\ task' = [task EXCEPT ![w] = None]

-----------------------------------------------------------------------------
(* Time and crashes                                                        *)

Lapse(i) ==
  /\ inbox[i].state = "processing" /\ inbox[i].leased
  /\ inbox' = [inbox EXCEPT ![i].leased = FALSE]
  /\ UNCHANGED task

\* The process dies; a transaction in progress is rolled back.
Crash(w) ==
  /\ ~Idle(w)
  /\ task' = [task EXCEPT ![w] = None]
  /\ UNCHANGED inbox
=============================================================================
