---------------------------- MODULE OutboxLedger ----------------------------
(***************************************************************************)
(* What the outbox promises, without leases, owners, attempts or time: a   *)
(* message is open from the business transaction that wrote it until it is *)
(* closed once and for all, as published only after its effect has been    *)
(* committed at the consumer, or as a dead letter that people are told of. *)
(* Delivery is at least once: an effect may be committed again, and even   *)
(* after the message was closed, by a drain that is behind.                *)
(***************************************************************************)
CONSTANT Row

VARIABLES
  ledger,      \* [Row -> {"absent", "open", "published", "dead"}]
  delivered,   \* [Row -> BOOLEAN]: committed at the consumer
  alerted      \* [Row -> BOOLEAN]: people were notified of the dead letter

ledgerVars == <<ledger, delivered, alerted>>

LedgerInit ==
  /\ ledger    = [r \in Row |-> "absent"]
  /\ delivered = [r \in Row |-> FALSE]
  /\ alerted   = [r \in Row |-> FALSE]

Open(r) ==
  /\ ledger[r] = "absent"
  /\ ledger' = [ledger EXCEPT ![r] = "open"]
  /\ UNCHANGED <<delivered, alerted>>

Commit(r) ==
  /\ ledger[r] # "absent"
  /\ delivered' = [delivered EXCEPT ![r] = TRUE]
  /\ UNCHANGED <<ledger, alerted>>

ClosePublished(r) ==
  /\ ledger[r] = "open"
  /\ delivered[r]
  /\ ledger' = [ledger EXCEPT ![r] = "published"]
  /\ UNCHANGED <<delivered, alerted>>

CloseDead(r) ==
  /\ ledger[r] = "open"
  /\ ledger' = [ledger EXCEPT ![r] = "dead"]
  /\ UNCHANGED <<delivered, alerted>>

Alert(r) ==
  /\ ledger[r] = "dead"
  /\ alerted' = [alerted EXCEPT ![r] = TRUE]
  /\ UNCHANGED <<ledger, delivered>>

LedgerNext ==
  \E r \in Row : Open(r) \/ Commit(r) \/ ClosePublished(r) \/ CloseDead(r)
                 \/ Alert(r)

LedgerSpec == LedgerInit /\ [][LedgerNext]_ledgerVars
=============================================================================
