-------------------------- MODULE ShipmentHandoff --------------------------
(***************************************************************************)
(* The shipment registry as its handoffs change it.  A source hands a      *)
(* departed shipment over (AcceptNew); another source joins it later       *)
(* (AcceptLate); a source corrects what it said (BeginCorrection,          *)
(* CommitCorrection); operators complete facts that were pending           *)
(* (CompletePending).  Every accepted handoff of a source raises the       *)
(* relationship version, rewrites the links of the containers, stores the  *)
(* request that starts the lifecycle for the containers then linked, and   *)
(* writes an outbox row for it in the same transaction.                    *)
(*                                                                         *)
(* A submission that the preflight or the transaction refuses, and one     *)
(* that repeats a handoff already stored, change none of this state.       *)
(***************************************************************************)
EXTENDS Naturals, Sequences, FiniteSets

CONSTANTS
  Shipment, Container,
  Proof,         \* departure proofs sources send, see DepartureProof
  None,          \* no correction in progress
  MaxHandoffs,   \* bound: accepted handoffs in a behaviour
  MaxMishaps     \* bound: faults, of which each may replay one outbox row

DepartureProof == {"missing", "actual_time", "status"}

ASSUME HandoffAssumption ==
  /\ Proof \subseteq DepartureProof
  /\ MaxHandoffs \in Nat
  /\ MaxMishaps \in Nat

VARIABLES
  shipment,     \* rows: relationship and lifecycle version, known departure time
  link,         \* shipment_container_link: the last link of the pair
  handoff,      \* shipment_handoff_record rows that were accepted, oldest first
  correcting,   \* what a correction in progress has read and will write
  outbox        \* start messages, oldest first; a row's event id is its index

registry == <<shipment, link, handoff, correcting>>

Link  == {"none", "active", "superseded"}
Kind  == {"new", "late", "correction", "completion"}
Scope == SUBSET Container
HandoffId == 1..MaxHandoffs
RowId     == 1..(MaxHandoffs + MaxMishaps)

\* version 0: there is no such shipment.  A row's status stays 'departed'.
ShipmentRow == [rel : Nat, lc : Nat, atd : BOOLEAN]

\* A completion has no lifecycle request: its scope is empty.
HandoffRow == [kind : Kind, shipment : Shipment, version : Nat,
               status : {"accepted", "superseded"}, proof : DepartureProof,
               rel : Nat, scope : Scope]

OutboxRow == [handoff : HandoffId, state : {"open", "published", "dead"},
              replay : BOOLEAN]

Correction == [pred : HandoffId, rel : Nat, containers : Scope]

RegistryTypeOK ==
  /\ shipment \in [Shipment -> ShipmentRow]
  /\ link \in [Shipment -> [Container -> Link]]
  /\ handoff \in Seq(HandoffRow) /\ Len(handoff) <= MaxHandoffs
  /\ correcting \in [Shipment -> Correction \cup {None}]
  /\ outbox \in Seq(OutboxRow)

RegistryInit ==
  /\ shipment = [s \in Shipment |-> [rel |-> 0, lc |-> 0, atd |-> FALSE]]
  /\ link = [s \in Shipment |-> [c \in Container |-> "none"]]
  /\ handoff = <<>>
  /\ correcting = [s \in Shipment |-> None]
  /\ outbox = <<>>

-----------------------------------------------------------------------------
(* Helpers                                                                 *)

Exists(s) == shipment[s].rel > 0
Active(s) == {c \in Container : link[s][c] = "active"}
Accepted(s) == {h \in DOMAIN handoff :
                  handoff[h].shipment = s /\ handoff[h].status = "accepted"}
Requests == {h \in DOMAIN handoff : handoff[h].kind # "completion"}

\* A container is active in one shipment only.  The link a shipment makes
\* when no link of the pair is active has version 1, which is unique: a
\* container that a correction dropped cannot come back.
Linkable(s, c) ==
  /\ link[s][c] # "superseded"
  /\ \A t \in Shipment \ {s} : link[t][c] # "active"

\* Mutant of Entry: the record keeps the status of one that was refused.
Entry_Refused(kind, s, version, proof, rel, scope) ==
  [kind |-> kind, shipment |-> s, version |-> version, status |-> "rejected",
   proof |-> proof, rel |-> rel, scope |-> scope]

Entry(kind, s, version, proof, rel, scope) ==
  [kind |-> kind, shipment |-> s, version |-> version, status |-> "accepted",
   proof |-> proof, rel |-> rel, scope |-> scope]

Room == Len(handoff) < MaxHandoffs

\* The handoff record, its lifecycle request and its outbox row.
Announce(entry, others) ==
  /\ handoff' = Append(others, entry)
  /\ outbox' = Append(outbox, [handoff |-> Len(handoff) + 1,
                               state |-> "open", replay |-> FALSE])

Relink(s, active, dropped) ==
  link' = [link EXCEPT ![s] =
    [c \in Container |-> IF c \in active THEN "active"
                         ELSE IF c \in dropped THEN "superseded"
                         ELSE link[s][c]]]

-----------------------------------------------------------------------------
(* Actions                                                                 *)

\* commit, neither a correction nor for an existing shipment
AcceptNew(s, containers, proof) ==
  /\ Room
  /\ ~Exists(s)
  /\ \A c \in containers : Linkable(s, c)
  /\ shipment' = [shipment EXCEPT ![s] =
       [rel |-> 1, lc |-> 1, atd |-> proof = "actual_time"]]
  /\ Relink(s, containers, {})
  /\ Announce(Entry("new", s, 1, proof, 1, containers), handoff)
  /\ UNCHANGED correcting

\* Mutant of AcceptLate: the request names the containers of the command.
AcceptLate_OwnContainers(s, containers, proof) ==
  /\ Room
  /\ Exists(s)
  /\ \A c \in containers : Linkable(s, c)
  /\ shipment' = [shipment EXCEPT ![s].rel = @ + 1]
  /\ Relink(s, containers, {})
  /\ Announce(Entry("late", s, 1, proof, shipment[s].rel + 1, containers), handoff)
  /\ UNCHANGED correcting

\* commit for the shipment the command targets at its current relationship
\* version: its containers join, and the request names all of them
AcceptLate(s, containers, proof) ==
  /\ Room
  /\ Exists(s)
  /\ \A c \in containers : Linkable(s, c)
  /\ shipment' = [shipment EXCEPT ![s].rel = @ + 1]
  /\ Relink(s, containers, {})
  /\ Announce(Entry("late", s, 1, proof, shipment[s].rel + 1,
                    Active(s) \cup containers), handoff)
  /\ UNCHANGED correcting

\* resolveCorrection: reads the predecessor and its shipment, and refuses
\* once the lifecycle has progressed
BeginCorrection(h, containers) ==
  LET s == handoff[h].shipment IN
  /\ Room
  /\ h \in Requests
  /\ correcting[s] = None
  /\ handoff[h].status = "accepted"
  /\ shipment[s].lc = 1
  /\ correcting' = [correcting EXCEPT ![s] =
       [pred |-> h, rel |-> shipment[s].rel, containers |-> containers]]
  /\ UNCHANGED <<shipment, link, handoff, outbox>>

\* The rest of the transaction: the update is guarded by the relationship
\* version alone.
CorrectionHolds(s) ==
  /\ shipment[s].rel = correcting[s].rel
  /\ \A c \in correcting[s].containers : Linkable(s, c)

CommitCorrection(s) ==
  LET order == correcting[s]
      old   == handoff[order.pred]
  IN
  /\ order # None
  /\ Room
  /\ CorrectionHolds(s)
  /\ shipment' = [shipment EXCEPT ![s].rel = @ + 1]
  /\ Relink(s, order.containers, Active(s))
  /\ Announce(Entry("correction", s, old.version + 1, old.proof, order.rel + 1,
                    order.containers),
              [handoff EXCEPT ![order.pred].status = "superseded"])
  /\ correcting' = [correcting EXCEPT ![s] = None]

\* The transaction fails: a conflict, or the database.
LoseCorrection(s) ==
  /\ correcting[s] # None
  /\ correcting' = [correcting EXCEPT ![s] = None]
  /\ UNCHANGED <<shipment, link, handoff, outbox>>

\* Pending facts, documents, SKUs or cargo of a shipment are completed: an
\* accepted handoff record of version 1 without a lifecycle request, at the
\* same relationship version.  Facts may include the departure time.
CompletePending(s, atd) ==
  /\ Room
  /\ Exists(s)
  /\ shipment' = [shipment EXCEPT ![s].atd = @ \/ atd]
  /\ handoff' = Append(handoff, Entry("completion", s, 1, "missing",
                                      shipment[s].rel, {}))
  /\ UNCHANGED <<link, correcting, outbox>>

\* The links a shipment has are those the request of its relationship
\* version names, and that request's handoff is accepted: whoever joins or
\* corrects it, nothing is linked that no request will start (commit,
\* supersedeRemovedContainerLinks, listActiveShipmentContainerIds).
RequestNamesActive ==
  \A s \in Shipment : Exists(s) =>
    \E h \in Requests \cap Accepted(s) :
      /\ handoff[h].rel = shipment[s].rel
      /\ handoff[h].scope = Active(s)

RegistryNext ==
  \/ \E s \in Shipment, containers \in Scope \ {{}}, proof \in Proof :
       AcceptNew(s, containers, proof) \/ AcceptLate(s, containers, proof)
  \/ \E h \in DOMAIN handoff, containers \in Scope \ {{}} :
       BeginCorrection(h, containers)
  \/ \E s \in Shipment :
       \/ CommitCorrection(s)
       \/ LoseCorrection(s)
       \/ \E atd \in BOOLEAN : CompletePending(s, atd)
=============================================================================
