------------------------ MODULE PostDeparture_proofs ------------------------
(***************************************************************************)
(* Proofs about PostDeparture, for any shipments, containers and workers,  *)
(* any number of handoffs and any number of mishaps.                       *)
(***************************************************************************)
EXTENDS PostDeparture, TLAPS

USE HandoffAssumption, PostDepartureAssumption

-----------------------------------------------------------------------------
(* The inductive invariant                                                 *)

\* What was read for a correction names a request of its shipment.
CorrectionsKnowTheirShipment ==
  \A s \in Shipment : correcting[s] # None =>
    /\ correcting[s].pred \in Requests
    /\ handoff[correcting[s].pred].shipment = s

\* A container is in one shipment at a time, and in one that there is.
OneShipmentEach ==
  /\ \A s \in Shipment : ~Exists(s) => Active(s) = {}
  /\ \A s \in Shipment : \A t \in Shipment \ {s} : Active(s) \cap Active(t) = {}

\* A relationship version of a shipment belongs to one request.
VersionsIdentify ==
  \A g \in Requests :
    /\ handoff[g].rel > 0
    /\ handoff[g].rel <= shipment[handoff[g].shipment].rel
    /\ \A h \in Requests : /\ handoff[g].shipment = handoff[h].shipment
                           /\ handoff[g].rel = handoff[h].rel
                           => g = h

RowsCarryRequests == \A r \in DOMAIN outbox : outbox[r].handoff \in Requests

\* What is true of the messages in a box, when the requests in A have started
Sound(box, A) ==
  \A i \in DOMAIN box : /\ box[i].payload \in Requests
                        /\ box[i].state = "processed" => box[i].payload \in A

\* A started container belongs to a shipment that counts as started.
FlowsAreAccountedFor ==
  \A c \in Container : flow[c] \in HandoffId =>
    /\ flow[c] \in Requests
    /\ shipment[handoff[flow[c]].shipment].lc # 1

RowsAreCounted == Len(outbox) <= Len(handoff) + mishaps

RegistryInv ==
  /\ RegistryTypeOK
  /\ CorrectionsKnowTheirShipment
  /\ OneShipmentEach
  /\ VersionsIdentify
  /\ RowsCarryRequests
  /\ RequestNamesActive

LifecycleInv ==
  /\ flow \in [Container -> {NoFlow, Planned} \cup HandoffId]
  /\ applied \subseteq HandoffId
  /\ FlowsAreAccountedFor

CountInv == mishaps \in 0..MaxMishaps /\ RowsAreCounted

QueueInv == Queue!InboxTypeOK /\ Sound(inbox, applied)

Inv == RegistryInv /\ QueueInv /\ LifecycleInv /\ CountInv

-----------------------------------------------------------------------------
(* Accepting a handoff                                                     *)

LEMMA AppendFacts ==
  ASSUME NEW S, NEW q \in Seq(S), NEW e \in S
  PROVE  /\ Append(q, e) \in Seq(S)
         /\ Len(Append(q, e)) = Len(q) + 1
         /\ DOMAIN Append(q, e) = DOMAIN q \cup {Len(q) + 1}
         /\ Len(q) \in Nat /\ Len(q) + 1 \notin DOMAIN q
         /\ \A i \in DOMAIN q : Append(q, e)[i] = q[i]
         /\ Append(q, e)[Len(q) + 1] = e
  OBVIOUS

\* What the handoffs that are announced have in common: the shipment s comes
\* to have the containers in scope, at its next relationship version.
Revised(s, scope) ==
  LET n == Len(handoff) + 1 IN
  /\ DOMAIN handoff' = DOMAIN handoff \cup {n} /\ n \notin DOMAIN handoff
  /\ Len(handoff') = n
  /\ handoff'[n].kind # "completion"
  /\ handoff'[n].shipment = s
  /\ handoff'[n].status = "accepted"
  /\ handoff'[n].rel = shipment[s].rel + 1
  /\ handoff'[n].scope = scope
  /\ \A h \in DOMAIN handoff :
       /\ handoff'[h].kind = handoff[h].kind
       /\ handoff'[h].shipment = handoff[h].shipment
       /\ handoff'[h].rel = handoff[h].rel
       /\ handoff'[h].scope = handoff[h].scope
       /\ handoff[h].shipment # s => handoff'[h].status = handoff[h].status
  /\ shipment'[s].rel = shipment[s].rel + 1
  /\ shipment[s].rel > 0 => shipment'[s].lc = shipment[s].lc
  /\ \A t \in Shipment \ {s} : shipment'[t] = shipment[t] /\ link'[t] = link[t]
  /\ scope \subseteq Container
  /\ \A c \in Container : link'[s][c] = "active" <=> c \in scope
  /\ \A c \in scope, t \in Shipment \ {s} : link[t][c] # "active"
  /\ outbox' = Append(outbox, [handoff |-> n, state |-> "open", replay |-> FALSE])
  /\ \A t \in Shipment : correcting'[t] # None => correcting'[t] = correcting[t]

LEMMA EntryType ==
  ASSUME NEW kind \in Kind, NEW s \in Shipment, NEW version \in Nat,
         NEW proof \in DepartureProof, NEW rel \in Nat, NEW scope \in Scope
  PROVE  Entry(kind, s, version, proof, rel, scope) \in HandoffRow
  BY DEF Entry, HandoffRow

\* The new entry joins the records, of which one may change its status.
LEMMA AnnounceFacts ==
  ASSUME RegistryTypeOK, Room, NEW entry \in HandoffRow,
         NEW others \in Seq(HandoffRow), Len(others) = Len(handoff),
         Announce(entry, others)
  PROVE  /\ handoff' \in Seq(HandoffRow)
         /\ Len(handoff') = Len(handoff) + 1 /\ Len(handoff') <= MaxHandoffs
         /\ Len(handoff) + 1 \in HandoffId
         /\ DOMAIN handoff' = DOMAIN handoff \cup {Len(handoff) + 1}
         /\ Len(handoff) + 1 \notin DOMAIN handoff
         /\ \A h \in DOMAIN handoff : handoff'[h] = others[h]
         /\ handoff'[Len(handoff) + 1] = entry
         /\ outbox' \in Seq(OutboxRow)
         /\ outbox' = Append(outbox, [handoff |-> Len(handoff) + 1,
                                      state |-> "open", replay |-> FALSE])
<1>1. handoff \in Seq(HandoffRow) /\ outbox \in Seq(OutboxRow)
  BY DEF RegistryTypeOK
<1>2. DOMAIN others = DOMAIN handoff
  BY <1>1
<1>3. handoff' = Append(others, entry)
  BY DEF Announce
<1>4. /\ handoff' \in Seq(HandoffRow)
      /\ Len(handoff') = Len(others) + 1
      /\ DOMAIN handoff' = DOMAIN others \cup {Len(others) + 1}
      /\ Len(others) \in Nat /\ Len(others) + 1 \notin DOMAIN others
      /\ \A h \in DOMAIN others : handoff'[h] = others[h]
      /\ handoff'[Len(others) + 1] = entry
  BY <1>3, AppendFacts
<1>5. Len(handoff) + 1 \in HandoffId /\ Len(handoff) + 1 <= MaxHandoffs
  BY <1>1 DEF Room, HandoffId
<1>6. [handoff |-> Len(handoff) + 1, state |-> "open", replay |-> FALSE]
        \in OutboxRow
  BY <1>5 DEF OutboxRow
<1>7. outbox' \in Seq(OutboxRow)
  BY <1>1, <1>6, AppendFacts DEF Announce
<1>8. QED
  BY <1>2, <1>4, <1>5, <1>7 DEF Announce

LEMMA RelinkFacts ==
  ASSUME RegistryTypeOK, NEW s \in Shipment, NEW active \in Scope,
         NEW dropped \in Scope, Relink(s, active, dropped)
  PROVE  /\ link' \in [Shipment -> [Container -> Link]]
         /\ \A t \in Shipment \ {s} : link'[t] = link[t]
         /\ \A c \in Container :
              link'[s][c] = IF c \in active THEN "active"
                            ELSE IF c \in dropped THEN "superseded"
                            ELSE link[s][c]
  BY DEF RegistryTypeOK, Relink, Link, Scope

LEMMA NewRevises ==
  ASSUME RegistryInv, NEW s \in Shipment, NEW containers \in Scope,
         NEW proof \in Proof, AcceptNew(s, containers, proof)
  PROVE  Revised(s, containers) /\ RegistryTypeOK'
<1> DEFINE entry == Entry("new", s, 1, proof, 1, containers)
           n == Len(handoff) + 1
<1>1. RegistryTypeOK /\ proof \in DepartureProof
  BY DEF RegistryInv
<1>2. entry \in HandoffRow
  BY <1>1, EntryType DEF Kind
<1>3. handoff \in Seq(HandoffRow)
  BY <1>1 DEF RegistryTypeOK
<1>4. /\ handoff' \in Seq(HandoffRow)
      /\ Len(handoff') = n /\ Len(handoff') <= MaxHandoffs
      /\ DOMAIN handoff' = DOMAIN handoff \cup {n} /\ n \notin DOMAIN handoff
      /\ \A h \in DOMAIN handoff : handoff'[h] = handoff[h]
      /\ handoff'[n] = entry
      /\ outbox' \in Seq(OutboxRow)
      /\ outbox' = Append(outbox, [handoff |-> n, state |-> "open", replay |-> FALSE])
  BY <1>1, <1>2, <1>3, AnnounceFacts DEF AcceptNew
<1>5. /\ link' \in [Shipment -> [Container -> Link]]
      /\ \A t \in Shipment \ {s} : link'[t] = link[t]
      /\ \A c \in Container : link'[s][c] = IF c \in containers THEN "active"
                                            ELSE link[s][c]
  <2>1. {} \in Scope
    BY DEF Scope
  <2>2. Relink(s, containers, {})
    BY DEF AcceptNew
  <2>3. QED
    BY <1>1, <2>1, <2>2, RelinkFacts
<1>6. /\ shipment[s].rel = 0
      /\ shipment' \in [Shipment -> ShipmentRow]
      /\ shipment'[s].rel = 1
      /\ \A t \in Shipment \ {s} : shipment'[t] = shipment[t]
  BY <1>1 DEF AcceptNew, Exists, RegistryTypeOK, ShipmentRow
<1>7. \A c \in containers : Linkable(s, c)
  BY DEF AcceptNew
<1>8. \A c \in Container : link'[s][c] = "active" <=> c \in containers
  <2>1. \A c \in Container : link[s][c] # "active"
    BY DEF RegistryInv, OneShipmentEach, AcceptNew, Active
  <2>2. QED
    BY <1>5, <2>1
<1>9. RegistryTypeOK'
  BY <1>1, <1>4, <1>5, <1>6 DEF RegistryTypeOK, AcceptNew
<1>10. QED
  <2> HIDE DEF n
  <2>1. \A h \in DOMAIN handoff : handoff'[h] = handoff[h]
    BY <1>4
  <2>2. /\ handoff'[n].kind # "completion" /\ handoff'[n].shipment = s
        /\ handoff'[n].status = "accepted" /\ handoff'[n].rel = shipment[s].rel + 1
        /\ handoff'[n].scope = containers
    BY <1>4, <1>6 DEF Entry
  <2>3. \A c \in containers, t \in Shipment \ {s} : link[t][c] # "active"
    BY <1>7 DEF Linkable
  <2>4. correcting' = correcting
    BY DEF AcceptNew
  <2>5. containers \subseteq Container
    BY DEF Scope
  <2>6. QED
    BY <1>4, <1>5, <1>6, <1>8, <1>9, <2>1, <2>2, <2>3, <2>4, <2>5
    DEF Revised, n

LEMMA NextVersionFacts ==
  ASSUME RegistryTypeOK, NEW s \in Shipment,
         shipment' = [shipment EXCEPT ![s].rel = @ + 1]
  PROVE  /\ shipment' \in [Shipment -> ShipmentRow]
         /\ shipment'[s].rel = shipment[s].rel + 1
         /\ shipment'[s].lc = shipment[s].lc
         /\ \A t \in Shipment \ {s} : shipment'[t] = shipment[t]
<1> DEFINE next == [shipment[s] EXCEPT !.rel = @ + 1]
<1>1. shipment \in [Shipment -> ShipmentRow] /\ shipment[s] \in ShipmentRow
  BY DEF RegistryTypeOK
<1>2. next \in ShipmentRow /\ next.rel = shipment[s].rel + 1
      /\ next.lc = shipment[s].lc
  BY <1>1 DEF ShipmentRow
<1>3. shipment' = [shipment EXCEPT ![s] = next]
  OBVIOUS
<1>4. QED
  <2> HIDE DEF next
  <2>1. QED
    BY <1>1, <1>2, <1>3

LEMMA LateRevises ==
  ASSUME RegistryInv, NEW s \in Shipment, NEW containers \in Scope,
         NEW proof \in Proof, AcceptLate(s, containers, proof)
  PROVE  Revised(s, Active(s) \cup containers) /\ RegistryTypeOK'
<1> DEFINE scope == Active(s) \cup containers
           entry == Entry("late", s, 1, proof, shipment[s].rel + 1, scope)
           n == Len(handoff) + 1
<1>1. /\ RegistryTypeOK /\ proof \in DepartureProof
      /\ shipment[s] \in ShipmentRow /\ shipment[s].rel \in Nat
      /\ handoff \in Seq(HandoffRow) /\ scope \in Scope /\ {} \in Scope
  BY DEF RegistryInv, RegistryTypeOK, ShipmentRow, Scope, Active
<1>2. entry \in HandoffRow
  BY <1>1, EntryType DEF Kind
<1>3. Announce(entry, handoff)
  BY DEF AcceptLate
<1>4. /\ handoff' \in Seq(HandoffRow)
      /\ Len(handoff') = n /\ Len(handoff') <= MaxHandoffs
      /\ DOMAIN handoff' = DOMAIN handoff \cup {n} /\ n \notin DOMAIN handoff
      /\ \A h \in DOMAIN handoff : handoff'[h] = handoff[h]
      /\ handoff'[n] = entry
      /\ outbox' \in Seq(OutboxRow)
      /\ outbox' = Append(outbox, [handoff |-> n, state |-> "open", replay |-> FALSE])
  <2> HIDE DEF entry
  <2>1. Room
    BY DEF AcceptLate
  <2>2. QED
    BY <1>1, <1>2, <1>3, <2>1, AnnounceFacts
<1>5. /\ link' \in [Shipment -> [Container -> Link]]
      /\ \A t \in Shipment \ {s} : link'[t] = link[t]
      /\ \A c \in Container : link'[s][c] = IF c \in containers THEN "active"
                                            ELSE link[s][c]
  <2>1. Relink(s, containers, {})
    BY DEF AcceptLate
  <2>2. QED
    BY <1>1, <2>1, RelinkFacts
<1>6. /\ shipment' \in [Shipment -> ShipmentRow]
      /\ shipment'[s].rel = shipment[s].rel + 1
      /\ shipment'[s].lc = shipment[s].lc
      /\ \A t \in Shipment \ {s} : shipment'[t] = shipment[t]
  BY <1>1, NextVersionFacts DEF AcceptLate
<1>7. /\ scope \subseteq Container
      /\ \A c \in Container : link'[s][c] = "active" <=> c \in scope
  BY <1>1, <1>5 DEF Active, Scope
<1>8. \A c \in scope, t \in Shipment \ {s} : link[t][c] # "active"
  <2>1. \A c \in containers, t \in Shipment \ {s} : link[t][c] # "active"
    BY DEF AcceptLate, Linkable
  <2>2. \A c \in Active(s), t \in Shipment \ {s} : c \notin Active(t)
    BY DEF RegistryInv, OneShipmentEach
  <2>3. QED
    BY <2>1, <2>2 DEF Active
<1>9. RegistryTypeOK'
  <2> HIDE DEF entry, n
  <2>1. QED
    BY <1>1, <1>4, <1>5, <1>6 DEF RegistryTypeOK, AcceptLate, n
<1>10. /\ handoff'[n].kind # "completion" /\ handoff'[n].shipment = s
       /\ handoff'[n].status = "accepted" /\ handoff'[n].rel = shipment[s].rel + 1
       /\ handoff'[n].scope = scope
  BY <1>4 DEF Entry
<1>11. correcting' = correcting
  BY DEF AcceptLate
<1>12. Revised(s, scope)
  <2> HIDE DEF entry, n, scope
  <2>1. QED
    BY <1>4, <1>5, <1>6, <1>7, <1>8, <1>10, <1>11 DEF Revised, n
<1>13. QED
  BY <1>9, <1>12

LEMMA CorrectionRevises ==
  ASSUME RegistryInv, NEW s \in Shipment, CommitCorrection(s)
  PROVE  Revised(s, correcting[s].containers) /\ RegistryTypeOK'
<1> DEFINE order == correcting[s]
           old == handoff[order.pred]
           scope == order.containers
           entry == Entry("correction", s, old.version + 1, old.proof,
                          order.rel + 1, scope)
           others == [handoff EXCEPT ![order.pred].status = "superseded"]
           n == Len(handoff) + 1
<1>1. /\ RegistryTypeOK /\ Room
      /\ order \in Correction /\ order.rel = shipment[s].rel
      /\ order.pred \in DOMAIN handoff /\ old.shipment = s
      /\ \A c \in scope : Linkable(s, c)
  BY DEF RegistryInv, RegistryTypeOK, CommitCorrection, CorrectionHolds,
         CorrectionsKnowTheirShipment, Requests
<1>2. /\ shipment[s].rel \in Nat /\ scope \in Scope /\ Active(s) \in Scope
      /\ handoff \in Seq(HandoffRow) /\ old \in HandoffRow
  BY <1>1 DEF RegistryTypeOK, ShipmentRow, Correction, Scope, Active
<1>3. entry \in HandoffRow
  <2>1. old.version + 1 \in Nat /\ old.proof \in DepartureProof
        /\ order.rel + 1 \in Nat
    BY <1>1, <1>2 DEF HandoffRow
  <2>2. "correction" \in Kind
    BY DEF Kind
  <2>3. QED
    BY <1>2, <2>1, <2>2, EntryType
<1>4. /\ others \in Seq(HandoffRow) /\ Len(others) = Len(handoff)
      /\ \A h \in DOMAIN handoff :
           others[h] = IF h = order.pred THEN [old EXCEPT !.status = "superseded"]
                       ELSE handoff[h]
  <2>1. [old EXCEPT !.status = "superseded"] \in HandoffRow
    BY <1>2 DEF HandoffRow
  <2>2. QED
    BY <1>1, <1>2, <2>1
<1>5. Announce(entry, others)
  BY DEF CommitCorrection
<1>6. /\ handoff' \in Seq(HandoffRow)
      /\ Len(handoff') = n /\ Len(handoff') <= MaxHandoffs
      /\ DOMAIN handoff' = DOMAIN handoff \cup {n} /\ n \notin DOMAIN handoff
      /\ \A h \in DOMAIN handoff : handoff'[h] = others[h]
      /\ handoff'[n] = entry
      /\ outbox' \in Seq(OutboxRow)
      /\ outbox' = Append(outbox, [handoff |-> n, state |-> "open", replay |-> FALSE])
  <2> HIDE DEF entry, others
  <2>1. QED
    BY <1>1, <1>3, <1>4, <1>5, AnnounceFacts
<1>7. /\ link' \in [Shipment -> [Container -> Link]]
      /\ \A t \in Shipment \ {s} : link'[t] = link[t]
      /\ \A c \in Container :
           link'[s][c] = IF c \in scope THEN "active"
                         ELSE IF c \in Active(s) THEN "superseded" ELSE link[s][c]
  <2>1. Relink(s, scope, Active(s))
    BY DEF CommitCorrection
  <2>2. QED
    BY <1>1, <1>2, <2>1, RelinkFacts
<1>8. /\ shipment' \in [Shipment -> ShipmentRow]
      /\ shipment'[s].rel = shipment[s].rel + 1
      /\ shipment'[s].lc = shipment[s].lc
      /\ \A t \in Shipment \ {s} : shipment'[t] = shipment[t]
  BY <1>1, NextVersionFacts DEF CommitCorrection
<1>9. /\ scope \subseteq Container
      /\ \A c \in Container : link'[s][c] = "active" <=> c \in scope
  BY <1>2, <1>7 DEF Active, Scope
<1>10. \A c \in scope, t \in Shipment \ {s} : link[t][c] # "active"
  BY <1>1 DEF Linkable
<1>11. /\ correcting' \in [Shipment -> Correction \cup {None}]
       /\ \A t \in Shipment : correcting'[t] # None => correcting'[t] = correcting[t]
  BY <1>1 DEF CommitCorrection, RegistryTypeOK
<1>12. RegistryTypeOK'
  <2> HIDE DEF entry, n, others
  <2>1. QED
    BY <1>1, <1>6, <1>7, <1>8, <1>11 DEF RegistryTypeOK, n
<1>13. /\ handoff'[n].kind # "completion" /\ handoff'[n].shipment = s
       /\ handoff'[n].status = "accepted" /\ handoff'[n].rel = shipment[s].rel + 1
       /\ handoff'[n].scope = scope
  BY <1>1, <1>6 DEF Entry
<1>14. \A h \in DOMAIN handoff :
         /\ handoff'[h].kind = handoff[h].kind
         /\ handoff'[h].shipment = handoff[h].shipment
         /\ handoff'[h].rel = handoff[h].rel
         /\ handoff'[h].scope = handoff[h].scope
         /\ handoff[h].shipment # s => handoff'[h].status = handoff[h].status
  <2> TAKE h \in DOMAIN handoff
  <2>1. CASE h = order.pred
    <3> DEFINE changed == [old EXCEPT !.status = "superseded"]
    <3>1. handoff'[h] = changed /\ handoff[h] = old
      BY <1>4, <1>6, <2>1
    <3>2. /\ changed.kind = old.kind /\ changed.shipment = old.shipment
          /\ changed.rel = old.rel /\ changed.scope = old.scope
      BY <1>2 DEF HandoffRow
    <3>3. QED
      BY <1>1, <3>1, <3>2
  <2>2. CASE h # order.pred
    BY <1>4, <1>6, <2>2
  <2>3. QED
    BY <2>1, <2>2
<1>15. Revised(s, scope)
  <2> HIDE DEF entry, n, others, scope
  <2>1. QED
    BY <1>6, <1>7, <1>8, <1>9, <1>10, <1>11, <1>13, <1>14 DEF Revised, n
<1>16. QED
  BY <1>12, <1>15

-----------------------------------------------------------------------------
(* The registry                                                            *)

\* Requests stay what they are, and a shipment that started stays so.
RequestsLast ==
  /\ \A h \in Requests :
       /\ h \in Requests'
       /\ handoff'[h].shipment = handoff[h].shipment
       /\ shipment[handoff[h].shipment].lc # 1
          => shipment'[handoff[h].shipment].lc # 1
  /\ Len(outbox') - Len(outbox) <= Len(handoff') - Len(handoff)

LEMMA RevisedKeepsRegistry ==
  ASSUME RegistryInv, RegistryTypeOK', NEW s \in Shipment, NEW scope,
         Revised(s, scope)
  PROVE  RegistryInv' /\ RequestsLast
<1> DEFINE n == Len(handoff) + 1
<1>1. /\ RegistryTypeOK
      /\ handoff \in Seq(HandoffRow) /\ outbox \in Seq(OutboxRow)
      /\ \A h \in DOMAIN handoff : handoff[h] \in HandoffRow
                                   /\ handoff[h].shipment \in Shipment
                                   /\ handoff[h].rel \in Nat
      /\ \A t \in Shipment : shipment[t].rel \in Nat /\ shipment'[t].rel \in Nat
  <2>1. RegistryTypeOK
    BY DEF RegistryInv
  <2>2. handoff \in Seq(HandoffRow) /\ outbox \in Seq(OutboxRow)
    BY <2>1 DEF RegistryTypeOK
  <2>3. \A h \in DOMAIN handoff : handoff[h] \in HandoffRow
                                   /\ handoff[h].shipment \in Shipment
                                   /\ handoff[h].rel \in Nat
    <3>1. \A h \in DOMAIN handoff : handoff[h] \in HandoffRow
      BY <2>2
    <3>2. \A row \in HandoffRow : row.shipment \in Shipment /\ row.rel \in Nat
      BY DEF HandoffRow
    <3>3. QED
      BY <3>1, <3>2
  <2>4. QED
    BY <2>1, <2>2, <2>3 DEF RegistryTypeOK, ShipmentRow
<1>2. /\ DOMAIN handoff' = DOMAIN handoff \cup {n} /\ n \notin DOMAIN handoff
      /\ Len(handoff') = n
      /\ handoff'[n].kind # "completion" /\ handoff'[n].shipment = s
      /\ handoff'[n].status = "accepted" /\ handoff'[n].rel = shipment[s].rel + 1
      /\ handoff'[n].scope = scope
      /\ \A h \in DOMAIN handoff :
           /\ handoff'[h].kind = handoff[h].kind
           /\ handoff'[h].shipment = handoff[h].shipment
           /\ handoff'[h].rel = handoff[h].rel
           /\ handoff'[h].scope = handoff[h].scope
           /\ handoff[h].shipment # s => handoff'[h].status = handoff[h].status
  BY DEF Revised
<1>3. /\ shipment'[s].rel = shipment[s].rel + 1
      /\ shipment[s].rel > 0 => shipment'[s].lc = shipment[s].lc
      /\ \A t \in Shipment \ {s} : shipment'[t] = shipment[t] /\ link'[t] = link[t]
      /\ scope \subseteq Container
      /\ \A c \in Container : link'[s][c] = "active" <=> c \in scope
      /\ \A c \in scope, t \in Shipment \ {s} : link[t][c] # "active"
      /\ \A t \in Shipment : correcting'[t] # None => correcting'[t] = correcting[t]
  BY DEF Revised
<1> HIDE DEF n
<1>4. Requests' = Requests \cup {n}
  BY <1>2 DEF Requests
<1>5. Requests \subseteq DOMAIN handoff
  BY DEF Requests
<1>6. CorrectionsKnowTheirShipment'
  <2> SUFFICES ASSUME NEW t \in Shipment, correcting'[t] # None
               PROVE  /\ correcting'[t].pred \in Requests'
                      /\ handoff'[correcting'[t].pred].shipment = t
    BY DEF CorrectionsKnowTheirShipment
  <2>1. correcting'[t] = correcting[t] /\ correcting[t] # None
    BY <1>3
  <2>2. /\ correcting[t].pred \in Requests
        /\ handoff[correcting[t].pred].shipment = t
    BY <2>1 DEF RegistryInv, CorrectionsKnowTheirShipment
  <2>3. QED
    BY <1>2, <1>4, <1>5, <2>1, <2>2
<1>7. /\ Active(s)' = scope
      /\ \A t \in Shipment \ {s} : Active(t)' = Active(t)
  BY <1>3 DEF Active
<1>8. OneShipmentEach'
  <2>1. \A t \in Shipment : ~Exists(t)' => Active(t)' = {}
    <3> TAKE t \in Shipment
    <3>1. CASE t = s
      BY <1>1, <1>3, <3>1 DEF Exists
    <3>2. CASE t # s
      BY <1>3, <1>7, <3>2 DEF RegistryInv, OneShipmentEach, Exists
    <3>3. QED
      BY <3>1, <3>2
  <2>2. ASSUME NEW t \in Shipment, NEW u \in Shipment \ {t}
        PROVE  Active(t)' \cap Active(u)' = {}
    <3>1. Active(t) \cap Active(u) = {}
      BY DEF RegistryInv, OneShipmentEach
    <3>2. \A v \in Shipment \ {s} : scope \cap Active(v) = {}
      BY <1>3 DEF Active
    <3>3. QED
      BY <1>7, <3>1, <3>2
  <2>3. QED
    BY <2>1, <2>2 DEF OneShipmentEach
<1>9. \A h \in Requests : handoff[h].rel > 0
                          /\ handoff[h].rel <= shipment[handoff[h].shipment].rel
  BY DEF RegistryInv, VersionsIdentify
<1>10. \A h \in Requests : handoff[h].shipment = s => handoff[h].rel <= shipment[s].rel
  BY <1>9
<1>11. VersionsIdentify'
  <2>1. ASSUME NEW g \in Requests'
        PROVE  handoff'[g].rel > 0
               /\ handoff'[g].rel <= shipment'[handoff'[g].shipment].rel
    <3>1. CASE g = n
      BY <1>1, <1>2, <1>3, <3>1
    <3>2. CASE g # n
      BY <1>1, <1>2, <1>3, <1>4, <1>5, <1>9, <3>2
    <3>3. QED
      BY <3>1, <3>2
  <2>2. ASSUME NEW g \in Requests', NEW h \in Requests',
               handoff'[g].shipment = handoff'[h].shipment,
               handoff'[g].rel = handoff'[h].rel
        PROVE  g = h
    <3>1. CASE g \in Requests /\ h \in Requests
      BY <1>2, <1>5, <2>2, <3>1 DEF RegistryInv, VersionsIdentify
    <3>2. CASE g = n /\ h \in Requests
      BY <1>1, <1>2, <1>5, <1>10, <2>2, <3>2
    <3>3. CASE h = n /\ g \in Requests
      BY <1>1, <1>2, <1>5, <1>10, <2>2, <3>3
    <3>4. QED
      BY <1>4, <3>1, <3>2, <3>3
  <2>3. QED
    BY <2>1, <2>2 DEF VersionsIdentify
<1>12. RowsCarryRequests'
  <2>1. outbox' = Append(outbox, [handoff |-> n, state |-> "open", replay |-> FALSE])
    BY DEF Revised, n
  <2>2. \A r \in DOMAIN outbox' :
          \/ outbox'[r].handoff = n
          \/ r \in DOMAIN outbox /\ outbox'[r] = outbox[r]
    <3> DEFINE row == [handoff |-> n, state |-> "open", replay |-> FALSE]
    <3>1. n \in HandoffId
      BY <1>1, <1>2, SMT DEF n, HandoffId, RegistryTypeOK
    <3>2. row \in OutboxRow /\ row.handoff = n
      BY <3>1 DEF OutboxRow
    <3> HIDE DEF row
    <3>3. QED
      BY <1>1, <2>1, <3>2, AppendFacts DEF row
  <2>3. QED
    BY <1>4, <2>2 DEF RegistryInv, RowsCarryRequests
<1>13. RequestNamesActive'
  <2> SUFFICES ASSUME NEW t \in Shipment, Exists(t)'
               PROVE  \E h \in Requests' \cap Accepted(t)' :
                        /\ handoff'[h].rel = shipment'[t].rel
                        /\ handoff'[h].scope = Active(t)'
    BY DEF RequestNamesActive
  <2>1. CASE t = s
    BY <1>2, <1>3, <1>4, <1>7, <2>1 DEF Accepted
  <2>2. CASE t # s
    <3>1. PICK h \in Requests \cap Accepted(t) :
            handoff[h].rel = shipment[t].rel /\ handoff[h].scope = Active(t)
      BY <1>3, <2>2 DEF RegistryInv, RequestNamesActive, Exists
    <3>2. h \in Requests' /\ h \in Accepted(t)'
      BY <1>2, <1>4, <1>5, <2>2, <3>1 DEF Accepted
    <3>3. QED
      BY <1>2, <1>3, <1>5, <1>7, <2>2, <3>1, <3>2
  <2>3. QED
    BY <2>1, <2>2
<1>14. RequestsLast
  <2>1. \A h \in Requests :
          /\ h \in Requests'
          /\ handoff'[h].shipment = handoff[h].shipment
          /\ shipment[handoff[h].shipment].lc # 1
             => shipment'[handoff[h].shipment].lc # 1
    <3> TAKE h \in Requests
    <3>1. handoff[h].shipment \in Shipment /\ h \in DOMAIN handoff
      BY <1>1, <1>5
    <3>2. CASE handoff[h].shipment = s
      <4>1. shipment[s].rel > 0
        BY <1>1, <1>9, <3>1, <3>2
      <4>2. QED
        BY <1>2, <1>3, <1>4, <3>1, <3>2, <4>1
    <3>3. CASE handoff[h].shipment # s
      BY <1>2, <1>3, <1>4, <3>1, <3>3
    <3>4. QED
      BY <3>2, <3>3
  <2>2. Len(outbox') = Len(outbox) + 1 /\ Len(outbox) \in Nat /\ Len(handoff) \in Nat
    BY <1>1 DEF Revised
  <2>3. QED
    BY <1>2, <2>1, <2>2 DEF RequestsLast, n
<1>15. QED
  BY <1>6, <1>8, <1>11, <1>12, <1>13, <1>14 DEF RegistryInv

LEMMA CompletionKeepsRegistry ==
  ASSUME RegistryInv, NEW s \in Shipment, NEW atd \in BOOLEAN,
         CompletePending(s, atd)
  PROVE  RegistryInv' /\ RequestsLast
<1> DEFINE n == Len(handoff) + 1
           entry == Entry("completion", s, 1, "missing", shipment[s].rel, {})
<1>1. /\ RegistryTypeOK
      /\ handoff \in Seq(HandoffRow) /\ Len(handoff) < MaxHandoffs
      /\ shipment \in [Shipment -> ShipmentRow] /\ shipment[s].rel \in Nat
  BY DEF RegistryInv, RegistryTypeOK, CompletePending, Room, ShipmentRow
<1>2. entry \in HandoffRow
  <2>1. "completion" \in Kind /\ "missing" \in DepartureProof /\ {} \in Scope
    BY DEF Kind, DepartureProof, Scope
  <2>2. QED
    BY <1>1, <2>1, EntryType
<1>3. /\ handoff' \in Seq(HandoffRow)
      /\ Len(handoff') = n
      /\ DOMAIN handoff' = DOMAIN handoff \cup {n} /\ n \notin DOMAIN handoff
      /\ \A h \in DOMAIN handoff : handoff'[h] = handoff[h]
      /\ handoff'[n] = entry
  <2> HIDE DEF entry
  <2>1. handoff' = Append(handoff, entry)
    BY DEF CompletePending, entry
  <2>2. QED
    BY <1>1, <1>2, <2>1, AppendFacts
<1>4. /\ shipment' \in [Shipment -> ShipmentRow]
      /\ \A t \in Shipment : /\ shipment'[t].rel = shipment[t].rel
                             /\ shipment'[t].lc = shipment[t].lc
  <2> DEFINE row == [shipment[s] EXCEPT !.atd = @ \/ atd]
  <2>1. shipment[s] \in ShipmentRow
    BY <1>1
  <2>2. row \in ShipmentRow /\ row.rel = shipment[s].rel /\ row.lc = shipment[s].lc
    BY <2>1 DEF ShipmentRow
  <2>3. shipment' = [shipment EXCEPT ![s] = row]
    BY DEF CompletePending
  <2> HIDE DEF row
  <2>4. QED
    BY <1>1, <2>2, <2>3
<1>5. UNCHANGED <<link, correcting, outbox>>
  BY DEF CompletePending
<1>6. RegistryTypeOK'
  <2> HIDE DEF entry
  <2>1. QED
    BY <1>1, <1>3, <1>4, <1>5 DEF RegistryTypeOK
<1>7. Requests' = Requests /\ Requests \subseteq DOMAIN handoff
  BY <1>3 DEF Requests, Entry
<1>8. \A t \in Shipment : Exists(t)' = Exists(t) /\ Active(t)' = Active(t)
  BY <1>4, <1>5 DEF Exists, Active
<1>9. CorrectionsKnowTheirShipment' /\ RowsCarryRequests' /\ OneShipmentEach'
  BY <1>3, <1>5, <1>7, <1>8
  DEF RegistryInv, CorrectionsKnowTheirShipment, RowsCarryRequests, OneShipmentEach
<1>10. \A h \in Requests : handoff[h].shipment \in Shipment
  <2>1. \A h \in DOMAIN handoff : handoff[h] \in HandoffRow
    BY <1>1
  <2>2. \A row \in HandoffRow : row.shipment \in Shipment
    BY DEF HandoffRow
  <2>3. QED
    BY <1>7, <2>1, <2>2
<1>11. VersionsIdentify'
  <2>1. \A g \in Requests : handoff'[g] = handoff[g]
    BY <1>3, <1>7
  <2>2. QED
    BY <1>4, <1>7, <1>10, <2>1 DEF RegistryInv, VersionsIdentify
<1>12. RequestNamesActive'
  <2> SUFFICES ASSUME NEW t \in Shipment, Exists(t)'
               PROVE  \E h \in Requests' \cap Accepted(t)' :
                        /\ handoff'[h].rel = shipment'[t].rel
                        /\ handoff'[h].scope = Active(t)'
    BY DEF RequestNamesActive
  <2>1. PICK h \in Requests \cap Accepted(t) :
          handoff[h].rel = shipment[t].rel /\ handoff[h].scope = Active(t)
    BY <1>8 DEF RegistryInv, RequestNamesActive
  <2>2. h \in Requests' /\ h \in Accepted(t)' /\ handoff'[h] = handoff[h]
    BY <1>3, <1>7, <2>1 DEF Accepted
  <2>3. QED
    BY <1>4, <1>8, <2>1, <2>2
<1>13. RequestsLast
  BY <1>1, <1>3, <1>4, <1>5, <1>7, <1>10 DEF RequestsLast, RegistryTypeOK
<1>14. QED
  BY <1>6, <1>9, <1>11, <1>12, <1>13 DEF RegistryInv

\* While only the corrections in progress change, so does nothing else.
LEMMA CorrectingKeepsRegistry ==
  ASSUME RegistryInv, UNCHANGED <<shipment, link, handoff, outbox>>,
         correcting' \in [Shipment -> Correction \cup {None}],
         CorrectionsKnowTheirShipment'
  PROVE  RegistryInv' /\ RequestsLast
<1>1. RegistryTypeOK'
  BY DEF RegistryInv, RegistryTypeOK
<1>2. OneShipmentEach' /\ VersionsIdentify' /\ RowsCarryRequests'
      /\ RequestNamesActive'
  BY DEF RegistryInv, OneShipmentEach, VersionsIdentify, RowsCarryRequests,
         RequestNamesActive, Exists, Active, Requests, Accepted
<1>3. RequestsLast
  BY DEF RegistryInv, RegistryTypeOK, RequestsLast, Requests
<1>4. QED
  BY <1>1, <1>2, <1>3 DEF RegistryInv

LEMMA RegisterKeepsRegistry ==
  ASSUME RegistryInv, RegistryNext PROVE RegistryInv' /\ RequestsLast
<1>1. ASSUME NEW s \in Shipment, NEW containers \in Scope, NEW proof \in Proof,
             AcceptNew(s, containers, proof)
      PROVE  RegistryInv' /\ RequestsLast
  BY <1>1, NewRevises, RevisedKeepsRegistry
<1>2. ASSUME NEW s \in Shipment, NEW containers \in Scope, NEW proof \in Proof,
             AcceptLate(s, containers, proof)
      PROVE  RegistryInv' /\ RequestsLast
  BY <1>2, LateRevises, RevisedKeepsRegistry
<1>3. ASSUME NEW h \in DOMAIN handoff, NEW containers \in Scope,
             BeginCorrection(h, containers)
      PROVE  RegistryInv' /\ RequestsLast
  <2> DEFINE s == handoff[h].shipment
             order == [pred |-> h, rel |-> shipment[s].rel,
                       containers |-> containers]
  <2>1. /\ h \in Requests
        /\ correcting' = [correcting EXCEPT ![s] = order]
        /\ UNCHANGED <<shipment, link, handoff, outbox>>
    BY <1>3 DEF BeginCorrection
  <2>2. /\ correcting \in [Shipment -> Correction \cup {None}]
        /\ handoff \in Seq(HandoffRow) /\ Len(handoff) <= MaxHandoffs
        /\ shipment \in [Shipment -> ShipmentRow]
    BY DEF RegistryInv, RegistryTypeOK
  <2>3. s \in Shipment
    <3>1. handoff[h] \in HandoffRow
      BY <2>2
    <3>2. QED
      BY <3>1 DEF HandoffRow
  <2>4. order \in Correction
    <3>1. h \in HandoffId
      BY <2>2 DEF HandoffId
    <3>2. shipment[s].rel \in Nat
      BY <2>2, <2>3 DEF ShipmentRow
    <3>3. QED
      BY <3>1, <3>2 DEF Correction
  <2>5. correcting' \in [Shipment -> Correction \cup {None}]
    BY <2>1, <2>2, <2>4
  <2>6. CorrectionsKnowTheirShipment'
    <3> SUFFICES ASSUME NEW t \in Shipment, correcting'[t] # None
                 PROVE  /\ correcting'[t].pred \in Requests
                        /\ handoff[correcting'[t].pred].shipment = t
      BY <2>1 DEF CorrectionsKnowTheirShipment, Requests
    <3>1. CASE t = s
      BY <2>1, <2>2, <2>3, <3>1
    <3>2. CASE t # s
      BY <2>1, <2>2, <3>2 DEF RegistryInv, CorrectionsKnowTheirShipment
    <3>3. QED
      BY <3>1, <3>2
  <2>7. QED
    BY <2>1, <2>5, <2>6, CorrectingKeepsRegistry
<1>4. ASSUME NEW s \in Shipment, CommitCorrection(s)
      PROVE  RegistryInv' /\ RequestsLast
  BY <1>4, CorrectionRevises, RevisedKeepsRegistry
<1>5. ASSUME NEW s \in Shipment, LoseCorrection(s)
      PROVE  RegistryInv' /\ RequestsLast
  <2>1. /\ correcting' = [correcting EXCEPT ![s] = None]
        /\ UNCHANGED <<shipment, link, handoff, outbox>>
        /\ correcting \in [Shipment -> Correction \cup {None}]
    BY <1>5 DEF LoseCorrection, RegistryInv, RegistryTypeOK
  <2>2. correcting' \in [Shipment -> Correction \cup {None}]
    BY <2>1
  <2>3. CorrectionsKnowTheirShipment'
    BY <2>1 DEF RegistryInv, CorrectionsKnowTheirShipment, Requests
  <2>4. QED
    BY <2>1, <2>2, <2>3, CorrectingKeepsRegistry
<1>6. ASSUME NEW s \in Shipment, NEW atd \in BOOLEAN, CompletePending(s, atd)
      PROVE  RegistryInv' /\ RequestsLast
  BY <1>6, CompletionKeepsRegistry
<1>7. QED
  BY <1>1, <1>2, <1>3, <1>4, <1>5, <1>6 DEF RegistryNext

-----------------------------------------------------------------------------
(* The inbox                                                               *)

\* A step of the inbox on its own: rows keep what they carry, and a message
\* that is processed then carries a request in A.
QueueKept(A) == Queue!InboxTypeOK' /\ Sound(inbox', A)

\* One row is overwritten.
LEMMA RowChange ==
  ASSUME QueueInv, NEW i \in DOMAIN inbox, NEW row \in Queue!Row, NEW A,
         applied \subseteq A,
         row.payload = inbox[i].payload,
         row.state = "processed" => row.payload \in A,
         inbox' = [inbox EXCEPT ![i] = row]
  PROVE  /\ inbox' \in Seq(Queue!Row) /\ DOMAIN inbox' = DOMAIN inbox
         /\ Sound(inbox', A)
<1>1. inbox \in Seq(Queue!Row)
  BY DEF QueueInv, Queue!InboxTypeOK
<1>2. inbox' \in Seq(Queue!Row) /\ DOMAIN inbox' = DOMAIN inbox
  BY <1>1
<1>3. \A j \in DOMAIN inbox : inbox'[j] = IF j = i THEN row ELSE inbox[j]
  BY <1>1
<1>4. Sound(inbox', A)
  BY <1>2, <1>3 DEF Sound, QueueInv
<1>5. QED
  BY <1>2, <1>4

\* One row is added.
LEMMA RowAdded ==
  ASSUME QueueInv, NEW event \in RowId \cup {None},
         NEW payload \in Requests \cap HandoffId,
         inbox' = Append(inbox, Queue!Fresh(event, payload))
  PROVE  /\ inbox' \in Seq(Queue!Row) /\ DOMAIN inbox \subseteq DOMAIN inbox'
         /\ Sound(inbox', applied)
<1> DEFINE row == Queue!Fresh(event, payload)
<1>1. inbox \in Seq(Queue!Row)
  BY DEF QueueInv, Queue!InboxTypeOK
<1>2. row \in Queue!Row /\ row.payload = payload /\ row.state = "received"
  BY DEF Queue!Fresh, Queue!Row, Queue!Cause
<1> HIDE DEF row
<1>3. inbox' = Append(inbox, row)
  BY DEF row
<1>4. /\ inbox' \in Seq(Queue!Row)
      /\ DOMAIN inbox' = DOMAIN inbox \cup {Len(inbox) + 1}
      /\ \A j \in DOMAIN inbox : inbox'[j] = inbox[j]
      /\ inbox'[Len(inbox) + 1] = row
  BY <1>1, <1>2, <1>3, AppendFacts
<1>5. Sound(inbox', applied)
  BY <1>2, <1>4 DEF Sound, QueueInv
<1>6. QED
  BY <1>4, <1>5

\* One worker turns to something, or to nothing.
LEMMA TaskChange ==
  ASSUME QueueInv, NEW w \in Worker, NEW t \in Queue!Task \cup {None},
         t # None => t.message \in DOMAIN inbox,
         task' = [task EXCEPT ![w] = t], DOMAIN inbox' = DOMAIN inbox,
         inbox' \in Seq(Queue!Row)
  PROVE  Queue!InboxTypeOK'
  BY DEF QueueInv, Queue!InboxTypeOK, Queue!Idle

LEMMA ReceiveKeeps ==
  ASSUME QueueInv, NEW event \in RowId, NEW payload \in Requests \cap HandoffId,
         Queue!Receive(event, payload)
  PROVE  QueueKept(applied)
<1>1. CASE Queue!Known(event)
  BY <1>1 DEF Queue!Receive, QueueInv, QueueKept, Queue!InboxTypeOK, Sound,
              Queue!Idle
<1>2. CASE ~Queue!Known(event)
  <2>1. inbox' = Append(inbox, Queue!Fresh(event, payload)) /\ task' = task
    BY <1>2 DEF Queue!Receive
  <2>2. /\ inbox' \in Seq(Queue!Row) /\ DOMAIN inbox \subseteq DOMAIN inbox'
        /\ Sound(inbox', applied)
    BY <2>1, RowAdded
  <2>3. QED
    BY <2>1, <2>2 DEF QueueInv, QueueKept, Queue!InboxTypeOK, Queue!Idle
<1>3. QED
  BY <1>1, <1>2

LEMMA ReviveKeeps ==
  ASSUME QueueInv, NEW i \in DOMAIN inbox, NEW source \in DOMAIN inbox,
         Queue!Revive(i, source)
  PROVE  QueueKept(applied)
<1>1. inbox[source].payload \in Requests \cap HandoffId
  <2>1. inbox[source] \in Queue!Row
    BY DEF QueueInv, Queue!InboxTypeOK
  <2>2. QED
    BY <2>1 DEF QueueInv, Sound, Queue!Row
<1>2. /\ inbox' = Append(inbox, Queue!Fresh(None, inbox[source].payload))
      /\ task' = task
  BY DEF Queue!Revive
<1>3. /\ inbox' \in Seq(Queue!Row) /\ DOMAIN inbox \subseteq DOMAIN inbox'
      /\ Sound(inbox', applied)
  BY <1>1, <1>2, RowAdded
<1>4. QED
  BY <1>2, <1>3 DEF QueueInv, QueueKept, Queue!InboxTypeOK, Queue!Idle

LEMMA ClaimKeeps ==
  ASSUME QueueInv, NEW w \in Worker, NEW i \in DOMAIN inbox, Queue!Claim(w, i)
  PROVE  QueueKept(applied)
<1> DEFINE row == [inbox[i] EXCEPT !.state = "processing", !.leased = TRUE]
           t == [message |-> i, step |-> "claimed", cause |-> "none"]
<1>1. inbox \in Seq(Queue!Row) /\ inbox[i] \in Queue!Row
  BY DEF QueueInv, Queue!InboxTypeOK
<1>2. /\ row \in Queue!Row /\ row.payload = inbox[i].payload
      /\ row.state # "processed"
  BY <1>1 DEF Queue!Row
<1>3. t \in Queue!Task /\ t.message = i
  BY <1>1 DEF Queue!Task, Queue!Cause
<1>4. inbox' = [inbox EXCEPT ![i] = row] /\ task' = [task EXCEPT ![w] = t]
  BY DEF Queue!Claim
<1> HIDE DEF row, t
<1>5. /\ inbox' \in Seq(Queue!Row) /\ DOMAIN inbox' = DOMAIN inbox
      /\ Sound(inbox', applied)
  BY <1>2, <1>4, RowChange
<1>6. Queue!InboxTypeOK'
  BY <1>3, <1>4, <1>5, TaskChange
<1>7. QED
  BY <1>5, <1>6 DEF QueueKept

\* What a worker that is busy has in hand
LEMMA InHand ==
  ASSUME QueueInv, NEW w \in Worker, ~Queue!Idle(w)
  PROVE  /\ task[w] \in Queue!Task
         /\ task[w].message \in DOMAIN inbox
         /\ Queue!Message(w) = inbox[task[w].message]
         /\ Queue!Message(w) \in Queue!Row
         /\ Queue!Message(w).payload \in Requests
  BY DEF QueueInv, Queue!InboxTypeOK, Queue!Idle, Queue!Message, Sound

\* A worker turns to another step; the rows stay as they are.
LEMMA TurnKeeps ==
  ASSUME QueueInv, NEW w \in Worker, NEW t \in Queue!Task \cup {None},
         t # None => t.message \in DOMAIN inbox,
         task' = [task EXCEPT ![w] = t], inbox' = inbox
  PROVE  QueueKept(applied)
<1>1. inbox \in Seq(Queue!Row) /\ Sound(inbox, applied)
  BY DEF QueueInv, Queue!InboxTypeOK
<1>2. Queue!InboxTypeOK'
  BY <1>1, TaskChange
<1>3. QED
  BY <1>1, <1>2 DEF QueueKept

LEMMA ReadsPassKeeps ==
  ASSUME QueueInv, NEW w \in Worker, ~Queue!Idle(w), Queue!ReadsPass(w)
  PROVE  QueueKept(applied)
<1> DEFINE t == [task[w] EXCEPT !.step = "writing"]
<1>1. t \in Queue!Task /\ t.message = task[w].message
  BY InHand DEF Queue!Task
<1>2. task' = [task EXCEPT ![w] = t] /\ inbox' = inbox
  BY DEF Queue!ReadsPass
<1> HIDE DEF t
<1>3. QED
  BY <1>1, <1>2, InHand, TurnKeeps

LEMMA FailKeeps ==
  ASSUME QueueInv, NEW w \in Worker, ~Queue!Idle(w), NEW cause \in Queue!Cause,
         Queue!Fail(w, cause)
  PROVE  QueueKept(applied)
<1> DEFINE t == [task[w] EXCEPT !.step = "failed", !.cause = cause]
<1>1. t \in Queue!Task /\ t.message = task[w].message
  BY InHand DEF Queue!Task
<1>2. task' = [task EXCEPT ![w] = t] /\ inbox' = inbox
  BY DEF Queue!Fail, Queue!Failed
<1> HIDE DEF t
<1>3. QED
  BY <1>1, <1>2, InHand, TurnKeeps

LEMMA CrashKeeps ==
  ASSUME QueueInv, NEW w \in Worker, Queue!Crash(w)
  PROVE  QueueKept(applied)
<1>1. task' = [task EXCEPT ![w] = None] /\ inbox' = inbox
  BY DEF Queue!Crash
<1>2. QED
  BY <1>1, TurnKeeps

LEMMA CompleteKeeps ==
  ASSUME QueueInv, NEW w \in Worker, ~Queue!Idle(w), NEW A, applied \subseteq A,
         Queue!Message(w).payload \in A, Queue!Complete(w)
  PROVE  QueueKept(A)
<1> DEFINE i == task[w].message
           row == [inbox[i] EXCEPT !.state = "processed", !.leased = FALSE]
<1>1. /\ i \in DOMAIN inbox /\ inbox[i] \in Queue!Row
      /\ inbox[i].payload \in A
  BY InHand
<1>2. row \in Queue!Row /\ row.payload = inbox[i].payload
  BY <1>1 DEF Queue!Row
<1>3. inbox' = [inbox EXCEPT ![i] = row] /\ task' = [task EXCEPT ![w] = None]
  BY <1>1 DEF Queue!Complete
<1> HIDE DEF row, i
<1>4. /\ inbox' \in Seq(Queue!Row) /\ DOMAIN inbox' = DOMAIN inbox
      /\ Sound(inbox', A)
  BY <1>1, <1>2, <1>3, RowChange
<1>5. Queue!InboxTypeOK'
  BY <1>3, <1>4, TaskChange
<1>6. QED
  BY <1>4, <1>5 DEF QueueKept

LEMMA RecordFailureKeeps ==
  ASSUME QueueInv, NEW w \in Worker, Queue!RecordFailure(w)
  PROVE  QueueKept(applied)
<1>1. ~Queue!Idle(w)
  BY DEF Queue!RecordFailure
<1>2. CASE Queue!HasLease(w)
  <2> DEFINE i == task[w].message
  <2>1. PICK state \in Queue!Decisions(task[w].cause) :
          inbox' = [inbox EXCEPT ![task[w].message] =
            [@ EXCEPT !.state = state, !.leased = FALSE, !.cause = task[w].cause]]
    BY <1>2 DEF Queue!RecordFailure
  <2> DEFINE row == [inbox[i] EXCEPT !.state = state, !.leased = FALSE,
                                     !.cause = task[w].cause]
  <2>2. state \in {"retry_wait", "dead_letter"}
    BY DEF Queue!Decisions
  <2>3. i \in DOMAIN inbox /\ inbox[i] \in Queue!Row /\ task[w].cause \in Queue!Cause
    BY <1>1, InHand DEF Queue!Task
  <2>4. /\ row \in Queue!Row /\ row.payload = inbox[i].payload
        /\ row.state # "processed"
    BY <2>2, <2>3 DEF Queue!Row
  <2>5. inbox' = [inbox EXCEPT ![i] = row] /\ task' = [task EXCEPT ![w] = None]
    BY <2>1 DEF Queue!RecordFailure
  <2> HIDE DEF row, i
  <2>6. /\ inbox' \in Seq(Queue!Row) /\ DOMAIN inbox' = DOMAIN inbox
        /\ Sound(inbox', applied)
    BY <2>3, <2>4, <2>5, RowChange
  <2>7. QED
    BY <2>5, <2>6, TaskChange DEF QueueKept
<1>3. CASE ~Queue!HasLease(w)
  <2>1. task' = [task EXCEPT ![w] = None] /\ inbox' = inbox
    BY <1>3 DEF Queue!RecordFailure
  <2>2. QED
    BY <2>1, TurnKeeps
<1>4. QED
  BY <1>2, <1>3

LEMMA LapseKeeps ==
  ASSUME QueueInv, NEW i \in DOMAIN inbox, Queue!Lapse(i)
  PROVE  QueueKept(applied)
<1> DEFINE row == [inbox[i] EXCEPT !.leased = FALSE]
<1>1. inbox[i] \in Queue!Row
  BY DEF QueueInv, Queue!InboxTypeOK
<1>2. row \in Queue!Row /\ row.payload = inbox[i].payload /\ row.state = inbox[i].state
  BY <1>1 DEF Queue!Row
<1>3. inbox' = [inbox EXCEPT ![i] = row] /\ task' = task /\ row.state = "processing"
  BY <1>2 DEF Queue!Lapse
<1> HIDE DEF row
<1>4. /\ inbox' \in Seq(Queue!Row) /\ DOMAIN inbox' = DOMAIN inbox
      /\ Sound(inbox', applied)
  BY <1>2, <1>3, RowChange
<1>5. QED
  BY <1>3, <1>4 DEF QueueKept, QueueInv, Queue!InboxTypeOK, Queue!Idle

-----------------------------------------------------------------------------
(* Every step keeps the invariant                                          *)

LEMMA InitInv == Init => Inv
<1> SUFFICES ASSUME Init PROVE Inv
  OBVIOUS
<1>1. /\ handoff = <<>> /\ outbox = <<>> /\ inbox = <<>>
      /\ \A s \in Shipment : /\ ~Exists(s)
                             /\ Active(s) = {}
                             /\ correcting[s] = None
  BY DEF Init, RegistryInit, Queue!InboxInit, Exists, Active
<1>2. Requests = {} /\ DOMAIN outbox = {} /\ DOMAIN inbox = {}
  BY <1>1 DEF Requests
<1>3. RegistryTypeOK
  <2>1. /\ shipment \in [Shipment -> ShipmentRow]
        /\ link \in [Shipment -> [Container -> Link]]
    BY DEF Init, RegistryInit, ShipmentRow, Link
  <2>2. /\ handoff \in Seq(HandoffRow) /\ Len(handoff) <= MaxHandoffs
        /\ outbox \in Seq(OutboxRow)
    BY <1>1
  <2>3. QED
    BY <2>1, <2>2 DEF Init, RegistryInit, RegistryTypeOK
<1>4. RegistryInv
  BY <1>1, <1>2, <1>3 DEF RegistryInv, CorrectionsKnowTheirShipment,
     OneShipmentEach, VersionsIdentify, RowsCarryRequests, RequestNamesActive
<1>5. QueueInv
  <2>1. inbox \in Seq(Queue!Row)
    BY <1>1
  <2>2. QED
    BY <1>2, <2>1 DEF Init, Queue!InboxInit, QueueInv, Queue!InboxTypeOK, Queue!Idle,
                      Sound
<1>6. LifecycleInv
  <2>1. NoFlow \notin HandoffId
    BY DEF HandoffId
  <2>2. QED
    BY <2>1 DEF Init, LifecycleInv, FlowsAreAccountedFor
<1>7. CountInv
  BY <1>1 DEF Init, CountInv, RowsAreCounted
<1>8. QED
  BY <1>4, <1>5, <1>6, <1>7 DEF Inv

LEMMA Counts ==
  ASSUME Inv
  PROVE  /\ Len(outbox) \in Nat /\ Len(handoff) \in Nat /\ mishaps \in Nat
         /\ Len(outbox) <= Len(handoff) + mishaps
         /\ Len(handoff) <= MaxHandoffs /\ mishaps <= MaxMishaps
         /\ DOMAIN outbox \subseteq RowId
<1>1. /\ outbox \in Seq(OutboxRow) /\ handoff \in Seq(HandoffRow)
      /\ Len(handoff) <= MaxHandoffs
      /\ mishaps \in 0..MaxMishaps /\ Len(outbox) <= Len(handoff) + mishaps
  BY DEF Inv, RegistryInv, RegistryTypeOK, CountInv, RowsAreCounted
<1>2. DOMAIN outbox = 1..Len(outbox) /\ Len(outbox) \in Nat /\ Len(handoff) \in Nat
  BY <1>1
<1>3. QED
  BY <1>1, <1>2 DEF RowId

\* The registry and the lifecycle stay, and the inbox makes a step.
LEMMA QuietKeeps ==
  ASSUME Inv, OnlyQueue, QueueKept(applied), Mishap \/ mishaps' = mishaps
  PROVE  Inv'
<1>1. RegistryInv'
  BY DEF Inv, OnlyQueue, registry, RegistryInv, RegistryTypeOK,
     CorrectionsKnowTheirShipment, OneShipmentEach, VersionsIdentify,
     RowsCarryRequests, RequestNamesActive, Exists, Active, Requests, Accepted
<1>2. QueueInv'
  BY DEF OnlyQueue, registry, lifecycle, QueueKept, QueueInv, Sound, Requests
<1>3. LifecycleInv'
  BY DEF Inv, OnlyQueue, registry, lifecycle, LifecycleInv, FlowsAreAccountedFor,
     Requests
<1>4. CountInv'
  BY Counts DEF OnlyQueue, registry, Mishap, CountInv, RowsAreCounted
<1>5. QED
  BY <1>1, <1>2, <1>3, <1>4 DEF Inv

\* What depends on the handoffs only through the requests there are
LEMMA RequestsLastKeeps ==
  ASSUME Inv, RequestsLast, UNCHANGED <<queue, lifecycle>>
  PROVE  QueueInv' /\ LifecycleInv'
<1>1. QueueInv'
  BY DEF Inv, RequestsLast, queue, lifecycle, QueueInv, Queue!InboxTypeOK, Sound,
     Queue!Idle
<1>2. LifecycleInv'
  BY DEF Inv, RequestsLast, lifecycle, LifecycleInv, FlowsAreAccountedFor
<1>3. QED
  BY <1>1, <1>2

LEMMA RegisterKeeps ==
  ASSUME Inv, Register PROVE Inv'
<1>1. RegistryInv' /\ RequestsLast
  BY RegisterKeepsRegistry DEF Inv, Register
<1>2. QueueInv' /\ LifecycleInv'
  BY <1>1, RequestsLastKeeps DEF Register
<1>3. Len(outbox') \in Nat /\ Len(handoff') \in Nat
  BY <1>1 DEF RegistryInv, RegistryTypeOK
<1>4. CountInv'
  BY <1>1, <1>3, Counts DEF Inv, Register, RequestsLast, CountInv, RowsAreCounted
<1>5. QED
  BY <1>1, <1>2, <1>4 DEF Inv

LEMMA PlanFlowKeeps ==
  ASSUME Inv, NEW c \in Container, PlanFlow(c) PROVE Inv'
<1>1. RegistryInv'
  BY DEF Inv, PlanFlow, registry, RegistryInv, RegistryTypeOK,
     CorrectionsKnowTheirShipment, OneShipmentEach, VersionsIdentify,
     RowsCarryRequests, RequestNamesActive, Exists, Active, Requests, Accepted
<1>2. QueueInv'
  BY DEF Inv, PlanFlow, registry, QueueInv, Queue!InboxTypeOK, Sound, Requests,
     Queue!Idle
<1>3. Planned \notin HandoffId
  BY DEF HandoffId
<1>4. LifecycleInv'
  BY <1>3 DEF Inv, PlanFlow, registry, LifecycleInv, FlowsAreAccountedFor, Requests
<1>5. CountInv'
  BY Counts DEF PlanFlow, registry, Mishap, CountInv, RowsAreCounted
<1>6. QED
  BY <1>1, <1>2, <1>4, <1>5 DEF Inv

\* The outbox changes; what its rows carry is still requests.
LEMMA OutboxKeeps ==
  ASSUME Inv, UNCHANGED registry, outbox' \in Seq(OutboxRow), RowsCarryRequests'
  PROVE  RegistryInv'
  BY DEF Inv, registry, RegistryInv, RegistryTypeOK,
     CorrectionsKnowTheirShipment, OneShipmentEach, VersionsIdentify,
     RequestNamesActive, Exists, Active, Requests, Accepted

LEMMA MarkFacts ==
  ASSUME Inv, NEW r \in DOMAIN outbox, NEW state \in {"published", "dead"},
         Mark(r, state), UNCHANGED registry
  PROVE  RegistryInv' /\ Len(outbox') = Len(outbox)
<1> DEFINE row == [outbox[r] EXCEPT !.state = state]
<1>1. outbox \in Seq(OutboxRow) /\ outbox[r] \in OutboxRow
  BY DEF Inv, RegistryInv, RegistryTypeOK
<1>2. row \in OutboxRow /\ row.handoff = outbox[r].handoff
  BY <1>1 DEF OutboxRow
<1>3. outbox' = [outbox EXCEPT ![r] = row]
  BY DEF Mark
<1> HIDE DEF row
<1>4. /\ outbox' \in Seq(OutboxRow) /\ Len(outbox') = Len(outbox)
      /\ DOMAIN outbox' = DOMAIN outbox
      /\ \A q \in DOMAIN outbox : outbox'[q].handoff = outbox[q].handoff
  BY <1>1, <1>2, <1>3
<1>5. RowsCarryRequests'
  BY <1>4 DEF Inv, RegistryInv, RowsCarryRequests, registry, Requests
<1>6. QED
  BY <1>4, <1>5, OutboxKeeps

\* A row is received; whatever else happens to it leaves the handoffs alone.
LEMMA RowReceived ==
  ASSUME Inv, NEW r \in DOMAIN outbox, Queue!Receive(r, outbox[r].handoff),
         UNCHANGED <<registry, lifecycle>>
  PROVE  QueueInv' /\ LifecycleInv'
<1>1. r \in RowId
  BY Counts
<1>2. outbox[r].handoff \in Requests \cap HandoffId
  <2>1. outbox[r] \in OutboxRow
    BY DEF Inv, RegistryInv, RegistryTypeOK
  <2>2. QED
    BY <2>1 DEF Inv, RegistryInv, RowsCarryRequests, OutboxRow
<1>3. QueueKept(applied)
  BY <1>1, <1>2, ReceiveKeeps DEF Inv
<1>4. QueueInv'
  BY <1>3 DEF registry, lifecycle, QueueKept, QueueInv, Sound, Requests
<1>5. LifecycleInv'
  BY DEF Inv, registry, lifecycle, LifecycleInv, FlowsAreAccountedFor, Requests
<1>6. QED
  BY <1>4, <1>5

LEMMA UntouchedQueue ==
  ASSUME Inv, UNCHANGED <<registry, inbox, task, lifecycle>>
  PROVE  QueueInv' /\ LifecycleInv'
  BY DEF Inv, registry, lifecycle, QueueInv, Queue!InboxTypeOK, Queue!Idle, Sound,
     Requests, LifecycleInv, FlowsAreAccountedFor

LEMMA DeliverKeeps ==
  ASSUME Inv, NEW r \in DOMAIN outbox, Deliver(r) PROVE Inv'
<1>1. RegistryInv' /\ Len(outbox') = Len(outbox)
  BY MarkFacts DEF Deliver
<1>2. QueueInv' /\ LifecycleInv'
  BY RowReceived DEF Deliver
<1>3. CountInv'
  BY <1>1 DEF Inv, Deliver, registry, CountInv, RowsAreCounted
<1>4. QED
  BY <1>1, <1>2, <1>3 DEF Inv

LEMMA DeliverOnlyKeeps ==
  ASSUME Inv, NEW r \in DOMAIN outbox, DeliverOnly(r) PROVE Inv'
<1>1. RegistryInv'
  BY OutboxKeeps DEF DeliverOnly, Inv, RegistryInv, RegistryTypeOK, registry,
     RowsCarryRequests, Requests
<1>2. QueueInv' /\ LifecycleInv'
  BY RowReceived DEF DeliverOnly
<1>3. CountInv'
  BY Counts DEF DeliverOnly, registry, Mishap, CountInv, RowsAreCounted
<1>4. QED
  BY <1>1, <1>2, <1>3 DEF Inv

LEMMA GiveUpKeeps ==
  ASSUME Inv, NEW r \in DOMAIN outbox, GiveUp(r) PROVE Inv'
<1>1. RegistryInv' /\ Len(outbox') = Len(outbox)
  BY MarkFacts DEF GiveUp
<1>2. QueueInv' /\ LifecycleInv'
  BY UntouchedQueue DEF GiveUp
<1>3. CountInv'
  BY <1>1, Counts DEF GiveUp, registry, Mishap, CountInv, RowsAreCounted
<1>4. QED
  BY <1>1, <1>2, <1>3 DEF Inv

LEMMA ReplayKeeps ==
  ASSUME Inv, NEW r \in DOMAIN outbox, Replay(r) PROVE Inv'
<1> DEFINE row == [handoff |-> outbox[r].handoff, state |-> "open", replay |-> TRUE]
<1>1. outbox \in Seq(OutboxRow) /\ outbox[r] \in OutboxRow
  BY DEF Inv, RegistryInv, RegistryTypeOK
<1>2. row \in OutboxRow /\ row.handoff \in Requests
  BY <1>1 DEF OutboxRow, Inv, RegistryInv, RowsCarryRequests
<1>3. outbox' = Append(outbox, row) /\ UNCHANGED registry
  BY DEF Replay
<1> HIDE DEF row
<1>4. /\ outbox' \in Seq(OutboxRow) /\ Len(outbox') = Len(outbox) + 1
      /\ DOMAIN outbox' = DOMAIN outbox \cup {Len(outbox) + 1}
      /\ \A q \in DOMAIN outbox : outbox'[q] = outbox[q]
      /\ outbox'[Len(outbox) + 1] = row
  BY <1>1, <1>2, <1>3, AppendFacts
<1>5. RowsCarryRequests'
  BY <1>2, <1>3, <1>4 DEF Inv, RegistryInv, RowsCarryRequests, registry, Requests
<1>6. RegistryInv'
  BY <1>3, <1>4, <1>5, OutboxKeeps
<1>7. QueueInv' /\ LifecycleInv'
  BY UntouchedQueue DEF Replay
<1>8. CountInv'
  BY <1>4, Counts DEF Replay, registry, Mishap, CountInv, RowsAreCounted
<1>9. QED
  BY <1>6, <1>7, <1>8 DEF Inv

\* A request that is current names the containers its shipment has.
LEMMA CurrentNamesActive ==
  ASSUME RegistryInv, NEW h \in Requests, Current(h)
  PROVE  /\ handoff[h].shipment \in Shipment /\ Exists(handoff[h].shipment)
         /\ handoff[h].scope = Active(handoff[h].shipment)
<1> DEFINE s == handoff[h].shipment
<1>1. h \in DOMAIN handoff /\ handoff[h] \in HandoffRow
  BY DEF RegistryInv, RegistryTypeOK, Requests
<1>2. s \in Shipment
  BY <1>1 DEF HandoffRow
<1>3. Exists(s)
  BY <1>2 DEF RegistryInv, VersionsIdentify, Exists, Current
<1>4. PICK g \in Requests \cap Accepted(s) :
        handoff[g].rel = shipment[s].rel /\ handoff[g].scope = Active(s)
  BY <1>2, <1>3 DEF RegistryInv, RequestNamesActive
<1>5. g = h
  BY <1>4 DEF RegistryInv, VersionsIdentify, Current, Accepted
<1>6. QED
  BY <1>2, <1>3, <1>4, <1>5

LEMMA StartFacts ==
  ASSUME Inv, NEW w \in Worker, NEW h, h = Request(w), NEW s,
         s = handoff[h].shipment, Start(w)
  PROVE  /\ h \in Requests /\ h \in HandoffId /\ s \in Shipment /\ Exists(s)
         /\ handoff[h].scope = Active(s)
         /\ shipment[s].lc = 1
         /\ shipment' \in [Shipment -> ShipmentRow]
         /\ \A t \in Shipment : shipment'[t].rel = shipment[t].rel
         /\ shipment'[s].lc = 2
         /\ \A t \in Shipment \ {s} : shipment'[t] = shipment[t]
         /\ \A c \in Active(s) : flow[c] = NoFlow
<1>1. ~Queue!Idle(w)
  BY DEF Start, At
<1>2. h \in Requests
  BY <1>1, InHand DEF Inv, Request
<1>3. h \in HandoffId
  BY <1>2 DEF Inv, RegistryInv, RegistryTypeOK, Requests, HandoffId
<1>4. Current(h) /\ Unflowed(h)
  BY DEF Start, Collides
<1>5. s \in Shipment /\ Exists(s) /\ handoff[h].scope = Active(s)
  BY <1>2, <1>4, CurrentNamesActive DEF Inv
<1>6. /\ shipment[s].lc = 1
      /\ \A c \in Active(s) : flow[c] = NoFlow
  BY <1>4, <1>5 DEF Current, Unflowed
<1>7. /\ shipment' \in [Shipment -> ShipmentRow]
      /\ \A t \in Shipment : shipment'[t].rel = shipment[t].rel
      /\ shipment'[s].lc = 2
      /\ \A t \in Shipment \ {s} : shipment'[t] = shipment[t]
  <2> DEFINE row == [shipment[s] EXCEPT !.lc = @ + 1]
  <2>1. shipment \in [Shipment -> ShipmentRow] /\ shipment[s] \in ShipmentRow
    BY <1>5 DEF Inv, RegistryInv, RegistryTypeOK
  <2>2. row \in ShipmentRow /\ row.rel = shipment[s].rel /\ row.lc = 2
    BY <1>6, <2>1 DEF ShipmentRow
  <2>3. shipment' = [shipment EXCEPT ![s] = row]
    BY DEF Start
  <2> HIDE DEF row
  <2>4. QED
    BY <1>5, <2>1, <2>2, <2>3
<1>8. QED
  BY <1>2, <1>3, <1>5, <1>6, <1>7

LEMMA StartKeeps ==
  ASSUME Inv, NEW w \in Worker, Start(w) PROVE Inv'
<1> DEFINE h == Request(w)
           s == handoff[h].shipment
<1>1. /\ h \in Requests /\ h \in HandoffId /\ s \in Shipment
      /\ shipment' \in [Shipment -> ShipmentRow]
      /\ \A t \in Shipment : shipment'[t].rel = shipment[t].rel
      /\ shipment'[s].lc = 2
      /\ \A t \in Shipment \ {s} : shipment'[t] = shipment[t]
  BY StartFacts
<1>2. /\ UNCHANGED <<link, handoff, correcting, outbox, mishaps>>
      /\ applied' = applied \cup {h}
      /\ flow' = [c \in Container |-> IF c \in handoff[h].scope THEN h ELSE flow[c]]
      /\ Queue!Complete(w) /\ ~Queue!Idle(w)
  BY DEF Start, At
<1> HIDE DEF h
<1>3. \A g \in Requests : handoff[g].shipment \in Shipment
  <2>1. \A g \in Requests : handoff[g] \in HandoffRow
    BY DEF Inv, RegistryInv, RegistryTypeOK, Requests
  <2>2. QED
    BY <2>1 DEF HandoffRow
<1>4. RegistryInv'
  <2>1. RegistryTypeOK'
    BY <1>1, <1>2 DEF Inv, RegistryInv, RegistryTypeOK
  <2>2. CorrectionsKnowTheirShipment' /\ RowsCarryRequests'
    BY <1>2 DEF Inv, RegistryInv, CorrectionsKnowTheirShipment, RowsCarryRequests,
       Requests
  <2>3. \A t \in Shipment : /\ Exists(t)' = Exists(t)
                            /\ Active(t)' = Active(t)
                            /\ Accepted(t)' = Accepted(t)
    BY <1>1, <1>2 DEF Exists, Active, Accepted
  <2>4. Requests' = Requests
    BY <1>2 DEF Requests
  <2>5. OneShipmentEach'
    BY <2>3 DEF Inv, RegistryInv, OneShipmentEach
  <2>6. VersionsIdentify'
    BY <1>1, <1>2, <1>3, <2>4 DEF Inv, RegistryInv, VersionsIdentify
  <2>7. RequestNamesActive'
    BY <1>1, <1>2, <2>3, <2>4 DEF Inv, RegistryInv, RequestNamesActive
  <2>8. QED
    BY <2>1, <2>2, <2>5, <2>6, <2>7 DEF RegistryInv
<1>5. QueueInv'
  <2>1. QueueKept(applied')
    BY <1>2, CompleteKeeps DEF Inv, Request, h
  <2>2. QED
    BY <1>2, <2>1 DEF QueueKept, QueueInv, Sound, Requests
<1>6. LifecycleInv'
  <2>1. /\ flow' \in [Container -> {NoFlow, Planned} \cup HandoffId]
        /\ applied' \subseteq HandoffId
    BY <1>1, <1>2 DEF Inv, LifecycleInv
  <2>2. FlowsAreAccountedFor'
    <3> SUFFICES ASSUME NEW c \in Container, flow'[c] \in HandoffId
                 PROVE  /\ flow'[c] \in Requests
                        /\ shipment'[handoff[flow'[c]].shipment].lc # 1
      BY <1>2 DEF FlowsAreAccountedFor, Requests
    <3>1. CASE c \in handoff[h].scope
      BY <1>1, <1>2, <3>1
    <3>2. CASE c \notin handoff[h].scope
      <4>1. /\ flow'[c] = flow[c] /\ flow[c] \in Requests
            /\ shipment[handoff[flow[c]].shipment].lc # 1
        BY <1>2, <3>2 DEF Inv, LifecycleInv, FlowsAreAccountedFor
      <4>2. QED
        BY <1>1, <1>3, <4>1
    <3>3. QED
      BY <3>1, <3>2
  <2>3. QED
    BY <2>1, <2>2 DEF LifecycleInv
<1>7. CountInv'
  BY <1>2 DEF Inv, CountInv, RowsAreCounted
<1>8. QED
  BY <1>4, <1>5, <1>6, <1>7 DEF Inv

LEMMA ReadKeeps ==
  ASSUME Inv, NEW w \in Worker, Read(w) PROVE Inv'
<1> DEFINE h == Request(w)
<1>1. ~Queue!Idle(w) /\ OnlyQueue /\ mishaps' = mishaps /\ QueueInv
  BY DEF Read, At, OnlyQueue, Inv
<1>2. CASE Queue!LoseLease(w)
  <2>1. Queue!Fail(w, "unknown_code") /\ "unknown_code" \in Queue!Cause
    BY <1>2 DEF Queue!LoseLease, Queue!Cause
  <2>2. QED
    BY <1>1, <2>1, FailKeeps, QuietKeeps
<1>3. CASE h \in applied /\ Queue!Complete(w)
  <2>1. QueueKept(applied)
    BY <1>1, <1>3, CompleteKeeps DEF Request
  <2>2. QED
    BY <1>1, <2>1, QuietKeeps
<1>4. CASE Queue!ReadsPass(w)
  BY <1>1, <1>4, ReadsPassKeeps, QuietKeeps
<1>5. CASE Queue!Fail(w, "business_rejected")
  <2>1. "business_rejected" \in Queue!Cause
    BY DEF Queue!Cause
  <2>2. QED
    BY <1>1, <1>5, <2>1, FailKeeps, QuietKeeps
<1>6. QED
  BY <1>2, <1>3, <1>4, <1>5 DEF Read

LEMMA AbortKeeps ==
  ASSUME Inv, NEW w \in Worker, Abort(w) PROVE Inv'
<1>1. ~Queue!Idle(w) /\ OnlyQueue /\ mishaps' = mishaps /\ QueueInv
  BY DEF Abort, At, OnlyQueue, Inv
<1>2. PICK cause \in {"unknown_code", "business_rejected"} : Queue!Fail(w, cause)
  BY DEF Abort, Queue!LoseLease
<1>3. cause \in Queue!Cause
  BY DEF Queue!Cause
<1>4. QED
  BY <1>1, <1>2, <1>3, FailKeeps, QuietKeeps

LEMMA DatabaseFailsKeeps ==
  ASSUME Inv, NEW w \in Worker, DatabaseFails(w) PROVE Inv'
<1>1. ~Queue!Idle(w) /\ OnlyQueue /\ Mishap /\ QueueInv
  BY DEF DatabaseFails, At, OnlyQueue, Inv
<1>2. PICK cause \in {"dependency_unavailable", "unknown_code"} :
        Queue!Fail(w, cause)
  BY DEF DatabaseFails
<1>3. cause \in Queue!Cause
  BY DEF Queue!Cause
<1>4. QED
  BY <1>1, <1>2, <1>3, FailKeeps, QuietKeeps

LEMMA StutterKeeps ==
  ASSUME Inv, UNCHANGED vars PROVE Inv'
<1>1. OnlyQueue /\ mishaps' = mishaps /\ inbox' = inbox /\ task' = task
  BY DEF vars, OnlyQueue, registry, queue, lifecycle
<1>2. QueueKept(applied)
  BY <1>1 DEF Inv, QueueInv, QueueKept, Queue!InboxTypeOK, Queue!Idle, Sound
<1>3. QED
  BY <1>1, <1>2, QuietKeeps

LEMMA StepInv == Inv /\ [Next]_vars => Inv'
<1> SUFFICES ASSUME Inv, [Next]_vars PROVE Inv'
  OBVIOUS
<1>1. QueueInv
  BY DEF Inv
<1>2. CASE Register
  BY <1>2, RegisterKeeps
<1>3. ASSUME NEW c \in Container, PlanFlow(c) PROVE Inv'
  BY <1>3, PlanFlowKeeps
<1>4. ASSUME NEW r \in DOMAIN outbox,
             Deliver(r) \/ DeliverOnly(r) \/ GiveUp(r) \/ Replay(r)
      PROVE  Inv'
  BY <1>4, DeliverKeeps, DeliverOnlyKeeps, GiveUpKeeps, ReplayKeeps
<1>5. ASSUME NEW w \in Worker, Claim(w) PROVE Inv'
  <2>1. PICK i \in DOMAIN inbox : Queue!Claim(w, i)
    BY <1>5 DEF Claim
  <2>2. QueueKept(applied)
    BY <1>1, <2>1, ClaimKeeps
  <2>3. QED
    BY <1>5, <2>2, QuietKeeps DEF Claim, Smooth
<1>6. ASSUME NEW w \in Worker, RecordFailure(w) PROVE Inv'
  <2>1. QueueKept(applied)
    BY <1>1, <1>6, RecordFailureKeeps DEF RecordFailure
  <2>2. QED
    BY <1>6, <2>1, QuietKeeps DEF RecordFailure, Smooth
<1>7. ASSUME NEW w \in Worker, Work(w) PROVE Inv'
  BY <1>6, <1>7, ReadKeeps, StartKeeps, AbortKeeps DEF Work
<1>8. ASSUME NEW w \in Worker, DatabaseFails(w) PROVE Inv'
  BY <1>8, DatabaseFailsKeeps
<1>9. ASSUME NEW w \in Worker, Crash(w) PROVE Inv'
  BY <1>1, <1>9, CrashKeeps, QuietKeeps DEF Crash
<1>10. ASSUME NEW i \in DOMAIN inbox, Expire(i) PROVE Inv'
  BY <1>1, <1>10, LapseKeeps, QuietKeeps DEF Expire, Smooth
<1>11. ASSUME NEW i \in DOMAIN inbox, LapseEarly(i) PROVE Inv'
  BY <1>1, <1>11, LapseKeeps, QuietKeeps DEF LapseEarly
<1>12. ASSUME NEW i \in DOMAIN inbox, NEW source \in DOMAIN inbox, Revive(i, source)
       PROVE  Inv'
  BY <1>1, <1>12, ReviveKeeps, QuietKeeps DEF Revive
<1>13. CASE UNCHANGED vars
  BY <1>13, StutterKeeps
<1>14. QED
  BY <1>2, <1>3, <1>4, <1>5, <1>7, <1>8, <1>9, <1>10, <1>11, <1>12, <1>13 DEF Next

LEMMA Invariant == Spec => []Inv
  BY InitInv, StepInv, PTL DEF Spec

-----------------------------------------------------------------------------
(* The theorems                                                            *)

\* The rows of the registry, the outbox, the inbox and the flows keep their
\* types, and every message a worker holds is a row of the inbox.
THEOREM TypeInvariant == Spec => []TypeOK
<1>1. Inv => TypeOK
  BY DEF Inv, RegistryInv, QueueInv, LifecycleInv, CountInv, TypeOK
<1>2. QED
  BY <1>1, Invariant, PTL

\* Whoever joins, corrects or completes a shipment: the request of its
\* relationship version names the containers it has.
THEOREM RequestsNameTheirContainers == Spec => []RequestNamesActive
<1>1. Inv => RequestNamesActive
  BY DEF Inv, RegistryInv
<1>2. QED
  BY <1>1, Invariant, PTL

\* A message is processed only together with the start of its request.
THEOREM ProcessedOnlyByStarting == Spec => []ProcessedMeansStarted
<1>1. Inv => ProcessedMeansStarted
  BY DEF Inv, QueueInv, Sound, ProcessedMeansStarted
<1>2. QED
  BY <1>1, Invariant, PTL

-----------------------------------------------------------------------------
(* The refinement                                                          *)

USE DEF Started

LEMMA InitMaps == Init => Whole!StartInit
<1> SUFFICES ASSUME Init PROVE Whole!StartInit
  OBVIOUS
<1>1. \A s \in Shipment : shipment[s].rel = 0 /\ Active(s) = {}
  BY DEF Init, RegistryInit, Active
<1>2. \A s \in Shipment : Started(s) = {}
  BY DEF Init, HandoffId
<1>3. QED
  BY <1>1, <1>2 DEF Whole!StartInit

\* An announced handoff gives its shipment other containers.
LEMMA RevisedMaps ==
  ASSUME Inv, NEW s \in Shipment, NEW scope, Revised(s, scope), RequestsLast,
         UNCHANGED flow
  PROVE  Whole!StartNext
<1>1. /\ shipment'[s].rel = shipment[s].rel + 1
      /\ \A t \in Shipment \ {s} : shipment'[t] = shipment[t] /\ link'[t] = link[t]
      /\ scope \subseteq Container
      /\ \A c \in Container : link'[s][c] = "active" <=> c \in scope
      /\ \A c \in scope, t \in Shipment \ {s} : link[t][c] # "active"
  BY DEF Revised
<1>2. Active(s)' = scope /\ \A t \in Shipment \ {s} : Active(t)' = Active(t)
  BY <1>1 DEF Active
<1>3. \A t \in Shipment : Started(t)' = Started(t)
  BY DEF Inv, LifecycleInv, FlowsAreAccountedFor, RequestsLast
<1>4. Whole!Revise(s, scope)
  <2>1. \A t \in Shipment \ {s} : scope \cap Active(t) = {}
    BY <1>1 DEF Active
  <2>2. [t \in Shipment |-> shipment'[t].rel]
          = [[t \in Shipment |-> shipment[t].rel] EXCEPT ![s] = @ + 1]
    BY <1>1
  <2>3. [t \in Shipment |-> Active(t)']
          = [[t \in Shipment |-> Active(t)] EXCEPT ![s] = scope]
    BY <1>2
  <2>4. [t \in Shipment |-> Started(t)'] = [t \in Shipment |-> Started(t)]
    BY <1>3
  <2>5. QED
    BY <2>1, <2>2, <2>3, <2>4 DEF Whole!Revise
<1>5. QED
  BY <1>1, <1>4 DEF Whole!StartNext

\* The start of a request is the start of its whole shipment.
LEMMA StartMaps ==
  ASSUME Inv, NEW w \in Worker, Start(w) PROVE Whole!StartNext
<1>0. PICK h, s : h = Request(w) /\ s = handoff[h].shipment
  OBVIOUS
<1>1. /\ h \in HandoffId /\ s \in Shipment /\ Exists(s)
      /\ handoff[h].scope = Active(s)
      /\ shipment[s].lc = 1
      /\ \A t \in Shipment : shipment'[t].rel = shipment[t].rel
      /\ \A c \in Active(s) : flow[c] = NoFlow
  BY <1>0, StartFacts
<1>2. /\ UNCHANGED <<link, handoff>>
      /\ flow' = [c \in Container |-> IF c \in handoff[h].scope THEN h ELSE flow[c]]
  BY <1>0 DEF Start
<1>3. NoFlow \notin HandoffId
  BY DEF HandoffId
<1>4. Started(s) = {}
  BY <1>0, <1>1 DEF Inv, LifecycleInv, FlowsAreAccountedFor
<1>5. \A t \in Shipment : Started(t) \cap Active(s) = {}
  BY <1>1, <1>3
<1>6. Active(s) \subseteq Container
  BY DEF Active
<1>7. Started(s)' = Active(s)
  BY <1>0, <1>1, <1>2, <1>4, <1>6
<1>8. \A t \in Shipment \ {s} : Started(t)' = Started(t)
  BY <1>0, <1>1, <1>2, <1>3
<1>9. \A t \in Shipment : Active(t)' = Active(t)
  BY <1>2 DEF Active
<1>10. Whole!StartWhole(s)
  <2>1. [t \in Shipment |-> Started(t)']
          = [[t \in Shipment |-> Started(t)] EXCEPT ![s] = Active(s)]
    BY <1>1, <1>7, <1>8
  <2>2. [t \in Shipment |-> shipment'[t].rel] = [t \in Shipment |-> shipment[t].rel]
    BY <1>1
  <2>3. [t \in Shipment |-> Active(t)'] = [t \in Shipment |-> Active(t)]
    BY <1>9
  <2>4. shipment[s].rel > 0
    BY <1>1 DEF Exists
  <2> HIDE DEF Started
  <2>5. QED
    BY <1>1, <1>4, <1>5, <2>1, <2>2, <2>3, <2>4 DEF Whole!StartWhole
<1>11. QED
  BY <1>1, <1>10 DEF Whole!StartNext

\* What the abstract specification sees
Seen == <<[s \in Shipment |-> shipment[s].rel],
          [s \in Shipment |-> Active(s)],
          [s \in Shipment |-> Started(s)]>>

LEMMA UnseenSteps ==
  ASSUME Inv, UNCHANGED link,
         \A s \in Shipment : shipment'[s].rel = shipment[s].rel,
         \A c \in Container : flow'[c] # flow[c] =>
           flow[c] \notin HandoffId /\ flow'[c] \notin HandoffId,
         \A h \in Requests : handoff'[h].shipment = handoff[h].shipment
  PROVE  UNCHANGED Seen
<1>1. \A s \in Shipment : Active(s)' = Active(s)
  BY DEF Active
<1>2. \A s \in Shipment : Started(s)' = Started(s)
  BY DEF Inv, LifecycleInv, FlowsAreAccountedFor
<1>3. [s \in Shipment |-> Active(s)'] = [s \in Shipment |-> Active(s)]
  BY <1>1
<1>4. [s \in Shipment |-> Started(s)'] = [s \in Shipment |-> Started(s)]
  BY <1>2
<1>5. [s \in Shipment |-> shipment'[s].rel] = [s \in Shipment |-> shipment[s].rel]
  OBVIOUS
<1>6. QED
  BY <1>3, <1>4, <1>5 DEF Seen

LEMMA RegisterMaps ==
  ASSUME Inv, Register PROVE Whole!StartNext \/ UNCHANGED Seen
<1>1. RegistryInv /\ RequestsLast /\ UNCHANGED flow /\ RegistryNext
  BY RegisterKeepsRegistry DEF Inv, Register, lifecycle
<1>2. ASSUME NEW s \in Shipment, NEW scope, Revised(s, scope)
      PROVE  Whole!StartNext
  BY <1>1, <1>2, RevisedMaps
<1>3. ASSUME UNCHANGED link,
             \A s \in Shipment : shipment'[s].rel = shipment[s].rel
      PROVE  UNCHANGED Seen
  BY <1>1, <1>3, UnseenSteps DEF RequestsLast
<1>4. ASSUME NEW s \in Shipment, NEW containers \in Scope, NEW proof \in Proof,
             AcceptNew(s, containers, proof) \/ AcceptLate(s, containers, proof)
      PROVE  Whole!StartNext
  BY <1>1, <1>2, <1>4, NewRevises, LateRevises
<1>5. ASSUME NEW h \in DOMAIN handoff, NEW containers \in Scope,
             BeginCorrection(h, containers)
      PROVE  UNCHANGED Seen
  BY <1>3, <1>5 DEF BeginCorrection
<1>6. ASSUME NEW s \in Shipment, CommitCorrection(s) PROVE Whole!StartNext
  BY <1>1, <1>2, <1>6, CorrectionRevises
<1>7. ASSUME NEW s \in Shipment, LoseCorrection(s) PROVE UNCHANGED Seen
  BY <1>3, <1>7 DEF LoseCorrection
<1>8. ASSUME NEW s \in Shipment, NEW atd \in BOOLEAN, CompletePending(s, atd)
      PROVE  UNCHANGED Seen
  <2>1. shipment \in [Shipment -> ShipmentRow]
    BY <1>1 DEF RegistryInv, RegistryTypeOK
  <2>2. \A t \in Shipment : shipment'[t].rel = shipment[t].rel
    BY <1>8, <2>1 DEF CompletePending, ShipmentRow
  <2>3. QED
    BY <1>3, <1>8, <2>2 DEF CompletePending
<1>9. QED
  BY <1>1, <1>4, <1>5, <1>6, <1>7, <1>8 DEF RegistryNext

LEMMA StepMaps ==
  Inv /\ [Next]_vars => [Whole!StartNext]_(Whole!startVars)
<1> SUFFICES ASSUME Inv, [Next]_vars
             PROVE  Whole!StartNext \/ UNCHANGED Seen
  BY DEF Whole!startVars, Seen
<1>1. ASSUME UNCHANGED registry, UNCHANGED flow PROVE UNCHANGED Seen
  BY <1>1, UnseenSteps DEF registry
<1>2. CASE Register
  BY <1>2, RegisterMaps
<1>3. ASSUME NEW c \in Container, PlanFlow(c) PROVE UNCHANGED Seen
  <2>1. NoFlow \notin HandoffId /\ Planned \notin HandoffId
    BY DEF HandoffId
  <2>2. \A d \in Container : flow'[d] # flow[d] =>
          flow[d] \notin HandoffId /\ flow'[d] \notin HandoffId
    BY <1>3, <2>1 DEF PlanFlow, Inv, LifecycleInv
  <2>3. UNCHANGED registry
    BY <1>3 DEF PlanFlow
  <2>4. QED
    BY <2>2, <2>3, UnseenSteps DEF registry
<1>4. ASSUME NEW w \in Worker, Start(w) PROVE Whole!StartNext
  BY <1>4, StartMaps
<1>5. ASSUME NEW r \in DOMAIN outbox,
             Deliver(r) \/ DeliverOnly(r) \/ GiveUp(r) \/ Replay(r)
      PROVE  UNCHANGED Seen
  BY <1>1, <1>5 DEF Deliver, DeliverOnly, GiveUp, Replay, lifecycle
<1>6. ASSUME NEW w \in Worker,
             \/ Claim(w) \/ Read(w) \/ Abort(w) \/ RecordFailure(w)
             \/ DatabaseFails(w) \/ Crash(w)
      PROVE  UNCHANGED Seen
  BY <1>1, <1>6 DEF Claim, Read, Abort, RecordFailure, DatabaseFails, Crash,
     Smooth, OnlyQueue, lifecycle
<1>7. ASSUME NEW i \in DOMAIN inbox, Expire(i) \/ LapseEarly(i)
      PROVE  UNCHANGED Seen
  BY <1>1, <1>7 DEF Expire, LapseEarly, Smooth, OnlyQueue, lifecycle
<1>8. ASSUME NEW i \in DOMAIN inbox, NEW source \in DOMAIN inbox, Revive(i, source)
      PROVE  UNCHANGED Seen
  BY <1>1, <1>8 DEF Revive, OnlyQueue, lifecycle
<1>9. CASE UNCHANGED vars
  BY <1>1, <1>9 DEF vars, lifecycle
<1>10. QED
  BY <1>2, <1>3, <1>4, <1>5, <1>6, <1>7, <1>8, <1>9 DEF Next, Work

\* A shipment starts at most once and as a whole, for the containers it has
\* at that moment, none of which starts twice: initialize, with everything
\* around it, implements LifecycleStart.
THEOREM StartsWhole == Spec => ImplementsLifecycleStart
<1>1. Spec => Whole!StartInit /\ [][Whole!StartNext]_(Whole!startVars)
  BY InitMaps, StepMaps, Invariant, PTL DEF Spec
<1>2. QED
  BY <1>1 DEF ImplementsLifecycleStart, Whole!StartSpec
=============================================================================
