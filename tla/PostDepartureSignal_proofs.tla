---------------------- MODULE PostDepartureSignal_proofs ----------------------
(***************************************************************************)
(* What the read projection calls pending is under way: the proof that     *)
(* PendingIsUnderWay is an invariant of PostDeparture, on top of the       *)
(* invariant of PostDeparture_proofs.                                      *)
(***************************************************************************)
EXTENDS PostDeparture_proofs, WellFoundedInduction

USE HandoffAssumption, PostDepartureAssumption

-----------------------------------------------------------------------------
(* The inductive invariant                                                 *)

\* Every request has the row it was announced with, and the rows of a
\* shipment that are no replays are in the order of its versions.
Rel(r) == handoff[outbox[r].handoff].rel
ShipmentOf(r) == handoff[outbox[r].handoff].shipment

RowsFollowVersions ==
  /\ \A h \in Requests : \E r \in DOMAIN outbox :
       outbox[r].handoff = h /\ ~outbox[r].replay
  /\ \A q, r \in DOMAIN outbox :
       /\ ~outbox[q].replay /\ ~outbox[r].replay
       /\ ShipmentOf(q) = ShipmentOf(r)
       /\ Rel(q) < Rel(r)
       => q < r

\* A published row was received, and a message of the outbox carries what its
\* row does.
Received(r) == \E i \in DOMAIN inbox : inbox[i].event = r

RowsAreReceived ==
  /\ \A r \in DOMAIN outbox : outbox[r].state = "published" => Received(r)
  /\ \A i \in DOMAIN inbox : inbox[i].event # None =>
       /\ inbox[i].event \in DOMAIN outbox
       /\ inbox[i].payload = outbox[inbox[i].event].handoff

\* What a request has started remains its own.
StartsLast ==
  \A h \in applied : /\ h \in Requests
                     /\ \A c \in handoff[h].scope : flow[c] = h

NoRequestIsEmpty ==
  /\ \A h \in Requests : handoff[h].scope # {}
  /\ \A s \in Shipment : correcting[s] # None => correcting[s].containers # {}

SignalInv ==
  /\ Inv
  /\ RowsFollowVersions
  /\ RowsAreReceived
  /\ StartsLast
  /\ NoRequestIsEmpty

-----------------------------------------------------------------------------
(* The latest row                                                          *)

LEMMA SmallestOf ==
  ASSUME NEW S \in SUBSET Nat, S # {}
  PROVE  \E n \in S : \A m \in S : n <= m
<1> DEFINE R == {ss \in Nat \X Nat : ss[1] < ss[2]}
<1>1. IsWellFoundedOn(R, Nat)
  BY NatLessThanWellFounded DEF OpToRel
<1>2. \A n, m \in Nat : <<m, n>> \notin R => ~ (m < n)
  OBVIOUS
<1> HIDE DEF R
<1>3. PICK n \in S : \A m \in S : ~ (<<m, n>> \in R)
  BY <1>1, WFMin
<1>4. \A m \in S : ~ (m < n)
  BY <1>2, <1>3, Zenon
<1>5. QED
  BY <1>4

LEMMA LatestRowIs ==
  ASSUME Inv, NEW s \in Shipment, RowsOf(s) # {}
  PROVE  /\ LatestRow(s) \in RowsOf(s)
         /\ \A q \in RowsOf(s) : q <= LatestRow(s)
<1> DEFINE S == RowsOf(s)
           n == Len(outbox)
           T == {n - r : r \in S}
<1>1. n \in Nat /\ S \subseteq 1..n
  BY DEF Inv, RegistryInv, RegistryTypeOK, RowsOf
<1> HIDE DEF S, n
<1>2. T \in SUBSET Nat
  BY <1>1
<1>3. \A r \in S : n - r \in T
  OBVIOUS
<1>4. \A t \in T : \E r \in S : t = n - r
  OBVIOUS
<1> HIDE DEF T
<1>5. T # {}
  <2>1. S # {}
    BY DEF S
  <2>2. QED
    BY <1>3, <2>1
<1>6. PICK t \in T : \A u \in T : t <= u
  BY <1>2, <1>5, SmallestOf
<1>7. PICK r \in S : t = n - r
  BY <1>4
<1>8. ASSUME NEW q \in S PROVE q <= r
  <2>1. n - r <= n - q
    BY <1>3, <1>6, <1>7
  <2>2. QED
    BY <1>1, <2>1
<1>9. QED
  BY <1>8 DEF LatestRow, S

-----------------------------------------------------------------------------
(* Pending means under way                                                 *)

LEMMA RequestFacts ==
  ASSUME Inv, NEW h \in Requests
  PROVE  /\ h \in DOMAIN handoff /\ h \in HandoffId
         /\ handoff[h].shipment \in Shipment /\ handoff[h].rel \in Nat
<1>1. h \in DOMAIN handoff /\ h \in HandoffId /\ handoff[h] \in HandoffRow
  BY DEF Inv, RegistryInv, RegistryTypeOK, Requests, HandoffId
<1>2. QED
  BY <1>1 DEF HandoffRow

\* The latest row of a shipment, unless it is a replay, carries the request of
\* the version the shipment has.
LEMMA LatestIsCurrent ==
  ASSUME SignalInv, NEW s \in Shipment, Exists(s),
         ~outbox[LatestRow(s)].replay
  PROVE  LET r == LatestRow(s)
             h == outbox[r].handoff
         IN  /\ r \in DOMAIN outbox /\ h \in Requests
             /\ handoff[h].shipment = s /\ handoff[h].rel = shipment[s].rel
             /\ handoff[h].scope = Active(s)
<1>1. Inv /\ RegistryInv
  BY DEF SignalInv, Inv
<1>2. PICK g \in Requests \cap Accepted(s) :
        handoff[g].rel = shipment[s].rel /\ handoff[g].scope = Active(s)
  BY <1>1 DEF RegistryInv, RequestNamesActive
<1>3. handoff[g].shipment = s
  BY <1>2 DEF Accepted
<1>4. PICK q \in DOMAIN outbox : outbox[q].handoff = g /\ ~outbox[q].replay
  BY <1>2 DEF SignalInv, RowsFollowVersions
<1>5. q \in RowsOf(s)
  BY <1>3, <1>4 DEF RowsOf
<1>6. PICK r : r = LatestRow(s)
  OBVIOUS
<1>7. r \in RowsOf(s) /\ q <= r /\ q \in Nat /\ r \in Nat
  BY <1>1, <1>5, <1>6, LatestRowIs, Counts DEF RowsOf, RowId
<1>8. PICK h : h = outbox[r].handoff
  OBVIOUS
<1>9. r \in DOMAIN outbox /\ h \in Requests /\ handoff[h].shipment = s
  BY <1>1, <1>7, <1>8 DEF RowsOf, RegistryInv, RowsCarryRequests
<1>10. handoff[h].rel \in Nat /\ handoff[g].rel \in Nat
       /\ handoff[h].rel <= shipment[s].rel
  BY <1>1, <1>2, <1>9, RequestFacts DEF RegistryInv, VersionsIdentify
<1>11. ~ (handoff[h].rel < handoff[g].rel)
  <2>1. SUFFICES ASSUME Rel(r) < Rel(q) PROVE FALSE
    BY <1>4, <1>8 DEF Rel
  <2>2. r < q
    BY <1>3, <1>4, <1>6, <1>8, <1>9, <2>1
    DEF SignalInv, RowsFollowVersions, ShipmentOf
  <2>3. QED
    BY <1>7, <2>2
<1>12. handoff[h].rel = handoff[g].rel
  BY <1>2, <1>10, <1>11
<1>13. h = g
  BY <1>1, <1>2, <1>3, <1>9, <1>12 DEF RegistryInv, VersionsIdentify
<1>14. QED
  BY <1>2, <1>6, <1>8, <1>9, <1>13

LEMMA StartedIsReady ==
  ASSUME SignalInv, NEW s \in Shipment, NEW h \in applied,
         handoff[h].shipment = s, handoff[h].rel = shipment[s].rel,
         handoff[h].scope = Active(s)
  PROVE  Ready(s)
<1>1. h \in Requests /\ h \in HandoffId
  BY RequestFacts DEF SignalInv, StartsLast
<1>2. Active(s) # {} /\ \A c \in Active(s) : flow[c] = h
  BY <1>1 DEF SignalInv, StartsLast, NoRequestIsEmpty
<1>3. QED
  BY <1>1, <1>2 DEF Ready

LEMMA PendingFollows ==
  ASSUME SignalInv PROVE PendingIsUnderWay
<1> SUFFICES ASSUME NEW s \in Shipment, NEW r, r = LatestRow(s),
                    Exists(s), Signal(s) = "pending", ~outbox[r].replay,
                    outbox[r].state # "open"
             PROVE  \E i \in DOMAIN inbox : inbox[i].event = r /\ Queue!Open(i)
  BY DEF PendingIsUnderWay
<1>1. PICK h : h = outbox[r].handoff
  OBVIOUS
<1>2. /\ r \in DOMAIN outbox /\ h \in Requests
      /\ handoff[h].shipment = s /\ handoff[h].rel = shipment[s].rel
      /\ handoff[h].scope = Active(s)
  BY <1>1, LatestIsCurrent
<1>3. /\ ~Ready(s) /\ outbox[r].state # "dead"
      /\ \A i \in DOMAIN inbox :
           inbox[i].event = r => inbox[i].state # "dead_letter"
  BY DEF Signal
<1>4. outbox[r].state = "published"
  <2>1. outbox[r] \in OutboxRow
    BY <1>2 DEF SignalInv, Inv, RegistryInv, RegistryTypeOK
  <2>2. QED
    BY <1>3, <2>1 DEF OutboxRow
<1>5. PICK i \in DOMAIN inbox : inbox[i].event = r
  BY <1>2, <1>4 DEF SignalInv, RowsAreReceived, Received
<1>6. inbox[i] \in Queue!Row
  BY DEF SignalInv, Inv, QueueInv, Queue!InboxTypeOK
<1>7. inbox[i].payload = h
  <2>1. r # None
    BY <1>2, Counts DEF SignalInv, RowId
  <2>2. QED
    BY <1>1, <1>5, <2>1 DEF SignalInv, RowsAreReceived
<1>8. inbox[i].state # "processed"
  BY <1>2, <1>3, <1>7, StartedIsReady DEF SignalInv, Inv, QueueInv, Sound
<1>9. QED
  BY <1>3, <1>5, <1>6, <1>8 DEF Queue!Open, Queue!Row

-----------------------------------------------------------------------------
(* What the steps of the inbox and the outbox leave                        *)

\* Rows keep what they carry; a row that is added carries what a row of the
\* outbox does, or was received for none.
InboxLasts ==
  /\ DOMAIN inbox \subseteq DOMAIN inbox'
  /\ \A i \in DOMAIN inbox : /\ inbox'[i].event = inbox[i].event
                             /\ inbox'[i].payload = inbox[i].payload
  /\ \A i \in DOMAIN inbox' \ DOMAIN inbox :
       \/ inbox'[i].event = None
       \/ /\ inbox'[i].event \in DOMAIN outbox
          /\ inbox'[i].payload = outbox[inbox'[i].event].handoff

\* Rows keep what they carry, are published when received, and are added open.
OutboxLasts ==
  /\ DOMAIN outbox \subseteq DOMAIN outbox'
  /\ \A r \in DOMAIN outbox :
       /\ outbox'[r].handoff = outbox[r].handoff
       /\ outbox'[r].replay = outbox[r].replay
       /\ outbox'[r].state = "published"
            => outbox[r].state = "published" \/ Received(r)'
  /\ \A r \in DOMAIN outbox' \ DOMAIN outbox : outbox'[r].state = "open"

LEMMA ReceivedLasts ==
  ASSUME RowsAreReceived, InboxLasts, OutboxLasts PROVE RowsAreReceived'
<1>1. \A r : Received(r) => Received(r)'
  BY DEF InboxLasts, Received
<1>2. ASSUME NEW r \in DOMAIN outbox', outbox'[r].state = "published"
      PROVE  Received(r)'
  BY <1>1, <1>2 DEF OutboxLasts, RowsAreReceived
<1>3. ASSUME NEW i \in DOMAIN inbox', inbox'[i].event # None
      PROVE  /\ inbox'[i].event \in DOMAIN outbox'
             /\ inbox'[i].payload = outbox'[inbox'[i].event].handoff
  BY <1>3 DEF InboxLasts, OutboxLasts, RowsAreReceived
<1>4. QED
  BY <1>2, <1>3 DEF RowsAreReceived

\* One row of the inbox is overwritten.
LEMMA RowOverwritten ==
  ASSUME QueueInv, NEW i \in DOMAIN inbox, NEW row,
         row.event = inbox[i].event, row.payload = inbox[i].payload,
         inbox' = [inbox EXCEPT ![i] = row]
  PROVE  InboxLasts
<1>1. inbox \in Seq(Queue!Row)
  BY DEF QueueInv, Queue!InboxTypeOK
<1>2. /\ DOMAIN inbox' = DOMAIN inbox
      /\ \A j \in DOMAIN inbox : inbox'[j] = IF j = i THEN row ELSE inbox[j]
  BY <1>1
<1>3. QED
  BY <1>2 DEF InboxLasts

\* One row of the inbox is added.
LEMMA RowReceivedAnew ==
  ASSUME QueueInv, NEW event \in RowId \cup {None},
         NEW payload \in HandoffId,
         event # None =>
           event \in DOMAIN outbox /\ payload = outbox[event].handoff,
         inbox' = Append(inbox, Queue!Fresh(event, payload))
  PROVE  InboxLasts /\ \E i \in DOMAIN inbox' : inbox'[i].event = event
<1> DEFINE row == Queue!Fresh(event, payload)
<1>1. inbox \in Seq(Queue!Row)
  BY DEF QueueInv, Queue!InboxTypeOK
<1>2. row \in Queue!Row /\ row.payload = payload /\ row.event = event
  BY DEF Queue!Fresh, Queue!Row, Queue!Cause
<1> HIDE DEF row
<1>3. inbox' = Append(inbox, row)
  BY DEF row
<1>4. /\ DOMAIN inbox' = DOMAIN inbox \cup {Len(inbox) + 1}
      /\ \A j \in DOMAIN inbox : inbox'[j] = inbox[j]
      /\ inbox'[Len(inbox) + 1] = row
  BY <1>1, <1>2, <1>3, AppendFacts
<1>5. QED
  BY <1>2, <1>4 DEF InboxLasts

LEMMA SameInbox ==
  ASSUME inbox' = inbox PROVE InboxLasts
  BY DEF InboxLasts

LEMMA ClaimLasts ==
  ASSUME QueueInv, NEW w \in Worker, NEW i \in DOMAIN inbox, Queue!Claim(w, i)
  PROVE  InboxLasts
<1> DEFINE row == [inbox[i] EXCEPT !.state = "processing", !.leased = TRUE]
<1>1. inbox[i] \in Queue!Row
  BY DEF QueueInv, Queue!InboxTypeOK
<1>2. row.event = inbox[i].event /\ row.payload = inbox[i].payload
  BY <1>1 DEF Queue!Row
<1>3. inbox' = [inbox EXCEPT ![i] = row]
  BY DEF Queue!Claim
<1> HIDE DEF row
<1>4. QED
  BY <1>2, <1>3, RowOverwritten

LEMMA CompleteLasts ==
  ASSUME QueueInv, NEW w \in Worker, ~Queue!Idle(w), Queue!Complete(w)
  PROVE  InboxLasts
<1> DEFINE i == task[w].message
           row == [inbox[i] EXCEPT !.state = "processed", !.leased = FALSE]
<1>1. i \in DOMAIN inbox /\ inbox[i] \in Queue!Row
  BY InHand
<1>2. row.event = inbox[i].event /\ row.payload = inbox[i].payload
  BY <1>1 DEF Queue!Row
<1>3. inbox' = [inbox EXCEPT ![i] = row]
  BY <1>1 DEF Queue!Complete
<1> HIDE DEF row, i
<1>4. QED
  BY <1>1, <1>2, <1>3, RowOverwritten

LEMMA RecordFailureLasts ==
  ASSUME QueueInv, NEW w \in Worker, Queue!RecordFailure(w)
  PROVE  InboxLasts
<1>1. ~Queue!Idle(w)
  BY DEF Queue!RecordFailure
<1>2. CASE Queue!HasLease(w)
  <2>1. PICK state \in Queue!Decisions(task[w].cause) :
          inbox' = [inbox EXCEPT ![task[w].message] =
            [@ EXCEPT !.state = state, !.leased = FALSE, !.cause = task[w].cause]]
    BY <1>2 DEF Queue!RecordFailure
  <2> DEFINE i == task[w].message
             row == [inbox[i] EXCEPT !.state = state, !.leased = FALSE,
                                     !.cause = task[w].cause]
  <2>2. i \in DOMAIN inbox /\ inbox[i] \in Queue!Row
    BY <1>1, InHand
  <2>3. row.event = inbox[i].event /\ row.payload = inbox[i].payload
    BY <2>2 DEF Queue!Row
  <2>4. inbox' = [inbox EXCEPT ![i] = row]
    BY <2>1
  <2> HIDE DEF row, i
  <2>5. QED
    BY <2>2, <2>3, <2>4, RowOverwritten
<1>3. CASE ~Queue!HasLease(w)
  BY <1>3, SameInbox DEF Queue!RecordFailure
<1>4. QED
  BY <1>2, <1>3

LEMMA LapseLasts ==
  ASSUME QueueInv, NEW i \in DOMAIN inbox, Queue!Lapse(i) PROVE InboxLasts
<1> DEFINE row == [inbox[i] EXCEPT !.leased = FALSE]
<1>1. inbox[i] \in Queue!Row
  BY DEF QueueInv, Queue!InboxTypeOK
<1>2. row.event = inbox[i].event /\ row.payload = inbox[i].payload
  BY <1>1 DEF Queue!Row
<1>3. inbox' = [inbox EXCEPT ![i] = row]
  BY DEF Queue!Lapse
<1> HIDE DEF row
<1>4. QED
  BY <1>2, <1>3, RowOverwritten

LEMMA ReviveLasts ==
  ASSUME QueueInv, NEW i \in DOMAIN inbox, NEW source \in DOMAIN inbox,
         Queue!Revive(i, source)
  PROVE  InboxLasts
<1>1. inbox[source].payload \in HandoffId
  <2>1. inbox[source] \in Queue!Row
    BY DEF QueueInv, Queue!InboxTypeOK
  <2>2. QED
    BY <2>1 DEF Queue!Row
<1>2. inbox' = Append(inbox, Queue!Fresh(None, inbox[source].payload))
  BY DEF Queue!Revive
<1>3. QED
  BY <1>1, <1>2, RowReceivedAnew

LEMMA ReceiveLasts ==
  ASSUME Inv, NEW r \in DOMAIN outbox, Queue!Receive(r, outbox[r].handoff)
  PROVE  InboxLasts /\ Received(r)'
<1>1. r \in RowId /\ outbox[r].handoff \in HandoffId /\ QueueInv
  <2>1. outbox[r] \in OutboxRow
    BY DEF Inv, RegistryInv, RegistryTypeOK
  <2>2. QED
    BY <2>1, Counts DEF Inv, OutboxRow
<1>2. CASE Queue!Known(r)
  BY <1>2, SameInbox DEF Queue!Receive, Queue!Known, Received
<1>3. CASE ~Queue!Known(r)
  <2>1. inbox' = Append(inbox, Queue!Fresh(r, outbox[r].handoff))
    BY <1>3 DEF Queue!Receive
  <2>2. QED
    BY <1>1, <2>1, RowReceivedAnew DEF Received
<1>4. QED
  BY <1>2, <1>3

-----------------------------------------------------------------------------
(* The steps of the registry                                               *)

\* No request changes, none is added, and none that is in progress is empty.
RequestsStay ==
  /\ Requests' = Requests
  /\ \A h \in Requests : handoff'[h] = handoff[h]
  /\ outbox' = outbox
  /\ \A s \in Shipment : correcting'[s] # None =>
       correcting'[s] = correcting[s] \/ correcting'[s].containers # {}

RequestAdded ==
  \E s \in Shipment, scope \in Scope \ {{}} : Revised(s, scope)

LEMMA RegistryAddsOrStays ==
  ASSUME SignalInv, RegistryNext PROVE RequestsStay \/ RequestAdded
<1>1. RegistryInv
  BY DEF SignalInv, Inv
<1>2. ASSUME NEW s \in Shipment, NEW containers \in Scope \ {{}},
             NEW proof \in Proof, AcceptNew(s, containers, proof)
      PROVE  RequestAdded
  <2>1. Revised(s, containers)
    BY <1>1, <1>2, NewRevises
  <2>2. QED
    BY <2>1 DEF RequestAdded
<1>3. ASSUME NEW s \in Shipment, NEW containers \in Scope \ {{}},
             NEW proof \in Proof, AcceptLate(s, containers, proof)
      PROVE  RequestAdded
  <2>1. Revised(s, Active(s) \cup containers)
    BY <1>1, <1>3, LateRevises
  <2>2. Active(s) \cup containers \in Scope \ {{}}
    BY DEF Active, Scope
  <2>3. QED
    BY <2>1, <2>2 DEF RequestAdded
<1>4. ASSUME NEW s \in Shipment, CommitCorrection(s)
      PROVE  RequestAdded
  <2>1. correcting[s] # None /\ correcting[s] \in Correction
    BY <1>1, <1>4 DEF CommitCorrection, RegistryInv, RegistryTypeOK
  <2>2. Revised(s, correcting[s].containers)
    BY <1>1, <1>4, CorrectionRevises
  <2>3. correcting[s].containers \in Scope \ {{}}
    BY <2>1 DEF SignalInv, NoRequestIsEmpty, Correction
  <2>4. QED
    BY <2>2, <2>3 DEF RequestAdded
<1>5. ASSUME NEW h \in DOMAIN handoff, NEW containers \in Scope \ {{}},
             BeginCorrection(h, containers)
      PROVE  RequestsStay
  <2> DEFINE order == [pred |-> h, rel |-> shipment[handoff[h].shipment].rel,
                       containers |-> containers]
  <2>1. order.containers = containers
    OBVIOUS
  <2>2. /\ correcting' = [correcting EXCEPT ![handoff[h].shipment] = order]
        /\ UNCHANGED <<shipment, link, handoff, outbox>>
    BY <1>5 DEF BeginCorrection
  <2> HIDE DEF order
  <2>3. correcting \in [Shipment -> Correction \cup {None}]
    BY <1>1 DEF RegistryInv, RegistryTypeOK
  <2>4. QED
    BY <2>1, <2>2, <2>3 DEF RequestsStay, Requests
<1>6. ASSUME NEW s \in Shipment, LoseCorrection(s) PROVE RequestsStay
  <2>1. correcting \in [Shipment -> Correction \cup {None}]
    BY <1>1 DEF RegistryInv, RegistryTypeOK
  <2>2. QED
    BY <1>6, <2>1 DEF LoseCorrection, RequestsStay, Requests
<1>7. ASSUME NEW s \in Shipment, NEW atd \in BOOLEAN, CompletePending(s, atd)
      PROVE  RequestsStay
  <2> DEFINE entry == Entry("completion", s, 1, "missing", shipment[s].rel, {})
  <2>1. handoff \in Seq(HandoffRow) /\ shipment[s].rel \in Nat
    BY <1>1 DEF RegistryInv, RegistryTypeOK, ShipmentRow
  <2>2. entry \in HandoffRow /\ entry.kind = "completion"
    <3>1. "completion" \in Kind /\ "missing" \in DepartureProof /\ {} \in Scope
      BY DEF Kind, DepartureProof, Scope
    <3>2. entry \in HandoffRow
      BY <2>1, <3>1, EntryType
    <3>3. entry.kind = "completion"
      BY DEF Entry
    <3>4. QED
      BY <3>2, <3>3
  <2>3. handoff' = Append(handoff, entry)
    BY <1>7 DEF CompletePending
  <2> HIDE DEF entry
  <2>4. /\ DOMAIN handoff' = DOMAIN handoff \cup {Len(handoff) + 1}
        /\ \A h \in DOMAIN handoff : handoff'[h] = handoff[h]
        /\ handoff'[Len(handoff) + 1] = entry
    BY <2>1, <2>2, <2>3, AppendFacts
  <2>5. Requests' = Requests /\ \A h \in Requests : handoff'[h] = handoff[h]
    BY <2>2, <2>4 DEF Requests
  <2>6. QED
    BY <1>7, <2>5 DEF CompletePending, RequestsStay
<1>8. QED
  BY <1>2, <1>3, <1>4, <1>5, <1>6, <1>7 DEF RegistryNext

LEMMA StayKeeps ==
  ASSUME SignalInv, RequestsStay, UNCHANGED <<queue, lifecycle>>
  PROVE  /\ RowsFollowVersions' /\ RowsAreReceived'
         /\ StartsLast' /\ NoRequestIsEmpty'
<1>1. RowsFollowVersions'
  BY DEF SignalInv, Inv, RegistryInv, RowsCarryRequests, RequestsStay,
     RowsFollowVersions, ShipmentOf, Rel
<1>2. RowsAreReceived'
  BY DEF SignalInv, RequestsStay, queue, RowsAreReceived, Received
<1>3. StartsLast'
  BY DEF SignalInv, RequestsStay, lifecycle, StartsLast
<1>4. NoRequestIsEmpty'
  BY DEF SignalInv, RequestsStay, NoRequestIsEmpty
<1>5. QED
  BY <1>1, <1>2, <1>3, <1>4

\* A new request is announced by a row of its own, after all others, for a
\* version above those of the shipment's other requests.
LEMMA AnnouncedInOrder ==
  ASSUME SignalInv, NEW s \in Shipment, NEW scope, Revised(s, scope)
  PROVE  RowsFollowVersions' /\ OutboxLasts
<1> DEFINE n == Len(handoff) + 1
           row == [handoff |-> n, state |-> "open", replay |-> FALSE]
<1>1. /\ outbox \in Seq(OutboxRow) /\ handoff \in Seq(HandoffRow)
      /\ n \in Nat
  BY DEF SignalInv, Inv, RegistryInv, RegistryTypeOK
<1>2. row.handoff = n /\ row.state = "open" /\ ~row.replay
  OBVIOUS
<1>3. outbox' = Append(outbox, row)
  BY DEF Revised
<1> HIDE DEF row
<1> PICK k : k = Len(outbox) + 1
  OBVIOUS
<1>4. /\ DOMAIN outbox = 1..Len(outbox) /\ Len(outbox) \in Nat
      /\ DOMAIN outbox' = DOMAIN outbox \cup {k} /\ k \notin DOMAIN outbox
      /\ \A r \in DOMAIN outbox : outbox'[r] = outbox[r]
      /\ outbox'[k] = row
  BY <1>1, <1>3
<1>5. OutboxLasts
  BY <1>2, <1>4 DEF OutboxLasts
<1>6. /\ Requests' \subseteq Requests \cup {n}
      /\ handoff'[n].shipment = s /\ handoff'[n].rel = shipment[s].rel + 1
      /\ \A h \in Requests : /\ handoff'[h].shipment = handoff[h].shipment
                             /\ handoff'[h].rel = handoff[h].rel
  BY DEF Revised, Requests
<1>7. ASSUME NEW h \in Requests'
      PROVE  \E r \in DOMAIN outbox' : outbox'[r].handoff = h /\ ~outbox'[r].replay
  <2>1. CASE h = n
    BY <1>2, <1>4, <2>1
  <2>2. CASE h \in Requests
    BY <1>4, <2>2 DEF SignalInv, RowsFollowVersions
  <2>3. QED
    BY <1>6, <2>1, <2>2
<1> HIDE DEF n
<1>8. \A r \in DOMAIN outbox : /\ outbox[r].handoff \in Requests
                               /\ ShipmentOf(r)' = ShipmentOf(r)
                               /\ Rel(r)' = Rel(r)
  BY <1>4, <1>6 DEF SignalInv, Inv, RegistryInv, RowsCarryRequests, ShipmentOf, Rel
<1>9. ShipmentOf(k)' = s /\ Rel(k)' = shipment[s].rel + 1
  BY <1>2, <1>4, <1>6 DEF ShipmentOf, Rel
<1>10. shipment[s].rel \in Nat
  BY DEF SignalInv, Inv, RegistryInv, RegistryTypeOK, ShipmentRow
<1>11. \A r \in DOMAIN outbox :
         Rel(r) \in Nat /\ (ShipmentOf(r) = s => Rel(r) <= shipment[s].rel)
  BY <1>8, RequestFacts
  DEF SignalInv, Inv, RegistryInv, VersionsIdentify, ShipmentOf, Rel
<1>12. ASSUME NEW q \in DOMAIN outbox', NEW r \in DOMAIN outbox',
              ~outbox'[q].replay, ~outbox'[r].replay,
              ShipmentOf(q)' = ShipmentOf(r)', Rel(q)' < Rel(r)'
       PROVE  q < r
  <2>1. CASE q \in DOMAIN outbox /\ r \in DOMAIN outbox
    BY <1>4, <1>8, <1>12, <2>1 DEF SignalInv, RowsFollowVersions
  <2>2. CASE q \in DOMAIN outbox /\ r = k
    BY <1>4, <2>2
  <2>3. CASE q = k /\ r \in DOMAIN outbox
    BY <1>8, <1>9, <1>10, <1>11, <1>12, <2>3
  <2>4. CASE q = k /\ r = k
    BY <1>9, <1>10, <1>12, <2>4
  <2>5. QED
    BY <1>4, <2>1, <2>2, <2>3, <2>4
<1>13. QED
  BY <1>5, <1>7, <1>12 DEF RowsFollowVersions

LEMMA RevisedKeeps ==
  ASSUME SignalInv, NEW s \in Shipment, NEW scope, Revised(s, scope), scope # {},
         UNCHANGED <<queue, lifecycle>>
  PROVE  /\ RowsFollowVersions' /\ RowsAreReceived'
         /\ StartsLast' /\ NoRequestIsEmpty'
<1>1. RowsFollowVersions' /\ OutboxLasts
  BY AnnouncedInOrder
<1>2. RowsAreReceived'
  BY <1>1, SameInbox, ReceivedLasts DEF queue, SignalInv
<1>3. \A h \in Requests : h \in Requests' /\ handoff'[h].scope = handoff[h].scope
  BY DEF Revised, Requests
<1>4. StartsLast'
  BY <1>3 DEF SignalInv, StartsLast, lifecycle
<1>5. \A h \in Requests' : handoff'[h].scope # {}
  BY DEF SignalInv, NoRequestIsEmpty, Revised, Requests
<1>6. NoRequestIsEmpty'
  BY <1>5 DEF SignalInv, NoRequestIsEmpty, Revised
<1>7. QED
  BY <1>1, <1>2, <1>4, <1>6

LEMMA RegisterSignals ==
  ASSUME SignalInv, Register PROVE SignalInv'
<1>1. Inv'
  BY RegisterKeeps DEF SignalInv
<1>2. RequestsStay \/ RequestAdded
  BY RegistryAddsOrStays DEF Register
<1>3. UNCHANGED <<queue, lifecycle>>
  BY DEF Register
<1>4. CASE RequestsStay
  BY <1>1, <1>3, <1>4, StayKeeps DEF SignalInv
<1>5. CASE RequestAdded
  <2>1. PICK s \in Shipment, scope \in Scope \ {{}} : Revised(s, scope)
    BY <1>5 DEF RequestAdded
  <2>2. QED
    BY <1>1, <1>3, <2>1, RevisedKeeps DEF SignalInv
<1>6. QED
  BY <1>2, <1>4, <1>5

-----------------------------------------------------------------------------
(* The other steps                                                         *)

\* The handoffs stay, the rows of the outbox and the inbox last, and what the
\* outbox adds is a replay.
LEMMA OthersKeep ==
  ASSUME SignalInv, Inv', UNCHANGED <<handoff, correcting>>,
         InboxLasts, OutboxLasts, StartsLast',
         \A r \in DOMAIN outbox' \ DOMAIN outbox : outbox'[r].replay
  PROVE  SignalInv'
<1>1. Requests' = Requests
  BY DEF Requests
<1>2. ASSUME NEW r \in DOMAIN outbox', ~outbox'[r].replay
      PROVE  /\ r \in DOMAIN outbox /\ ~outbox[r].replay
             /\ ShipmentOf(r)' = ShipmentOf(r) /\ Rel(r)' = Rel(r)
  BY <1>2 DEF OutboxLasts, ShipmentOf, Rel
<1>3. \A q, r \in DOMAIN outbox' :
        /\ ~outbox'[q].replay /\ ~outbox'[r].replay
        /\ ShipmentOf(q)' = ShipmentOf(r)'
        /\ Rel(q)' < Rel(r)'
        => q < r
  BY <1>2 DEF SignalInv, RowsFollowVersions
<1>4. \A h \in Requests : \E r \in DOMAIN outbox' :
        outbox'[r].handoff = h /\ ~outbox'[r].replay
  BY DEF SignalInv, RowsFollowVersions, OutboxLasts
<1>5. RowsFollowVersions'
  BY <1>1, <1>3, <1>4 DEF RowsFollowVersions
<1>6. RowsAreReceived'
  BY ReceivedLasts DEF SignalInv
<1>7. NoRequestIsEmpty'
  BY <1>1 DEF SignalInv, NoRequestIsEmpty
<1>8. QED
  BY <1>5, <1>6, <1>7 DEF SignalInv

LEMMA SameStarts ==
  ASSUME SignalInv, UNCHANGED <<handoff, lifecycle>> PROVE StartsLast'
  BY DEF SignalInv, StartsLast, lifecycle, Requests

LEMMA SameOutbox ==
  ASSUME outbox' = outbox
  PROVE  /\ OutboxLasts
         /\ \A r \in DOMAIN outbox' \ DOMAIN outbox : outbox'[r].replay
  BY DEF OutboxLasts

\* A step of the inbox on its own
LEMMA InboxStepKeeps ==
  ASSUME SignalInv, Inv', OnlyQueue, InboxLasts PROVE SignalInv'
<1>1. UNCHANGED <<handoff, correcting, outbox, lifecycle>>
  BY DEF OnlyQueue, registry
<1>2. QED
  BY <1>1, SameStarts, SameOutbox, OthersKeep

\* One row of the outbox comes to be published, received, or a dead letter.
LEMMA MarkLasts ==
  ASSUME SignalInv, NEW r \in DOMAIN outbox, NEW state \in {"published", "dead"},
         Mark(r, state), state = "published" => Received(r)'
  PROVE  /\ OutboxLasts
         /\ \A q \in DOMAIN outbox' \ DOMAIN outbox : outbox'[q].replay
<1> DEFINE row == [outbox[r] EXCEPT !.state = state]
<1>1. outbox \in Seq(OutboxRow) /\ outbox[r] \in OutboxRow
  BY DEF SignalInv, Inv, RegistryInv, RegistryTypeOK
<1>2. /\ row.handoff = outbox[r].handoff /\ row.replay = outbox[r].replay
      /\ row.state = state
  BY <1>1 DEF OutboxRow
<1>3. outbox' = [outbox EXCEPT ![r] = row]
  BY DEF Mark
<1> HIDE DEF row
<1>4. /\ DOMAIN outbox' = DOMAIN outbox
      /\ \A q \in DOMAIN outbox : outbox'[q] = IF q = r THEN row ELSE outbox[q]
  BY <1>1, <1>3
<1>5. QED
  BY <1>2, <1>4 DEF OutboxLasts

LEMMA DeliverSignals ==
  ASSUME SignalInv, NEW r \in DOMAIN outbox, Deliver(r) PROVE SignalInv'
<1>1. Inv /\ Inv'
  BY DeliverKeeps DEF SignalInv
<1>2. InboxLasts /\ Received(r)'
  BY <1>1, ReceiveLasts DEF Deliver
<1>3. UNCHANGED <<handoff, correcting, lifecycle>> /\ Mark(r, "published")
  BY DEF Deliver, registry
<1>4. QED
  BY <1>1, <1>2, <1>3, MarkLasts, SameStarts, OthersKeep

LEMMA DeliverOnlySignals ==
  ASSUME SignalInv, NEW r \in DOMAIN outbox, DeliverOnly(r) PROVE SignalInv'
<1>1. Inv /\ Inv'
  BY DeliverOnlyKeeps DEF SignalInv
<1>2. InboxLasts
  BY <1>1, ReceiveLasts DEF DeliverOnly
<1>3. OnlyQueue
  BY DEF DeliverOnly, OnlyQueue
<1>4. QED
  BY <1>1, <1>2, <1>3, InboxStepKeeps

LEMMA GiveUpSignals ==
  ASSUME SignalInv, NEW r \in DOMAIN outbox, GiveUp(r) PROVE SignalInv'
<1>1. Inv /\ Inv'
  BY GiveUpKeeps DEF SignalInv
<1>2. UNCHANGED <<handoff, correcting, lifecycle, inbox>> /\ Mark(r, "dead")
  BY DEF GiveUp, registry
<1>3. QED
  BY <1>1, <1>2, SameInbox, MarkLasts, SameStarts, OthersKeep

LEMMA ReplaySignals ==
  ASSUME SignalInv, NEW r \in DOMAIN outbox, Replay(r) PROVE SignalInv'
<1> DEFINE row == [handoff |-> outbox[r].handoff, state |-> "open", replay |-> TRUE]
<1>1. Inv /\ Inv'
  BY ReplayKeeps DEF SignalInv
<1>2. outbox \in Seq(OutboxRow)
  BY <1>1 DEF Inv, RegistryInv, RegistryTypeOK
<1>3. row.state = "open" /\ row.replay
  OBVIOUS
<1>4. /\ outbox' = Append(outbox, row)
      /\ UNCHANGED <<handoff, correcting, lifecycle, inbox>>
  BY DEF Replay, registry
<1> HIDE DEF row
<1>5. /\ DOMAIN outbox' = DOMAIN outbox \cup {Len(outbox) + 1}
      /\ \A q \in DOMAIN outbox : outbox'[q] = outbox[q]
      /\ outbox'[Len(outbox) + 1] = row
  BY <1>2, <1>4
<1>6. /\ OutboxLasts
      /\ \A q \in DOMAIN outbox' \ DOMAIN outbox : outbox'[q].replay
  BY <1>3, <1>5 DEF OutboxLasts
<1>7. QED
  BY <1>1, <1>4, <1>6, SameInbox, SameStarts, OthersKeep

LEMMA PlanFlowSignals ==
  ASSUME SignalInv, NEW c \in Container, PlanFlow(c) PROVE SignalInv'
<1>1. Inv /\ Inv'
  BY PlanFlowKeeps DEF SignalInv
<1>2. /\ UNCHANGED <<handoff, correcting, outbox, inbox, applied>>
      /\ flow[c] = NoFlow /\ flow' = [flow EXCEPT ![c] = Planned]
  BY DEF PlanFlow, registry
<1>3. \A h \in applied : h # NoFlow
  BY <1>1 DEF Inv, LifecycleInv, HandoffId
<1>4. flow \in [Container -> {NoFlow, Planned} \cup HandoffId]
  BY <1>1 DEF Inv, LifecycleInv
<1>5. \A h \in Requests : handoff[h].scope \subseteq Container
  <2>1. \A h \in Requests : handoff[h] \in HandoffRow
    BY <1>1 DEF Inv, RegistryInv, RegistryTypeOK, Requests
  <2>2. QED
    BY <2>1 DEF HandoffRow, Scope
<1>6. StartsLast'
  <2> SUFFICES ASSUME NEW h \in applied
               PROVE  h \in Requests' /\ \A d \in handoff'[h].scope : flow'[d] = h
    BY <1>2 DEF StartsLast
  <2>1. h \in Requests /\ \A d \in handoff[h].scope : flow[d] = h
    BY DEF SignalInv, StartsLast
  <2>2. c \notin handoff[h].scope
    BY <1>2, <1>3, <2>1
  <2>3. h \in Requests'
    BY <1>2, <2>1 DEF Requests
  <2>4. QED
    BY <1>2, <1>4, <1>5, <2>1, <2>2, <2>3
<1>7. QED
  BY <1>1, <1>2, <1>6, SameInbox, SameOutbox, OthersKeep

LEMMA StartSignals ==
  ASSUME SignalInv, NEW w \in Worker, Start(w) PROVE SignalInv'
<1>1. Inv /\ Inv' /\ QueueInv
  BY StartKeeps DEF SignalInv, Inv
<1>2. PICK h : h = Request(w)
  OBVIOUS
<1>3. /\ UNCHANGED <<handoff, correcting, outbox>>
      /\ ~Queue!Idle(w) /\ Queue!Complete(w)
      /\ Unflowed(h) /\ applied' = applied \cup {h}
      /\ flow' = [c \in Container |-> IF c \in handoff[h].scope THEN h ELSE flow[c]]
  BY <1>2 DEF Start, At, Collides
<1>4. h \in Requests
  BY <1>1, <1>2, <1>3, InHand DEF Request
<1>5. \A g \in Requests : handoff[g].scope \subseteq Container
  <2>1. \A g \in Requests : handoff[g] \in HandoffRow
    BY <1>1 DEF Inv, RegistryInv, RegistryTypeOK, Requests
  <2>2. QED
    BY <2>1 DEF HandoffRow, Scope
<1>6. \A g \in applied : g # NoFlow
  BY <1>1 DEF Inv, LifecycleInv, HandoffId
<1>7. StartsLast'
  <2> SUFFICES ASSUME NEW g \in applied'
               PROVE  g \in Requests' /\ \A d \in handoff'[g].scope : flow'[d] = g
    BY DEF StartsLast
  <2>1. Requests' = Requests
    BY <1>3 DEF Requests
  <2>2. CASE g = h
    BY <1>3, <1>4, <1>5, <2>1, <2>2
  <2>3. CASE g \in applied
    <3>1. g \in Requests /\ \A d \in handoff[g].scope : flow[d] = g
      BY <2>3 DEF SignalInv, StartsLast
    <3>2. \A d \in handoff[g].scope : d \notin handoff[h].scope
      BY <1>3, <1>6, <2>3, <3>1 DEF Unflowed
    <3>3. QED
      BY <1>3, <1>5, <2>1, <3>1, <3>2
  <2>4. QED
    BY <1>3, <2>2, <2>3
<1>8. InboxLasts
  BY <1>1, <1>3, CompleteLasts
<1>9. QED
  BY <1>1, <1>3, <1>7, <1>8, SameOutbox, OthersKeep

LEMMA ReadSignals ==
  ASSUME SignalInv, NEW w \in Worker, Read(w) PROVE SignalInv'
<1>1. Inv /\ Inv' /\ QueueInv
  BY ReadKeeps DEF SignalInv, Inv
<1>2. OnlyQueue /\ ~Queue!Idle(w)
  BY DEF Read, At, OnlyQueue
<1>3. Queue!Complete(w) \/ inbox' = inbox
  BY DEF Read, Queue!LoseLease, Queue!ReadsPass, Queue!Fail
<1>4. InboxLasts
  BY <1>1, <1>2, <1>3, CompleteLasts, SameInbox
<1>5. QED
  BY <1>1, <1>2, <1>4, InboxStepKeeps

LEMMA AbortSignals ==
  ASSUME SignalInv, NEW w \in Worker, Abort(w) PROVE SignalInv'
<1>1. Inv'
  BY AbortKeeps DEF SignalInv
<1>2. OnlyQueue /\ inbox' = inbox
  BY DEF Abort, OnlyQueue, Queue!LoseLease, Queue!Fail
<1>3. QED
  BY <1>1, <1>2, SameInbox, InboxStepKeeps

LEMMA DatabaseFailsSignals ==
  ASSUME SignalInv, NEW w \in Worker, DatabaseFails(w) PROVE SignalInv'
<1>1. Inv'
  BY DatabaseFailsKeeps DEF SignalInv
<1>2. OnlyQueue /\ inbox' = inbox
  BY DEF DatabaseFails, OnlyQueue, Queue!Fail
<1>3. QED
  BY <1>1, <1>2, SameInbox, InboxStepKeeps

LEMMA StepSignals == SignalInv /\ [Next]_vars => SignalInv'
<1> SUFFICES ASSUME SignalInv, [Next]_vars PROVE SignalInv'
  OBVIOUS
<1>1. QueueInv /\ Inv'
  BY StepInv DEF SignalInv, Inv
<1>2. CASE Register
  BY <1>2, RegisterSignals
<1>3. ASSUME NEW c \in Container, PlanFlow(c) PROVE SignalInv'
  BY <1>3, PlanFlowSignals
<1>4. ASSUME NEW r \in DOMAIN outbox,
             Deliver(r) \/ DeliverOnly(r) \/ GiveUp(r) \/ Replay(r)
      PROVE  SignalInv'
  BY <1>4, DeliverSignals, DeliverOnlySignals, GiveUpSignals, ReplaySignals
<1>5. ASSUME NEW w \in Worker, Claim(w) PROVE SignalInv'
  BY <1>1, <1>5, ClaimLasts, InboxStepKeeps DEF Claim, Smooth
<1>6. ASSUME NEW w \in Worker, RecordFailure(w) PROVE SignalInv'
  BY <1>1, <1>6, RecordFailureLasts, InboxStepKeeps DEF RecordFailure, Smooth
<1>7. ASSUME NEW w \in Worker, Work(w) PROVE SignalInv'
  BY <1>6, <1>7, ReadSignals, StartSignals, AbortSignals DEF Work
<1>8. ASSUME NEW w \in Worker, DatabaseFails(w) PROVE SignalInv'
  BY <1>8, DatabaseFailsSignals
<1>9. ASSUME NEW w \in Worker, Crash(w) PROVE SignalInv'
  BY <1>1, <1>9, SameInbox, InboxStepKeeps DEF Crash, Queue!Crash
<1>10. ASSUME NEW i \in DOMAIN inbox, Expire(i) \/ LapseEarly(i) PROVE SignalInv'
  BY <1>1, <1>10, LapseLasts, InboxStepKeeps DEF Expire, LapseEarly, Smooth
<1>11. ASSUME NEW i \in DOMAIN inbox, NEW source \in DOMAIN inbox, Revive(i, source)
       PROVE  SignalInv'
  BY <1>1, <1>11, ReviveLasts, InboxStepKeeps DEF Revive
<1>12. CASE UNCHANGED vars
  <2>1. OnlyQueue /\ inbox' = inbox
    BY <1>12 DEF vars, OnlyQueue, registry, queue, lifecycle
  <2>2. QED
    BY <1>1, <2>1, SameInbox, InboxStepKeeps
<1>13. QED
  BY <1>2, <1>3, <1>4, <1>5, <1>7, <1>8, <1>9, <1>10, <1>11, <1>12 DEF Next

LEMMA InitSignals == Init => SignalInv
<1> SUFFICES ASSUME Init PROVE SignalInv
  OBVIOUS
<1>1. Inv
  BY InitInv
<1>2. /\ handoff = <<>> /\ outbox = <<>> /\ inbox = <<>> /\ applied = {}
      /\ \A s \in Shipment : correcting[s] = None
  BY DEF Init, RegistryInit, Queue!InboxInit
<1>3. Requests = {} /\ DOMAIN outbox = {} /\ DOMAIN inbox = {}
  BY <1>2 DEF Requests
<1>4. QED
  BY <1>1, <1>2, <1>3
  DEF SignalInv, RowsFollowVersions, RowsAreReceived, StartsLast, NoRequestIsEmpty

-----------------------------------------------------------------------------
(* The theorem                                                             *)

\* A shipment the projection calls pending, for whose latest request nobody
\* replayed the message, has that message on its way: in the outbox, or in
\* the inbox as a row that is still open.
THEOREM PendingMeansUnderWay == Spec => []PendingIsUnderWay
<1>1. Spec => []SignalInv
  BY InitSignals, StepSignals, PTL DEF Spec
<1>2. QED
  BY <1>1, PendingFollows, PTL
=============================================================================
