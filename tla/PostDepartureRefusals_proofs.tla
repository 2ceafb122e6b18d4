-------------------- MODULE PostDepartureRefusals_proofs --------------------
(***************************************************************************)
(* A start request is refused as business only for a reason: the proof that*)
(* RefusedForAReason is an invariant of PostDeparture, on top of the       *)
(* invariant of PostDeparture_proofs.                                      *)
(***************************************************************************)
EXTENDS PostDeparture_proofs

USE HandoffAssumption, PostDepartureAssumption

-----------------------------------------------------------------------------
(* The inductive invariant                                                 *)

\* The shipment of a handoff exists, and knows the departure time its first
\* handoff proved.
ShipmentsOfHandoffs ==
  \A g \in DOMAIN handoff :
    /\ Exists(handoff[g].shipment)
    /\ handoff[g].kind = "new" /\ handoff[g].proof = "actual_time"
         => shipment[handoff[g].shipment].atd

LifecyclesBegin == \A s \in Shipment : Exists(s) => shipment[s].lc >= 1

\* Every refusal that is known, to a row or to a worker, is of a request in G.
RefusedIn(G) ==
  /\ \A i \in DOMAIN inbox :
       inbox[i].cause = "business_rejected" => inbox[i].payload \in G
  /\ \A w \in Worker : ~Queue!Idle(w) /\ task[w].cause = "business_rejected"
       => Queue!Message(w).payload \in G

Grounded == {h \in Requests : Grounds(h)}

RefusalInv ==
  /\ Inv
  /\ ShipmentsOfHandoffs
  /\ LifecyclesBegin
  /\ RefusedIn(Grounded)

-----------------------------------------------------------------------------
(* Refusals have grounds                                                   *)

LEMMA NotCurrent ==
  ASSUME RefusalInv, NEW h \in Requests, ~Current(h) PROVE Grounds(h)
<1> DEFINE s == handoff[h].shipment
<1>1. handoff[h] \in HandoffRow /\ h \in DOMAIN handoff
  BY DEF RefusalInv, Inv, RegistryInv, RegistryTypeOK, Requests
<1>2. s \in Shipment /\ handoff[h].rel \in Nat
  BY <1>1 DEF HandoffRow
<1>3. shipment[s].rel \in Nat /\ shipment[s].lc \in Nat
  BY <1>2 DEF RefusalInv, Inv, RegistryInv, RegistryTypeOK, ShipmentRow
<1>4. handoff[h].rel <= shipment[s].rel /\ shipment[s].lc >= 1
  BY <1>1, <1>2 DEF RefusalInv, Inv, RegistryInv, VersionsIdentify,
     ShipmentsOfHandoffs, LifecyclesBegin
<1>5. shipment[s].rel > handoff[h].rel \/ shipment[s].lc > 1
  BY <1>2, <1>3, <1>4 DEF Current
<1>6. QED
  BY <1>5 DEF Grounds

\* A current request is that of an accepted handoff.
LEMMA CurrentIsAccepted ==
  ASSUME RefusalInv, NEW h \in Requests, Current(h)
  PROVE  h \in Accepted(handoff[h].shipment)
<1>1. RegistryInv
  BY DEF RefusalInv, Inv
<1>2. handoff[h].shipment \in Shipment /\ Exists(handoff[h].shipment)
  BY <1>1, CurrentNamesActive
<1>3. PICK g \in Requests \cap Accepted(handoff[h].shipment) :
        handoff[g].rel = shipment[handoff[h].shipment].rel
  BY <1>1, <1>2 DEF RegistryInv, RequestNamesActive
<1>4. g = h
  BY <1>1, <1>3 DEF RegistryInv, VersionsIdentify, Current, Accepted
<1>5. QED
  BY <1>3, <1>4

LEMMA NotStartable ==
  ASSUME RefusalInv, NEW h \in Requests,
         NEW newest \in Newest(handoff[h].shipment), ~Startable(h, newest)
  PROVE  Grounds(h)
<1> DEFINE s == handoff[h].shipment
<1>1. /\ h \in DOMAIN handoff /\ handoff[h] \in HandoffRow
  BY DEF RefusalInv, Inv, RegistryInv, RegistryTypeOK, Requests
<1>2. CASE ~Current(h)
  BY <1>2, NotCurrent
<1>3. CASE Current(h) /\ newest # h
  <2>1. h \in Accepted(s)
    BY <1>3, CurrentIsAccepted
  <2>2. newest \in Accepted(s) /\ handoff[h].version <= handoff[newest].version
    BY <2>1 DEF Newest
  <2>3. handoff[newest] \in HandoffRow
    BY <2>2 DEF RefusalInv, Inv, RegistryInv, RegistryTypeOK, Accepted
  <2>4. handoff[newest].version >= handoff[h].version
    BY <1>1, <2>2, <2>3 DEF HandoffRow
  <2>5. QED
    BY <1>3, <2>2, <2>4 DEF Grounds
<1>4. CASE ~Proven(h)
  <2>1. handoff[h].proof \in {"missing", "actual_time", "status"}
    BY <1>1 DEF HandoffRow, DepartureProof
  <2>2. CASE handoff[h].proof = "missing"
    BY <2>2 DEF Grounds
  <2>3. CASE handoff[h].proof = "actual_time"
    <3>1. ~shipment[s].atd
      BY <1>4, <2>3 DEF Proven
    <3>2. ~TimedFromTheStart(s)
      BY <3>1 DEF TimedFromTheStart, RefusalInv, ShipmentsOfHandoffs
    <3>3. QED
      BY <2>3, <3>2 DEF Grounds
  <2>4. QED
    BY <1>4, <2>1, <2>2, <2>3 DEF Proven
<1>5. CASE ~Unflowed(h)
  BY <1>5 DEF Unflowed, Grounds
<1>6. CASE Current(h) /\ Active(s) # handoff[h].scope
  BY <1>6, CurrentNamesActive DEF RefusalInv, Inv
<1>7. QED
  BY <1>2, <1>3, <1>4, <1>5, <1>6 DEF Startable

-----------------------------------------------------------------------------
(* The inbox: causes only pass from a worker to its message                *)

\* One row is overwritten, and perhaps a worker let go.
LEMMA RowOverwritten ==
  ASSUME QueueInv, NEW G, RefusedIn(G), NEW i \in DOMAIN inbox, NEW row,
         row.payload = inbox[i].payload,
         row.cause = "business_rejected" => row.payload \in G,
         inbox' = [inbox EXCEPT ![i] = row],
         \A w \in Worker : task'[w] # None =>
           \/ task'[w] = task[w]
           \/ task'[w].cause # "business_rejected"
  PROVE  RefusedIn(G)'
<1>1. /\ inbox \in Seq(Queue!Row)
      /\ DOMAIN inbox' = DOMAIN inbox
      /\ \A j \in DOMAIN inbox : inbox'[j] = IF j = i THEN row ELSE inbox[j]
  BY DEF QueueInv, Queue!InboxTypeOK
<1>2. \A j \in DOMAIN inbox : inbox'[j].payload = inbox[j].payload
  BY <1>1
<1>3. \A j \in DOMAIN inbox :
        inbox'[j].cause = "business_rejected" => inbox'[j].payload \in G
  BY <1>1 DEF RefusedIn
<1>4. ASSUME NEW w \in Worker, task'[w] # None, task'[w].cause = "business_rejected"
      PROVE  inbox'[task'[w].message].payload \in G
  <2>1. task'[w] = task[w]
    BY <1>4
  <2>2. task[w].message \in DOMAIN inbox /\ inbox[task[w].message].payload \in G
    BY <1>4, <2>1 DEF RefusedIn, QueueInv, Queue!InboxTypeOK, Queue!Idle,
       Queue!Message
  <2>3. QED
    BY <1>2, <2>1, <2>2
<1>5. QED
  BY <1>1, <1>3, <1>4 DEF RefusedIn, Queue!Idle, Queue!Message

\* A fresh row is added.
LEMMA FreshRow ==
  ASSUME QueueInv, NEW G, RefusedIn(G), NEW event \in RowId \cup {None},
         NEW payload \in Requests \cap HandoffId, UNCHANGED task,
         inbox' = Append(inbox, Queue!Fresh(event, payload))
  PROVE  RefusedIn(G)'
<1> DEFINE row == Queue!Fresh(event, payload)
<1>1. inbox \in Seq(Queue!Row)
  BY DEF QueueInv, Queue!InboxTypeOK
<1>2. row \in Queue!Row /\ row.cause = "none"
  BY DEF Queue!Fresh, Queue!Row, Queue!Cause
<1> HIDE DEF row
<1>3. inbox' = Append(inbox, row)
  BY DEF row
<1>4. /\ DOMAIN inbox' = DOMAIN inbox \cup {Len(inbox) + 1}
      /\ \A j \in DOMAIN inbox : inbox'[j] = inbox[j]
      /\ inbox'[Len(inbox) + 1] = row
  BY <1>1, <1>2, <1>3, AppendFacts
<1>5. \A w \in Worker : ~Queue!Idle(w) => task[w].message \in DOMAIN inbox
  BY DEF QueueInv, Queue!InboxTypeOK
<1>6. QED
  BY <1>2, <1>4, <1>5 DEF RefusedIn, Queue!Idle, Queue!Message

\* The rows stay as they are.
LEMMA TasksChange ==
  ASSUME NEW G, RefusedIn(G), UNCHANGED inbox, NEW w \in Worker,
         NEW t, t # None => t.message = task[w].message,
         t # None /\ t.cause = "business_rejected" => Queue!Message(w).payload \in G,
         task' = [task EXCEPT ![w] = t], QueueInv
  PROVE  RefusedIn(G)'
<1>1. \A v \in Worker : task'[v] = IF v = w THEN t ELSE task[v]
  BY DEF QueueInv, Queue!InboxTypeOK
<1>2. QED
  BY <1>1 DEF RefusedIn, Queue!Idle, Queue!Message

LEMMA ReceiveRefusals ==
  ASSUME QueueInv, NEW G, RefusedIn(G), NEW event \in RowId,
         NEW payload \in Requests \cap HandoffId, Queue!Receive(event, payload)
  PROVE  RefusedIn(G)'
<1>1. CASE Queue!Known(event)
  BY <1>1 DEF Queue!Receive, RefusedIn, Queue!Idle, Queue!Message
<1>2. CASE ~Queue!Known(event)
  BY <1>2, FreshRow DEF Queue!Receive
<1>3. QED
  BY <1>1, <1>2

LEMMA ReviveRefusals ==
  ASSUME QueueInv, NEW G, RefusedIn(G), NEW i \in DOMAIN inbox,
         NEW source \in DOMAIN inbox, Queue!Revive(i, source)
  PROVE  RefusedIn(G)'
<1>1. inbox[source] \in Queue!Row /\ inbox[source].payload \in Requests
  BY DEF QueueInv, Queue!InboxTypeOK, Sound
<1>2. inbox[source].payload \in Requests \cap HandoffId
  BY <1>1 DEF Queue!Row
<1>3. QED
  BY <1>2, FreshRow DEF Queue!Revive

LEMMA ClaimRefusals ==
  ASSUME QueueInv, NEW G, RefusedIn(G), NEW w \in Worker, NEW i \in DOMAIN inbox,
         Queue!Claim(w, i)
  PROVE  RefusedIn(G)'
<1> DEFINE row == [inbox[i] EXCEPT !.state = "processing", !.leased = TRUE]
<1>1. inbox[i] \in Queue!Row
  BY DEF QueueInv, Queue!InboxTypeOK
<1>2. row.payload = inbox[i].payload /\ row.cause = inbox[i].cause
  BY <1>1 DEF Queue!Row
<1>3. inbox' = [inbox EXCEPT ![i] = row]
  BY DEF Queue!Claim
<1>4. \A v \in Worker : task'[v] = task[v] \/ task'[v].cause # "business_rejected"
  BY DEF Queue!Claim, QueueInv, Queue!InboxTypeOK
<1> HIDE DEF row
<1>5. row.cause = "business_rejected" => row.payload \in G
  BY <1>2 DEF RefusedIn
<1>6. QED
  BY <1>2, <1>3, <1>4, <1>5, RowOverwritten

LEMMA ReadsPassRefusals ==
  ASSUME QueueInv, NEW G, RefusedIn(G), NEW w \in Worker, ~Queue!Idle(w),
         Queue!ReadsPass(w)
  PROVE  RefusedIn(G)'
<1> DEFINE t == [task[w] EXCEPT !.step = "writing"]
<1>1. t.message = task[w].message /\ t.cause = task[w].cause
  BY InHand DEF Queue!Task
<1>2. task' = [task EXCEPT ![w] = t] /\ inbox' = inbox
  BY DEF Queue!ReadsPass
<1>3. t.cause = "business_rejected" => Queue!Message(w).payload \in G
  BY <1>1 DEF RefusedIn
<1> HIDE DEF t
<1>4. QED
  BY <1>1, <1>2, <1>3, TasksChange

LEMMA FailRefusals ==
  ASSUME QueueInv, NEW G, RefusedIn(G), NEW w \in Worker, ~Queue!Idle(w),
         NEW cause \in Queue!Cause,
         cause = "business_rejected" => Queue!Message(w).payload \in G,
         Queue!Fail(w, cause)
  PROVE  RefusedIn(G)'
<1> DEFINE t == [task[w] EXCEPT !.step = "failed", !.cause = cause]
<1>1. t.message = task[w].message /\ t.cause = cause
  BY InHand DEF Queue!Task
<1>2. task' = [task EXCEPT ![w] = t] /\ inbox' = inbox
  BY DEF Queue!Fail, Queue!Failed
<1> HIDE DEF t
<1>3. QED
  BY <1>1, <1>2, TasksChange

LEMMA CrashRefusals ==
  ASSUME QueueInv, NEW G, RefusedIn(G), NEW w \in Worker, Queue!Crash(w)
  PROVE  RefusedIn(G)'
  BY TasksChange DEF Queue!Crash

LEMMA CompleteRefusals ==
  ASSUME QueueInv, NEW G, RefusedIn(G), NEW w \in Worker, ~Queue!Idle(w),
         Queue!Complete(w)
  PROVE  RefusedIn(G)'
<1> DEFINE i == task[w].message
           row == [inbox[i] EXCEPT !.state = "processed", !.leased = FALSE]
<1>1. i \in DOMAIN inbox /\ inbox[i] \in Queue!Row
  BY InHand
<1>2. row.payload = inbox[i].payload /\ row.cause = inbox[i].cause
  BY <1>1 DEF Queue!Row
<1>3. inbox' = [inbox EXCEPT ![i] = row]
  BY <1>1 DEF Queue!Complete
<1>4. \A v \in Worker : task'[v] # None => task'[v] = task[v]
  BY DEF Queue!Complete, QueueInv, Queue!InboxTypeOK
<1> HIDE DEF row, i
<1>5. row.cause = "business_rejected" => row.payload \in G
  BY <1>1, <1>2 DEF RefusedIn
<1>6. QED
  BY <1>1, <1>2, <1>3, <1>4, <1>5, RowOverwritten

LEMMA RecordRefusals ==
  ASSUME QueueInv, NEW G, RefusedIn(G), NEW w \in Worker, Queue!RecordFailure(w)
  PROVE  RefusedIn(G)'
<1>1. ~Queue!Idle(w) /\ task' = [task EXCEPT ![w] = None]
  BY DEF Queue!RecordFailure
<1>2. CASE Queue!HasLease(w)
  <2> DEFINE i == task[w].message
  <2>1. PICK state \in Queue!Decisions(task[w].cause) :
          inbox' = [inbox EXCEPT ![task[w].message] =
            [@ EXCEPT !.state = state, !.leased = FALSE, !.cause = task[w].cause]]
    BY <1>2 DEF Queue!RecordFailure
  <2> DEFINE row == [inbox[i] EXCEPT !.state = state, !.leased = FALSE,
                                     !.cause = task[w].cause]
  <2>2. i \in DOMAIN inbox /\ inbox[i] \in Queue!Row
    BY <1>1, InHand
  <2>3. row.payload = inbox[i].payload /\ row.cause = task[w].cause
    BY <2>2 DEF Queue!Row
  <2>4. inbox' = [inbox EXCEPT ![i] = row]
    BY <2>1
  <2>5. \A v \in Worker : task'[v] # None => task'[v] = task[v]
    BY <1>1 DEF QueueInv, Queue!InboxTypeOK
  <2>6. row.cause = "business_rejected" => row.payload \in G
    BY <1>1, <2>3 DEF RefusedIn, Queue!Message
  <2> HIDE DEF row, i
  <2>7. QED
    BY <2>2, <2>3, <2>4, <2>5, <2>6, RowOverwritten
<1>3. CASE ~Queue!HasLease(w)
  <2>1. inbox' = inbox
    BY <1>3 DEF Queue!RecordFailure
  <2>2. QED
    BY <1>1, <2>1, TasksChange
<1>4. QED
  BY <1>2, <1>3

LEMMA LapseRefusals ==
  ASSUME QueueInv, NEW G, RefusedIn(G), NEW i \in DOMAIN inbox, Queue!Lapse(i)
  PROVE  RefusedIn(G)'
<1> DEFINE row == [inbox[i] EXCEPT !.leased = FALSE]
<1>1. inbox[i] \in Queue!Row
  BY DEF QueueInv, Queue!InboxTypeOK
<1>2. row.payload = inbox[i].payload /\ row.cause = inbox[i].cause
  BY <1>1 DEF Queue!Row
<1>3. inbox' = [inbox EXCEPT ![i] = row] /\ task' = task
  BY DEF Queue!Lapse
<1> HIDE DEF row
<1>4. row.cause = "business_rejected" => row.payload \in G
  BY <1>2 DEF RefusedIn
<1>5. QED
  BY <1>2, <1>3, <1>4, RowOverwritten

-----------------------------------------------------------------------------
(* The registry: what a step leaves of its records                         *)

RecordsLast ==
  /\ \A h \in DOMAIN handoff :
       /\ h \in DOMAIN handoff'
       /\ handoff'[h].kind = handoff[h].kind
       /\ handoff'[h].shipment = handoff[h].shipment
       /\ handoff'[h].version = handoff[h].version
       /\ handoff'[h].proof = handoff[h].proof
       /\ handoff'[h].rel = handoff[h].rel
       /\ handoff'[h].scope = handoff[h].scope
       /\ \/ handoff'[h].status = handoff[h].status
          \/ shipment'[handoff[h].shipment].rel > shipment[handoff[h].shipment].rel
  /\ \A s \in Shipment :
       /\ shipment'[s].rel >= shipment[s].rel
       /\ IF Exists(s) THEN /\ shipment'[s].lc = shipment[s].lc
                            /\ shipment[s].atd => shipment'[s].atd
          ELSE shipment'[s].rel > 0 => shipment'[s].lc = 1
  /\ \A g \in DOMAIN handoff' \ DOMAIN handoff :
       LET t == handoff'[g].shipment IN
       /\ t \in Shipment /\ shipment'[t].rel > 0
       /\ handoff'[g].kind = "new" =>
            ~Exists(t) /\ (handoff'[g].proof = "actual_time" => shipment'[t].atd)

\* One shipment changes, one entry is added, and one may be superseded when
\* the relationship version is raised.
LEMMA OneEntryMore ==
  ASSUME RegistryTypeOK, NEW s \in Shipment, NEW row \in ShipmentRow,
         shipment' = [shipment EXCEPT ![s] = row],
         NEW entry \in HandoffRow, entry.shipment = s,
         NEW others \in Seq(HandoffRow), Len(others) = Len(handoff),
         handoff' = Append(others, entry),
         \A h \in DOMAIN handoff :
           \/ others[h] = handoff[h]
           \/ /\ row.rel > shipment[s].rel /\ handoff[h].shipment = s
              /\ others[h] = [handoff[h] EXCEPT !.status = "superseded"],
         row.rel >= shipment[s].rel, row.rel > 0,
         Exists(s) => row.lc = shipment[s].lc /\ (shipment[s].atd => row.atd),
         ~Exists(s) => row.lc = 1,
         entry.kind = "new" => ~Exists(s) /\ (entry.proof = "actual_time" => row.atd)
  PROVE  RecordsLast
<1>1. /\ handoff \in Seq(HandoffRow)
      /\ \A h \in DOMAIN handoff : handoff[h] \in HandoffRow
      /\ shipment \in [Shipment -> ShipmentRow]
  BY DEF RegistryTypeOK
<1>2. DOMAIN others = DOMAIN handoff
  BY <1>1
<1>3. /\ DOMAIN handoff' = DOMAIN handoff \cup {Len(others) + 1}
      /\ \A h \in DOMAIN handoff : handoff'[h] = others[h]
      /\ handoff'[Len(others) + 1] = entry
  BY <1>2, AppendFacts
<1>4. \A t \in Shipment : shipment'[t] = IF t = s THEN row ELSE shipment[t]
  BY <1>1
<1>5. ASSUME NEW h \in DOMAIN handoff
      PROVE  /\ handoff'[h].kind = handoff[h].kind
             /\ handoff'[h].shipment = handoff[h].shipment
             /\ handoff'[h].version = handoff[h].version
             /\ handoff'[h].proof = handoff[h].proof
             /\ handoff'[h].rel = handoff[h].rel
             /\ handoff'[h].scope = handoff[h].scope
             /\ \/ handoff'[h].status = handoff[h].status
                \/ shipment'[handoff[h].shipment].rel
                     > shipment[handoff[h].shipment].rel
  <2>1. CASE others[h] = handoff[h]
    BY <1>3, <2>1
  <2>2. CASE /\ row.rel > shipment[s].rel /\ handoff[h].shipment = s
             /\ others[h] = [handoff[h] EXCEPT !.status = "superseded"]
    <3>1. handoff[h] \in HandoffRow /\ handoff'[h] = others[h]
      BY <1>1, <1>3
    <3>2. /\ others[h].kind = handoff[h].kind
          /\ others[h].shipment = handoff[h].shipment
          /\ others[h].version = handoff[h].version
          /\ others[h].proof = handoff[h].proof
          /\ others[h].rel = handoff[h].rel
          /\ others[h].scope = handoff[h].scope
      BY <2>2, <3>1 DEF HandoffRow
    <3>3. shipment'[s] = row
      BY <1>4
    <3>4. QED
      BY <2>2, <3>1, <3>2, <3>3
  <2>3. QED
    BY <2>1, <2>2
<1>6. ASSUME NEW t \in Shipment
      PROVE  /\ shipment'[t].rel >= shipment[t].rel
             /\ IF Exists(t) THEN /\ shipment'[t].lc = shipment[t].lc
                                  /\ shipment[t].atd => shipment'[t].atd
                ELSE shipment'[t].rel > 0 => shipment'[t].lc = 1
  <2>1. CASE t = s
    BY <1>4, <2>1
  <2>2. CASE t # s
    <3>1. shipment'[t] = shipment[t] /\ shipment[t].rel \in Nat
      BY <1>1, <1>4, <2>2 DEF ShipmentRow
    <3>2. QED
      BY <3>1 DEF Exists
  <2>3. QED
    BY <2>1, <2>2
<1>7. \A g \in DOMAIN handoff' \ DOMAIN handoff : handoff'[g] = entry
  BY <1>3
<1>8. shipment'[s] = row
  BY <1>4
<1>9. QED
  BY <1>3, <1>5, <1>6, <1>7, <1>8 DEF RecordsLast

LEMMA NothingRecorded ==
  ASSUME RegistryTypeOK, LifecyclesBegin, UNCHANGED <<shipment, handoff>>
  PROVE  RecordsLast
<1>1. \A s \in Shipment : shipment[s].rel \in Nat
  BY DEF RegistryTypeOK, ShipmentRow
<1>2. QED
  BY <1>1 DEF RecordsLast, Exists

LEMMA RegisterRecords ==
  ASSUME RegistryInv, LifecyclesBegin, RegistryNext PROVE RecordsLast
<1>1. /\ RegistryTypeOK /\ handoff \in Seq(HandoffRow)
      /\ shipment \in [Shipment -> ShipmentRow]
  BY DEF RegistryInv, RegistryTypeOK
<1>2. ASSUME NEW s \in Shipment, NEW containers \in Scope, NEW proof \in Proof,
             AcceptNew(s, containers, proof)
      PROVE  RecordsLast
  <2> DEFINE entry == Entry("new", s, 1, proof, 1, containers)
             row == [rel |-> 1, lc |-> 1, atd |-> proof = "actual_time"]
  <2>1. entry \in HandoffRow
    BY EntryType DEF Kind
  <2>2. /\ entry.shipment = s /\ entry.kind = "new" /\ entry.proof = proof
    BY DEF Entry
  <2>3. /\ row \in ShipmentRow /\ row.rel = 1 /\ row.lc = 1
        /\ proof = "actual_time" => row.atd
    BY DEF ShipmentRow
  <2>4. /\ handoff' = Append(handoff, entry)
        /\ shipment' = [shipment EXCEPT ![s] = row]
    BY <1>2 DEF AcceptNew, Announce
  <2>5. ~Exists(s) /\ shipment[s].rel = 0
    BY <1>1, <1>2 DEF AcceptNew, Exists, ShipmentRow
  <2> HIDE DEF entry, row
  <2>6. /\ row.rel >= shipment[s].rel /\ row.rel > 0
        /\ Exists(s) => row.lc = shipment[s].lc /\ (shipment[s].atd => row.atd)
        /\ ~Exists(s) => row.lc = 1
        /\ entry.kind = "new" =>
             ~Exists(s) /\ (entry.proof = "actual_time" => row.atd)
    BY <2>2, <2>3, <2>5
  <2>7. QED
    BY <1>1, <2>1, <2>2, <2>3, <2>4, <2>6, OneEntryMore
<1>3. ASSUME NEW s \in Shipment, NEW containers \in Scope, NEW proof \in Proof,
             AcceptLate(s, containers, proof)
      PROVE  RecordsLast
  <2> DEFINE scope == Active(s) \cup containers
             entry == Entry("late", s, 1, proof, shipment[s].rel + 1, scope)
             row == [shipment[s] EXCEPT !.rel = @ + 1]
  <2>1. shipment[s] \in ShipmentRow /\ shipment[s].rel \in Nat /\ scope \in Scope
    BY <1>1 DEF ShipmentRow, Scope, Active
  <2>2. entry \in HandoffRow
    BY <2>1, EntryType DEF Kind
  <2>3. entry.shipment = s /\ entry.kind = "late"
    BY DEF Entry
  <2>4. /\ row \in ShipmentRow /\ row.rel = shipment[s].rel + 1
        /\ row.lc = shipment[s].lc /\ row.atd = shipment[s].atd
    BY <2>1 DEF ShipmentRow
  <2>5. /\ handoff' = Append(handoff, entry)
        /\ shipment' = [shipment EXCEPT ![s] = row]
    BY <1>3 DEF AcceptLate, Announce
  <2>6. Exists(s)
    BY <1>3 DEF AcceptLate
  <2> HIDE DEF entry, row, scope
  <2>7. /\ row.rel >= shipment[s].rel /\ row.rel > 0
        /\ Exists(s) => row.lc = shipment[s].lc /\ (shipment[s].atd => row.atd)
        /\ ~Exists(s) => row.lc = 1
        /\ entry.kind = "new" =>
             ~Exists(s) /\ (entry.proof = "actual_time" => row.atd)
    BY <2>1, <2>3, <2>4, <2>6
  <2>8. QED
    BY <1>1, <2>2, <2>3, <2>4, <2>5, <2>7, OneEntryMore
<1>4. ASSUME NEW s \in Shipment, CommitCorrection(s) PROVE RecordsLast
  <2> DEFINE order == correcting[s]
             old == handoff[order.pred]
             entry == Entry("correction", s, old.version + 1, old.proof,
                            order.rel + 1, order.containers)
             others == [handoff EXCEPT ![order.pred].status = "superseded"]
             row == [shipment[s] EXCEPT !.rel = @ + 1]
  <2>1. /\ order \in Correction /\ order.rel = shipment[s].rel
        /\ order.pred \in DOMAIN handoff /\ order.pred \in Requests
        /\ old.shipment = s
    BY <1>1, <1>4 DEF RegistryInv, RegistryTypeOK, CommitCorrection,
       CorrectionHolds, CorrectionsKnowTheirShipment, Requests
  <2>2. /\ shipment[s] \in ShipmentRow /\ shipment[s].rel \in Nat
        /\ old \in HandoffRow
    BY <1>1, <2>1 DEF ShipmentRow
  <2>3. entry \in HandoffRow
    <3>1. /\ old.version + 1 \in Nat /\ old.proof \in DepartureProof
          /\ order.rel + 1 \in Nat /\ order.containers \in Scope
      BY <2>1, <2>2 DEF HandoffRow, Correction
    <3>2. QED
      BY <3>1, EntryType DEF Kind
  <2>4. entry.shipment = s /\ entry.kind = "correction"
    BY DEF Entry
  <2>5. /\ others \in Seq(HandoffRow) /\ Len(others) = Len(handoff)
        /\ \A h \in DOMAIN handoff :
             others[h] = IF h = order.pred
                         THEN [handoff[h] EXCEPT !.status = "superseded"]
                         ELSE handoff[h]
    <3>1. [old EXCEPT !.status = "superseded"] \in HandoffRow
      BY <2>2 DEF HandoffRow
    <3>2. QED
      BY <1>1, <2>1, <3>1
  <2>6. /\ row \in ShipmentRow /\ row.rel = shipment[s].rel + 1
        /\ row.lc = shipment[s].lc /\ row.atd = shipment[s].atd
    BY <2>2 DEF ShipmentRow
  <2>7. /\ handoff' = Append(others, entry)
        /\ shipment' = [shipment EXCEPT ![s] = row]
    BY <1>4 DEF CommitCorrection, Announce
  <2>8. Exists(s)
    <3>1. handoff[order.pred].rel > 0 /\ handoff[order.pred].rel <= shipment[s].rel
      BY <2>1 DEF RegistryInv, VersionsIdentify
    <3>2. QED
      BY <2>2, <3>1 DEF Exists, HandoffRow
  <2>9. \A h \in DOMAIN handoff :
          \/ others[h] = handoff[h]
          \/ /\ row.rel > shipment[s].rel /\ handoff[h].shipment = s
             /\ others[h] = [handoff[h] EXCEPT !.status = "superseded"]
    <3> HIDE DEF others, row
    <3>1. row.rel > shipment[s].rel
      BY <2>2, <2>6
    <3>2. QED
      BY <2>1, <2>5, <3>1
  <2> HIDE DEF entry, row, others
  <2>10. /\ row.rel >= shipment[s].rel /\ row.rel > 0
         /\ Exists(s) => row.lc = shipment[s].lc /\ (shipment[s].atd => row.atd)
         /\ ~Exists(s) => row.lc = 1
         /\ entry.kind = "new" =>
              ~Exists(s) /\ (entry.proof = "actual_time" => row.atd)
    BY <2>2, <2>4, <2>6, <2>8
  <2>11. QED
    BY <1>1, <2>3, <2>4, <2>5, <2>6, <2>7, <2>9, <2>10, OneEntryMore
<1>5. ASSUME NEW h \in DOMAIN handoff, NEW containers \in Scope,
             BeginCorrection(h, containers)
      PROVE  RecordsLast
  BY <1>1, <1>5, NothingRecorded DEF BeginCorrection
<1>6. ASSUME NEW s \in Shipment, LoseCorrection(s) PROVE RecordsLast
  BY <1>1, <1>6, NothingRecorded DEF LoseCorrection
<1>7. ASSUME NEW s \in Shipment, NEW atd \in BOOLEAN, CompletePending(s, atd)
      PROVE  RecordsLast
  <2> DEFINE entry == Entry("completion", s, 1, "missing", shipment[s].rel, {})
             row == [shipment[s] EXCEPT !.atd = @ \/ atd]
  <2>1. shipment[s] \in ShipmentRow /\ shipment[s].rel \in Nat
    BY <1>1 DEF ShipmentRow
  <2>2. entry \in HandoffRow
    <3>1. "completion" \in Kind /\ "missing" \in DepartureProof /\ {} \in Scope
      BY DEF Kind, DepartureProof, Scope
    <3>2. QED
      BY <2>1, <3>1, EntryType
  <2>3. entry.shipment = s /\ entry.kind = "completion"
    BY DEF Entry
  <2>4. /\ row \in ShipmentRow /\ row.rel = shipment[s].rel
        /\ row.lc = shipment[s].lc /\ (shipment[s].atd => row.atd)
    BY <2>1 DEF ShipmentRow
  <2>5. /\ handoff' = Append(handoff, entry)
        /\ shipment' = [shipment EXCEPT ![s] = row]
    BY <1>7 DEF CompletePending
  <2>6. Exists(s) /\ row.rel > 0
    BY <1>7, <2>4 DEF CompletePending, Exists
  <2> HIDE DEF entry, row
  <2>7. /\ row.rel >= shipment[s].rel /\ row.rel > 0
        /\ Exists(s) => row.lc = shipment[s].lc /\ (shipment[s].atd => row.atd)
        /\ ~Exists(s) => row.lc = 1
        /\ entry.kind = "new" =>
             ~Exists(s) /\ (entry.proof = "actual_time" => row.atd)
    BY <2>1, <2>3, <2>4, <2>6
  <2>8. QED
    BY <1>1, <2>2, <2>3, <2>4, <2>5, <2>7, OneEntryMore
<1>8. QED
  BY <1>2, <1>3, <1>4, <1>5, <1>6, <1>7 DEF RegistryNext

-----------------------------------------------------------------------------
(* Grounds last                                                            *)

\* What a step must leave of the records for the grounds to last
Kept ==
  /\ ShipmentsOfHandoffs'
  /\ LifecyclesBegin'
  /\ Grounded \subseteq Grounded'

LEMMA RegisterGrounds ==
  ASSUME RefusalInv, Register PROVE Kept
<1>1. RegistryInv /\ RegistryInv' /\ RequestsLast /\ RecordsLast /\ flow' = flow
  BY RegisterKeepsRegistry, RegisterRecords
  DEF RefusalInv, Inv, Register, lifecycle
<1>2. \A g \in DOMAIN handoff :
        /\ handoff[g] \in HandoffRow /\ handoff[g].shipment \in Shipment
        /\ handoff[g].rel \in Nat
  <2>1. \A g \in DOMAIN handoff : handoff[g] \in HandoffRow
    BY <1>1 DEF RegistryInv, RegistryTypeOK
  <2>2. QED
    BY <2>1 DEF HandoffRow
<1>3. \A s \in Shipment : /\ shipment[s].rel \in Nat /\ shipment'[s].rel \in Nat
                          /\ shipment[s].lc \in Nat
  BY <1>1 DEF RegistryInv, RegistryTypeOK, ShipmentRow
<1>4. ShipmentsOfHandoffs'
  <2> SUFFICES ASSUME NEW g \in DOMAIN handoff'
               PROVE  /\ shipment'[handoff'[g].shipment].rel > 0
                      /\ handoff'[g].kind = "new" /\ handoff'[g].proof = "actual_time"
                           => shipment'[handoff'[g].shipment].atd
    BY DEF ShipmentsOfHandoffs, Exists
  <2>1. CASE g \in DOMAIN handoff
    <3> DEFINE s == handoff[g].shipment
    <3>1. Exists(s) /\ s \in Shipment
      BY <1>2, <2>1 DEF RefusalInv, ShipmentsOfHandoffs
    <3>2. shipment'[s].rel >= shipment[s].rel /\ shipment[s].rel > 0
      BY <1>1, <3>1 DEF RecordsLast, Exists
    <3>3. shipment[s].atd => shipment'[s].atd
      BY <1>1, <3>1 DEF RecordsLast
    <3>4. QED
      BY <1>1, <1>3, <2>1, <3>1, <3>2, <3>3
      DEF RecordsLast, RefusalInv, ShipmentsOfHandoffs
  <2>2. CASE g \notin DOMAIN handoff
    BY <1>1, <2>2 DEF RecordsLast
  <2>3. QED
    BY <2>1, <2>2
<1>5. LifecyclesBegin'
  <2> SUFFICES ASSUME NEW s \in Shipment, shipment'[s].rel > 0
               PROVE  shipment'[s].lc >= 1
    BY DEF LifecyclesBegin, Exists
  <2>1. CASE Exists(s)
    BY <1>1, <2>1 DEF RecordsLast, RefusalInv, LifecyclesBegin
  <2>2. CASE ~Exists(s)
    BY <1>1, <2>2 DEF RecordsLast
  <2>3. QED
    BY <2>1, <2>2
<1>6. ASSUME NEW h \in Grounded PROVE h \in Grounded'
  <2> DEFINE s == handoff[h].shipment
  <2>1. /\ h \in Requests /\ h \in DOMAIN handoff /\ Grounds(h)
        /\ s \in Shipment /\ Exists(s) /\ h \in Requests'
    BY <1>1, <1>2 DEF Grounded, Requests, RefusalInv, ShipmentsOfHandoffs,
       RequestsLast
  <2>2. /\ handoff'[h].shipment = s
        /\ handoff'[h].version = handoff[h].version
        /\ handoff'[h].proof = handoff[h].proof
        /\ handoff'[h].rel = handoff[h].rel
        /\ handoff'[h].scope = handoff[h].scope
        /\ shipment'[s].rel >= shipment[s].rel
        /\ shipment'[s].lc = shipment[s].lc
    BY <1>1, <2>1 DEF RecordsLast
  <2>3. handoff[h].rel \in Nat /\ handoff[h].rel <= shipment[s].rel
    BY <1>1, <1>2, <2>1 DEF RegistryInv, VersionsIdentify
  <2>4. CASE shipment[s].rel > handoff[h].rel
    <3>1. shipment'[s].rel > handoff'[h].rel
      BY <1>3, <2>1, <2>2, <2>3, <2>4
    <3>2. QED
      BY <2>1, <2>2, <3>1 DEF Grounded, Grounds
  <2>5. CASE shipment[s].lc > 1 \/ handoff[h].proof = "missing"
    BY <2>1, <2>2, <2>5 DEF Grounded, Grounds
  <2>6. CASE handoff[h].proof = "actual_time" /\ ~TimedFromTheStart(s)
    <3>1. ~(\E g \in DOMAIN handoff' : /\ handoff'[g].shipment = s
                                       /\ handoff'[g].kind = "new"
                                       /\ handoff'[g].proof = "actual_time")
      BY <1>1, <2>1, <2>6 DEF RecordsLast, TimedFromTheStart
    <3>2. QED
      BY <2>1, <2>2, <2>6, <3>1 DEF Grounded, Grounds, TimedFromTheStart
  <2>7. CASE \E c \in handoff[h].scope : flow[c] # NoFlow
    BY <1>1, <2>1, <2>2, <2>7 DEF Grounded, Grounds
  <2>8. ASSUME NEW g \in Accepted(s) \ {h}, handoff[g].version >= handoff[h].version
        PROVE  h \in Grounded'
    <3>1. /\ g \in DOMAIN handoff' /\ handoff'[g].shipment = s
          /\ handoff'[g].version = handoff[g].version
          /\ handoff'[g].status = "accepted" \/ shipment'[s].rel > shipment[s].rel
      BY <1>1, <2>8 DEF RecordsLast, Accepted
    <3>2. CASE handoff'[g].status = "accepted"
      BY <2>1, <2>2, <2>8, <3>1, <3>2 DEF Grounded, Grounds, Accepted
    <3>3. CASE shipment'[s].rel > shipment[s].rel
      <4>1. shipment'[s].rel > handoff'[h].rel
        BY <1>3, <2>1, <2>2, <2>3, <3>3
      <4>2. QED
        BY <2>1, <2>2, <4>1 DEF Grounded, Grounds
    <3>4. QED
      BY <3>1, <3>2, <3>3
  <2>9. QED
    BY <2>1, <2>4, <2>5, <2>6, <2>7, <2>8 DEF Grounds
<1>7. QED
  BY <1>4, <1>5, <1>6 DEF Kept

\* Lifecycles start and flows appear, the records stay.
LEMMA LifecycleGrounds ==
  ASSUME RefusalInv, UNCHANGED handoff,
         \A s \in Shipment : /\ shipment'[s].rel = shipment[s].rel
                             /\ shipment'[s].atd = shipment[s].atd
                             /\ shipment'[s].lc = shipment[s].lc
                                \/ shipment'[s].lc = 2,
         \A c \in Container : flow[c] # NoFlow => flow'[c] # NoFlow
  PROVE  Kept
<1>1. \A g \in DOMAIN handoff : /\ handoff[g].shipment \in Shipment
                                /\ handoff[g].scope \subseteq Container
  <2>1. \A g \in DOMAIN handoff : handoff[g] \in HandoffRow
    BY DEF RefusalInv, Inv, RegistryInv, RegistryTypeOK
  <2>2. QED
    BY <2>1 DEF HandoffRow, Scope
<1>2. ShipmentsOfHandoffs'
  BY <1>1 DEF RefusalInv, ShipmentsOfHandoffs, Exists
<1>3. LifecyclesBegin'
  BY DEF RefusalInv, LifecyclesBegin, Exists
<1>4. ASSUME NEW h \in Grounded PROVE h \in Grounded'
  <2> DEFINE s == handoff[h].shipment
  <2>1. /\ h \in Requests /\ Grounds(h) /\ s \in Shipment /\ h \in Requests'
        /\ handoff[h].scope \subseteq Container
    BY <1>1 DEF Grounded, Requests
  <2>2. CASE shipment[s].lc > 1
    <3>1. shipment'[s].lc > 1
      BY <2>1, <2>2
    <3>2. QED
      BY <2>1, <3>1 DEF Grounded, Grounds
  <2>3. CASE \E c \in handoff[h].scope : flow[c] # NoFlow
    BY <2>1, <2>3 DEF Grounded, Grounds
  <2>4. QED
    BY <2>1, <2>2, <2>3 DEF Grounded, Grounds, Accepted, TimedFromTheStart
<1>5. QED
  BY <1>2, <1>3, <1>4 DEF Kept

LEMMA StillGrounds ==
  ASSUME RefusalInv, UNCHANGED <<registry, lifecycle>> PROVE Kept
  BY LifecycleGrounds DEF registry, lifecycle

LEMMA PlanFlowGrounds ==
  ASSUME RefusalInv, NEW c \in Container, PlanFlow(c) PROVE Kept
<1>1. flow \in [Container -> {NoFlow, Planned} \cup HandoffId]
  BY DEF RefusalInv, Inv, LifecycleInv
<1>2. \A d \in Container : flow[d] # NoFlow => flow'[d] # NoFlow
  BY <1>1 DEF PlanFlow
<1>3. QED
  BY <1>2, LifecycleGrounds DEF PlanFlow, registry

LEMMA StartGrounds ==
  ASSUME RefusalInv, NEW w \in Worker, Start(w) PROVE Kept
<1>0. PICK h, s : h = Request(w) /\ s = handoff[h].shipment
  OBVIOUS
<1>1. /\ h \in HandoffId /\ s \in Shipment /\ shipment'[s].lc = 2
      /\ \A t \in Shipment \ {s} : shipment'[t] = shipment[t]
      /\ \A t \in Shipment : shipment'[t].rel = shipment[t].rel
  BY <1>0, StartFacts DEF RefusalInv
<1>2. shipment'[s].atd = shipment[s].atd
  <2> DEFINE row == [shipment[s] EXCEPT !.lc = @ + 1]
  <2>1. shipment \in [Shipment -> ShipmentRow] /\ shipment[s] \in ShipmentRow
    BY <1>1 DEF RefusalInv, Inv, RegistryInv, RegistryTypeOK
  <2>2. row.atd = shipment[s].atd
    BY <2>1 DEF ShipmentRow
  <2>3. shipment' = [shipment EXCEPT ![s] = row]
    BY <1>0 DEF Start
  <2> HIDE DEF row
  <2>4. QED
    BY <1>1, <2>1, <2>2, <2>3
<1>3. \A c \in Container : flow[c] # NoFlow => flow'[c] # NoFlow
  <2>1. NoFlow \notin HandoffId
    BY DEF HandoffId
  <2>2. flow' = [c \in Container |-> IF c \in handoff[h].scope THEN h ELSE flow[c]]
    BY <1>0 DEF Start
  <2>3. QED
    BY <1>1, <2>1, <2>2
<1>4. QED
  BY <1>1, <1>2, <1>3, LifecycleGrounds DEF Start

-----------------------------------------------------------------------------
(* Every step                                                              *)

LEMMA Carried ==
  ASSUME NEW G, RefusedIn(G)', G \subseteq Grounded' PROVE RefusedIn(Grounded)'
  BY DEF RefusedIn

LEMMA QueueUntouched ==
  ASSUME NEW G, RefusedIn(G), UNCHANGED <<inbox, task>> PROVE RefusedIn(G)'
  BY DEF RefusedIn, Queue!Idle, Queue!Message

LEMMA InitRefusals == Init => RefusalInv
<1> SUFFICES ASSUME Init PROVE RefusalInv
  OBVIOUS
<1>1. Inv
  BY InitInv
<1>2. DOMAIN handoff = {} /\ DOMAIN inbox = {} /\ \A s \in Shipment : ~Exists(s)
  BY DEF Init, RegistryInit, Queue!InboxInit, Exists
<1>3. \A w \in Worker : Queue!Idle(w)
  BY DEF Init, Queue!InboxInit, Queue!Idle
<1>4. ShipmentsOfHandoffs /\ LifecyclesBegin
  BY <1>2 DEF ShipmentsOfHandoffs, LifecyclesBegin
<1>5. RefusedIn(Grounded)
  BY <1>2, <1>3 DEF RefusedIn
<1>6. QED
  BY <1>1, <1>4, <1>5 DEF RefusalInv

LEMMA OutboxRefusals ==
  ASSUME Inv, NEW G, RefusedIn(G), NEW r \in DOMAIN outbox,
         Deliver(r) \/ DeliverOnly(r) \/ GiveUp(r) \/ Replay(r)
  PROVE  RefusedIn(G)'
<1>1. CASE Queue!Receive(r, outbox[r].handoff)
  <2>1. QueueInv /\ r \in RowId
    BY Counts DEF Inv
  <2>2. outbox[r].handoff \in Requests \cap HandoffId
    <3>1. outbox[r] \in OutboxRow
      BY DEF Inv, RegistryInv, RegistryTypeOK
    <3>2. QED
      BY <3>1 DEF OutboxRow, Inv, RegistryInv, RowsCarryRequests
  <2>3. QED
    BY <1>1, <2>1, <2>2, ReceiveRefusals
<1>2. CASE UNCHANGED <<inbox, task>>
  BY <1>2, QueueUntouched
<1>3. QED
  BY <1>1, <1>2 DEF Deliver, DeliverOnly, GiveUp, Replay

LEMMA Causes ==
  {"business_rejected", "dependency_unavailable", "unknown_code"}
    \subseteq Queue!Cause
  BY DEF Queue!Cause

LEMMA ReadRefusals ==
  ASSUME RefusalInv, NEW G, G = Grounded, NEW w \in Worker, Read(w)
  PROVE  RefusedIn(G)'
<1>0. PICK h : h = Request(w)
  OBVIOUS
<1>1. ~Queue!Idle(w) /\ QueueInv /\ RefusedIn(G) /\ h \in Requests
  BY <1>0, InHand DEF Read, At, RefusalInv, Inv, Request
<1>2. CASE Queue!LoseLease(w)
  BY <1>1, <1>2, FailRefusals, Causes DEF Queue!LoseLease
<1>3. CASE Queue!Complete(w)
  BY <1>1, <1>3, CompleteRefusals
<1>4. CASE Queue!ReadsPass(w)
  BY <1>1, <1>4, ReadsPassRefusals
<1>5. ASSUME NEW newest \in Newest(handoff[h].shipment), ~Startable(h, newest),
             Queue!Fail(w, "business_rejected")
      PROVE  RefusedIn(G)'
  <2>1. h \in G
    BY <1>1, <1>5, NotStartable DEF Grounded
  <2>2. Queue!Message(w).payload \in G
    BY <1>0, <2>1 DEF Request
  <2>3. QED
    BY <1>1, <1>5, <2>2, FailRefusals, Causes
<1>6. QED
  BY <1>0, <1>2, <1>3, <1>4, <1>5 DEF Read

LEMMA AbortRefusals ==
  ASSUME RefusalInv, NEW G, G = Grounded, NEW w \in Worker, Abort(w)
  PROVE  RefusedIn(G)'
<1>0. PICK h : h = Request(w)
  OBVIOUS
<1>1. ~Queue!Idle(w) /\ QueueInv /\ RefusedIn(G) /\ h \in Requests
  BY <1>0, InHand DEF Abort, At, RefusalInv, Inv, Request
<1>2. CASE Queue!Fail(w, "unknown_code")
  BY <1>1, <1>2, FailRefusals, Causes
<1>3. CASE ~Current(h) /\ Queue!Fail(w, "business_rejected")
  <2>1. h \in G
    BY <1>1, <1>3, NotCurrent DEF Grounded
  <2>2. Queue!Message(w).payload \in G
    BY <1>0, <2>1 DEF Request
  <2>3. QED
    BY <1>1, <1>3, <2>2, FailRefusals, Causes
<1>4. QED
  BY <1>0, <1>2, <1>3 DEF Abort, Queue!LoseLease

LEMMA WorkerRefusals ==
  ASSUME RefusalInv, NEW G, G = Grounded, NEW w \in Worker,
         Claim(w) \/ Work(w) \/ DatabaseFails(w) \/ Crash(w)
  PROVE  RefusedIn(G)'
<1>1. QueueInv /\ RefusedIn(G)
  BY DEF RefusalInv, Inv
<1>2. CASE Claim(w)
  BY <1>1, <1>2, ClaimRefusals DEF Claim
<1>3. CASE Start(w)
  BY <1>1, <1>3, CompleteRefusals DEF Start, At
<1>4. CASE RecordFailure(w)
  BY <1>1, <1>4, RecordRefusals DEF RecordFailure
<1>5. CASE DatabaseFails(w)
  <2>1. ~Queue!Idle(w)
    BY <1>5 DEF DatabaseFails, At
  <2>2. PICK cause \in {"dependency_unavailable", "unknown_code"} :
          Queue!Fail(w, cause)
    BY <1>5 DEF DatabaseFails
  <2>3. QED
    BY <1>1, <2>1, <2>2, FailRefusals, Causes
<1>6. CASE Crash(w)
  BY <1>1, <1>6, CrashRefusals DEF Crash
<1>7. QED
  BY <1>2, <1>3, <1>4, <1>5, <1>6, ReadRefusals, AbortRefusals DEF Work

LEMMA StepRefusals == RefusalInv /\ [Next]_vars => RefusalInv'
<1> SUFFICES ASSUME RefusalInv, [Next]_vars PROVE RefusalInv'
  OBVIOUS
<1>0. Inv /\ QueueInv /\ Inv'
  BY StepInv DEF RefusalInv, Inv
<1>1. PICK G : G = Grounded
  OBVIOUS
<1>2. RefusedIn(G)
  BY <1>1 DEF RefusalInv
<1>3. SUFFICES Kept /\ RefusedIn(G)'
  <2>1. G \subseteq Grounded'
    BY <1>1, <1>3 DEF Kept
  <2>2. RefusedIn(Grounded)'
    BY <1>3, <2>1, Carried
  <2>3. QED
    BY <1>0, <1>3, <2>2 DEF RefusalInv, Kept
<1>4. CASE Register
  BY <1>2, <1>4, RegisterGrounds, QueueUntouched DEF Register, queue
<1>5. ASSUME NEW c \in Container, PlanFlow(c) PROVE Kept /\ RefusedIn(G)'
  BY <1>2, <1>5, PlanFlowGrounds, QueueUntouched DEF PlanFlow
<1>6. ASSUME NEW r \in DOMAIN outbox,
             Deliver(r) \/ DeliverOnly(r) \/ GiveUp(r) \/ Replay(r)
      PROVE  Kept /\ RefusedIn(G)'
  <2>1. UNCHANGED <<registry, lifecycle>>
    BY <1>6 DEF Deliver, DeliverOnly, GiveUp, Replay, lifecycle
  <2>2. QED
    BY <1>0, <1>2, <1>6, <2>1, StillGrounds, OutboxRefusals
<1>7. ASSUME NEW w \in Worker,
             Claim(w) \/ Work(w) \/ DatabaseFails(w) \/ Crash(w)
      PROVE  Kept /\ RefusedIn(G)'
  <2>1. RefusedIn(G)'
    BY <1>1, <1>7, WorkerRefusals
  <2>2. CASE Start(w)
    BY <2>1, <2>2, StartGrounds
  <2>3. CASE ~Start(w)
    <3>1. UNCHANGED <<registry, lifecycle>>
      BY <1>7, <2>3 DEF Claim, Work, Read, Abort, RecordFailure,
         DatabaseFails, Crash, Smooth, OnlyQueue
    <3>2. QED
      BY <2>1, <3>1, StillGrounds
  <2>4. QED
    BY <2>2, <2>3
<1>8. ASSUME NEW i \in DOMAIN inbox, Expire(i) \/ LapseEarly(i)
      PROVE  Kept /\ RefusedIn(G)'
  BY <1>0, <1>2, <1>8, StillGrounds, LapseRefusals
  DEF Expire, LapseEarly, Smooth, OnlyQueue
<1>9. ASSUME NEW i \in DOMAIN inbox, NEW source \in DOMAIN inbox, Revive(i, source)
      PROVE  Kept /\ RefusedIn(G)'
  BY <1>0, <1>2, <1>9, StillGrounds, ReviveRefusals DEF Revive, OnlyQueue
<1>10. CASE UNCHANGED vars
  BY <1>2, <1>10, StillGrounds, QueueUntouched DEF vars, queue
<1>11. QED
  BY <1>4, <1>5, <1>6, <1>7, <1>8, <1>9, <1>10 DEF Next

\* A start request is refused as business only for a reason, and the reason
\* stands for ever: the relationships have moved on, the shipment has
\* started, its departure was not proven, a container had a flow, or another
\* accepted handoff of the shipment competes with it (initialize).
THEOREM RefusalsHaveGrounds == Spec => []RefusedForAReason
<1>1. RefusalInv => RefusedForAReason
  BY DEF RefusalInv, RefusedIn, Grounded, RefusedForAReason
<1>2. Spec => []RefusalInv
  BY InitRefusals, StepRefusals, PTL DEF Spec
<1>3. QED
  BY <1>1, <1>2, PTL
=============================================================================
