-------------------------- MODULE DateFacts_proofs --------------------------
(***************************************************************************)
(* Proofs about DateFacts, for any finite set of facts with any nodes,     *)
(* times and corrections, and any number of commands and of troubles.      *)
(***************************************************************************)
EXTENDS DateFacts, TLAPS, FiniteSetTheorems, SequenceTheorems

USE FactAssumption

\* A command that applies a fact has one, and so has one that takes it back.
Busy ==
  \A c \in Caller :
    /\ pc[c] \in {"open", "save", "read", "decide", "apply", "update"} =>
         doing[c] \in Fact
    /\ pc[c] = "undo" => own[c] \in Fact

Inv == TypeOK /\ Busy

-----------------------------------------------------------------------------
(* The helpers that move a command.                                        *)

LocalType ==
  /\ pc \in [Caller -> {"idle", "open", "save", "read", "decide", "apply",
                        "update", "claim", "undo"}]
  /\ doing \in [Caller -> Fact \cup {None}]
  /\ queue \in [Caller -> Seq(Fact)]
  /\ own \in [Caller -> Fact \cup {None}]
  /\ seen \in [Caller -> SeenFlow]
  /\ result \in [Caller -> {"none", "pending", "applied", "rejected"}]
  /\ Busy

RowType ==
  /\ fact \in [Fact -> FactRow]
  /\ saved \subseteq Fact
  /\ doneBy \in [Node -> Fact \cup {None}]
  /\ judged \subseteq Fact
  /\ ready \subseteq Node
  /\ touches \in 0 .. MaxTouches

HistoryType ==
  /\ skipped \subseteq Fact /\ stripped \subseteq Fact /\ byReplay \subseteq Node
  /\ crossed \subseteq Fact
  /\ repeats \in Nat /\ lapses \in Nat /\ failures \in Nat

LEMMA InvParts == Inv <=> LocalType /\ RowType /\ HistoryType
  BY DEF Inv, TypeOK, LocalType, RowType, HistoryType

LEMMA NothingType == Nothing \in SeenFlow
  BY DEF Nothing, SeenFlow

LEMMA LeaveType ==
  ASSUME LocalType, NEW c \in Caller, Leave(c)
  PROVE  LocalType'
  BY NothingType DEF LocalType, Busy, Leave, Goto

LEMMA TurnToType ==
  ASSUME LocalType, NEW c \in Caller, NEW f \in Fact \cup {None},
         NEW rest \in Seq(Fact), NEW place \in {"open", "claim", "undo"},
         TurnTo(c, f, rest, place),
         place = "open" => f \in Fact, place = "undo" => own[c] \in Fact
  PROVE  LocalType'
  BY NothingType DEF LocalType, Busy, TurnTo, Goto

LEMMA AnswerType ==
  ASSUME LocalType, NEW c \in Caller, doing[c] \in Fact,
         NEW answer \in {"pending", "applied", "rejected"},
         Answer(c, answer), UNCHANGED <<doing, queue, own, seen>>
  PROVE  LocalType'
  BY DEF LocalType, Busy, Answer, Goto

LEMMA ThrowType ==
  ASSUME LocalType, NEW c \in Caller, Throw(c)
  PROVE  LocalType'
<1>1. CASE own[c] = None
  BY <1>1, LeaveType DEF Throw
<1>2. CASE own[c] # None
  <2>1. own[c] \in Fact
    BY <1>2 DEF LocalType
  <2>2. <<>> \in Seq(Fact)
    OBVIOUS
  <2>3. TurnTo(c, None, <<>>, "undo")
    BY <1>2 DEF Throw
  <2>4. QED
    BY <2>1, <2>2, <2>3, TurnToType
<1>3. QED
  BY <1>1, <1>2

LEMMA GoOnType ==
  ASSUME LocalType, NEW c \in Caller, GoOn(c)
  PROVE  LocalType'
<1>1. CASE queue[c] = <<>>
  BY <1>1, LeaveType DEF GoOn
<1>2. CASE queue[c] # <<>>
  <2>1. queue[c] \in Seq(Fact)
    BY DEF LocalType
  <2>2. Head(queue[c]) \in Fact /\ Tail(queue[c]) \in Seq(Fact)
    BY <1>2, <2>1
  <2>3. TurnTo(c, Head(queue[c]), Tail(queue[c]), "open")
    BY <1>2 DEF GoOn
  <2>4. QED
    BY <2>2, <2>3, TurnToType
<1>3. QED
  BY <1>1, <1>2

\* Facts are claimed as a sequence, whose first one can be turned to.
LEMMA SortedType ==
  ASSUME NEW S \in SUBSET Fact, S # {}, NEW order \in Sorted(S)
  PROVE  Head(order) \in Fact /\ Tail(order) \in Seq(Fact)
<1>1. IsFiniteSet(S)
  BY FS_Subset
<1>2. Cardinality(S) \in Nat /\ Cardinality(S) # 0
  BY <1>1, FS_CardinalityType, FS_EmptySet
<1>3. order \in [1 .. Cardinality(S) -> Fact]
  BY DEF Sorted
<1>4. order \in Seq(Fact)
  <2>1. order \in UNION {[1 .. n -> Fact] : n \in Nat}
    BY <1>2, <1>3
  <2>2. Seq(Fact) = UNION {[1 .. n -> Fact] : n \in Nat}
    BY SeqDef, Zenon
  <2>3. QED
    BY <2>1, <2>2, Zenon
<1>5. Len(order) = Cardinality(S)
  BY <1>2, <1>3, <1>4, LenProperties
<1>6. order # <<>>
  BY <1>2, <1>5
<1>7. QED
  BY <1>4, <1>6

\* The next version is in range as long as a fact is left to record.
LEMMA VersionInRange ==
  ASSUME NEW f \in Fact, fact[f].state = "none"
  PROVE  Cardinality(Recorded) + 1 \in 0 .. Cardinality(Fact)
<1>1. Recorded \subseteq Fact /\ f \notin Recorded
  BY DEF Recorded
<1>2. IsFiniteSet(Recorded)
  BY <1>1, FS_Subset
<1>3. Cardinality(Recorded \cup {f}) = Cardinality(Recorded) + 1
  BY <1>1, <1>2, FS_AddElement
<1>4. Cardinality(Recorded \cup {f}) <= Cardinality(Fact)
  BY <1>1, FS_Subset
<1>5. QED
  BY <1>2, <1>3, <1>4, FS_CardinalityType

LEMMA SettledType ==
  ASSUME NEW row \in FactRow, NEW state \in {"none", "pending", "applied", "rejected"}
  PROVE  Settled(row, state) \in FactRow
  BY DEF FactRow, Settled

LEMMA LapsedType ==
  ASSUME NEW row \in FactRow
  PROVE  [row EXCEPT !.live = FALSE] \in FactRow
  BY DEF FactRow

LEMMA ClaimedType ==
  ASSUME NEW row \in FactRow, row.state = "pending", NEW c \in Caller
  PROVE  [row EXCEPT !.owner = c, !.live = TRUE] \in FactRow
  BY DEF FactRow

LEMMA ReplacedType ==
  ASSUME NEW row \in FactRow
  PROVE  [row EXCEPT !.current = FALSE] \in FactRow
  BY DEF FactRow

LEMMA AppendedType ==
  ASSUME NEW version \in 0 .. Cardinality(Fact)
  PROVE  [state |-> "pending", current |-> TRUE, version |-> version,
          owner |-> None, live |-> FALSE] \in FactRow
  BY DEF FactRow

-----------------------------------------------------------------------------
(* Type correctness.                                                       *)

LEMMA InitInv == Init => Inv
<1> SUFFICES ASSUME Init PROVE Inv
  OBVIOUS
<1>1. Cardinality(Fact) \in Nat
  BY FS_CardinalityType
<1>2. RowType
  BY <1>1 DEF Init, RowType, FactRow
<1>3. LocalType
  BY NothingType DEF Init, LocalType, Busy
<1>4. HistoryType
  BY DEF Init, HistoryType
<1>5. QED
  BY <1>2, <1>3, <1>4, InvParts

LEMMA StartInv ==
  ASSUME Inv, NEW c \in Caller,
         \/ \E f \in Fact : Record(c, f) \/ Repeat(c, f)
         \/ \E n \in Node : MakeReady(c, n)
         \/ Touch(c)
  PROVE  Inv'
<1> USE DEF rows, locals, bounds, history
<1>1. LocalType /\ RowType /\ HistoryType
  BY InvParts
<1>2. ASSUME NEW f \in Fact, Record(c, f) PROVE Inv'
  <2>1. Cardinality(Recorded) + 1 \in 0 .. Cardinality(Fact)
    BY <1>2, VersionInRange DEF Record
  <2>2. fact' \in [Fact -> FactRow]
    BY <1>1, <1>2, <2>1, AppendedType, ReplacedType DEF Record, RowType
  <2>3. RowType'
    BY <1>1, <1>2, <2>2 DEF Record, RowType
  <2>4. LocalType'
    BY <1>1, <1>2 DEF Record, LocalType, Busy, Goto
  <2>5. HistoryType'
    BY <1>1, <1>2 DEF Record, HistoryType
  <2>6. QED
    BY <2>3, <2>4, <2>5, InvParts DEF Inv, TypeOK, LocalType, RowType, HistoryType
<1>3. ASSUME NEW f \in Fact, Repeat(c, f) PROVE Inv'
  BY <1>1, <1>3 DEF Repeat, Goto, Inv, TypeOK, Busy, LocalType, RowType, HistoryType
<1>4. ASSUME NEW n \in Node, MakeReady(c, n) PROVE Inv'
  BY <1>1, <1>4 DEF MakeReady, Goto, Inv, TypeOK, Busy, LocalType, RowType, HistoryType
<1>5. ASSUME Touch(c) PROVE Inv'
  BY <1>1, <1>5 DEF Touch, Goto, Inv, TypeOK, Busy, LocalType, RowType, HistoryType
<1>6. QED
  BY <1>2, <1>3, <1>4, <1>5

LEMMA ApplicationInv ==
  ASSUME Inv, NEW c \in Caller,
         \/ Open(c) \/ Save(c) \/ Read(c)
         \/ Reject(c) \/ Postpone(c) \/ Repeated(c) \/ Admitted(c) \/ Apply(c)
  PROVE  Inv'
<1> USE DEF rows, locals, bounds, history, LocalType, RowType, HistoryType
<1> USE DEF Inv, TypeOK, Busy
<1>1. doing[c] \in Fact
  BY DEF Open, Save, Read, Reject, Postpone, Repeated, Apply, Admitted
<1>2. CASE Open(c)
  BY <1>1, <1>2 DEF Open, Answer, Goto
<1>3. CASE Save(c)
  BY <1>1, <1>3 DEF Save, Answer, Goto
<1>4. CASE Read(c)
  <2>1. [done |-> Done, ready |-> ready, touches |-> touches] \in SeenFlow
    BY DEF SeenFlow, Done
  <2>2. QED
    BY <1>1, <1>4, <2>1 DEF Read, Goto
<1>5. CASE Reject(c)
  BY <1>1, <1>5 DEF Reject, Answer, Goto
<1>6. CASE Postpone(c)
  BY <1>1, <1>6 DEF Postpone, Answer, Goto, WaitingAnswer
<1>7. CASE Repeated(c)
  BY <1>1, <1>7 DEF Repeated, Answer, Goto
<1>8. CASE Apply(c)
  <2>1. NodeOf[doing[c]] \in Node
    BY <1>1
  <2>2. /\ doneBy' \in [Node -> Fact \cup {None}] /\ byReplay' \subseteq Node
        /\ crossed' \subseteq Fact
    BY <1>1, <1>8, <2>1 DEF Apply
  <2>3. QED
    BY <1>1, <1>8, <2>2 DEF Apply, Answer, Goto, ConflictAnswer
<1>9. CASE Admitted(c)
  BY <1>1, <1>9 DEF Admitted, Goto
<1>10. QED
  BY <1>2, <1>3, <1>4, <1>5, <1>6, <1>7, <1>8, <1>9

LEMMA OutcomeInv ==
  ASSUME Inv, NEW c \in Caller,
         Update(c) \/ Finish(c) \/ Undo(c) \/ Claim(c)
  PROVE  Inv'
<1> USE DEF rows, locals, bounds, history
<1>0. LocalType /\ RowType /\ HistoryType
  BY InvParts
<1>1. ASSUME RowType', LocalType', HistoryType' PROVE Inv'
  BY <1>1 DEF Inv, TypeOK, LocalType, RowType, HistoryType
<1>2. CASE Update(c)
  <2>1. own[c] \in Fact
    BY <1>0, <1>2 DEF Update, Direct, LocalType
  <2>2. Settled(fact[own[c]], result[c]) \in FactRow
    BY <1>0, <2>1, SettledType DEF RowType, LocalType
  <2>3. RowType'
    BY <1>0, <1>2, <2>1, <2>2 DEF Update, Overwrite, RowType
  <2>4. <<>> \in Seq(Fact)
    OBVIOUS
  <2>5. LocalType'
    BY <1>0, <1>2, <2>4, LeaveType, TurnToType DEF Update
  <2>6. HistoryType'
    BY <1>0, <1>2, <2>1 DEF Update, Overwrite, HistoryType
  <2>7. QED
    BY <1>1, <2>3, <2>5, <2>6
<1>3. CASE Finish(c)
  <2>1. doing[c] \in Fact
    BY <1>0, <1>3 DEF Finish, LocalType, Busy
  <2>2. Settled(fact[doing[c]], result[c]) \in FactRow
    BY <1>0, <2>1, SettledType DEF RowType, LocalType
  <2>3. RowType'
    BY <1>0, <1>3, <2>1, <2>2 DEF Finish, RowType
  <2>4. LocalType'
    BY <1>0, <1>3, GoOnType, ThrowType DEF Finish
  <2>5. HistoryType'
    BY <1>0, <1>3 DEF Finish, HistoryType
  <2>6. QED
    BY <1>1, <2>3, <2>4, <2>5
<1>4. CASE Undo(c)
  <2>1. own[c] \in Fact
    BY <1>0, <1>4 DEF Undo, LocalType, Busy
  <2>2. Settled(fact[own[c]], "pending") \in FactRow
    BY <1>0, <2>1, SettledType DEF RowType
  <2>3. RowType'
    BY <1>0, <1>4, <2>1, <2>2 DEF Undo, Overwrite, RowType
  <2>4. LocalType'
    BY <1>0, <1>4, LeaveType DEF Undo
  <2>5. HistoryType'
    BY <1>0, <1>4, <2>1 DEF Undo, Overwrite, HistoryType
  <2>6. QED
    BY <1>1, <2>3, <2>4, <2>5
<1>5. CASE Claim(c)
  <2> DEFINE claimed == {f \in Candidates : ~Leased(f)}
  <2>1. claimed \in SUBSET Fact
    BY DEF Candidates
  <2>2. \A f \in claimed : [fact[f] EXCEPT !.owner = c, !.live = TRUE] \in FactRow
    <3>1. \A f \in claimed : fact[f] \in FactRow /\ fact[f].state = "pending"
      BY <1>0 DEF RowType, Candidates
    <3>2. QED
      BY <3>1, ClaimedType
  <2>3. fact' = [f \in Fact |-> IF f \in claimed
                                THEN [fact[f] EXCEPT !.owner = c, !.live = TRUE]
                                ELSE fact[f]]
    BY <1>5 DEF Claim
  <2>4. RowType'
    <3>1. fact' \in [Fact -> FactRow]
      <4> HIDE DEF claimed
      <4> QED
        BY <1>0, <2>2, <2>3 DEF RowType
    <3>2. QED
      BY <1>0, <1>5, <3>1 DEF Claim, RowType
  <2>5. HistoryType'
    BY <1>0, <1>5, <2>1 DEF Claim, HistoryType, Candidates
  <2>6. LocalType'
    <3>1. CASE claimed = {}
      BY <1>0, <1>5, <3>1, LeaveType DEF Claim
    <3>2. CASE claimed # {}
      <4>1. PICK order \in Sorted(claimed) :
              TurnTo(c, Head(order), Tail(order), "open")
        BY <1>5, <3>2 DEF Claim
      <4>2. Head(order) \in Fact /\ Tail(order) \in Seq(Fact)
        BY <2>1, <3>2, SortedType
      <4>3. QED
        BY <1>0, <4>1, <4>2, TurnToType
    <3>3. QED
      BY <3>1, <3>2
  <2>7. QED
    BY <1>1, <2>4, <2>5, <2>6
<1>6. QED
  BY <1>2, <1>3, <1>4, <1>5

LEMMA TroubleInv ==
  ASSUME Inv,
         \/ \E c \in Caller : DatabaseFails(c) \/ Crash(c)
         \/ \E f \in Fact : Lapse(f)
  PROVE  Inv'
<1> USE DEF rows, locals, bounds, history
<1>0. LocalType /\ RowType /\ HistoryType
  BY InvParts
<1>1. ASSUME RowType', LocalType', HistoryType' PROVE Inv'
  BY <1>1 DEF Inv, TypeOK, LocalType, RowType, HistoryType
<1>2. ASSUME NEW c \in Caller, DatabaseFails(c) PROVE Inv'
  <2>1. RowType' /\ HistoryType'
    BY <1>0, <1>2 DEF DatabaseFails, RowType, HistoryType
  <2>2. LocalType'
    <3>1. CASE /\ pc[c] \in {"open", "save", "read", "decide", "apply", "update"}
               /\ Answer(c, "pending")
               /\ UNCHANGED <<doing, queue, own, seen>>
      <4>1. doing[c] \in Fact
        BY <1>0, <3>1 DEF LocalType, Busy
      <4>2. QED
        BY <1>0, <3>1, <4>1, AnswerType
    <3>2. CASE Throw(c)
      BY <1>0, <3>2, ThrowType
    <3>3. QED
      BY <1>2, <3>1, <3>2 DEF DatabaseFails
  <2>3. QED
    BY <1>1, <2>1, <2>2
<1>3. ASSUME NEW c \in Caller, Crash(c) PROVE Inv'
  <2>1. RowType' /\ HistoryType'
    BY <1>0, <1>3 DEF Crash, RowType, HistoryType
  <2>2. LocalType'
    BY <1>0, <1>3, LeaveType DEF Crash
  <2>3. QED
    BY <1>1, <2>1, <2>2
<1>4. ASSUME NEW f \in Fact, Lapse(f) PROVE Inv'
  <2>1. [fact[f] EXCEPT !.live = FALSE] \in FactRow
    BY <1>0, LapsedType DEF RowType
  <2>2. RowType' /\ HistoryType'
    BY <1>0, <1>4, <2>1 DEF Lapse, RowType, HistoryType
  <2>3. LocalType'
    BY <1>0, <1>4 DEF Lapse, LocalType, Busy
  <2>4. QED
    BY <1>1, <2>2, <2>3
<1>5. QED
  BY <1>2, <1>3, <1>4

LEMMA NextInv == Inv /\ [Next]_vars => Inv'
<1> SUFFICES ASSUME Inv, [Next]_vars PROVE Inv'
  OBVIOUS
<1>1. CASE UNCHANGED vars
  BY <1>1 DEF vars, rows, locals, bounds, history, Inv, TypeOK, Busy
<1>2. CASE \E c \in Caller : CallerStep(c)
  BY <1>2, StartInv, ApplicationInv, OutcomeInv, TroubleInv DEF CallerStep
<1>3. CASE \E f \in Fact : Lapse(f)
  BY <1>3, TroubleInv
<1>4. QED
  BY <1>1, <1>2, <1>3 DEF Next

LEMMA Invariance == Spec => []Inv
  BY InitInv, NextInv, PTL DEF Spec

\* The rows, what the commands keep and the counters keep their types; only
\* pending facts are ever leased, and no version is given that is not there.
THEOREM TypeInvariant == Spec => []TypeOK
<1>1. Inv => TypeOK
  BY DEF Inv
<1>2. QED
  BY <1>1, Invariance, PTL

-----------------------------------------------------------------------------
(* Completed nodes.                                                        *)

\* c completes a node with the fact it applies: the node was open, all nodes
\* before it were completed, none of them later than this fact.
Completes(c) ==
  LET f == doing[c]
      n == NodeOf[f]
  IN  /\ f \in Fact
      /\ pc[c] = "apply"
      /\ n \notin Done
      /\ Before(n) \subseteq Done
      /\ ~TooEarly(f, Done)
      /\ doneBy' = [doneBy EXCEPT ![n] = f]
      /\ crossed' = crossed \cup (IF Crossed(c, f) THEN {f} ELSE {})
      /\ result' = [result EXCEPT ![c] = "applied"]
      /\ pc' = [pc EXCEPT ![c] = "update"]
      /\ UNCHANGED <<fact, judged, doing, seen>>

\* What a command has read is still true, though it need not be all.  When it
\* finds no application of its event, it may complete the node on what it read,
\* and the event completes the node before that only by another execution.
Poised(c) ==
  /\ seen[c].done \subseteq Done
  /\ pc[c] = "apply" =>
       /\ ~Sealed(doing[c], seen[c].done)
       /\ ~Waits(doing[c], seen[c].done)
       /\ ~TooEarly(doing[c], seen[c].done)
       /\ doneBy[NodeOf[doing[c]]] = doing[c] => doing[c] \in crossed

AllPoised == \A c \in Caller : Poised(c)

LEMMA ApplyCases ==
  ASSUME Inv, AllPoised, NEW c \in Caller, Apply(c)
  PROVE  Completes(c) \/ UNCHANGED <<doneBy, byReplay, crossed>>
<1>1. doing[c] \in Fact /\ pc[c] = "apply"
  BY DEF Inv, Busy, Apply
<1>2. CASE /\ Done = seen[c].done
           /\ Answer(c, "applied")
           /\ doneBy' = [doneBy EXCEPT ![NodeOf[doing[c]]] = doing[c]]
           /\ crossed' = crossed \cup (IF Crossed(c, doing[c]) THEN {doing[c]} ELSE {})
  BY <1>1, <1>2 DEF Apply, AllPoised, Poised, Sealed, Waits, Completes, Answer, Goto
<1>3. QED
  BY <1>2 DEF Apply

LEMMA OnlyApplyCompletes ==
  ASSUME Inv, [Next]_vars
  PROVE  UNCHANGED <<doneBy, crossed>> \/ \E c \in Caller : Apply(c)
<1> USE DEF rows, locals, bounds, history
<1>1. ASSUME NEW c \in Caller, CallerStep(c), ~Apply(c)
      PROVE  UNCHANGED <<doneBy, crossed>>
  BY <1>1 DEF CallerStep, Record, Repeat, MakeReady, Touch, Open, Save, Read,
              Reject, Postpone, Repeated, Admitted, Update, Finish, Undo, Claim,
              DatabaseFails, Crash
<1>2. ASSUME NEW f \in Fact, Lapse(f) PROVE UNCHANGED <<doneBy, crossed>>
  BY <1>2 DEF Lapse
<1>3. CASE UNCHANGED vars
  BY <1>3 DEF vars
<1>4. QED
  BY <1>1, <1>2, <1>3 DEF Next

\* What one more completed node leaves alone.
LEMMA CompletesGrows ==
  ASSUME Inv, NEW c \in Caller, Completes(c)
  PROVE  /\ Done' = Done \cup {NodeOf[doing[c]]}
         /\ \A m \in Done : doneBy'[m] = doneBy[m]
         /\ doneBy'[NodeOf[doing[c]]] = doing[c]
<1>1. doneBy \in [Node -> Fact \cup {None}]
  BY DEF Inv, TypeOK
<1>2. doing[c] \in Fact /\ NodeOf[doing[c]] \in Node
  BY DEF Completes
<1>3. doneBy' = [doneBy EXCEPT ![NodeOf[doing[c]]] = doing[c]]
  BY DEF Completes
<1>4. doing[c] # None
  BY <1>2
<1>5. \A m \in Node : doneBy'[m] = IF m = NodeOf[doing[c]] THEN doing[c] ELSE doneBy[m]
  BY <1>1, <1>2, <1>3
<1>6. NodeOf[doing[c]] \notin Done
  BY DEF Completes
<1>7. QED
  BY <1>2, <1>4, <1>5, <1>6 DEF Done

LEMMA DoneLasts ==
  ASSUME Inv, AllPoised, [Next]_vars
  PROVE  Done \subseteq Done' /\ \A m \in Done : doneBy'[m] = doneBy[m]
<1>1. CASE UNCHANGED doneBy
  BY <1>1 DEF Done
<1>2. ASSUME NEW c \in Caller, Completes(c)
      PROVE  Done \subseteq Done' /\ \A m \in Done : doneBy'[m] = doneBy[m]
  BY <1>2, CompletesGrows
<1>3. QED
  BY <1>1, <1>2, OnlyApplyCompletes, ApplyCases

\* A step of one command leaves the others where they are.
LEMMA OthersDoNotMove ==
  ASSUME Inv, NEW c \in Caller, CallerStep(c), NEW e \in Caller \ {c}
  PROVE  UNCHANGED <<pc[e], result[e], doing[e], seen[e], own[e]>>
<1> USE DEF rows, locals, bounds, history
<1>1. /\ pc' = [pc EXCEPT ![c] = pc'[c]]
      /\ result' = [result EXCEPT ![c] = result'[c]]
      /\ doing' = [doing EXCEPT ![c] = doing'[c]]
      /\ seen' = [seen EXCEPT ![c] = seen'[c]]
      /\ own' = [own EXCEPT ![c] = own'[c]]
  <2>1. CASE \/ \E f \in Fact : Record(c, f) \/ Repeat(c, f)
             \/ \E n \in Node : MakeReady(c, n)
             \/ Touch(c)
    BY <2>1 DEF Inv, TypeOK, Record, Repeat, MakeReady, Touch, Goto
  <2>2. CASE Open(c) \/ Save(c) \/ Read(c)
    BY <2>2 DEF Inv, TypeOK, Open, Save, Read, Goto, Answer
  <2>3. CASE Reject(c) \/ Postpone(c) \/ Repeated(c) \/ Admitted(c) \/ Apply(c)
    BY <2>3 DEF Inv, TypeOK, Reject, Postpone, Repeated, Admitted, Apply, Goto,
                Answer
  <2>4. CASE Leave(c) \/ (\E f, rest, place : TurnTo(c, f, rest, place))
    BY <2>4 DEF Inv, TypeOK, Leave, TurnTo, Goto
  <2>5. CASE Update(c) \/ Finish(c) \/ Undo(c) \/ Claim(c) \/ Crash(c)
    BY <2>4, <2>5 DEF Update, Finish, Undo, Claim, Crash, GoOn, Throw
  <2>6. CASE DatabaseFails(c)
    BY <2>4, <2>6 DEF Inv, TypeOK, DatabaseFails, Throw, Answer, Goto
  <2>7. QED
    BY <2>1, <2>2, <2>3, <2>5, <2>6 DEF CallerStep
<1>2. QED
  BY <1>1 DEF Inv, TypeOK

\* Only a look at the flow gives a command more than it has read.
LEMMA LooksAndEntries ==
  ASSUME Inv, NEW c \in Caller, CallerStep(c)
  PROVE  /\ seen'[c] \in {seen[c], Nothing,
                          [done |-> Done, ready |-> ready, touches |-> touches]}
         /\ pc'[c] = "apply" => Admitted(c)
<1> USE DEF rows, locals, bounds, history
<1>1. CASE \/ \E f \in Fact : Record(c, f) \/ Repeat(c, f)
           \/ \E n \in Node : MakeReady(c, n)
           \/ Touch(c)
  BY <1>1 DEF Inv, TypeOK, Record, Repeat, MakeReady, Touch, Goto
<1>2. CASE Open(c) \/ Save(c) \/ Read(c)
  BY <1>2 DEF Inv, TypeOK, Open, Save, Read, Goto, Answer
<1>3. CASE Reject(c) \/ Postpone(c) \/ Repeated(c) \/ Admitted(c) \/ Apply(c)
  BY <1>3 DEF Inv, TypeOK, Reject, Postpone, Repeated, Admitted, Apply, Goto,
              Answer
<1>4. CASE Leave(c) \/ (\E f, rest : \E place \in {"open", "claim", "undo"} :
                          TurnTo(c, f, rest, place))
  BY <1>4 DEF Inv, TypeOK, Leave, TurnTo, Goto
<1>5. CASE Update(c) \/ Finish(c) \/ Undo(c) \/ Claim(c) \/ Crash(c)
  BY <1>4, <1>5 DEF Update, Finish, Undo, Claim, Crash, GoOn, Throw
<1>6. CASE DatabaseFails(c)
  BY <1>4, <1>6 DEF Inv, TypeOK, DatabaseFails, Throw, Answer, Goto
<1>7. QED
  BY <1>1, <1>2, <1>3, <1>5, <1>6 DEF CallerStep

LEMMA PoisedNext ==
  ASSUME Inv, AllPoised, [Next]_vars
  PROVE  AllPoised'
<1> USE DEF rows, locals, bounds, history
<1>1. Done \subseteq Done' /\ \A m \in Done : doneBy'[m] = doneBy[m]
  BY DoneLasts
<1>2. \A e \in Caller : Poised(e)
  BY DEF AllPoised
\* The node of an event about to be applied is completed by that event: then it
\* was so before, or another execution has just done it.
<1>3. ASSUME NEW e \in Caller, pc[e] = "apply", pc'[e] = "apply",
             doneBy'[NodeOf[doing[e]]] = doing[e]
      PROVE  doing[e] \in crossed'
  <2>1. doing[e] \in Fact /\ NodeOf[doing[e]] \in Node
    BY <1>3 DEF Inv, Busy
  <2>2. doneBy[NodeOf[doing[e]]] = doing[e] => doing[e] \in crossed
    BY <1>2, <1>3 DEF Poised
  <2>3. CASE UNCHANGED <<doneBy, crossed>>
    BY <1>3, <2>2, <2>3
  <2>4. ASSUME NEW c \in Caller, Completes(c) PROVE doing[e] \in crossed'
    <3>1. e # c
      BY <1>3, <2>4 DEF Completes, Inv, TypeOK
    <3>2. crossed \subseteq crossed'
      BY <2>4 DEF Completes
    <3>3. CASE doing[c] = doing[e]
      BY <1>3, <2>4, <3>1, <3>3 DEF Completes, Crossed
    <3>4. CASE doing[c] # doing[e]
      <4>1. doneBy[NodeOf[doing[e]]] = doing[e]
        BY <1>3, <2>1, <2>4, <3>4 DEF Completes, Inv, TypeOK
      <4>2. QED
        BY <2>2, <3>2, <4>1
    <3>5. QED
      BY <3>3, <3>4
  <2>5. QED
    BY <2>3, <2>4, OnlyApplyCompletes, ApplyCases
<1>4. ASSUME NEW e \in Caller, UNCHANGED <<pc[e], doing[e], seen[e]>>
      PROVE  Poised(e)'
  <2>1. seen[e].done \subseteq Done'
    BY <1>1, <1>2 DEF Poised
  <2>2. ASSUME pc[e] = "apply", TooEarly(doing[e], seen[e].done)'
        PROVE  TooEarly(doing[e], seen[e].done)
    <3>1. PICK p \in Before(NodeOf[doing[e]]) \cap seen[e].done :
            At[doneBy'[p]] > At[doing[e]]
      BY <1>4, <2>2 DEF TooEarly, Before
    <3>2. doneBy'[p] = doneBy[p]
      BY <1>1, <1>2, <3>1 DEF Poised
    <3>3. QED
      BY <3>1, <3>2 DEF TooEarly
  <2>3. QED
    BY <1>2, <1>3, <1>4, <2>1, <2>2 DEF Poised, Sealed, Waits, Before
<1>5. ASSUME NEW c \in Caller, Admitted(c) PROVE Poised(c)'
  <2>1. /\ UNCHANGED <<doing, seen, doneBy, crossed>>
        /\ ~Sealed(doing[c], seen[c].done)
        /\ ~Waits(doing[c], seen[c].done)
        /\ ~TooEarly(doing[c], seen[c].done)
        /\ doneBy[NodeOf[doing[c]]] # doing[c]
    BY <1>5 DEF Admitted, AlreadyApplied
  <2>2. seen[c].done \subseteq Done
    BY <1>2 DEF Poised
  <2>3. QED
    BY <2>1, <2>2 DEF Poised, Sealed, Waits, TooEarly, Before, Done
<1>6. ASSUME NEW c \in Caller, CallerStep(c) PROVE Poised(c)'
  <2>1. CASE Admitted(c)
    BY <1>5, <2>1
  <2>2. CASE ~Admitted(c)
    <3>1. pc'[c] # "apply"
      BY <1>6, <2>2, LooksAndEntries
    <3>2. seen'[c].done \subseteq Done
      <4>1. Nothing.done = {} /\ seen[c].done \subseteq Done
        BY <1>2 DEF Nothing, Poised
      <4>2. QED
        BY <1>6, <4>1, LooksAndEntries
    <3>3. QED
      BY <1>1, <3>1, <3>2 DEF Poised
  <2>3. QED
    BY <2>1, <2>2
<1>7. ASSUME NEW c \in Caller, CallerStep(c), NEW e \in Caller \ {c}
      PROVE  Poised(e)'
  BY <1>4, <1>7, OthersDoNotMove
<1>8. CASE UNCHANGED vars \/ \E f \in Fact : Lapse(f)
  BY <1>4, <1>8 DEF vars, Lapse, AllPoised
<1>9. QED
  BY <1>6, <1>7, <1>8 DEF Next, AllPoised

LEMMA InOrderNext ==
  ASSUME Inv, AllPoised, CompletedInOrder, [Next]_vars
  PROVE  CompletedInOrder'
<1>1. CASE UNCHANGED doneBy
  BY <1>1 DEF CompletedInOrder, Done, Before
<1>2. ASSUME NEW c \in Caller, Completes(c) PROVE CompletedInOrder'
  <2> DEFINE f == doing[c]
             n == NodeOf[f]
  <2>1. /\ Done' = Done \cup {n}
        /\ \A m \in Done : doneBy'[m] = doneBy[m]
        /\ doneBy'[n] = f
    BY <1>2, CompletesGrows
  <2>2. n \notin Done /\ Before(n) \subseteq Done /\ ~TooEarly(f, Done)
    BY <1>2 DEF Completes
  <2>3. f \in Fact /\ At[f] \in Nat
    BY <1>2 DEF Completes
  <2>4. \A m \in Done : doneBy[m] \in Fact /\ At[doneBy[m]] \in Nat
    BY DEF Inv, TypeOK, Done
  <2> HIDE DEF f, n
  <2>5. ASSUME NEW k \in Done, NEW m \in Before(k)
        PROVE  m \in Done' /\ At[doneBy'[m]] <= At[doneBy'[k]]
    BY <2>1, <2>5 DEF CompletedInOrder
  <2>6. ASSUME NEW m \in Before(n)
        PROVE  m \in Done' /\ At[doneBy'[m]] <= At[doneBy'[n]]
    <3>1. m \in Done
      BY <2>2, <2>6
    <3>2. ~(At[doneBy[m]] > At[f])
      <4> USE DEF n
      <4> QED
        BY <2>2, <2>6, <3>1 DEF TooEarly
    <3>3. QED
      BY <2>1, <2>3, <2>4, <3>1, <3>2
  <2>7. \A k : Before(k)' = Before(k)
    BY DEF Before
  <2>8. QED
    BY <2>1, <2>5, <2>6, <2>7 DEF CompletedInOrder
<1>3. QED
  BY <1>1, <1>2, OnlyApplyCompletes, ApplyCases

LEMMA InitPoised == Init => AllPoised
  BY DEF Init, AllPoised, Poised, Nothing

LEMMA PoisedInvariance == Spec => []AllPoised
<1>1. Inv /\ AllPoised /\ [Next]_vars => AllPoised'
  BY PoisedNext
<1>2. QED
  BY <1>1, InitPoised, Invariance, PTL DEF Spec

\* Nodes are completed in the order of the flow with times that do not
\* decrease, whatever the commands read before another one completed a node.
THEOREM NodesCompleteInOrder == Spec => []CompletedInOrder
<1>1. Init => CompletedInOrder
  BY DEF Init, CompletedInOrder, Done
<1>2. Inv /\ AllPoised /\ CompletedInOrder /\ [Next]_vars => CompletedInOrder'
  BY InOrderNext
<1>3. QED
  BY <1>1, <1>2, Invariance, PoisedInvariance, PTL DEF Spec

-----------------------------------------------------------------------------
(* What the rows show.                                                     *)

\* f will never complete its node: another fact did, or f is recorded as
\* rejected because a node before it happened later.
Barred(f) ==
  /\ doneBy[NodeOf[f]] # f
  /\ \/ doneBy[NodeOf[f]] # None
     \/ f \in judged /\ TooEarly(f, Done)

\* A rejected fact is barred, unless its event was executed twice at once.
Refused(f) == Barred(f) \/ (doneBy[NodeOf[f]] = f /\ f \in crossed)

\* What a command is about to write down is true, and stays true until then.
Truthful(c) ==
  /\ pc[c] = "update" /\ result[c] = "applied" => doneBy[NodeOf[doing[c]]] = doing[c]
  /\ pc[c] = "update" /\ result[c] = "rejected" => Refused(doing[c])

JudgedBarred == \A f \in judged : Barred(f)

RejectedRefused == \A f \in Fact : fact[f].state = "rejected" => Refused(f)

Outcomes ==
  /\ \A c \in Caller : Truthful(c)
  /\ JudgedBarred
  /\ RejectedRefused
  /\ AppliedIsDone

LEMMA JudgedGrows ==
  ASSUME Inv, [Next]_vars
  PROVE  judged \subseteq judged'
<1> USE DEF rows, locals, bounds, history
<1>1. ASSUME NEW c \in Caller, CallerStep(c) PROVE judged \subseteq judged'
  BY <1>1 DEF CallerStep, Record, Repeat, MakeReady, Touch, Open, Save, Read,
              Reject, Postpone, Repeated, Admitted, Apply, Update, Finish,
              Undo, Claim, DatabaseFails, Crash
<1>2. ASSUME NEW f \in Fact, Lapse(f) PROVE judged \subseteq judged'
  BY <1>2 DEF Lapse
<1>3. CASE UNCHANGED vars
  BY <1>3 DEF vars
<1>4. QED
  BY <1>1, <1>2, <1>3 DEF Next

\* A completed node stays completed by its fact, and a fact that is barred
\* stays barred: the fact that completes a node is not one that was rejected.
LEMMA Lasting ==
  ASSUME Inv, AllPoised, JudgedBarred, [Next]_vars
  PROVE  /\ Done \subseteq Done'
         /\ \A f \in Fact : doneBy[NodeOf[f]] = f => doneBy'[NodeOf[f]] = f
         /\ \A f \in Fact : Barred(f) => Barred(f)'
         /\ \A f \in Fact : Refused(f) => Refused(f)'
<1>1. judged \subseteq judged'
  BY JudgedGrows
<1>2. ASSUME UNCHANGED doneBy
      PROVE  /\ Done \subseteq Done'
             /\ \A f \in Fact : doneBy[NodeOf[f]] = f => doneBy'[NodeOf[f]] = f
             /\ \A f \in Fact : Barred(f) => Barred(f)'
  BY <1>1, <1>2 DEF Barred, Done, TooEarly
<1>3. ASSUME NEW c \in Caller, Completes(c)
      PROVE  /\ Done \subseteq Done'
             /\ \A f \in Fact : doneBy[NodeOf[f]] = f => doneBy'[NodeOf[f]] = f
             /\ \A f \in Fact : Barred(f) => Barred(f)'
  <2> DEFINE g == doing[c]
             n == NodeOf[g]
  <2>1. /\ Done' = Done \cup {n}
        /\ \A m \in Done : doneBy'[m] = doneBy[m]
        /\ doneBy'[n] = g
    BY <1>3, CompletesGrows
  <2>2. n \notin Done /\ g \notin judged /\ g \in Fact
    <3>1. n \notin Done /\ g \in Fact /\ n \in Node /\ ~TooEarly(g, Done)
      BY <1>3 DEF Completes
    <3>2. ~Barred(g)
      BY <3>1 DEF Barred, Done
    <3>3. QED
      BY <3>1, <3>2 DEF JudgedBarred
  <2> HIDE DEF g, n
  <2>3. \A f \in Fact : NodeOf[f] \in Node /\ f # None
    OBVIOUS
  <2>4. \A m \in Node : m \in Done <=> doneBy[m] # None
    BY DEF Done
  <2>5. \A f \in Fact : doneBy[NodeOf[f]] = f => doneBy'[NodeOf[f]] = f
    BY <2>1, <2>3, <2>4
  <2>6. ASSUME NEW f \in Fact, Barred(f) PROVE Barred(f)'
    <3>1. CASE NodeOf[f] \in Done
      BY <2>1, <2>3, <2>4, <2>6, <3>1 DEF Barred
    <3>2. CASE NodeOf[f] \notin Done
      <4>1. f \in judged /\ TooEarly(f, Done)
        BY <2>3, <2>4, <2>6, <3>2 DEF Barred
      <4>2. TooEarly(f, Done)'
        <5>1. PICK p \in Before(NodeOf[f]) \cap Done : At[doneBy[p]] > At[f]
          BY <4>1 DEF TooEarly
        <5>2. p \in Before(NodeOf[f]) \cap Done' /\ doneBy'[p] = doneBy[p]
          BY <2>1, <5>1
        <5>3. QED
          BY <5>1, <5>2 DEF TooEarly, Before
      <4>3. doneBy'[NodeOf[f]] # f
        <5>1. CASE NodeOf[f] = n
          BY <2>1, <2>2, <4>1, <5>1
        <5>2. CASE NodeOf[f] # n
          <6>1. NodeOf[f] \notin Done'
            BY <2>1, <3>2, <5>2
          <6>2. QED
            BY <2>3, <6>1 DEF Done
        <5>3. QED
          BY <5>1, <5>2
      <4>4. f \in judged'
        BY <1>1, <4>1
      <4>5. QED
        BY <4>2, <4>3, <4>4 DEF Barred
    <3>3. QED
      BY <3>1, <3>2
  <2>7. QED
    BY <2>1, <2>5, <2>6
<1>4. /\ Done \subseteq Done'
      /\ \A f \in Fact : doneBy[NodeOf[f]] = f => doneBy'[NodeOf[f]] = f
      /\ \A f \in Fact : Barred(f) => Barred(f)'
  BY <1>2, <1>3, OnlyApplyCompletes, ApplyCases
<1>5. crossed \subseteq crossed'
  BY OnlyApplyCompletes DEF Apply
<1>6. QED
  BY <1>4, <1>5 DEF Refused

LEMMA TooEarlyGrows ==
  ASSUME NEW f \in Fact, NEW nodes \in SUBSET Done, TooEarly(f, nodes)
  PROVE  TooEarly(f, Done)
  BY DEF TooEarly

\* How a row changes its state.
StateChange(f) ==
  \/ fact'[f].state = fact[f].state
  \/ fact[f].state = "none" /\ fact'[f].state = "pending"
  \/ \E c \in Caller :
       /\ pc[c] = "update" /\ doing[c] = f
       /\ fact'[f].state = result[c]
       /\ own[c] = f \/ fact[f].state = "pending"
  \/ \E c \in Caller :
       pc[c] = "undo" /\ own[c] = f /\ fact'[f].state = "pending"

LEMMA StateChanges ==
  ASSUME Inv, [Next]_vars
  PROVE  \A f \in Fact : StateChange(f)
<1> USE DEF rows, locals, bounds, history
<1>0. fact \in [Fact -> FactRow] /\ \A g \in Fact : fact[g] \in FactRow
  BY DEF Inv, TypeOK
<1>1. CASE UNCHANGED fact
  BY <1>1 DEF StateChange
<1>2. ASSUME NEW c \in Caller, NEW g \in Fact, Record(c, g)
      PROVE  \A f \in Fact : StateChange(f)
  BY <1>0, <1>2 DEF Record, StateChange, FactRow
<1>3. ASSUME NEW c \in Caller, Update(c)
      PROVE  \A f \in Fact : StateChange(f)
  <2>1. own[c] = doing[c]
    BY <1>3 DEF Update, Direct
  <2>2. fact' = [fact EXCEPT ![own[c]] = Settled(@, result[c])]
    BY <1>3 DEF Update, Overwrite
  <2>3. QED
    BY <1>0, <1>3, <2>1, <2>2 DEF Update, StateChange, Settled, FactRow
<1>4. ASSUME NEW c \in Caller, Finish(c)
      PROVE  \A f \in Fact : StateChange(f)
  <2>1. CASE Held(c, doing[c]) /\ fact' = [fact EXCEPT ![doing[c]] = Settled(@, result[c])]
    <3>1. \A f \in Fact \ {doing[c]} : fact'[f] = fact[f]
      BY <1>0, <2>1
    <3>2. doing[c] \in Fact => fact'[doing[c]].state = result[c]
      BY <1>0, <2>1 DEF Settled, FactRow
    <3>3. pc[c] = "update" /\ fact[doing[c]].state = "pending"
      BY <1>4, <2>1 DEF Finish, Held
    <3>4. QED
      BY <3>1, <3>2, <3>3 DEF StateChange
  <2>2. QED
    BY <1>1, <1>4, <2>1 DEF Finish
<1>5. ASSUME NEW c \in Caller, Undo(c)
      PROVE  \A f \in Fact : StateChange(f)
  BY <1>0, <1>5 DEF Undo, Overwrite, StateChange, Settled, FactRow
<1>6. ASSUME NEW c \in Caller, Claim(c)
      PROVE  \A f \in Fact : StateChange(f)
  <2>1. \A f \in Fact : fact'[f] = fact[f]
                        \/ fact'[f] = [fact[f] EXCEPT !.owner = c, !.live = TRUE]
    BY <1>6 DEF Claim
  <2>2. \A row \in FactRow : [row EXCEPT !.owner = c, !.live = TRUE].state = row.state
    BY DEF FactRow
  <2>3. \A f \in Fact : fact'[f].state = fact[f].state
    BY <1>0, <2>1, <2>2
  <2>4. QED
    BY <2>3 DEF StateChange
<1>7. ASSUME NEW g \in Fact, Lapse(g)
      PROVE  \A f \in Fact : StateChange(f)
  BY <1>0, <1>7 DEF Lapse, StateChange, FactRow
<1>8. ASSUME NEW c \in Caller, CallerStep(c),
             ~(\E g \in Fact : Record(c, g)), ~Update(c), ~Finish(c),
             ~Undo(c), ~Claim(c)
      PROVE  UNCHANGED fact
  BY <1>8 DEF CallerStep, Repeat, MakeReady, Touch, Open, Save, Read, Reject,
              Postpone, Repeated, Admitted, Apply, DatabaseFails, Crash
<1>9. CASE UNCHANGED vars
  BY <1>1, <1>9 DEF vars
<1>10. QED
  BY <1>1, <1>2, <1>3, <1>4, <1>5, <1>6, <1>7, <1>8, <1>9 DEF Next

\* A replay whose lease is gone, and a claim, leave an applied fact alone.
THEOREM AppliedIsTakenBackByItsCall == Spec => OnlyOwnCallUndoes
<1> DEFINE Step == \A f \in Fact :
             fact[f].state = "applied" /\ fact'[f].state # "applied" =>
               \E c \in Caller : own[c] = f /\ pc[c] \in {"update", "undo"}
<1>1. Inv /\ [Next]_vars => [Step]_vars
  BY StateChanges DEF StateChange
<1>2. QED
  BY <1>1, Invariance, PTL DEF Spec, OnlyOwnCallUndoes

LEMMA TruthfulNext ==
  ASSUME Inv, AllPoised, Outcomes, [Next]_vars
  PROVE  \A c \in Caller : Truthful(c)'
<1> USE DEF rows, locals, bounds, history
<1>1. /\ \A f \in Fact : doneBy[NodeOf[f]] = f => doneBy'[NodeOf[f]] = f
      /\ \A f \in Fact : Refused(f) => Refused(f)'
  BY Lasting DEF Outcomes
<1>2. \A e \in Caller : pc[e] = "update" => doing[e] \in Fact
  BY DEF Inv, Busy
<1>3. \A e \in Caller : Truthful(e)
  BY DEF Outcomes
\* A command that does not move keeps its answer, and so does one that gives none.
<1>4. ASSUME NEW e \in Caller,
             \/ pc'[e] # "update"
             \/ result'[e] = "pending"
             \/ UNCHANGED <<pc[e], result[e], doing[e]>>
      PROVE  Truthful(e)'
  BY <1>1, <1>2, <1>3, <1>4 DEF Truthful
<1>5. ASSUME NEW c \in Caller, CallerStep(c), NEW e \in Caller \ {c}
      PROVE  UNCHANGED <<pc[e], result[e], doing[e], seen[e]>>
  BY <1>5, OthersDoNotMove
\* The command that moves: only these steps answer.
<1>6. ASSUME NEW c \in Caller, doing[c] \in Fact, UNCHANGED doing,
             Refused(doing[c]), Answer(c, "rejected")
      PROVE  Truthful(c)'
  <2>1. result'[c] = "rejected"
    BY <1>6 DEF Answer, Inv, TypeOK
  <2>2. QED
    BY <1>1, <1>6, <2>1 DEF Truthful
<1>7. ASSUME NEW c \in Caller, Open(c) PROVE Truthful(c)'
  <2>1. doing[c] \in Fact /\ UNCHANGED doing
    BY <1>7 DEF Open, Inv, Busy
  <2>2. CASE fact[doing[c]].state = "rejected" /\ Answer(c, "rejected")
    BY <1>6, <2>1, <2>2 DEF Outcomes, RejectedRefused
  <2>3. CASE ~(fact[doing[c]].state = "rejected" /\ Answer(c, "rejected"))
    <3>1. pc'[c] # "update"
      BY <1>7, <2>3 DEF Open, Goto, Inv, TypeOK
    <3>2. QED
      BY <1>4, <3>1
  <2>4. QED
    BY <2>2, <2>3
<1>8. ASSUME NEW c \in Caller, Reject(c) PROVE Truthful(c)'
  <2>1. doing[c] \in Fact /\ NodeOf[doing[c]] \in Node
    BY <1>8 DEF Reject, Inv, Busy
  <2>2. UNCHANGED <<doneBy, doing>> /\ judged' = judged \cup {doing[c]}
        /\ result'[c] = "rejected"
    BY <1>8 DEF Reject, Answer, Inv, TypeOK
  <2>3. doneBy[NodeOf[doing[c]]] # doing[c]
    BY <1>8 DEF Reject, AlreadyApplied
  <2>4. seen[c].done \subseteq Done
    BY DEF AllPoised, Poised
  <2>5. \/ Barred(doing[c])
        \/ doneBy[NodeOf[doing[c]]] # None
        \/ TooEarly(doing[c], Done)
    <3>1. CASE doing[c] \in judged
      BY <3>1 DEF Outcomes, JudgedBarred
    <3>2. CASE Sealed(doing[c], seen[c].done)
      BY <2>4, <3>2 DEF Sealed, Done
    <3>3. CASE TooEarly(doing[c], seen[c].done)
      BY <2>1, <2>4, <3>3, TooEarlyGrows
    <3>4. QED
      BY <1>8, <3>1, <3>2, <3>3 DEF Reject
  <2>6. Barred(doing[c])'
    BY <2>1, <2>2, <2>3, <2>5 DEF Barred, TooEarly, Done
  <2>7. QED
    BY <2>2, <2>6 DEF Truthful, Refused
<1>9. ASSUME NEW c \in Caller, Repeated(c) PROVE Truthful(c)'
  <2>1. doneBy[NodeOf[doing[c]]] = doing[c]
    BY <1>9 DEF Repeated, AlreadyApplied
  <2>2. UNCHANGED <<doneBy, doing>> /\ result'[c] = "applied"
    BY <1>9 DEF Repeated, Answer, Inv, TypeOK
  <2>3. QED
    BY <2>1, <2>2 DEF Truthful
\* The node is found completed: by another fact, or by another execution.
<1>10. ASSUME NEW c \in Caller, Apply(c) PROVE Truthful(c)'
  <2>1. UNCHANGED doing /\ doing[c] \in Fact /\ NodeOf[doing[c]] \in Node
    BY <1>10 DEF Apply, Inv, Busy
  <2>2. doneBy[NodeOf[doing[c]]] = doing[c] => doing[c] \in crossed
    BY <1>10 DEF Apply, AllPoised, Poised
  <2>3. CASE NodeOf[doing[c]] \in Done /\ Answer(c, "rejected")
    <3>1. Refused(doing[c])
      BY <2>1, <2>2, <2>3 DEF Refused, Barred, Done
    <3>2. QED
      BY <1>6, <2>1, <2>3, <3>1
  <2>4. CASE Answer(c, ConflictAnswer)
    BY <1>4, <2>4 DEF Answer, ConflictAnswer, Inv, TypeOK
  <2>5. CASE Answer(c, "applied")
             /\ doneBy' = [doneBy EXCEPT ![NodeOf[doing[c]]] = doing[c]]
    <3>1. result'[c] = "applied" /\ doneBy'[NodeOf[doing[c]]] = doing[c]
      BY <2>1, <2>5 DEF Answer, Inv, TypeOK
    <3>2. QED
      BY <2>1, <3>1 DEF Truthful
  <2>6. QED
    BY <1>10, <2>3, <2>4, <2>5 DEF Apply
<1>11. ASSUME NEW c \in Caller,
              Leave(c) \/ (\E f, rest : \E place \in {"open", "claim", "undo"} :
                             TurnTo(c, f, rest, place))
       PROVE  Truthful(c)'
  <2>1. pc'[c] # "update"
    BY <1>11 DEF Leave, TurnTo, Goto, Inv, TypeOK
  <2>2. QED
    BY <1>4, <2>1
<1>12. ASSUME NEW c \in Caller,
              Update(c) \/ Finish(c) \/ Undo(c) \/ Claim(c) \/ Crash(c)
       PROVE  Truthful(c)'
  BY <1>11, <1>12 DEF Update, Finish, Undo, Claim, Crash, GoOn, Throw
<1>13. ASSUME NEW c \in Caller, DatabaseFails(c) PROVE Truthful(c)'
  <2>1. CASE Throw(c)
    BY <1>11, <2>1 DEF Throw
  <2>2. CASE Answer(c, "pending") /\ UNCHANGED <<doing, queue, own, seen>>
    BY <1>4, <2>2 DEF Answer, Inv, TypeOK
  <2>3. QED
    BY <1>13, <2>1, <2>2 DEF DatabaseFails
<1>14. ASSUME NEW c \in Caller,
              \/ Save(c) \/ Read(c) \/ Postpone(c) \/ Admitted(c) \/ Touch(c)
              \/ \E f \in Fact : Record(c, f) \/ Repeat(c, f)
              \/ \E n \in Node : MakeReady(c, n)
       PROVE  Truthful(c)'
  <2>1. pc'[c] # "update" \/ result'[c] = "pending"
    BY <1>14 DEF Save, Read, Postpone, Admitted, Touch, Record, Repeat, MakeReady,
                 Goto, Answer, WaitingAnswer, Inv, TypeOK
  <2>2. QED
    BY <1>4, <2>1
<1>15. ASSUME NEW c \in Caller, CallerStep(c) PROVE Truthful(c)'
  BY <1>7, <1>8, <1>9, <1>10, <1>12, <1>13, <1>14, <1>15 DEF CallerStep
<1>16. ASSUME NEW c \in Caller, CallerStep(c), NEW e \in Caller PROVE Truthful(e)'
  BY <1>4, <1>5, <1>15, <1>16
<1>17. CASE UNCHANGED vars \/ \E f \in Fact : Lapse(f)
  BY <1>4, <1>17 DEF vars, Lapse
<1>18. QED
  BY <1>16, <1>17 DEF Next

LEMMA JudgedNext ==
  ASSUME Inv, AllPoised, Outcomes, [Next]_vars
  PROVE  JudgedBarred'
<1> USE DEF rows, locals, bounds, history
<1>1. \A f \in Fact : Barred(f) => Barred(f)'
  BY Lasting DEF Outcomes
<1>2. judged \subseteq Fact /\ \A f \in judged : Barred(f)
  BY DEF Outcomes, JudgedBarred, Inv, TypeOK
<1>3. ASSUME NEW c \in Caller, Reject(c) PROVE JudgedBarred'
  <2>1. UNCHANGED doneBy /\ judged' = judged \cup {doing[c]} /\ UNCHANGED doing
        /\ pc'[c] = "update" /\ result'[c] = "rejected"
    BY <1>3 DEF Reject, Answer, Goto, Inv, TypeOK
  <2>2. Truthful(c)'
    BY TruthfulNext
  <2>3. doneBy[NodeOf[doing[c]]] # doing[c]
    BY <1>3 DEF Reject, AlreadyApplied
  <2>4. Barred(doing[c])'
    BY <2>1, <2>2, <2>3 DEF Truthful, Refused, Barred, TooEarly, Done
  <2>5. QED
    BY <1>1, <1>2, <2>1, <2>4 DEF JudgedBarred
<1>4. CASE UNCHANGED judged
  BY <1>1, <1>2, <1>4 DEF JudgedBarred
<1>5. ASSUME NEW c \in Caller, CallerStep(c), ~Reject(c) PROVE UNCHANGED judged
  BY <1>5 DEF CallerStep, Record, Repeat, MakeReady, Touch, Open, Save, Read,
              Postpone, Repeated, Admitted, Apply, Update, Finish, Undo, Claim,
              DatabaseFails, Crash
<1>6. CASE UNCHANGED vars \/ \E f \in Fact : Lapse(f)
  BY <1>4, <1>6 DEF vars, Lapse
<1>7. QED
  BY <1>3, <1>4, <1>5, <1>6 DEF Next

LEMMA OutcomesNext ==
  ASSUME Inv, AllPoised, Outcomes, [Next]_vars
  PROVE  Outcomes'
<1>1. /\ \A f \in Fact : doneBy[NodeOf[f]] = f => doneBy'[NodeOf[f]] = f
      /\ \A f \in Fact : Refused(f) => Refused(f)'
  BY Lasting DEF Outcomes
<1>2. \A f \in Fact : StateChange(f)
  BY StateChanges
<1>3. \A c \in Caller : Truthful(c)
  BY DEF Outcomes
<1>4. RejectedRefused'
  <2> SUFFICES ASSUME NEW f \in Fact, fact'[f].state = "rejected"
               PROVE  Refused(f)'
    BY DEF RejectedRefused
  <2>1. fact[f].state = "rejected" => Refused(f)
    BY DEF Outcomes, RejectedRefused
  <2>2. StateChange(f)
    BY <1>2
  <2>3. Refused(f)
    BY <1>3, <2>1, <2>2 DEF StateChange, Truthful
  <2>4. QED
    BY <1>1, <2>3
<1>5. AppliedIsDone'
  BY <1>1, <1>2, <1>3 DEF Outcomes, AppliedIsDone, StateChange, Truthful
<1>6. QED
  BY <1>4, <1>5, TruthfulNext, JudgedNext DEF Outcomes

LEMMA InitOutcomes == Init => Outcomes
  BY DEF Init, Outcomes, Truthful, JudgedBarred, RejectedRefused, AppliedIsDone

LEMMA OutcomesInvariance == Spec => []Outcomes
<1>1. Inv /\ AllPoised /\ Outcomes /\ [Next]_vars => Outcomes'
  BY OutcomesNext
<1>2. QED
  BY <1>1, InitOutcomes, Invariance, PoisedInvariance, PTL DEF Spec

\* A fact shown as applied completed its node, whoever wrote that last.
THEOREM AppliedFactsAreDone == Spec => []AppliedIsDone
<1>1. Outcomes => AppliedIsDone
  BY DEF Outcomes
<1>2. QED
  BY <1>1, OutcomesInvariance, PTL

\* A rejection has a reason that lasts, or the event of the fact was executed
\* twice and the later execution read the node after the earlier one.
THEOREM RejectionsAreJustified == Spec => []RejectionIsJustified
<1>1. Outcomes => RejectionIsJustified
  BY DEF Outcomes, RejectedRefused, Refused, Barred, RejectionIsJustified
<1>2. QED
  BY <1>1, OutcomesInvariance, PTL

-----------------------------------------------------------------------------
(* Facts that wait.                                                        *)

\* c is about to claim the facts that are pending.
Comes(c) ==
  \/ pc[c] = "claim"
  \/ pc[c] = "update" /\ Direct(c) /\ result[c] = "applied"

\* c saw the flow as it is.
Fresh(c) == seen[c] = [done |-> Done, ready |-> ready, touches |-> touches]

\* c works on f, and would complete its node if it were due.
Attends(c, f) ==
  /\ doing[c] = f
  /\ \/ pc[c] \in {"open", "read"}
     \/ pc[c] = "save" /\ f \notin saved
     \/ pc[c] \in {"decide", "apply"} /\ Fresh(c)

\* f is left to a lease whose holder is not about to give it up.
Working(c, f) ==
  doing[c] = f /\ pc[c] \in {"save", "read", "decide", "apply", "update"}

Pledged(f) ==
  /\ fact[f].owner # None
  /\ \A c \in Caller : fact[f].owner = c => ~Working(c, f)

\* The reasons that do not depend on who has f now.
Covered(f) ==
  \/ f \in skipped \cup stripped
  \/ NodeOf[f] - 1 \in byReplay
  \/ \E c \in Caller : Comes(c) \/ Attends(c, f)

Explained(f) == Pledged(f) \/ Covered(f)

\* As long as nothing fails, no fact is due without a reason to wait.
WaitInv ==
  /\ \A f \in Fact : fact[f].current => fact[f].state # "none"
  /\ \A c \in Caller : pc[c] = "update" => result[c] # "none"
  /\ failures = 0 => \A f \in Fact : Due(f) => Explained(f)

AllInv == Inv /\ AllPoised /\ CompletedInOrder /\ Outcomes /\ WaitInv

\* What is due is neither shown as rejected nor judged.
LEMMA DueIsOpen ==
  ASSUME AllInv, NEW f \in Fact,
         NodeOf[f] \notin Done, ~TooEarly(f, Done)
  PROVE  /\ doneBy[NodeOf[f]] = None
         /\ f \notin judged
         /\ fact[f].state # "applied" /\ fact[f].state # "rejected"
<1>1. doneBy[NodeOf[f]] = None
  BY DEF Done
<1>2. ~Barred(f) /\ ~Refused(f)
  BY <1>1 DEF Barred, Refused
<1>3. QED
  BY <1>1, <1>2
  DEF AllInv, Outcomes, JudgedBarred, RejectedRefused, AppliedIsDone

\* Where the flow stays, a fact that is due was due before.
LEMMA DueBefore ==
  ASSUME NEW f \in Fact, UNCHANGED <<doneBy, ready>>, Due(f)',
         fact[f].state = "pending", fact'[f].current => fact[f].current
  PROVE  Due(f)
  BY DEF Due, Done, Waits, TooEarly

LEMMA DueStays ==
  ASSUME NEW f \in Fact, UNCHANGED <<doneBy, ready, fact>>, Due(f)'
  PROVE  Due(f)
  BY DEF Due, Done, Waits, TooEarly

\* A fact becomes due by the completion of a node only when that node is the
\* one before its own.
LEMMA CompletionMakesDue ==
  ASSUME AllInv, NEW c \in Caller, Completes(c), UNCHANGED ready,
         NEW f \in Fact, Due(f)'
  PROVE  NodeOf[f] - 1 = NodeOf[doing[c]]
<1>1. PICK n : n = NodeOf[doing[c]]
  OBVIOUS
<1>2. PICK k : k = NodeOf[f]
  OBVIOUS
<1>3. k \in Node /\ n \in Node /\ k \in Nat \ {0} /\ n \in Nat \ {0}
  BY <1>1, <1>2 DEF Completes, Node
<1>4. /\ Done' = Done \cup {n}
      /\ n \notin Done /\ Before(n) \subseteq Done
  BY <1>1, CompletesGrows DEF AllInv, Completes
<1>5. k \notin Done' /\ Before(k) \subseteq Done'
  BY <1>2 DEF Due, Waits, Before
<1>6. n < k
  <2>1. k \notin Before(n) /\ k # n
    BY <1>4, <1>5
  <2>2. QED
    BY <1>3, <2>1 DEF Before
<1>7. ASSUME n # k - 1 PROVE FALSE
  <2>1. k - 1 \in Before(k) /\ n \in Before(k - 1)
    BY <1>3, <1>6, <1>7 DEF Before
  <2>2. k - 1 \in Done
    BY <1>4, <1>5, <1>7, <2>1
  <2>3. n \in Done
    BY <2>1, <2>2 DEF AllInv, CompletedInOrder
  <2>4. QED
    BY <1>4, <2>3
<1>8. QED
  BY <1>1, <1>2, <1>7

-----------------------------------------------------------------------------
(* A reason lasts, whatever another command does.                          *)

\* c moves, and the flow stays.
OnlyMoves(c) ==
  /\ \A e \in Caller \ {c} :
       UNCHANGED <<pc[e], result[e], doing[e], seen[e], own[e]>>
  /\ UNCHANGED <<doneBy, ready, touches, byReplay>>

LEMMA CoverLasts ==
  ASSUME NEW c \in Caller, NEW f \in Fact, OnlyMoves(c), Covered(f),
         f \in skipped \cup stripped => f \in skipped' \cup stripped',
         f \in saved' => f \in saved \/ Attends(c, f)',
         Comes(c) => Comes(c)',
         Attends(c, f) => Attends(c, f)'
  PROVE  Covered(f)'
<1>1. ASSUME NEW e \in Caller \ {c}, Comes(e) PROVE Comes(e)'
  BY <1>1 DEF OnlyMoves, Comes, Direct
<1>2. ASSUME NEW e \in Caller \ {c}, Attends(e, f)
      PROVE  Attends(e, f)' \/ Attends(c, f)'
  BY <1>2 DEF OnlyMoves, Attends, Fresh, Done
<1>3. QED
  BY <1>1, <1>2 DEF Covered, OnlyMoves

LEMMA PledgeLasts ==
  ASSUME NEW c \in Caller, NEW f \in Fact, OnlyMoves(c), Pledged(f),
         fact'[f].owner = fact[f].owner,
         Working(c, f)' => Working(c, f)
  PROVE  Pledged(f)'
  BY DEF OnlyMoves, Pledged, Working

LEMMA ReasonLasts ==
  ASSUME NEW c \in Caller, NEW f \in Fact, OnlyMoves(c), Explained(f),
         fact'[f].owner = fact[f].owner,
         f \in skipped \cup stripped => f \in skipped' \cup stripped',
         f \in saved' => f \in saved \/ Attends(c, f)',
         Comes(c) => Comes(c)',
         Attends(c, f) => Attends(c, f)',
         Working(c, f)' => Working(c, f) \/ Attends(c, f)'
  PROVE  Explained(f)'
<1>1. CASE Covered(f)
  BY <1>1, CoverLasts DEF Explained
<1>2. CASE Pledged(f) /\ (Working(c, f)' => Working(c, f))
  BY <1>2, PledgeLasts DEF Explained
<1>3. CASE Attends(c, f)'
  BY <1>3 DEF Explained, Covered
<1>4. QED
  BY <1>1, <1>2, <1>3 DEF Explained

LEMMA ComingExplains ==
  ASSUME NEW c \in Caller, NEW f \in Fact, Comes(c)' PROVE Explained(f)'
  BY DEF Explained, Covered

LEMMA AttendedExplains ==
  ASSUME NEW c \in Caller, NEW f \in Fact, Attends(c, f)' PROVE Explained(f)'
  BY DEF Explained, Covered

LEMMA MovesAlone ==
  ASSUME Inv, NEW c \in Caller, CallerStep(c),
         UNCHANGED <<doneBy, ready, touches, byReplay>>
  PROVE  OnlyMoves(c)
  BY OthersDoNotMove DEF OnlyMoves

-----------------------------------------------------------------------------
(* What each step makes of the reasons.                                    *)

LEMMA StartReasons ==
  ASSUME AllInv, failures = 0, NEW c \in Caller,
         \/ \E g \in Fact : Record(c, g) \/ Repeat(c, g)
         \/ \E n \in Node : MakeReady(c, n)
         \/ Touch(c),
         NEW f \in Fact, Due(f)'
  PROVE  Explained(f)'
<1> USE DEF rows, locals, bounds, history
<1>1. /\ pc \in [Caller -> {"idle", "open", "save", "read", "decide", "apply",
                            "update", "claim", "undo"}]
      /\ doing \in [Caller -> Fact \cup {None}]
      /\ \A g \in Fact : fact[g] \in FactRow
  BY DEF AllInv, Inv, TypeOK
<1>2. CASE \/ \E g \in Fact : Repeat(c, g)
           \/ \E n \in Node : MakeReady(c, n)
           \/ Touch(c)
  <2>1. pc'[c] = "claim"
    BY <1>1, <1>2 DEF Repeat, MakeReady, Touch, Goto
  <2>2. QED
    BY <2>1, ComingExplains DEF Comes
<1>3. ASSUME NEW g \in Fact, Record(c, g) PROVE Explained(f)'
  <2>1. pc[c] = "idle" /\ pc'[c] = "open" /\ doing'[c] = g /\ UNCHANGED saved
    BY <1>1, <1>3 DEF Record, Goto
  <2>2. CASE f = g
    BY <2>1, <2>2, AttendedExplains DEF Attends
  <2>3. CASE f # g
    <3>1. \/ fact'[f] = fact[f]
          \/ fact'[f] = [fact[f] EXCEPT !.current = FALSE]
      BY <1>3, <2>3 DEF Record
    <3>2. fact'[f].current
      BY DEF Due
    <3>3. fact'[f] = fact[f]
      BY <1>1, <3>1, <3>2 DEF FactRow
    <3>4. UNCHANGED <<doneBy, ready, touches, byReplay, skipped, stripped>>
      BY <1>3 DEF Record
    <3>5. Due(f)
      BY <3>3, <3>4, DueBefore DEF Due
    <3>6. Explained(f)
      BY <3>5 DEF AllInv, WaitInv
    <3>7. OnlyMoves(c)
      BY <1>3, <3>4, MovesAlone DEF AllInv, CallerStep
    <3>8. ~Comes(c) /\ ~Attends(c, f) /\ ~Working(c, f)'
      BY <2>1 DEF Comes, Attends, Working
    <3>9. QED
      BY <2>1, <3>3, <3>4, <3>6, <3>7, <3>8, ReasonLasts
  <2>4. QED
    BY <2>2, <2>3
<1>4. QED
  BY <1>2, <1>3

\* Steps that look at the flow and answer, other than Apply.
LEMMA LookReasons ==
  ASSUME AllInv, failures = 0, NEW c \in Caller,
         Open(c) \/ Save(c) \/ Read(c),
         NEW f \in Fact, Due(f)'
  PROVE  Explained(f)'
<1> USE DEF rows, locals, bounds, history
<1>1. /\ pc \in [Caller -> {"idle", "open", "save", "read", "decide", "apply",
                            "update", "claim", "undo"}]
      /\ doing \in [Caller -> Fact \cup {None}]
      /\ seen \in [Caller -> SeenFlow]
  BY DEF AllInv, Inv, TypeOK
<1>2. UNCHANGED <<fact, doneBy, ready, touches, byReplay, skipped, stripped, doing>>
  BY DEF Open, Save, Read
<1>3. Due(f) /\ Explained(f)
  <2>1. Due(f)
    BY <1>2, DueStays
  <2>2. QED
    BY <2>1 DEF AllInv, WaitInv
<1>4. OnlyMoves(c)
  BY <1>2, MovesAlone DEF AllInv, CallerStep
<1>5. fact'[f].owner = fact[f].owner
  BY <1>2
<1>6. pc[c] \in {"open", "save", "read"}
  BY DEF Open, Save, Read
<1>7. ~Comes(c)
  BY <1>6 DEF Comes
<1>8. CASE doing[c] # f
  <2>1. ~Attends(c, f) /\ ~Working(c, f)'
    BY <1>2, <1>8 DEF Attends, Working
  <2>2. f \in saved' => f \in saved
    BY <1>8 DEF Open, Save, Read
  <2>3. QED
    BY <1>2, <1>3, <1>4, <1>5, <1>7, <2>1, <2>2, ReasonLasts
<1>9. CASE doing[c] = f /\ Open(c)
  <2>1. UNCHANGED saved
    BY <1>9 DEF Open
  <2>2. fact[f].state # "rejected"
    BY <1>3 DEF Due
  <2>3. pc'[c] = IF f \in saved THEN "read" ELSE "save"
    BY <1>1, <1>9, <2>2 DEF Open, Goto
  <2>4. Attends(c, f)'
    BY <1>2, <1>9, <2>1, <2>3 DEF Attends
  <2>5. QED
    BY <2>4, AttendedExplains
<1>10. CASE doing[c] = f /\ Save(c) /\ f \notin saved
  <2>1. pc'[c] = "read"
    BY <1>1, <1>10 DEF Save, Goto
  <2>2. Attends(c, f)'
    BY <1>2, <1>10, <2>1 DEF Attends
  <2>3. QED
    BY <2>2, AttendedExplains
<1>11. CASE doing[c] = f /\ Save(c) /\ f \in saved
  <2>1. pc[c] = "save"
    BY <1>11 DEF Save
  <2>2. ~Attends(c, f) /\ Working(c, f)
    BY <1>11, <2>1 DEF Attends, Working
  <2>3. QED
    BY <1>2, <1>3, <1>4, <1>5, <1>7, <1>11, <2>2, ReasonLasts
<1>12. CASE doing[c] = f /\ Read(c)
  <2>1. /\ pc'[c] = "decide"
        /\ seen'[c] = [done |-> Done, ready |-> ready, touches |-> touches]
    BY <1>1, <1>12 DEF Read, Goto
  <2>2. Done' = Done
    BY <1>2 DEF Done
  <2>3. Attends(c, f)'
    BY <1>2, <1>12, <2>1, <2>2 DEF Attends, Fresh
  <2>4. QED
    BY <2>3, AttendedExplains
<1>13. QED
  BY <1>8, <1>9, <1>10, <1>11, <1>12

\* Steps that decide, and leave the flow as it is.
LEMMA AnswerReasons ==
  ASSUME AllInv, failures = 0, NEW c \in Caller,
         Reject(c) \/ Postpone(c) \/ Repeated(c) \/ Apply(c),
         UNCHANGED <<doneBy, byReplay>>,
         NEW f \in Fact, Due(f)'
  PROVE  Explained(f)'
<1> USE DEF rows, locals, bounds, history
<1>1. UNCHANGED <<fact, saved, ready, touches, skipped, stripped, doing>>
      /\ pc[c] \in {"decide", "apply"}
      /\ (Apply(c) => pc[c] = "apply") /\ (~Apply(c) => pc[c] = "decide")
  BY DEF Reject, Postpone, Repeated, Apply
<1>2. Due(f)
  BY <1>1, DueStays
<1>3. Explained(f)
  BY <1>2 DEF AllInv, WaitInv
<1>4. /\ doneBy[NodeOf[f]] = None /\ f \notin judged
      /\ NodeOf[f] \in ready /\ NodeOf[f] \notin Done
      /\ ~Waits(f, Done) /\ ~TooEarly(f, Done)
  BY <1>2, DueIsOpen DEF Due
<1>5. ~Attends(c, f)
  <2> SUFFICES ASSUME doing[c] = f, Fresh(c) PROVE FALSE
    BY <1>1 DEF Attends
  <2>1. seen[c].done = Done /\ seen[c].ready = ready /\ seen[c].touches = touches
    BY DEF Fresh
  <2>2. CASE Reject(c)
    BY <1>4, <2>1, <2>2 DEF Reject, Sealed
  <2>3. CASE Postpone(c)
    BY <1>4, <2>1, <2>3 DEF Postpone
  <2>4. CASE Repeated(c)
    BY <1>4, <2>4 DEF Repeated, AlreadyApplied
  <2>5. CASE Apply(c)
    <3>1. doneBy' = [doneBy EXCEPT ![NodeOf[f]] = f]
      BY <1>4, <2>1, <2>5 DEF Apply
    <3>2. doneBy \in [Node -> Fact \cup {None}] /\ NodeOf[f] \in Node
      BY DEF AllInv, Inv, TypeOK
    <3>3. doneBy'[NodeOf[f]] = f
      BY <3>1, <3>2
    <3>4. QED
      BY <1>4, <3>3
  <2>6. QED
    BY <2>2, <2>3, <2>4, <2>5
<1>6. OnlyMoves(c)
  BY <1>1, MovesAlone DEF AllInv, CallerStep
<1>7. ~Comes(c)
  BY <1>1 DEF Comes
<1>8. Working(c, f)' => Working(c, f)
  BY <1>1 DEF Working
<1>9. fact'[f].owner = fact[f].owner
  BY <1>1
<1>10. QED
  BY <1>1, <1>3, <1>5, <1>6, <1>7, <1>8, <1>9, ReasonLasts

\* The command that completes a node claims, unless it is a replay.
LEMMA CompletionReasons ==
  ASSUME AllInv, NEW c \in Caller, Apply(c), Completes(c),
         NEW f \in Fact, Due(f)'
  PROVE  Explained(f)'
<1>1. UNCHANGED <<doing, own, ready>>
  BY DEF Apply
<1>2. NodeOf[f] - 1 = NodeOf[doing[c]]
  BY <1>1, CompletionMakesDue
<1>3. /\ pc'[c] = "update" /\ result'[c] = "applied"
      /\ NodeOf[doing[c]] \notin Done
  <2>1. /\ pc \in [Caller -> {"idle", "open", "save", "read", "decide", "apply",
                              "update", "claim", "undo"}]
        /\ result \in [Caller -> {"none", "pending", "applied", "rejected"}]
    BY DEF AllInv, Inv, TypeOK
  <2>2. QED
    BY <2>1 DEF Completes
<1>4. CASE Direct(c)
  <2>1. Comes(c)'
    BY <1>1, <1>3, <1>4 DEF Comes, Direct
  <2>2. QED
    BY <2>1, ComingExplains
<1>5. CASE ~Direct(c)
  <2>1. result'[c] # "rejected"
    BY <1>3
  <2>2. doneBy'[NodeOf[doing[c]]] # doneBy[NodeOf[doing[c]]]
    <3>1. doneBy'[NodeOf[doing[c]]] = doing[c]
      BY CompletesGrows DEF AllInv
    <3>2. doing[c] \in Fact
      BY DEF Completes
    <3>3. doneBy[NodeOf[doing[c]]] = None
      BY <1>3, <3>2 DEF Done
    <3>4. QED
      BY <3>1, <3>2, <3>3
  <2>3. byReplay' = byReplay \cup {NodeOf[doing[c]]}
    BY <1>5, <2>2 DEF Apply
  <2>4. QED
    BY <1>2, <2>3 DEF Explained, Covered
<1>6. QED
  BY <1>4, <1>5

\* The second lookup of the event leaves all that is needed to complete.
LEMMA AdmittedReasons ==
  ASSUME AllInv, failures = 0, NEW c \in Caller, Admitted(c),
         NEW f \in Fact, Due(f)'
  PROVE  Explained(f)'
<1> USE DEF rows, locals, bounds, history
<1>1. /\ UNCHANGED <<fact, saved, doneBy, ready, touches, byReplay, skipped,
                     stripped, doing, seen>>
      /\ pc[c] = "decide" /\ pc'[c] = "apply"
  BY DEF Admitted, Goto, AllInv, Inv, TypeOK
<1>2. Explained(f)
  <2>1. Due(f)
    BY <1>1, DueStays
  <2>2. QED
    BY <2>1 DEF AllInv, WaitInv
<1>3. OnlyMoves(c)
  BY <1>1, MovesAlone DEF AllInv, CallerStep
<1>4. Attends(c, f) => Attends(c, f)'
  BY <1>1 DEF Attends, Fresh, Done
<1>5. (Working(c, f)' => Working(c, f)) /\ ~Comes(c)
  BY <1>1 DEF Working, Comes
<1>6. QED
  BY <1>1, <1>2, <1>3, <1>4, <1>5, ReasonLasts

LEMMA ApplyReasons ==
  ASSUME AllInv, failures = 0, NEW c \in Caller, Apply(c),
         NEW f \in Fact, Due(f)'
  PROVE  Explained(f)'
<1>1. CASE Completes(c)
  BY <1>1, CompletionReasons
<1>2. CASE UNCHANGED <<doneBy, byReplay>>
  BY <1>2, AnswerReasons
<1>3. QED
  BY <1>1, <1>2, ApplyCases DEF AllInv

\* A command that gives up a fact leaves the reasons of the others.
LEMMA GivingUpKeeps ==
  ASSUME NEW c \in Caller, NEW f \in Fact, OnlyMoves(c),
         UNCHANGED <<saved, skipped>>, stripped \subseteq stripped',
         pc[c] \in {"update", "undo"}, pc'[c] \in {"idle", "open", "claim", "undo"},
         ~Comes(c)
  PROVE  /\ Covered(f) => Covered(f)'
         /\ Explained(f) /\ fact'[f].owner = fact[f].owner => Explained(f)'
<1>1. ~Attends(c, f) /\ ~Working(c, f)'
  BY DEF Attends, Working
<1>2. Covered(f) => Covered(f)'
  BY <1>1, CoverLasts
<1>3. ASSUME Pledged(f), fact'[f].owner = fact[f].owner PROVE Pledged(f)'
  BY <1>1, <1>3, PledgeLasts
<1>4. QED
  BY <1>2, <1>3 DEF Explained

\* The call that appended a fact shows that it waits, and returns.
LEMMA OverwriteReasons ==
  ASSUME AllInv, failures = 0, NEW c \in Caller, NEW state,
         CallerStep(c), pc[c] \in {"update", "undo"}, ~Comes(c),
         own[c] \in Fact, Overwrite(own[c], state), Leave(c),
         UNCHANGED <<saved, doneBy, ready, touches, skipped, byReplay>>,
         NEW f \in Fact, Due(f)'
  PROVE  Explained(f)'
<1>1. fact \in [Fact -> FactRow] /\ \A g \in Fact : fact[g] \in FactRow
  BY DEF AllInv, Inv, TypeOK
<1>2. pc'[c] = "idle"
  BY DEF AllInv, Inv, TypeOK, Leave, Goto
<1>3. fact' = [fact EXCEPT ![own[c]] = Settled(@, state)]
      /\ stripped' = stripped \cup (IF fact[own[c]].owner # None THEN {own[c]} ELSE {})
  BY DEF Overwrite
<1>4. OnlyMoves(c)
  BY MovesAlone DEF AllInv
<1>5. /\ Covered(f) => Covered(f)'
      /\ Explained(f) /\ fact'[f].owner = fact[f].owner => Explained(f)'
  BY <1>2, <1>3, <1>4, GivingUpKeeps
<1>6. CASE f # own[c]
  <2>1. fact'[f] = fact[f]
    BY <1>1, <1>3, <1>6
  <2>2. Due(f)
    BY <2>1, DueBefore DEF Due
  <2>3. QED
    BY <1>5, <2>1, <2>2 DEF AllInv, WaitInv
<1>7. CASE f = own[c]
  <2>1. fact'[f] = Settled(fact[f], state)
    BY <1>1, <1>3, <1>7
  <2>2. fact'[f].current = fact[f].current
    BY <1>1, <2>1 DEF Settled, FactRow
  <2>3. NodeOf[f] \notin Done /\ ~TooEarly(f, Done) /\ fact[f].current
    BY <2>2 DEF Due, Done, TooEarly
  <2>4. fact[f].state = "pending"
    BY <1>1, <2>3, DueIsOpen DEF AllInv, WaitInv, FactRow
  <2>5. Due(f)
    BY <2>2, <2>4, DueBefore
  <2>6. Pledged(f) \/ Covered(f)
    BY <2>5 DEF AllInv, WaitInv, Explained
  <2>7. CASE fact[f].owner # None
    BY <1>3, <1>7, <2>7 DEF Explained, Covered
  <2>8. CASE fact[f].owner = None
    BY <1>5, <2>6, <2>8 DEF Pledged, Explained
  <2>9. QED
    BY <2>7, <2>8
<1>8. QED
  BY <1>6, <1>7

LEMMA OwnOutcomeReasons ==
  ASSUME AllInv, failures = 0, NEW c \in Caller, Update(c) \/ Undo(c),
         NEW f \in Fact, Due(f)'
  PROVE  Explained(f)'
<1>1. pc \in [Caller -> {"idle", "open", "save", "read", "decide", "apply",
                         "update", "claim", "undo"}]
      /\ own \in [Caller -> Fact \cup {None}]
      /\ own[c] \in Fact
  BY DEF AllInv, Inv, TypeOK, Busy, Update, Undo, Direct
<1>2. CASE Update(c) /\ result[c] = "applied"
  <2>1. pc'[c] = "claim"
    BY <1>1, <1>2 DEF Update, Replays, TurnTo, Goto
  <2>2. QED
    BY <2>1, ComingExplains DEF Comes
<1>3. CASE Update(c) /\ result[c] # "applied"
  <2>1. pc[c] = "update" /\ ~Comes(c)
    BY <1>3 DEF Update, Comes
  <2>2. Overwrite(own[c], result[c]) /\ Leave(c)
        /\ UNCHANGED <<saved, doneBy, ready, touches, skipped, byReplay>>
    BY <1>3 DEF Update, Replays
  <2>3. CallerStep(c)
    BY <1>3 DEF CallerStep
  <2>4. QED
    BY <1>1, <2>1, <2>2, <2>3, OverwriteReasons
<1>4. CASE Undo(c)
  <2>1. pc[c] = "undo" /\ ~Comes(c)
    BY <1>4 DEF Undo, Comes
  <2>2. Overwrite(own[c], "pending") /\ Leave(c)
        /\ UNCHANGED <<saved, doneBy, ready, touches, skipped, byReplay>>
    BY <1>4 DEF Undo
  <2>3. CallerStep(c)
    BY <1>4 DEF CallerStep
  <2>4. QED
    BY <1>1, <2>1, <2>2, <2>3, OverwriteReasons
<1>5. QED
  BY <1>2, <1>3, <1>4

\* A replay shows that a fact it had a lease on waits: that lease was no reason.
LEMMA FinishReasons ==
  ASSUME AllInv, failures = 0, NEW c \in Caller, Finish(c),
         NEW f \in Fact, Due(f)'
  PROVE  Explained(f)'
<1> USE DEF rows, locals, bounds, history
<1>1. /\ pc \in [Caller -> {"idle", "open", "save", "read", "decide", "apply",
                            "update", "claim", "undo"}]
      /\ fact \in [Fact -> FactRow] /\ \A g \in Fact : fact[g] \in FactRow
  BY DEF AllInv, Inv, TypeOK
<1>2. pc[c] = "update" /\ ~Comes(c)
      /\ UNCHANGED <<saved, doneBy, ready, touches, skipped, stripped, byReplay>>
  BY DEF Finish, Comes
<1>3. pc'[c] \in {"idle", "open", "undo"}
  BY <1>1 DEF Finish, GoOn, Throw, Leave, TurnTo, Goto
<1>4. OnlyMoves(c)
  BY <1>2, MovesAlone DEF AllInv, CallerStep
<1>5. /\ Covered(f) => Covered(f)'
      /\ Explained(f) /\ fact'[f].owner = fact[f].owner => Explained(f)'
  BY <1>2, <1>3, <1>4, GivingUpKeeps
<1>6. CASE fact'[f] = fact[f]
  <2>1. Due(f)
    BY <1>2, <1>6, DueBefore DEF Due
  <2>2. QED
    BY <1>5, <1>6, <2>1 DEF AllInv, WaitInv
<1>7. CASE fact'[f] # fact[f]
  <2>1. /\ f = doing[c] /\ Held(c, f)
        /\ fact' = [fact EXCEPT ![f] = Settled(@, result[c])]
    BY <1>1, <1>7 DEF Finish
  <2>2. fact'[f].current = fact[f].current
    BY <1>1, <2>1 DEF Settled, FactRow
  <2>3. Due(f)
    BY <1>2, <2>1, <2>2, DueBefore DEF Held
  <2>4. ~Pledged(f)
    BY <1>2, <2>1 DEF Pledged, Held, Working
  <2>5. Covered(f)
    BY <2>3, <2>4 DEF AllInv, WaitInv, Explained
  <2>6. QED
    BY <1>5, <2>5 DEF Explained
<1>8. QED
  BY <1>6, <1>7

LEMMA ClaimReasons ==
  ASSUME AllInv, NEW c \in Caller, Claim(c), NEW f \in Fact, Due(f)'
  PROVE  Explained(f)'
<1> DEFINE claimed == {g \in Candidates : ~Leased(g)}
<1>1. \A g \in Fact : fact[g] \in FactRow
  BY DEF AllInv, Inv, TypeOK
<1>2. fact'[f] = IF f \in claimed
                 THEN [fact[f] EXCEPT !.owner = c, !.live = TRUE]
                 ELSE fact[f]
  BY DEF Claim
<1>3. fact'[f].state = fact[f].state /\ fact'[f].current = fact[f].current
  BY <1>1, <1>2 DEF FactRow
<1>4. f \in Candidates
  BY <1>3 DEF Due, Candidates
<1>5. CASE f \in claimed
  <2>1. fact'[f].owner = c
    BY <1>1, <1>2, <1>5 DEF FactRow
  <2>2. pc'[c] = "open"
    BY <1>5 DEF AllInv, Inv, TypeOK, Claim, TurnTo, Goto
  <2>3. c # None
    OBVIOUS
  <2>4. QED
    BY <2>1, <2>2, <2>3 DEF Explained, Pledged, Working
<1>6. CASE f \notin claimed
  <2>1. f \in skipped'
    BY <1>4, <1>6 DEF Claim
  <2>2. QED
    BY <2>1 DEF Explained, Covered
<1>7. QED
  BY <1>5, <1>6

\* Neither a lease that lapses nor a stuttering step takes a reason away.
LEMMA LapseReasons ==
  ASSUME AllInv, failures = 0, (\E g \in Fact : Lapse(g)) \/ UNCHANGED vars,
         NEW f \in Fact, Due(f)'
  PROVE  Explained(f)'
<1> USE DEF rows, locals, bounds, history
<1>1. \A g \in Fact : fact[g] \in FactRow
  BY DEF AllInv, Inv, TypeOK
<1>2. UNCHANGED <<saved, doneBy, ready, touches, pc, locals, history>>
  BY DEF Lapse, vars
<1>3. /\ fact'[f].state = fact[f].state /\ fact'[f].current = fact[f].current
      /\ fact'[f].owner = fact[f].owner
  <2>1. ASSUME NEW g \in Fact, Lapse(g)
        PROVE  fact'[f] = fact[f] \/ fact'[f] = [fact[f] EXCEPT !.live = FALSE]
    <3>1. fact \in [Fact -> FactRow]
      BY DEF AllInv, Inv, TypeOK
    <3>2. QED
      BY <2>1, <3>1 DEF Lapse
  <2>2. UNCHANGED vars => fact' = fact
    BY DEF vars
  <2>3. QED
    BY <1>1, <2>1, <2>2 DEF FactRow
<1>4. Due(f)
  BY <1>2, <1>3, DueBefore DEF Due
<1>5. Pledged(f) \/ Covered(f)
  BY <1>4 DEF AllInv, WaitInv, Explained
<1>6. Pledged(f) => Pledged(f)'
  BY <1>2, <1>3 DEF Pledged, Working
<1>7. Covered(f) => Covered(f)'
  BY <1>2 DEF Covered, Comes, Direct, Attends, Fresh, Done
<1>8. QED
  BY <1>5, <1>6, <1>7 DEF Explained

LEMMA FailuresCount ==
  ASSUME Inv, [Next]_vars, failures' = 0
  PROVE  /\ failures = 0
         /\ \A c \in Caller : ~DatabaseFails(c) /\ ~Crash(c)
<1> USE DEF rows, locals, bounds, history
<1>1. failures \in Nat
  BY DEF Inv, TypeOK
<1>2. \A c \in Caller : ~DatabaseFails(c) /\ ~Crash(c)
  BY <1>1 DEF DatabaseFails, Crash
<1>3. ASSUME NEW c \in Caller, CallerStep(c) PROVE UNCHANGED failures
  BY <1>2, <1>3 DEF CallerStep, Record, Repeat, MakeReady, Touch, Open, Save,
                    Read, Reject, Postpone, Repeated, Admitted, Apply,
                    Update, Finish, Undo, Claim
<1>4. CASE (\E f \in Fact : Lapse(f)) \/ UNCHANGED vars
  BY <1>2, <1>4 DEF Lapse, vars
<1>5. QED
  BY <1>2, <1>3, <1>4 DEF Next

LEMMA AnswersAreGiven ==
  ASSUME Inv, \A c \in Caller : pc[c] = "update" => result[c] # "none", [Next]_vars
  PROVE  (\A c \in Caller : pc[c] = "update" => result[c] # "none")'
<1> USE DEF rows, locals, bounds, history
<1>1. /\ pc \in [Caller -> {"idle", "open", "save", "read", "decide", "apply",
                            "update", "claim", "undo"}]
      /\ result \in [Caller -> {"none", "pending", "applied", "rejected"}]
  BY DEF Inv, TypeOK
<1>2. ASSUME NEW c \in Caller, NEW answer \in {"pending", "applied", "rejected"},
             Answer(c, answer)
      PROVE  result'[c] # "none"
  BY <1>1, <1>2 DEF Answer
<1>3. ASSUME NEW c \in Caller, CallerStep(c), pc'[c] = "update"
      PROVE  result'[c] # "none"
  <2>1. CASE \/ \E f \in Fact : Record(c, f) \/ Repeat(c, f)
             \/ \E n \in Node : MakeReady(c, n)
             \/ Touch(c)
    BY <1>1, <1>3, <2>1 DEF Record, Repeat, MakeReady, Touch, Goto
  <2>2. CASE Open(c) \/ Save(c) \/ Read(c)
    BY <1>1, <1>2, <1>3, <2>2 DEF Open, Save, Read, Goto
  <2>3. CASE Reject(c) \/ Postpone(c) \/ Repeated(c) \/ Apply(c) \/ Admitted(c)
    BY <1>1, <1>2, <1>3, <2>3 DEF Admitted, Goto, Reject, Postpone, Repeated, Apply, WaitingAnswer, ConflictAnswer
  <2>4. CASE Update(c) \/ Finish(c) \/ Undo(c) \/ Claim(c) \/ Crash(c)
    BY <1>1, <1>3, <2>4 DEF Update, Finish, Undo, Claim, Crash, GoOn, Throw,
                            Leave, TurnTo, Goto
  <2>5. CASE DatabaseFails(c)
    BY <1>1, <1>2, <1>3, <2>5 DEF DatabaseFails, Throw, Leave, TurnTo, Goto
  <2>6. QED
    BY <1>3, <2>1, <2>2, <2>3, <2>4, <2>5 DEF CallerStep
<1>4. ASSUME NEW c \in Caller, CallerStep(c), NEW e \in Caller, pc'[e] = "update"
      PROVE  result'[e] # "none"
  BY <1>3, <1>4, OthersDoNotMove
<1>5. CASE (\E f \in Fact : Lapse(f)) \/ UNCHANGED vars
  BY <1>5 DEF Lapse, vars
<1>6. QED
  BY <1>4, <1>5 DEF Next

LEMMA CurrentIsRecorded ==
  ASSUME AllInv, [Next]_vars, NEW f \in Fact, fact'[f].current
  PROVE  fact'[f].state # "none"
<1>1. StateChange(f)
  BY StateChanges DEF AllInv
<1>2. \A c \in Caller : pc[c] = "update" => result[c] # "none"
  BY DEF AllInv, WaitInv
<1>3. fact[f].state # "none" => fact'[f].state # "none"
  BY <1>1, <1>2 DEF StateChange
<1>4. CASE fact[f].current
  BY <1>3, <1>4 DEF AllInv, WaitInv
<1>5. CASE ~fact[f].current
  <2> USE DEF rows, locals, bounds, history
  <2>1. \A g \in Fact : fact[g] \in FactRow
    BY DEF AllInv, Inv, TypeOK
  <2>2. fact \in [Fact -> FactRow]
    BY DEF AllInv, Inv, TypeOK
  <2>3. ASSUME NEW row \in FactRow, NEW state
        PROVE  Settled(row, state).current = row.current
    BY DEF Settled, FactRow
  <2>4. ASSUME NEW c \in Caller, Record(c, f) PROVE fact'[f].state # "none"
    BY <2>4 DEF Record
  <2>5. ASSUME NEW c \in Caller, NEW g \in Fact \ {f}, Record(c, g) PROVE FALSE
    BY <1>5, <2>1, <2>5 DEF Record, FactRow
  <2>6. ASSUME NEW c \in Caller, Update(c) \/ Finish(c) \/ Undo(c) PROVE FALSE
    BY <1>5, <2>1, <2>2, <2>3, <2>6 DEF Update, Finish, Undo, Overwrite
  <2>7. ASSUME NEW c \in Caller, Claim(c) PROVE FALSE
    <3>1. f \notin Candidates
      BY <1>5 DEF Candidates
    <3>2. fact'[f] = fact[f]
      BY <2>7, <3>1, Zenon DEF Claim
    <3>3. QED
      BY <1>5, <3>2
  <2>8. ASSUME NEW g \in Fact, Lapse(g) PROVE FALSE
    BY <1>5, <2>1, <2>2, <2>8 DEF Lapse, FactRow
  <2>9. CASE UNCHANGED fact
    BY <1>5, <2>9
  <2>10. ASSUME NEW c \in Caller, CallerStep(c),
                ~(\E g \in Fact : Record(c, g)), ~Update(c), ~Finish(c),
                ~Undo(c), ~Claim(c)
         PROVE  UNCHANGED fact
    BY <2>10 DEF CallerStep, Repeat, MakeReady, Touch, Open, Save, Read, Reject,
                 Postpone, Repeated, Admitted, Apply, DatabaseFails, Crash
  <2>11. UNCHANGED vars => UNCHANGED fact
    BY DEF vars
  <2>12. QED
    BY <2>4, <2>5, <2>6, <2>7, <2>8, <2>9, <2>10, <2>11 DEF Next
<1>6. QED
  BY <1>4, <1>5

LEMMA ReasonsNext ==
  ASSUME AllInv, [Next]_vars, failures' = 0, NEW f \in Fact, Due(f)'
  PROVE  Explained(f)'
<1>1. failures = 0 /\ \A c \in Caller : ~DatabaseFails(c) /\ ~Crash(c)
  BY FailuresCount DEF AllInv
<1>2. ASSUME NEW c \in Caller, CallerStep(c) PROVE Explained(f)'
  <2>1. CASE Reject(c) \/ Postpone(c) \/ Repeated(c)
    <3>1. UNCHANGED <<doneBy, byReplay>>
      BY <2>1 DEF Reject, Postpone, Repeated, rows, history
    <3>2. QED
      BY <1>1, <2>1, <3>1, AnswerReasons
  <2>2. QED
    BY <1>1, <1>2, <2>1, StartReasons, LookReasons, AdmittedReasons, ApplyReasons,
       OwnOutcomeReasons, FinishReasons, ClaimReasons DEF CallerStep
<1>3. CASE (\E g \in Fact : Lapse(g)) \/ UNCHANGED vars
  BY <1>1, <1>3, LapseReasons
<1>4. QED
  BY <1>2, <1>3 DEF Next

LEMMA WaitNext ==
  ASSUME AllInv, [Next]_vars
  PROVE  WaitInv'
<1>1. (\A f \in Fact : fact[f].current => fact[f].state # "none")'
  BY CurrentIsRecorded
<1>2. (\A c \in Caller : pc[c] = "update" => result[c] # "none")'
  BY AnswersAreGiven DEF AllInv, WaitInv
<1>3. (failures = 0 => \A f \in Fact : Due(f) => Explained(f))'
  BY ReasonsNext
<1>4. QED
  BY <1>1, <1>2, <1>3 DEF WaitInv

\* A fact that could complete its node and is applied by nobody has a lease, was
\* left to one by the last claim, was taken from one by its own call, or waits
\* for the node that a replay completed.
THEOREM DueFactsWaitForAReason == Spec => []WaitsForAReason
<1>1. Init => AllInv
  <2>1. Init => CompletedInOrder
    BY DEF Init, CompletedInOrder, Done
  <2>2. Init => WaitInv
    BY DEF Init, WaitInv, Due
  <2>3. QED
    BY <2>1, <2>2, InitInv, InitPoised, InitOutcomes DEF AllInv
<1>2. AllInv /\ [Next]_vars => AllInv'
  BY NextInv, PoisedNext, InOrderNext, OutcomesNext, WaitNext DEF AllInv
<1>3. AllInv => WaitsForAReason
  <2> SUFFICES ASSUME AllInv, Quiet, NEW f \in Fact, Due(f)
               PROVE  \/ fact[f].owner # None
                      \/ f \in skipped \/ f \in stripped
                      \/ NodeOf[f] - 1 \in byReplay
    BY DEF WaitsForAReason
  <2>1. Explained(f)
    BY DEF AllInv, WaitInv, Quiet
  <2>2. \A c \in Caller : ~Comes(c) /\ ~Attends(c, f)
    BY DEF Quiet, Comes, Attends
  <2>3. QED
    BY <2>1, <2>2 DEF Explained, Covered, Pledged
<1>4. QED
  BY <1>1, <1>2, <1>3, PTL DEF Spec
=============================================================================
