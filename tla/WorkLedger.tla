----------------------------- MODULE WorkLedger -----------------------------
(***************************************************************************)
(* What work-execution promises to people, without tasks, versions, reads  *)
(* or receipts: work waits until it is open, at most one person ever takes *)
(* it, and it is done once, for one cause.                                 *)
(***************************************************************************)
CONSTANTS Node, Actor, Fact, None

VARIABLES
  item,     \* [Node -> {"absent", "waiting", "open", "taken", "done"}]
  holder,   \* [Node -> Actor \cup {None}]
  causes    \* [Node -> SUBSET (Fact \cup {"work"})]

ledgerVars == <<item, holder, causes>>

LedgerInit ==
  /\ item   = [n \in Node |-> "absent"]
  /\ holder = [n \in Node |-> None]
  /\ causes = [n \in Node |-> {}]

Appear(n) ==
  /\ item[n] = "absent"
  /\ \E i \in {"waiting", "open"} : item' = [item EXCEPT ![n] = i]
  /\ UNCHANGED <<holder, causes>>

Opens(n) ==
  /\ item[n] = "waiting"
  /\ item' = [item EXCEPT ![n] = "open"]
  /\ UNCHANGED <<holder, causes>>

Take(n) ==
  /\ item[n] = "open"
  /\ item' = [item EXCEPT ![n] = "taken"]
  /\ \E a \in Actor : holder' = [holder EXCEPT ![n] = a]
  /\ UNCHANGED causes

Finish(n) ==
  /\ item[n] \in {"open", "taken"}
  /\ item' = [item EXCEPT ![n] = "done"]
  /\ \E c \in Fact \cup {"work"} : causes' = [causes EXCEPT ![n] = {c}]
  /\ UNCHANGED holder

LedgerNext == \E n \in Node : Appear(n) \/ Opens(n) \/ Take(n) \/ Finish(n)

LedgerSpec == LedgerInit /\ [][LedgerNext]_ledgerVars
=============================================================================
