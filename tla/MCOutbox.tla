------------------------------ MODULE MCOutbox ------------------------------
(* Instances of Outbox small enough for TLC. *)
EXTENDS Outbox, TLC

CONSTANTS r1, r2, r3, d1, d2, d3, c1, c2, k1, k2, svc, usr

\* Both drains run for the service identity of the schedule.
SameOperator == [d \in Drain |-> svc]
\* Two drains of the schedule, one of a user.
TwoOperators == [d \in Drain |-> IF d = d3 THEN usr ELSE svc]
\* Rows and replay clients are interchangeable.
RowSymmetry == Permutations(Row) \cup Permutations(Client)
=============================================================================
