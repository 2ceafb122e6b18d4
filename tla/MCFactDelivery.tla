--------------------------- MODULE MCFactDelivery ---------------------------
(* Instances of FactDelivery small enough for TLC. *)
EXTENDS FactDelivery, TLC

CONSTANTS n1, u1, w1, w2, a1, k1, f1

\* One person claims and completes.
OneWorker ==
  {[act |-> act, node |-> n1, actor |-> a1, key |-> k1] : act \in {"claim", "complete"}}
=============================================================================
