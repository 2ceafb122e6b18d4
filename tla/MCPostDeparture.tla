-------------------------- MODULE MCPostDeparture --------------------------
(* Instances of PostDeparture small enough for TLC. *)
EXTENDS PostDeparture, TLC

CONSTANTS s1, s2, c1, c2, w1, w2

Interchangeable == Permutations(Container) \cup Permutations(Worker)
                   \cup Permutations(Shipment)
=============================================================================
