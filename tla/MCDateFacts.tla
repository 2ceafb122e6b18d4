---------------------------- MODULE MCDateFacts ----------------------------
(***************************************************************************)
(* Instances of DateFacts for TLC.                                         *)
(***************************************************************************)
EXTENDS DateFacts, TLC

CONSTANTS f1, f1x, f2, c1, c2

\* One fact for each of two nodes, and a correction of the first, without
\* which the second fact would be too early.
AllNodeOf == f1 :> 1 @@ f1x :> 1 @@ f2 :> 2
AllAt == f1 :> 3 @@ f1x :> 1 @@ f2 :> 2
AllSupersedes == f1 :> None @@ f1x :> f1 @@ f2 :> None

NodeOfFacts == [f \in Fact |-> AllNodeOf[f]]
PlacesOfFacts == [f \in Fact |-> "any"]
TimesOfFacts == [f \in Fact |-> AllAt[f]]
CorrectedFacts ==
  [f \in Fact |-> IF AllSupersedes[f] \in Fact THEN AllSupersedes[f] ELSE None]

Commands == Permutations(Caller)
=============================================================================
