--------------------------- MODULE MCLifecycleFlow ---------------------------
(* Instances of LifecycleFlow small enough for TLC. *)
EXTENDS LifecycleFlow, TLC

CONSTANTS c1, c2, o1,
          departed, sailing, transit_arrived, transit_departed, arrived

\* Three stages: ocean transit, transshipment, which may be optional, and
\* arrival.  The times of the two middle events are the wrong way round.
AllTargets == departed :> {1} @@ sailing :> {} @@ transit_arrived :> {1}
                @@ transit_departed :> {2} @@ arrived :> {1, 3}
AllRanks   == departed :> 1 @@ sailing :> 2 @@ transit_arrived :> 0
                @@ transit_departed :> 0 @@ arrived :> 3
AllTimes   == departed :> 1 @@ sailing :> 1 @@ transit_arrived :> 2
                @@ transit_departed :> 1 @@ arrived :> 2

TargetsOfEvents == [e \in Event |-> AllTargets[e]]
RankOfEvents    == [e \in Event |-> AllRanks[e]]
TimesOfEvents   == [e \in Event |-> AllTimes[e]]

\* People may declare the middle stage not applicable.
SkipMiddle == {[node |-> 2, applicable |-> FALSE]}
Nobody     == {}

Executions == Permutations(Caller)
=============================================================================
