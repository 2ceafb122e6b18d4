--------------------------- MODULE LifecycleStart ---------------------------
(***************************************************************************)
(* What starting the lifecycle of shipments promises, without handoffs,    *)
(* messages or workers: the containers of a shipment change from one       *)
(* relationship version to the next, a container is in one shipment at a   *)
(* time, and a shipment starts at most once, in one step, for all the      *)
(* containers it then has, none of which has ever been started before.     *)
(***************************************************************************)
EXTENDS Naturals

CONSTANTS Shipment, Container

VARIABLES
  version,    \* relationship version; 0: there is no such shipment
  scope,      \* the containers of the shipment
  started     \* the containers its lifecycle was started for

startVars == <<version, scope, started>>

StartInit ==
  /\ version = [s \in Shipment |-> 0]
  /\ scope   = [s \in Shipment |-> {}]
  /\ started = [s \in Shipment |-> {}]

Revise(s, containers) ==
  /\ \A t \in Shipment \ {s} : containers \cap scope[t] = {}
  /\ version' = [version EXCEPT ![s] = @ + 1]
  /\ scope' = [scope EXCEPT ![s] = containers]
  /\ UNCHANGED started

StartWhole(s) ==
  /\ version[s] > 0
  /\ started[s] = {}
  /\ \A t \in Shipment : started[t] \cap scope[s] = {}
  /\ started' = [started EXCEPT ![s] = scope[s]]
  /\ UNCHANGED <<version, scope>>

StartNext ==
  \E s \in Shipment :
    StartWhole(s) \/ \E containers \in SUBSET Container : Revise(s, containers)

StartSpec == StartInit /\ [][StartNext]_startVars
=============================================================================
