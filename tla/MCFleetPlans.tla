---------------------------- MODULE MCFleetPlans ----------------------------
(* An instance of FleetPlans for TLC: one model that needs the long runway. *)
EXTENDS FleetPlans, TLC

CONSTANTS longfield, jet

MCLongEnough == [m \in Models |-> {longfield}]

Symmetry == Permutations(Orgs) \cup Permutations(Requests) \cup Permutations(PlaneIds)
=============================================================================
