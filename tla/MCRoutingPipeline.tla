------------------------- MODULE MCRoutingPipeline -------------------------
(* Instances of RoutingPipeline for TLC. *)
EXTENDS RoutingPipeline, TLC

OpSymmetry == Permutations(Ops)
=============================================================================
