---------------------------- MODULE MCSceneGraph ----------------------------
(* An instance of SceneGraph for TLC. *)
EXTENDS SceneGraph

CONSTANTS a, b

(* Two files with nodes of one label in common: opposite edges and one     *)
(* more, and a loop.                                                       *)
MCGraph == [f \in Files |->
  IF f = "there" THEN [nodes |-> <<a, b>>, edges |-> <<<<a, b>>, <<a, b>>, <<b, a>>>>]
                 ELSE [nodes |-> <<b>>, edges |-> <<<<b, b>>, <<b, a>>>>]]

MCSpots == {[nodes |-> {a}, lines |-> {<<a, b>>}, arcs |-> {}],
            [nodes |-> {}, lines |-> {<<b, a>>}, arcs |-> {<<a, b>>, <<b, a>>}]}
=============================================================================
