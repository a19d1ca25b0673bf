------------------------------ MODULE MCMapGen ------------------------------
(* An instance of MapGen for TLC: four airports, of which one may have too *)
(* short runways and another may be of no known type, and all choices of   *)
(* eight flights between them.                                             *)
EXTENDS MapGen

Fields == 1..4
Pairs  == {<<1, 2>>, <<2, 1>>, <<2, 3>>, <<3, 1>>, <<3, 4>>, <<4, 2>>, <<1, 4>>, <<4, 3>>}
Burn(p) == 1 + ((p[1] * 3 + p[2]) % 4)

MCWorlds ==
  {[long |-> Fields \ short, other |-> other,
    fuel |-> [a \in Fields |-> IF a = 2 THEN 3 ELSE 1 + (a % 2)],
    burns |-> [p \in Fields \X Fields |-> IF p \in F THEN Burn(p) ELSE 0],
    lgMaxDegree |-> large, otherMaxDegree |-> 0] :
     short \in {{}, {4}}, other \in {{}, {3}}, large \in {1, 2}, F \in SUBSET Pairs}
=============================================================================
