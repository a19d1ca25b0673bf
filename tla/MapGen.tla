------------------------------- MODULE MapGen -------------------------------
(***************************************************************************)
(* How mapgen (drivers/mapgen.cpp) draws the map of a plane: mapFlights    *)
(* links the cheapest flights as far as the degree of an airport allows,   *)
(* and recluster links further flights between airports that are not       *)
(* connected, until all are or it gives up.                                *)
(*                                                                         *)
(* Which flights planFlight allows, and the fuel they burn, are part of a  *)
(* world.  The table of floydWarshall (see ShortestPaths) is reduced to    *)
(* the pairs that are not at INFINITY.                                     *)
(*                                                                         *)
(* The names are not those of ShortestPaths: the proofs extend both.       *)
(***************************************************************************)
EXTENDS Naturals, Sequences, FiniteSets, FiniteSetsExt

CONSTANTS Airports,  \* by their place in airports.json
          Worlds

World == [long  : SUBSET Airports,                    \* a runway is long enough
          other : SUBSET Airports,                    \* neither large, medium nor small
          fuel  : [Airports -> Nat \ {0}],            \* price
          burns : [Airports \X Airports -> Nat],      \* minFuel; 0 if it cannot be flown
          lgMaxDegree : Nat, otherMaxDegree : Nat]
PricedAirway == [from : Airports, to : Airports, minFuel : Nat \ {0}, fuelPrice : Nat \ {0}]

ASSUME AirportsAssumption == Airports \subseteq Nat /\ IsFiniteSet(Airports)
(* A flight from an airport to itself leaves planFlight no room to climb.  *)
ASSUME WorldsAssumption ==
  \A w \in Worlds : w \in World /\ \A a \in Airports : w.burns[<<a, a>>] = 0

VARIABLES
  world,
  stage,
  flights,  \* the queue of potential flights, as pairs
  airways,  \* the edges of the graph
  reached,  \* the pairs that have a path in the table
  bad       \* <<from, to>>: what recluster looks at; <<>> when it does not

mapVars == <<world, stage, flights, airways, reached, bad>>

MapTypeOK ==
  /\ world \in World
  /\ stage \in {"link", "repair", "connected", "given_up"}
  /\ flights \in SUBSET (Airports \X Airports)
  /\ airways \in Seq(PricedAirway)
  /\ reached \in SUBSET (Airports \X Airports)
  /\ bad \in (Airports \X Airports) \cup {<<>>}

-----------------------------------------------------------------------------
nodes == world.long
Flies(a, b) == world.burns[<<a, b>>] # 0

MapInit ==
  /\ world \in Worlds
  /\ stage = "link"
  /\ flights = {p \in nodes \X nodes : Flies(p[1], p[2])}
  /\ airways = <<>> /\ reached = {} /\ bad = <<>>

CostApprox(p) == world.burns[p] * world.fuel[p[1]]
MaxDegree(a) == IF a \in world.other THEN world.otherMaxDegree ELSE world.lgMaxDegree
Neighbors(a) == {i \in DOMAIN airways : airways[i].from = a}

NewAirway(a, b, price) ==
  [from |-> a, to |-> b, minFuel |-> world.burns[<<a, b>>], fuelPrice |-> price]

LinkDearest ==
  /\ stage = "link"
  /\ \E p \in flights :
       /\ \A q \in flights : CostApprox(p) >= CostApprox(q)
       /\ flights' = flights \ {p}
       /\ airways' = IF Cardinality(Neighbors(p[1])) < MaxDegree(p[1])
                     THEN Append(airways, NewAirway(p[1], p[2], world.fuel[p[1]])) ELSE airways
  /\ UNCHANGED <<world, stage, reached, bad>>

(* The flight on top of the queue is linked or dropped. *)
LinkNext ==
  /\ stage = "link"
  /\ \E p \in flights :
       /\ \A q \in flights : CostApprox(p) <= CostApprox(q)
       /\ flights' = flights \ {p}
       /\ airways' = IF Cardinality(Neighbors(p[1])) < MaxDegree(p[1])
                     THEN Append(airways, NewAirway(p[1], p[2], world.fuel[p[1]])) ELSE airways
  /\ UNCHANGED <<world, stage, reached, bad>>

-----------------------------------------------------------------------------
Ends(airway) == <<airway.from, airway.to>>

(* floydWarshall: the pairs that are not at INFINITY, by way of one more   *)
(* airport each time.                                                      *)
Through(k, met) ==
  met \cup {p \in nodes \X nodes : <<p[1], k>> \in met /\ <<k, p[2]>> \in met}
Connected(E) ==
  FoldSet(Through, {<<n, n>> : n \in nodes} \cup {Ends(E[i]) : i \in DOMAIN E}, nodes)

Before(p, q) == p[1] < q[1] \/ (p[1] = q[1] /\ p[2] < q[2])
First(S) == CHOOSE p \in S : \A q \in S : q = p \/ Before(p, q)
Unreached(t) == (nodes \X nodes) \ t

(* The table is computed anew, and the scan begins with its first row. *)
Scan(E) ==
  /\ airways' = E
  /\ reached' = Connected(E)
  /\ IF Unreached(reached') = {}
     THEN stage' = "connected" /\ bad' = <<>>
     ELSE stage' = "repair" /\ bad' = First(Unreached(reached'))
  /\ UNCHANGED <<world, flights>>

Recluster == stage = "link" /\ flights = {} /\ Scan(airways)

AnyWithFlight(p) == {i \in nodes \ {p[1], p[2]} : Flies(i, p[2])}
Intermediaries(p) ==
  {i \in nodes \ {p[1], p[2]} : <<p[1], i>> \in reached /\ Flies(i, p[2])}

(* The comparison of two intermediaries multiplies the fuel of one with    *)
(* the other's price; the first of those that none precedes is taken.      *)
Preferred(i, j, to) ==
  world.burns[<<i, to>>] * world.fuel[j] < world.burns[<<j, to>>] * world.fuel[i]
Nearest(p) ==
  CHOOSE i \in Intermediaries(p) : \A j \in Intermediaries(p) \ {i} :
    Preferred(i, j, p[2]) \/ (~ Preferred(j, i, p[2]) /\ i < j)

Repair(via, p) == Scan(Append(airways, NewAirway(via, p[2], world.fuel[p[1]])))

(* The pairs are looked at row by row, until one can be repaired.          *)
RepairVia ==
  /\ stage = "repair" /\ Intermediaries(bad) # {}
  /\ Repair(Nearest(bad), bad)

LaterInRow == {q \in Unreached(reached) : q[1] = bad[1] /\ Before(bad, q)}
Later == {q \in Unreached(reached) : Before(bad, q)}

FirstBadAgain ==
  /\ stage = "repair" /\ Intermediaries(bad) = {}
  /\ Later # {}
  /\ bad' = First(Unreached(reached))
  /\ UNCHANGED <<world, stage, flights, airways, reached>>

NextBad ==
  /\ stage = "repair" /\ Intermediaries(bad) = {}
  /\ Later # {}
  /\ bad' = First(Later)
  /\ UNCHANGED <<world, stage, flights, airways, reached>>

RepairUnchecked ==
  /\ stage = "repair" /\ Intermediaries(bad) = {}
  /\ Later = {}
  /\ Repair(bad[1], bad)

(* For the last pair only, a flight between its own ends is tried.         *)
RepairDirectly ==
  /\ stage = "repair" /\ Intermediaries(bad) = {}
  /\ Later = {}
  /\ Flies(bad[1], bad[2])
  /\ Repair(bad[1], bad)

GiveUp ==
  /\ stage = "repair" /\ Intermediaries(bad) = {}
  /\ Later = {}
  /\ ~ Flies(bad[1], bad[2])
  /\ stage' = "given_up"
  /\ UNCHANGED <<world, flights, airways, reached, bad>>

Finished == stage \in {"connected", "given_up"} /\ UNCHANGED mapVars

Work == LinkNext \/ Recluster \/ RepairVia \/ NextBad \/ RepairDirectly \/ GiveUp
MapNext == Work \/ Finished

MapSpec == MapInit /\ [][MapNext]_mapVars

(* mapgen computes. *)
MapFairSpec == MapSpec /\ WF_mapVars(Work)

-----------------------------------------------------------------------------
(* Properties. *)

(* No two airways have the same ends.  floydWarshall would take the last   *)
(* one's price, the lookup of an edge the first one's, dijkstra the least. *)
AirwaysAreDistinct ==
  \A i, j \in DOMAIN airways : Ends(airways[i]) = Ends(airways[j]) => i = j

(* A flight that was dropped leaves from an airport that has its number of *)
(* airways, none of which is dearer.                                       *)
IsLinked(p) == \E i \in DOMAIN airways : Ends(airways[i]) = p
CheapestAreLinked ==
  stage = "link" =>
    \A p \in nodes \X nodes :
      (Flies(p[1], p[2]) /\ p \notin flights /\ ~ IsLinked(p)) =>
        /\ Cardinality(Neighbors(p[1])) = MaxDegree(p[1])
        /\ \A i \in Neighbors(p[1]) : CostApprox(Ends(airways[i])) <= CostApprox(p)

(* mapgen ends with all airports connected, or gives up only if no third   *)
(* airport that is reached from one end of a pair has a flight to the      *)
(* other, and the last pair has no direct flight either; a direct flight   *)
(* of a pair before the last one is not tried.                             *)
NothingLeftToRepair ==
  stage \in {"connected", "given_up"} =>
    LET met   == Connected(airways)
        apart == (nodes \X nodes) \ met
    IN  /\ stage = "connected" => apart = {}
        /\ \A p \in apart, i \in nodes : <<p[1], i>> \in met /\ i # p[1] => ~ Flies(i, p[2])
        /\ \A p \in apart : Flies(p[1], p[2]) => \E q \in apart : Before(p, q)

(* Every repair helps, so that there is a last one.                        *)
MapIsDrawn == <>(stage \in {"connected", "given_up"})
=============================================================================
