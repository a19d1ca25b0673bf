---------------------------- MODULE MCFindRoute ----------------------------
(* Instances of FindRoute for TLC: four airports on a line, a small plane  *)
(* and a large one.                                                        *)
EXTENDS FindRoute, FiniteSetsExt

SmallAndLarge == {"small", "large"}
Line          == {"a", "b", "c", "d"}
Seats         == [p \in SmallAndLarge |-> IF p = "small" THEN 2 ELSE 4]

Place(x) == CASE x = "a" -> 0 [] x = "b" -> 2 [] x = "c" -> 5 [] x = "d" -> 6
Distance(x, y) == IF Place(x) < Place(y) THEN Place(y) - Place(x) ELSE Place(x) - Place(y)

(* (minFuel + FE_PER_PASSENGER * passengers * lateral) * fuelPrice *)
FuelPrice(p, k, x, y) == Distance(x, y) * ((IF p = "small" THEN 2 ELSE 3) + k)
FlightTime(p, x, y)   == Distance(x, y) * (IF p = "small" THEN 3 ELSE 2)
ExactTable(p, x, y)   == FuelPrice(p, 0, x, y)

ApproxCost(x, y, k) == 2 * Distance(x, y) + k

Req(x, y, k) == [from |-> x, to |-> y, passengers |-> k]

(* Demands in which no two requests have the same ends. *)
Trips   == {Req(x, y, k) : x \in Line, y \in Line, k \in {1, 3}} \ {Req(x, x, k) : x \in Line, k \in {1, 3}}
OfTwo   == {<<s, t>> : s \in {t \in Trips : t.passengers = 3}, t \in {t \in Trips : t.passengers = 1}}
             \ {<<Req(x, y, 3), Req(x, y, 1)>> : x \in Line, y \in Line}
OfThree == { <<Req("c", "a", 1), Req("b", "d", 1), Req("b", "a", 3)>>,
             <<Req("a", "b", 5), Req("b", "c", 2), Req("c", "a", 4)>>,
             <<Req("d", "c", 4), Req("a", "c", 4), Req("b", "c", 1)>> }
Several == {<<>>, <<Req("a", "d", 4), Req("c", "b", 1)>>} \cup {<<t>> : t \in Trips} \cup OfThree
             \cup {<<Req("b", "c", 3), t>> : t \in Trips \ {Req("b", "c", k) : k \in {1, 3}}}

Orders   == {[p \in SmallAndLarge |-> IF p = q THEN 1 ELSE 2] : q \in SmallAndLarge}
Bases    == [SmallAndLarge -> {"a", "d"}]
FullMaps == [p \in SmallAndLarge |-> Line]
AllLinks == [p \in SmallAndLarge |-> Line \X Line]

World(d, h, s, l, o) == [demand |-> d, home |-> h, serves |-> s, links |-> l, rank |-> o]

(* Any demand, any bases, one map of everything. *)
OneMapWorlds ==
  {World(d, h, FullMaps, AllLinks, o) : d \in OfTwo \cup OfThree, h \in Bases, o \in Orders}

(* Runways too short for one of the planes, and maps that fall apart.      *)
ShortMaps == { [FullMaps EXCEPT !["small"] = {"a", "b"}],
               [FullMaps EXCEPT !["large"] = {"a", "c", "d"}],
               [FullMaps EXCEPT !["large"] = {"a", "d"}, !["small"] = {"a", "b", "c"}],
               [FullMaps EXCEPT !["large"] = {"b", "c"}] }
Halves    == {"a", "b"} \X {"a", "b"} \cup {"c", "d"} \X {"c", "d"}
TornLinks == {AllLinks, [AllLinks EXCEPT !["large"] = Halves]}

MixedWorlds ==
  {World(d, h, s, l, o) :
     d \in Several, h \in Bases, o \in Orders, s \in ShortMaps \cup {FullMaps}, l \in TornLinks}

(* For the run that finds something: two requests with the same ends. *)
FirstTie == CHOOSE o \in Orders : o["small"] = 1

TwoOfAKind == {World(<<Req("a", "b", 1), Req("a", "b", 2)>>, h, FullMaps, AllLinks, FirstTie) : h \in Bases}

AllWorlds == OneMapWorlds \cup MixedWorlds
=============================================================================
