-------------------------- MODULE FindRouteProofs --------------------------
(***************************************************************************)
(* Proofs about FindRoute, for every fleet, map, price and demand.         *)
(*                                                                         *)
(* CoreInv (types, the loops' leftovers, the budget) is inductive as it    *)
(* stands; the books, which account for every passenger, need it and that  *)
(* no two requests of the demand have the same ends.  PlannedInv, which    *)
(* keeps a plan in the queue that can be finished, needs both.             *)
(***************************************************************************)
EXTENDS FindRoute, TLAPS, SequenceTheorems

-----------------------------------------------------------------------------
(* The helpers. *)

LEMMA TakenTyped ==
  ASSUME NEW p \in Planes, NEW r \in Request
  PROVE  /\ Taken(p, r) \in Nat
         /\ Taken(p, r) \in 0..Capacity[p]
         /\ Leftover(p, r) \subseteq Request
         /\ \A s \in Leftover(p, r) : s.id = r.id /\ s.from = r.from /\ s.to = r.to
                                      /\ Taken(p, r) + s.passengers = r.passengers
         /\ Leftover(p, r) = {} => Taken(p, r) = r.passengers
  <1>1. r.passengers \in Groups /\ r.passengers \in Nat /\ r.passengers > 0
    BY MaxPassengersIsNat DEF Request, Groups
  <1>2. Capacity[p] \in Nat /\ Capacity[p] > 0
    BY CapacityIsNat
  <1>3. CASE r.passengers <= Capacity[p]
    BY <1>1, <1>2, <1>3 DEF Taken, Leftover
  <1>4. CASE ~ r.passengers <= Capacity[p]
    <2> DEFINE s == [r EXCEPT !.passengers = r.passengers - Capacity[p]]
    <2>1. Taken(p, r) = Capacity[p] /\ Leftover(p, r) = {s}
      BY <1>4 DEF Taken, Leftover
    <2>2. r.passengers - Capacity[p] \in Groups /\ Capacity[p] + (r.passengers - Capacity[p]) = r.passengers
      BY <1>1, <1>2, <1>4, MaxPassengersIsNat DEF Groups
    <2>3. s \in Request /\ s.id = r.id /\ s.from = r.from /\ s.to = r.to
          /\ s.passengers = r.passengers - Capacity[p]
      BY <2>2 DEF Request
    <2> HIDE DEF s
    <2> QED
      BY <1>2, <2>1, <2>2, <2>3
  <1> QED
    BY <1>3, <1>4

LEMMA PricesTyped ==
  ASSUME NEW p \in Planes, NEW r \in Request, NEW a \in Airports, NEW b \in Airports
  PROVE  /\ FlightCost(p, r) \in Nat
         /\ FerryCost(p, a, b) \in Nat
         /\ FerryTime(p, a, b) \in Nat
         /\ Toll(p, a, b) \in Nat
         /\ Time(p, a, b) \in Nat
  <1>1. r.from \in Airports /\ r.to \in Airports
    BY DEF Request
  <1>2. 0 \in 0..Capacity[p]
    BY CapacityIsNat
  <1>3. FlightCost(p, r) \in Nat
    BY <1>1, TakenTyped, PricesAreNat DEF FlightCost
  <1>4. Cost(p, 0, a, b) \in Nat
    BY <1>2, PricesAreNat
  <1> QED
    BY <1>3, <1>4, PricesAreNat DEF FerryCost, FerryTime, Toll

LEMMA ArrivalTyped ==
  ASSUME NEW D, NEW p \in Planes, NEW r \in Request, NEW f,
         f.at \in [Planes -> Airports], f.time \in [Planes -> Nat], f.carried \in [D -> Nat]
  PROVE  /\ ArriveAt(f, p, r) \in [Planes -> Airports]
         /\ ArriveWhen(f, p, r) \in [Planes -> Nat]
         /\ CarriedBy(f, p, r) \in [D -> Nat]
  <1>1. r.from \in Airports /\ r.to \in Airports /\ f.at[p] \in Airports
    BY DEF Request
  <1>2. ArriveAt(f, p, r) \in [Planes -> Airports]
    BY <1>1 DEF ArriveAt
  <1>3. ArriveWhen(f, p, r) \in [Planes -> Nat]
    <2>1. f.time[p] \in Nat
      OBVIOUS
    <2>2. FerryTime(p, f.at[p], r.from) \in Nat /\ Time(p, r.from, r.to) \in Nat
      BY <1>1, PricesTyped
    <2>3. f.time[p] + FerryTime(p, f.at[p], r.from) + Time(p, r.from, r.to) \in Nat
      BY <2>1, <2>2
    <2> QED
      BY <2>3 DEF ArriveWhen
  <1>4. CarriedBy(f, p, r) \in [D -> Nat]
    <2>1. CASE r.id \in D
      <3>1. f.carried[r.id] + Taken(p, r) \in Nat
        BY <2>1, TakenTyped
      <3> QED
        BY <3>1 DEF CarriedBy
    <2>2. CASE r.id \notin D
      BY <2>2 DEF CarriedBy
    <2> QED
      BY <2>1, <2>2
  <1> QED
    BY <1>2, <1>3, <1>4

(* The baseline stays an itinerary, ... *)
LEMMA FlyTyped ==
  ASSUME baseline \in Itinerary, NEW p \in Planes, NEW r \in Request, NEW n \in Nat
  PROVE  Fly(baseline, p, r, n) \in Itinerary
  <1>1. /\ ArriveAt(baseline, p, r) \in [Planes -> Airports]
        /\ ArriveWhen(baseline, p, r) \in [Planes -> Nat]
        /\ CarriedBy(baseline, p, r) \in [DOMAIN world.demand -> Nat]
    BY ArrivalTyped DEF Itinerary
  <1>2. baseline.cost + n + FlightCost(p, r) \in Nat
    BY PricesTyped DEF Itinerary, Request
  <1> QED
    BY <1>1, <1>2 DEF Fly, Itinerary

(* ... and what the search makes of a plan is a plan: the fields one by    *)
(* one.                                                                    *)
LEMMA ExtendFields ==
  ASSUME NEW e \in RoutePlan, NEW p \in Planes, NEW r \in e.remaining
  PROVE  /\ Extend(e, p, r) \in RoutePlan
         /\ Extend(e, p, r).order = e.order
         /\ Extend(e, p, r).at = ArriveAt(e, p, r)
         /\ Extend(e, p, r).time = ArriveWhen(e, p, r)
         /\ Extend(e, p, r).cost = e.cost + Toll(p, e.at[p], r.from) + FlightCost(p, r)
         /\ Extend(e, p, r).carried = CarriedBy(e, p, r)
         /\ Extend(e, p, r).remaining = NextRemaining(e, p, r)
  <1>0. r \in Request /\ e.remaining \subseteq Request
    BY DEF RoutePlan
  <1>1. /\ ArriveAt(e, p, r) \in [Planes -> Airports]
        /\ ArriveWhen(e, p, r) \in [Planes -> Nat]
        /\ CarriedBy(e, p, r) \in [DOMAIN world.demand -> Nat]
    BY <1>0, ArrivalTyped DEF RoutePlan
  <1>2. r.from \in Airports /\ r.to \in Airports /\ r.passengers \in Groups
    BY <1>0 DEF Request
  <1>3. e.cost + Toll(p, e.at[p], r.from) + FlightCost(p, r) \in Nat
    <2>1. e.at[p] \in Airports /\ e.cost \in Nat
      BY DEF RoutePlan
    <2> QED
      BY <1>0, <1>2, <2>1, PricesTyped
  <1>4. e.reqCost - Estimate(r.from, r.to, r.passengers) \in Int
    BY <1>2, EstimatesAreInt DEF RoutePlan
  <1>5. NextRemaining(e, p, r) \subseteq Request
    BY <1>0, TakenTyped DEF NextRemaining
  <1> QED
    BY <1>1, <1>3, <1>4, <1>5 DEF Extend, Fly, RoutePlan

LEMMA RemoveTyped ==
  ASSUME NEW S, NEW s \in Seq(S), NEW i \in DOMAIN s
  PROVE  /\ RemoveIndex(s, i) \in Seq(S)
         /\ DOMAIN RemoveIndex(s, i) = 1..(Len(s) - 1)
         /\ Len(s) - 1 \in Nat
  <1>1. Len(s) \in Nat /\ Len(s) - 1 \in Nat /\ i \in 1..Len(s)
    OBVIOUS
  <1>2. RemoveIndex(s, i) \in [1..(Len(s) - 1) -> S]
    BY <1>1 DEF RemoveIndex
  <1> QED
    BY <1>1, <1>2

-----------------------------------------------------------------------------
(* CoreInv. *)

LEMMA RequestsTyped ==
  ASSUME world \in Worlds
  PROVE  /\ Requests \in Seq(Request)
         /\ DOMAIN Requests = DOMAIN world.demand
         /\ world.demand = <<>> <=> Requests = <<>>
  <1>1. world.demand \in Seq(Trip)
    BY WorldsTyped
  <1>2. \A i \in DOMAIN world.demand : world.demand[i] \in Trip /\ i \in Nat
    BY <1>1
  <1>3. DOMAIN world.demand = 1..Len(world.demand) /\ Len(world.demand) \in Nat
    BY <1>1
  <1>4. Requests \in [1..Len(world.demand) -> Request]
    BY <1>2, <1>3 DEF Requests, Trip, Request
  <1>5. Requests \in Seq(Request) /\ Len(Requests) = Len(world.demand)
    BY <1>3, <1>4
  <1> QED
    BY <1>1, <1>3, <1>5 DEF Requests

LEMMA InitCore == Init => CoreInv
  <1> SUFFICES ASSUME Init PROVE CoreInv
    OBVIOUS
  <1>1. baseline \in Itinerary
    BY WorldsTyped DEF Init, AtHome, Itinerary
  <1>2. TypeOK
    BY <1>1, RequestsTyped DEF Init, TypeOK, Ended
  <1> QED
    BY <1>2 DEF Init, CoreInv, PhaseInv, BudgetInv, PlaneToAsk, PlanInv

LEMMA RootTyped ==
  ASSUME world \in Worlds
  PROVE  Root \in RoutePlan
  BY RequestsTyped, WorldsTyped DEF Root, RoutePlan

LEMMA CheckCore == CoreInv /\ CheckRequests => CoreInv'
  <1> SUFFICES ASSUME CoreInv, CheckRequests PROVE CoreInv'
    OBVIOUS
  <1>1. phase' \in {"unroutable", "abort", "baseline"} /\ phase = "check"
    BY DEF CheckRequests
  <1>2. TypeOK'
    BY <1>1 DEF CoreInv, TypeOK, CheckRequests, Ended, Itinerary, RoutePlan
  <1>3. phase' = "baseline" => world.demand = <<>> \/ Planes # {}
    <2> SUFFICES ASSUME phase' = "baseline", world.demand # <<>> PROVE Planes # {}
      OBVIOUS
    <2>1. todo = Requests /\ todo \in Seq(Request) /\ todo # <<>>
      BY <1>1, RequestsTyped DEF CoreInv, PhaseInv, TypeOK
    <2>2. 1 \in DOMAIN todo
      BY <2>1
    <2> QED
      BY <2>2 DEF CheckRequests, Routable
  <1>4. PhaseInv'
    BY <1>1, <1>3 DEF CoreInv, PhaseInv, CheckRequests
  <1> QED
    BY <1>2, <1>4 DEF CoreInv, CheckRequests, BudgetInv, PlaneToAsk, PlanInv

LEMMA BaselineCore ==
  ASSUME CoreInv, NEW p \in Planes, NEW i \in DOMAIN todo,
         BaselineRetire(p, i) \/ BaselineFly(p, i) \/ BaselineAbort(p, i)
  PROVE  CoreInv'
  <1>1. phase = "baseline" /\ queue = {} /\ queue' = {} /\ plan = {} /\ plan' = {}
        /\ world' = world /\ phase' \in {"baseline", "abort"}
    BY DEF Turn, BaselineRetire, BaselineFly, BaselineAbort, CoreInv, PhaseInv, TypeOK
  <1>2. baseline' \in Itinerary /\ todo' \in Seq(Request)
    <2>1. CASE BaselineRetire(p, i)
      BY <2>1 DEF BaselineRetire, CoreInv, TypeOK, Itinerary
    <2>2. CASE BaselineFly(p, i)
      <3> DEFINE r == todo[i]
      <3>0. todo \in Seq(Request) /\ r \in Request
        BY DEF CoreInv, TypeOK
      <3>1. r \in Request /\ r.from \in Airports /\ baseline.at[p] \in Airports
        BY <3>0 DEF CoreInv, TypeOK, Request, Itinerary
      <3>2. FerryCost(p, baseline.at[p], r.from) \in Nat
        BY <3>1, PricesTyped
      <3>3. baseline' \in Itinerary
        BY <2>2, <3>1, <3>2, FlyTyped DEF BaselineFly, CoreInv, TypeOK
      <3>4. CASE Leftover(p, r) = {}
        <4>1. todo' = RemoveIndex(todo, i)
          BY <2>2, <3>4 DEF BaselineFly
        <4>2. RemoveIndex(todo, i) \in Seq(Request)
          BY <3>0, RemoveTyped
        <4> QED
          BY <3>3, <4>1, <4>2
      <3>5. CASE Leftover(p, r) # {}
        <4>1. r.passengers > Capacity[p] /\ r.passengers - Capacity[p] \in Groups
          BY <3>1, <3>5, CapacityIsNat, MaxPassengersIsNat DEF Leftover, Request, Groups
        <4>2. [r EXCEPT !.passengers = r.passengers - Capacity[p]] \in Request
          BY <3>1, <4>1 DEF Request
        <4>3. todo' = [todo EXCEPT ![i] = [r EXCEPT !.passengers = r.passengers - Capacity[p]]]
          BY <2>2, <3>5 DEF BaselineFly
        <4> QED
          BY <3>3, <4>2, <4>3 DEF CoreInv, TypeOK
      <3> QED
        BY <3>3, <3>4, <3>5
    <2>3. CASE BaselineAbort(p, i)
      BY <2>3 DEF BaselineAbort, CoreInv, TypeOK
    <2> QED
      BY <2>1, <2>2, <2>3
  <1>3. TypeOK'
    BY <1>1, <1>2 DEF CoreInv, TypeOK, Itinerary, RoutePlan, Ended
  <1> QED
    BY <1>1, <1>3 DEF CoreInv, PhaseInv, BudgetInv, PlaneToAsk, PlanInv

LEMMA BaselineFailsCore == CoreInv /\ BaselineFails => CoreInv'
  BY DEF CoreInv, TypeOK, PhaseInv, BudgetInv, PlaneToAsk, PlanInv, BaselineFails, Ended,
         Itinerary, RoutePlan

LEMMA BaselineDoneCore == CoreInv /\ BaselineDone => CoreInv'
  <1> SUFFICES ASSUME CoreInv, BaselineDone PROVE CoreInv'
    OBVIOUS
  <1>1. Root \in RoutePlan /\ world \in Worlds
    BY RootTyped DEF CoreInv, TypeOK
  <1>2. TypeOK'
    BY <1>1 DEF CoreInv, TypeOK, BaselineDone, Itinerary, RoutePlan, Ended
  <1>3. Root.cost <= baseline.cost
    BY DEF Root, CoreInv, TypeOK, Itinerary
  <1>4. Root.remaining = {} \/ Root.order # {}
    <2>1. CASE Planes # {}
      BY <2>1 DEF Root
    <2>2. CASE Planes = {}
      <3>1. Requests = <<>>
        BY <1>1, <2>2, RequestsTyped DEF CoreInv, PhaseInv, BaselineDone
      <3> QED
        BY <3>1 DEF Root
    <2> QED
      BY <2>1, <2>2
  <1> QED
    BY <1>2, <1>3, <1>4 DEF CoreInv, PhaseInv, BudgetInv, PlaneToAsk, PlanInv, BaselineDone,
                            TypeOK

(* What the search puts into its queue: successors within the budget, and  *)
(* plans without a plane that was not their last.                          *)
LEMMA SuccessorTyped ==
  ASSUME NEW e \in RoutePlan, NEW p \in e.order, NEW s \in Successors(e, p)
  PROVE  s \in RoutePlan /\ s.cost <= baseline.cost /\ s.order # {}
  <1>1. p \in Planes
    BY DEF RoutePlan
  <1>2. PICK r \in e.remaining : s = Extend(e, p, r)
    BY DEF Successors, Tried
  <1> QED
    BY <1>1, <1>2, ExtendFields DEF Successors

LEMMA SearchCore ==
  ASSUME CoreInv, NEW e \in queue, NEW p \in Planes,
         SearchExpand(e, p) \/ SearchRetire(e, p) \/ SearchDiscard(e, p) \/ SearchAbort(e, p)
  PROVE  CoreInv'
  <1>1. phase = "search" /\ e \in RoutePlan /\ p \in e.order /\ world' = world
        /\ baseline' = baseline /\ todo' = todo /\ plan' = plan /\ plan = {}
        /\ phase' \in {"search", "runtime", "abort"}
    BY DEF SearchExpand, SearchRetire, SearchDiscard, SearchAbort, Popped, First, CoreInv, TypeOK
  <1>2. \A s \in queue' : s \in RoutePlan /\ s.cost <= baseline.cost
                           /\ (s.remaining = {} \/ s.order # {})
    <2>0. \A s \in queue : s \in RoutePlan /\ s.cost <= baseline.cost
                            /\ (s.remaining = {} \/ s.order # {})
      BY DEF CoreInv, TypeOK, BudgetInv, PlaneToAsk
    <2>1. CASE SearchExpand(e, p)
      BY <1>1, <2>0, <2>1, SuccessorTyped DEF SearchExpand
    <2>2. CASE SearchRetire(e, p)
      <3> DEFINE s == [e EXCEPT !.order = e.order \ {p}]
      <3>1. s \in RoutePlan /\ s.cost = e.cost /\ s.order = e.order \ {p}
        BY <1>1 DEF RoutePlan
      <3>2. s.order # {}
        BY <1>1, <2>2, <3>1 DEF SearchRetire
      <3>3. queue' = (queue \ {e}) \cup {s}
        BY <2>2 DEF SearchRetire
      <3> HIDE DEF s
      <3> QED
        BY <2>0, <3>1, <3>2, <3>3
    <2>3. CASE SearchDiscard(e, p) \/ SearchAbort(e, p)
      BY <2>0, <2>3 DEF SearchDiscard, SearchAbort
    <2> QED
      BY <2>1, <2>2, <2>3
  <1>3. TypeOK'
    <2>1. Itinerary' = Itinerary /\ RoutePlan' = RoutePlan
      BY <1>1 DEF Itinerary, RoutePlan
    <2> QED
      BY <1>1, <1>2, <2>1 DEF CoreInv, TypeOK, Ended
  <1>4. PhaseInv'
    BY <1>1 DEF CoreInv, PhaseInv
  <1> QED
    BY <1>1, <1>2, <1>3, <1>4 DEF CoreInv, BudgetInv, PlaneToAsk, PlanInv

LEMMA SearchDoneCore ==
  ASSUME CoreInv, NEW e \in queue, SearchDone(e)
  PROVE  CoreInv'
  <1>1. e \in RoutePlan /\ phase = "search" /\ todo = <<>>
    BY DEF CoreInv, TypeOK, PhaseInv, SearchDone
  <1>2. TypeOK'
    BY <1>1 DEF CoreInv, TypeOK, SearchDone, Itinerary, RoutePlan, Ended
  <1> QED
    BY <1>1, <1>2 DEF CoreInv, PhaseInv, BudgetInv, PlaneToAsk, PlanInv, SearchDone

LEMMA StutterCore == CoreInv /\ UNCHANGED vars => CoreInv'
  BY DEF vars, CoreInv, TypeOK, PhaseInv, BudgetInv, PlaneToAsk, PlanInv, Itinerary, RoutePlan,
         Requests, AtHome

LEMMA NextCore == CoreInv /\ [Next]_vars => CoreInv'
  BY CheckCore, BaselineCore, BaselineFailsCore, BaselineDoneCore, SearchCore, SearchDoneCore,
     StutterCore DEF Next, Step, Stop

THEOREM Invariance == Spec => []CoreInv
  BY InitCore, NextCore, PTL DEF Spec

(* Every variable keeps its type, whatever the worlds. *)
THEOREM TypeCorrect == Spec => []TypeOK
  <1>1. CoreInv => TypeOK
    BY DEF CoreInv
  <1> QED
    BY <1>1, Invariance, PTL

(* The budget: pruning by the baseline's cost is enough for the plan that  *)
(* comes out at the end.                                                   *)
THEOREM NeverDearer == Spec => []NoDearerThanBaseline
  <1>1. CoreInv => NoDearerThanBaseline
    BY DEF CoreInv, BudgetInv, NoDearerThanBaseline
  <1> QED
    BY <1>1, Invariance, PTL

(* planeOrder.top() is always defined in the search.                       *)
THEOREM AlwaysAPlaneToAsk == Spec => []PlaneToAsk
  <1>1. CoreInv => PlaneToAsk
    BY DEF CoreInv
  <1> QED
    BY <1>1, Invariance, PTL

-----------------------------------------------------------------------------
(* The books. *)

Squared(f, left) ==
  /\ \A s \in left : PartOf(s)
  /\ \A s, t \in left : s.id = t.id => s = t
  /\ \A i \in DOMAIN world.demand : Balanced(f, i, left)

(* One flight: r leaves what is left to do, what p could not take of it    *)
(* comes back, and the rest is on board.                                   *)
LEMMA FlightBalances ==
  ASSUME CoreInv,
         NEW f, f.carried \in [DOMAIN world.demand -> Nat],
         NEW g, NEW p \in Planes, NEW left \in SUBSET Request, NEW r \in left,
         Squared(f, left),
         g.carried = CarriedBy(f, p, r)
  PROVE  Squared(g, (left \ {r}) \cup Leftover(p, r))
  <1> DEFINE rest == (left \ {r}) \cup Leftover(p, r)
  <1>0. Squared(f, left) => /\ \A s \in left : PartOf(s)
                           /\ \A s, t \in left : s.id = t.id => s = t
                           /\ \A i \in DOMAIN world.demand : Balanced(f, i, left)
    BY DEF Squared
  <1>1. /\ Taken(p, r) \in Nat
        /\ \A s \in Leftover(p, r) : s.id = r.id /\ s.from = r.from /\ s.to = r.to
                                     /\ Taken(p, r) + s.passengers = r.passengers
        /\ Leftover(p, r) = {} => Taken(p, r) = r.passengers
        /\ Leftover(p, r) \subseteq Request
    BY TakenTyped
  <1>2. \A s, t \in Leftover(p, r) : s = t
    BY DEF Leftover
  <1>3. \A s \in rest : PartOf(s)
    BY <1>0, <1>1 DEF PartOf
  <1>4. \A s, t \in rest : s.id = t.id => s = t
    BY <1>0, <1>1, <1>2
  <1>5. ASSUME NEW i \in DOMAIN world.demand
        PROVE  Balanced(g, i, rest)
    <2>0. f.carried[i] \in Nat /\ r.passengers \in Nat
      BY MaxPassengersIsNat DEF Request, Groups
    <2>1. CASE i = r.id
      <3>1. f.carried[i] + r.passengers = world.demand[i].passengers
        BY <1>0, <2>1 DEF Balanced
      <3>2. g.carried[i] = f.carried[i] + Taken(p, r)
        BY <2>1 DEF CarriedBy
      <3>3. \A s \in rest : s.id = i => s \in Leftover(p, r)
        BY <1>0, <2>1
      <3>4. CASE Leftover(p, r) = {}
        BY <1>1, <3>1, <3>2, <3>3, <3>4 DEF Balanced
      <3>5. CASE Leftover(p, r) # {}
        <4>1. PICK s \in Leftover(p, r) : TRUE
          BY <3>5
        <4>2. s \in rest /\ s.id = i /\ s.passengers \in Nat
          BY <1>1, <2>1, <4>1, MaxPassengersIsNat DEF Request, Groups
        <4>3. g.carried[i] + s.passengers = world.demand[i].passengers
          BY <1>1, <2>0, <3>1, <3>2, <4>1, <4>2
        <4> QED
          BY <1>2, <3>3, <4>1, <4>2, <4>3 DEF Balanced
      <3> QED
        BY <3>4, <3>5
    <2>2. CASE i # r.id
      <3>1. g.carried[i] = f.carried[i]
        BY <2>2 DEF CarriedBy
      <3>2. \A s : s.id = i => (s \in rest <=> s \in left)
        BY <1>1, <2>2
      <3> QED
        BY <1>0, <3>1, <3>2 DEF Balanced
    <2> QED
      BY <2>1, <2>2
  <1> QED
    BY <1>3, <1>4, <1>5 DEF Squared

(* At home, with the whole demand to do. *)
LEMMA StartBalances ==
  ASSUME world \in Worlds, NEW f, f.carried = [i \in DOMAIN world.demand |-> 0]
  PROVE  /\ \A j \in DOMAIN Requests : PartOf(Requests[j])
         /\ \A j, k \in DOMAIN Requests : Requests[j].id = Requests[k].id => j = k
         /\ \A i \in DOMAIN world.demand : Balanced(f, i, Elements(Requests))
  <1>1. DOMAIN Requests = DOMAIN world.demand
    BY DEF Requests
  <1>2. \A j \in DOMAIN world.demand :
          /\ Requests[j].id = j
          /\ Requests[j].from = world.demand[j].from
          /\ Requests[j].to = world.demand[j].to
          /\ Requests[j].passengers = world.demand[j].passengers
    BY DEF Requests
  <1>3. ASSUME NEW i \in DOMAIN world.demand
        PROVE  Balanced(f, i, Elements(Requests))
    <2>1. \A r \in Elements(Requests) : r.id = i => r = Requests[i]
      BY <1>1, <1>2 DEF Elements
    <2>2. Requests[i] \in Elements(Requests) /\ f.carried[i] = 0
      BY <1>1 DEF Elements
    <2>3. world.demand[i].passengers \in Nat
      <3>1. world.demand[i] \in Trip
        BY WorldsTyped
      <3> QED
        BY <3>1, MaxPassengersIsNat DEF Trip, Groups
    <2> QED
      BY <1>2, <2>1, <2>2, <2>3 DEF Balanced
  <1> QED
    BY <1>1, <1>2, <1>3 DEF PartOf

LEMMA InitBooks == Init => BaselineBooks /\ SearchBooks
  <1> SUFFICES ASSUME Init PROVE BaselineBooks /\ SearchBooks
    OBVIOUS
  <1>1. baseline.carried = [i \in DOMAIN world.demand |-> 0] /\ todo = Requests
    BY DEF Init, AtHome
  <1> QED
    BY <1>1, StartBalances DEF Init, BaselineBooks, SearchBooks

LEMMA RetireBooks ==
  ASSUME CoreInv, BaselineBooks, NEW p \in Planes, NEW i \in DOMAIN todo, BaselineRetire(p, i)
  PROVE  BaselineBooks'
  <1>1. baseline'.carried = baseline.carried
    BY DEF BaselineRetire, CoreInv, TypeOK, Itinerary
  <1> QED
    BY <1>1 DEF BaselineRetire, BaselineBooks, Balanced, PartOf, Elements

(* What is left to do after a flight of the baseline. *)
LEMMA FlyLeaves ==
  ASSUME CoreInv, BaselineBooks, NEW p \in Planes, NEW i \in DOMAIN todo, BaselineFly(p, i)
  PROVE  /\ Elements(todo') = (Elements(todo) \ {todo[i]}) \cup Leftover(p, todo[i])
         /\ \A j, k \in DOMAIN todo' : todo'[j].id = todo'[k].id => j = k
  <1> DEFINE r == todo[i]
             rest == (Elements(todo) \ {r}) \cup Leftover(p, r)
  <1>1. todo \in Seq(Request) /\ baseline \in Itinerary /\ r \in Request
    BY DEF CoreInv, TypeOK
  <1>7. Elements(todo') = rest /\ \A j, k \in DOMAIN todo' : todo'[j].id = todo'[k].id => j = k
    <2>0. \A j, k \in DOMAIN todo : todo[j].id = todo[k].id => j = k
      BY DEF BaselineBooks
    <2>1. CASE Leftover(p, r) = {}
      <3>1. todo' = RemoveIndex(todo, i) /\ DOMAIN todo' = 1..(Len(todo) - 1)
        BY <1>1, <2>1, RemoveTyped DEF BaselineFly
      <3>2. Len(todo) \in Nat /\ DOMAIN todo = 1..Len(todo)
        BY <1>1
      <3>3. \A j \in 1..(Len(todo) - 1) : todo'[j] = IF j < i THEN todo[j] ELSE todo[j + 1]
        BY <3>1 DEF RemoveIndex
      <3>4. \A j \in 1..(Len(todo) - 1) : j + 1 \in DOMAIN todo /\ j \in DOMAIN todo
        BY <3>2
      <3>5. \A j, k \in DOMAIN todo' : todo'[j].id = todo'[k].id => j = k
        <4> SUFFICES ASSUME NEW j \in 1..(Len(todo) - 1), NEW k \in 1..(Len(todo) - 1),
                            todo'[j].id = todo'[k].id
                     PROVE  j = k
          BY <3>1
        <4>1. j \in Int /\ k \in Int /\ i \in Int
          BY <3>2
        <4>2. CASE j < i /\ k < i
          BY <2>0, <3>3, <3>4, <4>2
        <4>3. CASE j < i /\ ~ k < i
          <5>1. j = k + 1
            BY <2>0, <3>3, <3>4, <4>3
          <5> QED
            BY <4>1, <4>3, <5>1
        <4>4. CASE ~ j < i /\ k < i
          <5>1. j + 1 = k
            BY <2>0, <3>3, <3>4, <4>4
          <5> QED
            BY <4>1, <4>4, <5>1
        <4>5. CASE ~ j < i /\ ~ k < i
          <5>1. j + 1 = k + 1
            BY <2>0, <3>3, <3>4, <4>5
          <5> QED
            BY <4>1, <5>1
        <4> QED
          BY <4>2, <4>3, <4>4, <4>5
      <3>6. \A s \in Elements(todo') : s \in rest
        BY <2>0, <2>1, <3>1, <3>2, <3>3, <3>4 DEF Elements
      <3>7. ASSUME NEW s \in rest PROVE s \in Elements(todo')
        <4>1. PICK k \in DOMAIN todo : s = todo[k] /\ k # i
          BY <2>1 DEF Elements
        <4>2. CASE k < i
          <5>1. k \in DOMAIN todo' /\ todo'[k] = s
            BY <3>1, <3>2, <3>3, <4>1, <4>2
          <5> QED
            BY <5>1 DEF Elements
        <4>3. CASE k > i
          <5>1. k - 1 \in DOMAIN todo' /\ ~ (k - 1 < i) /\ (k - 1) + 1 = k
            BY <3>1, <3>2, <4>1, <4>3
          <5>2. todo'[k - 1] = s
            BY <3>1, <3>3, <4>1, <5>1
          <5> QED
            BY <5>1, <5>2 DEF Elements
        <4> QED
          BY <3>2, <4>1, <4>2, <4>3
      <3> HIDE DEF rest
      <3> QED
        BY <3>5, <3>6, <3>7
    <2>2. CASE Leftover(p, r) # {}
      <3> DEFINE x == [r EXCEPT !.passengers = r.passengers - Capacity[p]]
      <3>1. todo' = [todo EXCEPT ![i] = x] /\ Leftover(p, r) = {x} /\ x.id = r.id
        BY <1>1, <2>2 DEF BaselineFly, Leftover, Request
      <3> HIDE DEF x
      <3>2. DOMAIN todo' = DOMAIN todo /\ \A j \in DOMAIN todo : todo'[j] = IF j = i THEN x ELSE todo[j]
        BY <3>1
      <3>3. \A j \in DOMAIN todo : todo'[j].id = todo[j].id
        BY <3>1, <3>2
      <3> QED
        BY <2>0, <3>1, <3>2, <3>3 DEF Elements
    <2> QED
      BY <2>1, <2>2
  <1> QED
    BY <1>7

LEMMA FlyBooks ==
  ASSUME CoreInv, BaselineBooks, NEW p \in Planes, NEW i \in DOMAIN todo, BaselineFly(p, i)
  PROVE  BaselineBooks'
  <1> DEFINE r == todo[i]
             rest == (Elements(todo) \ {r}) \cup Leftover(p, r)
  <1>1. todo \in Seq(Request) /\ baseline \in Itinerary /\ r \in Request
    BY DEF CoreInv, TypeOK
  <1>2. Elements(todo) \in SUBSET Request /\ r \in Elements(todo)
    BY <1>1 DEF Elements
  <1>3. baseline'.carried = CarriedBy(baseline, p, r) /\ world' = world
    BY <1>1 DEF BaselineFly, Fly, Itinerary
  <1>4. \A s \in Elements(todo) : PartOf(s)
    BY DEF BaselineBooks, Elements
  <1>5. \A s, t \in Elements(todo) : s.id = t.id => s = t
    BY DEF BaselineBooks, Elements
  <1>6. /\ \A s \in rest : PartOf(s)
        /\ \A s, t \in rest : s.id = t.id => s = t
        /\ \A k \in DOMAIN world.demand : Balanced(baseline', k, rest)
    <2>1. baseline.carried \in [DOMAIN world.demand -> Nat]
      BY <1>1 DEF Itinerary
    <2>2. Squared(baseline, Elements(todo))
      BY <1>4, <1>5 DEF BaselineBooks, Squared
    <2> HIDE DEF r
    <2>3. Squared(baseline', rest)
      BY <1>2, <1>3, <2>1, <2>2, FlightBalances
    <2> QED
      BY <2>3 DEF Squared
  <1>7. Elements(todo') = rest /\ \A j, k \in DOMAIN todo' : todo'[j].id = todo'[k].id => j = k
    BY FlyLeaves
  <1> HIDE DEF rest
  <1>8. \A j \in DOMAIN todo' : todo'[j] \in rest
    BY <1>7 DEF Elements
  <1> QED
    BY <1>3, <1>6, <1>7, <1>8 DEF BaselineBooks, PartOf, Balanced, Elements

LEMMA ExpandBooks ==
  ASSUME CoreInv, SearchBooks, DistinctEnds(world), NEW e \in queue, NEW p \in Planes,
         SearchExpand(e, p), NEW s \in Successors(e, p)
  PROVE  Squared(s, s.remaining)
  <1>1. e \in RoutePlan /\ e.carried \in [DOMAIN world.demand -> Nat]
        /\ e.remaining \in SUBSET Request
    BY DEF CoreInv, TypeOK, RoutePlan
  <1>2. PICK r \in e.remaining : s = Extend(e, p, r)
    BY DEF Successors, Tried
  <1>3. s.carried = CarriedBy(e, p, r) /\ s.remaining = NextRemaining(e, p, r)
    BY <1>1, <1>2, ExtendFields
  <1>4. /\ \A t \in e.remaining : PartOf(t)
        /\ \A t, u \in e.remaining : t.id = u.id => t = u
        /\ Squared(e, e.remaining)
    BY DEF SearchBooks, Squared
  <1>5. \A t \in e.remaining : t.from = r.from /\ t.to = r.to => t = r
    BY <1>4 DEF PartOf, DistinctEnds
  <1>6. s.remaining = (e.remaining \ {r}) \cup Leftover(p, r)
    BY <1>3, <1>5 DEF NextRemaining
  <1> QED
    BY <1>1, <1>3, <1>4, <1>6, FlightBalances

LEMMA SearchKeepsBooks ==
  ASSUME CoreInv, SearchBooks, DistinctEnds(world), NEW e \in queue, NEW p \in Planes,
         SearchExpand(e, p) \/ SearchRetire(e, p) \/ SearchDiscard(e, p) \/ SearchAbort(e, p)
  PROVE  SearchBooks'
  <1>0. world' = world /\ plan' = plan
    BY DEF SearchExpand, SearchRetire, SearchDiscard, SearchAbort
  <1>1. SUFFICES ASSUME NEW s \in queue' \cup plan'
                 PROVE  /\ \A r \in s.remaining : PartOf(r)
                        /\ \A r, t \in s.remaining : r.id = t.id => r = t
                        /\ \A i \in DOMAIN world.demand : Balanced(s, i, s.remaining)
    BY <1>0 DEF SearchBooks, PartOf, Balanced
  <1>2. CASE s \in queue \cup plan
    BY <1>2 DEF SearchBooks
  <1>3. CASE SearchExpand(e, p) /\ s \in Successors(e, p)
    BY <1>3, ExpandBooks DEF Squared
  <1>4. CASE SearchRetire(e, p) /\ s = [e EXCEPT !.order = @ \ {p}]
    <2>1. s.remaining = e.remaining /\ s.carried = e.carried
      BY <1>4 DEF CoreInv, TypeOK, RoutePlan
    <2> QED
      BY <2>1 DEF SearchBooks, Balanced
  <1> QED
    BY <1>0, <1>1, <1>2, <1>3, <1>4 DEF SearchExpand, SearchRetire, SearchDiscard, SearchAbort

LEMMA DoneStartsBooks == CoreInv /\ BaselineDone => SearchBooks'
  <1> SUFFICES ASSUME CoreInv, BaselineDone PROVE SearchBooks'
    OBVIOUS
  <1>1. world \in Worlds /\ world' = world /\ queue' = {Root} /\ plan' = {}
    BY DEF CoreInv, TypeOK, PhaseInv, BaselineDone
  <1>2. Root.carried = [i \in DOMAIN world.demand |-> 0] /\ Root.remaining = Elements(Requests)
    BY DEF Root, Elements
  <1>3. /\ \A j \in DOMAIN Requests : PartOf(Requests[j])
        /\ \A j, k \in DOMAIN Requests : Requests[j].id = Requests[k].id => j = k
        /\ \A i \in DOMAIN world.demand : Balanced(Root, i, Elements(Requests))
    BY <1>1, <1>2, StartBalances
  <1> QED
    BY <1>1, <1>2, <1>3 DEF SearchBooks, PartOf, Balanced, Elements

(* The books are balanced at all times ... *)
LEMMA NextBooks ==
  ASSUME CoreInv, BaselineBooks, SearchBooks, DistinctEnds(world), [Next]_vars
  PROVE  BaselineBooks' /\ SearchBooks'
  <1>1. CASE CheckRequests \/ BaselineFails \/ UNCHANGED vars \/ Stop
    <2>1. UNCHANGED <<world, baseline, todo, queue, plan>>
      BY <1>1 DEF CheckRequests, BaselineFails, vars, Stop
    <2> QED
      BY <2>1 DEF BaselineBooks, SearchBooks, PartOf, Balanced, Elements
  <1>2. ASSUME NEW p \in Planes, NEW i \in DOMAIN todo,
               BaselineRetire(p, i) \/ BaselineFly(p, i) \/ BaselineAbort(p, i)
        PROVE  BaselineBooks' /\ SearchBooks'
    <2>1. phase = "baseline" /\ queue' = {} /\ plan' = {}
      BY <1>2 DEF BaselineRetire, BaselineFly, BaselineAbort, Turn, CoreInv, PhaseInv, TypeOK
    <2>2. SearchBooks'
      BY <2>1 DEF SearchBooks
    <2>3. BaselineAbort(p, i) => BaselineBooks'
      BY DEF BaselineAbort, BaselineBooks, PartOf, Balanced, Elements
    <2> QED
      BY <1>2, <2>2, <2>3, RetireBooks, FlyBooks
  <1>3. CASE BaselineDone
    <2>1. UNCHANGED <<world, baseline, todo>>
      BY <1>3 DEF BaselineDone
    <2> QED
      BY <1>3, <2>1, DoneStartsBooks DEF BaselineBooks, PartOf, Balanced, Elements
  <1>4. ASSUME NEW e \in queue, NEW p \in Planes,
               SearchExpand(e, p) \/ SearchRetire(e, p) \/ SearchDiscard(e, p) \/ SearchAbort(e, p)
        PROVE  BaselineBooks' /\ SearchBooks'
    <2>1. UNCHANGED <<world, baseline, todo>>
      BY <1>4 DEF SearchExpand, SearchRetire, SearchDiscard, SearchAbort
    <2> QED
      BY <1>4, <2>1, SearchKeepsBooks DEF BaselineBooks, PartOf, Balanced, Elements
  <1>5. ASSUME NEW e \in queue, SearchDone(e)
        PROVE  BaselineBooks' /\ SearchBooks'
    BY <1>5 DEF SearchDone, BaselineBooks, SearchBooks, PartOf, Balanced, Elements
  <1> QED
    BY <1>1, <1>2, <1>3, <1>4, <1>5 DEF Next, Step

(* ... and so nobody is left behind by splitting requests over flights, if *)
(* no two requests have the same ends.                                     *)
LEMMA BooksCarryAll ==
  ASSUME CoreInv, BaselineBooks, SearchBooks
  PROVE  EveryoneIsCarried
  <1>1. phase \in {"search", "done"} => todo = <<>>
    BY DEF CoreInv, PhaseInv
  <1>2. todo = <<>> => AllCarried(baseline)
    BY DEF BaselineBooks, Balanced, Elements, AllCarried
  <1>3. \A e \in plan : AllCarried(e)
    BY DEF CoreInv, PlanInv, SearchBooks, Balanced, AllCarried
  <1> QED
    BY <1>1, <1>2, <1>3 DEF EveryoneIsCarried

THEOREM NobodyLeftBehind ==
  ASSUME \A w \in Worlds : DistinctEnds(w)
  PROVE  Spec => []EveryoneIsCarried
  <1> DEFINE Books == CoreInv /\ BaselineBooks /\ SearchBooks
  <1>1. Init => Books
    BY InitCore, InitBooks
  <1>2. Books /\ [Next]_vars => Books'
    <2>1. Books => DistinctEnds(world)
      BY DEF CoreInv, TypeOK
    <2> QED
      BY <2>1, NextCore, NextBooks
  <1>3. Books => EveryoneIsCarried
    BY BooksCarryAll
  <1> HIDE DEF Books
  <1> QED
    BY <1>1, <1>2, <1>3, PTL DEF Spec

-----------------------------------------------------------------------------
(* One map for all: the search can always follow the baseline.             *)

(* One iteration of the search takes plan x to plan y, budget aside. *)
Follows(x, y) == \E p \in First(x) : \E r \in x.remaining : y = Extend(x, p, r)

(* Plan g comes from plan e by such steps: it is in every set that has e   *)
(* and is closed under them.                                               *)
Closed(W) == \A x \in W : \A y : Follows(x, y) => y \in W
Reaches(e, g) == \A W \in SUBSET RoutePlan : e \in W /\ Closed(W) => g \in W

(* Plan e is what the baseline has flown so far, at no higher price. *)
Shadows(e) ==
  /\ e \in RoutePlan
  /\ e.order = Planes /\ e.at = baseline.at /\ e.time = baseline.time
  /\ e.cost <= baseline.cost
  /\ e.remaining = Elements(todo)

(* Plan e can be finished within the budget. *)
OnTrack(e) == \E g : Reaches(e, g) /\ g.remaining = {} /\ g.cost <= baseline.cost

OnTheMap ==
  /\ baseline.order = Planes
  /\ \A p \in Planes : baseline.at[p] \in world.serves[p]
  /\ \A e \in queue : \A p \in Planes : e.at[p] \in world.serves[p]
  /\ phase \in {"baseline", "search"} =>
       \A i \in DOMAIN world.demand : \A p \in Planes :
         {world.demand[i].from, world.demand[i].to} \subseteq world.serves[p]

TrackInv ==
  /\ phase = "baseline" => \E e : Shadows(e) /\ Reaches(Root, e)
  /\ phase = "search" => \E e \in queue : OnTrack(e)

PlannedInv == OneMap => OnTheMap /\ TrackInv /\ OneMapIsPlanned

LEMMA FollowsTyped ==
  ASSUME NEW x \in RoutePlan, NEW y, Follows(x, y)
  PROVE  y \in RoutePlan /\ x.cost <= y.cost
  <1>1. PICK p \in First(x), r \in x.remaining : y = Extend(x, p, r)
    BY DEF Follows
  <1>2. /\ p \in Planes /\ x.at \in [Planes -> Airports] /\ r \in Request
        /\ x.cost \in Nat
    BY DEF First, RoutePlan
  <1>3. x.at[p] \in Airports /\ r.from \in Airports
    BY <1>2 DEF Request
  <1>4. Toll(p, x.at[p], r.from) \in Nat /\ FlightCost(p, r) \in Nat
    BY <1>2, <1>3, PricesTyped
  <1>5. y \in RoutePlan /\ y.cost = x.cost + Toll(p, x.at[p], r.from) + FlightCost(p, r)
    BY <1>1, <1>2, ExtendFields
  <1> QED
    BY <1>2, <1>4, <1>5

LEMMA ReachSelf ==
  ASSUME NEW e
  PROVE  Reaches(e, e)
  BY DEF Reaches

LEMMA ReachOn ==
  ASSUME NEW e, NEW x, NEW y, Reaches(e, x), Follows(x, y)
  PROVE  Reaches(e, y)
  BY DEF Reaches, Closed

(* Plans only get dearer on the way. *)
LEMMA ReachCost ==
  ASSUME NEW e \in RoutePlan, NEW g, Reaches(e, g)
  PROVE  g \in RoutePlan /\ e.cost <= g.cost
  <1> DEFINE W == {x \in RoutePlan : e.cost <= x.cost}
  <1>1. \A x \in RoutePlan : x.cost \in Nat
    BY DEF RoutePlan
  <1>2. e \in W
    BY <1>1
  <1>3. ASSUME NEW x \in W, NEW y, Follows(x, y) PROVE y \in W
    <2>1. y \in RoutePlan /\ x.cost <= y.cost
      BY <1>3, FollowsTyped
    <2> QED
      BY <1>1, <2>1
  <1>4. Closed(W) /\ W \in SUBSET RoutePlan
    BY <1>3 DEF Closed
  <1> HIDE DEF W
  <1>5. g \in W
    BY <1>2, <1>4 DEF Reaches
  <1> QED
    BY <1>5 DEF W

(* What is reached and is not the start is reached by way of a first step. *)
LEMMA ReachFirst ==
  ASSUME NEW e \in RoutePlan, NEW g, Reaches(e, g), g # e
  PROVE  \E y : Follows(e, y) /\ Reaches(y, g)
  <1> DEFINE W == {e} \cup {x \in RoutePlan : \E y : Follows(e, y) /\ Reaches(y, x)}
  <1>1. ASSUME NEW x \in W, NEW y, Follows(x, y) PROVE y \in W
    <2>1. y \in RoutePlan
      BY <1>1, FollowsTyped
    <2>2. CASE x = e
      BY <1>1, <2>1, <2>2, ReachSelf
    <2>3. CASE x # e
      <3>1. PICK z : Follows(e, z) /\ Reaches(z, x)
        BY <2>3
      <3>2. Reaches(z, y)
        BY <1>1, <3>1, ReachOn
      <3> QED
        BY <2>1, <3>1, <3>2
    <2> QED
      BY <2>2, <2>3
  <1>2. Closed(W) /\ W \in SUBSET RoutePlan /\ e \in W
    BY <1>1 DEF Closed
  <1> HIDE DEF W
  <1>3. g \in W
    BY <1>2 DEF Reaches
  <1> QED
    BY <1>3 DEF W

(* All of this is about the world, which never changes. *)
LEMMA SameWorld ==
  ASSUME world' = world
  PROVE  /\ OneMap' <=> OneMap
         /\ Root' = Root
         /\ \A e, g : Reaches(e, g)' <=> Reaches(e, g)
         /\ \A g : Reaches(Root, g)' <=> Reaches(Root, g)
  <1>1. OneMap' <=> OneMap
    BY DEF OneMap
  <1>2. Root' = Root
    BY DEF Root, Requests
  <1>3. RoutePlan' = RoutePlan
    BY DEF RoutePlan
  <1>4. \A x : First(x)' = First(x)
    BY DEF First, Before
  <1>5. \A x, y : Follows(x, y)' <=> Follows(x, y)
    BY <1>4 DEF Follows, Extend, Fly, ArriveAt, ArriveWhen, CarriedBy, NextRemaining, Leftover,
              Taken, Toll, FerryTime, FlightCost
  <1>6. \A W : Closed(W)' <=> Closed(W)
    BY <1>5 DEF Closed
  <1>7. \A e, g : Reaches(e, g)' <=> Reaches(e, g)
    BY <1>3, <1>6 DEF Reaches
  <1>8. \A g : Reaches(Root, g)' <=> Reaches(Root, g)
    BY <1>2, <1>3, <1>6 DEF Reaches
  <1> QED
    BY <1>1, <1>2, <1>7, <1>8

(* The plane that is free first is one only. *)
LEMMA OneIsFirst ==
  ASSUME world \in Worlds, DistinctRanks(world), NEW f, f.time \in [Planes -> Nat],
         f.order \subseteq Planes, NEW p \in First(f), NEW q \in First(f)
  PROVE  p = q
  <1>1. /\ p \in Planes /\ q \in Planes /\ Before(f, p, q) /\ Before(f, q, p)
    BY DEF First
  <1>2. f.time[p] \in Nat /\ f.time[q] \in Nat
    BY <1>1
  <1>3. world.rank[p] \in Nat /\ world.rank[q] \in Nat
    BY <1>1, WorldsTyped
  <1>4. world.rank[p] = world.rank[q]
    BY <1>1, <1>2, <1>3 DEF Before
  <1> QED
    BY <1>1, <1>4 DEF DistinctRanks

-----------------------------------------------------------------------------
(* Under one map, no plane ever meets a request it has no way to fly. *)

LEMMA AllConnected ==
  ASSUME OneMap, NEW p \in Planes, NEW at, NEW r,
         at \in world.serves[p], OnMap(p, r)
  PROVE  Connects(p, at, r)
  <1>1. PICK S \in SUBSET Airports :
          \A q \in Planes : world.serves[q] = S /\ S \X S \subseteq world.links[q] /\ world.home[q] \in S
    BY DEF OneMap
  <1>2. at \in S /\ r.from \in S /\ r.to \in S
    BY <1>1 DEF OnMap
  <1> QED
    BY <1>1, <1>2 DEF Connects, Linked

LEMMA PartsOnMap ==
  ASSUME OnTheMap, phase \in {"baseline", "search"}, NEW p \in Planes, NEW r, PartOf(r)
  PROVE  OnMap(p, r)
  BY DEF OnTheMap, PartOf, OnMap

(* The check lets the demand through, and all planes are at home. *)
LEMMA CheckKeepsPlan ==
  ASSUME CoreInv, PlannedInv, CheckRequests
  PROVE  PlannedInv'
  <1>0. /\ phase = "check" /\ world' = world /\ baseline' = baseline /\ todo' = todo
        /\ queue' = queue /\ queue = {} /\ todo = Requests /\ baseline = AtHome(world)
        /\ world \in Worlds
    BY DEF CheckRequests, CoreInv, PhaseInv, TypeOK
  <1>1. SUFFICES ASSUME OneMap PROVE OnTheMap' /\ TrackInv' /\ OneMapIsPlanned'
    BY <1>0, SameWorld DEF PlannedInv
  <1>2. PICK S \in SUBSET Airports :
          \A q \in Planes : world.serves[q] = S /\ S \X S \subseteq world.links[q] /\ world.home[q] \in S
    BY <1>1 DEF OneMap
  <1>3. phase' \in {"unroutable", "baseline"}
    BY <1>2 DEF CheckRequests
  <1>4. OneMapIsPlanned'
    BY <1>3 DEF OneMapIsPlanned
  <1>5. OnTheMap'
    <2>1. baseline.order = Planes /\ \A p \in Planes : baseline.at[p] \in world.serves[p]
      BY <1>0, <1>2 DEF AtHome
    <2>2. ASSUME phase' = "baseline", NEW i \in DOMAIN world.demand, NEW p \in Planes
          PROVE  {world.demand[i].from, world.demand[i].to} \subseteq world.serves[p]
      <3>1. i \in DOMAIN todo /\ todo[i].from = world.demand[i].from /\ todo[i].to = world.demand[i].to
        BY <1>0, <2>2 DEF Requests
      <3>2. Routable(todo[i])
        BY <2>2, <3>1 DEF CheckRequests
      <3>3. \E q \in Planes : {todo[i].from, todo[i].to} \subseteq world.serves[q]
        BY <3>2 DEF Routable, OnMap
      <3> QED
        BY <1>2, <3>1, <3>3
    <2> QED
      BY <1>0, <1>3, <2>1, <2>2 DEF OnTheMap
  <1>6. TrackInv'
    <2>1. Root \in RoutePlan
      BY <1>0, RootTyped
    <2>2. Shadows(Root)
      <3>1. baseline.cost = 0 /\ Root.cost = 0
        BY <1>0 DEF AtHome, Root
      <3>2. Root.remaining = Elements(todo)
        BY <1>0 DEF Root, Elements
      <3>3. Root.order = Planes /\ Root.at = baseline.at /\ Root.time = baseline.time
        BY <1>0 DEF Root, AtHome
      <3> QED
        BY <2>1, <3>1, <3>2, <3>3 DEF Shadows
    <2>3. Shadows(Root)' /\ Reaches(Root, Root)'
      BY <1>0, <2>2, ReachSelf, SameWorld DEF Shadows, RoutePlan
    <2>4. Reaches(Root, Root)
      BY ReachSelf
    <2>5. \E e : Shadows(e)' /\ Reaches(Root, e)'
      BY <1>0, <2>2, <2>3, <2>4, SameWorld DEF Shadows, RoutePlan
    <2> QED
      BY <1>3, <2>5 DEF TrackInv
  <1> QED
    BY <1>4, <1>5, <1>6

(* The search could have taken the step of the baseline just as well. *)
LEMMA ShadowFlies ==
  ASSUME CoreInv, BaselineBooks, DistinctEnds(world), TableIsLeast,
         NEW p \in Planes, NEW i \in DOMAIN todo, BaselineFly(p, i),
         baseline.order = Planes, NEW e, Shadows(e)
  PROVE  \E y : Follows(e, y) /\ Shadows(y)'
  <1> DEFINE r == todo[i]
             toll == Toll(p, e.at[p], r.from)
             ferry == FerryCost(p, baseline.at[p], r.from)
  <1>1. /\ e \in RoutePlan /\ baseline \in Itinerary /\ todo \in Seq(Request) /\ r \in Request
        /\ world' = world
        /\ e.order = Planes /\ e.at = baseline.at /\ e.time = baseline.time
        /\ e.cost <= baseline.cost /\ e.remaining = Elements(todo)
        /\ baseline.at \in [Planes -> Airports]
        /\ baseline.cost \in Nat /\ e.cost \in Nat
    BY DEF Shadows, CoreInv, TypeOK, BaselineFly, Itinerary, RoutePlan
  <1>2. r \in e.remaining
    BY <1>1 DEF Elements
  <1> PICK y : y = Extend(e, p, r)
    OBVIOUS
  <1>3. /\ y \in RoutePlan /\ y.order = Planes
        /\ y.at = ArriveAt(e, p, r) /\ y.time = ArriveWhen(e, p, r)
        /\ y.cost = e.cost + toll + FlightCost(p, r)
        /\ y.remaining = NextRemaining(e, p, r)
    BY <1>1, <1>2, ExtendFields
  <1>4. Follows(e, y)
    <2>1. p \in First(baseline) /\ baseline.order \subseteq Planes
      BY <1>1 DEF BaselineFly, Turn, Itinerary
    <2>2. p \in First(e)
      BY <1>1, <2>1 DEF First, Before
    <2> QED
      BY <1>2, <2>2 DEF Follows
  <1>5. /\ baseline'.order = baseline.order
        /\ baseline'.at = ArriveAt(baseline, p, r)
        /\ baseline'.time = ArriveWhen(baseline, p, r)
        /\ baseline'.cost = baseline.cost + ferry + FlightCost(p, r)
    BY <1>1 DEF BaselineFly, Fly, Itinerary
  <1>6. ArriveAt(e, p, r) = ArriveAt(baseline, p, r) /\ ArriveWhen(e, p, r) = ArriveWhen(baseline, p, r)
    BY <1>1 DEF ArriveAt, ArriveWhen
  <1>7. toll <= ferry /\ toll \in Nat /\ ferry \in Nat /\ FlightCost(p, r) \in Nat
    <2>1. r.from \in Airports /\ baseline.at[p] \in Airports
      BY <1>1 DEF Request
    <2>2. toll \in Nat /\ ferry \in Nat /\ FlightCost(p, r) \in Nat
      BY <1>1, <2>1, PricesTyped
    <2>3. toll <= ferry
      BY <1>1, <2>1, <2>2 DEF Toll, FerryCost, TableIsLeast
    <2> QED
      BY <2>2, <2>3
  <1>8. y.cost <= baseline'.cost
    <2> HIDE DEF toll, ferry
    <2> QED
      BY <1>1, <1>3, <1>5, <1>7
  <1>9. y.remaining = Elements(todo')
    <2>1. \A s \in e.remaining : PartOf(s)
      BY <1>1 DEF BaselineBooks, Elements
    <2>2. \A s, t \in e.remaining : s.id = t.id => s = t
      BY <1>1 DEF BaselineBooks, Elements
    <2>3. \A s \in e.remaining : s.from = r.from /\ s.to = r.to => s = r
      BY <1>2, <2>1, <2>2 DEF PartOf, DistinctEnds
    <2>4. NextRemaining(e, p, r) = (e.remaining \ {r}) \cup Leftover(p, r)
      BY <1>2, <2>3 DEF NextRemaining
    <2> QED
      BY <1>1, <1>3, <2>4, FlyLeaves
  <1>10. RoutePlan' = RoutePlan
    BY <1>1 DEF RoutePlan
  <1>11. Shadows(y)'
    BY <1>1, <1>3, <1>5, <1>6, <1>8, <1>9, <1>10 DEF Shadows
  <1> QED
    BY <1>4, <1>11

LEMMA BaselineKeepsPlan ==
  ASSUME CoreInv, BaselineBooks, DistinctEnds(world), TableIsLeast, PlannedInv,
         NEW p \in Planes, NEW i \in DOMAIN todo,
         BaselineRetire(p, i) \/ BaselineFly(p, i) \/ BaselineAbort(p, i)
  PROVE  PlannedInv'
  <1>0. /\ phase = "baseline" /\ world' = world /\ queue' = queue /\ queue = {}
        /\ baseline \in Itinerary /\ todo \in Seq(Request) /\ todo[i] \in Request
    BY DEF BaselineRetire, BaselineFly, BaselineAbort, Turn, CoreInv, PhaseInv, TypeOK
  <1>1. SUFFICES ASSUME OneMap PROVE OnTheMap' /\ TrackInv' /\ OneMapIsPlanned'
    BY <1>0, SameWorld DEF PlannedInv
  <1>2. OnTheMap /\ TrackInv
    BY <1>1 DEF PlannedInv
  <1>3. OnMap(p, todo[i]) /\ baseline.at[p] \in world.serves[p]
    <2>1. PartOf(todo[i])
      BY DEF BaselineBooks
    <2> QED
      BY <1>0, <1>2, <2>1, PartsOnMap DEF OnTheMap
  <1>4. BaselineFly(p, i)
    BY <1>1, <1>3, AllConnected DEF BaselineRetire, BaselineAbort
  <1>5. phase' = phase /\ OneMapIsPlanned'
    BY <1>0, <1>4 DEF BaselineFly, OneMapIsPlanned
  <1>6. OnTheMap'
    <2>1. baseline'.order = baseline.order /\ baseline'.at = ArriveAt(baseline, p, todo[i])
      BY <1>0, <1>4 DEF BaselineFly, Fly, Itinerary
    <2>2. \A q \in Planes : baseline'.at[q] \in world.serves[q]
      BY <1>0, <1>2, <1>3, <2>1 DEF ArriveAt, OnTheMap, OnMap, Itinerary
    <2> QED
      BY <1>0, <1>2, <1>5, <2>1, <2>2 DEF OnTheMap
  <1>7. TrackInv'
    <2>1. PICK e : Shadows(e) /\ Reaches(Root, e)
      BY <1>0, <1>2 DEF TrackInv
    <2>2. PICK y : Follows(e, y) /\ Shadows(y)'
      BY <1>2, <1>4, <2>1, ShadowFlies DEF OnTheMap
    <2>3. Reaches(Root, y)
      BY <2>1, <2>2, ReachOn
    <2>4. Reaches(Root, y)'
      BY <1>0, <2>3, SameWorld
    <2> QED
      BY <1>0, <1>5, <2>2, <2>4 DEF TrackInv
  <1> QED
    BY <1>5, <1>6, <1>7

(* The baseline is never out of planes, and its plan is open to the search.*)
LEMMA SearchIsOnTrack ==
  ASSUME CoreInv, BaselineBooks, PlannedInv, BaselineFails \/ BaselineDone
  PROVE  PlannedInv'
  <1>0. /\ phase = "baseline" /\ world' = world /\ baseline' = baseline
        /\ world \in Worlds
    BY DEF BaselineFails, BaselineDone, CoreInv, TypeOK
  <1>1. SUFFICES ASSUME OneMap PROVE OnTheMap' /\ TrackInv' /\ OneMapIsPlanned'
    BY <1>0, SameWorld DEF PlannedInv
  <1>2. OnTheMap /\ TrackInv
    BY <1>1 DEF PlannedInv
  <1>3. BaselineDone
    <2> SUFFICES ASSUME BaselineFails PROVE FALSE
      OBVIOUS
    <2>1. todo \in Seq(Request) /\ todo # <<>>
      BY DEF BaselineFails, CoreInv, TypeOK
    <2>2. 1 \in DOMAIN todo
      BY <2>1
    <2>3. todo[1].id \in DOMAIN world.demand
      BY <2>2 DEF BaselineBooks, PartOf
    <2>4. world.demand # <<>>
      BY <2>3
    <2> QED
      BY <1>0, <1>2, <2>4 DEF BaselineFails, OnTheMap, CoreInv, PhaseInv
  <1>4. phase' = "search" /\ queue' = {Root} /\ todo = <<>>
    BY <1>3 DEF BaselineDone
  <1>5. PICK e : Shadows(e) /\ Reaches(Root, e)
    BY <1>0, <1>2 DEF TrackInv
  <1>6. OnTrack(Root)'
    <2>1. e.remaining = {} /\ e.cost <= baseline.cost
      BY <1>4, <1>5 DEF Shadows, Elements
    <2>2. Reaches(Root, e)'
      BY <1>0, <1>5, SameWorld
    <2> QED
      BY <1>0, <2>1, <2>2 DEF OnTrack
  <1>7. \A p \in Planes : Root.at[p] \in world.serves[p]
    BY <1>1 DEF OneMap, Root
  <1>8. OnTheMap'
    BY <1>0, <1>2, <1>4, <1>7 DEF OnTheMap
  <1>9. TrackInv'
    BY <1>0, <1>4, <1>6, SameWorld DEF TrackInv
  <1> QED
    BY <1>4, <1>8, <1>9 DEF OneMapIsPlanned

(* A plan that can be finished is followed by one that can. *)
LEMMA TrackGoesOn ==
  ASSUME CoreInv, SearchBooks, OnTheMap, DistinctRanks(world), phase = "search",
         NEW e \in queue, NEW p \in Planes, Popped(e, p), OnTrack(e)
  PROVE  \E y \in Successors(e, p) : OnTrack(y)
  <1>0. /\ e \in RoutePlan /\ e.remaining # {} /\ p \in First(e) /\ world \in Worlds
        /\ e.order \subseteq Planes /\ e.time \in [Planes -> Nat]
        /\ baseline.cost \in Nat
    BY DEF CoreInv, TypeOK, Popped, RoutePlan, Itinerary
  <1>1. PICK g : Reaches(e, g) /\ g.remaining = {} /\ g.cost <= baseline.cost
    BY DEF OnTrack
  <1>2. PICK y : Follows(e, y) /\ Reaches(y, g)
    BY <1>0, <1>1, ReachFirst
  <1>3. PICK q \in First(e), r \in e.remaining : y = Extend(e, q, r)
    BY <1>2 DEF Follows
  <1>4. q = p
    BY <1>0, <1>3, OneIsFirst
  <1>5. r \in Tried(e, p)
    BY <1>3, PartsOnMap DEF Tried, SearchBooks
  <1>6. y \in RoutePlan /\ y.cost <= baseline.cost
    <2>1. y \in RoutePlan
      BY <1>0, <1>2, FollowsTyped
    <2>2. g \in RoutePlan /\ y.cost <= g.cost
      BY <1>2, <2>1, ReachCost
    <2>3. y.cost \in Nat /\ g.cost \in Nat
      BY <2>1, <2>2 DEF RoutePlan
    <2> QED
      BY <1>0, <1>1, <2>1, <2>2, <2>3
  <1>7. y \in Successors(e, p)
    BY <1>3, <1>4, <1>5, <1>6 DEF Successors
  <1> QED
    BY <1>1, <1>2, <1>7 DEF OnTrack

LEMMA SearchKeepsPlan ==
  ASSUME CoreInv, SearchBooks, PlannedInv, DistinctRanks(world),
         NEW e \in queue, NEW p \in Planes,
         SearchExpand(e, p) \/ SearchRetire(e, p) \/ SearchDiscard(e, p) \/ SearchAbort(e, p)
  PROVE  PlannedInv'
  <1>0. /\ phase = "search" /\ world' = world /\ baseline' = baseline /\ todo' = todo
        /\ Popped(e, p) /\ e \in RoutePlan
    BY DEF SearchExpand, SearchRetire, SearchDiscard, SearchAbort, Popped, CoreInv, TypeOK
  <1>1. SUFFICES ASSUME OneMap PROVE OnTheMap' /\ TrackInv' /\ OneMapIsPlanned'
    BY <1>0, SameWorld DEF PlannedInv
  <1>2. OnTheMap /\ TrackInv
    BY <1>1 DEF PlannedInv
  <1>3. ~ NoPath(e, p)
    <2>1. \A r \in Tried(e, p) : Connects(p, e.at[p], r)
      BY <1>1, <1>2, AllConnected DEF Tried, OnTheMap
    <2> QED
      BY <2>1 DEF NoPath
  <1>4. PICK t \in queue : OnTrack(t)
    BY <1>0, <1>2 DEF TrackInv
  <1>5. \E t2 \in queue' : OnTrack(t2)
    <2>1. CASE t = e
      <3>1. PICK y \in Successors(e, p) : OnTrack(y)
        BY <1>0, <1>2, <1>4, <2>1, TrackGoesOn
      <3>2. SearchExpand(e, p)
        BY <1>3, <3>1 DEF SearchRetire, SearchDiscard, SearchAbort
      <3> QED
        BY <3>1, <3>2 DEF SearchExpand
    <2>2. CASE t # e
      <3>1. t \in queue'
        BY <1>3, <2>2 DEF SearchExpand, SearchRetire, SearchDiscard, SearchAbort
      <3> QED
        BY <1>4, <3>1
    <2> QED
      BY <2>1, <2>2
  <1>6. phase' = "search"
    BY <1>0, <1>3, <1>5 DEF SearchExpand, SearchRetire, SearchDiscard, SearchAbort
  <1>7. ASSUME NEW f \in queue', NEW q \in Planes PROVE f.at[q] \in world.serves[q]
    <2>1. CASE f \in queue
      BY <1>2, <2>1 DEF OnTheMap
    <2>2. CASE f \in Successors(e, p)
      <3>1. PICK r \in e.remaining : OnMap(p, r) /\ f = Extend(e, p, r)
        BY <2>2 DEF Successors, Tried
      <3>2. f.at = ArriveAt(e, p, r) /\ e.at \in [Planes -> Airports]
        BY <1>0, <3>1, ExtendFields DEF RoutePlan
      <3> QED
        BY <1>2, <3>1, <3>2 DEF ArriveAt, OnMap, OnTheMap
    <2>3. CASE f = [e EXCEPT !.order = @ \ {p}]
      <3>1. f.at = e.at
        BY <1>0, <2>3 DEF RoutePlan
      <3> QED
        BY <1>2, <3>1 DEF OnTheMap
    <2> QED
      BY <2>1, <2>2, <2>3 DEF SearchExpand, SearchRetire, SearchDiscard, SearchAbort
  <1>8. OnTheMap'
    BY <1>0, <1>2, <1>6, <1>7 DEF OnTheMap
  <1>9. TrackInv'
    BY <1>0, <1>5, <1>6, SameWorld DEF TrackInv, OnTrack
  <1> QED
    BY <1>6, <1>8, <1>9 DEF OneMapIsPlanned

LEMMA NextPlanned ==
  ASSUME CoreInv, BaselineBooks, SearchBooks, PlannedInv, DistinctEnds(world),
         DistinctRanks(world), TableIsLeast, [Next]_vars
  PROVE  PlannedInv'
  <1>1. CASE UNCHANGED vars \/ Stop
    <2>1. UNCHANGED vars
      BY <1>1 DEF Stop
    <2>2. world' = world /\ UNCHANGED <<phase, baseline, todo, queue>>
      BY <2>1 DEF vars
    <2>3. OnTheMap' <=> OnTheMap
      BY <2>2 DEF OnTheMap
    <2>4. TrackInv => TrackInv'
      <3>1. \A e : Shadows(e)' <=> Shadows(e)
        BY <2>2 DEF Shadows, RoutePlan
      <3>2. \A e : OnTrack(e)' <=> OnTrack(e)
        BY <2>2, SameWorld DEF OnTrack
      <3> QED
        BY <2>2, <3>1, <3>2, SameWorld DEF TrackInv
    <2> QED
      BY <2>2, <2>3, <2>4, SameWorld DEF PlannedInv, OneMapIsPlanned
  <1>2. ASSUME NEW e \in queue, SearchDone(e) PROVE PlannedInv'
    <2>1. world' = world /\ phase' = "done" /\ UNCHANGED <<baseline, todo, queue>>
      BY <1>2 DEF SearchDone
    <2> QED
      BY <2>1, SameWorld DEF PlannedInv, OnTheMap, TrackInv, OneMapIsPlanned
  <1> QED
    BY <1>1, <1>2, CheckKeepsPlan, BaselineKeepsPlan, SearchIsOnTrack, SearchKeepsPlan
       DEF Next, Step

(* With one map for all planes, on which they all are at home, a demand    *)
(* that passes the check is planned: the search always holds a plan that   *)
(* can be finished the way the baseline was, at no higher price.  The      *)
(* table must not ask more than dijkstra for it, no two requests may have  *)
(* the same ends, and no two planes the same position.                     *)
THEOREM OneMapSuffices ==
  ASSUME \A w \in Worlds : DistinctEnds(w) /\ DistinctRanks(w),
         TableIsLeast
  PROVE  Spec => []OneMapIsPlanned
  <1> DEFINE Inv == CoreInv /\ BaselineBooks /\ SearchBooks /\ PlannedInv
  <1>1. Init => Inv
    <2>1. Init => PlannedInv
      <3> SUFFICES ASSUME Init, OneMap PROVE OnTheMap /\ TrackInv /\ OneMapIsPlanned
        BY DEF PlannedInv
      <3>1. OnTheMap
        BY DEF Init, OnTheMap, AtHome, OneMap
      <3> QED
        BY <3>1 DEF Init, TrackInv, OneMapIsPlanned
    <2> QED
      BY <2>1, InitCore, InitBooks
  <1>2. Inv /\ [Next]_vars => Inv'
    <2>1. Inv => DistinctEnds(world) /\ DistinctRanks(world)
      BY DEF CoreInv, TypeOK
    <2> QED
      BY <2>1, NextCore, NextBooks, NextPlanned
  <1>3. Inv => OneMapIsPlanned
    BY DEF PlannedInv, OneMapIsPlanned
  <1> HIDE DEF Inv
  <1> QED
    BY <1>1, <1>2, <1>3, PTL DEF Spec
=============================================================================
