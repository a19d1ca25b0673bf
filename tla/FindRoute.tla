----------------------------- MODULE FindRoute -----------------------------
(***************************************************************************)
(* findRoute (analyzer/lib/algo/routing.cpp): which plane flies which      *)
(* request.  A feasibility check is followed by a greedy baseline plan,    *)
(* whose cost then prunes a best-first search over all plans.              *)
(*                                                                         *)
(* An action is one iteration of a loop.  Airports, prices and times are   *)
(* abstract: what dijkstra and the .binmrt tables say is a constant.       *)
(***************************************************************************)
EXTENDS Integers, Sequences

CONSTANTS Planes, Airports,
          Capacity,           \* passengers a plane takes
          MaxPassengers,      \* bound on the passengers of a request
          Worlds,             \* the problems that may be posed
          Cost(_, _, _, _),   \* plane, passengers, from, to: dijkstra's price
          Time(_, _, _),      \* plane, from, to: duration of dijkstra's path
          Table(_, _, _),     \* plane, from, to: masterTable, price when empty
          Estimate(_, _, _)   \* from, to, passengers: approxCost

(* A world: the demand, and for each plane the home base, the airports in  *)
(* the map of its model, the pairs that map connects, and its position in  *)
(* planes.json.                                                            *)
Pairs  == Airports \X Airports
Groups == 1..MaxPassengers
Trip   == {d \in [from : Airports, to : Airports, passengers : Groups] : d.from # d.to}

ASSUME MaxPassengersIsNat == MaxPassengers \in Nat
ASSUME CapacityIsNat == Capacity \in [Planes -> Nat \ {0}]
ASSUME WorldsTyped ==
  \A w \in Worlds :
    /\ w.demand \in Seq(Trip)
    /\ w.home \in [Planes -> Airports]
    /\ w.serves \in [Planes -> SUBSET Airports]
    /\ w.links \in [Planes -> SUBSET Pairs]
    /\ w.rank \in [Planes -> Nat]
ASSUME PricesAreNat ==
  \A p \in Planes, a, b \in Airports :
    /\ \A k \in 0..Capacity[p] : Cost(p, k, a, b) \in Nat
    /\ Time(p, a, b) \in Nat
    /\ Table(p, a, b) \in Nat
ASSUME EstimatesAreInt ==
  \A a, b \in Airports, k \in Groups : Estimate(a, b, k) \in Int

VARIABLES
  world,     \* the problem
  phase,     \* the loop findRoute is in, or how it ended
  baseline,  \* baselineRoute, baselineTimes, baselineCost and planeOrder
  todo,      \* baselineReqRoutes
  queue,     \* the heap of RoutePlans; equal ones need not be kept apart
  plan       \* the RoutePlan returned

vars == <<world, phase, baseline, todo, queue, plan>>

(* A plan under construction: planeOrder as the set of its planes, where   *)
(* each plane is and since when, the cost, and the passengers carried for  *)
(* each request (which the code does not keep).  A RoutePlan of the search *)
(* adds what remains and reqCost, counted from its initial value, which is *)
(* the same for all of them.                                               *)
Request   == [id : Nat, from : Airports, to : Airports, passengers : Groups]
Itinerary == [order : SUBSET Planes, at : [Planes -> Airports], time : [Planes -> Nat],
              cost : Nat, carried : [DOMAIN world.demand -> Nat]]
RoutePlan == [order : SUBSET Planes, at : [Planes -> Airports], time : [Planes -> Nat],
              cost : Nat, carried : [DOMAIN world.demand -> Nat],
              remaining : SUBSET Request, reqCost : Int]

Ended == {"done", "unroutable", "runtime", "abort"}

TypeOK ==
  /\ world \in Worlds
  /\ phase \in {"check", "baseline", "search"} \cup Ended
  /\ baseline \in Itinerary
  /\ todo \in Seq(Request)
  /\ queue \in SUBSET RoutePlan
  /\ plan \in SUBSET RoutePlan /\ (phase = "done" <=> plan # {})

Requests == [i \in DOMAIN world.demand |->
               [id |-> i, from |-> world.demand[i].from, to |-> world.demand[i].to,
                passengers |-> world.demand[i].passengers]]

AtHome(w) == [order |-> Planes, at |-> w.home, time |-> [p \in Planes |-> 0],
              cost |-> 0, carried |-> [i \in DOMAIN w.demand |-> 0]]

Init ==
  /\ world \in Worlds
  /\ phase = "check"
  /\ baseline = AtHome(world)
  /\ todo = Requests
  /\ queue = {}
  /\ plan = {}

-----------------------------------------------------------------------------
(* Helpers. *)

OnMap(p, r) == {r.from, r.to} \subseteq world.serves[p]

Linked(p, a, b) == a = b \/ <<a, b>> \in world.links[p]

Connects(p, at, r) ==
  /\ Linked(p, at, r.from)
  /\ <<r.from, r.to>> \in world.links[p]

Taken(p, r) == IF r.passengers <= Capacity[p] THEN r.passengers ELSE Capacity[p]

(* What p cannot take of r in one flight. *)
Leftover(p, r) ==
  IF r.passengers <= Capacity[p] THEN {}
  ELSE {[r EXCEPT !.passengers = @ - Capacity[p]]}

FerryTime(p, a, b) == IF a = b THEN 0 ELSE Time(p, a, b)
FerryCost(p, a, b) == IF a = b THEN 0 ELSE Cost(p, 0, a, b)
FlightCost(p, r)   == Cost(p, Taken(p, r), r.from, r.to)

(* Plane p flies to the start of r, for the price ferry, and then r. *)
ArriveAt(f, p, r)  == [f.at EXCEPT ![p] = r.to]
ArriveWhen(f, p, r) ==
  [f.time EXCEPT ![p] = @ + FerryTime(p, f.at[p], r.from) + Time(p, r.from, r.to)]
CarriedBy(f, p, r) == [f.carried EXCEPT ![r.id] = @ + Taken(p, r)]

Fly(f, p, r, ferry) ==
  [f EXCEPT !.at = ArriveAt(f, p, r), !.time = ArriveWhen(f, p, r),
            !.cost = @ + ferry + FlightCost(p, r), !.carried = CarriedBy(f, p, r)]

(* planeOrder.top(): the plane that is free first.  Planes of equal time,  *)
(* as all are in the beginning, come out as they were put in.              *)
Before(f, p, q) ==
  f.time[p] < f.time[q] \/ (f.time[p] = f.time[q] /\ world.rank[p] <= world.rank[q])

First(f) == {p \in f.order : \A q \in f.order : Before(f, p, q)}

-----------------------------------------------------------------------------
(* The check: each request on its own, from the home bases. *)
Routable(r) ==
  \E p \in Planes :
    /\ world.home[p] \in world.serves[p]
    /\ OnMap(p, r)
    /\ Connects(p, world.home[p], r)

(* UnroutableException, or the invalid_argument of a plane whose home base *)
(* is not on its map, or the baseline.                                     *)
CheckRequests ==
  /\ phase = "check"
  /\ phase' = IF \E i \in DOMAIN todo : ~ Routable(todo[i]) THEN "unroutable"
              ELSE IF \E p \in Planes : world.home[p] \notin world.serves[p] THEN "abort"
              ELSE "baseline"
  /\ UNCHANGED <<world, baseline, todo, queue, plan>>

-----------------------------------------------------------------------------
(* The baseline: the plane that is free first takes the request that       *)
(* starts nearest to it, by the price of getting there.                    *)

Toll(p, a, b) == IF a = b THEN 0 ELSE Table(p, a, b)

Nearer(p, a, b, c) ==
  /\ Linked(p, a, b)
  /\ Linked(p, a, c) => Toll(p, a, b) < Toll(p, a, c)

(* Only the requests behind the first are looked up on the map with both   *)
(* their ends; the first one stays the candidate if its start is there.    *)
Candidates(p) ==
  {i \in DOMAIN todo : OnMap(p, todo[i]) \/ (i = 1 /\ todo[i].from \in world.serves[p])}

IsClosest(p, i) ==
  IF Candidates(p) = {} THEN i = 1
  ELSE /\ i \in Candidates(p)
       /\ \A j \in Candidates(p) \ {i} :
            /\ ~ Nearer(p, baseline.at[p], todo[j].from, todo[i].from)
            /\ j < i => Nearer(p, baseline.at[p], todo[i].from, todo[j].from)

(* The next plane is p, and closestRoute is request number i. *)
Turn(p, i) ==
  /\ phase = "baseline"
  /\ p \in First(baseline)
  /\ i \in DOMAIN todo
  /\ IsClosest(p, i)

(* The plane is retired if the chosen request is not on its map. *)
BaselineRetire(p, i) ==
  /\ Turn(p, i)
  /\ ~ OnMap(p, todo[i])
  /\ baseline' = [baseline EXCEPT !.order = @ \ {p}]
  /\ UNCHANGED <<world, phase, todo, queue, plan>>

RemoveIndex(s, i) == [j \in 1..(Len(s) - 1) |-> IF j < i THEN s[j] ELSE s[j + 1]]

BaselineFly(p, i) ==
  LET r == todo[i] IN
  /\ Turn(p, i)
  /\ OnMap(p, r)
  /\ Connects(p, baseline.at[p], r)
  /\ baseline' = Fly(baseline, p, r, FerryCost(p, baseline.at[p], r.from))
  /\ todo' = IF Leftover(p, r) = {} THEN RemoveIndex(todo, i)
             ELSE [todo EXCEPT ![i].passengers = @ - Capacity[p]]
  /\ UNCHANGED <<world, phase, queue, plan>>

(* dijkstra finds no path: UnreachableException, which nobody catches.     *)
BaselineAbort(p, i) ==
  /\ Turn(p, i)
  /\ OnMap(p, todo[i])
  /\ ~ Connects(p, baseline.at[p], todo[i])
  /\ phase' = "abort"
  /\ UNCHANGED <<world, baseline, todo, queue, plan>>

(* "Empty baseline plane order." *)
BaselineFails ==
  /\ phase = "baseline"
  /\ todo # <<>>
  /\ baseline.order = {}
  /\ phase' = "runtime"
  /\ UNCHANGED <<world, baseline, todo, queue, plan>>

(* The root of the search: all planes at home, every request to be flown.  *)
Root ==
  [order |-> Planes, at |-> world.home, time |-> [p \in Planes |-> 0], cost |-> 0,
   carried |-> [i \in DOMAIN world.demand |-> 0],
   remaining |-> {Requests[i] : i \in DOMAIN Requests}, reqCost |-> 0]

BaselineDone ==
  /\ phase = "baseline"
  /\ todo = <<>>
  /\ phase' = "search"
  /\ queue' = {Root}
  /\ UNCHANGED <<world, baseline, todo, plan>>

-----------------------------------------------------------------------------
(* The search.  The entry popped has the least cost + reqCost, and in it   *)
(* the plane that is free first tries every request that remains.          *)

Bound(e) == e.cost + e.reqCost

Popped(e, p) ==
  /\ phase = "search"
  /\ e \in queue
  /\ \A f \in queue : Bound(e) <= Bound(f)
  /\ e.remaining # {}
  /\ p \in First(e)

Tried(e, p) == {r \in e.remaining : OnMap(p, r)}

(* Mutant: nothing is put back for those who did not get on. *)
NextRemainingNoLeftover(e, p, r) ==
  {s \in e.remaining : ~ (s.from = r.from /\ s.to = r.to)}

(* Every request between the same two airports leaves remaining. *)
NextRemaining(e, p, r) ==
  {s \in e.remaining : ~ (s.from = r.from /\ s.to = r.to)} \cup Leftover(p, r)

Extend(e, p, r) ==
  [Fly(e, p, r, Toll(p, e.at[p], r.from)) EXCEPT
     !.remaining = NextRemaining(e, p, r),
     !.reqCost = @ - Estimate(r.from, r.to, r.passengers)]

(* Mutant: no pruning. *)
SuccessorsUnpruned(e, p) == {Extend(e, p, r) : r \in Tried(e, p)}

(* Mutant: the plan must be cheaper than the baseline. *)
SuccessorsCheaper(e, p) ==
  {s \in {Extend(e, p, r) : r \in Tried(e, p)} : s.cost < baseline.cost}

Successors(e, p) ==
  {s \in {Extend(e, p, r) : r \in Tried(e, p)} : s.cost <= baseline.cost}

NoPath(e, p) == \E r \in Tried(e, p) : ~ Connects(p, e.at[p], r)

SearchExpand(e, p) ==
  /\ Popped(e, p)
  /\ ~ NoPath(e, p)
  /\ Successors(e, p) # {}
  /\ queue' = (queue \ {e}) \cup Successors(e, p)
  /\ UNCHANGED <<world, phase, baseline, todo, plan>>

(* Mutant: the plane is not taken out of planeOrder. *)
SearchRetireKeep(e, p) ==
  /\ Popped(e, p)
  /\ ~ NoPath(e, p)
  /\ Successors(e, p) = {}
  /\ e.order # {p}
  /\ UNCHANGED vars

(* Mutant: the plane is taken out even if it is the last one. *)
SearchRetireLast(e, p) ==
  /\ Popped(e, p)
  /\ ~ NoPath(e, p)
  /\ Successors(e, p) = {}
  /\ queue' = (queue \ {e}) \cup {[e EXCEPT !.order = @ \ {p}]}
  /\ UNCHANGED <<world, phase, baseline, todo, plan>>

(* No request for this plane: the others go on without it ... *)
SearchRetire(e, p) ==
  /\ Popped(e, p)
  /\ ~ NoPath(e, p)
  /\ Successors(e, p) = {}
  /\ e.order # {p}
  /\ queue' = (queue \ {e}) \cup {[e EXCEPT !.order = @ \ {p}]}
  /\ UNCHANGED <<world, phase, baseline, todo, plan>>

(* ... unless it was the last one: the entry is a dead end, and if it was  *)
(* the last one in the queue the search fails ("Undetected unroutability").*)
SearchDiscard(e, p) ==
  /\ Popped(e, p)
  /\ ~ NoPath(e, p)
  /\ Successors(e, p) = {}
  /\ e.order = {p}
  /\ queue' = queue \ {e}
  /\ phase' = IF queue' = {} THEN "runtime" ELSE phase
  /\ UNCHANGED <<world, baseline, todo, plan>>

SearchAbort(e, p) ==
  /\ Popped(e, p)
  /\ NoPath(e, p)
  /\ phase' = "abort"
  /\ UNCHANGED <<world, baseline, todo, queue, plan>>

SearchDone(e) ==
  /\ phase = "search"
  /\ e \in queue
  /\ \A f \in queue : Bound(e) <= Bound(f)
  /\ e.remaining = {}
  /\ phase' = "done"
  /\ plan' = {e}
  /\ UNCHANGED <<world, baseline, todo, queue>>

-----------------------------------------------------------------------------
Step ==
  \/ CheckRequests
  \/ \E p \in Planes : \E i \in DOMAIN todo :
       BaselineRetire(p, i) \/ BaselineFly(p, i) \/ BaselineAbort(p, i)
  \/ BaselineFails \/ BaselineDone
  \/ \E e \in queue :
       \/ SearchDone(e)
       \/ \E p \in Planes : SearchExpand(e, p) \/ SearchRetire(e, p)
                             \/ SearchDiscard(e, p) \/ SearchAbort(e, p)

(* The thread has returned or thrown. *)
Stop == phase \in Ended /\ UNCHANGED vars

Next == Step \/ Stop

Spec == Init /\ [][Next]_vars

(* Nothing blocks a routing thread: it computes as long as it is scheduled.*)
FairSpec == Spec /\ WF_vars(Step)

-----------------------------------------------------------------------------
(* Properties. *)

(* The plan that is returned never costs more than the greedy one it is    *)
(* compared with, whichever way the heaps break their ties.                *)
NoDearerThanBaseline == \A e \in plan : e.cost <= baseline.cost

(* The search never asks an empty planeOrder for its top, which would be   *)
(* undefined: a plan that is not finished has a plane left to try.         *)
PlaneToAsk == \A e \in queue : e.remaining = {} \/ e.order # {}

(* Splitting requests over flights loses nobody and carries nobody twice:  *)
(* both plans carry the passengers of each request, all of them.           *)
AllCarried(f) ==
  \A i \in DOMAIN world.demand : f.carried[i] = world.demand[i].passengers

EveryoneIsCarried ==
  /\ phase \in {"search", "done"} => AllCarried(baseline)
  /\ \A e \in plan : AllCarried(e)

(* With one model of plane, based on a map that connects every airport it  *)
(* serves, a demand that passes the check gets a plan: the search does not *)
(* run out of plans, and no path is missing.                               *)
OneMap ==
  \E S \in SUBSET Airports :
    \A p \in Planes :
      world.serves[p] = S /\ S \X S \subseteq world.links[p] /\ world.home[p] \in S

OneMapIsPlanned == OneMap => phase \notin {"runtime", "abort"}

(* The search gives up or finds a plan, whatever the problem. *)
Ends == <>(phase \in Ended)

-----------------------------------------------------------------------------
(* The inductive invariant behind them; FindRouteProofs proves CoreInv for *)
(* every world, and the books for worlds of DistinctEnds.                  *)

(* Where the loops leave their data. *)
PhaseInv ==
  /\ phase = "check" => todo = Requests /\ baseline = AtHome(world)
  /\ phase \in {"check", "baseline"} => queue = {}
  /\ phase \in {"search", "done"} => todo = <<>>
  /\ phase \in {"baseline", "search"} => world.demand = <<>> \/ Planes # {}

(* Everything queued or returned is within the budget of the baseline. *)
BudgetInv == \A e \in queue \cup plan : e.cost <= baseline.cost

(* Unfinished requests are parts of the demand, one for each of its        *)
(* entries at most, and with what has been carried they add up to it.      *)
PartOf(r) == r.id \in DOMAIN world.demand /\ r.from = world.demand[r.id].from
                                          /\ r.to = world.demand[r.id].to

Balanced(f, i, left) ==
  IF \E r \in left : r.id = i
    THEN \A r \in left : r.id = i => f.carried[i] + r.passengers = world.demand[i].passengers
    ELSE f.carried[i] = world.demand[i].passengers

Elements(s) == {s[i] : i \in DOMAIN s}

BaselineBooks ==
  /\ \A j \in DOMAIN todo : PartOf(todo[j])
  /\ \A j, k \in DOMAIN todo : todo[j].id = todo[k].id => j = k
  /\ \A i \in DOMAIN world.demand : Balanced(baseline, i, Elements(todo))

SearchBooks ==
  \A e \in queue \cup plan :
    /\ \A r \in e.remaining : PartOf(r)
    /\ \A r, s \in e.remaining : r.id = s.id => r = s
    /\ \A i \in DOMAIN world.demand : Balanced(e, i, e.remaining)

PlanInv == \A e \in plan : e.remaining = {}

CoreInv == TypeOK /\ PhaseInv /\ BudgetInv /\ PlaneToAsk /\ PlanInv

IInv == CoreInv /\ BaselineBooks /\ SearchBooks

DistinctEnds(w) ==
  \A i, j \in DOMAIN w.demand :
    w.demand[i].from = w.demand[j].from /\ w.demand[i].to = w.demand[j].to => i = j

(* planes.json is a list: no two planes have the same position in it.      *)
DistinctRanks(w) == \A p, q \in Planes : w.rank[p] = w.rank[q] => p = q

(* The table never asks more for a ferry flight than dijkstra does.        *)
TableIsLeast == \A p \in Planes, a, b \in Airports : Table(p, a, b) <= Cost(p, 0, a, b)

=============================================================================
