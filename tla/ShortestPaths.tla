--------------------------- MODULE ShortestPaths ---------------------------
(***************************************************************************)
(* The prices that findRoute plans with, from one map: the table that      *)
(* mapgen computes (floydWarshall, lib/algo/fw.hpp), and the path that a   *)
(* thread of the daemon finds (dijkstra, lib/algo/dijkstra.hpp) after the  *)
(* graph went through a file (lib/utils/Graph.hpp).                        *)
(*                                                                         *)
(* A cost is the price of an airway without passengers, for which both     *)
(* are called.  Sums are exact here; those of doubles may differ in their  *)
(* last digits.                                                            *)
(***************************************************************************)
EXTENDS Integers, Sequences

CONSTANTS N,      \* number of airports
          Maps    \* what mapgen may have linked

Nodes == 0..(N - 1)
Airway == [from : Nodes, to : Nodes, cost : Nat]

ASSUME NAssumption == N \in Nat \ {0}
ASSUME MapsAssumption ==
  \A E \in Maps : /\ E \subseteq Airway
                  /\ \A l \in E : l.from # l.to
                  /\ \A l, m \in E : l.from = m.from /\ l.to = m.to => l = m

Inf  == -1     \* INFINITY
None == -1     \* nullptr
Costs == Nat \cup {Inf}

Plus(a, b) == IF Inf \in {a, b} THEN Inf ELSE a + b
Less(a, b) == a # Inf /\ (b = Inf \/ a < b)

VARIABLES
  phase,
  graph,    \* the Graph at hand: its edges, and the neighbors of its nodes
  table,    \* floydWarshall's out
  cell,     \* its loop variables
  ends,     \* start and end of the call of dijkstra
  entry,    \* its NodeEntries, in queue or in costs
  queue,    \* the nodes whose entry is in the queue
  path,
  parent    \* next: the node to be put in front of path

search == <<ends, entry, queue, path, parent>>
vars   == <<phase, graph, table, cell, search>>

TypeOK ==
  /\ phase \in {"table", "dumped", "read", "ready", "search", "trace", "found", "unreachable"}
  /\ graph \in [edges : SUBSET Airway, neighbors : [Nodes -> SUBSET Airway]]
  /\ table \in [Nodes \X Nodes -> Costs]
  /\ cell \in [k : 0..N, i : Nodes, j : Nodes]
  /\ ends \in [start : Nodes, end : Nodes]
  /\ entry \in [Nodes -> [parent : Nodes \cup {None}, cost : Costs]]
  /\ queue \in SUBSET Nodes
  /\ path \in Seq(Nodes)
  /\ parent \in Nodes \cup {None}

-----------------------------------------------------------------------------
(* link() and the constructors of Graph.  Only link() fills the neighbors: *)
(* a graph read from a file has none until it is copied.                   *)
Linked(E) == [edges |-> E, neighbors |-> [n \in Nodes |-> {l \in E : l.from = n}]]
Unlinked(E) == [edges |-> E, neighbors |-> [n \in Nodes |-> {}]]

FirstTable(E) ==
  [c \in Nodes \X Nodes |->
     IF \E l \in E : <<l.from, l.to>> = c
     THEN (CHOOSE l \in E : <<l.from, l.to>> = c).cost
     ELSE IF c[1] = c[2] THEN 0 ELSE Inf]

NoEntry == [parent |-> None, cost |-> Inf]

Init ==
  /\ \E E \in Maps : graph = Linked(E) /\ table = FirstTable(E)
  /\ phase = "table"
  /\ cell = [k |-> 0, i |-> 0, j |-> 0]
  /\ ends = [start |-> 0, end |-> 0]
  /\ entry = [n \in Nodes |-> NoEntry]
  /\ queue = {} /\ path = <<>> /\ parent = None

-----------------------------------------------------------------------------
(* floydWarshall, cell by cell and in place. *)
NextCell(c) ==
  CASE c.j < N - 1 -> [c EXCEPT !.j = @ + 1]
    [] c.j = N - 1 /\ c.i < N - 1 -> [c EXCEPT !.i = @ + 1, !.j = 0]
    [] OTHER -> [k |-> c.k + 1, i |-> 0, j |-> 0]

FillInnermost ==
  /\ phase = "table" /\ cell.k < N
  /\ LET through == Plus(table[<<cell.k, cell.j>>], table[<<cell.j, cell.i>>])
     IN  table' = IF Less(through, table[<<cell.k, cell.i>>])
                  THEN [table EXCEPT ![<<cell.k, cell.i>>] = through] ELSE table
  /\ cell' = NextCell(cell)
  /\ UNCHANGED <<phase, graph, search>>

FillCell ==
  /\ phase = "table" /\ cell.k < N
  /\ LET through == Plus(table[<<cell.i, cell.k>>], table[<<cell.k, cell.j>>])
     IN  table' = IF Less(through, table[<<cell.i, cell.j>>])
                  THEN [table EXCEPT ![<<cell.i, cell.j>>] = through] ELSE table
  /\ cell' = NextCell(cell)
  /\ UNCHANGED <<phase, graph, search>>

(* binDumpToFile, of the table and of the graph. *)
Dump ==
  /\ phase = "table" /\ cell.k = N
  /\ phase' = "dumped"
  /\ UNCHANGED <<graph, table, cell, search>>

(* readFromBinFile.  The result is emplaced in a map: it is copied.        *)
ReadFromBinFile ==
  /\ phase = "dumped"
  /\ phase' = "read" /\ graph' = Unlinked(graph.edges)
  /\ UNCHANGED <<table, cell, search>>

CopyPointers ==
  /\ phase = "read"
  /\ phase' = "ready" /\ UNCHANGED graph
  /\ UNCHANGED <<table, cell, search>>

Copy ==
  /\ phase = "read"
  /\ phase' = "ready" /\ graph' = Linked(graph.edges)
  /\ UNCHANGED <<table, cell, search>>

-----------------------------------------------------------------------------
(* dijkstra.  Its callers look both nodes up in the graph and do not call  *)
(* it for a node and itself, which it would not find.                      *)
Call(s, e) ==
  /\ phase = "ready" /\ s # e
  /\ phase' = "search"
  /\ ends' = [start |-> s, end |-> e]
  /\ entry' = [n \in Nodes |-> IF n = s THEN [NoEntry EXCEPT !.cost = 0] ELSE NoEntry]
  /\ queue' = Nodes
  /\ UNCHANGED <<graph, table, cell, path, parent>>

(* pop_heap: an entry that none is cheaper than; ties are broken anyhow. *)
IsTop(n) == n \in queue /\ \A m \in queue : ~ Less(entry[m].cost, entry[n].cost)

(* What the loop over the neighbors of n makes of the entry of m, be it in *)
(* the queue or in costs; the entry of n itself is in neither.             *)
Adjacent(n, m) == {l \in graph.neighbors[n] : l.to = m /\ m # n}
Cheaper(n, m) == {l \in graph.neighbors[n] :
                    l.to = m /\ m # n /\ Less(Plus(entry[n].cost, l.cost), entry[m].cost)}
CostOnly(n, m) ==
  IF Cheaper(n, m) = {} THEN entry[m]
  ELSE [entry[m] EXCEPT !.cost = Plus(entry[n].cost, (CHOOSE l \in Cheaper(n, m) : TRUE).cost)]
Relaxed(n, m) ==
  IF Cheaper(n, m) = {} THEN entry[m]
  ELSE LET l == CHOOSE l \in Cheaper(n, m) : TRUE
       IN  [parent |-> n, cost |-> Plus(entry[n].cost, l.cost)]

Peek(n) ==
  /\ phase = "search"
  /\ IsTop(n)
  /\ queue' = queue
  /\ entry' = [m \in Nodes |-> Relaxed(n, m)]
  /\ UNCHANGED <<phase, graph, table, cell, ends, path, parent>>

Pop(n) ==
  /\ phase = "search"
  /\ IsTop(n)
  /\ queue' = queue \ {n}
  /\ entry' = [m \in Nodes |-> Relaxed(n, m)]
  /\ UNCHANGED <<phase, graph, table, cell, ends, path, parent>>

Conclude ==
  /\ phase = "search" /\ queue = {}
  /\ IF entry[ends.end].cost = Inf
     THEN phase' = "unreachable" /\ UNCHANGED <<path, parent>>
     ELSE /\ phase' = "trace"
          /\ path' = <<ends.end>> /\ parent' = entry[ends.end].parent
  /\ UNCHANGED <<graph, table, cell, ends, entry, queue>>

PushBack ==
  /\ phase = "trace" /\ parent # None
  /\ path' = Append(path, parent)
  /\ parent' = entry[parent].parent
  /\ phase' = IF parent' = None THEN "found" ELSE "trace"
  /\ UNCHANGED <<graph, table, cell, ends, entry, queue>>

(* One iteration; costs.at(nullptr) would throw. *)
Trace ==
  /\ phase = "trace" /\ parent # None
  /\ path' = <<parent>> \o path
  /\ parent' = entry[parent].parent
  /\ phase' = IF parent' = None THEN "found" ELSE "trace"
  /\ UNCHANGED <<graph, table, cell, ends, entry, queue>>

Return == phase \in {"found", "unreachable"} /\ UNCHANGED vars

Step == \/ FillCell \/ Dump \/ ReadFromBinFile \/ Copy
        \/ \E s, e \in Nodes : Call(s, e)
        \/ \E n \in Nodes : Pop(n)
        \/ Conclude \/ Trace
Next == Step \/ Return

Spec == Init /\ [][Next]_vars

(* Both loops are computed without waiting for anything. *)
FairSpec == Spec /\ WF_vars(Step)

-----------------------------------------------------------------------------
(* Properties. *)

Stations(p)  == 1..(Len(p) - 1)
IsLeg(l, p, i) == l.from = p[i] /\ l.to = p[i + 1]

(* An entry that left the queue is never changed: the loop over the old    *)
(* entries in costs finds nothing to improve.                              *)
SettledStays ==
  [][phase = "search" => \A n \in Nodes \ queue : entry'[n] = entry[n]]_vars

(* When the queue is empty the costs are the least there are: no airway    *)
(* would make one cheaper, and each but the start's is attained by an      *)
(* airway from its parent.                                                 *)
Attained(n) ==
  IF n = ends.start THEN entry[n] = [parent |-> None, cost |-> 0]
  ELSE \/ entry[n] = NoEntry
       \/ \E l \in graph.edges : /\ l.to = n /\ l.from = entry[n].parent
                                 /\ entry[l.from].cost # Inf
                                 /\ entry[n].cost = entry[l.from].cost + l.cost
CostsAreLeast ==
  phase \in {"trace", "found", "unreachable"} =>
    /\ \A n \in Nodes : Attained(n)
    /\ \A l \in graph.edges : ~ Less(Plus(entry[l.from].cost, l.cost), entry[l.to].cost)

(* The path that is returned leads from start to end over airways of the   *)
(* map, each of which accounts for the difference of the costs.            *)
PathIsFlown ==
  phase = "found" =>
    /\ Len(path) > 1 /\ path[1] = ends.start /\ path[Len(path)] = ends.end
    /\ \A i \in Stations(path) : \E l \in graph.edges :
         IsLeg(l, path, i) /\ entry[l.to].cost = entry[l.from].cost + l.cost

(* What the table says of a pair is what dijkstra finds for it: findRoute  *)
(* estimates by the one and pays the other.                                *)
TableIsPrice ==
  /\ phase = "found" => table[<<ends.start, ends.end>>] = entry[ends.end].cost
  /\ phase = "unreachable" => table[<<ends.start, ends.end>>] = Inf

(* The table by definition: the least sum over all routes that visit no    *)
(* airport twice.                                                          *)
Routes(E, a, b) ==
  {p \in UNION {[1..n -> Nodes] : n \in 1..N} :
     /\ p[1] = a /\ p[Len(p)] = b
     /\ \A i, j \in 1..Len(p) : p[i] = p[j] => i = j
     /\ \A i \in Stations(p) : \E l \in E : IsLeg(l, p, i)}
Fare(E, p) ==
  LET upTo[i \in 1..Len(p)] ==
        IF i = 1 THEN 0
        ELSE upTo[i - 1] + (CHOOSE l \in E : IsLeg(l, p, i - 1)).cost
  IN  upTo[Len(p)]
Distance(E, a, b) ==
  LET fares == {Fare(E, p) : p \in Routes(E, a, b)}
  IN  IF fares = {} THEN Inf ELSE CHOOSE f \in fares : \A g \in fares : f <= g

(* floydWarshall's result is the table of the distances. *)
TableIsDistance ==
  phase = "dumped" => \A a, b \in Nodes : table[<<a, b>>] = Distance(graph.edges, a, b)

(* Every call returns: the tracing of parents does not run in circles.     *)
CallReturns == <>(phase \in {"found", "unreachable"})
=============================================================================
