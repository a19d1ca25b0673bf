------------------------ MODULE ShortestPathsProofs ------------------------
(***************************************************************************)
(* Theorems about ShortestPaths: dijkstra's costs are the least there are, *)
(* on any map, and the path it returns accounts for them; the table that   *)
(* floydWarshall fills is that of the distances, and says what dijkstra    *)
(* finds.  Then about MapGen, which draws these maps.                      *)
(***************************************************************************)
EXTENDS ShortestPaths, MapGen, TLAPS, WellFoundedInduction, FiniteSetTheorems

Called == {"search", "trace", "found", "unreachable"}

(* The graph is one that mapgen linked; but for the one that was just      *)
(* read, its nodes know their airways.                                     *)
GraphInv ==
  /\ graph.edges \in Maps
  /\ phase # "read" => graph = Linked(graph.edges)

(* An entry is the start's, or untouched, or was made by a node that has   *)
(* left the queue.                                                         *)
Rooted(n) ==
  IF n = ends.start THEN entry[n] = [parent |-> None, cost |-> 0]
  ELSE \/ entry[n] = NoEntry
       \/ \E l \in graph.edges : /\ l.to = n /\ l.from = entry[n].parent
                                 /\ l.from \notin queue
                                 /\ entry[l.from].cost # Inf
                                 /\ entry[n].cost = entry[l.from].cost + l.cost

(* Nothing in the queue is cheaper than what has left it, and the airways  *)
(* of what has left it have been looked at.                                *)
SearchInv ==
  phase \in Called =>
    /\ \A n \in Nodes : Rooted(n)
    /\ \A n \in Nodes \ queue, m \in queue : ~ Less(entry[m].cost, entry[n].cost)
    /\ \A l \in graph.edges :
         l.from \notin queue => ~ Less(Plus(entry[l.from].cost, l.cost), entry[l.to].cost)
    /\ phase # "search" => queue = {}

(* The path leads to the end, and what comes in front of it is the parent  *)
(* of its first node.                                                      *)
TraceInv ==
  phase \in {"trace", "found"} =>
    /\ Len(path) > 0 /\ path[Len(path)] = ends.end
    /\ entry[path[1]].cost # Inf
    /\ parent = entry[path[1]].parent
    /\ \A i \in Stations(path) : \E l \in graph.edges :
         IsLeg(l, path, i) /\ entry[l.to].cost = entry[l.from].cost + l.cost
    /\ phase = "found" => parent = None /\ Len(path) > 1

IInv == TypeOK /\ GraphInv /\ SearchInv /\ TraceInv

-----------------------------------------------------------------------------
LEMMA LinkedType ==
  ASSUME NEW E, E \subseteq Airway
  PROVE  /\ Linked(E) \in [edges : SUBSET Airway, neighbors : [Nodes -> SUBSET Airway]]
         /\ Unlinked(E) \in [edges : SUBSET Airway, neighbors : [Nodes -> SUBSET Airway]]
  BY DEF Linked, Unlinked

LEMMA FirstTableType ==
  ASSUME NEW E, E \subseteq Airway
  PROVE  FirstTable(E) \in [Nodes \X Nodes -> Costs]
<1> SUFFICES ASSUME NEW c \in Nodes \X Nodes
             PROVE  (IF \E l \in E : <<l.from, l.to>> = c
                     THEN (CHOOSE l \in E : <<l.from, l.to>> = c).cost
                     ELSE IF c[1] = c[2] THEN 0 ELSE Inf) \in Costs
  BY DEF FirstTable
<1>1. CASE \E l \in E : <<l.from, l.to>> = c
  <2> DEFINE m == CHOOSE l \in E : <<l.from, l.to>> = c
  <2>1. m \in E
    BY <1>1
  <2>2. m.cost \in Nat
    BY <2>1 DEF Airway
  <2> QED
    BY <1>1, <2>2 DEF Costs
<1>2. CASE ~ \E l \in E : <<l.from, l.to>> = c
  BY <1>2 DEF Costs
<1> QED
  BY <1>1, <1>2

LEMMA PlusType ==
  ASSUME NEW a \in Costs, NEW b \in Costs
  PROVE  /\ Plus(a, b) \in Costs
         /\ a # Inf /\ b # Inf => Plus(a, b) = a + b
         /\ Plus(a, b) # Inf => a # Inf /\ b # Inf
  BY DEF Plus, Costs, Inf

(* What Relaxed returns: the entry as it was, or one by an airway from n.  *)
LEMMA RelaxedCases ==
  ASSUME TypeOK, NEW n \in Nodes, NEW m \in Nodes
  PROVE  \/ Cheaper(n, m) = {} /\ Relaxed(n, m) = entry[m]
         \/ \E l \in Cheaper(n, m) :
              /\ l \in Airway /\ l \in graph.neighbors[n]
              /\ l.to = m /\ m # n
              /\ entry[n].cost # Inf
              /\ Relaxed(n, m) = [parent |-> n, cost |-> entry[n].cost + l.cost]
              /\ entry[n].cost \in Nat
              /\ Less(entry[n].cost + l.cost, entry[m].cost)
<1>1. CASE Cheaper(n, m) = {}
  BY <1>1 DEF Relaxed
<1>2. CASE Cheaper(n, m) # {}
  <2> DEFINE l == CHOOSE l \in Cheaper(n, m) : TRUE
  <2>1. l \in Cheaper(n, m)
    BY <1>2
  <2>2. /\ l \in graph.neighbors[n] /\ l \in Airway
        /\ l.to = m /\ m # n /\ Less(Plus(entry[n].cost, l.cost), entry[m].cost)
    BY <2>1 DEF Cheaper, TypeOK
  <2>3. entry[n].cost \in Costs /\ l.cost \in Costs /\ l.cost # Inf
    BY <2>2 DEF TypeOK, Airway, Costs, Inf
  <2>4. entry[n].cost # Inf /\ Plus(entry[n].cost, l.cost) = entry[n].cost + l.cost
    BY <2>2, <2>3, PlusType DEF Less
  <2>5. Relaxed(n, m) = [parent |-> n, cost |-> entry[n].cost + l.cost]
    BY <1>2, <2>4 DEF Relaxed
  <2>6. entry[n].cost \in Nat
    BY <2>3, <2>4 DEF Costs
  <2> QED
    BY <2>1, <2>2, <2>4, <2>5, <2>6
<1> QED
  BY <1>1, <1>2

-----------------------------------------------------------------------------
LEMMA InitInv == Init => IInv
<1> SUFFICES ASSUME Init PROVE IInv
  OBVIOUS
<1> PICK E \in Maps : graph = Linked(E) /\ table = FirstTable(E)
  BY DEF Init
<1>1. E \subseteq Airway
  BY MapsAssumption
<1>2. TypeOK
  <2>1. 0 \in Nodes /\ 0 \in 0..N
    BY NAssumption DEF Nodes
  <2>2. /\ graph \in [edges : SUBSET Airway, neighbors : [Nodes -> SUBSET Airway]]
        /\ table \in [Nodes \X Nodes -> Costs]
    BY <1>1, LinkedType, FirstTableType
  <2>3. NoEntry \in [parent : Nodes \cup {None}, cost : Costs]
    BY DEF NoEntry, Costs
  <2> QED
    BY <2>1, <2>2, <2>3 DEF Init, TypeOK
<1>3. GraphInv
  BY DEF GraphInv, Linked
<1>4. SearchInv /\ TraceInv
  BY DEF Init, SearchInv, TraceInv, Called
<1> QED
  BY <1>2, <1>3, <1>4 DEF IInv

LEMMA FillCellInv == IInv /\ FillCell => IInv'
<1> SUFFICES ASSUME IInv, FillCell PROVE IInv'
  OBVIOUS
<1> USE DEF IInv
<1>1. /\ cell.k \in 0..N /\ cell.i \in Nodes /\ cell.j \in Nodes /\ cell.k < N
      /\ cell.k \in Nodes
  BY NAssumption DEF TypeOK, FillCell, Nodes
<1>2. Plus(table[<<cell.i, cell.k>>], table[<<cell.k, cell.j>>]) \in Costs
  BY <1>1, PlusType DEF TypeOK
<1>3. table' \in [Nodes \X Nodes -> Costs]
  BY <1>1, <1>2 DEF TypeOK, FillCell
<1>4. cell' \in [k : 0..N, i : Nodes, j : Nodes]
  <2>1. cell' = NextCell(cell)
    BY DEF FillCell
  <2>2. cell \in [k : 0..N, i : Nodes, j : Nodes]
    BY DEF TypeOK
  <2>3. CASE cell.j < N - 1
    BY <1>1, <2>1, <2>2, <2>3, NAssumption DEF NextCell, Nodes
  <2>4. CASE cell.j = N - 1 /\ cell.i < N - 1
    <3>1. NextCell(cell) = [cell EXCEPT !.i = @ + 1, !.j = 0]
      BY <1>1, <2>4, NAssumption DEF NextCell, Nodes
    <3>2. cell.i + 1 \in Nodes /\ 0 \in Nodes
      BY <1>1, <2>4, NAssumption DEF Nodes
    <3> QED
      BY <2>1, <2>2, <3>1, <3>2
  <2>5. CASE ~ (cell.j < N - 1) /\ ~ (cell.j = N - 1 /\ cell.i < N - 1)
    BY <1>1, <2>1, <2>2, <2>5, NAssumption DEF NextCell, Nodes
  <2> QED
    BY <2>3, <2>4, <2>5
<1>5. TypeOK'
  BY <1>3, <1>4 DEF TypeOK, FillCell, search
<1>6. GraphInv' /\ SearchInv' /\ TraceInv'
  BY DEF GraphInv, SearchInv, TraceInv, FillCell, search, Called
<1> QED
  BY <1>5, <1>6

LEMMA FileInv == IInv /\ (Dump \/ ReadFromBinFile \/ Copy) => IInv'
<1> SUFFICES ASSUME IInv, Dump \/ ReadFromBinFile \/ Copy PROVE IInv'
  OBVIOUS
<1> USE DEF IInv
<1>1. graph.edges \subseteq Airway
  BY DEF TypeOK
<1>2. TypeOK'
  BY <1>1, LinkedType DEF TypeOK, Dump, ReadFromBinFile, Copy, search
<1>3. GraphInv'
  BY DEF GraphInv, Dump, ReadFromBinFile, Copy, Linked, Unlinked
<1>4. SearchInv' /\ TraceInv'
  BY DEF SearchInv, TraceInv, Dump, ReadFromBinFile, Copy, Called
<1> QED
  BY <1>2, <1>3, <1>4

LEMMA CallInv == ASSUME IInv, NEW s \in Nodes, NEW e \in Nodes, Call(s, e) PROVE IInv'
<1> USE DEF IInv
<1>1. TypeOK'
  BY DEF TypeOK, Call, NoEntry, Costs
<1>2. GraphInv'
  BY DEF GraphInv, Call, Linked
<1>3. SearchInv'
  <2>1. \A l \in graph.edges : l.from \in Nodes
    BY DEF TypeOK, Airway
  <2>2. /\ ends'.start = s /\ queue' = Nodes /\ graph' = graph /\ phase' = "search"
        /\ \A n \in Nodes : entry'[n] = IF n = s THEN [parent |-> None, cost |-> 0] ELSE NoEntry
    BY DEF Call, NoEntry
  <2> QED
    BY <2>1, <2>2 DEF SearchInv, Rooted
<1>4. TraceInv'
  BY DEF TraceInv, Call
<1> QED
  BY <1>1, <1>2, <1>3, <1>4

-----------------------------------------------------------------------------
(* Popping the top leaves the entries of what had left the queue before.   *)
LEMMA PopKeeps ==
  ASSUME IInv, NEW n \in Nodes, Pop(n)
  PROVE  /\ \A m \in Nodes \ queue : entry'[m] = entry[m]
         /\ entry'[n] = entry[n]
<1> USE DEF IInv
<1>1. n \in queue /\ \A m \in Nodes : entry'[m] = Relaxed(n, m)
  BY DEF Pop, IsTop
<1>2. ASSUME NEW m \in Nodes, m \notin queue PROVE entry'[m] = entry[m]
  <2>1. ~ Less(entry[n].cost, entry[m].cost)
    BY <1>1, <1>2 DEF SearchInv, Pop, Called
  <2>2. entry[m].cost \in Costs
    BY DEF TypeOK
  <2>3. CASE Cheaper(n, m) = {} /\ Relaxed(n, m) = entry[m]
    BY <1>1, <2>3
  <2>4. ASSUME NEW l \in Cheaper(n, m), l \in Airway, entry[n].cost \in Nat,
               Less(entry[n].cost + l.cost, entry[m].cost)
        PROVE FALSE
    BY <2>1, <2>2, <2>4 DEF Less, Inf, Costs, Airway
  <2> QED
    BY <2>3, <2>4, RelaxedCases
<1>3. entry'[n] = entry[n]
  BY <1>1, RelaxedCases
<1> QED
  BY <1>2, <1>3

LEMMA PopInv == ASSUME IInv, NEW n \in Nodes, Pop(n) PROVE IInv'
<1> USE DEF IInv
<1>1. /\ n \in queue /\ queue' = queue \ {n} /\ phase = "search" /\ phase' = "search"
      /\ \A m \in Nodes : entry'[m] = Relaxed(n, m)
      /\ graph' = graph /\ ends' = ends
      /\ \A m \in queue : ~ Less(entry[m].cost, entry[n].cost)
  BY DEF Pop, IsTop
<1>2. graph.edges \subseteq Airway /\ graph = Linked(graph.edges)
  BY <1>1 DEF TypeOK, GraphInv
<1>3. graph.neighbors[n] = {l \in graph.edges : l.from = n}
  BY <1>2 DEF Linked
<1>4. \A m \in Nodes : entry[m] \in [parent : Nodes \cup {None}, cost : Costs]
  BY DEF TypeOK
<1>5. \A m \in Nodes : entry'[m] \in [parent : Nodes \cup {None}, cost : Costs]
  <2> SUFFICES ASSUME NEW m \in Nodes
               PROVE  Relaxed(n, m) \in [parent : Nodes \cup {None}, cost : Costs]
    BY <1>1
  <2>1. ASSUME NEW l \in Airway, entry[n].cost \in Nat
        PROVE  [parent |-> n, cost |-> entry[n].cost + l.cost]
                 \in [parent : Nodes \cup {None}, cost : Costs]
    BY <2>1 DEF Airway, Costs
  <2> QED
    BY <1>4, <2>1, RelaxedCases
<1>6. TypeOK'
  BY <1>5 DEF TypeOK, Pop
<1>7. GraphInv'
  BY <1>1 DEF GraphInv
<1>8. ASSUME NEW m \in Nodes PROVE Rooted(m)'
  <2>1. Rooted(m)
    BY <1>1 DEF SearchInv, Called
  <2>2. CASE entry'[m] = entry[m]
    <3>1. CASE m = ends.start \/ entry[m] = NoEntry
      BY <1>1, <2>1, <2>2, <3>1 DEF Rooted
    <3>2. CASE m # ends.start /\ entry[m] # NoEntry
      <4> PICK l \in graph.edges : /\ l.to = m /\ l.from = entry[m].parent
                                   /\ l.from \notin queue
                                   /\ entry[l.from].cost # Inf
                                   /\ entry[m].cost = entry[l.from].cost + l.cost
        BY <2>1, <3>2 DEF Rooted
      <4>1. entry'[l.from] = entry[l.from]
        BY <1>2, PopKeeps DEF Airway
      <4> QED
        BY <1>1, <2>2, <3>2, <4>1 DEF Rooted
    <3> QED
      BY <3>1, <3>2
  <2>3. ASSUME NEW l \in graph.neighbors[n], l.to = m, m # n, entry[n].cost # Inf,
               entry[n].cost \in Nat, l \in Airway,
               entry'[m] = [parent |-> n, cost |-> entry[n].cost + l.cost],
               Less(entry[n].cost + l.cost, entry[m].cost)
        PROVE  Rooted(m)'
    <3>1. l \in graph.edges /\ l.from = n
      BY <1>3, <2>3
    <3>2. entry'[n] = entry[n]
      BY PopKeeps
    <3>3. m # ends.start
      BY <2>1, <2>3 DEF Rooted, Less, Inf, Airway
    <3> QED
      BY <1>1, <2>3, <3>1, <3>2, <3>3 DEF Rooted
  <2> QED
    BY <1>1, <2>2, <2>3, RelaxedCases
<1>9. ASSUME NEW a \in Nodes, a \notin queue', NEW b \in queue'
      PROVE  ~ Less(entry'[b].cost, entry'[a].cost)
  <2>1. b \in Nodes /\ b \in queue /\ b # n
    BY <1>1, <1>9 DEF TypeOK
  <2>2. entry'[a] = entry[a] /\ ~ Less(entry[n].cost, entry[a].cost)
    <3>1. CASE a = n
      BY <1>4, <3>1, PopKeeps DEF Less, Costs, Inf
    <3>2. CASE a \notin queue
      BY <1>1, <3>2, PopKeeps DEF SearchInv, Called
    <3> QED
      BY <1>1, <1>9, <3>1, <3>2
  <2>3. ~ Less(entry[b].cost, entry[n].cost)
    BY <1>1, <2>1
  <2>4. CASE entry'[b] = entry[b]
    BY <1>4, <2>1, <2>2, <2>3, <2>4 DEF Less, Costs, Inf
  <2>5. ASSUME NEW l \in Airway, entry[n].cost \in Nat,
               entry'[b] = [parent |-> n, cost |-> entry[n].cost + l.cost]
        PROVE  ~ Less(entry'[b].cost, entry'[a].cost)
    BY <1>4, <2>2, <2>5 DEF Less, Costs, Inf, Airway
  <2> QED
    BY <1>1, <2>1, <2>4, <2>5, RelaxedCases
<1>10. ASSUME NEW l \in graph.edges, l.from \notin queue'
       PROVE  ~ Less(Plus(entry'[l.from].cost, l.cost), entry'[l.to].cost)
  <2>1. l.from \in Nodes /\ l.to \in Nodes /\ l.cost \in Nat
    BY <1>2 DEF Airway
  <2>2. l.from # l.to
    BY MapsAssumption DEF GraphInv
  <2>3. entry'[l.from] = entry[l.from]
    BY <1>1, <1>10, <2>1, PopKeeps
  <2>4. entry[l.from].cost \in Costs /\ entry[l.to].cost \in Costs /\ l.cost \in Costs
    BY <1>4, <2>1 DEF Costs
  <2>5. CASE l.from = n
    <3>1. l \in graph.neighbors[n]
      BY <1>3, <2>5
    <3>2. CASE Cheaper(n, l.to) = {} /\ Relaxed(n, l.to) = entry[l.to]
      BY <1>1, <2>1, <2>2, <2>3, <2>5, <3>1, <3>2 DEF Cheaper
    <3>3. ASSUME NEW m \in graph.neighbors[n], m.to = l.to,
                 entry[n].cost \in Nat, entry[n].cost # Inf,
                 Relaxed(n, l.to) = [parent |-> n, cost |-> entry[n].cost + m.cost]
          PROVE  ~ Less(Plus(entry'[l.from].cost, l.cost), entry'[l.to].cost)
      <4>1. m = l
        BY <1>3, <2>5, <3>3, MapsAssumption DEF GraphInv
      <4>2. entry'[l.to].cost = entry[n].cost + l.cost
        BY <1>1, <2>1, <3>3, <4>1
      <4>3. Plus(entry'[l.from].cost, l.cost) = entry[n].cost + l.cost
        BY <2>3, <2>4, <2>5, <3>3, <2>1, PlusType DEF Inf
      <4> QED
        BY <2>1, <3>3, <4>2, <4>3 DEF Less
    <3> QED
      BY <2>1, <3>2, <3>3, RelaxedCases
  <2>6. CASE l.from # n
    <3>1. l.from \notin queue
      BY <1>1, <1>10, <2>6
    <3>2. ~ Less(Plus(entry[l.from].cost, l.cost), entry[l.to].cost)
      BY <1>1, <3>1 DEF SearchInv, Called
    <3>3. CASE entry'[l.to] = entry[l.to]
      BY <2>3, <3>2, <3>3
    <3>4. ASSUME entry[n].cost \in Nat, NEW m \in Airway,
                 Less(entry[n].cost + m.cost, entry[l.to].cost),
                 entry'[l.to] = [parent |-> n, cost |-> entry[n].cost + m.cost]
          PROVE  ~ Less(Plus(entry'[l.from].cost, l.cost), entry'[l.to].cost)
      <4>1. Plus(entry[l.from].cost, l.cost) \in Costs
        BY <2>4, PlusType
      <4> QED
        BY <2>3, <2>4, <3>2, <3>4, <4>1 DEF Less, Costs, Inf, Airway
    <3> QED
      BY <1>1, <2>1, <3>3, <3>4, RelaxedCases
  <2> QED
    BY <2>5, <2>6
<1>11. SearchInv'
  BY <1>1, <1>8, <1>9, <1>10 DEF SearchInv
<1>12. TraceInv'
  BY <1>1 DEF TraceInv
<1> QED
  BY <1>6, <1>7, <1>11, <1>12

-----------------------------------------------------------------------------
LEMMA ConcludeInv == IInv /\ Conclude => IInv'
<1> SUFFICES ASSUME IInv, Conclude PROVE IInv'
  OBVIOUS
<1> USE DEF IInv
<1>1. ends.end \in Nodes /\ entry[ends.end].parent \in Nodes \cup {None}
  BY DEF TypeOK
<1>2. TypeOK'
  <2>1. phase' \in {"trace", "unreachable"} /\ UNCHANGED <<graph, table, cell, ends, entry, queue>>
    BY DEF Conclude
  <2>2. path' \in Seq(Nodes) /\ parent' \in Nodes \cup {None}
    <3>1. <<ends.end>> \in Seq(Nodes)
      BY <1>1
    <3> QED
      BY <1>1, <3>1 DEF TypeOK, Conclude
  <2> QED
    BY <2>1, <2>2 DEF TypeOK
<1>3. GraphInv'
  BY DEF GraphInv, Conclude
<1>4. SearchInv'
  BY DEF SearchInv, Conclude, Called, Rooted
<1>5. TraceInv'
  BY DEF TraceInv, Conclude, Stations
<1> QED
  BY <1>2, <1>3, <1>4, <1>5

LEMMA TraceKeepsInv == IInv /\ Trace => IInv'
<1> SUFFICES ASSUME IInv, Trace PROVE IInv'
  OBVIOUS
<1> USE DEF IInv
<1>1. /\ phase = "trace" /\ phase' \in {"trace", "found"} /\ parent \in Nodes
      /\ path \in Seq(Nodes) /\ Len(path) > 0 /\ path' = <<parent>> \o path
      /\ parent' = entry[parent].parent
      /\ graph' = graph /\ entry' = entry /\ ends' = ends /\ queue' = queue
      /\ phase' = "found" => parent' = None
  BY DEF Trace, TypeOK, TraceInv
<1>2. /\ path' \in Seq(Nodes) /\ Len(path') = Len(path) + 1 /\ path'[1] = parent
      /\ \A i \in 1..Len(path) : path'[i + 1] = path[i]
  BY <1>1
<1>3. TypeOK'
  BY <1>1, <1>2 DEF TypeOK, Trace
<1>4. GraphInv' /\ SearchInv'
  BY <1>1 DEF GraphInv, SearchInv, Called, Rooted, Trace
<1>5. path[1] \in Nodes
  BY <1>1
<1>6. PICK m \in graph.edges : /\ m.to = path[1] /\ m.from = parent
                               /\ entry[parent].cost # Inf
                               /\ entry[path[1]].cost = entry[parent].cost + m.cost
  <2>1. Rooted(path[1]) /\ parent = entry[path[1]].parent /\ entry[path[1]].cost # Inf
    BY <1>1, <1>5 DEF SearchInv, Called, TraceInv
  <2>2. parent # None
    BY DEF Trace
  <2> QED
    BY <2>1, <2>2 DEF Rooted, NoEntry
<1>7. ASSUME NEW i \in Stations(path')
      PROVE  \E l \in graph.edges :
               IsLeg(l, path', i) /\ entry[l.to].cost = entry[l.from].cost + l.cost
  <2>1. i \in 1..Len(path)
    BY <1>1, <1>2 DEF Stations
  <2>2. CASE i = 1
    BY <1>2, <1>6, <2>1, <2>2 DEF IsLeg
  <2>3. CASE i # 1
    <3> DEFINE j == i - 1
    <3>1. j \in Stations(path) /\ path'[i] = path[j] /\ path'[i + 1] = path[j + 1]
      BY <1>1, <1>2, <2>1, <2>3 DEF Stations
    <3>2. PICK l \in graph.edges :
            IsLeg(l, path, j) /\ entry[l.to].cost = entry[l.from].cost + l.cost
      BY <1>1, <3>1 DEF TraceInv
    <3> QED
      BY <3>1, <3>2 DEF IsLeg
  <2> QED
    BY <2>2, <2>3
<1>8. path'[Len(path')] = ends.end
  BY <1>1, <1>2 DEF TraceInv
<1>9. TraceInv'
  <2>1. Len(path') > 0 /\ entry'[path'[1]].cost # Inf /\ parent' = entry'[path'[1]].parent
    BY <1>1, <1>2, <1>6
  <2>2. \A i \in Stations(path') : \E l \in graph'.edges :
          IsLeg(l, path', i) /\ entry'[l.to].cost = entry'[l.from].cost + l.cost
    BY <1>1, <1>7
  <2>3. phase' = "found" => parent' = None /\ Len(path') > 1
    BY <1>1, <1>2
  <2> QED
    BY <1>1, <1>8, <2>1, <2>2, <2>3 DEF TraceInv
<1> QED
  BY <1>3, <1>4, <1>9

LEMMA NextInv == IInv /\ [Next]_vars => IInv'
<1> SUFFICES ASSUME IInv, [Next]_vars PROVE IInv'
  OBVIOUS
<1>1. CASE UNCHANGED vars
  BY <1>1 DEF IInv, TypeOK, GraphInv, SearchInv, TraceInv, Rooted, Stations, IsLeg, vars, search
<1>2. CASE Step
  BY <1>2, FillCellInv, FileInv, CallInv, PopInv, ConcludeInv, TraceKeepsInv DEF Step
<1> QED
  BY <1>1, <1>2 DEF Next, Return

-----------------------------------------------------------------------------
(* The inductive invariant holds for any map of any size. *)
THEOREM Invariance == Spec => []IInv
BY InitInv, NextInv, PTL DEF Spec

(* Every variable keeps its type. *)
THEOREM TypeCorrect == Spec => []TypeOK
<1>1. IInv => TypeOK
  BY DEF IInv
<1> QED
  BY <1>1, Invariance, PTL

(* dijkstra never changes an entry that has left its queue, so that the    *)
(* loop over costs is never of use.                                        *)
THEOREM SettledForGood == Spec => SettledStays
<1> DEFINE Stays == phase = "search" => \A n \in Nodes \ queue : entry'[n] = entry[n]
<1>1. IInv /\ [Next]_vars => [Stays]_vars
  <2> SUFFICES ASSUME IInv, Step, phase = "search" PROVE Stays
    BY DEF Next, Return
  <2>1. ASSUME NEW n \in Nodes, Pop(n) PROVE Stays
    BY <2>1, PopKeeps
  <2>2. CASE Conclude
    BY <2>2 DEF Conclude
  <2> QED
    BY <2>1, <2>2 DEF Step, FillCell, Dump, ReadFromBinFile, Copy, Call, Trace
<1> QED
  BY <1>1, Invariance, PTL DEF Spec, SettledStays

(* The costs dijkstra ends with are the least there are: no airway makes   *)
(* one cheaper, and a chain of airways attains each.                       *)
THEOREM LeastCosts == Spec => []CostsAreLeast
<1>1. IInv => CostsAreLeast
  BY DEF IInv, CostsAreLeast, SearchInv, Called, Rooted, Attained, TypeOK
<1> QED
  BY <1>1, Invariance, PTL

(* A path that is returned leads from start to end, and its airways add up *)
(* to the cost of each node on it.                                         *)
THEOREM PathLeads == Spec => []PathIsFlown
<1>1. IInv => PathIsFlown
  <2> SUFFICES ASSUME IInv, phase = "found" PROVE PathIsFlown
    BY DEF PathIsFlown
  <2>1. /\ Len(path) > 1 /\ path \in Seq(Nodes) /\ path[1] \in Nodes
        /\ entry[path[1]].parent = None /\ entry[path[1]].cost # Inf
    BY DEF IInv, TypeOK, TraceInv
  <2>2. Rooted(path[1])
    BY <2>1 DEF IInv, SearchInv, Called
  <2>3. \A l \in graph.edges : l.from # None
    BY DEF IInv, TypeOK, Airway, Nodes, None
  <2>4. path[1] = ends.start
    BY <2>1, <2>2, <2>3 DEF Rooted, NoEntry
  <2> QED
    BY <2>1, <2>4 DEF PathIsFlown, IInv, TraceInv
<1> QED
  BY <1>1, Invariance, PTL

-----------------------------------------------------------------------------
(* The table.  Costs are ordered with Inf on top, and a sum is no smaller  *)
(* for a larger term.                                                      *)
Leq(a, b) == ~ Less(b, a)
To(a, b) == table[<<a, b>>]

LEMMA CostOrder ==
  ASSUME NEW a \in Costs, NEW b \in Costs, NEW c \in Costs
  PROVE  /\ Leq(a, a)
         /\ Leq(a, b) /\ Leq(b, c) => Leq(a, c)
         /\ Leq(a, b) /\ Leq(b, a) => a = b
         /\ Less(a, b) => Leq(a, b)
         /\ Leq(a, Inf)
         /\ a = 0 => Leq(a, b)
BY DEF Leq, Less, Costs, Inf

LEMMA CostSum ==
  ASSUME NEW a \in Costs, NEW b \in Costs, NEW c \in Costs
  PROVE  /\ Plus(a, b) \in Costs
         /\ Plus(a, 0) = a /\ Plus(0, a) = a
         /\ Plus(Plus(a, b), c) = Plus(a, Plus(b, c))
         /\ Leq(a, b) => Leq(Plus(a, c), Plus(b, c)) /\ Leq(Plus(c, a), Plus(c, b))
         /\ Leq(a, Plus(a, b)) /\ Leq(b, Plus(a, b))
BY DEF Leq, Less, Plus, Costs, Inf

(* Within phase k of the loops, the pairs that it has come to. *)
Filled(a, b) == a < cell.i \/ (a = cell.i /\ b < cell.j)

(* No way over a node whose phase is over is cheaper than the entry, unless *)
(* the way over the node of this phase is as cheap: then the entry is to    *)
(* come, or the one of a part of the way has just been made cheaper.        *)
Bent(a, m, b) ==
  \/ Leq(To(a, b), Plus(To(a, m), To(m, b)))
  \/ /\ cell.k < N
     /\ Leq(Plus(To(a, cell.k), To(cell.k, b)), Plus(To(a, m), To(m, b)))

TableInv ==
  /\ phase # "table" => cell.k = N
  /\ \A a \in Nodes : To(a, a) = 0
  /\ \A l \in graph.edges : Leq(To(l.from, l.to), l.cost)
  /\ \A a, m, b \in Nodes : m < cell.k => Bent(a, m, b)
  /\ cell.k < N => \A a, b \in Nodes :
       Filled(a, b) => Leq(To(a, b), Plus(To(a, cell.k), To(cell.k, b)))

(* The entries keep below every bound that the airways keep below: d gives  *)
(* each node a cost that no airway undercuts.                               *)
Feasible(d) == \A l \in graph.edges : Leq(d[l.to], Plus(d[l.from], l.cost))
SoundInv ==
  \A d \in [Nodes -> Costs] :
    Feasible(d) => \A a, b \in Nodes : Leq(d[b], Plus(d[a], To(a, b)))

LEMMA FirstTableIs ==
  ASSUME NEW E \in Maps, NEW a \in Nodes, NEW b \in Nodes
  PROVE  \/ \E l \in E : l \in Airway /\ l.from = a /\ l.to = b /\ a # b
                         /\ FirstTable(E)[<<a, b>>] = l.cost
         \/ /\ ~ \E l \in E : l.from = a /\ l.to = b
            /\ FirstTable(E)[<<a, b>>] = IF a = b THEN 0 ELSE Inf
<1> DEFINE c == <<a, b>>
<1>1. c \in Nodes \X Nodes /\ c[1] = a /\ c[2] = b
  OBVIOUS
<1>2. E \subseteq Airway /\ \A l \in E : l.from # l.to
  BY MapsAssumption
<1>3. CASE \E l \in E : <<l.from, l.to>> = c
  <2> DEFINE m == CHOOSE l \in E : <<l.from, l.to>> = c
  <2>1. m \in E /\ <<m.from, m.to>> = c
    BY <1>3
  <2>2. FirstTable(E)[c] = m.cost
    BY <1>1, <1>3 DEF FirstTable
  <2>3. m.from = a /\ m.to = b
    BY <2>1
  <2> HIDE DEF m
  <2> QED
    BY <1>2, <2>1, <2>2, <2>3
<1>4. CASE ~ \E l \in E : <<l.from, l.to>> = c
  <2>1. FirstTable(E)[c] = IF c[1] = c[2] THEN 0 ELSE Inf
    BY <1>1, <1>4 DEF FirstTable
  <2> QED
    BY <1>1, <1>4, <2>1
<1> QED
  BY <1>3, <1>4

LEMMA TableStarts == Init => TableInv /\ SoundInv
<1> SUFFICES ASSUME Init PROVE TableInv /\ SoundInv
  OBVIOUS
<1> PICK E \in Maps : graph = Linked(E) /\ table = FirstTable(E)
  BY DEF Init
<1>1. /\ E \subseteq Airway /\ graph.edges = E
      /\ \A l, m \in E : l.from = m.from /\ l.to = m.to => l = m
  BY MapsAssumption DEF Linked
<1>2. phase = "table" /\ cell.k = 0 /\ cell.i = 0 /\ cell.j = 0
  BY DEF Init
<1>3. \A a \in Nodes : To(a, a) = 0
  BY FirstTableIs DEF To
<1>4. ASSUME NEW l \in E PROVE To(l.from, l.to) = l.cost
  <2>1. l.from \in Nodes /\ l.to \in Nodes
    BY <1>1 DEF Airway
  <2> QED
    BY <1>1, <2>1, FirstTableIs DEF To
<1>5. TableInv
  <2>1. \A l \in E : Leq(To(l.from, l.to), l.cost)
    BY <1>1, <1>4, CostOrder DEF Costs, Airway
  <2>2. \A a, b \in Nodes : ~ Filled(a, b) /\ ~ (a < 0)
    BY <1>2, NAssumption DEF Filled, Nodes
  <2> QED
    BY <1>1, <1>2, <1>3, <2>1, <2>2 DEF TableInv
<1>6. SoundInv
  <2> SUFFICES ASSUME NEW d \in [Nodes -> Costs], Feasible(d), NEW a \in Nodes, NEW b \in Nodes
               PROVE  Leq(d[b], Plus(d[a], To(a, b)))
    BY DEF SoundInv
  <2>1. d[a] \in Costs /\ d[b] \in Costs
    OBVIOUS
  <2>2. CASE \E l \in E : l.from = a /\ l.to = b
    BY <1>1, <1>4, <2>2 DEF Feasible
  <2>3. CASE a = b
    BY <1>3, <2>1, <2>3, CostOrder, CostSum DEF Costs
  <2>4. CASE a # b /\ ~ \E l \in E : l.from = a /\ l.to = b
    <3>1. To(a, b) = Inf
      BY <2>4, FirstTableIs DEF To
    <3> QED
      BY <2>1, <3>1, CostOrder DEF Plus
  <2> QED
    BY <2>2, <2>3, <2>4
<1> QED
  BY <1>5, <1>6

(* What a step of the loops makes of the entry of a pair: only the one at   *)
(* hand becomes cheaper, and none from or to the node of this phase.        *)
LEMMA FillCellMakes ==
  ASSUME TypeOK, TableInv, FillCell
  PROVE  /\ cell.k \in Nodes /\ cell.i \in Nodes /\ cell.j \in Nodes
         /\ \A a, b \in Nodes :
              /\ To(a, b) \in Costs /\ To(a, b)' \in Costs
              /\ Leq(To(a, b)', To(a, b))
              /\ a = cell.k \/ b = cell.k \/ a = b \/ a # cell.i \/ b # cell.j
                   => To(a, b)' = To(a, b)
              /\ a = cell.i /\ b = cell.j
                   => Leq(To(a, b)', Plus(To(a, cell.k), To(cell.k, b)))
              /\ \/ To(a, b)' = To(a, b)
                 \/ /\ a = cell.i /\ b = cell.j
                    /\ To(a, b)' = Plus(To(a, cell.k), To(cell.k, b))
<1> DEFINE k == cell.k
           i == cell.i
           j == cell.j
           through == Plus(To(i, k), To(k, j))
<1>1. k \in Nodes /\ i \in Nodes /\ j \in Nodes
  BY NAssumption DEF TypeOK, FillCell, Nodes
<1>2. \A a, b \in Nodes : To(a, b) \in Costs
  BY DEF TypeOK, To
<1>3. through \in Costs
  BY <1>1, <1>2, CostSum
<1>4. \A a, b \in Nodes :
        To(a, b)' = IF a = i /\ b = j /\ Less(through, To(i, j)) THEN through ELSE To(a, b)
  BY <1>1 DEF TypeOK, FillCell, To
<1>5. \A a \in Nodes : To(a, a) = 0
  BY DEF TableInv
<1>6. i = k \/ j = k \/ i = j => ~ Less(through, To(i, j))
  <2>1. i = k => through = To(i, j)
    BY <1>1, <1>2, <1>5, CostSum
  <2>2. j = k => through = To(i, j)
    BY <1>1, <1>2, <1>5, CostSum
  <2>3. i = j => Leq(To(i, j), through)
    BY <1>1, <1>3, <1>5, CostOrder DEF Costs
  <2> QED
    BY <1>1, <1>2, <2>1, <2>2, <2>3, CostOrder DEF Leq
<1> HIDE DEF through
<1>7. ASSUME NEW a \in Nodes, NEW b \in Nodes, a = i, b = j, Less(through, To(i, j))
      PROVE  /\ To(a, b)' = through /\ Leq(To(a, b)', To(a, b))
             /\ To(a, b)' = Plus(To(a, k), To(k, b))
             /\ Leq(To(a, b)', Plus(To(a, k), To(k, b)))
  <2>1. To(a, b)' = through /\ through = Plus(To(a, k), To(k, b))
    BY <1>4, <1>7 DEF through
  <2> QED
    BY <1>2, <1>3, <1>7, <2>1, CostOrder
<1>8. ASSUME NEW a \in Nodes, NEW b \in Nodes, ~ (a = i /\ b = j /\ Less(through, To(i, j)))
      PROVE  /\ To(a, b)' = To(a, b) /\ Leq(To(a, b)', To(a, b))
             /\ a = i /\ b = j => Leq(To(a, b)', Plus(To(a, k), To(k, b)))
  <2>1. To(a, b)' = To(a, b)
    BY <1>4, <1>8
  <2>2. a = i /\ b = j => Leq(To(a, b), through)
    BY <1>8 DEF Leq
  <2> QED
    BY <1>2, <2>1, <2>2, CostOrder DEF through
<1> QED
  BY <1>1, <1>2, <1>3, <1>4, <1>6, <1>7, <1>8

(* The next pair: when it is the first one again every pair has been.       *)
LEMMA NextCellCases ==
  ASSUME TypeOK, FillCell
  PROVE  \/ /\ cell'.k = cell.k
            /\ \A a, b \in Nodes : Filled(a, b)' <=> Filled(a, b) \/ (a = cell.i /\ b = cell.j)
         \/ /\ cell'.k = cell.k + 1
            /\ \A a, b \in Nodes : Filled(a, b) \/ (a = cell.i /\ b = cell.j)
            /\ \A a, b \in Nodes : ~ Filled(a, b)'
<1>1. /\ cell \in [k : 0..N, i : Nodes, j : Nodes] /\ cell' = NextCell(cell)
      /\ cell.i \in 0..(N - 1) /\ cell.j \in 0..(N - 1) /\ N \in Nat
  BY NAssumption DEF TypeOK, FillCell, Nodes
<1>2. CASE cell.j < N - 1
  <2>1. cell' = [cell EXCEPT !.j = @ + 1]
    BY <1>1, <1>2 DEF NextCell
  <2>2. cell'.k = cell.k /\ cell'.i = cell.i /\ cell'.j = cell.j + 1
    BY <1>1, <2>1
  <2> QED
    BY <1>1, <2>2 DEF Filled, Nodes
<1>3. CASE cell.j = N - 1 /\ cell.i < N - 1
  <2>1. cell' = [cell EXCEPT !.i = @ + 1, !.j = 0]
    BY <1>1, <1>3 DEF NextCell
  <2>2. cell'.k = cell.k /\ cell'.i = cell.i + 1 /\ cell'.j = 0
    BY <1>1, <2>1
  <2> QED
    BY <1>1, <1>3, <2>2 DEF Filled, Nodes
<1>4. CASE cell.j = N - 1 /\ cell.i = N - 1
  <2>1. cell' = [k |-> cell.k + 1, i |-> 0, j |-> 0]
    BY <1>1, <1>4 DEF NextCell
  <2>2. cell'.k = cell.k + 1 /\ cell'.i = 0 /\ cell'.j = 0
    BY <2>1
  <2> QED
    BY <1>1, <1>4, <2>2 DEF Filled, Nodes
<1> QED
  BY <1>1, <1>2, <1>3, <1>4

LEMMA FillCellKeepsTable == TypeOK /\ TableInv /\ FillCell => TableInv'
<1> SUFFICES ASSUME TypeOK, TableInv, FillCell PROVE TableInv'
  OBVIOUS
<1>0. PICK k \in Nodes, i \in Nodes, j \in Nodes : k = cell.k /\ i = cell.i /\ j = cell.j
  BY FillCellMakes
<1> USE <1>0
<1>1. k \in Nodes /\ i \in Nodes /\ j \in Nodes /\ k < N
  BY DEF FillCell
<1>2. \A a, b \in Nodes : To(a, b) \in Costs /\ To(a, b)' \in Costs /\ Leq(To(a, b)', To(a, b))
  BY FillCellMakes
<1>3. \A a \in Nodes : /\ To(a, k)' = To(a, k) /\ To(k, a)' = To(k, a)
                       /\ To(a, a)' = 0 /\ To(a, a) = 0
  BY <1>1, FillCellMakes DEF TableInv
<1>4. graph' = graph /\ phase = "table" /\ phase' = "table"
  BY DEF FillCell
<1>5. ASSUME NEW l \in graph.edges PROVE Leq(To(l.from, l.to)', l.cost)
  <2>1. l.from \in Nodes /\ l.to \in Nodes /\ l.cost \in Costs
    BY DEF TypeOK, Airway, Costs
  <2> QED
    BY <1>2, <2>1, CostOrder DEF TableInv
(* The ways over m, when the entry of the pair at hand has been looked at.  *)
<1>6. ASSUME NEW a \in Nodes, NEW m \in Nodes, NEW b \in Nodes, m < k
      PROVE  \/ Leq(To(a, b)', Plus(To(a, m)', To(m, b)'))
             \/ Leq(Plus(To(a, k), To(k, b)), Plus(To(a, m)', To(m, b)'))
  <2>1. /\ To(a, b) \in Costs /\ To(a, m) \in Costs /\ To(m, b) \in Costs
        /\ To(a, k) \in Costs /\ To(k, b) \in Costs /\ To(k, m) \in Costs /\ To(m, k) \in Costs
        /\ To(a, b)' \in Costs /\ Leq(To(a, b)', To(a, b))
    BY <1>1, <1>2
  <2>2. CASE To(a, m)' = To(a, m) /\ To(m, b)' = To(m, b)
    <3>1. Bent(a, m, b)
      BY <1>6 DEF TableInv
    <3> QED
      BY <2>1, <2>2, <3>1, CostOrder, CostSum DEF Bent
  <2>3. CASE To(a, m)' # To(a, m)
    <3>1. a = i /\ m = j /\ To(a, m)' = Plus(To(a, k), To(k, m)) /\ a # m
      BY <1>3, <2>3, FillCellMakes
    <3>2. To(m, b)' = To(m, b)
      BY <3>1, FillCellMakes
    <3>3. Bent(k, m, b) /\ Plus(To(k, k), To(k, b)) = To(k, b)
      BY <1>1, <1>3, <1>6, <2>1, CostSum DEF TableInv
    <3>4. Leq(To(k, b), Plus(To(k, m), To(m, b)))
      BY <3>3 DEF Bent
    <3>5. Leq(Plus(To(a, k), To(k, b)), Plus(To(a, k), Plus(To(k, m), To(m, b))))
      BY <2>1, <3>4, CostSum
    <3> QED
      BY <2>1, <3>1, <3>2, <3>5, CostSum
  <2>4. CASE To(m, b)' # To(m, b)
    <3>1. m = i /\ b = j /\ To(m, b)' = Plus(To(m, k), To(k, b)) /\ m # b
      BY <1>3, <2>4, FillCellMakes
    <3>2. To(a, m)' = To(a, m)
      BY <3>1, FillCellMakes
    <3>3. Bent(a, m, k) /\ Plus(To(a, k), To(k, k)) = To(a, k)
      BY <1>1, <1>3, <1>6, <2>1, CostSum DEF TableInv
    <3>4. Leq(To(a, k), Plus(To(a, m), To(m, k)))
      BY <3>3 DEF Bent
    <3>5. Leq(Plus(To(a, k), To(k, b)), Plus(Plus(To(a, m), To(m, k)), To(k, b)))
      BY <2>1, <3>4, CostSum
    <3> QED
      BY <2>1, <3>1, <3>2, <3>5, CostSum
  <2> QED
    BY <2>2, <2>3, <2>4
<1>7. ASSUME NEW a \in Nodes, NEW b \in Nodes, Filled(a, b) \/ (a = i /\ b = j)
      PROVE  Leq(To(a, b)', Plus(To(a, k)', To(k, b)'))
  <2>1. CASE a = i /\ b = j
    BY <1>1, <1>3, <2>1, FillCellMakes
  <2>2. CASE Filled(a, b)
    <3>1. Leq(To(a, b), Plus(To(a, k), To(k, b)))
      BY <1>1, <2>2 DEF TableInv
    <3>2. Plus(To(a, k), To(k, b)) \in Costs
      BY <1>1, <1>2, CostSum
    <3> QED
      BY <1>1, <1>2, <1>3, <3>1, <3>2, CostOrder
  <2> QED
    BY <1>7, <2>1, <2>2
<1>8. CASE /\ cell'.k = k
           /\ \A a, b \in Nodes : Filled(a, b)' <=> Filled(a, b) \/ (a = i /\ b = j)
  <2>1. \A a, m, b \in Nodes : m < cell'.k => Bent(a, m, b)'
    BY <1>1, <1>3, <1>6, <1>8 DEF Bent
  <2>2. \A a, b \in Nodes : Filled(a, b)' => Leq(To(a, b)', Plus(To(a, k)', To(k, b)'))
    BY <1>7, <1>8
  <2> QED
    BY <1>3, <1>4, <1>5, <1>8, <2>1, <2>2 DEF TableInv, To
<1>9. CASE /\ cell'.k = k + 1
           /\ \A a, b \in Nodes : Filled(a, b) \/ (a = i /\ b = j)
           /\ \A a, b \in Nodes : ~ Filled(a, b)'
  <2>1. ASSUME NEW a \in Nodes, NEW m \in Nodes, NEW b \in Nodes, m < cell'.k
        PROVE  Leq(To(a, b)', Plus(To(a, m)', To(m, b)'))
    <3>1. Leq(To(a, b)', Plus(To(a, k)', To(k, b)'))
      BY <1>7, <1>9
    <3>2. CASE m = k
      BY <3>1, <3>2
    <3>3. CASE m < k
      <4>1. /\ Plus(To(a, k)', To(k, b)') \in Costs /\ Plus(To(a, m)', To(m, b)') \in Costs
            /\ To(a, b)' \in Costs
        BY <1>1, <1>2, CostSum
      <4>2. \/ Leq(To(a, b)', Plus(To(a, m)', To(m, b)'))
            \/ Leq(Plus(To(a, k)', To(k, b)'), Plus(To(a, m)', To(m, b)'))
        BY <1>3, <1>6, <3>3
      <4> QED
        BY <3>1, <4>1, <4>2, CostOrder
    <3> QED
      BY <1>1, <1>9, <2>1, <3>2, <3>3 DEF Nodes
  <2> QED
    BY <1>3, <1>4, <1>5, <1>9, <2>1, Zenon DEF TableInv, To, Bent
<1> QED
  BY <1>8, <1>9, NextCellCases

(* A cheaper entry goes over a node, and the bound holds for both parts. *)
LEMMA FillCellKeepsSound == TypeOK /\ TableInv /\ SoundInv /\ FillCell => SoundInv'
<1> SUFFICES ASSUME TypeOK, TableInv, SoundInv, FillCell,
                    NEW d \in [Nodes -> Costs], Feasible(d)',
                    NEW a \in Nodes, NEW b \in Nodes
             PROVE  Leq(d[b], Plus(d[a], To(a, b)'))
  BY DEF SoundInv, To
<1>1. graph' = graph
  BY DEF FillCell
<1>2. \A u, v \in Nodes : Leq(d[v], Plus(d[u], To(u, v)))
  BY <1>1 DEF SoundInv, Feasible
<1>3. CASE To(a, b)' = To(a, b)
  BY <1>2, <1>3
<1>4. CASE To(a, b)' # To(a, b)
  <2>0. PICK k \in Nodes : k = cell.k
    BY FillCellMakes
  <2>1. k \in Nodes /\ To(a, b)' = Plus(To(a, k), To(k, b)) /\ To(a, k) \in Costs /\ To(k, b) \in Costs
    BY <1>4, <2>0, FillCellMakes
  <2>2. d[a] \in Costs /\ d[b] \in Costs /\ d[k] \in Costs
    BY <2>1
  <2>3. Leq(d[k], Plus(d[a], To(a, k))) /\ Leq(d[b], Plus(d[k], To(k, b)))
    BY <1>2, <2>1
  <2>4. Leq(Plus(d[k], To(k, b)), Plus(Plus(d[a], To(a, k)), To(k, b)))
    BY <2>1, <2>2, <2>3, CostSum
  <2>5. Plus(Plus(d[a], To(a, k)), To(k, b)) = Plus(d[a], To(a, b)')
    BY <2>1, <2>2, CostSum
  <2>6. Plus(d[k], To(k, b)) \in Costs /\ Plus(d[a], To(a, b)') \in Costs
    BY <2>1, <2>2, CostSum
  <2> QED
    BY <2>2, <2>3, <2>4, <2>5, <2>6, CostOrder
<1> QED
  BY <1>3, <1>4

-----------------------------------------------------------------------------
(* What dijkstra holds for a node is never less than the table's entry; it  *)
(* gives up when it holds nothing for the end.                              *)
BoundInv ==
  /\ phase \in Called => \A n \in Nodes : Leq(To(ends.start, n), entry[n].cost)
  /\ phase = "unreachable" => entry[ends.end].cost = Inf

PriceInv == TableInv /\ SoundInv /\ BoundInv

LEMMA TableTyped == TypeOK => \A a, b \in Nodes : To(a, b) \in Costs
BY DEF TypeOK, To

(* When the loops are over no way over a node is cheaper than the entry.    *)
LEMMA Triangle ==
  ASSUME TypeOK, TableInv, cell.k = N
  PROVE  \A a, m, b \in Nodes : Leq(To(a, b), Plus(To(a, m), To(m, b)))
BY DEF TypeOK, TableInv, Bent, Nodes

LEMMA PopKeepsBound ==
  ASSUME IInv, TableInv, BoundInv, NEW n \in Nodes, Pop(n)
  PROVE  BoundInv'
<1>1. /\ TypeOK /\ phase \in Called /\ cell.k = N /\ graph = Linked(graph.edges)
      /\ ends.start \in Nodes
  BY DEF IInv, Pop, Called, TableInv, TypeOK, GraphInv
<1> SUFFICES ASSUME NEW m \in Nodes
             PROVE  Leq(To(ends.start, m), Relaxed(n, m).cost)
  BY DEF BoundInv, Pop, To
<1>2. Leq(To(ends.start, m), entry[m].cost) /\ Leq(To(ends.start, n), entry[n].cost)
  BY <1>1 DEF BoundInv
<1>3. ASSUME NEW l \in graph.neighbors[n], l \in Airway, l.to = m, entry[n].cost \in Nat
      PROVE  Leq(To(ends.start, m), entry[n].cost + l.cost)
  <2> DEFINE s == ends.start
             c == entry[n].cost
  <2>1. l \in graph.edges /\ l.from = n
    BY <1>1 DEF Linked
  <2>2. Leq(To(n, m), l.cost) /\ Leq(To(s, m), Plus(To(s, n), To(n, m)))
    BY <1>1, <1>3, <2>1, Triangle DEF TableInv
  <2>3. /\ To(s, m) \in Costs /\ To(s, n) \in Costs /\ To(n, m) \in Costs
        /\ c \in Costs /\ l.cost \in Costs
    BY <1>1, <1>3, TableTyped DEF Costs, Airway
  <2>4. Plus(c, l.cost) = c + l.cost
    BY <1>3 DEF Plus, Inf, Airway
  <2> HIDE DEF s, c
  <2>5. /\ Leq(Plus(To(s, n), To(n, m)), Plus(c, To(n, m)))
        /\ Leq(Plus(c, To(n, m)), Plus(c, l.cost))
    BY <1>2, <2>2, <2>3, CostSum DEF s, c
  <2>6. Plus(To(s, n), To(n, m)) \in Costs /\ Plus(c, To(n, m)) \in Costs /\ Plus(c, l.cost) \in Costs
    BY <2>3, CostSum
  <2>7. Leq(To(s, m), Plus(c, To(n, m)))
    BY <2>2, <2>3, <2>5, <2>6, CostOrder
  <2>8. Leq(To(s, m), Plus(c, l.cost))
    BY <2>3, <2>5, <2>6, <2>7, CostOrder
  <2> QED
    BY <2>4, <2>8 DEF s, c
<1> QED
  BY <1>1, <1>2, <1>3, RelaxedCases

LEMMA CallStartsBound ==
  ASSUME IInv, TableInv, NEW s \in Nodes, NEW e \in Nodes, Call(s, e)
  PROVE  BoundInv'
<1>1. \A n \in Nodes : entry'[n].cost = IF n = s THEN 0 ELSE Inf
  BY DEF Call, NoEntry
<1>2. \A n \in Nodes : To(s, n) \in Costs /\ To(s, s) = 0
  BY TableTyped DEF IInv, TableInv
<1>3. ASSUME NEW n \in Nodes PROVE Leq(To(s, n), entry'[n].cost)
  <2>1. CASE n = s
    BY <1>1, <1>2, <2>1, CostOrder
  <2>2. CASE n # s
    <3>1. entry'[n].cost = Inf
      BY <1>1, <2>2
    <3> QED
      BY <1>2, <3>1, CostOrder
  <2> QED
    BY <2>1, <2>2
<1> QED
  BY <1>3 DEF BoundInv, Call, To

(* What the other steps change has no part in it. *)
LEMMA PriceKept ==
  ASSUME PriceInv, UNCHANGED <<table, cell, graph.edges>>,
         phase' # "table" => phase # "table" \/ cell.k = N
  PROVE  TableInv' /\ SoundInv'
<1>1. TableInv'
  BY DEF PriceInv, TableInv, Bent, Filled, To
<1>2. SoundInv'
  BY DEF PriceInv, SoundInv, Feasible, To
<1> QED
  BY <1>1, <1>2

LEMMA PriceInvInit == Init => PriceInv
BY TableStarts DEF PriceInv, BoundInv, Init, Called

LEMMA PriceInvNext == IInv /\ PriceInv /\ [Next]_vars => PriceInv'
<1> SUFFICES ASSUME IInv, PriceInv, [Next]_vars PROVE PriceInv'
  OBVIOUS
<1>1. CASE FillCell
  BY <1>1, FillCellKeepsTable, FillCellKeepsSound
     DEF IInv, PriceInv, BoundInv, FillCell, Called
<1>2. CASE Dump \/ ReadFromBinFile \/ Copy
  <2>1. UNCHANGED <<table, cell, graph.edges>> /\ phase' \notin Called
        /\ (phase # "table" \/ cell.k = N)
    BY <1>2 DEF Dump, ReadFromBinFile, Copy, Linked, Unlinked, Called
  <2> QED
    BY <2>1, PriceKept DEF PriceInv, BoundInv, Called
<1>3. ASSUME NEW s \in Nodes, NEW e \in Nodes, Call(s, e) PROVE PriceInv'
  <2>1. BoundInv'
    BY <1>3, CallStartsBound DEF PriceInv
  <2> QED
    BY <1>3, <2>1, PriceKept DEF PriceInv, Call
<1>4. ASSUME NEW n \in Nodes, Pop(n) PROVE PriceInv'
  <2>1. BoundInv'
    BY <1>4, PopKeepsBound DEF PriceInv
  <2> QED
    BY <1>4, <2>1, PriceKept DEF PriceInv, Pop
<1>5. CASE Conclude \/ Trace \/ UNCHANGED vars
  <2>1. UNCHANGED <<table, cell, graph, ends, entry>>
        /\ (phase' \in Called => phase \in Called) /\ (phase' # "table" => phase # "table")
        /\ (phase' = "unreachable" => phase = "unreachable" \/ entry[ends.end].cost = Inf)
    BY <1>5 DEF Conclude, Trace, vars, search, Called
  <2>2. BoundInv'
    BY <2>1 DEF PriceInv, BoundInv, To
  <2> QED
    BY <2>1, <2>2, PriceKept DEF PriceInv
<1> QED
  BY <1>1, <1>2, <1>3, <1>4, <1>5 DEF Next, Step, Return

(* The table's invariant holds for any map of any size. *)
THEOREM PriceInvariance == Spec => [](IInv /\ PriceInv)
BY InitInv, NextInv, PriceInvInit, PriceInvNext, PTL DEF Spec

(* What the table says of a pair is what dijkstra finds for it: no airway   *)
(* undercuts the costs it ends with, so that the table's entry is no less,  *)
(* and it is never more.                                                    *)
THEOREM TableTellsPrice == Spec => []TableIsPrice
<1>1. IInv /\ PriceInv => TableIsPrice
  <2> SUFFICES ASSUME IInv, PriceInv, phase \in {"found", "unreachable"}
               PROVE  /\ To(ends.start, ends.end) = entry[ends.end].cost
                      /\ phase = "unreachable" => entry[ends.end].cost = Inf
    BY DEF TableIsPrice, To
  <2> DEFINE d == [n \in Nodes |-> entry[n].cost]
  <2>1. /\ TypeOK /\ phase \in Called /\ d \in [Nodes -> Costs]
        /\ ends.start \in Nodes /\ ends.end \in Nodes
        /\ \A l \in graph.edges : l.from \in Nodes /\ l.to \in Nodes
    BY DEF IInv, TypeOK, Called, Airway
  <2>2. SearchInv /\ queue = {}
    BY <2>1 DEF IInv, SearchInv
  <2>3. entry[ends.start].cost = 0
    BY <2>1, <2>2 DEF SearchInv, Rooted
  <2>4. Feasible(d)
    <3>1. ASSUME NEW l \in graph.edges
          PROVE  Leq(entry[l.to].cost, Plus(entry[l.from].cost, l.cost))
      BY <2>1, <2>2 DEF SearchInv, Leq
    <3> QED
      BY <2>1, <3>1 DEF Feasible
  <2>5. Leq(entry[ends.end].cost, Plus(0, To(ends.start, ends.end)))
    BY <2>1, <2>3, <2>4 DEF PriceInv, SoundInv
  <2>6. Leq(To(ends.start, ends.end), entry[ends.end].cost)
    BY <2>1 DEF PriceInv, BoundInv
  <2>7. To(ends.start, ends.end) \in Costs /\ entry[ends.end].cost \in Costs
    BY <2>1, TableTyped DEF TypeOK
  <2>8. To(ends.start, ends.end) = entry[ends.end].cost
    BY <2>5, <2>6, <2>7, CostOrder, CostSum
  <2> QED
    BY <2>8 DEF PriceInv, BoundInv
<1> QED
  BY <1>1, PriceInvariance, PTL

-----------------------------------------------------------------------------
(* Routes and fares, for TableIsDistance.  Where a sum or a route goes on  *)
(* and on, the argument is by a least counterexample.                      *)
LEMMA LeastOf ==
  ASSUME NEW S \in SUBSET Nat, S # {}
  PROVE  \E x \in S : \A y \in S : x <= y
<1> DEFINE R == OpToRel(<, Nat)
<1>1. IsWellFoundedOn(R, Nat)
  BY NatLessThanWellFounded
<1>2. ASSUME NEW x \in Nat, NEW y \in Nat, ~ (<<y, x>> \in R) PROVE x <= y
  BY <1>2 DEF OpToRel
<1> HIDE DEF R
<1>3. PICK x \in S : \A y \in S : ~ (<<y, x>> \in R)
  BY <1>1, WFMin, Zenon
<1> QED
  BY <1>2, <1>3

(* Sums(w, k, f): f holds the sums of the first members of w, up to the k-th *)
(* sum, which is of k - 1 of them.                                           *)
Sums(w, k, f) == \A i \in 1..k : f[i] = IF i = 1 THEN 0 ELSE f[i - 1] + w[i - 1]

LEMMA SumsExist ==
  ASSUME NEW n \in Nat, NEW w \in [Nat -> Nat]
  PROVE  \E f \in [1..n -> Nat] : Sums(w, n, f)
<1> DEFINE Has(k) == \E f \in [1..k -> Nat] : Sums(w, k, f)
           S == {k \in Nat : ~ Has(k)}
<1>1. Has(0)
  <2>1. [i \in 1..0 |-> 0] \in [1..0 -> Nat] /\ Sums(w, 0, [i \in 1..0 |-> 0])
    BY DEF Sums
  <2> QED
    BY <2>1
<1>2. ASSUME NEW k \in Nat, Has(k) PROVE Has(k + 1)
  <2> PICK f \in [1..k -> Nat] : Sums(w, k, f)
    BY <1>2
  <2>1. PICK x \in Nat : x = IF k = 0 THEN 0 ELSE f[k] + w[k]
    <3>1. CASE k = 0
      BY <3>1
    <3>2. CASE k # 0
      BY <3>2
    <3> QED
      BY <3>1, <3>2
  <2> DEFINE g == [i \in 1..(k + 1) |-> IF i = k + 1 THEN x ELSE f[i]]
  <2>2. g \in [1..(k + 1) -> Nat]
    <3>1. \A i \in 1..(k + 1) : (IF i = k + 1 THEN x ELSE f[i]) \in Nat
      <4> SUFFICES ASSUME NEW i \in 1..(k + 1), i # k + 1 PROVE f[i] \in Nat
        OBVIOUS
      <4>1. i \in 1..k
        OBVIOUS
      <4> QED
        BY <4>1
    <3> QED
      BY <3>1
  <2>3. ASSUME NEW i \in 1..(k + 1) PROVE g[i] = IF i = 1 THEN 0 ELSE g[i - 1] + w[i - 1]
    <3>1. CASE i = k + 1
      BY <2>1, <3>1
    <3>2. CASE i # k + 1
      <4>1. i \in 1..k /\ g[i] = f[i] /\ (i # 1 => g[i - 1] = f[i - 1])
        BY <3>2
      <4> QED
        BY <4>1 DEF Sums
    <3> QED
      BY <3>1, <3>2
  <2>4. Sums(w, k + 1, g)
    BY <2>3 DEF Sums
  <2> HIDE DEF g
  <2> QED
    BY <2>2, <2>4
<1> HIDE DEF Has
<1>3. ASSUME S # {} PROVE FALSE
  <2>1. PICK k \in S : \A j \in S : k <= j
    BY <1>3, LeastOf
  <2>2. k # 0 /\ k - 1 \in Nat /\ Has(k - 1)
    BY <1>1, <2>1
  <2>3. Has(k)
    BY <1>2, <2>2
  <2> QED
    BY <2>3
<1> QED
  BY <1>3 DEF Has

LEMMA SumsAgree ==
  ASSUME NEW w \in [Nat -> Nat], NEW v \in [Nat -> Nat], NEW n \in Nat, NEW f, NEW g,
         Sums(w, n, f), Sums(v, n, g), \A i \in 1..(n - 1) : w[i] = v[i]
  PROVE  \A i \in 1..n : f[i] = g[i] /\ f[i] \in Nat
<1> DEFINE Fine(i) == f[i] = g[i] /\ f[i] \in Nat
           S == {i \in Nat : i \in 1..n /\ ~ Fine(i)}
<1>1. ASSUME NEW i \in 1..n, i = 1 PROVE Fine(i)
  BY <1>1 DEF Sums
<1>2. ASSUME NEW i \in 1..n, i # 1, Fine(i - 1) PROVE Fine(i)
  BY <1>2 DEF Sums
<1> HIDE DEF Fine
<1>3. ASSUME S # {} PROVE FALSE
  <2>1. PICK i \in S : \A j \in S : i <= j
    BY <1>3, LeastOf
  <2>2. i \in 1..n /\ i # 1 /\ i - 1 \in 1..n /\ Fine(i - 1)
    BY <1>1, <2>1
  <2> QED
    BY <1>2, <2>1, <2>2
<1> QED
  BY <1>3 DEF Fine

LEMMA SumsGrow ==
  ASSUME NEW w \in [Nat -> Nat], NEW n \in Nat, NEW f \in [1..n -> Nat], Sums(w, n, f),
         NEW i \in 1..n
  PROVE  f[i] <= f[n]
<1> DEFINE Fine(j) == f[i] <= f[j]
<1>1. Fine(i)
  OBVIOUS
<1>2. ASSUME NEW j \in i..n, j # i, Fine(j - 1) PROVE Fine(j)
  <2>1. j \in 1..n /\ j # 1 /\ j - 1 \in 1..n /\ j - 1 \in Nat
    BY <1>2
  <2>2. f[j] = f[j - 1] + w[j - 1]
    BY <2>1 DEF Sums
  <2>3. f[j - 1] \in Nat /\ w[j - 1] \in Nat /\ f[i] \in Nat
    BY <2>1, Zenon
  <2>4. f[i] <= f[j - 1]
    BY <1>2
  <2>5. \A x, y, z \in Nat : x <= y => x <= y + z
    OBVIOUS
  <2>6. f[i] <= f[j - 1] + w[j - 1]
    BY <2>3, <2>4, <2>5, Zenon
  <2> QED
    BY <2>2, <2>6, Zenon
<1> DEFINE S == {j \in Nat : j \in i..n /\ ~ Fine(j)}
<1> HIDE DEF Fine
<1>3. ASSUME S # {} PROVE FALSE
  <2>1. PICK j \in S : \A m \in S : j <= m
    BY <1>3, LeastOf
  <2>2. j \in i..n /\ j # i /\ ~ Fine(j)
    BY <1>1
  <2>3. j - 1 \in i..n
    BY <2>2
  <2>4. Fine(j - 1)
    BY <2>1, <2>3
  <2> QED
    BY <1>2, <2>2, <2>4
<1>4. n \in i..n
  OBVIOUS
<1> QED
  BY <1>3, <1>4 DEF Fine

-----------------------------------------------------------------------------
LEMMA RouteIs ==
  ASSUME NEW E, NEW a, NEW b, NEW p
  PROVE  p \in Routes(E, a, b) <=>
           \E n \in 1..N : /\ p \in [1..n -> Nodes] /\ Len(p) = n
                           /\ p[1] = a /\ p[n] = b
                           /\ \A i, j \in 1..n : p[i] = p[j] => i = j
                           /\ \A i \in 1..(n - 1) : \E l \in E : IsLeg(l, p, i)
<1>1. \A n \in 1..N : p \in [1..n -> Nodes] => p \in Seq(Nodes) /\ Len(p) = n
  BY NAssumption
<1> QED
  BY <1>1 DEF Routes, Stations

(* The costs of the airways of a route, by their places. *)
Legs(E, p) == [i \in Nat |-> IF i \in Stations(p) THEN (CHOOSE l \in E : IsLeg(l, p, i)).cost ELSE 0]

LEMMA LegsAre ==
  ASSUME NEW E \in Maps, NEW a, NEW b, NEW p \in Routes(E, a, b)
  PROVE  /\ Legs(E, p) \in [Nat -> Nat]
         /\ \A i \in Stations(p) : \A l \in E : IsLeg(l, p, i) => Legs(E, p)[i] = l.cost
<1>1. PICK n \in 1..N : /\ p \in [1..n -> Nodes] /\ Len(p) = n
                        /\ \A i \in 1..(n - 1) : \E l \in E : IsLeg(l, p, i)
  BY RouteIs
<1>2. E \subseteq Airway /\ \A l, m \in E : l.from = m.from /\ l.to = m.to => l = m
  BY MapsAssumption
<1>3. Stations(p) = 1..(n - 1) /\ Stations(p) \subseteq Nat
  BY <1>1 DEF Stations
<1>4. ASSUME NEW i \in Stations(p)
      PROVE  /\ (CHOOSE l \in E : IsLeg(l, p, i)).cost \in Nat
             /\ \A l \in E : IsLeg(l, p, i) => (CHOOSE m \in E : IsLeg(m, p, i)).cost = l.cost
  <2> DEFINE m == CHOOSE l \in E : IsLeg(l, p, i)
  <2>1. m \in E /\ IsLeg(m, p, i)
    BY <1>1, <1>3
  <2> HIDE DEF m
  <2>2. \A l \in E : IsLeg(l, p, i) => m = l
    BY <1>2, <2>1 DEF IsLeg
  <2> QED
    BY <1>2, <2>1, <2>2 DEF m, Airway
<1> QED
  BY <1>3, <1>4 DEF Legs

(* A fare is the last of the sums of a route's airways. *)
LEMMA FareIs ==
  ASSUME NEW E \in Maps, NEW a, NEW b, NEW p \in Routes(E, a, b)
  PROVE  \E f \in [1..Len(p) -> Nat] : Sums(Legs(E, p), Len(p), f) /\ Fare(E, p) = f[Len(p)]
<1> DEFINE n == Len(p)
           w == Legs(E, p)
           Is(f) == f = [i \in 1..n |->
                           IF i = 1 THEN 0
                           ELSE f[i - 1] + (CHOOSE l \in E : IsLeg(l, p, i - 1)).cost]
           g == CHOOSE f : Is(f)
<1>1. n \in 1..N /\ n \in Nat /\ N \in Nat
  BY RouteIs, NAssumption
<1>2. w \in [Nat -> Nat] /\ \A i \in 1..n : i # 1 => w[i - 1] = (CHOOSE l \in E : IsLeg(l, p, i - 1)).cost
  <2>1. w \in [Nat -> Nat]
    BY LegsAre
  <2>2. ASSUME NEW i \in 1..n, i # 1
        PROVE  w[i - 1] = (CHOOSE l \in E : IsLeg(l, p, i - 1)).cost
    <3>1. i - 1 \in Stations(p) /\ i - 1 \in Nat
      BY ONLY <1>1, <2>2 DEF Stations
    <3> QED
      BY ONLY <3>1 DEF Legs
  <2> QED
    BY <2>1, <2>2
<1>3. PICK f : f \in [1..n -> Nat] /\ Sums(w, n, f)
  BY <1>1, <1>2, SumsExist
<1>4. Is(f) /\ Sums(w, n, f)
  BY <1>2, <1>3 DEF Sums
<1>5. Is(g)
  BY <1>4
<1>6. Sums(w, n, g)
  <2> SUFFICES ASSUME NEW i \in 1..n PROVE g[i] = IF i = 1 THEN 0 ELSE g[i - 1] + w[i - 1]
    BY DEF Sums
  <2> HIDE DEF g
  <2> QED
    BY <1>2, <1>5
<1>7. Fare(E, p) = g[n]
  BY DEF Fare
<1> HIDE DEF g
<1>8. \A i \in 1..n : f[i] = g[i]
  <2> HIDE DEF w, n, Is
  <2>1. w \in [Nat -> Nat] /\ n \in Nat /\ \A i \in 1..(n - 1) : w[i] = w[i]
    BY <1>1, <1>2
  <2> QED
    BY <1>4, <1>6, <2>1, SumsAgree
<1> QED
  BY <1>1, <1>3, <1>7, <1>8

LEMMA DistanceIs ==
  ASSUME NEW E \in Maps, NEW a, NEW b
  PROVE  /\ Distance(E, a, b) \in Costs
         /\ \A p \in Routes(E, a, b) : /\ Fare(E, p) \in Costs
                                       /\ Leq(Distance(E, a, b), Fare(E, p))
         /\ \/ Distance(E, a, b) = Inf
            \/ \E p \in Routes(E, a, b) : Distance(E, a, b) = Fare(E, p)
<1> DEFINE fares == {Fare(E, p) : p \in Routes(E, a, b)}
<1>1. ASSUME NEW p \in Routes(E, a, b) PROVE Fare(E, p) \in Nat
  <2>1. Len(p) \in 1..Len(p)
    BY RouteIs
  <2>2. PICK f \in [1..Len(p) -> Nat] : Fare(E, p) = f[Len(p)]
    BY FareIs
  <2> QED
    BY <2>1, <2>2
<1>2. fares \in SUBSET Nat
  BY <1>1
<1>3. Distance(E, a, b) = IF fares = {} THEN Inf ELSE CHOOSE f \in fares : \A g \in fares : f <= g
  BY DEF Distance
<1>4. CASE fares = {}
  BY <1>3, <1>4 DEF Costs
<1>5. CASE fares # {}
  <2>1. \E f \in fares : \A g \in fares : f <= g
    BY <1>2, <1>5, LeastOf
  <2>2. Distance(E, a, b) \in fares /\ \A g \in fares : Distance(E, a, b) <= g
    BY <1>3, <1>5, <2>1
  <2>3. \A g \in fares : Leq(Distance(E, a, b), g)
    BY <1>2, <2>2 DEF Leq, Less, Inf
  <2> QED
    BY <1>1, <1>2, <2>2, <2>3 DEF Costs
<1> QED
  BY <1>4, <1>5

(* The routes from a to a node on the way, and over one more airway.        *)
LEMMA FirstRoute ==
  ASSUME NEW E \in Maps, NEW a \in Nodes
  PROVE  \E p \in Routes(E, a, a) : Fare(E, p) = 0
<1> DEFINE p == [i \in 1..1 |-> a]
<1>1. p \in [1..1 -> Nodes] /\ p[1] = a /\ 1 \in 1..N /\ p \in Seq(Nodes) /\ Len(p) = 1
  BY NAssumption
<1> HIDE DEF p
<1>2. p \in Routes(E, a, a)
  BY <1>1, RouteIs
<1>3. PICK f \in [1..1 -> Nat] : Sums(Legs(E, p), 1, f) /\ Fare(E, p) = f[1]
  BY <1>1, <1>2, FareIs
<1> QED
  BY <1>2, <1>3 DEF Sums

LEMMA EarlierRoute ==
  ASSUME NEW E \in Maps, NEW a, NEW b, NEW p \in Routes(E, a, b),
         NEW m \in Nat, m \in 1..Len(p), NEW c, p[m] = c
  PROVE  \E q \in Routes(E, a, c) : Leq(Fare(E, q), Fare(E, p))
<1>1. PICK n \in 1..N : /\ p \in [1..n -> Nodes] /\ Len(p) = n /\ p[1] = a
                        /\ \A i, j \in 1..n : p[i] = p[j] => i = j
                        /\ \A i \in 1..(n - 1) : \E l \in E : IsLeg(l, p, i)
  BY RouteIs
<1> DEFINE q == [i \in 1..m |-> p[i]]
<1>2. /\ m \in 1..N /\ q \in [1..m -> Nodes] /\ q \in Seq(Nodes) /\ Len(q) = m
      /\ \A i \in 1..m : q[i] = p[i]
  BY <1>1, NAssumption
<1> HIDE DEF q
<1>3. \A i \in 1..(m - 1) : i \in 1..(n - 1) /\ \A l \in E : IsLeg(l, q, i) <=> IsLeg(l, p, i)
  BY <1>1, <1>2 DEF IsLeg
<1>4. q \in Routes(E, a, c)
  <2>1. q[1] = a /\ q[m] = c
    BY <1>1, <1>2
  <2>2. \A i, j \in 1..m : q[i] = q[j] => i = j
    BY <1>1, <1>2
  <2>3. \A i \in 1..(m - 1) : \E l \in E : IsLeg(l, q, i)
    BY <1>1, <1>3
  <2> QED
    BY <1>2, <2>1, <2>2, <2>3, RouteIs
<1>5. \A i \in 1..(m - 1) : Legs(E, q)[i] = Legs(E, p)[i]
  <2> SUFFICES ASSUME NEW i \in 1..(m - 1) PROVE Legs(E, q)[i] = Legs(E, p)[i]
    OBVIOUS
  <2>1. PICK l \in E : IsLeg(l, p, i) /\ IsLeg(l, q, i)
    BY <1>1, <1>3
  <2>2. i \in Stations(p) /\ i \in Stations(q)
    BY <1>1, <1>2, <1>3 DEF Stations
  <2> QED
    BY <1>4, <2>1, <2>2, LegsAre
<1>6. PICK f : f \in [1..n -> Nat] /\ Sums(Legs(E, p), n, f) /\ Fare(E, p) = f[n]
  BY <1>1, FareIs
<1>7. PICK g : g \in [1..m -> Nat] /\ Sums(Legs(E, q), m, g) /\ Fare(E, q) = g[m]
  BY <1>2, <1>4, FareIs
<1>8. Sums(Legs(E, p), m, f) /\ Sums(Legs(E, q), m, g)
  BY <1>1, <1>6, <1>7 DEF Sums
<1>9. \A i \in 1..m : g[i] = f[i] /\ g[i] \in Nat
  <2>1. Legs(E, p) \in [Nat -> Nat] /\ Legs(E, q) \in [Nat -> Nat] /\ m \in Nat
    BY <1>1, <1>4, LegsAre
  <2>2. Sums(Legs(E, q), m, g)
    BY <1>8
  <2>3. Sums(Legs(E, p), m, f)
    BY <1>8
  <2> QED
    BY <1>5, <2>1, <2>2, <2>3, SumsAgree
<1>10. f[m] <= f[n]
  <2>1. Legs(E, p) \in [Nat -> Nat] /\ n \in Nat /\ m \in 1..n
    BY <1>1, LegsAre
  <2> QED
    BY <1>6, <2>1, SumsGrow
<1>11. Fare(E, q) <= Fare(E, p) /\ Fare(E, q) \in Nat /\ Fare(E, p) \in Nat
  BY <1>1, <1>6, <1>7, <1>9, <1>10
<1>12. Leq(Fare(E, q), Fare(E, p))
  BY <1>11 DEF Leq, Less, Inf
<1> QED
  BY <1>4, <1>12

LEMMA LongerRoute ==
  ASSUME NEW E \in Maps, NEW a, NEW l \in E, NEW p \in Routes(E, a, l.from),
         \A i \in 1..Len(p) : p[i] # l.to
  PROVE  \E q \in Routes(E, a, l.to) : Fare(E, q) = Plus(Fare(E, p), l.cost)
<1>1. PICK n \in 1..N : /\ p \in [1..n -> Nodes] /\ Len(p) = n /\ p[1] = a /\ p[n] = l.from
                        /\ \A i, j \in 1..n : p[i] = p[j] => i = j
                        /\ \A i \in 1..(n - 1) : \E e \in E : IsLeg(e, p, i)
  BY RouteIs
<1>2. l.from \in Nodes /\ l.to \in Nodes /\ l.cost \in Nat
  BY MapsAssumption DEF Airway
<1> DEFINE q == [i \in 1..(n + 1) |-> IF i = n + 1 THEN l.to ELSE p[i]]
<1>3. /\ n \in Nat /\ n >= 1 /\ q \in [1..(n + 1) -> Nodes] /\ q \in Seq(Nodes) /\ Len(q) = n + 1
      /\ \A i \in 1..n : q[i] = p[i] /\ q[i] # l.to
      /\ q[n + 1] = l.to
  BY <1>1, <1>2, NAssumption
<1> HIDE DEF q
<1>4. \A i, j \in 1..(n + 1) : q[i] = q[j] => i = j
  <2> SUFFICES ASSUME NEW i \in 1..(n + 1), NEW j \in 1..(n + 1), q[i] = q[j] PROVE i = j
    OBVIOUS
  <2>1. CASE i \in 1..n /\ j \in 1..n
    BY <1>1, <1>3, <2>1
  <2>2. CASE i = n + 1 /\ j \in 1..n
    BY <1>3, <2>2
  <2>3. CASE i \in 1..n /\ j = n + 1
    BY <1>3, <2>3
  <2>4. CASE i = n + 1 /\ j = n + 1
    BY <2>4
  <2>5. (i \in 1..n \/ i = n + 1) /\ (j \in 1..n \/ j = n + 1)
    BY <1>3
  <2> QED
    BY <2>1, <2>2, <2>3, <2>4, <2>5
(* The airports are no more than N. *)
<1>5. n + 1 \in 1..N
  <2>1. q \in Injection(1..(n + 1), Nodes)
    BY <1>3, <1>4 DEF Injection, IsInjective
  <2>2. /\ IsFiniteSet(Nodes) /\ Cardinality(Nodes) = N
        /\ Cardinality(1..(n + 1)) = n + 1
    <3>1. /\ 0 \in Int /\ N - 1 \in Int /\ ~ (0 > N - 1) /\ (N - 1) - 0 + 1 = N
          /\ 1 \in Int /\ n + 1 \in Int /\ ~ (1 > n + 1) /\ (n + 1) - 1 + 1 = n + 1
      BY <1>3, NAssumption
    <3>2. IsFiniteSet(Nodes) /\ Cardinality(Nodes) = N
      BY <3>1, FS_Interval DEF Nodes
    <3>3. Cardinality(1..(n + 1)) = n + 1
      BY <3>1, FS_Interval
    <3> QED
      BY <3>2, <3>3
  <2>3. Cardinality(1..(n + 1)) <= Cardinality(Nodes)
    BY <2>1, <2>2, FS_Injection
  <2> QED
    BY <1>3, <2>2, <2>3, NAssumption
<1>6. /\ \A i \in 1..(n - 1) : \A e \in E : IsLeg(e, q, i) <=> IsLeg(e, p, i)
      /\ IsLeg(l, q, n)
  BY <1>1, <1>3 DEF IsLeg
<1>7. q \in Routes(E, a, l.to)
  <2>1. \A i \in 1..n : \E e \in E : IsLeg(e, q, i)
    <3> SUFFICES ASSUME NEW i \in 1..n PROVE \E e \in E : IsLeg(e, q, i)
      OBVIOUS
    <3>1. CASE i = n
      BY <1>6, <3>1
    <3>2. CASE i # n
      <4>1. i \in 1..(n - 1)
        BY <1>3, <3>2
      <4> QED
        BY <1>1, <1>6, <4>1
    <3> QED
      BY <3>1, <3>2
  <2>2. q[1] = a /\ (n + 1) - 1 = n
    BY <1>1, <1>3
  <2> QED
    BY <1>3, <1>4, <1>5, <2>1, <2>2, RouteIs
<1>8. Stations(q) = 1..n /\ Stations(p) = 1..(n - 1)
  BY <1>1, <1>3 DEF Stations
<1>9. \A i \in 1..(n - 1) : Legs(E, q)[i] = Legs(E, p)[i]
  <2> SUFFICES ASSUME NEW i \in 1..(n - 1) PROVE Legs(E, q)[i] = Legs(E, p)[i]
    OBVIOUS
  <2>1. PICK e \in E : IsLeg(e, p, i) /\ IsLeg(e, q, i)
    BY <1>1, <1>6
  <2>2. i \in Stations(p) /\ i \in Stations(q)
    BY <1>3, <1>8
  <2> QED
    BY <1>7, <2>1, <2>2, LegsAre
<1>10. Legs(E, q)[n] = l.cost
  <2>1. n \in Stations(q)
    BY <1>3, <1>8
  <2> QED
    BY <1>6, <1>7, <2>1, LegsAre
<1>11. PICK f : f \in [1..n -> Nat] /\ Sums(Legs(E, p), n, f) /\ Fare(E, p) = f[n]
  BY <1>1, FareIs
<1>12. PICK g : g \in [1..(n + 1) -> Nat] /\ Sums(Legs(E, q), n + 1, g) /\ Fare(E, q) = g[n + 1]
  BY <1>3, <1>7, FareIs
<1>13. Sums(Legs(E, p), n, f) /\ Sums(Legs(E, q), n, g)
  BY <1>3, <1>11, <1>12 DEF Sums
<1>14. \A i \in 1..n : f[i] = g[i] /\ f[i] \in Nat
  <2>1. Legs(E, p) \in [Nat -> Nat] /\ Legs(E, q) \in [Nat -> Nat] /\ n \in Nat
    BY <1>3, <1>7, LegsAre
  <2>2. \A i \in 1..(n - 1) : Legs(E, p)[i] = Legs(E, q)[i]
    BY <1>9
  <2> QED
    BY <1>13, <2>1, <2>2, SumsAgree
<1>15. g[n + 1] = g[n] + l.cost
  <2>1. n + 1 \in 1..(n + 1) /\ n + 1 # 1 /\ (n + 1) - 1 = n
    BY <1>3
  <2>2. g[n + 1] = g[n] + Legs(E, q)[n]
    BY <1>12, <2>1 DEF Sums
  <2> QED
    BY <1>10, <2>2
<1>16. Fare(E, q) = Fare(E, p) + l.cost /\ Fare(E, p) \in Nat
  BY <1>3, <1>11, <1>12, <1>14, <1>15
<1>17. Fare(E, q) = Plus(Fare(E, p), l.cost)
  BY <1>2, <1>16 DEF Plus, Inf
<1> QED
  BY <1>7, <1>17

(* No airway undercuts the distances from a node. *)
LEMMA DistancesAreFeasible ==
  ASSUME NEW E \in Maps, NEW a \in Nodes, NEW l \in E
  PROVE  Leq(Distance(E, a, l.to), Plus(Distance(E, a, l.from), l.cost))
<1> DEFINE D(b) == Distance(E, a, b)
<1>1. l.cost \in Costs /\ D(l.to) \in Costs /\ D(l.from) \in Costs
  BY MapsAssumption, DistanceIs DEF Airway, Costs
<1>2. CASE D(l.from) = Inf
  BY <1>1, <1>2, CostOrder DEF Plus
<1>3. ASSUME NEW p \in Routes(E, a, l.from), D(l.from) = Fare(E, p)
      PROVE  Leq(D(l.to), Plus(D(l.from), l.cost))
  <2>1. CASE \A i \in 1..Len(p) : p[i] # l.to
    <3>1. PICK q \in Routes(E, a, l.to) : Fare(E, q) = Plus(Fare(E, p), l.cost)
      BY <2>1, LongerRoute
    <3> QED
      BY <1>3, <3>1, DistanceIs
  <2>2. ASSUME NEW m \in 1..Len(p), p[m] = l.to
        PROVE  Leq(D(l.to), Plus(D(l.from), l.cost))
    <3>1. PICK q \in Routes(E, a, l.to) : Leq(Fare(E, q), Fare(E, p))
      BY <2>2, EarlierRoute
    <3>2. Leq(D(l.to), Fare(E, q)) /\ Fare(E, q) \in Costs
      BY <3>1, DistanceIs
    <3>3. Leq(D(l.from), Plus(D(l.from), l.cost)) /\ Plus(D(l.from), l.cost) \in Costs
      BY <1>1, CostSum
    <3>4. Leq(D(l.to), D(l.from))
      BY <1>1, <1>3, <3>1, <3>2, CostOrder
    <3> HIDE DEF D
    <3> QED
      BY <1>1, <3>3, <3>4, CostOrder
  <2> QED
    BY <2>1, <2>2
<1> QED
  BY <1>2, <1>3, DistanceIs

(* A route costs no less than the table says of its ends. *)
LEMMA FareIsBound ==
  ASSUME TypeOK, GraphInv, TableInv, cell.k = N, NEW a \in Nodes, NEW b \in Nodes,
         NEW E \in Maps, E = graph.edges, NEW p \in Routes(E, a, b)
  PROVE  Leq(To(a, b), Fare(E, p))
<1>2. PICK n \in 1..N : /\ p \in [1..n -> Nodes] /\ Len(p) = n /\ p[1] = a /\ p[n] = b
                        /\ \A i \in 1..(n - 1) : \E l \in E : IsLeg(l, p, i)
  BY RouteIs
<1>3. PICK f \in [1..n -> Nat] : Sums(Legs(E, p), n, f) /\ Fare(E, p) = f[n]
  BY <1>2, FareIs
<1> DEFINE Fine(i) == Leq(To(a, p[i]), f[i])
           S == {i \in Nat : i \in 1..n /\ ~ Fine(i)}
<1>4. Fine(1)
  <2>1. 1 \in 1..n /\ f[1] = 0 /\ To(a, a) = 0 /\ 0 \in Costs
    BY <1>2, <1>3 DEF Sums, TableInv, Costs
  <2> QED
    BY <1>2, <2>1, CostOrder
<1>5. ASSUME NEW i \in 1..n, i # 1, Fine(i - 1) PROVE Fine(i)
  <2>1. i - 1 \in 1..(n - 1) /\ i - 1 \in 1..n /\ (i - 1) + 1 = i /\ i - 1 \in Stations(p)
    BY <1>2, <1>5 DEF Stations
  <2>2. PICK l \in E : l.from = p[i - 1] /\ l.to = p[i] /\ IsLeg(l, p, i - 1)
    BY <1>2, <2>1 DEF IsLeg
  <2>3. l.from \in Nodes /\ l.to \in Nodes /\ l.cost \in Nat
    BY MapsAssumption DEF Airway
  <2>4. f[i] = f[i - 1] + l.cost /\ f[i - 1] \in Nat
    <3>1. \A j \in Stations(p) : \A x \in E : IsLeg(x, p, j) => Legs(E, p)[j] = x.cost
      BY LegsAre
    <3>2. Legs(E, p)[i - 1] = l.cost
      BY <2>1, <2>2, <3>1
    <3> QED
      BY <1>3, <1>5, <2>1, <3>2 DEF Sums
  <2>5. PICK c \in Costs, x \in Costs : c = f[i - 1] /\ x = l.cost /\ f[i] = Plus(c, x)
    BY <2>3, <2>4 DEF Plus, Costs, Inf
  <2>6. /\ To(a, l.to) \in Costs /\ To(a, l.from) \in Costs /\ To(l.from, l.to) \in Costs
        /\ Leq(To(a, l.to), Plus(To(a, l.from), To(l.from, l.to)))
        /\ Leq(To(l.from, l.to), x) /\ Leq(To(a, l.from), c)
    BY <1>5, <2>2, <2>3, <2>5, Triangle, TableTyped DEF TableInv
  <2>7. /\ Leq(Plus(To(a, l.from), To(l.from, l.to)), Plus(c, To(l.from, l.to)))
        /\ Leq(Plus(c, To(l.from, l.to)), Plus(c, x))
        /\ Plus(To(a, l.from), To(l.from, l.to)) \in Costs
        /\ Plus(c, To(l.from, l.to)) \in Costs /\ Plus(c, x) \in Costs
    BY <2>5, <2>6, CostSum
  <2>8. Leq(To(a, l.to), Plus(c, To(l.from, l.to)))
    BY <2>6, <2>7, CostOrder
  <2>9. Leq(To(a, l.to), Plus(c, x))
    BY <2>6, <2>7, <2>8, CostOrder
  <2> QED
    BY <2>2, <2>5, <2>9
<1> HIDE DEF Fine
<1>6. ASSUME S # {} PROVE FALSE
  <2>1. PICK i \in S : \A j \in S : i <= j
    BY <1>6, LeastOf
  <2>2. i \in 1..n /\ i # 1 /\ ~ Fine(i)
    BY <1>4
  <2>3. i - 1 \in 1..n
    BY <2>2
  <2>4. Fine(i - 1)
    BY <2>1, <2>3
  <2> QED
    BY <1>5, <2>2, <2>4
<1>7. Fine(n)
  BY <1>2, <1>6
<1> QED
  BY <1>2, <1>3, <1>7 DEF Fine

(* What floydWarshall leaves is the table of the distances: each entry is   *)
(* the least sum over the routes that visit no airport twice.               *)
THEOREM TableTellsDistance == Spec => []TableIsDistance
<1>1. IInv /\ PriceInv => TableIsDistance
  <2> SUFFICES ASSUME IInv, PriceInv, phase = "dumped", NEW a \in Nodes, NEW b \in Nodes
               PROVE  To(a, b) = Distance(graph.edges, a, b)
    BY DEF TableIsDistance, To
  <2> DEFINE E == graph.edges
             d == [n \in Nodes |-> Distance(E, a, n)]
  <2>1. TypeOK /\ GraphInv /\ TableInv /\ SoundInv /\ cell.k = N /\ E \in Maps
    BY DEF IInv, PriceInv, TableInv, GraphInv
  <2>2. d \in [Nodes -> Costs] /\ d[a] \in Costs /\ d[b] = Distance(E, a, b) /\ d[b] \in Costs
    BY <2>1, DistanceIs
  <2>3. Feasible(d)
    <3>1. \A l \in E : l.from \in Nodes /\ l.to \in Nodes
      BY <2>1 DEF TypeOK, Airway
    <3> QED
      BY <2>1, <3>1, DistancesAreFeasible DEF Feasible
  <2>4. d[a] = 0
    <3>1. PICK p \in Routes(E, a, a) : Fare(E, p) = 0
      BY <2>1, FirstRoute
    <3>2. Leq(d[a], 0)
      BY <2>1, <3>1, DistanceIs
    <3> HIDE DEF d
    <3> QED
      BY <2>2, <3>2 DEF Leq, Less, Costs, Inf
  <2>5. Leq(d[b], To(a, b))
    <3>1. Leq(d[b], Plus(d[a], To(a, b))) /\ To(a, b) \in Costs
      BY <2>1, <2>2, <2>3, TableTyped DEF SoundInv
    <3> HIDE DEF d
    <3> QED
      BY <2>4, <3>1, CostSum
  <2>6. Leq(To(a, b), d[b])
    <3>1. CASE d[b] = Inf
      BY <2>1, <3>1, TableTyped, CostOrder
    <3>2. CASE d[b] # Inf
      <4>1. PICK p \in Routes(E, a, b) : d[b] = Fare(E, p)
        BY <2>1, <2>2, <3>2, DistanceIs
      <4> QED
        BY <2>1, <4>1, FareIsBound
    <3> QED
      BY <3>1, <3>2
  <2> QED
    BY <2>1, <2>2, <2>5, <2>6, TableTyped, CostOrder
<1> QED
  BY <1>1, PriceInvariance, PTL

-----------------------------------------------------------------------------
(* Where the maps come from: what MapGen draws.                            *)

LEMMA PairIs ==
  ASSUME NEW A, NEW B, NEW p \in A \X B
  PROVE  p = <<p[1], p[2]>> /\ p[1] \in A /\ p[2] \in B
OBVIOUS

(* A finite set with a total order has a first element. *)
LEMMA FirstChoice ==
  ASSUME NEW S, IsFiniteSet(S), S # {}, NEW R,
         \A i, j \in S : i = j \/ <<i, j>> \in R \/ <<j, i>> \in R,
         \A i, j, k \in S : <<i, j>> \in R /\ <<j, k>> \in R => <<i, k>> \in R
  PROVE  \E i \in S : \A j \in S : j = i \/ <<i, j>> \in R
<1> DEFINE HasFirst(T) == \E i \in T : \A j \in T : j = i \/ <<i, j>> \in R
           Wrong == {n \in Nat : \E T \in SUBSET S : T # {} /\ Cardinality(T) = n /\ ~ HasFirst(T)}
<1>1. ASSUME NEW T \in SUBSET S, NEW x \in T, T \ {x} # {} => HasFirst(T \ {x})
      PROVE  HasFirst(T)
  <2>1. CASE T \ {x} = {}
    BY <2>1
  <2>2. CASE T \ {x} # {}
    <3>1. PICK m \in T \ {x} : \A j \in T \ {x} : j = m \/ <<m, j>> \in R
      BY <1>1, <2>2
    <3>2. CASE <<m, x>> \in R
      BY <3>1, <3>2
    <3>3. CASE <<x, m>> \in R
      <4>1. \A j \in T : j = x \/ <<x, j>> \in R
        BY <3>1, <3>3
      <4> QED
        BY <4>1
    <3> QED
      BY <3>1, <3>2, <3>3
  <2> QED
    BY <2>1, <2>2
<1> HIDE DEF HasFirst
<1>2. ASSUME Wrong # {} PROVE FALSE
  <2>1. PICK n \in Wrong : \A m \in Wrong : n <= m
    BY <1>2, LeastOf
  <2>2. PICK T \in SUBSET S : T # {} /\ Cardinality(T) = n /\ ~ HasFirst(T)
    BY <2>1
  <2>3. PICK x \in T : TRUE
    BY <2>2
  <2> PICK U : U = T \ {x}
    OBVIOUS
  <2>4. U \in SUBSET S /\ U # {} /\ ~ HasFirst(U)
    BY <1>1, <2>2, <2>3
  <2>5. IsFiniteSet(T) /\ IsFiniteSet(U)
    BY <2>4, FS_Subset
  <2>6. Cardinality(U) = n - 1 /\ Cardinality(U) \in Nat
    BY <2>2, <2>3, <2>5, FS_RemoveElement, FS_CardinalityType
  <2>7. Cardinality(U) \in Wrong /\ n \in Nat
    BY <2>4, <2>6
  <2> HIDE DEF Wrong
  <2>8. n <= Cardinality(U)
    BY <2>1, <2>7
  <2> QED
    BY <2>6, <2>7, <2>8
<1>3. HasFirst(S)
  <2>1. Cardinality(S) \in Nat
    BY FS_CardinalityType
  <2> QED
    BY <1>2, <2>1
<1> QED
  BY <1>3 DEF HasFirst

(* The pairs are in the order of the rows of the table. *)
LEMMA FirstIs ==
  ASSUME Airports \subseteq Nat, NEW S \in SUBSET (Airports \X Airports), IsFiniteSet(S), S # {}
  PROVE  /\ First(S) \in S
         /\ \A q \in S : q = First(S) \/ Before(First(S), q)
<1> DEFINE R == {r \in S \X S : Before(r[1], r[2])}
<1>1. \A p \in S : p = <<p[1], p[2]>> /\ p[1] \in Nat /\ p[2] \in Nat
  <2> TAKE p \in S
  <2>1. p \in Airports \X Airports
    OBVIOUS
  <2>2. p = <<p[1], p[2]>> /\ p[1] \in Airports /\ p[2] \in Airports
    BY <2>1, PairIs
  <2> QED
    BY <2>2
<1>2. \A p, q \in S : <<p, q>> \in R <=> Before(p, q)
  <2> TAKE p, q \in S
  <2> PICK r : r = <<p, q>>
    OBVIOUS
  <2>1. r \in S \X S /\ r[1] = p /\ r[2] = q
    OBVIOUS
  <2>2. r \in R <=> Before(r[1], r[2])
    BY <2>1
  <2> QED
    BY <2>1, <2>2
<1>3. \A p, q \in S : p = q \/ Before(p, q) \/ Before(q, p)
  <2> SUFFICES ASSUME NEW p \in S, NEW q \in S, ~ Before(p, q), ~ Before(q, p) PROVE p = q
    OBVIOUS
  <2>1. p[1] = q[1] /\ p[2] = q[2]
    BY <1>1 DEF Before
  <2> QED
    BY <1>1, <2>1
<1>4. \A p, q, r \in S : Before(p, q) /\ Before(q, r) => Before(p, r)
  BY <1>1 DEF Before
<1> HIDE DEF R
<1>5. \E p \in S : \A q \in S : q = p \/ <<p, q>> \in R
  BY <1>2, <1>3, <1>4, FirstChoice
<1>6. \E p \in S : \A q \in S : q = p \/ Before(p, q)
  BY <1>2, <1>5
<1> QED
  BY <1>6 DEF First

(* Fractions, compared by their products. *)
LEMMA Ratios ==
  ASSUME NEW a \in Nat, NEW b \in Nat, NEW c \in Nat,
         NEW f \in Nat \ {0}, NEW g \in Nat \ {0}, NEW h \in Nat \ {0},
         a * g <= b * f, b * h <= c * g
  PROVE  /\ a * h <= c * f
         /\ a * g < b * f \/ b * h < c * g => a * h < c * f
<1>1. (a * g) * h <= (b * f) * h /\ (a * g < b * f => (a * g) * h < (b * f) * h)
  OBVIOUS
<1>2. (b * h) * f <= (c * g) * f /\ (b * h < c * g => (b * h) * f < (c * g) * f)
  OBVIOUS
<1>3. /\ (a * g) * h = (a * h) * g /\ (b * f) * h = (b * h) * f /\ (c * g) * f = (c * f) * g
  OBVIOUS
<1> DEFINE x == a * h
           y == c * f
<1>4. x \in Nat /\ y \in Nat
  OBVIOUS
<1>5. x * g <= y * g /\ (a * g < b * f \/ b * h < c * g => x * g < y * g)
  BY <1>1, <1>2, <1>3
<1> HIDE DEF x, y
<1>6. (x * g <= y * g => x <= y) /\ (x * g < y * g => x < y)
  BY <1>4
<1>7. x <= y /\ (a * g < b * f \/ b * h < c * g => x < y)
  BY <1>5, <1>6
<1> QED
  BY <1>7 DEF x, y

(* Of the intermediaries of a pair, one is taken. *)
LEMMA NearestIs ==
  ASSUME world \in World, NEW p \in nodes \X nodes, Intermediaries(p) # {}
  PROVE  Nearest(p) \in Intermediaries(p)
<1> DEFINE S == Intermediaries(p)
           to == p[2]
           burn(i) == world.burns[<<i, to>>]
           Ahead(i, j) == Preferred(i, j, to) \/ (~ Preferred(j, i, to) /\ i < j)
           R == {r \in S \X S : Ahead(r[1], r[2])}
<1>1. /\ S \subseteq Airports /\ Airports \subseteq Nat /\ IsFiniteSet(S) /\ to \in Airports
      /\ \A i \in S : burn(i) \in Nat /\ world.fuel[i] \in Nat \ {0}
  <2>1. S \in SUBSET Airports /\ to \in Airports /\ Airports \subseteq Nat /\ IsFiniteSet(Airports)
    BY AirportsAssumption DEF Intermediaries, nodes, World
  <2>2. IsFiniteSet(S)
    BY <2>1, FS_Subset
  <2>3. \A i \in Airports : burn(i) \in Nat /\ world.fuel[i] \in Nat \ {0}
    BY <2>1 DEF World
  <2> HIDE DEF S
  <2> QED
    BY <2>1, <2>2, <2>3
<1>2. \A i, j : Preferred(i, j, to) <=> burn(i) * world.fuel[j] < burn(j) * world.fuel[i]
  BY DEF Preferred
<1> HIDE DEF S, burn, to
<1>3. \A i, j \in S : <<i, j>> \in R <=> Ahead(i, j)
  <2> TAKE i, j \in S
  <2> PICK r : r = <<i, j>>
    OBVIOUS
  <2>1. r \in S \X S /\ r[1] = i /\ r[2] = j
    OBVIOUS
  <2> HIDE DEF Ahead
  <2>2. r \in R <=> Ahead(r[1], r[2])
    BY <2>1
  <2> QED
    BY <2>1, <2>2
<1>4. \A i, j \in S : i = j \/ Ahead(i, j) \/ Ahead(j, i)
  <2> TAKE i, j \in S
  <2>1. i \in Nat /\ j \in Nat
    BY <1>1
  <2>2. i = j \/ i < j \/ j < i
    BY <2>1
  <2> QED
    BY <2>2
<1>5. ASSUME NEW i \in S, NEW j \in S, NEW k \in S, Ahead(i, j), Ahead(j, k)
      PROVE  Ahead(i, k)
  <2> PICK a, b, c, f, g, h : /\ a = burn(i) /\ b = burn(j) /\ c = burn(k)
                              /\ f = world.fuel[i] /\ g = world.fuel[j] /\ h = world.fuel[k]
    OBVIOUS
  <2>1. /\ a \in Nat /\ b \in Nat /\ c \in Nat
        /\ f \in Nat \ {0} /\ g \in Nat \ {0} /\ h \in Nat \ {0}
        /\ i \in Nat /\ j \in Nat /\ k \in Nat
    BY <1>1
  <2>2. /\ a * g \in Nat /\ b * f \in Nat /\ b * h \in Nat /\ c * g \in Nat
        /\ a * h \in Nat /\ c * f \in Nat
    BY <2>1
  <2>3. /\ Preferred(i, j, to) <=> a * g < b * f
        /\ Preferred(j, i, to) <=> b * f < a * g
        /\ Preferred(j, k, to) <=> b * h < c * g
        /\ Preferred(k, j, to) <=> c * g < b * h
        /\ Preferred(i, k, to) <=> a * h < c * f
        /\ Preferred(k, i, to) <=> c * f < a * h
    BY <1>2
  <2>4. a * g <= b * f /\ b * h <= c * g
    <3>1. ~ Preferred(j, i, to) /\ ~ Preferred(k, j, to)
      <4>1. Preferred(i, j, to) \/ ~ Preferred(j, i, to)
        BY <1>5
      <4>2. Preferred(j, k, to) \/ ~ Preferred(k, j, to)
        BY <1>5
      <4> QED
        BY <2>2, <2>3, <4>1, <4>2
    <3> QED
      BY <2>2, <2>3, <3>1
  <2>5. /\ a * h <= c * f
        /\ a * g < b * f \/ b * h < c * g => a * h < c * f
    BY ONLY <2>1, <2>4, Ratios
  <2>6. CASE a * g < b * f \/ b * h < c * g
    BY <2>3, <2>5, <2>6
  <2>7. CASE ~ (a * g < b * f \/ b * h < c * g)
    <3>1. i < j /\ j < k
      BY <1>5, <2>3, <2>7
    <3>2. i < k
      BY <2>1, <3>1
    <3>3. ~ (c * f < a * h)
      BY <2>2, <2>5
    <3> QED
      BY <2>3, <3>2, <3>3
  <2> QED
    BY <2>6, <2>7
<1> HIDE DEF R, Ahead
<1>6. \E i \in S : \A j \in S : j = i \/ <<i, j>> \in R
  <2>1. \A i, j \in S : i = j \/ <<i, j>> \in R \/ <<j, i>> \in R
    BY <1>3, <1>4
  <2>2. \A i, j, k \in S : <<i, j>> \in R /\ <<j, k>> \in R => <<i, k>> \in R
    BY <1>3, <1>5
  <2>3. IsFiniteSet(S) /\ S # {}
    BY <1>1 DEF S
  <2> QED
    BY ONLY <2>3, <2>1, <2>2, FirstChoice
<1>7. \E i \in S : \A j \in S \ {i} : Ahead(i, j)
  BY <1>3, <1>6
<1> QED
  BY <1>7 DEF Nearest, Ahead, S, to

-----------------------------------------------------------------------------
(* The pairs that floydWarshall connects: the least relation that has the  *)
(* airways and is closed under going by way of an airport.                 *)

Start(E) == {<<n, n>> : n \in nodes} \cup {Ends(E[i]) : i \in DOMAIN E}

ClosedAt(R, K) == \A k \in K : \A a, b : <<a, k>> \in R /\ <<k, b>> \in R => <<a, b>> \in R

Via(B, K) ==
  {p \in nodes \X nodes :
     \A R \in SUBSET (nodes \X nodes) : B \subseteq R /\ ClosedAt(R, K) => p \in R}

LEMMA ViaIsClosed ==
  ASSUME NEW B \in SUBSET (nodes \X nodes), NEW K
  PROVE  B \subseteq Via(B, K) /\ ClosedAt(Via(B, K), K)
<1>1. B \subseteq Via(B, K)
  BY DEF Via
<1>2. ASSUME NEW k \in K, NEW a, NEW b, <<a, k>> \in Via(B, K), <<k, b>> \in Via(B, K)
      PROVE  <<a, b>> \in Via(B, K)
  <2>1. <<a, b>> \in nodes \X nodes
    BY <1>2 DEF Via
  <2>2. ASSUME NEW R \in SUBSET (nodes \X nodes), B \subseteq R, ClosedAt(R, K)
        PROVE  <<a, b>> \in R
    BY <1>2, <2>2 DEF Via, ClosedAt
  <2> QED
    BY <2>1, <2>2 DEF Via
<1> QED
  BY <1>1, <1>2 DEF ClosedAt

LEMMA ViaNone ==
  ASSUME NEW B \in SUBSET (nodes \X nodes)
  PROVE  Via(B, {}) = B
BY DEF Via, ClosedAt

(* One airport more is one pass of the loop. *)
LEMMA ViaOneMore ==
  ASSUME NEW B \in SUBSET (nodes \X nodes), NEW K, NEW k
  PROVE  Via(B, K \cup {k}) = Through(k, Via(B, K))
<1> DEFINE V == Via(B, K)
           W == Via(B, K \cup {k})
           T == Through(k, V)
<1>1. \A a, b : <<a, b>> \in T <=> (<<a, b>> \in V \/ (<<a, k>> \in V /\ <<k, b>> \in V))
  <2>1. \A a, b : <<a, b>> \in V => <<a, b>> \in nodes \X nodes
    BY DEF Via
  <2>2. \A a, b : <<a, k>> \in V /\ <<k, b>> \in V => <<a, b>> \in nodes \X nodes
    BY <2>1
  <2> HIDE DEF V
  <2> PICK D : D = nodes \X nodes
    OBVIOUS
  <2>3. T = V \cup {p \in D : <<p[1], k>> \in V /\ <<k, p[2]>> \in V}
    BY DEF Through
  <2>4. \A a, b : <<a, b>> \in {p \in D : <<p[1], k>> \in V /\ <<k, p[2]>> \in V}
                  <=> <<a, b>> \in D /\ <<a, k>> \in V /\ <<k, b>> \in V
    OBVIOUS
  <2> HIDE DEF T
  <2> QED
    BY <2>2, <2>3, <2>4
<1>2. B \subseteq V /\ ClosedAt(V, K) /\ B \subseteq W /\ ClosedAt(W, K \cup {k})
  BY ViaIsClosed
<1>3. V \subseteq nodes \X nodes /\ W \subseteq nodes \X nodes
  BY DEF Via
<1>4. T \subseteq nodes \X nodes
  BY <1>3 DEF Through
<1>5. V \subseteq W
  <2>1. ClosedAt(W, K)
    BY <1>2 DEF ClosedAt
  <2> HIDE DEF W
  <2> QED
    BY <1>2, <1>3, <2>1 DEF Via
<1> HIDE DEF V, W, T
<1>6. T \subseteq W
  <2> SUFFICES ASSUME NEW p \in T PROVE p \in W
    OBVIOUS
  <2>1. PICK a, b : p = <<a, b>>
    BY <1>4
  <2> QED
    BY <1>1, <1>2, <1>5, <2>1 DEF ClosedAt
<1>7. ClosedAt(T, K \cup {k})
  <2> SUFFICES ASSUME NEW j \in K \cup {k}, NEW a, NEW b, <<a, j>> \in T, <<j, b>> \in T
               PROVE  <<a, b>> \in T
    BY DEF ClosedAt
  <2>1. CASE j = k
    BY <1>1, <2>1
  <2>2. CASE j \in K
    <3>1. \A x, y : <<x, j>> \in V /\ <<j, y>> \in V => <<x, y>> \in V
      BY <1>2, <2>2 DEF ClosedAt
    <3> QED
      BY <1>1, <3>1
  <2> QED
    BY <2>1, <2>2
<1>8. B \subseteq T
  BY <1>2 DEF T, Through
<1>9. W \subseteq T
  BY <1>4, <1>7, <1>8 DEF W, Via
<1> QED
  BY <1>6, <1>9 DEF V, W, T

(* The fold over the airports, in any order. *)
Passes(B, S, it) ==
  it = [s \in SUBSET S |->
          IF s = {} THEN B
          ELSE Through(CHOOSE x \in s : TRUE, it[s \ {CHOOSE x \in s : TRUE}])]

LEMMA ConnectedIs ==
  ASSUME IsFiniteSet(nodes), NEW E, Start(E) \subseteq nodes \X nodes
  PROVE  Connected(E) = Via(Start(E), nodes)
<1> DEFINE B == Start(E)
           S == nodes
           f == [s \in SUBSET S |-> Via(B, s)]
           it == CHOOSE g : Passes(B, S, g)
           some(s) == CHOOSE x \in s : TRUE
<1>1. Connected(E) = it[S]
  BY DEF Connected, FoldSet, MapThenFoldSet, Passes, Start
<1>2. ASSUME NEW s \in SUBSET S, s # {}
      PROVE  /\ some(s) \in s /\ s \ {some(s)} \in SUBSET S
             /\ Via(B, s) = Through(some(s), Via(B, s \ {some(s)}))
  <2> PICK x : x = some(s)
    OBVIOUS
  <2>1. x \in s
    BY <1>2
  <2> PICK t : t = s \ {x}
    OBVIOUS
  <2>2. s = t \cup {x}
    BY <2>1
  <2>3. Via(B, t \cup {x}) = Through(x, Via(B, t))
    <3> PICK C : C = B
      OBVIOUS
    <3>1. C \in SUBSET (nodes \X nodes)
      OBVIOUS
    <3>2. Via(C, t \cup {x}) = Through(x, Via(C, t))
      BY ONLY <3>1, ViaOneMore
    <3> QED
      BY <3>2
  <2> QED
    BY <2>1, <2>2, <2>3
<1> HIDE DEF B, S, some
<1>3. Via(B, {}) = B
  BY ViaNone DEF B
<1>4. Passes(B, S, f)
  <2>1. ASSUME NEW s \in SUBSET S
        PROVE  Via(B, s) = IF s = {} THEN B ELSE Through(some(s), f[s \ {some(s)}])
    BY <1>2, <1>3
  <2> QED
    BY <2>1 DEF Passes, some
<1>5. Passes(B, S, it)
  BY <1>4
<1> HIDE DEF it, f
<1>6. \A s \in SUBSET S :
        it[s] = IF s = {} THEN B ELSE Through(some(s), it[s \ {some(s)}])
  BY <1>5, Zenon DEF Passes, some
<1> DEFINE Wrong == {n \in Nat : \E s \in SUBSET S : Cardinality(s) = n /\ it[s] # Via(B, s)}
<1>7. ASSUME Wrong # {} PROVE FALSE
  <2>1. PICK n \in Wrong : \A m \in Wrong : n <= m
    BY <1>7, LeastOf
  <2>2. PICK s \in SUBSET S : Cardinality(s) = n /\ it[s] # Via(B, s)
    BY <2>1
  <2>3. s # {}
    BY <1>3, <1>6, <2>2
  <2> PICK x, t : x = some(s) /\ t = s \ {x}
    OBVIOUS
  <2>4. x \in s /\ t \in SUBSET S /\ Via(B, s) = Through(x, Via(B, t))
    BY <1>2, <2>3
  <2>5. it[t] # Via(B, t)
    BY <1>6, <2>2, <2>3, <2>4
  <2>6. IsFiniteSet(s) /\ IsFiniteSet(t)
    BY <2>4, FS_Subset DEF S
  <2>7. Cardinality(t) = n - 1 /\ Cardinality(t) \in Nat
    BY <2>2, <2>4, <2>6, FS_RemoveElement, FS_CardinalityType
  <2>8. Cardinality(t) \in Wrong /\ n \in Nat
    BY <2>4, <2>5, <2>7
  <2> HIDE DEF Wrong
  <2>9. n <= Cardinality(t)
    BY <2>1, <2>8
  <2> QED
    BY <2>7, <2>8, <2>9
<1>8. it[S] = Via(B, S)
  <2>1. Cardinality(S) \in Nat
    BY FS_CardinalityType DEF S
  <2> QED
    BY <1>7, <2>1
<1> QED
  BY <1>1, <1>8 DEF B, S

-----------------------------------------------------------------------------
(* What holds of the map while it is drawn. *)

FlightsAreFlown == \A p \in flights : p \in nodes \X nodes /\ Flies(p[1], p[2])

AirwaysAreFlown ==
  \A i \in DOMAIN airways :
    Ends(airways[i]) \in nodes \X nodes /\ airways[i].from # airways[i].to

CheapestFirst ==
  stage = "link" =>
    /\ \A a \in nodes : Cardinality(Neighbors(a)) <= MaxDegree(a)
    /\ \A i \in DOMAIN airways :
         /\ Ends(airways[i]) \notin flights
         /\ \A p \in flights : CostApprox(Ends(airways[i])) <= CostApprox(p)

(* A pair with a direct flight is followed by another one that is apart.   *)
NotTheLast(p) ==
  Flies(p[1], p[2]) => \E q \in Unreached(reached) : Before(p, q)

(* The pairs that were looked at since the last repair cannot be repaired. *)
ScannedInOrder ==
  /\ stage # "link" => reached = Via(Start(airways), nodes)
  /\ stage = "repair" =>
       /\ bad \in Unreached(reached)
       /\ \A q \in Unreached(reached) : Before(q, bad) => Intermediaries(q) = {}
  /\ stage = "given_up" =>
       \A q \in Unreached(reached) : Intermediaries(q) = {} /\ NotTheLast(q)
  /\ stage = "connected" => Unreached(reached) = {}

DrawnInv ==
  /\ world \in Worlds /\ MapTypeOK
  /\ FlightsAreFlown
  /\ AirwaysAreFlown /\ AirwaysAreDistinct
  /\ CheapestFirst /\ CheapestAreLinked
  /\ ScannedInOrder

LEMMA FieldsAreFinite ==
  ASSUME world \in World
  PROVE  /\ nodes \subseteq Airports /\ Airports \subseteq Nat
         /\ IsFiniteSet(nodes) /\ IsFiniteSet(nodes \X nodes)
<1>1. nodes \in SUBSET Airports /\ Airports \subseteq Nat /\ IsFiniteSet(Airports)
  BY AirportsAssumption DEF nodes, World
<1>2. IsFiniteSet(nodes)
  BY <1>1, FS_Subset
<1>3. IsFiniteSet(nodes \X nodes)
  BY <1>2, FS_Product
<1> QED
  BY <1>1, <1>2, <1>3

LEMMA OneMore ==
  ASSUME NEW A, NEW E \in Seq(A), NEW x \in A, NEW F, F = Append(E, x)
  PROVE  /\ F \in Seq(A) /\ DOMAIN F = DOMAIN E \cup {Len(E) + 1}
         /\ Len(E) + 1 \notin DOMAIN E
         /\ \A i \in DOMAIN E : F[i] = E[i]
         /\ F[Len(E) + 1] = x
OBVIOUS

(* An airway that can be flown. *)
LEMMA NewEnds ==
  ASSUME MapTypeOK, NEW a \in Airports, NEW b \in Airports, NEW c \in Nat \ {0}, Flies(a, b)
  PROVE  /\ NewAirway(a, b, c) \in PricedAirway
         /\ Ends(NewAirway(a, b, c)) = <<a, b>>
         /\ NewAirway(a, b, c).from = a /\ NewAirway(a, b, c).to = b
<1>1. world.burns[<<a, b>>] \in Nat \ {0}
  BY DEF MapTypeOK, World, Flies
<1> QED
  BY <1>1 DEF NewAirway, PricedAirway, Ends

LEMMA DrawnFirst ==
  ASSUME MapInit
  PROVE  DrawnInv
<1>1. world \in World
  BY WorldsAssumption DEF MapInit
<1>2. flights = {p \in nodes \X nodes : Flies(p[1], p[2])}
  BY DEF MapInit
<1>3. nodes \subseteq Airports
  BY <1>1, FieldsAreFinite
<1>4. MapTypeOK /\ FlightsAreFlown
  BY <1>1, <1>2, <1>3 DEF MapInit, MapTypeOK, FlightsAreFlown
<1>5. AirwaysAreFlown /\ AirwaysAreDistinct /\ ScannedInOrder /\ CheapestAreLinked
  BY <1>2 DEF MapInit, AirwaysAreFlown, AirwaysAreDistinct, ScannedInOrder, CheapestAreLinked
<1>6. CheapestFirst
  <2>1. ASSUME NEW a \in nodes PROVE Cardinality(Neighbors(a)) <= MaxDegree(a)
    <3>1. Neighbors(a) = {}
      BY DEF MapInit, Neighbors
    <3>2. Cardinality(Neighbors(a)) = 0
      BY <3>1, FS_EmptySet
    <3>3. MaxDegree(a) \in Nat
      BY <1>1 DEF MaxDegree, World
    <3> QED
      BY <3>2, <3>3
  <2> QED
    BY <2>1 DEF MapInit, CheapestFirst
<1> QED
  BY <1>4, <1>5, <1>6 DEF DrawnInv, MapInit

(* The flight on top of the queue. *)
LEMMA DrawnByLinks ==
  ASSUME DrawnInv, LinkNext
  PROVE  DrawnInv'
<1> PICK p \in flights :
      /\ \A q \in flights : CostApprox(p) <= CostApprox(q)
      /\ flights' = flights \ {p}
      /\ airways' = IF Cardinality(Neighbors(p[1])) < MaxDegree(p[1])
                    THEN Append(airways, NewAirway(p[1], p[2], world.fuel[p[1]])) ELSE airways
  BY DEF LinkNext
<1>1. /\ stage = "link" /\ stage' = stage /\ world' = world /\ reached' = reached /\ bad' = bad
      /\ MapTypeOK
  BY DEF LinkNext, DrawnInv
<1>2. p \in nodes \X nodes /\ p = <<p[1], p[2]>> /\ Flies(p[1], p[2])
      /\ p[1] \in nodes /\ p[2] \in nodes /\ nodes \subseteq Airports
  <2>1. p \in nodes \X nodes /\ Flies(p[1], p[2])
    BY DEF DrawnInv, FlightsAreFlown
  <2>2. nodes \subseteq Airports
    BY <1>1, FieldsAreFinite DEF MapTypeOK
  <2> QED
    BY <2>1, <2>2, PairIs
<1> PICK new : new = NewAirway(p[1], p[2], world.fuel[p[1]])
  OBVIOUS
<1>3. new \in PricedAirway /\ Ends(new) = p /\ new.from = p[1] /\ new.to = p[2]
  <2>1. world.fuel[p[1]] \in Nat \ {0}
    BY <1>1, <1>2 DEF MapTypeOK, World
  <2> QED
    BY <1>1, <1>2, <2>1, NewEnds
<1>4. new.from # new.to
  <2>1. world.burns[<<p[1], p[1]>>] = 0
    BY <1>2, WorldsAssumption DEF DrawnInv
  <2> QED
    BY <1>2, <1>3, <2>1 DEF Flies
<1>5. airways \in Seq(PricedAirway) /\ flights \in SUBSET (Airports \X Airports)
  BY <1>1 DEF MapTypeOK
<1>6. world' \in Worlds /\ FlightsAreFlown' /\ ScannedInOrder'
  BY <1>1 DEF DrawnInv, FlightsAreFlown, ScannedInOrder, nodes, Flies
<1>7. \A i \in DOMAIN airways :
        /\ Ends(airways[i]) \in nodes \X nodes /\ airways[i].from # airways[i].to
        /\ Ends(airways[i]) \notin flights
        /\ \A q \in flights : CostApprox(Ends(airways[i])) <= CostApprox(q)
        /\ \A j \in DOMAIN airways : Ends(airways[i]) = Ends(airways[j]) => i = j
  BY <1>1 DEF DrawnInv, AirwaysAreFlown, CheapestFirst, AirwaysAreDistinct
<1>8. \A a \in nodes : Cardinality(Neighbors(a)) <= MaxDegree(a)
  BY <1>1 DEF DrawnInv, CheapestFirst
<1>9. \A q \in nodes \X nodes :
        Flies(q[1], q[2]) /\ q \notin flights /\ ~ IsLinked(q) =>
          /\ Cardinality(Neighbors(q[1])) = MaxDegree(q[1])
          /\ \A i \in Neighbors(q[1]) : CostApprox(Ends(airways[i])) <= CostApprox(q)
  BY <1>1 DEF DrawnInv, CheapestAreLinked
<1>10. \A a \in nodes :
         MaxDegree(a) \in Nat /\ Cardinality(Neighbors(a)) \in Nat
           /\ Neighbors(a) \subseteq DOMAIN airways /\ IsFiniteSet(Neighbors(a))
  <2> TAKE a \in nodes
  <2>1. Neighbors(a) \in SUBSET (1..Len(airways))
    BY <1>5 DEF Neighbors
  <2>2. IsFiniteSet(1..Len(airways))
    BY <1>5, FS_Interval
  <2>3. IsFiniteSet(Neighbors(a))
    BY <2>1, <2>2, FS_Subset
  <2>4. MaxDegree(a) \in Nat
    BY <1>1 DEF MaxDegree, World, MapTypeOK
  <2> QED
    BY <1>5, <2>1, <2>3, <2>4, FS_CardinalityType
<1>11. /\ nodes' = nodes
       /\ \A q : CostApprox(q)' = CostApprox(q)
       /\ \A a : MaxDegree(a)' = MaxDegree(a)
       /\ \A a, b : Flies(a, b)' = Flies(a, b)
  BY <1>1 DEF nodes, CostApprox, MaxDegree, Flies
<1>12. CASE Cardinality(Neighbors(p[1])) < MaxDegree(p[1])
  <2>1. airways' = Append(airways, new)
    BY <1>12
  <2> PICK n : n = Len(airways) + 1
    OBVIOUS
  <2>2. /\ airways' \in Seq(PricedAirway) /\ DOMAIN airways' = DOMAIN airways \cup {n}
        /\ n \notin DOMAIN airways /\ airways'[n] = new
        /\ \A i \in DOMAIN airways : airways'[i] = airways[i]
    BY <1>3, <1>5, <2>1, OneMore
  <2>3. MapTypeOK'
    BY <1>1, <2>2 DEF MapTypeOK
  <2>4. AirwaysAreFlown' /\ AirwaysAreDistinct'
    <3>1. \A i \in DOMAIN airways : Ends(airways'[i]) = Ends(airways[i])
      BY <2>2
    <3>2. Ends(airways'[n]) = p
      BY <1>3, <2>2
    <3>3. AirwaysAreFlown'
      BY <1>2, <1>4, <1>7, <1>11, <2>2, <3>1, <3>2 DEF AirwaysAreFlown
    <3>4. AirwaysAreDistinct'
      BY <1>7, <2>2, <3>1, <3>2 DEF AirwaysAreDistinct
    <3> QED
      BY <3>3, <3>4
  <2>5. \A a \in nodes :
          /\ Neighbors(a)' = IF a = p[1] THEN Neighbors(a) \cup {n} ELSE Neighbors(a)
          /\ n \notin Neighbors(a)
    BY <1>3, <2>2 DEF Neighbors
  <2>6. CheapestFirst'
    <3>1. ASSUME NEW a \in nodes
          PROVE  Cardinality(Neighbors(a)') <= MaxDegree(a)
      <4>1. CASE a = p[1]
        <5>1. Cardinality(Neighbors(a) \cup {n}) = Cardinality(Neighbors(a)) + 1
          BY <1>10, <2>5, FS_AddElement
        <5>2. Neighbors(a)' = Neighbors(a) \cup {n}
          BY <2>5, <4>1
        <5>3. Cardinality(Neighbors(a) \cup {n}) = Cardinality(Neighbors(a)) + 1
          BY <5>1
        <5>4. Cardinality(Neighbors(a)) < MaxDegree(a)
          BY <1>12, <4>1
        <5> QED
          BY <1>10, <5>2, <5>3, <5>4
      <4>2. CASE a # p[1]
        BY <1>8, <2>5, <4>2
      <4> QED
        BY <4>1, <4>2
    <3>2. \A i \in DOMAIN airways' :
            /\ Ends(airways'[i]) \notin flights'
            /\ \A q \in flights' : CostApprox(Ends(airways'[i])) <= CostApprox(q)
      BY <1>3, <1>7, <2>2
    <3> QED
      BY <1>1, <1>11, <3>1, <3>2 DEF CheapestFirst
  <2>7. CheapestAreLinked'
    <3> SUFFICES ASSUME NEW q \in nodes \X nodes, Flies(q[1], q[2]),
                        q \notin flights', ~ IsLinked(q)'
                 PROVE  /\ Cardinality(Neighbors(q[1])') = MaxDegree(q[1])
                        /\ \A i \in Neighbors(q[1])' :
                             CostApprox(Ends(airways'[i])) <= CostApprox(q)
      BY <1>1, <1>11 DEF CheapestAreLinked
    <3>1. q # p /\ ~ IsLinked(q)
      BY <1>3, <2>2 DEF IsLinked
    <3>2. q[1] \in nodes
      OBVIOUS
    <3>3. /\ Cardinality(Neighbors(q[1])) = MaxDegree(q[1])
          /\ \A i \in Neighbors(q[1]) : CostApprox(Ends(airways[i])) <= CostApprox(q)
      BY <1>9, <3>1
    <3>4. q[1] # p[1]
      BY <1>10, <1>12, <3>2, <3>3
    <3>5. Neighbors(q[1])' = Neighbors(q[1]) /\ Neighbors(q[1]) \subseteq DOMAIN airways
      BY <1>10, <2>5, <3>2, <3>4
    <3> QED
      BY <2>2, <3>3, <3>5
  <2> QED
    BY <1>6, <2>3, <2>4, <2>6, <2>7 DEF DrawnInv
<1>13. CASE ~ (Cardinality(Neighbors(p[1])) < MaxDegree(p[1]))
  <2>1. airways' = airways
    BY <1>13
  <2>2. MapTypeOK' /\ AirwaysAreFlown' /\ AirwaysAreDistinct'
    BY <1>1, <1>11, <2>1 DEF DrawnInv, MapTypeOK, AirwaysAreFlown, AirwaysAreDistinct
  <2>3. \A a : Neighbors(a)' = Neighbors(a)
    BY <2>1 DEF Neighbors
  <2>4. CheapestFirst'
    BY <1>1, <1>7, <1>8, <1>11, <2>1, <2>3 DEF CheapestFirst
  <2>5. CheapestAreLinked'
    <3> SUFFICES ASSUME NEW q \in nodes \X nodes, Flies(q[1], q[2]),
                        q \notin flights', ~ IsLinked(q)'
                 PROVE  /\ Cardinality(Neighbors(q[1])) = MaxDegree(q[1])
                        /\ \A i \in Neighbors(q[1]) :
                             CostApprox(Ends(airways[i])) <= CostApprox(q)
      BY <1>1, <1>11, <2>1, <2>3 DEF CheapestAreLinked
    <3>1. ~ IsLinked(q)
      BY <2>1 DEF IsLinked
    <3>2. CASE q = p
      BY <1>2, <1>7, <1>8, <1>10, <1>13, <3>2
    <3>3. CASE q # p
      BY <1>9, <3>1, <3>3
    <3> QED
      BY <3>2, <3>3
  <2> QED
    BY <1>6, <2>2, <2>4, <2>5 DEF DrawnInv
<1> QED
  BY <1>12, <1>13

(* The table, and the pair the scan begins with. *)
LEMMA DrawnByScans ==
  ASSUME world \in Worlds, MapTypeOK, FlightsAreFlown,
         NEW E \in Seq(PricedAirway),
         \A i \in DOMAIN E : Ends(E[i]) \in nodes \X nodes /\ E[i].from # E[i].to,
         \A i, j \in DOMAIN E : Ends(E[i]) = Ends(E[j]) => i = j,
         Scan(E)
  PROVE  DrawnInv'
<1>1. /\ nodes \subseteq Airports /\ Airports \subseteq Nat
      /\ IsFiniteSet(nodes) /\ IsFiniteSet(nodes \X nodes)
  BY FieldsAreFinite DEF MapTypeOK
<1>2. /\ airways' = E /\ world' = world /\ flights' = flights
      /\ reached' = Connected(E)
      /\ IF Unreached(reached') = {}
         THEN stage' = "connected" /\ bad' = <<>>
         ELSE stage' = "repair" /\ bad' = First(Unreached(reached'))
  BY DEF Scan
<1>3. reached' = Via(Start(E), nodes) /\ reached' \subseteq nodes \X nodes
  <2>1. Start(E) \subseteq nodes \X nodes
    BY DEF Start
  <2>2. Connected(E) = Via(Start(E), nodes)
    BY <1>1, <2>1, ConnectedIs
  <2>3. Via(Start(E), nodes) \subseteq nodes \X nodes
    BY DEF Via
  <2> QED
    BY <1>2, <2>2, <2>3
<1> PICK U : U = Unreached(reached')
  OBVIOUS
<1>4. U \subseteq nodes \X nodes /\ U = Unreached(reached)' /\ IsFiniteSet(U)
  <2>1. U \in SUBSET (nodes \X nodes) /\ U = Unreached(reached)'
    BY <1>2 DEF Unreached, nodes
  <2> QED
    BY <1>1, <2>1, FS_Subset
<1>5. CASE U = {}
  <2>1. stage' = "connected" /\ bad' = <<>>
    BY <1>2, <1>5
  <2>2. MapTypeOK'
    BY <1>1, <1>2, <1>3, <2>1 DEF MapTypeOK
  <2>3. reached' = Via(Start(airways), nodes)'
    BY <1>2, <1>3 DEF Via, Start, ClosedAt, nodes
  <2>4. ScannedInOrder'
    BY <1>4, <1>5, <2>1, <2>3 DEF ScannedInOrder
  <2> QED
    BY <1>2, <2>1, <2>2, <2>4
       DEF DrawnInv, FlightsAreFlown, AirwaysAreFlown, AirwaysAreDistinct, CheapestFirst,
           CheapestAreLinked, nodes, Flies
<1>6. CASE U # {}
  <2>1. stage' = "repair" /\ bad' = First(U)
    BY <1>2, <1>6
  <2>2. U \in SUBSET (Airports \X Airports)
    BY <1>1, <1>4
  <2>3. bad' \in U /\ \A q \in U : q = bad' \/ Before(bad', q)
    BY <1>1, <1>4, <1>6, <2>1, <2>2, FirstIs
  <2>4. \A q \in U : ~ Before(q, bad')
    <3> SUFFICES ASSUME NEW q \in U, Before(q, bad') PROVE FALSE
      OBVIOUS
    <3>1. q[1] \in Nat /\ q[2] \in Nat /\ bad'[1] \in Nat /\ bad'[2] \in Nat
      BY <1>1, <2>2, <2>3
    <3> QED
      BY <2>3, <3>1 DEF Before
  <2>5. MapTypeOK'
    BY <1>1, <1>2, <1>3, <2>1, <2>2, <2>3 DEF MapTypeOK
  <2>6. reached' = Via(Start(airways), nodes)'
    BY <1>2, <1>3 DEF Via, Start, ClosedAt, nodes
  <2>7. ScannedInOrder'
    BY <1>2, <1>4, <2>1, <2>3, <2>4, <2>6 DEF ScannedInOrder
  <2> QED
    BY <1>2, <2>1, <2>5, <2>7
       DEF DrawnInv, FlightsAreFlown, AirwaysAreFlown, AirwaysAreDistinct, CheapestFirst,
           CheapestAreLinked, nodes, Flies
<1> QED
  BY <1>5, <1>6

LEMMA DrawnByRecluster ==
  ASSUME DrawnInv, Recluster
  PROVE  DrawnInv'
<1>1. Scan(airways)
  BY DEF Recluster
<1> PICK E : E = airways
  OBVIOUS
<1>2. Scan(E)
  BY <1>1
<1> QED
  BY <1>2, DrawnByScans DEF DrawnInv, MapTypeOK, AirwaysAreFlown, AirwaysAreDistinct

(* A repair leads to an end of a pair that is apart from an airport the    *)
(* other end is connected with: it cannot have been there.                 *)
LEMMA DrawnByRepairs ==
  ASSUME DrawnInv, stage = "repair", NEW a \in nodes,
         <<bad[1], a>> \in reached, Flies(a, bad[2]), Repair(a, bad)
  PROVE  DrawnInv'
<1>1. /\ world \in Worlds /\ MapTypeOK /\ FlightsAreFlown /\ airways \in Seq(PricedAirway)
      /\ bad \in (nodes \X nodes) \ reached
      /\ reached = Via(Start(airways), nodes)
  BY DEF DrawnInv, MapTypeOK, ScannedInOrder, Unreached
<1>2. bad = <<bad[1], bad[2]>> /\ bad[1] \in nodes /\ bad[2] \in nodes
  BY <1>1, PairIs
<1>3. nodes \subseteq Airports
  BY <1>1, FieldsAreFinite DEF MapTypeOK
<1>4. Start(airways) \in SUBSET (nodes \X nodes)
  BY DEF Start, DrawnInv, AirwaysAreFlown
<1>5. Start(airways) \subseteq reached /\ ClosedAt(reached, nodes)
  <2> PICK B : B = Start(airways)
    OBVIOUS
  <2>1. B \subseteq Via(B, nodes) /\ ClosedAt(Via(B, nodes), nodes)
    BY <1>4, ViaIsClosed
  <2> QED
    BY <1>1, <2>1
<1>6. <<a, bad[2]>> \notin reached
  BY <1>1, <1>2, <1>5 DEF ClosedAt
<1>7. \A i \in DOMAIN airways : Ends(airways[i]) # <<a, bad[2]>>
  BY <1>5, <1>6 DEF Start
<1> PICK new : new = NewAirway(a, bad[2], world.fuel[bad[1]])
  OBVIOUS
<1>8. new \in PricedAirway /\ Ends(new) = <<a, bad[2]>> /\ new.from = a /\ new.to = bad[2]
  <2>1. world.fuel[bad[1]] \in Nat \ {0}
    BY <1>1, <1>2, <1>3 DEF MapTypeOK, World
  <2> QED
    BY <1>1, <1>2, <1>3, <2>1, NewEnds
<1>9. a # bad[2]
  <2>1. world.burns[<<a, a>>] = 0
    BY <1>1, <1>3, WorldsAssumption
  <2> QED
    BY <2>1 DEF Flies
<1> PICK E : E = Append(airways, new)
  OBVIOUS
<1> PICK n : n = Len(airways) + 1
  OBVIOUS
<1>10. /\ E \in Seq(PricedAirway) /\ DOMAIN E = DOMAIN airways \cup {n}
       /\ n \notin DOMAIN airways /\ E[n] = new
       /\ \A i \in DOMAIN airways : E[i] = airways[i]
  BY <1>1, <1>8, OneMore
<1>11. \A i \in DOMAIN E : Ends(E[i]) \in nodes \X nodes /\ E[i].from # E[i].to
  BY <1>2, <1>8, <1>9, <1>10 DEF DrawnInv, AirwaysAreFlown
<1>12. \A i, j \in DOMAIN E : Ends(E[i]) = Ends(E[j]) => i = j
  BY <1>7, <1>8, <1>10 DEF DrawnInv, AirwaysAreDistinct
<1>13. Scan(E)
  BY DEF Repair
<1> QED
  BY <1>1, <1>10, <1>11, <1>12, <1>13, DrawnByScans

LEMMA DrawnByRepairVia ==
  ASSUME DrawnInv, RepairVia
  PROVE  DrawnInv'
<1>1. stage = "repair" /\ Intermediaries(bad) # {} /\ Repair(Nearest(bad), bad)
  BY DEF RepairVia
<1>2. bad \in nodes \X nodes /\ world \in World
  BY <1>1 DEF DrawnInv, ScannedInOrder, Unreached, MapTypeOK
<1> PICK a : a = Nearest(bad)
  OBVIOUS
<1>3. a \in Intermediaries(bad)
  <2> PICK p : p = bad
    OBVIOUS
  <2>1. Nearest(p) \in Intermediaries(p)
    BY <1>1, <1>2, NearestIs
  <2> QED
    BY <2>1
<1>4. a \in nodes /\ <<bad[1], a>> \in reached /\ Flies(a, bad[2])
  BY <1>3 DEF Intermediaries
<1> QED
  BY <1>1, <1>4, DrawnByRepairs

LEMMA DrawnByRepairDirectly ==
  ASSUME DrawnInv, RepairDirectly
  PROVE  DrawnInv'
<1>1. stage = "repair" /\ Flies(bad[1], bad[2]) /\ Repair(bad[1], bad)
  BY DEF RepairDirectly
<1> PICK a : a = bad[1]
  OBVIOUS
<1>2. a \in nodes /\ reached = Via(Start(airways), nodes)
  BY <1>1 DEF DrawnInv, ScannedInOrder, Unreached
<1>3. <<a, a>> \in reached
  BY <1>2 DEF Via, Start
<1> QED
  BY <1>1, <1>2, <1>3, DrawnByRepairs

LEMMA DrawnByNextBad ==
  ASSUME DrawnInv, NextBad
  PROVE  DrawnInv'
<1>1. /\ stage = "repair" /\ Intermediaries(bad) = {} /\ Later # {}
      /\ bad' = First(Later)
      /\ stage' = stage /\ world' = world /\ flights' = flights
      /\ airways' = airways /\ reached' = reached
  BY DEF NextBad
<1>2. /\ MapTypeOK /\ bad \in Unreached(reached)
      /\ \A q \in Unreached(reached) : Before(q, bad) => Intermediaries(q) = {}
  BY <1>1 DEF DrawnInv, ScannedInOrder
<1>3. /\ nodes \subseteq Airports /\ Airports \subseteq Nat
      /\ IsFiniteSet(nodes \X nodes)
  BY <1>2, FieldsAreFinite DEF MapTypeOK
<1> PICK U, L : U = Unreached(reached) /\ L = Later
  OBVIOUS
<1>4. /\ U \in SUBSET (nodes \X nodes) /\ U \in SUBSET (Airports \X Airports)
      /\ L = {q \in U : Before(bad, q)}
  BY <1>3 DEF Unreached, Later
<1>5. L \in SUBSET (Airports \X Airports) /\ L # {} /\ IsFiniteSet(L)
  <2>1. L \subseteq nodes \X nodes
    BY <1>4
  <2>2. IsFiniteSet(L)
    BY <1>3, <2>1, FS_Subset
  <2> QED
    BY <1>1, <1>4, <2>2
<1>6. bad' \in L /\ \A q \in L : q = bad' \/ Before(bad', q)
  BY <1>1, <1>3, <1>5, FirstIs
<1>7. ASSUME NEW q \in U, Before(q, bad') PROVE Intermediaries(q) = {}
  <2>1. /\ q[1] \in Nat /\ q[2] \in Nat /\ bad'[1] \in Nat /\ bad'[2] \in Nat
        /\ bad[1] \in Nat /\ bad[2] \in Nat /\ q = <<q[1], q[2]>> /\ bad = <<bad[1], bad[2]>>
    <3>1. q \in Airports \X Airports /\ bad \in Airports \X Airports /\ bad' \in Airports \X Airports
      BY <1>2, <1>4, <1>6
    <3> QED
      BY <1>3, <3>1, PairIs
  <2>2. q \notin L
    BY <1>6, <1>7, <2>1 DEF Before
  <2>3. ~ Before(bad, q)
    BY <1>4, <2>2
  <2>4. q = bad \/ Before(q, bad)
    BY <2>1, <2>3 DEF Before
  <2> QED
    BY <1>1, <1>2, <2>4
<1>8. /\ Unreached(reached)' = U
      /\ \A q : Intermediaries(q)' = Intermediaries(q)
      /\ Via(Start(airways), nodes)' = Via(Start(airways), nodes)
  BY <1>1 DEF Unreached, Intermediaries, nodes, Flies, Via, Start, ClosedAt
<1>9. ScannedInOrder'
  BY <1>1, <1>4, <1>6, <1>7, <1>8 DEF DrawnInv, ScannedInOrder
<1>10. MapTypeOK'
  BY <1>1, <1>2, <1>5, <1>6 DEF MapTypeOK
<1> QED
  BY <1>1, <1>9, <1>10
     DEF DrawnInv, FlightsAreFlown, AirwaysAreFlown, AirwaysAreDistinct, CheapestFirst,
         CheapestAreLinked, nodes, Flies

LEMMA DrawnByGivingUp ==
  ASSUME DrawnInv, GiveUp
  PROVE  DrawnInv'
<1>1. /\ stage = "repair" /\ Intermediaries(bad) = {} /\ Later = {}
      /\ ~ Flies(bad[1], bad[2])
      /\ stage' = "given_up" /\ world' = world /\ flights' = flights
      /\ airways' = airways /\ reached' = reached /\ bad' = bad
  BY DEF GiveUp
<1>2. /\ MapTypeOK /\ bad \in Unreached(reached)
      /\ \A q \in Unreached(reached) : Before(q, bad) => Intermediaries(q) = {}
  BY <1>1 DEF DrawnInv, ScannedInOrder
<1>3. nodes \subseteq Airports /\ Airports \subseteq Nat
  BY <1>2, FieldsAreFinite DEF MapTypeOK
<1>4. ASSUME NEW q \in Unreached(reached) PROVE Intermediaries(q) = {} /\ NotTheLast(q)
  <2>1. /\ q[1] \in Nat /\ q[2] \in Nat /\ bad[1] \in Nat /\ bad[2] \in Nat
        /\ q = <<q[1], q[2]>> /\ bad = <<bad[1], bad[2]>>
    <3>1. q \in Airports \X Airports /\ bad \in Airports \X Airports
      BY <1>2, <1>3 DEF Unreached
    <3> QED
      BY <1>3, <3>1, PairIs
  <2>2. ~ Before(bad, q)
    BY <1>1 DEF Later
  <2>3. q = bad \/ Before(q, bad)
    BY <2>1, <2>2 DEF Before
  <2> QED
    BY <1>1, <1>2, <2>3 DEF NotTheLast
<1>5. /\ Unreached(reached)' = Unreached(reached)
      /\ \A q : Intermediaries(q)' = Intermediaries(q)
      /\ \A q : NotTheLast(q)' = NotTheLast(q)
      /\ Via(Start(airways), nodes)' = Via(Start(airways), nodes)
  BY <1>1 DEF Unreached, Intermediaries, NotTheLast, nodes, Flies, Via, Start, ClosedAt
<1>6. ScannedInOrder'
  BY <1>1, <1>4, <1>5 DEF DrawnInv, ScannedInOrder
<1>7. MapTypeOK'
  BY <1>1, <1>2 DEF MapTypeOK
<1> QED
  BY <1>1, <1>6, <1>7
     DEF DrawnInv, FlightsAreFlown, AirwaysAreFlown, AirwaysAreDistinct, CheapestFirst,
         CheapestAreLinked, nodes, Flies

LEMMA DrawnStep ==
  ASSUME DrawnInv, [MapNext]_mapVars
  PROVE  DrawnInv'
<1>1. CASE UNCHANGED mapVars
  <2>1. /\ world' = world /\ stage' = stage /\ flights' = flights
        /\ airways' = airways /\ reached' = reached /\ bad' = bad
    BY <1>1 DEF mapVars
  <2>2. (world \in Worlds /\ MapTypeOK /\ FlightsAreFlown)'
    BY <2>1 DEF DrawnInv, MapTypeOK, FlightsAreFlown, nodes, Flies
  <2>3. AirwaysAreFlown' /\ AirwaysAreDistinct'
    BY <2>1 DEF DrawnInv, AirwaysAreFlown, AirwaysAreDistinct, nodes
  <2>4. CheapestFirst'
    BY <2>1 DEF DrawnInv, CheapestFirst, Neighbors, MaxDegree, CostApprox, nodes
  <2>5. CheapestAreLinked'
    BY <2>1
       DEF DrawnInv, CheapestAreLinked, IsLinked, Neighbors, MaxDegree, CostApprox,
           nodes, Flies
  <2>6. /\ Unreached(reached)' = Unreached(reached)
        /\ \A q : Intermediaries(q)' = Intermediaries(q)
        /\ \A q : NotTheLast(q)' = NotTheLast(q)
        /\ Via(Start(airways), nodes)' = Via(Start(airways), nodes)
    BY <2>1 DEF Unreached, Intermediaries, NotTheLast, nodes, Flies, Via, Start, ClosedAt
  <2>7. ScannedInOrder'
    BY <2>1, <2>6 DEF DrawnInv, ScannedInOrder
  <2> QED
    BY <2>2, <2>3, <2>4, <2>5, <2>7 DEF DrawnInv
<1>2. CASE Work
  BY <1>2, DrawnByLinks, DrawnByRecluster, DrawnByRepairVia, DrawnByNextBad,
     DrawnByRepairDirectly, DrawnByGivingUp DEF Work
<1> QED
  BY <1>1, <1>2 DEF MapNext, Finished

LEMMA DrawnAlways == MapSpec => []DrawnInv
BY DrawnFirst, DrawnStep, PTL DEF MapSpec

(* mapgen's airways run between airports that are on the map and have a    *)
(* fuel price.                                                             *)
THEOREM MapIsTyped ==
  MapSpec => []MapTypeOK
<1>1. DrawnInv => MapTypeOK
  BY DEF DrawnInv
<1> QED
  BY <1>1, DrawnAlways, PTL

(* recluster never links what is linked already, whatever flights there    *)
(* are: what it links ends in an airport that could not be reached.        *)
THEOREM AirwaysStayDistinct ==
  MapSpec => []AirwaysAreDistinct
<1>1. DrawnInv => AirwaysAreDistinct
  BY DEF DrawnInv
<1> QED
  BY <1>1, DrawnAlways, PTL

(* mapFlights drops a flight only for airways that are no dearer.          *)
THEOREM CheapestAreTaken ==
  MapSpec => []CheapestAreLinked
<1>1. DrawnInv => CheapestAreLinked
  BY DEF DrawnInv
<1> QED
  BY <1>1, DrawnAlways, PTL

(* recluster stops when all airports are connected, or when none of the    *)
(* pairs that are not can be by one more flight from a third airport that  *)
(* is reached, nor the last of them by a flight between its own ends.  An  *)
(* earlier pair may have a direct flight that was never tried.             *)
THEOREM OnlyDirectFlightsAreLeft ==
  MapSpec => []NothingLeftToRepair
<1>1. DrawnInv => NothingLeftToRepair
  <2> SUFFICES ASSUME DrawnInv, stage \in {"connected", "given_up"} PROVE NothingLeftToRepair
    BY DEF NothingLeftToRepair
  <2>1. MapTypeOK /\ reached = Via(Start(airways), nodes)
    BY DEF DrawnInv, ScannedInOrder
  <2>2. IsFiniteSet(nodes) /\ nodes \subseteq Airports
    BY <2>1, FieldsAreFinite DEF MapTypeOK
  <2>3. Connected(airways) = reached
    <3> PICK E : E = airways
      OBVIOUS
    <3>1. Start(E) \subseteq nodes \X nodes
      BY DEF Start, DrawnInv, AirwaysAreFlown
    <3>2. Connected(E) = Via(Start(E), nodes)
      BY <2>2, <3>1, ConnectedIs
    <3> QED
      BY <2>1, <3>2
  <2>4. stage = "connected" => Unreached(reached) = {}
    BY DEF DrawnInv, ScannedInOrder
  <2>5. ASSUME NEW p \in Unreached(reached), NEW i \in nodes,
               <<p[1], i>> \in reached, i # p[1]
        PROVE  ~ Flies(i, p[2])
    <3>1. Intermediaries(p) = {}
      BY <2>4 DEF DrawnInv, ScannedInOrder
    <3>2. i # p[2]
      <4>1. p \in nodes \X nodes /\ p \notin reached
        BY DEF Unreached
      <4>2. p = <<p[1], p[2]>>
        BY <4>1, PairIs
      <4> QED
        BY <2>5, <4>1, <4>2
    <3> QED
      BY <2>5, <3>1, <3>2 DEF Intermediaries
  <2>6. \A p \in Unreached(reached) : NotTheLast(p)
    BY <2>4 DEF DrawnInv, ScannedInOrder
  <2> QED
    BY <2>3, <2>4, <2>5, <2>6 DEF NothingLeftToRepair, Unreached, NotTheLast
<1> QED
  BY <1>1, DrawnAlways, PTL

-----------------------------------------------------------------------------
(* The map of ShortestPaths: an airway costs what its fuel does.           *)

MapOf(E) ==
  {[from |-> E[i].from, to |-> E[i].to, cost |-> E[i].minFuel * E[i].fuelPrice] : i \in DOMAIN E}

(* As MapsAssumption has it. *)
IsMap(E) ==
  /\ E \subseteq Airway
  /\ \A l \in E : l.from # l.to
  /\ \A l, m \in E : l.from = m.from /\ l.to = m.to => l = m

(* What ShortestPaths assumes of its maps is what mapgen draws.            *)
THEOREM MapsAreDrawn ==
  ASSUME Airports \subseteq Nodes
  PROVE  MapSpec => []IsMap(MapOf(airways))
<1>1. ASSUME DrawnInv PROVE IsMap(MapOf(airways))
  <2>1. \A i \in DOMAIN airways :
          /\ airways[i] \in PricedAirway
          /\ airways[i].from # airways[i].to
          /\ \A j \in DOMAIN airways :
               airways[i].from = airways[j].from /\ airways[i].to = airways[j].to => i = j
    <3>1. airways \in Seq(PricedAirway)
      BY <1>1 DEF DrawnInv, MapTypeOK
    <3>2. \A i \in DOMAIN airways : airways[i].from # airways[i].to
      BY <1>1 DEF DrawnInv, AirwaysAreFlown
    <3>3. \A i, j \in DOMAIN airways :
            airways[i].from = airways[j].from /\ airways[i].to = airways[j].to => i = j
      BY <1>1 DEF DrawnInv, AirwaysAreDistinct, Ends
    <3> QED
      BY <3>1, <3>2, <3>3
  <2>2. \A i \in DOMAIN airways : airways[i].minFuel * airways[i].fuelPrice \in Nat
    BY <2>1 DEF PricedAirway
  <2>3. \A i \in DOMAIN airways : airways[i].from \in Nodes /\ airways[i].to \in Nodes
    BY <2>1 DEF PricedAirway
  <2>4. \A l \in MapOf(airways) : \E i \in DOMAIN airways :
          l = [from |-> airways[i].from, to |-> airways[i].to,
               cost |-> airways[i].minFuel * airways[i].fuelPrice]
    BY DEF MapOf
  <2>5. \A l \in MapOf(airways) : l \in Airway /\ l.from # l.to
    BY <2>1, <2>2, <2>3, <2>4 DEF Airway
  <2>6. ASSUME NEW l \in MapOf(airways), NEW m \in MapOf(airways),
               l.from = m.from, l.to = m.to
        PROVE  l = m
    <3>1. PICK i \in DOMAIN airways :
            l = [from |-> airways[i].from, to |-> airways[i].to,
                 cost |-> airways[i].minFuel * airways[i].fuelPrice]
      BY <2>4
    <3>2. PICK j \in DOMAIN airways :
            m = [from |-> airways[j].from, to |-> airways[j].to,
                 cost |-> airways[j].minFuel * airways[j].fuelPrice]
      BY <2>4
    <3>3. i = j
      BY <2>1, <2>6, <3>1, <3>2
    <3> QED
      BY <3>1, <3>2, <3>3
  <2> QED
    BY <2>5, <2>6 DEF IsMap
<1>2. DrawnInv => IsMap(MapOf(airways))
  BY <1>1
<1> QED
  BY <1>2, DrawnAlways, PTL
=============================================================================
