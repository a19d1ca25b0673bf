-------------------------- MODULE SceneGraphProofs --------------------------
(* The safety of SceneGraph for any files and graphs.                      *)
EXTENDS SceneGraph, TLAPS, WellFoundedInduction, FiniteSetTheorems

LEMMA LeastOf ==
  ASSUME NEW S \in SUBSET Nat, S # {}
  PROVE  \E x \in S : \A y \in S : x <= y
<1> DEFINE R == OpToRel(<, Nat)
<1>1. IsWellFoundedOn(R, Nat)
  BY NatLessThanWellFounded
<1>2. ASSUME NEW x \in Nat, NEW y \in Nat, ~ (<<y, x>> \in R) PROVE x <= y
  BY <1>2 DEF OpToRel
<1> HIDE DEF R
<1>3. PICK x \in S : \A y \in S : ~ (<<y, x>> \in R)
  BY <1>1, WFMin, Zenon
<1>4. \A y \in S : x <= y
  BY <1>2, <1>3
<1> QED
  BY <1>4

(* Entities that are numbered up to some k have a latest one. *)
LEMMA LatestExists ==
  ASSUME NEW S, S # {}, NEW k \in Nat, \A x \in S : x.no \in Nat /\ x.no <= k
  PROVE  Latest(S) \in S /\ \A y \in S : y.no <= Latest(S).no
<1> DEFINE T == {k - x.no : x \in S}
<1>1. T \in SUBSET Nat /\ T # {}
  OBVIOUS
<1>2. PICK t \in T : \A u \in T : t <= u
  BY <1>1, LeastOf
<1>3. PICK x \in S : t = k - x.no
  OBVIOUS
<1>4. ASSUME NEW y \in S PROVE y.no <= x.no
  <2>1. t <= k - y.no
    BY <1>2
  <2> QED
    BY <1>3, <2>1
<1>5. \E z \in S : \A y \in S : y.no <= z.no
  BY <1>4
<1> QED
  BY <1>5 DEF Latest

(* What the numbers of the entities are bounded by. *)
NumberInv ==
  /\ \A n \in nodes : n.no <= made
  /\ \A i \in 1..Len(arrays) : \E k \in Nat : \A e \in arrays[i] : e.no <= k

IInv == TypeOK /\ NumberInv /\ EdgesJoinNodes /\ PaintedUnlessMarked

LEMMA EdgesTyped ==
  ASSUME TypeOK
  PROVE  /\ Edges \in SUBSET EdgeEntity /\ base \in 1..Len(arrays) /\ Len(arrays) \in Nat
         /\ \A i \in 1..Len(arrays) : arrays[i] \in SUBSET EdgeEntity
         /\ Shown \in Picture
<1>1. /\ Edges \in SUBSET EdgeEntity /\ base \in 1..Len(arrays) /\ Len(arrays) \in Nat
      /\ \A i \in 1..Len(arrays) : arrays[i] \in SUBSET EdgeEntity
  BY DEF TypeOK, Edges
<1> QED
  BY <1>1 DEF TypeOK, Shown, Picture

LEMMA LatestNode ==
  ASSUME TypeOK, NumberInv, NEW S \in SUBSET nodes, S # {}
  PROVE  Latest(S) \in S
<1>1. \A n \in S : n.no \in Nat /\ n.no <= made
  BY DEF TypeOK, NumberInv, NodeEntity
<1> QED
  BY <1>1, LatestExists DEF TypeOK

LEMMA LatestEdge ==
  ASSUME TypeOK, NumberInv, NEW S \in SUBSET Edges, S # {}
  PROVE  Latest(S) \in S
<1>1. PICK k \in Nat : \A e \in Edges : e.no <= k
  BY EdgesTyped DEF NumberInv, Edges
<1>2. \A e \in S : e.no \in Nat /\ e.no <= k
  BY <1>1, EdgesTyped DEF EdgeEntity
<1> QED
  BY <1>2, LatestExists

-----------------------------------------------------------------------------
(* The page. *)

LEMMA LoadNodesInv ==
  ASSUME IInv, NEW f \in Files, LoadNodes(f)
  PROVE  IInv'
<1> USE DEF IInv
<1> DEFINE n == Len(Graph[f].nodes)
           new == {[label |-> Graph[f].nodes[i], no |-> made + i] : i \in 1..n}
<1>1. /\ n \in Nat /\ \A i \in 1..n : Graph[f].nodes[i] \in Labels
  BY GraphTyped
<1>2. /\ nodes' = nodes \cup new /\ made' = made + n /\ dirty'
      /\ UNCHANGED <<arrays, base, shelf, removals, missed, bent, selected, pointer, pressed,
                     painted, unseen>>
  BY DEF LoadNodes
<1>3. new \in SUBSET NodeEntity /\ \A x \in new : x.no <= made + n
  BY <1>1 DEF TypeOK, NodeEntity
<1> HIDE DEF new, n
<1>4. TypeOK'
  BY <1>1, <1>2, <1>3 DEF TypeOK
<1>5. NumberInv'
  <2>1. \A x \in nodes : x.no <= made + n
    BY <1>1 DEF TypeOK, NumberInv, NodeEntity
  <2> QED
    BY <1>2, <1>3, <2>1 DEF NumberInv
<1>6. EdgesJoinNodes'
  BY <1>2 DEF EdgesJoinNodes
<1>7. PaintedUnlessMarked'
  BY <1>2 DEF PaintedUnlessMarked
<1> QED
  BY <1>4, <1>5, <1>6, <1>7

LEMMA LoadEdgesInv ==
  ASSUME IInv, NEW f \in Files, NEW name \in Files, LoadEdges(f, name)
  PROVE  IInv'
<1> USE DEF IInv
<1> DEFINE es == Graph[f].edges
           ok == Drawable(es)
           whole == ok = 1..Len(es)
           new == {NewEdge(es[i], i) : i \in ok}
<1>1. es \in Seq(Labels \X Labels) /\ Len(es) \in Nat
  BY GraphTyped
<1>2. /\ arrays' = Append(arrays, new) /\ base' = Len(arrays) + 1
      /\ shelf' = IF whole THEN [shelf EXCEPT ![name] = Len(arrays) + 1] ELSE shelf
      /\ dirty' = (dirty \/ whole \/ ok # {})
      /\ unseen' = (unseen \/ (~whole /\ ok = {}))
      /\ UNCHANGED <<nodes, made, removals, missed, bent, selected, pointer, pressed, painted>>
  BY DEF LoadEdges
<1>3. ASSUME NEW i \in ok
      PROVE  /\ NewEdge(es[i], i) \in EdgeEntity
             /\ {NewEdge(es[i], i).from, NewEdge(es[i], i).to} \subseteq nodes
             /\ NewEdge(es[i], i).no <= Len(es)
  <2>1. i \in 1..Len(es) /\ Resolves(es[i])
    BY <1>1 DEF Drawable
  <2>2. Latest(Bearers(es[i][1])) \in nodes /\ Latest(Bearers(es[i][2])) \in nodes
    BY <2>1, LatestNode DEF Resolves, Bearers
  <2> QED
    BY <1>1, <2>1, <2>2, EdgesTyped DEF NewEdge, EdgeEntity, TypeOK
<1>4. /\ new \in SUBSET EdgeEntity /\ \A e \in new : e.no <= Len(es)
      /\ \A e \in new : {e.from, e.to} \subseteq nodes
  BY <1>3
<1> HIDE DEF new, es, ok
<1>5. /\ arrays' \in Seq(SUBSET EdgeEntity) /\ Len(arrays') = Len(arrays) + 1
      /\ arrays'[Len(arrays) + 1] = new
      /\ \A i \in 1..Len(arrays) : arrays'[i] = arrays[i]
  BY <1>2, <1>4 DEF TypeOK
<1>6. TypeOK'
  BY <1>2, <1>5, EdgesTyped DEF TypeOK
<1>7. NumberInv'
  <2>1. ASSUME NEW i \in 1..(Len(arrays) + 1) PROVE \E k \in Nat : \A e \in arrays'[i] : e.no <= k
    <3>1. CASE i = Len(arrays) + 1
      BY <1>1, <1>4, <1>5, <3>1
    <3>2. CASE i \in 1..Len(arrays)
      BY <1>5, <3>2 DEF NumberInv
    <3> QED
      BY <3>1, <3>2, EdgesTyped
  <2> QED
    BY <1>2, <1>5, <2>1 DEF NumberInv
<1>8. EdgesJoinNodes'
  <2>1. ASSUME NEW i \in (1..(Len(arrays) + 1)) \ missed, NEW e \in arrays'[i]
        PROVE  {e.from, e.to} \subseteq nodes
    <3>1. CASE i = Len(arrays) + 1
      BY <1>4, <1>5, <2>1, <3>1
    <3>2. CASE i \in 1..Len(arrays)
      BY <1>5, <2>1, <3>2 DEF EdgesJoinNodes
    <3> QED
      BY <3>1, <3>2, EdgesTyped
  <2> QED
    BY <1>2, <1>5, <2>1 DEF EdgesJoinNodes
<1>9. PaintedUnlessMarked'
  BY <1>2 DEF PaintedUnlessMarked
<1> QED
  BY <1>6, <1>7, <1>8, <1>9

LEMMA LoadInv ==
  ASSUME IInv, NEW name \in Files, Load(name)
  PROVE  IInv'
<1> USE DEF IInv
<1>1. /\ base' = shelf[name] /\ shelf[name] # 0 /\ unseen' = (unseen \/ base' # base)
      /\ UNCHANGED <<nodes, arrays, shelf, made, removals, missed, bent, selected, pointer,
                     pressed, dirty, painted>>
  BY DEF Load
<1>2. base' \in 1..Len(arrays)
  BY <1>1, EdgesTyped DEF TypeOK
<1>3. TypeOK'
  BY <1>1, <1>2 DEF TypeOK
<1>4. NumberInv' /\ EdgesJoinNodes'
  BY <1>1 DEF NumberInv, EdgesJoinNodes
<1>5. PaintedUnlessMarked'
  BY <1>1 DEF PaintedUnlessMarked, Shown, Edges
<1> QED
  BY <1>3, <1>4, <1>5

-----------------------------------------------------------------------------
(* Engine.remove. *)

(* Taking edges out of layer 0. *)
LEMMA FewerEdges ==
  ASSUME TypeOK, NumberInv, NEW out, arrays' = [arrays EXCEPT ![base] = @ \ out],
         UNCHANGED made, nodes' \subseteq nodes
  PROVE  /\ arrays' \in Seq(SUBSET EdgeEntity) /\ Len(arrays') = Len(arrays)
         /\ arrays'[base] = arrays[base] \ out
         /\ \A i \in 1..Len(arrays) : i # base => arrays'[i] = arrays[i]
         /\ NumberInv'
<1>1. /\ Len(arrays') = Len(arrays) /\ arrays'[base] = arrays[base] \ out
      /\ \A i \in 1..Len(arrays) : i # base => arrays'[i] = arrays[i]
  BY EdgesTyped DEF TypeOK
<1>2. arrays' \in Seq(SUBSET EdgeEntity)
  BY EdgesTyped DEF TypeOK
<1>3. \A i \in 1..Len(arrays) : arrays'[i] \subseteq arrays[i]
  BY <1>1
<1>4. NumberInv'
  <2>1. ASSUME NEW i \in 1..Len(arrays) PROVE \E k \in Nat : \A e \in arrays'[i] : e.no <= k
    <3>1. PICK k \in Nat : \A e \in arrays[i] : e.no <= k
      BY DEF NumberInv
    <3> QED
      BY <1>3, <3>1
  <2> QED
    BY <1>1, <2>1 DEF NumberInv
<1> QED
  BY <1>1, <1>2, <1>4

LEMMA RemoveNodeInv ==
  ASSUME IInv, NEW n \in nodes, RemoveNode(n)
  PROVE  IInv'
<1> USE DEF IInv
<1>1. /\ nodes' = nodes \ {n} /\ removals' = removals + 1
      /\ arrays' = [arrays EXCEPT ![base] = @ \ Loose(@, n)]
      /\ missed' = missed \cup ((1..Len(arrays)) \ {base}) /\ dirty'
      /\ UNCHANGED <<base, shelf, made, bent, selected, pointer, pressed, painted, unseen>>
  BY DEF RemoveNode
<1>2. arrays' = [arrays EXCEPT ![base] = @ \ Loose(arrays[base], n)]
  BY <1>1
<1>3. /\ arrays' \in Seq(SUBSET EdgeEntity) /\ Len(arrays') = Len(arrays)
      /\ arrays'[base] = arrays[base] \ Loose(arrays[base], n)
      /\ NumberInv'
  BY <1>1, <1>2, FewerEdges
<1>4. TypeOK'
  <2>1. missed' \in SUBSET (1..Len(arrays')) /\ nodes' \in SUBSET NodeEntity
    BY <1>1, <1>3 DEF TypeOK
  <2>2. /\ base' \in 1..Len(arrays') /\ shelf' \in [Files -> 0..Len(arrays')]
        /\ removals' \in Nat /\ dirty' = TRUE
    BY <1>1, <1>3 DEF TypeOK
  <2> QED
    BY <1>1, <1>3, <2>1, <2>2 DEF TypeOK
<1>5. EdgesJoinNodes'
  <2>1. ASSUME NEW i \in (1..Len(arrays')) \ missed', NEW e \in arrays'[i]
        PROVE  {e.from, e.to} \subseteq nodes'
    <3>1. i = base /\ base \notin missed
      BY <1>1, <1>3, <2>1
    <3>2. e \in arrays[base] /\ e.from # n /\ e.to # n
      BY <1>3, <2>1, <3>1 DEF Loose
    <3> QED
      BY <1>1, <3>1, <3>2, EdgesTyped DEF EdgesJoinNodes
  <2> QED
    BY <2>1 DEF EdgesJoinNodes
<1>6. PaintedUnlessMarked'
  BY <1>1 DEF PaintedUnlessMarked
<1> QED
  BY <1>3, <1>4, <1>5, <1>6

LEMMA RemoveEdgeInv ==
  ASSUME IInv, NEW e \in Edges, RemoveEdge(e)
  PROVE  IInv'
<1> USE DEF IInv
<1>1. /\ removals' = removals + 1 /\ arrays' = [arrays EXCEPT ![base] = @ \ {e}]
      /\ bent' \subseteq bent /\ dirty'
      /\ UNCHANGED <<nodes, base, shelf, made, missed, selected, pointer, pressed, painted,
                     unseen>>
  BY DEF RemoveEdge
<1>2. /\ arrays' \in Seq(SUBSET EdgeEntity) /\ Len(arrays') = Len(arrays)
      /\ arrays'[base] = arrays[base] \ {e}
      /\ \A i \in 1..Len(arrays) : i # base => arrays'[i] = arrays[i]
      /\ NumberInv'
  BY <1>1, FewerEdges
<1>3. TypeOK'
  BY <1>1, <1>2 DEF TypeOK
<1>4. \A i \in 1..Len(arrays) : arrays'[i] \subseteq arrays[i]
  BY <1>2
<1>5. EdgesJoinNodes'
  BY <1>1, <1>2, <1>4 DEF EdgesJoinNodes
<1>6. PaintedUnlessMarked'
  BY <1>1 DEF PaintedUnlessMarked
<1> QED
  BY <1>2, <1>3, <1>5, <1>6

-----------------------------------------------------------------------------
(* The mouse and the frame. *)

LEMMA MouseInv ==
  ASSUME IInv, \/ \E s \in Spots : PointAt(s)
               \/ Leave \/ Wheel
               \/ \E down \in BOOLEAN : Button(down)
  PROVE  IInv'
<1>1. /\ UNCHANGED <<nodes, arrays, base, shelf, made, removals, missed, bent, selected,
                     painted, unseen>>
      /\ dirty' = dirty \/ dirty' = TRUE
      /\ pointer' \in Spots \cup {Off} /\ pressed' \in BOOLEAN
  BY DEF IInv, TypeOK, PointAt, Leave, Wheel, Button, scene
<1>2. TypeOK'
  BY <1>1 DEF IInv, TypeOK
<1>3. NumberInv' /\ EdgesJoinNodes'
  BY <1>1 DEF IInv, NumberInv, EdgesJoinNodes
<1>4. Shown' = Shown
  BY <1>1 DEF Shown, Edges
<1>5. PaintedUnlessMarked'
  BY <1>1, <1>4 DEF IInv, PaintedUnlessMarked
<1> QED
  BY <1>2, <1>3, <1>5 DEF IInv

LEMMA TopmostIsEntity ==
  ASSUME IInv
  PROVE  Topmost \in Entity \cup {None}
<1> USE DEF IInv
<1>1. ASSUME NodesHit # {} PROVE Latest(NodesHit) \in Entity
  <2>1. Latest(NodesHit) \in nodes
    BY <1>1, LatestNode DEF NodesHit
  <2> QED
    BY <2>1 DEF TypeOK, Entity
<1>2. ASSUME EdgesHit # {} PROVE Latest(EdgesHit) \in Entity
  <2>1. Latest(EdgesHit) \in Edges
    BY <1>2, LatestEdge DEF EdgesHit
  <2> QED
    BY <2>1, EdgesTyped DEF Entity
<1> QED
  BY <1>1, <1>2 DEF Topmost

LEMMA FrameInv ==
  ASSUME IInv, NEW keyHeld \in BOOLEAN, Tick(keyHeld)
  PROVE  IInv'
<1> USE DEF IInv
<1> DEFINE sel == IF pressed THEN selected ELSE Topmost
<1>1. sel \in Entity \cup {None} /\ selected' = sel
  BY TopmostIsEntity DEF TypeOK, Tick
<1>2. UNCHANGED <<nodes, arrays, base, shelf, made, removals, missed, pointer, pressed>>
  BY DEF Tick, scene
<1>3. NumberInv' /\ EdgesJoinNodes'
  BY <1>2 DEF NumberInv, EdgesJoinNodes
<1>4. CASE dirty \/ keyHeld \/ (~pressed /\ Stirred(sel))
  <2>1. /\ bent' = Rebent /\ dirty' = FALSE /\ unseen' = FALSE
        /\ painted' = [nodes |-> nodes, edges |-> Edges, bent |-> Rebent \cap Edges,
                       selected |-> sel]
    BY <1>4 DEF Tick
  <2>2. Rebent \in SUBSET EdgeEntity
    BY EdgesTyped DEF Rebent, TypeOK
  <2>3. painted' = Shown'
    BY <1>1, <1>2, <2>1 DEF Shown, Edges
  <2>4. bent' \in SUBSET EdgeEntity /\ painted' \in Picture
    <3>1. Edges \in SUBSET EdgeEntity /\ nodes \in SUBSET NodeEntity
      BY EdgesTyped DEF TypeOK
    <3> HIDE DEF sel
    <3> QED
      BY <1>1, <2>1, <2>2, <3>1 DEF Picture
  <2>5. TypeOK'
    BY <1>1, <1>2, <2>1, <2>4 DEF TypeOK
  <2>6. PaintedUnlessMarked'
    BY <2>3 DEF PaintedUnlessMarked
  <2> QED
    BY <1>3, <2>5, <2>6
<1>5. CASE ~(dirty \/ keyHeld \/ (~pressed /\ Stirred(sel)))
  <2>1. UNCHANGED <<bent, painted, dirty, unseen>>
    BY <1>5 DEF Tick
  <2>2. selected' = selected
    BY <1>1, <1>5 DEF Stirred
  <2>3. TypeOK'
    BY <1>2, <2>1, <2>2 DEF TypeOK
  <2>4. PaintedUnlessMarked'
    BY <1>2, <2>1, <2>2 DEF PaintedUnlessMarked, Shown, Edges
  <2> QED
    BY <1>3, <2>3, <2>4
<1> QED
  BY <1>4, <1>5

-----------------------------------------------------------------------------
LEMMA InitInv == Init => IInv
<1> SUFFICES ASSUME Init PROVE IInv
  OBVIOUS
<1>1. arrays \in Seq(SUBSET EdgeEntity) /\ Len(arrays) = 1 /\ arrays[1] = {}
  BY DEF Init
<1>2. Shown \in Picture
  BY <1>1 DEF Init, Shown, Edges, Picture
<1>3. TypeOK
  <2>1. base \in 1..Len(arrays) /\ shelf \in [Files -> 0..Len(arrays)] /\ missed \in SUBSET (1..Len(arrays))
    BY <1>1 DEF Init
  <2>2. painted \in Picture
    BY <1>2 DEF Init
  <2> QED
    BY <1>1, <2>1, <2>2 DEF Init, TypeOK
<1>4. NumberInv /\ EdgesJoinNodes
  BY <1>1 DEF Init, NumberInv, EdgesJoinNodes
<1> QED
  BY <1>3, <1>4 DEF IInv, Init, PaintedUnlessMarked

LEMMA NextInv == IInv /\ [Next]_vars => IInv'
<1> SUFFICES ASSUME IInv, [Next]_vars PROVE IInv'
  OBVIOUS
<1>1. CASE UNCHANGED vars
  BY <1>1 DEF vars, scene, IInv, TypeOK, NumberInv, EdgesJoinNodes, PaintedUnlessMarked,
              Shown, Edges
<1>2. CASE Next
  BY <1>2, LoadNodesInv, LoadEdgesInv, LoadInv, RemoveNodeInv, RemoveEdgeInv, MouseInv, FrameInv
     DEF Next, Frame
<1> QED
  BY <1>1, <1>2

(* The inductive invariant holds for any files that are loaded. *)
THEOREM Invariance == Spec => []IInv
BY InitInv, NextInv, PTL DEF Spec

(* Every variable keeps its type. *)
THEOREM TypeCorrect == Spec => []TypeOK
<1>1. IInv => TypeOK
  BY DEF IInv
<1> QED
  BY <1>1, Invariance, PTL

(* No edge of a removed node is in an array, but for those put aside when  *)
(* the node was removed.                                                   *)
THEOREM NoLooseEdges == Spec => []EdgesJoinNodes
<1>1. IInv => EdgesJoinNodes
  BY DEF IInv
<1> QED
  BY <1>1, Invariance, PTL

(* A scene that is not marked is on the canvas as it is. *)
THEOREM CanvasIsCurrent == Spec => []PaintedUnlessMarked
<1>1. IInv => PaintedUnlessMarked
  BY DEF IInv
<1> QED
  BY <1>1, Invariance, PTL

-----------------------------------------------------------------------------
(* The scan of _tick, as the fold it is: what it leaves open.              *)

(* The edges of an array, as remove and the scan find them. *)
Ordered(S) ==
  /\ S \subseteq EdgeEntity /\ IsFiniteSet(S)
  /\ \A x, y \in S : x.no = y.no => x = y
  /\ \E k \in Nat : \A x \in S : x.no <= k

Alike(S, e) == {f \in Between(S, e.from, e.to) : f.no <= e.no}
Rank(S, e)  == Cardinality(Alike(S, e))
Count(S, a, b) == Cardinality(Between(S, a, b))

(* The edges of S that have no partner in it. *)
Unmet(S) == {e \in S : e.from # e.to /\ Rank(S, e) > Count(S, e.to, e.from)}

LEMMA PartsAreFinite ==
  ASSUME NEW S, Ordered(S), NEW a, NEW b
  PROVE  /\ IsFiniteSet(Between(S, a, b)) /\ Count(S, a, b) \in Nat
         /\ \A e : /\ IsFiniteSet(Alike(S, e)) /\ Rank(S, e) \in Nat
                   /\ Rank(S, e) <= Count(S, e.from, e.to)
<1>1. IsFiniteSet(S)
  BY DEF Ordered
<1>2. \A x, y : Between(S, x, y) \in SUBSET S
  BY DEF Between
<1>3. \A x, y : IsFiniteSet(Between(S, x, y)) /\ Count(S, x, y) \in Nat
  BY <1>1, <1>2, FS_Subset, FS_CardinalityType DEF Count
<1>4. ASSUME NEW e
      PROVE  /\ IsFiniteSet(Alike(S, e)) /\ Rank(S, e) \in Nat
             /\ Rank(S, e) <= Count(S, e.from, e.to)
  <2>1. Alike(S, e) \in SUBSET Between(S, e.from, e.to) /\ IsFiniteSet(Between(S, e.from, e.to))
    BY <1>3 DEF Alike
  <2>2. IsFiniteSet(Alike(S, e)) /\ Cardinality(Alike(S, e)) <= Cardinality(Between(S, e.from, e.to))
    BY <2>1, FS_Subset
  <2> QED
    BY <2>2, FS_CardinalityType DEF Rank, Count
<1> QED
  BY <1>3, <1>4

LEMMA SubsetOrdered ==
  ASSUME NEW S, Ordered(S), NEW T \in SUBSET S
  PROVE  Ordered(T)
BY FS_Subset DEF Ordered

(* An edge that comes later has a higher rank. *)
LEMMA LaterRanksHigher ==
  ASSUME NEW S, Ordered(S), NEW e \in S, NEW f \in S,
         e.from = f.from, e.to = f.to, e.no < f.no
  PROVE  Rank(S, e) + 1 <= Rank(S, f)
<1>1. e.no \in Nat /\ f.no \in Nat /\ \A g \in S : g.no \in Nat
  BY DEF Ordered, EdgeEntity
<1>2. Alike(S, e) \in SUBSET Alike(S, f) /\ f \in Alike(S, f) /\ f \notin Alike(S, e)
  BY <1>1 DEF Alike, Between
<1>3. IsFiniteSet(Alike(S, f)) /\ IsFiniteSet(Alike(S, e)) /\ Rank(S, e) \in Nat /\ Rank(S, f) \in Nat
  BY PartsAreFinite
<1>4. Rank(S, e) <= Rank(S, f) /\ Rank(S, e) # Rank(S, f)
  BY <1>2, <1>3, FS_Subset DEF Rank
<1> QED
  BY <1>3, <1>4

(* The first edge above rank k among those alike has rank k + 1. *)
LEMMA FirstAbove ==
  ASSUME NEW S, Ordered(S), NEW k \in Nat, NEW e \in S, Rank(S, e) > k,
         \A f \in S : f.from = e.from /\ f.to = e.to /\ Rank(S, f) > k => e.no <= f.no
  PROVE  Rank(S, e) = k + 1
<1> DEFINE A == Alike(S, e) \ {e}
<1>1. e.no \in Nat /\ \A g \in S : g.no \in Nat
  BY DEF Ordered, EdgeEntity
<1>2. e \in Alike(S, e) /\ IsFiniteSet(Alike(S, e)) /\ Rank(S, e) \in Nat
  BY <1>1, PartsAreFinite DEF Alike, Between
<1>3. IsFiniteSet(A) /\ Cardinality(A) = Rank(S, e) - 1
  BY <1>2, FS_RemoveElement DEF Rank
<1>4. CASE A = {}
  BY <1>2, <1>3, <1>4, FS_EmptySet
<1>5. CASE A # {}
  <2>1. \A g \in A : g.no \in Nat /\ g.no <= e.no
    BY <1>1 DEF Alike, Between
  <2>2. Latest(A) \in A /\ \A h \in A : h.no <= Latest(A).no
    BY <1>1, <1>5, <2>1, LatestExists
  <2>3. PICK g \in A : \A h \in A : h.no <= g.no
    BY <2>2
  <2>4. g \in S /\ g.from = e.from /\ g.to = e.to /\ g # e /\ g.no <= e.no
    BY DEF Alike, Between
  <2>5. g.no < e.no
    <3>1. g.no # e.no
      BY <2>4 DEF Ordered
    <3> QED
      BY <1>1, <2>4, <3>1
  <2>6. Alike(S, g) = A
    <3>1. ASSUME NEW h \in A PROVE h \in Alike(S, g)
      BY <2>3, <2>4 DEF Alike, Between
    <3>2. ASSUME NEW h \in Alike(S, g) PROVE h \in A
      <4>1. h \in S /\ h.from = e.from /\ h.to = e.to /\ h.no <= g.no
        BY <2>4, <3>2 DEF Alike, Between
      <4>2. h.no < e.no
        BY <1>1, <2>4, <2>5, <4>1
      <4> QED
        BY <1>1, <4>1, <4>2 DEF Alike, Between
    <3> QED
      BY <3>1, <3>2
  <2>7. ~ (Rank(S, g) > k)
    BY <1>1, <2>4, <2>5
  <2>8. Rank(S, g) = Rank(S, e) - 1
    BY <1>3, <2>6 DEF Rank
  <2> QED
    BY <1>2, <2>7, <2>8
<1> QED
  BY <1>4, <1>5

LEMMA FirstExists ==
  ASSUME NEW S, S # {}, \A x \in S : x.no \in Nat
  PROVE  First(S) \in S /\ \A y \in S : First(S).no <= y.no
<1> DEFINE T == {x.no : x \in S}
<1>1. T \in SUBSET Nat /\ T # {}
  OBVIOUS
<1>2. PICK t \in T : \A u \in T : t <= u
  BY <1>1, LeastOf
<1>3. \E x \in S : \A y \in S : x.no <= y.no
  BY <1>2
<1> QED
  BY <1>3 DEF First

(* One edge more, later than the others: if some edge the other way has no *)
(* partner yet the first of them gets one, or else the new one has none.   *)
LEMMA UnmetGoesOn ==
  ASSUME NEW T, NEW x, Ordered(T \cup {x}), \A y \in T : y.no < x.no
  PROVE  Unmet(T \cup {x}) = Meet(x, Unmet(T))
<1> DEFINE S == T \cup {x}
           p == x.from
           q == x.to
           open == Unmet(T)
           mates == {f \in open : Opposite(x, f)}
<1>1. /\ Ordered(T) /\ x \notin T /\ x.no \in Nat /\ \A y \in T : y.no \in Nat
  <2>1. Ordered(T)
    BY SubsetOrdered
  <2>2. x.no \in Nat /\ \A y \in T : y.no \in Nat
    BY DEF Ordered, EdgeEntity
  <2> QED
    BY <2>1, <2>2
(* What the new edge changes of the counts. *)
<1>2. ASSUME NEW a, NEW b, ~ (a = p /\ b = q)
      PROVE  Count(S, a, b) = Count(T, a, b)
  <2>1. Between(S, a, b) = Between(T, a, b)
    BY <1>2 DEF Between
  <2> QED
    BY <2>1 DEF Count
<1>3. Count(S, p, q) = Count(T, p, q) + 1
  <2>1. Between(S, p, q) = Between(T, p, q) \cup {x} /\ x \notin Between(T, p, q)
    BY <1>1 DEF Between
  <2>2. IsFiniteSet(Between(T, p, q))
    BY <1>1, PartsAreFinite
  <2> QED
    BY <2>1, <2>2, FS_AddElement DEF Count
<1>4. ASSUME NEW e \in T PROVE Rank(S, e) = Rank(T, e)
  <2>1. ~ (x.no <= e.no)
    BY <1>1
  <2>2. Alike(S, e) = Alike(T, e)
    BY <2>1 DEF Alike, Between
  <2> QED
    BY <2>2 DEF Rank
<1>5. Rank(S, x) = Count(S, p, q)
  <2>1. \A y \in S : y.no <= x.no
    BY <1>1
  <2>2. Alike(S, x) = Between(S, p, q)
    BY <2>1 DEF Alike, Between
  <2> QED
    BY <2>2 DEF Rank, Count
<1>6. /\ \A a, b : Count(T, a, b) \in Nat
      /\ \A e : Rank(T, e) \in Nat /\ Rank(T, e) <= Count(T, e.from, e.to)
  BY <1>1, PartsAreFinite
<1>7. Meet(x, open) = IF mates # {} THEN open \ {First(mates)}
                      ELSE IF p # q THEN open \cup {x} ELSE open
  BY DEF Meet
<1> DEFINE k == Count(T, p, q)
<1>8. mates = {f \in T : f.from = q /\ f.to = p /\ p # q /\ Rank(T, f) > k}
  BY DEF Unmet, Opposite
(* Who is unmet in S. *)
<1>9. ASSUME NEW e \in T, ~ (e.from = q /\ e.to = p), ~ (e.from = p /\ e.to = q)
      PROVE  e \in Unmet(S) <=> e \in open
  BY <1>2, <1>4, <1>9 DEF Unmet
<1>10. ASSUME NEW e \in T, e.from = q, e.to = p
       PROVE  e \in Unmet(S) <=> p # q /\ Rank(T, e) > k + 1
  BY <1>3, <1>4, <1>10 DEF Unmet
<1>11. ASSUME NEW e \in T, e.from = p, e.to = q
       PROVE  e \in Unmet(S) <=> e \in open
  BY <1>2, <1>4, <1>11 DEF Unmet
<1>12. x \in Unmet(S) <=> p # q /\ k + 1 > Count(T, q, p)
  BY <1>2, <1>3, <1>5 DEF Unmet
<1>13. Unmet(S) \subseteq S /\ open \subseteq T
  BY DEF Unmet
<1> HIDE DEF S, k, open
<1>14. CASE mates = {}
  <2>1. p # q => Count(T, q, p) <= k
    <3> SUFFICES ASSUME p # q, Count(T, q, p) > k PROVE FALSE
      BY <1>6 DEF k
    <3> DEFINE B == Between(T, q, p)
    <3>1. B # {} /\ \A y \in B : y.no \in Nat /\ y.no <= x.no
      <4>1. IsFiniteSet(B) /\ Cardinality(B) = Count(T, q, p)
        BY <1>1, PartsAreFinite DEF Count
      <4>2. Cardinality(B) # 0
        BY <1>6, <4>1 DEF k
      <4>3. B # {}
        BY <4>2, FS_EmptySet
      <4>4. \A y \in B : y.no \in Nat /\ y.no <= x.no
        BY <1>1 DEF Between
      <4> QED
        BY <4>3, <4>4
    <3>2. PICK y \in B : \A z \in B : z.no <= y.no
      BY <1>1, <3>1, LatestExists
    <3>3. y \in T /\ y.from = q /\ y.to = p
      BY DEF Between
    <3>4. Alike(T, y) = B
      BY <3>2, <3>3 DEF Alike
    <3>5. Rank(T, y) > k
      BY <3>4 DEF Rank, Count
    <3> QED
      BY <1>8, <1>14, <3>3, <3>5
  <2>2. ASSUME NEW e \in T, e.from = q, e.to = p, p # q
        PROVE  e \notin Unmet(S) /\ e \notin open
    <3>1. Rank(T, e) <= k /\ Rank(T, e) \in Nat /\ k \in Nat
      BY <1>6, <2>1, <2>2 DEF k
    <3>2. e \notin mates /\ Opposite(x, e)
      BY <1>14, <2>2 DEF Opposite
    <3> QED
      BY <1>10, <2>2, <3>1, <3>2
  <2>3. CASE p # q
    <3>1. x \in Unmet(S)
      BY <1>6, <1>12, <2>1, <2>3 DEF k
    <3>2. \A e \in T : e \in Unmet(S) <=> e \in open
      BY <1>9, <1>11, <2>2, <2>3
    <3>3. Unmet(S) = open \cup {x}
      BY <1>13, <3>1, <3>2 DEF S
    <3> QED
      BY <1>7, <1>14, <2>3, <3>3 DEF S, open
  <2>4. CASE p = q
    <3>1. x \notin Unmet(S)
      BY <1>12, <2>4
    <3>2. \A e \in T : e \in Unmet(S) <=> e \in open
      BY <1>9, <1>11, <2>4
    <3>3. Unmet(S) = open
      BY <1>13, <3>1, <3>2 DEF S
    <3> QED
      BY <1>7, <1>14, <2>4, <3>3 DEF S, open
  <2> QED
    BY <2>3, <2>4
<1>15. CASE mates # {}
  <2>1. \A f \in mates : f \in T /\ f.no \in Nat
    BY <1>1, <1>8
  <2>2. PICK m \in mates : m = First(mates) /\ \A f \in mates : m.no <= f.no
    BY <1>15, <2>1, FirstExists
  <2>3. m \in T /\ m.from = q /\ m.to = p /\ p # q /\ Rank(T, m) > k /\ k \in Nat
    BY <1>6, <1>8 DEF k
  <2>4. \A f \in T : f.from = m.from /\ f.to = m.to /\ Rank(T, f) > k => m.no <= f.no
    BY <1>8, <2>2, <2>3
  <2>5. Rank(T, m) = k + 1
    BY <1>1, <2>3, <2>4, FirstAbove
  <2>6. x \notin Unmet(S)
    <3>1. Rank(T, m) <= Count(T, q, p)
      BY <1>6, <2>3
    <3> QED
      BY <1>6, <1>12, <2>3, <2>5, <3>1
  <2>7. m \notin Unmet(S) /\ m \in open
    BY <1>10, <2>3, <2>5
  <2>8. ASSUME NEW e \in T, e.from = q, e.to = p, e # m
        PROVE  e \in Unmet(S) <=> e \in open
    <3>1. e \in open <=> Rank(T, e) > k
      BY <1>8, <2>3, <2>8 DEF Opposite
    <3>2. ASSUME Rank(T, e) > k PROVE Rank(T, e) > k + 1
      <4>1. m.no <= e.no /\ m.no # e.no
        BY <1>1, <2>3, <2>4, <2>8, <3>2 DEF Ordered
      <4>2. m.no < e.no
        BY <1>1, <2>3, <4>1
      <4>3. Rank(T, m) + 1 <= Rank(T, e)
        BY <1>1, <2>3, <2>8, <4>2, LaterRanksHigher
      <4> QED
        BY <1>6, <2>3, <2>5, <4>3
    <3> QED
      BY <1>6, <1>10, <2>3, <2>8, <3>1, <3>2
  <2>9. \A e \in T : e \in Unmet(S) <=> e \in open /\ e # m
    BY <1>9, <1>11, <2>7, <2>8
  <2>10. Unmet(S) = open \ {m}
    BY <1>13, <2>6, <2>9 DEF S
  <2> QED
    BY <1>7, <1>15, <2>2, <2>10 DEF S, open
<1> QED
  BY <1>14, <1>15

(* The fold over the layer, the latest edge taken off first. *)
Scan(S, it) ==
  it = [s \in SUBSET S |-> IF s = {} THEN {} ELSE Meet(Latest(s), it[s \ {Latest(s)}])]

LEMMA ScanStep ==
  ASSUME NEW S, Ordered(S), S # {}
  PROVE  Latest(S) \in S /\ Unmet(S) = Meet(Latest(S), Unmet(S \ {Latest(S)}))
<1>1. \A e \in S : e.no \in Nat
  BY DEF Ordered, EdgeEntity
<1>2. Latest(S) \in S /\ \A y \in S : y.no <= Latest(S).no
  <2>1. PICK k \in Nat : \A e \in S : e.no <= k
    BY DEF Ordered
  <2> QED
    BY <1>1, <2>1, LatestExists
<1> PICK x : x = Latest(S)
  OBVIOUS
<1> PICK T : T = S \ {x}
  OBVIOUS
<1>3. S = T \cup {x} /\ \A y \in T : y.no < x.no
  <2>1. \A y \in T : y \in S /\ y # x /\ y.no <= x.no /\ y.no \in Nat /\ x.no \in Nat
    BY <1>1, <1>2
  <2>2. \A y \in T : y.no # x.no
    BY <1>2, <2>1 DEF Ordered
  <2> QED
    BY <1>2, <2>1, <2>2
<1>4. Unmet(S) = Meet(x, Unmet(T))
  BY <1>3, UnmetGoesOn
<1> QED
  BY <1>2, <1>4

(* The scan leaves open the edges that have no partner. *)
LEMMA OpenIs ==
  ASSUME Ordered(Edges)
  PROVE  Open = Unmet(Edges)
<1> DEFINE f == [s \in SUBSET Edges |-> Unmet(s)]
           it == CHOOSE g : Scan(Edges, g)
<1>1. Scan(Edges, f)
  <2>1. ASSUME NEW s \in SUBSET Edges
        PROVE  Unmet(s) = IF s = {} THEN {} ELSE Meet(Latest(s), f[s \ {Latest(s)}])
    <3>1. CASE s = {}
      BY <3>1 DEF Unmet
    <3>2. CASE s # {}
      <4>1. Unmet(s) = Meet(Latest(s), Unmet(s \ {Latest(s)}))
        BY <3>2, SubsetOrdered, ScanStep
      <4>2. s \ {Latest(s)} \in SUBSET Edges
        OBVIOUS
      <4> QED
        BY <3>2, <4>1, <4>2
    <3> QED
      BY <3>1, <3>2
  <2> QED
    BY <2>1 DEF Scan
<1> HIDE DEF f
<1>2. Scan(Edges, it)
  BY <1>1
<1>3. Open = it[Edges]
  BY DEF Open, MapThenFoldSet, Scan
<1> HIDE DEF it
<1>4. \A s \in SUBSET Edges :
        it[s] = IF s = {} THEN {} ELSE Meet(Latest(s), it[s \ {Latest(s)}])
  BY <1>2, Zenon DEF Scan
<1> DEFINE Wrong == {n \in Nat : \E s \in SUBSET Edges : Cardinality(s) = n /\ it[s] # Unmet(s)}
<1>5. ASSUME Wrong # {} PROVE FALSE
  <2>1. PICK n \in Wrong : \A m \in Wrong : n <= m
    BY <1>5, LeastOf
  <2>2. PICK s \in SUBSET Edges : Cardinality(s) = n /\ it[s] # Unmet(s)
    BY <2>1
  <2>3. Ordered(s) /\ IsFiniteSet(s)
    BY SubsetOrdered DEF Ordered
  <2>4. s # {}
    BY <1>4, <2>2 DEF Unmet
  <2>5. Latest(s) \in s /\ Unmet(s) = Meet(Latest(s), Unmet(s \ {Latest(s)}))
    BY <2>3, <2>4, ScanStep
  <2> PICK t : t = s \ {Latest(s)}
    OBVIOUS
  <2>6. t \in SUBSET Edges /\ it[t] # Unmet(t)
    BY <1>4, <2>2, <2>4, <2>5
  <2>7. Cardinality(t) = n - 1 /\ Cardinality(t) \in Nat
    BY <2>2, <2>3, <2>5, FS_RemoveElement, FS_CardinalityType
  <2>8. Cardinality(t) \in Wrong /\ n \in Nat
    BY <2>6, <2>7
  <2> HIDE DEF Wrong
  <2>9. n <= Cardinality(t)
    BY <2>1, <2>8
  <2> QED
    BY <2>7, <2>8, <2>9
<1>6. it[Edges] = Unmet(Edges)
  <2>1. IsFiniteSet(Edges) /\ Cardinality(Edges) \in Nat
    BY FS_CardinalityType DEF Ordered
  <2> QED
    BY <1>5, <2>1
<1> QED
  BY <1>3, <1>6

-----------------------------------------------------------------------------
(* Loops are never bent, and no two edges of an array have the same place. *)
BendInv ==
  /\ \A i \in 1..Len(arrays) : Ordered(arrays[i])
  /\ \A e \in bent : e.from # e.to
  /\ PartnersBend

LEMMA FrameBends ==
  ASSUME IInv, BendInv, NEW keyHeld \in BOOLEAN, Tick(keyHeld)
  PROVE  BendInv'
<1>1. UNCHANGED arrays /\ base \in 1..Len(arrays) /\ Ordered(Edges)
  BY DEF Tick, scene, IInv, TypeOK, BendInv, Edges
<1>2. CASE UNCHANGED <<bent, painted>>
  BY <1>1, <1>2 DEF BendInv, PartnersBend
<1>3. CASE bent' = Rebent /\ painted'.edges = Edges /\ painted'.bent = Rebent \cap Edges
  <2>1. Open = Unmet(Edges)
    BY <1>1, OpenIs
  <2>2. \A e \in bent' : e.from # e.to
    BY <1>3 DEF BendInv, Rebent, Loops
  <2>3. ASSUME NEW e \in Edges
        PROVE  e \in Rebent <=> /\ e.from # e.to
                                /\ Rank(Edges, e) <= Count(Edges, e.to, e.from)
    <3>1. Rank(Edges, e) \in Nat /\ Count(Edges, e.to, e.from) \in Nat
      BY <1>1, PartsAreFinite
    <3>2. CASE e.from = e.to
      BY <1>3, <2>2, <3>2
    <3>3. CASE e.from # e.to
      <4>1. e \in Rebent <=> e \notin Open
        BY <3>3 DEF Rebent, Loops
      <4> QED
        BY <2>1, <3>1, <3>3, <4>1 DEF Unmet
    <3> QED
      BY <3>2, <3>3
  <2>4. PartnersBend'
    <3>1. \A e \in painted'.edges :
            e \in painted'.bent <=>
              /\ e.from # e.to
              /\ Cardinality({f \in Between(painted'.edges, e.from, e.to) : f.no <= e.no})
                   <= Cardinality(Between(painted'.edges, e.to, e.from))
      BY <1>3, <2>3 DEF Rank, Alike, Count
    <3> QED
      BY <3>1 DEF PartnersBend, Between
  <2> QED
    BY <1>1, <2>2, <2>4 DEF BendInv
<1> QED
  BY <1>2, <1>3 DEF Tick

LEMMA LoadBends ==
  ASSUME IInv, BendInv, NEW f \in Files, NEW name \in Files, LoadEdges(f, name)
  PROVE  BendInv'
<1> DEFINE es == Graph[f].edges
           ok == Drawable(es)
           new == {NewEdge(es[i], i) : i \in ok}
<1>1. arrays' = Append(arrays, new) /\ UNCHANGED <<bent, painted>> /\ arrays \in Seq(SUBSET EdgeEntity)
  BY DEF LoadEdges, IInv, TypeOK
<1>2. arrays' \in Seq(SUBSET EdgeEntity)
  <2>1. IInv'
    BY LoadEdgesInv
  <2> QED
    BY <2>1 DEF IInv, TypeOK
<1>3. ok \in SUBSET (1..Len(es)) /\ Len(es) \in Nat
  BY GraphTyped DEF Drawable
<1>4. IsFiniteSet(new)
  <2>1. IsFiniteSet(1..Len(es))
    BY <1>3, FS_Interval
  <2>2. IsFiniteSet(ok)
    BY <1>3, <2>1, FS_Subset
  <2> HIDE DEF ok
  <2> DEFINE make == [i \in ok |-> NewEdge(es[i], i)]
  <2>3. make \in Surjection(ok, new)
    BY DEF Surjection
  <2> QED
    BY <2>2, <2>3, FS_Surjection
<1>5. (\A x, y \in new : x.no = y.no => x = y) /\ \A x \in new : x.no <= Len(es)
  BY <1>3 DEF NewEdge
<1> HIDE DEF new
<1>6. /\ Len(arrays') = Len(arrays) + 1 /\ Len(arrays) \in Nat /\ arrays'[Len(arrays) + 1] = new
      /\ \A i \in 1..Len(arrays) : arrays'[i] = arrays[i]
  BY <1>1
<1>7. Ordered(new)
  <2>1. new \in SUBSET EdgeEntity
    BY <1>2, <1>6
  <2> QED
    BY <1>3, <1>4, <1>5, <2>1 DEF Ordered
<1>8. ASSUME NEW i \in 1..Len(arrays') PROVE Ordered(arrays'[i])
  <2>1. CASE i = Len(arrays) + 1
    BY <1>6, <1>7, <2>1
  <2>2. CASE i \in 1..Len(arrays)
    BY <1>6, <2>2 DEF BendInv
  <2> QED
    BY <1>6, <2>1, <2>2
<1> QED
  BY <1>1, <1>8 DEF BendInv, PartnersBend

LEMMA RemoveBends ==
  ASSUME IInv, BendInv, NEW out, arrays' = [arrays EXCEPT ![base] = @ \ out],
         bent' \subseteq bent, painted' = painted
  PROVE  BendInv'
<1>1. arrays \in Seq(SUBSET EdgeEntity) /\ base \in 1..Len(arrays)
  BY DEF IInv, TypeOK
<1>2. /\ Len(arrays') = Len(arrays)
      /\ \A i \in 1..Len(arrays) : arrays'[i] \in SUBSET arrays[i]
  BY <1>1
<1>3. \A i \in 1..Len(arrays') : Ordered(arrays'[i])
  BY <1>2, SubsetOrdered DEF BendInv
<1> QED
  BY <1>3 DEF BendInv, PartnersBend

LEMMA NextBends ==
  ASSUME IInv, BendInv, [Next]_vars
  PROVE  BendInv'
<1>1. CASE UNCHANGED <<arrays, bent, painted>>
  BY <1>1 DEF BendInv, PartnersBend
<1>2. ASSUME NEW n \in nodes, RemoveNode(n) PROVE BendInv'
  <2>1. arrays' = [arrays EXCEPT ![base] = @ \ Loose(arrays[base], n)] /\ UNCHANGED <<bent, painted>>
    BY <1>2 DEF RemoveNode
  <2> QED
    BY <2>1, RemoveBends
<1>3. ASSUME NEW e \in Edges, RemoveEdge(e) PROVE BendInv'
  <2>1. arrays' = [arrays EXCEPT ![base] = @ \ {e}] /\ bent' \subseteq bent /\ painted' = painted
    BY <1>3 DEF RemoveEdge
  <2> QED
    BY <2>1, RemoveBends
<1>4. CASE Frame
  BY <1>4, FrameBends DEF Frame
<1>5. ASSUME NEW f \in Files, LoadNodes(f) \/ Load(f) PROVE UNCHANGED <<arrays, bent, painted>>
  BY <1>5 DEF LoadNodes, Load
<1>6. ASSUME NEW f \in Files, NEW name \in Files, LoadEdges(f, name) PROVE BendInv'
  BY <1>6, LoadBends
<1>7. ASSUME \/ \E s \in Spots : PointAt(s)
             \/ Leave \/ Wheel \/ \E down \in BOOLEAN : Button(down)
      PROVE  UNCHANGED <<arrays, bent, painted>>
  BY <1>7 DEF PointAt, Leave, Wheel, Button, scene
<1>8. CASE UNCHANGED vars
  BY <1>1, <1>8 DEF vars, scene
<1> QED
  BY <1>1, <1>2, <1>3, <1>4, <1>5, <1>6, <1>7, <1>8 DEF Next

(* The edges drawn as arcs are those that have a partner, for any files    *)
(* and whatever was loaded, removed and painted before.                    *)
THEOREM ArcsHavePartners == Spec => []PartnersBend
<1>1. Init => BendInv
  <2> SUFFICES ASSUME Init PROVE BendInv
    OBVIOUS
  <2>1. Len(arrays) = 1 /\ arrays[1] = {} /\ bent = {} /\ painted.edges = {}
    BY DEF Init, Shown, Edges
  <2>2. Ordered({})
    BY FS_EmptySet DEF Ordered
  <2> QED
    BY <2>1, <2>2 DEF BendInv, PartnersBend
<1>2. IInv /\ BendInv /\ [Next]_vars => BendInv'
  BY NextBends
<1>3. BendInv => PartnersBend
  BY DEF BendInv
<1> QED
  BY <1>1, <1>2, <1>3, InitInv, NextInv, PTL DEF Spec
=============================================================================
