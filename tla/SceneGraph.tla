----------------------------- MODULE SceneGraph -----------------------------
(***************************************************************************)
(* What the client's graph engine shows: Engine (client/lib/engine) with   *)
(* the page that loads graphs into it (client/routes/index.svelte).        *)
(*                                                                         *)
(* The engine draws two layers, edges below nodes.  Handlers change the    *)
(* layers and mark the scene dirty; an animation frame (Tick) paints a     *)
(* dirty scene.  The page keeps the array of every edge file it loaded and *)
(* can put it back: layer 0 IS that array, and the other arrays live on.   *)
(*                                                                         *)
(* A layer is the set of its entities; .no is the order they were added    *)
(* in.  Geometry is abstract: a spot says which shapes lie under it.       *)
(***************************************************************************)
EXTENDS Naturals, FiniteSets, Sequences, Folds

CONSTANTS Labels, Files,
          Graph,      \* of each file: its nodes and its edges, by label
          Spots,      \* places of the pointer: nodes, lines and arcs under it
          MaxNodes,   \* bound of the nodes ever made
          MaxArrays,  \* bound of the edge arrays ever made
          MaxRemovals,
          Off, None

ASSUME GraphTyped ==
  Graph \in [Files -> [nodes : Seq(Labels), edges : Seq(Labels \X Labels)]]

VARIABLES
  nodes,     \* layers[1]
  arrays,    \* the edge arrays, by the order they were made in
  base,      \* the one that is layers[0]
  shelf,     \* graphs: the array under the name of each file, 0 if none
  bent,      \* edges whose cycleState is not null
  selected, pointer, pressed, dirty,
  made, removals,  \* nodes made and calls of remove so far
  painted,   \* what the canvas shows
  unseen,    \* layers[0] was replaced without marking the scene dirty
  missed     \* arrays that were not layers[0] when a node was removed

scene == <<nodes, arrays, base, shelf, made, removals, missed>>
vars  == <<scene, bent, selected, pointer, pressed, dirty, painted, unseen>>

NodeEntity == [label : Labels, no : Nat]
EdgeEntity == [from : NodeEntity, to : NodeEntity, of : Nat, no : Nat]
Entity     == NodeEntity \cup EdgeEntity
Picture    == [nodes : SUBSET NodeEntity, edges : SUBSET EdgeEntity,
               bent : SUBSET EdgeEntity, selected : Entity \cup {None}]

TypeOK ==
  /\ nodes \in SUBSET NodeEntity
  /\ arrays \in Seq(SUBSET EdgeEntity)
  /\ base \in 1..Len(arrays)
  /\ shelf \in [Files -> 0..Len(arrays)]
  /\ bent \in SUBSET EdgeEntity
  /\ selected \in Entity \cup {None}
  /\ pointer \in Spots \cup {Off}
  /\ pressed \in BOOLEAN /\ dirty \in BOOLEAN /\ unseen \in BOOLEAN
  /\ made \in Nat /\ removals \in Nat
  /\ painted \in Picture
  /\ missed \in SUBSET (1..Len(arrays))

Edges == arrays[base]
Shown == [nodes |-> nodes, edges |-> Edges, bent |-> bent \cap Edges, selected |-> selected]

Init ==
  /\ nodes = {} /\ arrays = <<{}>> /\ base = 1
  /\ shelf = [f \in Files |-> 0]
  /\ bent = {} /\ selected = None /\ pointer = Off
  /\ pressed = FALSE /\ dirty = FALSE /\ unseen = FALSE
  /\ made = 0 /\ removals = 0 /\ missed = {}
  /\ painted = Shown

-----------------------------------------------------------------------------
(* The page. *)

(* The nodes of a file come on top of those of the files loaded before. *)
LoadNodes(f) ==
  LET n == Len(Graph[f].nodes)
  IN  /\ made + n <= MaxNodes
      /\ nodes' = nodes \cup {[label |-> Graph[f].nodes[i], no |-> made + i] : i \in 1..n}
      /\ made' = made + n
      /\ dirty' = TRUE
      /\ UNCHANGED <<arrays, base, shelf, removals, missed, bent, selected, pointer, pressed,
                     painted, unseen>>

Latest(S) == CHOOSE x \in S : \A y \in S : y.no <= x.no

Bearers(l) == {n \in nodes : n.label = l}

(* The Edge constructor throws when an end is undefined; the edges made    *)
(* before it stay in the new layer.                                        *)
Resolves(e) == Bearers(e[1]) # {} /\ Bearers(e[2]) # {}

NewEdge(e, i) == [from |-> Latest(Bearers(e[1])), to |-> Latest(Bearers(e[2])),
                  of |-> Len(arrays) + 1, no |-> i]

Drawable(es) == {i \in 1..Len(es) : \A j \in 1..i : Resolves(es[j])}

(* The edges of file f; the array is kept under name, the file picked when *)
(* the text of f had been read.                                            *)
LoadEdges(f, name) ==
  LET es == Graph[f].edges
      ok == Drawable(es)
      whole == ok = 1..Len(es)
  IN  /\ Len(arrays) < MaxArrays
      /\ arrays' = Append(arrays, {NewEdge(es[i], i) : i \in ok})
      /\ base' = Len(arrays) + 1
      /\ shelf' = IF whole THEN [shelf EXCEPT ![name] = Len(arrays) + 1] ELSE shelf
      /\ dirty' = (dirty \/ whole \/ ok # {})
      /\ unseen' = (unseen \/ (~whole /\ ok = {}))
      /\ UNCHANGED <<nodes, made, removals, missed, bent, selected, pointer, pressed, painted>>

Load(name) ==
  /\ shelf[name] # 0
  /\ base' = shelf[name]
  /\ unseen' = (unseen \/ base' # base)
  /\ UNCHANGED <<nodes, arrays, shelf, made, removals, missed, bent, selected, pointer, pressed,
                 dirty, painted>>

-----------------------------------------------------------------------------
(* Engine.remove, which the page exposes as window.engine. *)

LooseFrom(es, n) == {e \in es : e.from = n}
Loose(es, n) == {e \in es : e.from = n \/ e.to = n}

(* A node goes with its edges in the layers, not with those put aside. *)
RemoveNode(n) ==
  /\ removals < MaxRemovals /\ removals' = removals + 1
  /\ nodes' = nodes \ {n}
  /\ arrays' = [arrays EXCEPT ![base] = @ \ Loose(@, n)]
  /\ missed' = missed \cup ((1..Len(arrays)) \ {base})
  /\ dirty' = TRUE
  /\ UNCHANGED <<base, shelf, made, bent, selected, pointer, pressed, painted, unseen>>

Opposite(e, f) == f.from = e.to /\ f.to = e.from

First(S) == CHOOSE x \in S : \A y \in S : x.no <= y.no

Doppels(e) == {f \in Edges \ {e} : Opposite(e, f)}

RemoveEdge(e) ==
  /\ removals < MaxRemovals /\ removals' = removals + 1
  /\ arrays' = [arrays EXCEPT ![base] = @ \ {e}]
  /\ bent' = IF Doppels(e) = {} THEN bent ELSE bent \ {First(Doppels(e))}
  /\ dirty' = TRUE
  /\ UNCHANGED <<nodes, base, shelf, made, missed, selected, pointer, pressed, painted,
                 unseen>>

-----------------------------------------------------------------------------
(* The mouse. *)

PointAt(s) ==
  /\ pointer' = s
  /\ UNCHANGED <<scene, bent, selected, pressed, dirty, painted, unseen>>

Leave == PointAt(Off)

Button(down) ==
  /\ pointer # Off
  /\ pressed' = down
  /\ UNCHANGED <<scene, bent, selected, pointer, dirty, painted, unseen>>

Wheel ==
  /\ pointer # Off
  /\ dirty' = TRUE
  /\ UNCHANGED <<scene, bent, selected, pointer, pressed, painted, unseen>>

-----------------------------------------------------------------------------
(* The animation frame. *)

NodesHit == {n \in nodes : n.label \in pointer.nodes}
EdgesHit == {e \in Edges : <<e.from.label, e.to.label>>
                             \in IF e \in bent THEN pointer.arcs ELSE pointer.lines}

(* selectedBy is asked of the last entity of the last layer first. *)
Topmost ==
  IF pointer = Off THEN None
  ELSE IF NodesHit # {} THEN Latest(NodesHit)
  ELSE IF EdgesHit # {} THEN Latest(EdgesHit)
  ELSE None

MeetAll(e, open) ==
  LET mates == {f \in open : Opposite(e, f)}
  IN  IF mates # {} THEN open \ mates
      ELSE IF e.from # e.to THEN open \cup {e} ELSE open

(* The scan over the layer: an edge meets the first opposite edge that is  *)
(* still open, or is left open itself.                                     *)
Meet(e, open) ==
  LET mates == {f \in open : Opposite(e, f)}
  IN  IF mates # {} THEN open \ {First(mates)}
      ELSE IF e.from # e.to THEN open \cup {e} ELSE open

Open == MapThenFoldSet(Meet, {}, LAMBDA e : e, Latest, Edges)

Loops(es) == {e \in es : e.from = e.to}

Rebent == (bent \cup (Edges \ Loops(Edges))) \ Open

StirredByChange(sel) == sel # selected
StirredByHit(sel) == sel # selected /\ sel # None

(* Nothing under the pointer marks the scene dirty in every frame. *)
Stirred(sel) == sel # selected \/ sel = None

Tick(keyHeld) ==
  LET sel == IF pressed THEN selected ELSE Topmost
  IN  /\ selected' = sel
      /\ IF dirty \/ keyHeld \/ (~pressed /\ Stirred(sel))
         THEN /\ bent' = Rebent
              /\ painted' = [nodes |-> nodes, edges |-> Edges,
                             bent |-> Rebent \cap Edges, selected |-> sel]
              /\ dirty' = FALSE
              /\ unseen' = FALSE
         ELSE UNCHANGED <<bent, painted, dirty, unseen>>
      /\ UNCHANGED <<scene, pointer, pressed>>

Frame == \E keyHeld \in BOOLEAN : Tick(keyHeld)

Next ==
  \/ Frame
  \/ \E f \in Files : LoadNodes(f) \/ Load(f)
  \/ \E f, name \in Files : LoadEdges(f, name)
  \/ \E n \in nodes : RemoveNode(n)
  \/ \E e \in Edges : RemoveEdge(e)
  \/ \E s \in Spots : PointAt(s)
  \/ Leave
  \/ \E down \in BOOLEAN : Button(down)
  \/ Wheel

Spec == Init /\ [][Next]_vars

(* requestAnimationFrame calls _tick again and again.  A frame with a key  *)
(* held leaves nothing to do for one without, so this asks for no release. *)
FairSpec == Spec /\ WF_vars(Tick(FALSE))

-----------------------------------------------------------------------------
(* Properties. *)

Between(es, a, b) == {e \in es : e.from = a /\ e.to = b}

(* The scan of _tick bends exactly the edges that have a partner: the k-th *)
(* edge from a to b is drawn as an arc iff b has at least k edges to a,    *)
(* whatever was loaded, removed and painted before; a loop never is.       *)
PartnersBend ==
  \A e \in painted.edges :
    LET alike == {f \in Between(painted.edges, e.from, e.to) : f.no <= e.no}
    IN  e \in painted.bent <=>
          /\ e.from # e.to
          /\ Cardinality(alike) <= Cardinality(Between(painted.edges, e.to, e.from))

(* Edges join nodes of the scene, in every array but those that were put   *)
(* aside while remove took a node away.                                    *)
EdgesJoinNodes ==
  \A a \in (1..Len(arrays)) \ missed : \A e \in arrays[a] : {e.from, e.to} \subseteq nodes

(* A scene that is neither dirty nor replaced behind the engine's back is  *)
(* on the canvas as it is: no handler forgets to mark what it changes.     *)
PaintedUnlessMarked == ~dirty /\ ~unseen => painted = Shown

(* Engine.load marks nothing, yet its array is shown: the frames after it  *)
(* paint anew unless the mouse holds or may hit an entity.                 *)
LoadIsShown == unseen ~> (~unseen \/ pressed \/ pointer # Off)
=============================================================================
