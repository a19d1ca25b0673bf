------------------------- MODULE PageRequestsProofs -------------------------
(* The safety of PageRequests for any tree of pages, paths and requests.   *)
EXTENDS PageRequests, TLAPS, SequenceTheorems, WellFoundedInduction

(* What a request in progress holds, and what it has been sent. *)
SlotInv ==
  \A r \in Requests :
    /\ req[r].phase = "importing" => req[r].route \in Pages /\ r \in logged
    /\ req[r].phase = "handling" /\ req[r].page => req[r].route \in Pages
    /\ req[r].phase # "done" => reply[r].status = "none"
    /\ reply[r].status \in {"page", "data"} => r \in logged

IInv == TypeOK /\ SlotInv /\ PageIsOwn

(* A path resolves to a page or to nothing. *)
LEMMA ResolveIsPage ==
  ASSUME NEW parts, NEW params
  PROVE  Resolve(parts, params) \in Pages \cup {None}
<1>1. ASSUME NEW S \in SUBSET Pages PROVE AnyEntry(S) \in Pages \cup {None}
  BY DEF AnyEntry
<1>2. ASSUME NEW dir, NEW part PROVE Leaf(dir, part, params) \in Pages \cup {None}
  <2>1. Patterns(dir, params) \cap Pages \in SUBSET Pages
    OBVIOUS
  <2>2. AnyEntry(Patterns(dir, params) \cap Pages) \in Pages \cup {None}
    BY <1>1, <2>1
  <2> QED
    BY <2>2 DEF Leaf
<1> HIDE DEF Leaf
<1> QED
  BY <1>2 DEF Resolve

(* Replies other than pages. *)
LEMMA PlainIsReply ==
  ASSUME NEW s \in {"none", "missing", "error", "data"}
  PROVE  Plain(s) \in Reply /\ Plain(s).status = s /\ Plain(s).meta = None
BY DEF Plain, Reply

(* A request moves on, unanswered. *)
LEMMA MoveInv ==
  ASSUME IInv, NEW r \in Requests, req[r].phase # "done",
         NEW q \in Request, q.phase # "done", Move(r, q),
         meta' = meta, logged' = logged \/ logged' = logged \cup {r},
         q.phase = "importing" => q.route \in Pages /\ r \in logged',
         q.phase = "handling" /\ q.page => q.route \in Pages
  PROVE  IInv'
<1> USE DEF IInv
<1>1. /\ req' \in [Requests -> Request] /\ req'[r] = q
      /\ \A s \in Requests : s # r => req'[s] = req[s]
      /\ UNCHANGED <<reply, meta>> /\ server' \in {"up", "down"}
      /\ logged \subseteq logged' /\ logged' \in SUBSET Requests
  BY DEF TypeOK, Move
<1>2. TypeOK'
  BY <1>1 DEF TypeOK
<1>3. SlotInv'
  BY <1>1 DEF SlotInv
<1>4. PageIsOwn'
  BY <1>1 DEF PageIsOwn, SlotInv, OwnMeta
<1> QED
  BY <1>2, <1>3, <1>4

(* A request is answered. *)
LEMMA FinishInv ==
  ASSUME IInv, NEW r \in Requests, NEW answer \in Reply, Finish(r, answer),
         answer.status = "page" <=> answer.meta # None,
         answer.status = "page" => answer.meta = OwnMeta(req[r]),
         meta' \in Meta \cup {None}, logged' = logged \/ logged' = logged \cup {r},
         answer.status \in {"page", "data"} => r \in logged'
  PROVE  IInv'
<1> USE DEF IInv
<1> DEFINE q == [req[r] EXCEPT !.phase = "done"]
<1>1. /\ q \in Request /\ q.phase = "done" /\ q.route = req[r].route /\ q.path = req[r].path
      /\ q.user = req[r].user
  BY DEF TypeOK, Request
<1>2. req' = [req EXCEPT ![r] = q] /\ reply' = [reply EXCEPT ![r] = answer]
  BY DEF Finish, TypeOK
<1> HIDE DEF q
<1>3. /\ req' \in [Requests -> Request] /\ req'[r] = q /\ reply'[r] = answer
      /\ \A s \in Requests : s # r => req'[s] = req[s] /\ reply'[s] = reply[s]
      /\ reply' \in [Requests -> Reply] /\ server' \in {"up", "down"}
      /\ logged \subseteq logged' /\ logged' \in SUBSET Requests
  BY <1>1, <1>2 DEF TypeOK, Finish
<1>4. TypeOK'
  BY <1>3 DEF TypeOK
<1>5. SlotInv'
  BY <1>1, <1>3 DEF SlotInv
<1>6. PageIsOwn'
  BY <1>1, <1>3 DEF PageIsOwn, OwnMeta
<1> QED
  BY <1>4, <1>5, <1>6

LEMMA StepInv ==
  ASSUME IInv, NEW r \in Requests, Step(r)
  PROVE  IInv'
<1> USE PlainIsReply DEF IInv
<1>0. req[r] \in Request /\ meta \in Meta \cup {None}
  BY DEF TypeOK
<1>1. CASE Middleware(r)
  <2> PICK phase \in {"looking", "guarded"} : Move(r, [req[r] EXCEPT !.phase = phase])
    BY <1>1 DEF Middleware
  <2> DEFINE q == [req[r] EXCEPT !.phase = phase]
  <2>1. q \in Request /\ q.phase = phase
    BY <1>0 DEF Request
  <2>2. Move(r, q) /\ req[r].phase # "done" /\ UNCHANGED <<meta, logged>>
    BY <1>1 DEF Middleware
  <2> HIDE DEF q
  <2> QED
    BY <2>1, <2>2, MoveInv
<1>2. CASE Lookup(r)
  <2> PICK u \in Users \cup {None} :
        Move(r, [req[r] EXCEPT !.phase = "guarded", !.user = u])
    BY <1>2 DEF Lookup
  <2> DEFINE q == [req[r] EXCEPT !.phase = "guarded", !.user = u]
  <2>1. q \in Request /\ q.phase = "guarded"
    BY <1>0 DEF Request
  <2>2. Move(r, q) /\ req[r].phase # "done" /\ UNCHANGED <<meta, logged>>
    BY <1>2 DEF Lookup
  <2> HIDE DEF q
  <2> QED
    BY <2>1, <2>2, MoveInv
<1>3. CASE Intercept(r)
  <2> DEFINE route == IF req[r].page THEN Resolve(req[r].path, req[r].params) ELSE None
             q == [req[r] EXCEPT !.phase = "handling", !.route = route]
  <2>1. route \in Pages \cup {None}
    BY ResolveIsPage
  <2>2. /\ req[r].phase = "guarded" /\ UNCHANGED <<meta, logged>>
        /\ IF req[r].page /\ route = None THEN Finish(r, Plain("missing")) ELSE Move(r, q)
    BY <1>3 DEF Intercept
  <2> HIDE DEF route
  <2>3. q \in Request /\ q.phase = "handling" /\ q.route = route /\ q.page = req[r].page
    BY <1>0, <2>1 DEF Request
  <2> HIDE DEF q
  <2>4. CASE req[r].page /\ route = None
    <3>1. Finish(r, Plain("missing"))
      BY <2>2, <2>4
    <3> QED
      BY <1>0, <2>2, <3>1, FinishInv
  <2>5. CASE ~(req[r].page /\ route = None)
    <3>1. Move(r, q)
      BY <2>2, <2>5
    <3> QED
      BY <2>1, <2>2, <2>3, <2>5, <3>1, MoveInv
  <2> QED
    BY <2>4, <2>5
<1>4. CASE HandlerFails(r)
  <2>1. Finish(r, Plain("error")) /\ UNCHANGED <<meta, logged>>
    BY <1>4 DEF HandlerFails
  <2> QED
    BY <1>0, <2>1, FinishInv
<1>5. CASE Handle(r)
  <2> DEFINE q == [req[r] EXCEPT !.phase = "importing"]
  <2>1. q \in Request /\ q.phase = "importing" /\ q.route = req[r].route
    BY <1>0 DEF Request
  <2>2. /\ req[r].phase = "handling" /\ logged' = logged \cup {r} /\ meta' = meta
        /\ IF req[r].page THEN Move(r, q) ELSE Finish(r, Plain("data"))
    BY <1>5 DEF Handle
  <2> HIDE DEF q
  <2>3. CASE req[r].page
    <3>1. req[r].route \in Pages /\ Move(r, q)
      BY <2>2, <2>3 DEF SlotInv
    <3> QED
      BY <2>1, <2>2, <3>1, MoveInv
  <2>4. CASE ~req[r].page
    <3>1. Finish(r, Plain("data"))
      BY <2>2, <2>4
    <3> QED
      BY <1>0, <2>2, <3>1, FinishInv
  <2> QED
    BY <2>3, <2>4
<1>6. ASSUME req[r].phase = "importing"
      PROVE  OwnMeta(req[r]) \in Meta /\ r \in logged
  <2>1. req[r].route \in Pages /\ r \in logged
    BY <1>6 DEF SlotInv
  <2> QED
    BY <1>0, <2>1 DEF OwnMeta, Meta, Request
<1>7. CASE Render(r)
  <2> DEFINE own == OwnMeta(req[r])
             answer == [status |-> "page", meta |-> own]
  <2>1. own \in Meta /\ own # None /\ r \in logged
    BY <1>6, <1>7, NoneIsNone DEF Render
  <2>2. meta' = own /\ Finish(r, answer) /\ UNCHANGED logged
    BY <1>7 DEF Render, ReadBack
  <2> HIDE DEF own
  <2>3. answer \in Reply /\ answer.status = "page" /\ answer.meta = own
    BY <2>1 DEF Reply
  <2> HIDE DEF answer
  <2> QED
    BY <2>1, <2>2, <2>3, FinishInv DEF own
<1>8. CASE RenderFails(r)
  <2>1. Finish(r, Plain("error")) /\ meta' \in {meta, OwnMeta(req[r])} /\ UNCHANGED logged
    BY <1>8 DEF RenderFails
  <2>2. OwnMeta(req[r]) \in Meta
    BY <1>6, <1>8 DEF RenderFails
  <2>3. meta' \in Meta \cup {None}
    BY <1>0, <2>1, <2>2
  <2> QED
    BY <2>1, <2>3, FinishInv
<1> QED
  BY <1>1, <1>2, <1>3, <1>4, <1>5, <1>7, <1>8 DEF Step

-----------------------------------------------------------------------------
LEMMA InitInv == Init => IInv
<1> SUFFICES ASSUME Init PROVE IInv
  OBVIOUS
<1>1. /\ req \in [Requests -> Request] /\ reply \in [Requests -> Reply]
      /\ \A r \in Requests : /\ req[r].phase = "new"
                             /\ reply[r].status = "none" /\ reply[r].meta = None
  BY PlainIsReply DEF Init
<1>2. TypeOK
  BY <1>1 DEF Init, TypeOK
<1> QED
  BY <1>1, <1>2 DEF IInv, SlotInv, PageIsOwn

LEMMA NextInv == IInv /\ [Next]_vars => IInv'
<1> SUFFICES ASSUME IInv, [Next]_vars PROVE IInv'
  OBVIOUS
<1>1. CASE UNCHANGED vars
  BY <1>1 DEF vars, IInv, TypeOK, SlotInv, PageIsOwn, OwnMeta
<1>2. ASSUME NEW r \in Requests, LookupFails(r) PROVE IInv'
  BY <1>2 DEF LookupFails, IInv, TypeOK, SlotInv, PageIsOwn, OwnMeta
<1> QED
  BY <1>1, <1>2, StepInv DEF Next

(* Every variable keeps its type, whatever a path resolves to. *)
THEOREM TypeCorrect == Spec => []TypeOK
<1>1. IInv => TypeOK
  BY DEF IInv
<1> QED
  BY <1>1, InitInv, NextInv, PTL DEF Spec

(* However imports interleave, the page sent for a request was rendered    *)
(* from that request's route, path and user.                               *)
THEOREM OwnPageOnly == Spec => []PageIsOwn
<1>1. IInv => PageIsOwn
  BY DEF IInv
<1> QED
  BY <1>1, InitInv, NextInv, PTL DEF Spec

(* Nothing but errors is sent that server.log does not show. *)
THEOREM SentIsLogged ==
  Spec => [](\A r \in Requests : reply[r].status \in {"page", "data"} => r \in logged)
<1> DEFINE Logged == \A r \in Requests : reply[r].status \in {"page", "data"} => r \in logged
<1>1. IInv => Logged
  BY DEF IInv, SlotInv
<1> HIDE DEF Logged
<1>2. Spec => []Logged
  BY <1>1, InitInv, NextInv, PTL DEF Spec
<1> QED
  BY <1>2 DEF Logged

-----------------------------------------------------------------------------

LEMMA LeastOf ==
  ASSUME NEW S \in SUBSET Nat, S # {}
  PROVE  \E x \in S : \A y \in S : x <= y
<1> DEFINE R == OpToRel(<, Nat)
<1>1. IsWellFoundedOn(R, Nat)
  BY NatLessThanWellFounded
<1>2. ASSUME NEW x \in Nat, NEW y \in Nat, ~ (<<y, x>> \in R) PROVE x <= y
  BY <1>2 DEF OpToRel
<1> HIDE DEF R
<1>3. PICK x \in S : \A y \in S : ~ (<<y, x>> \in R)
  BY <1>1, WFMin, Zenon
<1> QED
  BY <1>2, <1>3

(* A part of a path is a string; nothing here looks into it, and that       *)
(* "index" is one is all there is to know.                                  *)
Part == STRING \cup {"index"}

LEMMA PathsAre ==
  /\ \A p \in Pages \cup Paths : p \in Seq(Part) /\ Len(p) \in Nat /\ Len(p) >= 1
  /\ \A p \in Dirs : p \in Seq(Part) /\ Len(p) \in Nat
  /\ \A p \in Pages : \A k \in 0..(Len(p) - 1) : SubSeq(p, 1, k) \in Dirs
  /\ Pages # {} => <<>> \in Dirs
<1>1. \A p \in Pages \cup Paths : p \in Seq(Part) /\ Len(p) \in Nat /\ Len(p) >= 1
  <2>1. Pages \cup Paths \subseteq Seq(Part) \ {<<>>}
    BY PathsTyped, SeqMonotonic DEF Part
  <2> QED
    BY <2>1
<1>2. \A p \in Pages : \A k \in 0..(Len(p) - 1) : SubSeq(p, 1, k) \in Seq(Part)
  BY <1>1
<1>3. \A p \in Pages : \A k \in 0..(Len(p) - 1) : SubSeq(p, 1, k) \in Dirs
  BY DEF Dirs
<1>4. ASSUME NEW p \in Pages PROVE <<>> \in Dirs
  <2>1. 0 \in 0..(Len(p) - 1) /\ SubSeq(p, 1, 0) = <<>>
    BY <1>1
  <2> QED
    BY <1>3, <2>1
<1>5. \A p \in Dirs : p \in Seq(Part) /\ Len(p) \in Nat
  BY <1>2 DEF Dirs
<1> QED
  BY <1>1, <1>3, <1>4, <1>5

(* The walk down the tree, n parts deep. *)
Walks(path, params, n, dir) ==
  dir = [k \in 0..n |->
           IF k = 0 THEN <<>>
           ELSE IF dir[k - 1] = None THEN None ELSE Descend(dir[k - 1], path[k], params)]

LEMMA WalkExists ==
  ASSUME NEW path, NEW params, NEW n \in Nat
  PROVE  \E dir : Walks(path, params, n, dir)
<1> DEFINE Has(k) == \E dir : Walks(path, params, k, dir)
           S == {k \in Nat : ~ Has(k)}
<1>1. Has(0)
  <2> DEFINE dir == [k \in 0..0 |-> <<>>]
  <2>1. Walks(path, params, 0, dir)
    BY DEF Walks
  <2> QED
    BY <2>1
<1>2. ASSUME NEW m \in Nat, Has(m) PROVE Has(m + 1)
  <2> PICK dir : Walks(path, params, m, dir)
    BY <1>2
  <2> DEFINE next == IF dir[m] = None THEN None ELSE Descend(dir[m], path[m + 1], params)
             longer == [k \in 0..(m + 1) |-> IF k = m + 1 THEN next ELSE dir[k]]
  <2>1. ASSUME NEW k \in 0..(m + 1)
        PROVE  longer[k] = IF k = 0 THEN <<>>
                           ELSE IF longer[k - 1] = None THEN None
                           ELSE Descend(longer[k - 1], path[k], params)
    <3>1. CASE k = m + 1
      <4>1. k # 0 /\ k - 1 = m /\ m \in 0..(m + 1) /\ m # m + 1
        BY <3>1
      <4>2. longer[k] = next /\ longer[k - 1] = dir[m]
        BY <3>1, <4>1
      <4> HIDE DEF longer
      <4> QED
        BY <3>1, <4>1, <4>2
    <3>2. CASE k # m + 1
      <4>1. k \in 0..m /\ (k # 0 => k - 1 \in 0..m /\ k - 1 \in 0..(m + 1) /\ k - 1 # m + 1)
        BY <3>2
      <4>2. longer[k] = dir[k] /\ (k # 0 => longer[k - 1] = dir[k - 1])
        BY <3>2, <4>1
      <4> HIDE DEF longer
      <4>3. dir[k] = IF k = 0 THEN <<>>
                     ELSE IF dir[k - 1] = None THEN None
                     ELSE Descend(dir[k - 1], path[k], params)
        BY <4>1 DEF Walks
      <4> QED
        BY <4>2, <4>3
    <3> QED
      BY <3>1, <3>2
  <2>2. Walks(path, params, m + 1, longer)
    BY <2>1 DEF Walks
  <2> QED
    BY <2>2
<1> HIDE DEF Has
<1>3. ASSUME S # {} PROVE FALSE
  <2>1. PICK k \in S : \A j \in S : k <= j
    BY <1>3, LeastOf
  <2>2. k # 0 /\ k - 1 \in Nat /\ Has(k - 1)
    BY <1>1, <2>1
  <2>3. Has(k)
    BY <1>2, <2>2
  <2> QED
    BY <2>3
<1> QED
  BY <1>3 DEF Has

(* A path resolves to the leaf of the directory the walk ends in. *)
LEMMA ResolveIs ==
  ASSUME NEW path \in Paths, NEW params
  PROVE  \E dir :
           /\ dir[0] = <<>>
           /\ \A k \in 1..(Len(path) - 1) :
                dir[k] = IF dir[k - 1] = None THEN None ELSE Descend(dir[k - 1], path[k], params)
           /\ LET last == dir[Len(path) - 1]
              IN  Resolve(path, params) =
                    IF last = None THEN None ELSE Leaf(last, path[Len(path)], params)
<1> DEFINE n == Len(path)
           dir == CHOOSE dir : Walks(path, params, n, dir)
           last == dir[n - 1]
<1>1. n \in Nat /\ n >= 1
  BY PathsAre
<1>2. Walks(path, params, n, dir)
  BY <1>1, WalkExists
<1>3. Resolve(path, params) = IF last = None THEN None ELSE Leaf(last, path[n], params)
  BY DEF Resolve, Walks
<1> HIDE DEF dir
<1>4. dir[0] = <<>> /\ \A k \in 1..(n - 1) :
        dir[k] = IF dir[k - 1] = None THEN None ELSE Descend(dir[k - 1], path[k], params)
  BY <1>1, <1>2 DEF Walks
<1> QED
  BY <1>3, <1>4

(* An entry found for a parameter lies in the directory and is dynamic. *)
LEMMA PatternsAre ==
  ASSUME NEW d \in Seq(Part), NEW params, NEW part, NEW p \in Patterns(d, params)
  PROVE  /\ p \in Pages \cup Dirs /\ p \in Seq(Part) /\ Len(p) = Len(d) + 1
         /\ \A i \in 1..Len(d) : p[i] = d[i]
         /\ Fits(p[Len(d) + 1], part, params)
<1>1. p \in Pages \cup Dirs /\ p \in Seq(Part) /\ Len(p) = Len(d) + 1 /\ IsPrefix(d, p)
  BY PathsAre DEF Patterns, Entries
<1>2. Last(p) = p[Len(d) + 1]
  BY <1>1 DEF Last
<1>3. Fits(p[Len(d) + 1], part, params)
  BY <1>2 DEF Patterns, Dynamic, Fits
<1>4. ASSUME NEW i \in 1..Len(d) PROVE p[i] = d[i]
  <2>1. SubSeq(d, 1, Len(d)) = SubSeq(p, 1, Len(d)) /\ Len(d) \in Nat /\ Len(p) \in Nat
    BY <1>1 DEF IsPrefix
  <2>2. SubSeq(d, 1, Len(d))[i] = d[i] /\ SubSeq(p, 1, Len(d))[i] = p[i]
    BY <1>1, <2>1
  <2> QED
    BY <2>1, <2>2
<1> QED
  BY <1>1, <1>3, <1>4

(* A part leads one directory down, by its own name if there is such.       *)
LEMMA DescendIs ==
  ASSUME NEW d \in Seq(Part), NEW part \in Part, NEW params
  PROVE  LET e == Descend(d, part, params)
         IN  /\ Append(d, part) \in Dirs => e = Append(d, part)
             /\ e = None \/ /\ e \in Seq(Part) /\ Len(e) = Len(d) + 1
                            /\ \A i \in 1..Len(d) : e[i] = d[i]
                            /\ Fits(e[Len(d) + 1], part, params)
<1> DEFINE e == Descend(d, part, params)
           p == AnyEntry(Patterns(d, params))
<1>1. CASE Append(d, part) \in Dirs
  <2>1. e = Append(d, part)
    BY <1>1 DEF Descend
  <2>2. /\ Append(d, part) \in Seq(Part) /\ Len(Append(d, part)) = Len(d) + 1
        /\ \A i \in 1..Len(d) : Append(d, part)[i] = d[i]
        /\ Append(d, part)[Len(d) + 1] = part
    OBVIOUS
  <2> HIDE DEF e
  <2> QED
    BY <2>1, <2>2 DEF e, Fits
<1>2. CASE Append(d, part) \notin Dirs
  <2>1. e = None \/ (e = p /\ p # None)
    BY <1>2 DEF Descend, IfDir
  <2>2. p = None \/ p \in Patterns(d, params)
    BY DEF AnyEntry
  <2> HIDE DEF e, p
  <2>3. e = None \/ e \in Patterns(d, params)
    BY <2>1, <2>2
  <2> QED
    BY <1>2, <2>3, PatternsAre DEF e
<1> QED
  BY <1>1, <1>2

(* Where the walk is after k parts it has matched them, and where the tree  *)
(* has them by their own names it is there.                                 *)
LEMMA WalkMatches ==
  ASSUME NEW path \in Paths, NEW params, NEW dir, dir[0] = <<>>,
         \A k \in 1..(Len(path) - 1) :
           dir[k] = IF dir[k - 1] = None THEN None ELSE Descend(dir[k - 1], path[k], params),
         NEW n \in 0..(Len(path) - 1)
  PROVE  /\ \/ dir[n] = None
            \/ /\ dir[n] \in Seq(Part) /\ Len(dir[n]) = n
               /\ \A i \in 1..n : Fits(dir[n][i], path[i], params)
         /\ (\A k \in 1..n : SubSeq(path, 1, k) \in Dirs) => dir[n] = SubSeq(path, 1, n)
<1> DEFINE Matched(k) ==
             \/ dir[k] = None
             \/ /\ dir[k] \in Seq(Part) /\ Len(dir[k]) = k
                /\ \A i \in 1..k : Fits(dir[k][i], path[i], params)
           Named(k) == (\A j \in 1..k : SubSeq(path, 1, j) \in Dirs) => dir[k] = SubSeq(path, 1, k)
           Fine(k) == Matched(k) /\ Named(k)
           S == {k \in Nat : k \in 0..(Len(path) - 1) /\ ~ Fine(k)}
<1>1. path \in Seq(Part) /\ Len(path) \in Nat /\ Len(path) >= 1
  BY PathsAre
<1>2. Fine(0)
  <2>1. <<>> \in Seq(Part) /\ Len(<<>>) = 0 /\ SubSeq(path, 1, 0) = <<>>
    BY <1>1
  <2> QED
    BY <2>1
<1>3. ASSUME NEW k \in 1..(Len(path) - 1), Fine(k - 1) PROVE Fine(k)
  <2>1. k \in Nat /\ k - 1 \in Nat /\ path[k] \in Part /\ k \in 1..Len(path)
    BY <1>1
  <2>2. dir[k] = IF dir[k - 1] = None THEN None ELSE Descend(dir[k - 1], path[k], params)
    OBVIOUS
  <2>3. Matched(k)
    <3>1. CASE dir[k - 1] = None
      BY <2>2, <3>1
    <3>2. CASE dir[k - 1] # None
      <4>0. PICK d, e : d = dir[k - 1] /\ e = dir[k]
        OBVIOUS
      <4>1. /\ d \in Seq(Part) /\ Len(d) = k - 1
            /\ \A i \in 1..(k - 1) : Fits(d[i], path[i], params)
        BY <1>3, <3>2, <4>0
      <4>1a. e = Descend(d, path[k], params)
        BY <2>2, <3>2, <4>0
      <4>2. e = None \/ /\ e \in Seq(Part) /\ Len(e) = k
                        /\ \A i \in 1..(k - 1) : e[i] = d[i]
                        /\ Fits(e[k], path[k], params)
        BY <2>1, <4>1, <4>1a, DescendIs
      <4>3. e = None \/ \A i \in 1..k : Fits(e[i], path[i], params)
        <5> SUFFICES ASSUME e # None, NEW i \in 1..k PROVE Fits(e[i], path[i], params)
          OBVIOUS
        <5>1. CASE i = k
          BY <4>2, <5>1
        <5>2. CASE i # k
          BY <2>1, <4>1, <4>2, <5>2
        <5> QED
          BY <5>1, <5>2
      <4> QED
        BY <4>0, <4>2, <4>3
    <3> QED
      BY <3>1, <3>2
  <2>4. Named(k)
    <3> SUFFICES ASSUME \A j \in 1..k : SubSeq(path, 1, j) \in Dirs
                 PROVE  dir[k] = SubSeq(path, 1, k)
      OBVIOUS
    <3> DEFINE d == SubSeq(path, 1, k - 1)
    <3>1. dir[k - 1] = d
      BY <1>3, <2>1
    <3>2. d \in Seq(Part) /\ Len(d) = k - 1 /\ Append(d, path[k]) = SubSeq(path, 1, k)
      BY <1>1, <2>1
    <3>3. SubSeq(path, 1, k) \in Dirs
      BY <2>1
    <3>4. d # None
      <4>1. CASE k = 1
        <5>1. d = <<>> /\ Pages # {}
          BY <3>2, <3>3, <4>1 DEF Dirs
        <5> QED
          BY <5>1, PathsAre, NoneIsNone
      <4>2. CASE k # 1
        <5>1. k - 1 \in 1..k
          BY <2>1, <4>2
        <5>2. d \in Dirs
          BY <5>1
        <5> QED
          BY <5>2, NoneIsNone
      <4> QED
        BY <4>1, <4>2
    <3> HIDE DEF d
    <3> QED
      BY <2>1, <2>2, <3>1, <3>2, <3>3, <3>4, DescendIs
  <2> QED
    BY <2>3, <2>4
<1> HIDE DEF Fine
<1>4. ASSUME S # {} PROVE FALSE
  <2>1. PICK k \in S : \A j \in S : k <= j
    BY <1>4, LeastOf
  <2>2. k \in 0..(Len(path) - 1) /\ k # 0 /\ ~ Fine(k)
    BY <1>2
  <2>3. k \in 1..(Len(path) - 1) /\ k - 1 \in 0..(Len(path) - 1)
    BY <1>1, <2>2
  <2>4. Fine(k - 1)
    BY <2>1, <2>3
  <2> QED
    BY <1>3, <2>2, <2>3, <2>4
<1>5. Fine(n)
  BY <1>1, <1>4
<1> QED
  BY <1>5 DEF Fine

(* The leaf of a directory that matches all parts but the last is a page    *)
(* that matches the path.                                                   *)
LEMMA LeafMatches ==
  ASSUME NEW path \in Paths, NEW params, NEW n \in Nat, n = Len(path), n >= 1,
         NEW d \in Seq(Part), Len(d) = n - 1,
         \A i \in 1..(n - 1) : Fits(d[i], path[i], params),
         NEW p, p = Leaf(d, path[n], params), p # None
  PROVE  p \in Candidates(path, params)
<1> DEFINE part == path[n]
<1>1. path \in Seq(Part) /\ part \in Part /\ "index" \in Part
  <2>1. path \in Seq(Part) /\ n \in 1..Len(path)
    BY PathsAre
  <2>2. "index" \in Part
    BY DEF Part
  <2> QED
    BY <2>1, <2>2
<1>2. ASSUME NEW x \in Part, p = Append(d, x), p \in Pages,
             Fits(x, part, params) \/ (part = "" /\ x = "index")
      PROVE  p \in Candidates(path, params)
  <2>1. p \in Seq(Part) /\ Len(p) \in Nat
    BY <1>2, PathsAre
  <2>2. Len(p) = n /\ p[n] = x /\ \A i \in 1..(n - 1) : p[i] = d[i]
    <3>1. /\ Len(Append(d, x)) = Len(d) + 1 /\ Append(d, x)[Len(d) + 1] = x
          /\ \A i \in 1..Len(d) : Append(d, x)[i] = d[i]
      BY AppendProperties
    <3>2. Len(d) + 1 = n /\ Len(d) = n - 1
      OBVIOUS
    <3> QED
      BY <1>2, <3>1, <3>2
  <2>3. ASSUME NEW i \in 1..n
        PROVE  Fits(p[i], path[i], params) \/ (i = n /\ path[i] = "" /\ p[i] = "index")
    <3>1. CASE i = n
      BY <1>2, <2>2, <3>1
    <3>2. CASE i # n
      <4>1. i \in 1..(n - 1)
        BY <3>2
      <4> QED
        BY <2>2, <4>1
    <3> QED
      BY <3>1, <3>2
  <2> QED
    BY <1>2, <2>2, <2>3 DEF Candidates
<1>3. CASE Append(d, part) \in Pages
  BY <1>1, <1>2, <1>3 DEF Leaf, Fits
<1>4. CASE Append(d, part) \notin Pages /\ part = "" /\ Append(d, "index") \in Pages
  BY <1>1, <1>2, <1>4 DEF Leaf
<1>5. CASE p = d \o <<part, "index">> /\ p \in Pages
  <2>1. /\ Len(p) = n + 1 /\ p[n + 1] = "index" /\ p[n] = part
        /\ \A i \in 1..(n - 1) : p[i] = d[i]
    BY <1>5
  <2>2. Last(p) = "index" /\ Last(path) = part
    BY <2>1 DEF Last
  <2> QED
    BY <1>5, <2>1, <2>2 DEF Candidates
<1>6. CASE p \in Patterns(d, params) \cap Pages
  <2>1. /\ p \in Seq(Part) /\ Len(p) = n /\ Fits(p[n], part, params)
        /\ \A i \in 1..(n - 1) : p[i] = d[i]
    <3>1. /\ p \in Seq(Part) /\ Len(p) = Len(d) + 1 /\ Fits(p[Len(d) + 1], part, params)
          /\ \A i \in 1..Len(d) : p[i] = d[i]
      BY <1>6, PatternsAre
    <3>2. Len(d) + 1 = n /\ Len(d) = n - 1
      OBVIOUS
    <3> QED
      BY <3>1, <3>2
  <2>2. ASSUME NEW i \in 1..n PROVE Fits(p[i], path[i], params)
    <3>1. CASE i = n
      BY <2>1, <3>1
    <3>2. CASE i # n
      <4>1. i \in 1..(n - 1)
        BY <3>2
      <4> QED
        BY <2>1, <4>1
    <3> QED
      BY <3>1, <3>2
  <2> QED
    BY <1>6, <2>1, <2>2 DEF Candidates
<1>7. p = AnyEntry(Patterns(d, params) \cap Pages) => p \in Patterns(d, params) \cap Pages
  BY DEF AnyEntry
<1> QED
  BY <1>3, <1>4, <1>5, <1>6, <1>7 DEF Leaf

(* A page of the path's own names: all its directories are there, and the   *)
(* leaf of the last of them is such a page.                                 *)
LEMMA LiteralLeaf ==
  ASSUME NEW path \in Paths, NEW params, NEW n \in Nat, n = Len(path), n >= 1,
         Literally(path) \cap Pages # {},
         NEW d, d = SubSeq(path, 1, n - 1)
  PROVE  /\ \A k \in 1..(n - 1) : SubSeq(path, 1, k) \in Dirs
         /\ d # None
         /\ Leaf(d, path[n], params) \in Literally(path) \cap Pages
<1>1. path \in Seq(Part) /\ path[n] \in Part /\ "index" \in Part
  <2>1. path \in Seq(Part) /\ n \in 1..Len(path)
    BY PathsAre
  <2>2. "index" \in Part
    BY DEF Part
  <2> QED
    BY <2>1, <2>2
<1>2. /\ d \in Seq(Part) /\ Len(d) = n - 1 /\ \A i \in 1..(n - 1) : d[i] = path[i]
  BY <1>1
<1>3. /\ Append(d, path[n]) = path
      /\ d \o <<path[n], "index">> = path \o <<"index">>
      /\ path[n] = "" => Append(d, "index") = [path EXCEPT ![n] = "index"]
  <2> DEFINE e == [path EXCEPT ![n] = "index"]
  <2>1. /\ Append(d, path[n]) \in Seq(Part) /\ Len(Append(d, path[n])) = n
        /\ \A i \in 1..n : Append(d, path[n])[i] = path[i]
    BY <1>1, <1>2
  <2>2. /\ d \o <<path[n], "index">> \in Seq(Part) /\ Len(d \o <<path[n], "index">>) = n + 1
        /\ path \o <<"index">> \in Seq(Part) /\ Len(path \o <<"index">>) = n + 1
        /\ \A i \in 1..(n + 1) : (d \o <<path[n], "index">>)[i] = (path \o <<"index">>)[i]
    BY <1>1, <1>2
  <2>3. /\ Append(d, "index") \in Seq(Part) /\ Len(Append(d, "index")) = n
        /\ e \in Seq(Part) /\ Len(e) = n
        /\ \A i \in 1..n : Append(d, "index")[i] = e[i]
    BY <1>1, <1>2
  <2>4. Append(d, path[n]) = path
    BY <1>1, <2>1, SeqEqual
  <2>5. d \o <<path[n], "index">> = path \o <<"index">>
    BY <2>2, SeqEqual
  <2>6. Append(d, "index") = e
    BY <2>3, SeqEqual
  <2> QED
    BY <2>4, <2>5, <2>6
<1>4. \A p \in Literally(path) \cap Pages :
        Len(p) >= n /\ \A k \in 0..(n - 1) : SubSeq(p, 1, k) = SubSeq(path, 1, k)
  <2> SUFFICES ASSUME NEW p \in Literally(path) \cap Pages
               PROVE  Len(p) >= n /\ \A k \in 0..(n - 1) : SubSeq(p, 1, k) = SubSeq(path, 1, k)
    OBVIOUS
  <2>1. p \in Seq(Part) /\ Len(p) \in Nat /\ Len(p) >= n /\ \A i \in 1..(n - 1) : p[i] = path[i]
    <3>1. CASE p = path
      BY <1>1, <3>1
    <3>2. CASE p = path \o <<"index">>
      BY <1>1, <3>2
    <3>3. CASE p = [path EXCEPT ![n] = IF @ = "" THEN "index" ELSE @]
      <4>1. PICK y \in Part : y = IF path[n] = "" THEN "index" ELSE path[n]
        BY <1>1
      <4>2. p = [path EXCEPT ![n] = y]
        BY <3>3, <4>1
      <4> QED
        BY <1>1, <4>2
    <3> QED
      BY <3>1, <3>2, <3>3 DEF Literally
  <2>2. ASSUME NEW k \in 0..(n - 1) PROVE SubSeq(p, 1, k) = SubSeq(path, 1, k)
    <3>1. /\ SubSeq(p, 1, k) \in Seq(Part) /\ SubSeq(path, 1, k) \in Seq(Part)
          /\ Len(SubSeq(p, 1, k)) = k /\ Len(SubSeq(path, 1, k)) = k
          /\ \A i \in 1..k : SubSeq(p, 1, k)[i] = p[i] /\ SubSeq(path, 1, k)[i] = path[i]
      BY <1>1, <2>1
    <3>2. \A i \in 1..k : SubSeq(p, 1, k)[i] = SubSeq(path, 1, k)[i]
      BY <2>1, <3>1
    <3> QED
      BY <3>1, <3>2, SeqEqual
  <2> QED
    BY <2>1, <2>2
<1>5. \A k \in 0..(n - 1) : SubSeq(path, 1, k) \in Dirs
  <2> PICK p \in Literally(path) \cap Pages : TRUE
    OBVIOUS
  <2> SUFFICES ASSUME NEW k \in 0..(n - 1) PROVE SubSeq(path, 1, k) \in Dirs
    OBVIOUS
  <2>1. Len(p) \in Nat /\ k \in 0..(Len(p) - 1) /\ SubSeq(p, 1, k) = SubSeq(path, 1, k)
    BY <1>4, PathsAre
  <2>2. SubSeq(p, 1, k) \in Dirs
    BY <2>1, PathsAre
  <2> QED
    BY <2>1, <2>2
<1>6. d # None
  <2>1. d \in Dirs
    BY <1>5
  <2> QED
    BY <2>1, NoneIsNone
<1>7. Leaf(d, path[n], params) \in Literally(path) \cap Pages
  <2>1. Literally(path) = {path, path \o <<"index">>,
                           IF path[n] = "" THEN [path EXCEPT ![n] = "index"] ELSE path}
    <3>1. [path EXCEPT ![n] = IF @ = "" THEN "index" ELSE @]
            = IF path[n] = "" THEN [path EXCEPT ![n] = "index"] ELSE path
      <4> DEFINE e == [path EXCEPT ![n] = path[n]]
      <4>1. e \in Seq(Part) /\ Len(e) = n /\ \A i \in 1..n : e[i] = path[i]
        BY <1>1
      <4>2. e = path
        BY <1>1, <4>1, SeqEqual
      <4>3. CASE path[n] = ""
        BY <4>3
      <4>4. CASE path[n] # ""
        <5>1. [path EXCEPT ![n] = IF @ = "" THEN "index" ELSE @] = e
          BY <4>4
        <5> QED
          BY <4>2, <4>4, <5>1
      <4> QED
        BY <4>3, <4>4
    <3> QED
      BY <3>1 DEF Literally
  <2> QED
    BY <1>3, <2>1 DEF Leaf
<1> QED
  BY <1>5, <1>6, <1>7

LEMMA ResolveMatches ==
  ASSUME NEW path \in Paths, NEW params, NEW p, p = Resolve(path, params)
  PROVE  /\ p # None => p \in Candidates(path, params)
         /\ Literally(path) \cap Pages # {} => p \in Literally(path) \cap Pages
<1> DEFINE n == Len(path)
<1>1. n \in Nat /\ n >= 1 /\ n - 1 \in 0..(n - 1)
  BY PathsAre
<1>2. PICK dir :
        /\ dir[0] = <<>>
        /\ \A k \in 1..(n - 1) :
             dir[k] = IF dir[k - 1] = None THEN None ELSE Descend(dir[k - 1], path[k], params)
        /\ LET last == dir[n - 1]
           IN  p = IF last = None THEN None ELSE Leaf(last, path[n], params)
  BY ResolveIs
<1>3. PICK d : d = dir[n - 1] /\ p = IF d = None THEN None ELSE Leaf(d, path[n], params)
  BY <1>2
<1>4. /\ d = None \/ /\ d \in Seq(Part) /\ Len(d) = n - 1
                     /\ \A i \in 1..(n - 1) : Fits(d[i], path[i], params)
      /\ (\A k \in 1..(n - 1) : SubSeq(path, 1, k) \in Dirs) => d = SubSeq(path, 1, n - 1)
  <2>1. n - 1 \in 0..(Len(path) - 1) /\ dir[0] = <<>>
        /\ \A k \in 1..(Len(path) - 1) :
             dir[k] = IF dir[k - 1] = None THEN None ELSE Descend(dir[k - 1], path[k], params)
    BY <1>1, <1>2
  <2>2. /\ \/ dir[n - 1] = None
           \/ /\ dir[n - 1] \in Seq(Part) /\ Len(dir[n - 1]) = n - 1
              /\ \A i \in 1..(n - 1) : Fits(dir[n - 1][i], path[i], params)
        /\ (\A k \in 1..(n - 1) : SubSeq(path, 1, k) \in Dirs) => dir[n - 1] = SubSeq(path, 1, n - 1)
    <3>1. PICK m \in 0..(Len(path) - 1) : m = n - 1
      BY <2>1
    <3>2. /\ \/ dir[m] = None
             \/ /\ dir[m] \in Seq(Part) /\ Len(dir[m]) = m
                /\ \A i \in 1..m : Fits(dir[m][i], path[i], params)
          /\ (\A k \in 1..m : SubSeq(path, 1, k) \in Dirs) => dir[m] = SubSeq(path, 1, m)
      BY <2>1, WalkMatches
    <3> QED
      BY <3>1, <3>2, Zenon
  <2> QED
    BY <1>3, <2>2
<1> HIDE DEF n
<1>5. p # None => p \in Candidates(path, params)
  BY <1>1, <1>3, <1>4, LeafMatches DEF n
<1>6. Literally(path) \cap Pages # {} => p \in Literally(path) \cap Pages
  BY <1>1, <1>3, <1>4, LiteralLeaf DEF n
<1> QED
  BY <1>5, <1>6

-----------------------------------------------------------------------------
(* A request holds what its path resolves to, and is told of a missing page *)
(* when that is nothing.                                                    *)
RouteInv ==
  \A r \in Requests :
    /\ req[r].route # None => req[r].route = Resolve(req[r].path, req[r].params)
    /\ reply[r].status = "missing" => Resolve(req[r].path, req[r].params) = None

(* Steps that neither resolve a path nor answer that its page is missing. *)
LEMMA RoutesKept ==
  ASSUME TypeOK, RouteInv, NEW r \in Requests,
         \E q \in Request :
           /\ q.route = req[r].route /\ q.path = req[r].path /\ q.params = req[r].params
           /\ req' = [req EXCEPT ![r] = q],
         reply' = reply \/ \E answer \in Reply : /\ answer.status # "missing"
                                                 /\ reply' = [reply EXCEPT ![r] = answer]
  PROVE  RouteInv'
<1> PICK q \in Request :
      /\ q.route = req[r].route /\ q.path = req[r].path /\ q.params = req[r].params
      /\ req' = [req EXCEPT ![r] = q]
  OBVIOUS
<1> SUFFICES ASSUME NEW s \in Requests
             PROVE  /\ req'[s].route # None => req'[s].route = Resolve(req'[s].path, req'[s].params)
                    /\ reply'[s].status = "missing" => Resolve(req'[s].path, req'[s].params) = None
  BY DEF RouteInv
<1>1. req'[s].route = req[s].route /\ req'[s].path = req[s].path /\ req'[s].params = req[s].params
  BY DEF TypeOK
<1>2. reply'[s].status = "missing" => reply[s].status = "missing"
  BY DEF TypeOK
<1> QED
  BY <1>1, <1>2 DEF RouteInv

LEMMA FinishAnswers ==
  ASSUME TypeOK, RouteInv, NEW r \in Requests, NEW answer \in Reply, Finish(r, answer),
         answer.status # "missing"
  PROVE  RouteInv'
<1> DEFINE q == [req[r] EXCEPT !.phase = "done"]
<1>1. /\ q \in Request /\ q.route = req[r].route /\ q.path = req[r].path /\ q.params = req[r].params
      /\ req' = [req EXCEPT ![r] = q]
  BY DEF TypeOK, Request, Finish
<1>2. reply' = [reply EXCEPT ![r] = answer]
  BY DEF Finish
<1> QED
  BY <1>1, <1>2, RoutesKept

LEMMA StepKeepsRoutes ==
  ASSUME IInv, RouteInv, NEW r \in Requests, Step(r)
  PROVE  RouteInv'
<1>0. TypeOK /\ req[r] \in Request
  BY DEF IInv, TypeOK
<1>1. CASE Middleware(r)
  <2> PICK phase \in {"looking", "guarded"} : Move(r, [req[r] EXCEPT !.phase = phase])
    BY <1>1 DEF Middleware
  <2> DEFINE q == [req[r] EXCEPT !.phase = phase]
  <2>1. /\ q \in Request /\ q.route = req[r].route /\ q.path = req[r].path /\ q.params = req[r].params
        /\ req' = [req EXCEPT ![r] = q] /\ reply' = reply
    BY <1>0 DEF Request, Move
  <2> QED
    BY <1>0, <2>1, RoutesKept
<1>2. CASE Lookup(r)
  <2> PICK u \in Users \cup {None} : Move(r, [req[r] EXCEPT !.phase = "guarded", !.user = u])
    BY <1>2 DEF Lookup
  <2> DEFINE q == [req[r] EXCEPT !.phase = "guarded", !.user = u]
  <2>1. /\ q \in Request /\ q.route = req[r].route /\ q.path = req[r].path /\ q.params = req[r].params
        /\ req' = [req EXCEPT ![r] = q] /\ reply' = reply
    BY <1>0 DEF Request, Move
  <2> QED
    BY <1>0, <2>1, RoutesKept
<1>3. CASE Intercept(r)
  <2> PICK route : route = IF req[r].page THEN Resolve(req[r].path, req[r].params) ELSE None
    OBVIOUS
  <2>1. CASE req[r].page /\ route = None
    <3>1. Finish(r, Plain("missing")) /\ Resolve(req[r].path, req[r].params) = None
      BY <1>3, <2>1 DEF Intercept
    <3> SUFFICES ASSUME NEW s \in Requests
                 PROVE  /\ req'[s].route # None => req'[s].route = Resolve(req'[s].path, req'[s].params)
                        /\ reply'[s].status = "missing" => Resolve(req'[s].path, req'[s].params) = None
      BY DEF RouteInv
    <3>2. req'[s].route = req[s].route /\ req'[s].path = req[s].path /\ req'[s].params = req[s].params
      BY <1>0, <3>1 DEF TypeOK, Finish, Request
    <3>3. s # r => reply'[s] = reply[s]
      BY <1>0, <3>1 DEF TypeOK, Finish
    <3> QED
      BY <3>1, <3>2, <3>3 DEF RouteInv
  <2>2. CASE ~(req[r].page /\ route = None)
    <3>1. Move(r, [req[r] EXCEPT !.phase = "handling", !.route = route])
      BY <1>3, <2>2 DEF Intercept
    <3> SUFFICES ASSUME NEW s \in Requests
                 PROVE  /\ req'[s].route # None => req'[s].route = Resolve(req'[s].path, req'[s].params)
                        /\ reply'[s].status = "missing" => Resolve(req'[s].path, req'[s].params) = None
      BY DEF RouteInv
    <3>2. req'[s].path = req[s].path /\ req'[s].params = req[s].params /\ reply' = reply
      BY <1>0, <3>1 DEF TypeOK, Move, Request
    <3>3. req'[s].route = IF s = r THEN route ELSE req[s].route
      BY <1>0, <3>1 DEF TypeOK, Move, Request
    <3> QED
      BY <3>2, <3>3 DEF RouteInv
  <2> QED
    BY <2>1, <2>2
<1>4. CASE HandlerFails(r) \/ RenderFails(r)
  <2>1. Finish(r, Plain("error"))
    BY <1>4 DEF HandlerFails, RenderFails
  <2> QED
    BY <1>0, <2>1, PlainIsReply, FinishAnswers
<1>5. CASE Handle(r)
  <2> DEFINE q == [req[r] EXCEPT !.phase = "importing"]
  <2>1. IF req[r].page THEN Move(r, q) ELSE Finish(r, Plain("data"))
    BY <1>5 DEF Handle
  <2>2. q \in Request /\ q.route = req[r].route /\ q.path = req[r].path /\ q.params = req[r].params
    BY <1>0 DEF Request
  <2> HIDE DEF q
  <2>3. CASE req[r].page
    <3>1. req' = [req EXCEPT ![r] = q] /\ reply' = reply
      BY <2>1, <2>3 DEF Move
    <3> QED
      BY <1>0, <2>2, <3>1, RoutesKept
  <2>4. CASE ~req[r].page
    <3>1. Finish(r, Plain("data"))
      BY <2>1, <2>4
    <3> QED
      BY <1>0, <3>1, PlainIsReply, FinishAnswers
  <2> QED
    BY <2>3, <2>4
<1>6. CASE Render(r)
  <2> DEFINE answer == [status |-> "page", meta |-> OwnMeta(req[r])]
  <2>1. req[r].route \in Pages /\ Finish(r, answer)
    BY <1>6 DEF Render, ReadBack, IInv, SlotInv
  <2>2. answer \in Reply /\ answer.status = "page"
    BY <1>0, <2>1 DEF Reply, OwnMeta, Meta, Request
  <2> HIDE DEF answer
  <2> QED
    BY <1>0, <2>1, <2>2, FinishAnswers
<1> QED
  BY <1>1, <1>2, <1>3, <1>4, <1>5, <1>6 DEF Step

LEMMA RouteInvHolds == Spec => [](IInv /\ RouteInv)
<1>1. Init => RouteInv
  BY DEF Init, RouteInv, Plain
<1>2. IInv /\ RouteInv /\ [Next]_vars => RouteInv'
  <2> SUFFICES ASSUME IInv, RouteInv, [Next]_vars PROVE RouteInv'
    OBVIOUS
  <2>1. CASE UNCHANGED vars \/ \E r \in Requests : LookupFails(r)
    BY <2>1 DEF vars, LookupFails, RouteInv
  <2> QED
    BY <2>1, StepKeepsRoutes DEF Next
<1> QED
  BY <1>1, <1>2, InitInv, NextInv, PTL DEF Spec

(* In any tree of pages, a path resolves to a page that matches it part by  *)
(* part, and to one of its own names if there is such a page: going down    *)
(* the tree without coming back never misses it.                            *)
THEOREM NamesWin == Spec => []OwnNamesWin
<1>1. IInv /\ RouteInv => OwnNamesWin
  <2> SUFFICES ASSUME IInv, RouteInv, NEW r \in Requests
               PROVE  /\ req[r].route # None => req[r].route \in Candidates(req[r].path, req[r].params)
                      /\ req[r].route # None /\ Literally(req[r].path) \cap Pages # {}
                           => req[r].route \in Literally(req[r].path) \cap Pages
                      /\ reply[r].status = "missing" => Literally(req[r].path) \cap Pages = {}
    BY DEF OwnNamesWin
  <2>1. req[r].path \in Paths
    BY DEF IInv, TypeOK, Request
  <2>2. None \notin Pages
    BY NoneIsNone
  <2> DEFINE path == req[r].path
             params == req[r].params
             p == Resolve(path, params)
  <2>3. /\ p # None => p \in Candidates(path, params)
        /\ Literally(path) \cap Pages # {} => p \in Literally(path) \cap Pages
    BY <2>1, ResolveMatches
  <2>4. /\ req[r].route # None => req[r].route = p
        /\ reply[r].status = "missing" => p = None
    BY DEF RouteInv
  <2> HIDE DEF path, params, p
  <2>5. /\ req[r].route # None => req[r].route \in Candidates(path, params)
        /\ req[r].route # None /\ Literally(path) \cap Pages # {} => req[r].route \in Literally(path) \cap Pages
        /\ reply[r].status = "missing" => Literally(path) \cap Pages = {}
    BY <2>2, <2>3, <2>4
  <2> QED
    BY <2>5 DEF path, params
<1> QED
  BY <1>1, RouteInvHolds, PTL
=============================================================================
