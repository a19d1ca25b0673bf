---------------------------- MODULE PageRequests ----------------------------
(***************************************************************************)
(* How a page is answered: AuthMiddleware, then RoutingInterceptor around  *)
(* LoggingInterceptor around the handler, then the template engine, with   *)
(* the $meta module that all pages share (src/auth, src/utils,             *)
(* src/client/template-engine.ts, src/client/templates).                   *)
(*                                                                         *)
(* Requests interleave wherever a step awaits something: the lookup of the *)
(* user, the handler, the import of the page.  Resolving a route and       *)
(* rendering are synchronous.  A path is the sequence of its parts.        *)
(***************************************************************************)
EXTENDS Naturals, FiniteSets, Sequences, SequencesExt

CONSTANTS Requests, Users,
          Pages,    \* files under routes, without .svelte
          ParamOf,  \* of the names [x]: the parameter x
          Paths,    \* what is asked for
          None

Params == {ParamOf[n] : n \in DOMAIN ParamOf}
Dirs   == UNION {{SubSeq(p, 1, k) : k \in 0..(Len(p) - 1)} : p \in Pages}

ASSUME PathsTyped == Pages \cup Paths \subseteq Seq(STRING) \ {<<>>}

VARIABLES
  req,
  meta,    \* __state of $meta: set and read by whatever is rendered
  logged,  \* requests that server.log shows as answered with a 200
  reply,
  server

vars == <<req, meta, logged, reply, server>>

Meta == [route : Pages, path : Paths, user : Users \cup {None}]

ASSUME NoneIsNone == None \notin Meta \cup Pages \cup Dirs

Request == [phase : {"new", "looking", "guarded", "handling", "importing", "done"},
            page : BOOLEAN, path : Paths, params : SUBSET Params,
            user : Users \cup {None}, route : Pages \cup {None}]

Reply == [status : {"none", "missing", "error", "data", "page"}, meta : Meta \cup {None}]

Plain(s) == [status |-> s, meta |-> None]

TypeOK ==
  /\ req \in [Requests -> Request]
  /\ meta \in Meta \cup {None}
  /\ logged \in SUBSET Requests
  /\ reply \in [Requests -> Reply]
  /\ \A r \in Requests : reply[r].status = "page" <=> reply[r].meta # None
  /\ server \in {"up", "down"}

-----------------------------------------------------------------------------
(* resolveRoute. *)

Entries(dir) == {p \in Pages \cup Dirs : Len(p) = Len(dir) + 1 /\ IsPrefix(dir, p)}

Dynamic(p, params) == /\ Last(p) \in DOMAIN ParamOf
                      /\ ParamOf[Last(p)] \in params

Patterns(dir, params) == {p \in Entries(dir) : Dynamic(p, params)}

(* find() takes the first in the order of readdir, which is left open. *)
AnyEntry(S) == IF S = {} THEN None ELSE CHOOSE p \in S : TRUE

IfDir(p) == IF p \in Dirs THEN p ELSE None

PatternFirst(dir, part, params) ==
  IF Patterns(dir, params) # {} THEN IfDir(AnyEntry(Patterns(dir, params)))
  ELSE IfDir(Append(dir, part))

(* One part in the middle of a path: the directory of that name, or the    *)
(* first entry whose parameter the request has, if that is a directory.    *)
Descend(dir, part, params) ==
  IF Append(dir, part) \in Dirs THEN Append(dir, part)
  ELSE IfDir(AnyEntry(Patterns(dir, params)))

(* The last part: its file, the index of its directory, or a pattern file. *)
Leaf(dir, part, params) ==
  IF Append(dir, part) \in Pages THEN Append(dir, part)
  ELSE IF part = "" /\ Append(dir, "index") \in Pages THEN Append(dir, "index")
  ELSE IF dir \o <<part, "index">> \in Pages THEN dir \o <<part, "index">>
  ELSE AnyEntry(Patterns(dir, params) \cap Pages)

Resolve(parts, params) ==
  LET dir[k \in 0..Len(parts)] ==
        IF k = 0 THEN <<>>
        ELSE IF dir[k - 1] = None THEN None ELSE Descend(dir[k - 1], parts[k], params)
      last == dir[Len(parts) - 1]
  IN  IF last = None THEN None ELSE Leaf(last, parts[Len(parts)], params)

-----------------------------------------------------------------------------
Init ==
  /\ req \in [Requests -> {q \in Request : q.phase = "new" /\ q.user = None /\ q.route = None}]
  /\ meta = None /\ logged = {}
  /\ reply = [r \in Requests |-> Plain("none")]
  /\ server = "up"

Move(r, q) == /\ server = "up"
              /\ req' = [req EXCEPT ![r] = q]
              /\ UNCHANGED <<reply, server>>

Finish(r, answer) == /\ server = "up"
                     /\ req' = [req EXCEPT ![r].phase = "done"]
                     /\ reply' = [reply EXCEPT ![r] = answer]
                     /\ UNCHANGED server

(* A request with a token has its user looked up, one without goes on. *)
Middleware(r) ==
  LET q == req[r]
  IN  /\ q.phase = "new"
      /\ \E phase \in {"looking", "guarded"} : Move(r, [q EXCEPT !.phase = phase])
      /\ UNCHANGED <<meta, logged>>

Lookup(r) ==
  LET q == req[r]
  IN  /\ q.phase = "looking"
      /\ \E u \in Users \cup {None} : Move(r, [q EXCEPT !.phase = "guarded", !.user = u])
      /\ UNCHANGED <<meta, logged>>

(* A lookup that is rejected is handled by nobody. *)
LookupFails(r) ==
  /\ req[r].phase = "looking" /\ server = "up"
  /\ server' = "down"
  /\ UNCHANGED <<req, meta, logged, reply>>

(* The route is resolved before the handler is called. *)
Intercept(r) ==
  LET q == req[r]
      route == IF q.page THEN Resolve(q.path, q.params) ELSE None
  IN  /\ q.phase = "guarded"
      /\ IF q.page /\ route = None
         THEN Finish(r, Plain("missing"))
         ELSE Move(r, [q EXCEPT !.phase = "handling", !.route = route])
      /\ UNCHANGED <<meta, logged>>

HandlerFails(r) ==
  /\ req[r].phase = "handling"
  /\ Finish(r, Plain("error"))
  /\ UNCHANGED <<meta, logged>>

(* The handler's value is logged, a page's before it is rendered. *)
Handle(r) ==
  LET q == req[r]
  IN  /\ q.phase = "handling"
      /\ IF q.page THEN Move(r, [q EXCEPT !.phase = "importing"])
         ELSE Finish(r, Plain("data"))
      /\ logged' = logged \cup {r}
      /\ UNCHANGED meta

OwnMeta(q) == [route |-> q.route, path |-> q.path, user |-> q.user]

ReadBefore(own) == IF meta = None THEN own ELSE meta
ReadBack(own) == own

(* The page has been imported; App sets __state and the page reads it. *)
Render(r) ==
  LET q == req[r]
  IN  /\ q.phase = "importing"
      /\ meta' = OwnMeta(q)
      /\ Finish(r, [status |-> "page", meta |-> ReadBack(OwnMeta(q))])
      /\ UNCHANGED logged

(* The import fails, or the page throws before or after it set __state. *)
RenderFailsSilently(r) ==
  LET q == req[r]
  IN  /\ q.phase = "importing" /\ server = "up"
      /\ meta' \in {meta, OwnMeta(q)}
      /\ UNCHANGED <<req, logged, reply, server>>

RenderFails(r) ==
  LET q == req[r]
  IN  /\ q.phase = "importing"
      /\ meta' \in {meta, OwnMeta(q)}
      /\ Finish(r, Plain("error"))
      /\ UNCHANGED logged

Step(r) == \/ Middleware(r) \/ Lookup(r) \/ Intercept(r) \/ HandlerFails(r) \/ Handle(r)
           \/ Render(r) \/ RenderFails(r)

Next == \E r \in Requests : Step(r) \/ LookupFails(r)

Spec == Init /\ [][Next]_vars

(* Lookups, handlers and imports settle. *)
FairSpec == Spec /\ \A r \in Requests : WF_vars(Step(r))

-----------------------------------------------------------------------------
(* Properties. *)

(* A page resolves only to a file that matches the path part by part, a    *)
(* dynamic name standing for any part whose parameter the request has.     *)
Fits(name, part, params) ==
  \/ name = part
  \/ name \in DOMAIN ParamOf /\ ParamOf[name] \in params

Candidates(path, params) ==
  {p \in Pages :
     \/ /\ Len(p) = Len(path)
        /\ \A i \in 1..Len(p) : \/ Fits(p[i], path[i], params)
                                \/ i = Len(p) /\ path[i] = "" /\ p[i] = "index"
     \/ /\ Len(p) = Len(path) + 1 /\ Last(p) = "index" /\ p[Len(path)] = Last(path)
        /\ \A i \in 1..(Len(path) - 1) : Fits(p[i], path[i], params)}

Literally(path) == {path, path \o <<"index">>,
                    [path EXCEPT ![Len(path)] = IF @ = "" THEN "index" ELSE @]}

(* The page that bears the path's own names is never hidden by a dynamic   *)
(* one, although resolveRoute goes down the tree without coming back.      *)
OwnNamesWin ==
  \A r \in Requests :
    LET q == req[r]
        literal == Literally(q.path) \cap Pages
    IN  /\ q.route # None => q.route \in Candidates(q.path, q.params)
        /\ q.route # None /\ literal # {} => q.route \in literal
        /\ reply[r].status = "missing" => literal = {}

(* The HTML of a request is made from its own route, path and user,        *)
(* although all renders go through the one __state of $meta.               *)
PageIsOwn ==
  \A r \in Requests : reply[r].status = "page" => reply[r].meta = OwnMeta(req[r])

(* Every request is answered unless the server goes down, and only with    *)
(* what server.log says: a page or data is never sent unlogged.            *)
EveryRequestIsAnswered ==
  \A r \in Requests :
    <>[](\/ reply[r].status \in {"missing", "error"}
         \/ reply[r].status \in {"page", "data"} /\ r \in logged
         \/ server = "down")
=============================================================================
