# A TLA+ model of the flight planner

The repository is a flight planner: a NestJS server with organizations, users
and fleets in a MySQL database (`src/src`, `src/prisma`), a browser client that
draws graphs (`src/src/client`), and a C++ solver (`src/analyzer`) that the
server runs as a child process and that decides which plane flies which request.
This directory models the parts whose correctness depends on the order of
things: concurrent requests, the pipe between the two programs, streams and
promises, the layers of a canvas, and the loops of the solver.

Paths below are relative to the repository, so `src/src/orgs` is the server's
`orgs` directory. Line numbers are those of `PROJECT.json`, whose `map` relates
each definition to its source.

## 1. Inventory

| Component | State it keeps | Operations | Hard part |
|---|---|---|---|
| RoutingService (`aviation/routing.service.ts`) | `resolvers`, the parser's `stdout` string, `processing/<opid>` directories | `route`, `process`, `'data'` listener | answers of several calls on one stream; the child may die |
| daemon (`drivers/daemon.cpp`) | a thread per opid, `streamMutex`, `cout`'s buffer | `main`, `processRouting` | threads share stdout; one uncaught exception ends all |
| `findRoute` (`lib/algo/routing.cpp`) | `planeOrder`, `baselineReqRoutes`, the heap of `RoutePlan`s | check, baseline, search | what is removed from and put back into the lists; when a plane or an entry is given up |
| Dijkstra, Floyd-Warshall (`lib/algo`) | the entries in and out of the heap; the table | `dijkstra`, `floydWarshall` | costs that change inside a heap; parents that must not form a circle; the nesting of three loops |
| `Graph` (`lib/utils/Graph.h*`) | nodes, edges, neighbors | link, read, copy, dump | a graph read from a file has no neighbors |
| mapgen (`drivers/mapgen.cpp`) | the airway graph of a plane model, its table | `mapFlights`, `recluster` | a repair loop that may give up; a table that has to be recomputed |
| Organizations (`orgs/`) | `Organization`, `Invite` rows | create, invite, accept, decline, cancel, rename, addRouting | reads, then a decision, then a write |
| Users, authentication (`users/`, `auth/`) | `User` rows; `req.user` | register, login, updateName, token lookup | duplicate emails and ids; bodies that rewrite any column of a row that others have read; a lookup that is rejected |
| Assets (`assets/`) | `Plane` rows | add, update, delete | races among themselves and with planRoute; ids that clients choose; what update does not check |
| planRoute (`aviation/aviation.controller.ts`) | `Routing` rows | demand -> route -> history | works on planes read two awaits ago |
| AviationService (`aviation/aviation.service.ts`) | three promises, an array that three streams fill | CSV loading | errors and ends of chained streams; rejections nobody handles |
| Client engine (`client/lib/engine`) and its page | layers, arrays put aside, selection, dirty flag, `cycleState` of edges | load, remove, mouse, `_tick` | state kept in step with repaints; arrays shared by reference |
| Page routing (`utils/interceptors`, `client/template-engine.ts`, `$meta`) | one `__state` for all renders; the log | `resolveRoute`, interceptors, render | a descent that never comes back; shared state across imports |
| Debounce action, drawing, geometry of flights, build scripts, inspection drivers | - | - | see section 6 |

How they interact. A client's `POST /aviation/route` reads its organization and
the CSV data, calls `RoutingService.route`, which writes four JSON files into a
new directory, writes the opid to the daemon's stdin and waits. A thread of the
daemon reads the files, runs `findRoute` on the binary maps that mapgen made
(`dijkstra` for the price of a flight, the table for its estimate), writes
`baseline.json` and `routing.json` or `errors.json` and prints the opid. The
listener of that stream resumes the call, which reads the files; planRoute
stores the plan in table `Routing`. Everything in Node runs on one thread; what
interleaves there are the awaits. The database is the only state that requests
share, besides `$meta`'s `__state`, the promises of AviationService and the
resolvers. A rejected promise without a handler, or a stream's `'error'` without
a listener, ends the server.

What makes each part correct:

- RoutingService and daemon: a call gets its own verdict, once, after the files
  are complete; no wake-up is lost; one call cannot take away what another
  needs; a call is eventually answered.
- `findRoute`: it ends; it never reads an empty heap; all passengers are
  carried, once; the plan costs no more than the greedy one; it fails only on
  what cannot be flown.
- Graph algorithms: the costs are least, the path accounts for them, and the
  table, computed by another algorithm in another program, agrees with both.
- mapgen: the cheapest flights are linked, no airway twice; the repair ends, and
  gives up only when no flight from a third airport helps, nor a direct one for
  the last pair.
- Organizations: members and invites change only as the endpoints promise,
  whatever the interleaving; an invite is spent once; a decision made on a
  snapshot is still justified when the write happens.
- Users: no two accounts share an email or a token, whatever clients write into
  these columns; a request acts on the account it was found for, and changes no
  other one, as long as nobody rewrites what accounts are found by.
- Assets and planRoute: a plane is changed by its own organization only, whatever
  id a body claims; planes are where their maps can serve them unless an update
  took them elsewhere; a plan that was made is stored.
- AviationService: what is published is what the files say together; whoever
  awaits it is answered.
- Page requests: the right file, rendered from the request's own data, logged
  and answered.
- Client: after every operation a later repaint shows the layers; pairs of
  opposite edges are bent apart, and only those; no operation leaves an edge of
  a removed node in a layer that is in use.

## 2. Modules

| Module | What it is |
|---|---|
| `RouteJobs` | what `route()` promises a caller (abstract) |
| `RoutingPipeline` | RoutingService and the daemon; implements `RouteJobs` |
| `FleetPlans` | Assets, planRoute and `addRouting` over one database; composed with `RouteJobs` as the planner |
| `InviteLedger` | what the organization endpoints promise (abstract) |
| `OrgInvites` | organizations, members, invites under concurrent requests; implements `InviteLedger` |
| `Accounts` | registration, login, token lookup, updates of one's own row |
| `AviationData` | AviationService: four CSV streams, three promises, the handlers that await them |
| `PageRequests` | middleware, interceptors, `resolveRoute`, template engine, `$meta` |
| `SceneGraph` | the client's engine and the page that loads graphs into it |
| `FindRoute` | the three phases of `findRoute` |
| `ShortestPaths` | `floydWarshall`, the binary files, `Graph`'s copy, `dijkstra` |
| `MapGen` | `mapFlights` and `recluster` |
| `...Proofs` | of `RoutingPipeline`, `OrgInvites`, `FindRoute`, `FleetPlans`, `Accounts`, `SceneGraph`, `PageRequests`, `ShortestPaths`: inductive invariants and theorems. `FleetPlansProofs` is also about `AviationData`, which publishes its airports, `ShortestPathsProofs` also about `MapGen`, which draws its maps |
| `MC...` | values for the constants of the runs |

### RoutingPipeline

`handler[op]` is the control state of a call: `new`, `prepared` (directory
written), `sent` (opid written to stdin), `waiting` (resolver registered), and
then how it ended: `ok` (a plan), `bad` (a 400 with the contents of
`errors.json`), `crash` (a 500 because there was nothing to read). `route()`
runs without yielding up to the registration, which is what `NodeIdle` says:
the daemon may act in between, Node may not. `worker[op]` is the thread; it
chooses a verdict (`Route`), opens and closes its files one by one, takes
`streamMutex`, prints the id and then the newline with the flush. `Abort` is an
exception that no handler takes, and ends the process.

A stream is a sequence of opids and newlines, not of characters: an opid is
written by one insertion into a buffer. A chunk is everything that was flushed
and not yet read. `Matches` is the regular expression as it is: without the `s`
and `m` flags its `(.*)$` does not cross a newline. That is why the listener's
loop runs at most once, and `StdoutData` has no loop.

### FleetPlans

Every handler reads the organization (`Begin`), awaits the airports and models
(`loaded`), and writes (`CommitAdd`, `CommitUpdate`, `CommitDelete`). planRoute
keeps the planes it read (`seen`), checks their models (`Specced`), hands them
to the planner (`Submit`), waits (`Hear`) and stores the answer (`Record`). The
planner is `Planner == INSTANCE RouteJobs`: `RoutingPipeline`, with its proof of
`ImplementsRouteJobs`, is what stands behind it. A job of `RouteJobs` that is
never answered is a call that hangs, so `Hear` may never be possible.

`rows` is table Plane, by organization and id, which are its key. A body is
validated before the handler runs but not stripped of columns that its DTO does
not name (`main.ts:28`), and the services hand it to Prisma as it is. So
`CommitAdd` takes any id, one that was deleted or that another organization uses
included, and refuses one that this organization uses (`Free`); `CommitUpdate`
may move the plane to any key that is free. What the body says is chosen where
it is looked at. `updated`, whether updatePlane ever changed a row, and `sent`,
what the planner was given, are histories that only the properties read. Prices,
the demand and its check are abstract: `Submit` may refuse any demand.

### OrgInvites

A request slot `req[r]` holds what a request in progress has read; `reply[r]`
is its last answer. `ReadOrg` reads the organization and checks the caller,
`InviteCreated` and `InviteRefused` are the tasks of `Promise.all` one by one,
the `Commit...` actions are the writes. A nested write of Prisma is one
transaction: connecting the user and deleting the invite happen together or
not at all. Tokens are random, so a token is never issued twice; `grant` keeps
what it was issued for after the row is gone, which lets the properties speak
about spent tokens. Requests of a single call (register, create, decline) are
single actions, and a failed one changes nothing and has no action. An
organization's id may be named by the body (`orgs.service.ts:42`); it is any id
that is not in use either way. Users are known by ids that stay: what the
properties say is about the endpoints under `/orgs`, not about a `PATCH
/users/me` that rewrites an id or a relation.
`DiffNowDays` is the age as luxon computes it: zero.

### Accounts

Each database call is a step. `Register` draws an id and a token (an id may be
in use, tokens are 32 random bytes and no draw hits one that was ever in use);
`Create` is the insert with the primary key and the two unique columns. The
branch of `register` that draws a new id looks for a constraint name that MySQL
reports as `PRIMARY`, so it is never taken, and `Create` refuses instead. `login`
reads the row twice: `Compare` checks the password, `Reread` returns what then
has the email. `Auth` is the middleware: it keeps the row in `req.user`, of which
the handlers `Me` and `UpdateName` use the id.

`UpdateName` writes the whole body. Nothing strips it (`main.ts:28`), so it may
set email, token, id and password as well as the name: `Updates` are all rows
that can come of it, `Clashes` the keys that refuse it, `Replaced` the table with
the row under its new id. A password is stored as it comes: it may be the hash
of any secret, or no hash at all (`Unhashed`), and then opens nothing. Because
every column may change, an account is known by `born`, the token drawn for it,
and `rewritten` are the accounts whose id or email an update has changed; both
are histories that no guard reads. A hash is its password: bcrypt and its salt
are abstract. `LookupFails` is a lookup that is rejected; no one handles it and
the server goes down.

### AviationData

`airports.csv`, `fuel.csv` and `runways.csv` are read one after the other into
one array (`chain` says which is open), `planes.csv` meanwhile. `Row` is one
`'data'` event, `End` the end of a file. `airports` and `cities` settle together;
`value` is what they were fulfilled with. `watched` holds the promises somebody
has a handler on: a handler awaits the promises of its program one after the
other, so a promise that is rejected before anyone got that far is unhandled and
ends the server, as does an `'error'` of a stream (`ReadFails`) and a rejection
of the outer promise that nothing was attached to (`ParseFails` of
`airports.csv`). `Usable` is the filter before the promise is fulfilled, written
as a recursive function because the prover does not look into `SelectSeq`.
The names are chosen so that a module can extend this one together with
`FleetPlans`.

### PageRequests

A path is the sequence of its parts. `Resolve` is `resolveRoute`: `Descend` for a
part in the middle, `Leaf` for the last one. The first entry that `find()`
returns among dynamic names is left open (`AnyEntry`), because the order of
`readdir` is. `Middleware` and `Lookup` are AuthMiddleware, `Intercept` is what
RoutingInterceptor does before the handler, `Handle` the handler with
LoggingInterceptor, `Render` the template engine after the page was imported:
App writes `meta`, `$meta`'s `__state`, and the page reads it back without
yielding. `logged` is the log. Guards and what handlers do otherwise are abstract.

### SceneGraph

The engine draws two layers, edges (`Edges`) below nodes. A layer is the set of
its entities, and `.no` is the order they were added in. The page keeps the
array of each edge file; layer 0 *is* such an array, so `arrays` holds all that
were made and `base` says which is drawn. `RemoveNode` and `RemoveEdge` are
`Engine.remove`, `PointAt`, `Leave`, `Button`, `Wheel` the mouse, `Tick` an
animation frame: selection, the scan that bends pairs of opposite edges apart
(`Open`, `Rebent`), the painting. `Tick(TRUE)` is a frame with a key held.
Geometry is abstract: a spot says which nodes, straight lines and arcs lie under
it. `painted` is the canvas; `unseen` and `missed` are histories of what the
code does not mark: an array that replaced layer 0 without a mark, and the
arrays that lay aside while a node was removed.

### FindRoute

A world is a problem: the demand, and for each plane its home base, the
airports on its map, the pairs that map connects, and its place in
`planes.json`. `check`, `baseline` and `search` are the phases; an action is
one iteration of the loop of its phase.

- Airways, prices and durations are constants. `Cost` and `Time` are what
  `dijkstra` finds, `Table` is the `.binmrt` entry, `Estimate` is `approxCost`.
  The three need not agree with each other.
- The lists of airports in a route are reduced to where the plane is.
- `carried` is a history: it adds up the passengers taken for each request,
  which the code does not keep.
- `reqCost` is counted from its initial value, which all entries share.
- The heap is a set: two equal entries have the same successors, and ties among
  unequal entries are broken in every possible way. Ties among planes of equal
  time go by `rank`, as they do in the beginning, when all times are 0 and the
  code's heap returns planes in one fixed order. Later times are sums of
  doubles that are not expected to tie.
- `Stop` is a thread that has returned or thrown. Because of it TLC's deadlock
  check means something here: no phase can get stuck without ending.

### ShortestPaths

The phases follow a map through both programs: `table` (floydWarshall, one cell
a step, in place), `dumped` (both binary files), `read`, `ready` (after the copy
that `emplace` makes, `routing.cpp:107`), and then one call of `dijkstra`:
`search` (one pop a step), `trace` (one parent a step), `found` or `unreachable`.
A graph is its edges and the neighbors of its nodes; `Unlinked` is one as
`readFromBinFile` leaves it, without any. The heap is a set of nodes with their
entries; ties are broken anyhow. Costs are natural numbers, sums are exact, and
`Inf` is -1. A cost is the price of an airway without passengers, the one for
which table and search are compared. Callers never ask for the way from a node
to itself.

This is what `FindRoute` assumes of `Cost` and `Table` when it is given an exact
table: `TableIsPrice` holds up to the rounding of doubles.

### MapGen

`flights` is the queue of potential flights; `LinkNext` takes the cheapest and
links it if its origin takes another airway. `airways` is the sequence of edges
the graph keeps. From `Recluster` on, `reached` is the table that floydWarshall
left, reduced to the connected pairs, and `bad` is the pair the scan looks at: it
is repaired by way of an airport in between (`RepairVia`), or skipped
(`NextBad`), and only for the last unreached pair a direct flight is tried
(`RepairDirectly`) before mapgen gives up. After each repair the table is
computed anew and the scan starts over (`Scan`). Which flights `planFlight`
allows, what they burn, runways and prices make a world; none leads from an
airport to itself, where `planFlight` has no room to climb. The names are chosen
so that a module can extend this one together with `ShortestPaths`.

## 3. Runs

| Run | Bounds | Properties |
|---|---|---|
| `pipeline` | 3 calls, two verdicts, the daemon may die, fair | `AnswerOnItsWay`, `ResultsBeforeNotice`, `StreamOfLines`, `DirectoryOutlivesThread`, `EveryRequestSettles`, `ImplementsRouteJobs` |
| `pipeline_wedge` | 2 calls | violates `NoLineLeftBehind` |
| `invites` | 2 users, 2 organizations, 2 tokens, 2 requests, 2 days | `CallerStaysMember`, `OneLiveInvite`, `OkSpendsInvite`, `ImplementsLedger` |
| `findroute` | 2 planes, 4 airports, demands up to 3 requests and 5 passengers each, fair | `NoDearerThanBaseline`, `PlaneToAsk`, `EveryoneIsCarried`, `OneMapIsPlanned`, `Ends` |
| `findroute_repeat` | 2 requests with the same ends | violates `EveryoneIsCarried` |
| `fleet` | 3 organizations, 2 requests, 1 plane id, 2 airports, 1 model, 1 job | `OnlyUpdatesMisplace`, `PlansAreKept`, `OwnPlanesOnly` |
| `aviation` | 3 contents of the four files, 2 requests, 6 programs, fair | `DataTypeOK`, `PublishedIsExpected`, `WaitersSettle` |
| `accounts` | 2 requests, 3 tokens, 2 each of ids, emails, names, passwords | `OnlyRewritingMixesUp`, `AccountsChangeThemselves` |
| `pages` | 6 pages, 7 paths, 2 parameters, 1 user, 2 requests, fair | `OwnNamesWin`, `PageIsOwn`, `EveryRequestIsAnswered` |
| `paths` | 4 airports, every choice of 7 airways at 2 prices, fair | `CostsAreLeast`, `PathIsFlown`, `TableIsPrice`, `TableIsDistance`, `CallReturns` |
| `mapgen` | 4 airports, every choice of 8 flights, with and without short runways, unknown types and binding degrees, fair | `MapTypeOK`, `AirwaysAreDistinct`, `CheapestAreLinked`, `NothingLeftToRepair`, `MapIsDrawn` |
| `scene` | 2 files, 2 labels, 2 nodes, 3 edge arrays, 2 removals, 2 spots, fair | `PartnersBend`, `EdgesJoinNodes`, `PaintedUnlessMarked`, `LoadIsShown` |

The type invariant of every module with actions is a theorem (`TypeCorrect`,
`FilesAreTyped`, `MapIsTyped`), so most runs spend their time on other
properties; those of `AviationData` and `MapGen` are checked as well, because
there a type error is what a plausible mistake leads to: a fuel price that is no
number, an airway that burns nothing.

What each run shows, beyond its table row:

- `pipeline`: no wake-up is lost although the opid is sent before its resolver is
  registered; a notice never overtakes its files; prints of two threads do not
  mix; no answer removes a directory that a thread uses. A call is not settled
  only if the daemon is dead or the parser stuck.
- `invites`: what was checked on a snapshot still holds at the write, an invite
  is unique, and spent by the one request that is told so.
- `fleet`: a plane that is deleted or moved while a plan is made changes nothing
  about the plan being stored; a plane changes only by a request that names it
  and its organization, although ids are chosen by clients and planes move
  between organizations; only updatePlane takes one where it cannot fly from, and what
  the planner is given has no other misplaced planes either.
- `aviation`: rows about airports that are listed twice, not listed, repriced or
  unpriced end in the published array as the files say, and each airport once.
- `accounts`: no registration takes an account from a request that was found for
  it, and no account writes another one's row; an account that has rewritten its
  id or email is the exception to both (section 4).
- `pages`: a dynamic directory does not hide a page of the path's own names
  (the tree has both under one parent), and two renders do not mix their data.
- `paths`: each call agrees with the table of the same map, which in turn is that
  of the distances by definition (least sum over simple routes).
- `mapgen`: the repair loop ends in every world, both ways of ending occur; what
  is left when it gives up are direct flights of pairs that are not the last.
- `scene`: whatever was loaded, put back, removed and painted before, the canvas
  bends the k-th edge one way exactly if there are k edges the other way.

Why the bounds are enough. Three calls are the least that let one chunk hold two
opids while a third call is anywhere in its life, and let two threads wait for
the mutex; two verdicts are enough because all that report an error write the
same file. In the database modules a race needs two requests; two users and two
organizations let each user be founder, invitee and member, and a request be
about an organization other than the token's or the plane's. One plane id that
three organizations share lets a plane be added where an id is in use, was
deleted, or is used elsewhere, and be moved away while a third organization adds
one; a second id would only add moves within one organization, which change the
same key, and is left to the proof. Three tokens let two accounts exist and a third be
registered, or a client make one up; two ids and two emails let an account take
what another has given up. The passenger counts 1 to 5 against capacities 2 and 4 give
a request that fits, one that just fits, and ones that take two or three
flights; maps differ per plane and may be torn, so every way for `findRoute` to
end occurs. The airways of `paths` form circles, detours whose price is lower
than the direct airway's and dead ends; the flights of `mapgen` leave pairs that
need none, one or several repairs, or cannot be repaired. In the scene, three
arrays allow one to be put aside and brought back after another was loaded and
damaged, with a loop, a double and an opposite edge among them.

Bounds that cut off behaviour: `Ops` and `PlaneIds` are finite, `Tokens` bounds
the invites and accounts ever made, `MaxDay` the clock, `MaxNodes`, `MaxArrays`
and `MaxRemovals` the scene. Those systems, and a server that went down, can run
out of things to do, so their runs switch the deadlock check off. `findroute`,
`paths` and `mapgen`, which must end in a state of their own, have it on.

Symmetry is used in three runs without liveness: over calls in `pipeline_wedge`,
over requests and organizations in `fleet`, and over all sets of model values in
`accounts`. None of these modules chooses among the values it permutes.

Fairness. Node's event loop runs what it has begun and delivers pending data
(`Send`, `Register`, `StdoutData`; `Stream`, `Handler`; `Step` of a page
request, whose lookups, handlers and imports settle); the operating system
schedules the daemon's main loop and its threads (`StartWorker`, `Work`). No
call need be made, no request arrive and no thread abort. Weak fairness is
enough for the mutex because each thread takes it once. `requestAnimationFrame`
calls `_tick` again and again: `Tick(FALSE)` is weakly fair, and a key that is
held for ever leaves nothing to do for it. `findRoute`, `dijkstra`,
`floydWarshall` and mapgen compute. All of it is weak fairness.

## 4. What the violations show

1. `pipeline_wedge`: two opids in one chunk leave two newlines in the buffer;
   the expression matches neither then nor ever after (theorem `StuckForGood`),
   so every call hangs (`routing.service.ts:48`).
2. `findroute_repeat`: requests between the same two airports are dropped
   together from the search (`routing.cpp:376`).

Seen while modelling, without a run of their own:

- An invite never expires: `diffNow().get('days')` asks a duration of
  milliseconds for its days, which are 0 (`orgs.service.ts:55`; `DiffNowDays`).
- A `logic_error` in one routing thread is not among what `processRouting`
  catches and ends the daemon; nobody restarts it and no call has a timeout
  (`daemon.cpp:103`; `Abort`).
- A user who joins while he is being invited again gets an invite to his own
  organization, because membership is looked up in the organization as it was
  read before (`orgs.service.ts:46`). Trace: `ReadOrg` of the inviter, then the
  invitee accepts an older invite, then `InviteCreated`.
- Inviting a user who has a live invite violates the primary key of `Invite` and
  is answered 500 "An unknown error occured."; the message "is already invited"
  (`orgs.controller.ts:77`) is given for members only (`InviteVerdict`).
- The baseline retires a plane that could fly another request
  (`routing.cpp:210`): the candidate is chosen among all requests, and the plane
  goes when that one is not on its map.
- With maps that differ the search runs out of entries on demands that the
  baseline flies (`routing.cpp:420`, `422`); with a table that rounds, an exact
  comparison of two sums prunes the only plan (`routing.cpp:383`, `413`); with a
  torn map the check passes and a plane is sent where it has no path
  (`routing.cpp:244`).
- The retry of `register` is never taken for an id in use
  (`users.service.ts:57-59`): MySQL names that constraint `PRIMARY`.
- `updatePlane` checks neither runways nor model (`assets.controller.ts:73`).
- The `ValidationPipe` has no `whitelist` (`main.ts:28`), and three handlers hand
  their body to Prisma as data. `PATCH /users/me` may set email, token, password
  (which is then stored unhashed) and id (`users.service.ts:84`); `updatePlane` may
  move a plane to another id and organization (`assets.service.ts:24`); and
  clients may choose the ids of planes and organizations (`assets.service.ts:12`,
  `orgs.service.ts:42`). The keys hold, but what was read before need not be what
  is written: a request finds account A by its token, A gives up its id and
  another account takes it, and the request then writes that account's row. `rewritten` is how far
  `OnlyRewritingMixesUp` and `AccountsChangeThemselves` go.
- A token lookup that is rejected (`auth.middleware.ts:24`) and a CSV file that
  cannot be read (`aviation.service.ts:17`, `96`) end the server.
- `Engine.load` does not mark the scene dirty (`engine.ts:208`); it is shown
  because a frame with nothing under the pointer repaints in any case. An array
  that is put aside keeps the edges of a node that is removed meanwhile, and
  brings them back (`engine.ts:169`).
- `debounce` stays busy after a rejection (`debounce.ts:25`).
- mapgen: all three known types of airports use `lgMaxDegree`
  (`mapgen.cpp:171-176`); `log(0)` is converted to an unsigned number when there
  is no large airport (`133`); two intermediaries are compared with each other's
  fuel prices (`210`); a repaired airway is priced at `from`, not at the airport
  it leaves (`249`); a direct flight is tried for the last unreached pair only
  (`226-238`), so that one which would connect an earlier pair may be left.

`EveryoneIsCarried` and `OneMapIsPlanned` hold on the worlds of `findroute`
because those exclude two of these: no two requests with the same ends, and a
table that agrees with the prices.

## 5. Proofs

All theorems hold for arbitrary constants, under the named `ASSUME`s of the
modules (tokens of the streams are distinct, verdicts are known, prices are
natural numbers, capacities are positive, worlds, files, maps and paths are well
formed). Every invariant and action property of the passing runs is a theorem,
and both refinements are; three theorems have hypotheses of their own, which are
given below. Each proof module shows that its invariant is inductive, with one
lemma or step per action.

Some of the properties are about what a computation over data yields: a filter,
a fold over the airports, the loops of floydWarshall, a descent along a path,
the parts of a route. Two devices stand in for induction. A recursive function
is named by the equations it satisfies, after a lemma that there is such a
function. A claim about every length or size holds because there is
no least one where it fails (`NatLessThanWellFounded` and `WFMin`): the step
from its predecessor would contradict it. Where a closed form is known, as for
the folds of `SceneGraph` and `MapGen`, it is shown to satisfy the equations of
the fold.

RoutingPipeline. `IInv` consists of `MutexInv` (the holder of the mutex is the
only thread that prints, and the buffer holds what it printed), `CallInv` (how
far call and thread are from each other), `DiskInv` (what both have left in the
directory), `StreamInv` (the pipes hold whole lines, of threads that are done)
and `WayBackInv` (`AnswerOnItsWay` from the moment the opid is sent). None of the
properties is inductive alone: that a notice comes after its results needs the
files to stay put while the notice travels, which needs the calls to be where
they are. The parser's buffer is empty or holds at least two lines (`StreamInv`),
which is why `AnswerOnItsWay` has only the two exceptions it has. `Refinement`
maps `handler` to `RouteJobs`' `job`, and uses `IInv` to see that `Reply` is the
answer to the thread's verdict.

OrgInvites. `IInv` adds to the two properties what requests in progress
remember: the organization they act for exists, and the columns of the invite
they accept are those of its grant. `Refinement` maps each commit to a `Join`,
`Withdraw` or `Issue`, or to a stutter when its row is gone. It says that nobody
joins without spending an invite of his own, for any number of requests.

FindRoute. `CoreInv` is inductive without assumptions about prices or maps: every
queued entry costs at most the baseline, an unfinished one has a plane, a
returned one has nothing left. `NobodyLeftBehind` adds the books: what is carried
and what remains of a request add up to it, and the parts of a request that
remain are one. That needs `DistinctEnds`, the absence of repeated requests, and
the theorem assumes it.

`OneMapSuffices` says that on one map, from bases on it, a demand that passes
the check is planned. Its invariant `PlannedInv` has two parts. `OnTheMap`: all
planes are where their map can serve them, so nothing is pruned and no path is
missing. `TrackInv`: while the baseline flies, some plan that the search could
reach from its first entry has carried the same parts with the planes in the
same places (`Shadows`, `Reaches`); while the search runs, some entry of the
queue can go on as the baseline did (`OnTrack`), at no higher price. Whatever
entry is popped, its successors keep such an entry alive, so that the queue is
not empty before a plan is found. The hypotheses are `DistinctEnds`;
`DistinctRanks`, no two planes have the same position in `planes.json`; and
`TableIsLeast`, the table asks no more for a ferry flight than `dijkstra` does,
which is what `TableTellsPrice` shows of the tables mapgen writes. `OneMap`
includes that the planes are at home on the map: a base off it is an exception
of the check, whatever the demand.

FleetPlans. `SlotInv` says what a request in each phase remembers: its
organization, its plane, its job. `FleetInv` is `OnlyUpdatesMisplace` for what a
request has seen as well as for the table, because that is where `sent` comes
from (`Excused`). `PlansAreKept` is inductive beside them: a job answered "ok"
is pending no more, so nobody else submits or hears it. `OthersKeepTheirPlanes`
(`OwnPlanesOnly`) follows per step: an add or a move finds its key free, so that
it cannot change what is there, and a move leaves its old key empty. It holds
for any number of ids, moves within one organization included.

AviationData. `FilesInv`: the files are read one after the other
(`ReadInOrder`), and the first airport of each id in the array has the city of
the first listed row, the price of the last fuel row and the number of runway
rows, of the rows read so far (`DataIsRead`); any further airport of that id has
neither price nor runway, which is why the filter leaves each airport once
(`UsableIs`). `PublishedForGood` adds that nothing changes what was published:
`FleetPlans` may take `Airports` for a constant.

Accounts. `TokenInv`: a token that is drawn makes one account at most, and is that
of no account while its registration is under way. `KeysAreUnique`: no two rows
share an email or a token, which the insert and the update check against all
other rows. With them `OnlyRewritingMixesUp` is inductive (`FoundUserStays`):
inserts take no id and no email that is in use, and an update moves one row
only, its account's, and counts it as rewritten if what it is found by changed.
`OneAccountEach` is the two invariants by themselves, and `NobodyElseWrites` is
`AccountsChangeThemselves`: the row that an update writes has the id the request
was found by, so by `OnlyRewritingMixesUp` it is that of its account.

SceneGraph. `NumberInv`: the numbers in a layer have an upper bound, so that a
set of its entities that is not empty has a latest one (from the well-founded
order of the naturals). With it `EdgesJoinNodes` and `PaintedUnlessMarked` are inductive; the former
needs that an edge file resolves to nodes of the scene, the latter that every
handler marks what it changes. `PartnersBend` says by counting what the scan of a frame does by matching: `Open`
is a fold over the layer, and `OpenIs` shows that it leaves exactly the edges
that are the k-th from a to b while there are fewer than k from b to a
(`Unmet`), for every subset of the layer at once. `BendInv` keeps that between
frames, with loops never bent and no two edges of an array in one place.

PageRequests. `PageIsOwn` with `SlotInv` (a request that imports its page has a
route and is in the log, one that is not done has no answer). Of `resolveRoute`
only that it yields a page or nothing (`ResolveIsPage`) is needed. `NamesWin` is
about `resolveRoute` itself: what it returns matches the path, and if the path
names a page literally it is that page, at every depth of every tree. `RouteInv`
carries that over the requests. It rests on the assumption that a path has no
part that stands for "nothing" (`NoneIsNone`).

ShortestPaths. `GraphInv` (edges are those of a map of `Maps`, and neighbors the
edges that leave a node, except right after reading), `SearchInv` (the settled
entries are no dearer than the queued ones, every settled node's airways are
relaxed, every finite entry is attained by its parent's, and parents are
settled) and `TraceInv` (the path so far leads from below `parent` to the end,
its airways accounting for the costs). What they give at
the end, `CostsAreLeast`, are the equations of shortest paths: no airway would
make a cost smaller, and each cost is attained.

For the table, `TableInv` says what k passes have achieved: no entry is larger
than its airway, nor than two entries that meet in one of the first k airports.
`SoundInv` is the other direction: entries respect every assignment of costs to
airports that the airways respect, dijkstra's and the distances' among them, so
that no entry is too small. Both are claims about single steps, and together
they say at the end that the table is that of the distances (`TableTellsDistance`:
the distances are such an assignment, and no sum along a route falls below the
entries) and, with `BoundInv`,
that a call returns what the table said (`TableTellsPrice`).

MapGen. `DrawnInv`: airways are flights, none of them a loop (`AirwaysAreFlown`);
what is linked is no dearer than what is still queued (`CheapestFirst`); and
`reached` is the least relation that holds the airways and is closed under going
by way of an airport, while no pair before `bad` can be repaired by way of a
third airport, and at the end no pair with a direct flight is the last one
(`ScannedInOrder`). So `OnlyDirectFlightsAreLeft`: when recluster
gives up, a flight that would still connect something is a direct one, of a pair
that is not the last. That floydWarshall's fold computes this relation, in whatever
order the airports are taken, is `ConnectedIs`. A repair links a pair whose end
could not be reached, so its airway is new (`AirwaysStayDistinct`). That there
is a nearest intermediary needs that the comparison of `mapgen.cpp:210`, odd as
it is, is a total order (`NearestIs`: it compares fractions by products).
`MapsAreDrawn` discharges what `ShortestPaths` assumes of its maps, if the
airports are among its nodes.

Only model-checked:

- liveness (`EveryRequestSettles`, `Ends`, `WaitersSettle`,
  `EveryRequestIsAnswered`, `CallReturns`, `MapIsDrawn`, `LoadIsShown`), because
  fairness and `ENABLED` are not available to the prover;
- the violated properties.

## 6. Not modelled

- The constructor of RoutingService, a daemon that cannot be spawned, a server
  restart: no state survives that the model could compare.
- The `statSync` check of `process()`: the directory was created in the same
  synchronous block.
- Prices, distances, runway lengths: constants of the modules. `planFlight` and
  the geometry are arithmetic on doubles without state.
- `userIds` with repetitions in one invite request: a second task for the same
  user ends like an invite of a second request.
- Bodies that write relations. The bodies that nothing strips may also name
  `organizations`, `activeInvites`, `users`, `planes` or `organization` and make
  Prisma write other tables, with all its nested operations. `Accounts`,
  `FleetPlans` and `OrgInvites` model the columns of the rows; what they show is
  about bodies that write no relation.
- What a rewritten id of a user means to his memberships and invites: the foreign
  keys follow it in the database, and `OrgInvites` knows no such request.
- A write of `addRouting` that fails, and a server that stops between the
  planner's answer and that write: `PlansAreKept` speaks of a server that runs.
- The guard: it reads `req.user` and decides, without state.
- `debounce` and `ripple`: one flag each; what is wrong with the first is in
  section 4.
- `renderEngine`, the drawing of nodes and edges, and dragging: pixels.
- `Graph`'s text formats, its undirected variants and `map()`: conversions that
  no modelled program uses.
- Build scripts, scripts that fetch CSV files, demo, read-map and benchmarks:
  input and output.

## 7. Plan

Done: the routing pipeline, invites, `findRoute`, fleets and plans, accounts,
CSV loading, page requests, the client's scene, shortest paths and mapgen, each
checked, and proved about but for liveness.

What is left, in this order:

1. `FindRoute` over the `Cost` and `Table` of `ShortestPaths`, as one module, to
   replace the assumption of `TableIsLeast` by `TableTellsPrice`.
2. A daemon that dies while calls are under way, composed with `FleetPlans`:
   that a request whose planner hangs holds back no other.
3. The safety parts of the liveness properties: what decreases in `mapgen`'s
   repairs, in `findRoute`'s queue and along `dijkstra`'s parents.
4. The parser of `Graph`'s binary files as a stream of words, for torn files.
