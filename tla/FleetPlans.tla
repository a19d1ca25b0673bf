----------------------------- MODULE FleetPlans -----------------------------
(***************************************************************************)
(* The planes of an organization (src/assets) and the plans made for them  *)
(* (planRoute in src/aviation).                                            *)
(*                                                                         *)
(* Every handler reads the organization first, awaits the airports and the *)
(* plane models, and only then writes; planRoute works on the planes it    *)
(* read, whatever happens to them while the planner is at work.  The       *)
(* planner is what RouteJobs promises, which RoutingPipeline implements.   *)
(***************************************************************************)
EXTENDS Naturals, FiniteSets

CONSTANTS Orgs, Requests,
          PlaneIds,      \* any string: a cuid, or what a client makes up
          Airports,      \* ids in aviationService.airports
          Models,        \* models in aviationService.planes
          LongEnough,    \* the airports whose runways do for a model
          Ops, Verdicts, \* of the planner, see RouteJobs
          Elsewhere,     \* a homeBase that is no airport, or none at all
          Unlisted,      \* a model that is not in Models
          None

ASSUME RunwaysTyped == LongEnough \in [Models -> SUBSET Airports]

VARIABLES
  rows,     \* table Plane; its key is the organization with the id
  loaded,   \* the promises of AviationService are fulfilled
  sent,     \* planes.json and the organization it is for, by job
  plans,    \* jobs whose answer is in table Routing
  req,
  reply,    \* of the last request in a slot; any 4xx or 5xx is "refused"
  job, verdict

Planner == INSTANCE RouteJobs

vars == <<rows, loaded, sent, plans, req, reply, job, verdict>>

Bases == Airports \cup {Elsewhere}
Types == Models \cup {Unlisted}

(* updated is a history: whether updatePlane has ever changed the row.     *)
Row   == [base : Airports, model : Types, updated : BOOLEAN]
Fleet == [PlaneIds -> Row \cup {None}]

Request == [phase : {"idle", "adding", "updating", "deleting", "planning", "solving",
                     "recording"},
            org : Orgs \cup {None}, plane : PlaneIds \cup {None},
            seen : Fleet, job : Ops \cup {None}]

NoPlanes == [p \in PlaneIds |-> None]
Idle == [phase |-> "idle", org |-> None, plane |-> None, seen |-> NoPlanes, job |-> None]

TypeOK ==
  /\ rows \in [Orgs -> Fleet]
  /\ loaded \in BOOLEAN
  /\ sent \in [Ops -> [org : Orgs, fleet : Fleet] \cup {None}]
  /\ plans \in SUBSET Ops
  /\ req \in [Requests -> Request]
  /\ reply \in [Requests -> {"none", "ok", "refused"}]
  /\ job \in [Ops -> {"new", "pending", "ok", "bad"}]
  /\ verdict \in [Ops -> Verdicts \cup {None}]

Init ==
  /\ rows = [o \in Orgs |-> NoPlanes]
  /\ loaded = FALSE
  /\ sent = [op \in Ops |-> None] /\ plans = {}
  /\ req = [r \in Requests |-> Idle]
  /\ reply = [r \in Requests |-> "none"]
  /\ Planner!JobsInit

-----------------------------------------------------------------------------
(* The organization is read; a caller who is no member is turned away, as  *)
(* is one whose body the validation or Prisma does not take.               *)
Begin(r, q) ==
  /\ req[r] = Idle
  /\ \/ req' = [req EXCEPT ![r] = q] /\ reply' = [reply EXCEPT ![r] = "none"]
     \/ UNCHANGED req /\ reply' = [reply EXCEPT ![r] = "refused"]
  /\ UNCHANGED <<rows, loaded, sent, plans, job, verdict>>

Finish(r, answer) ==
  /\ req' = [req EXCEPT ![r] = Idle]
  /\ reply' = [reply EXCEPT ![r] = answer]

AddPlane(r) ==
  \E o \in Orgs : Begin(r, [Idle EXCEPT !.phase = "adding", !.org = o])

UpdatePlane(r) ==
  \E o \in Orgs, p \in PlaneIds :
    Begin(r, [Idle EXCEPT !.phase = "updating", !.org = o, !.plane = p])

DeletePlane(r) ==
  \E o \in Orgs, p \in PlaneIds :
    Begin(r, [Idle EXCEPT !.phase = "deleting", !.org = o, !.plane = p])

PlanRoute(r) ==
  \E o \in Orgs :
    Begin(r, [Idle EXCEPT !.phase = "planning", !.org = o, !.seen = rows[o]])

-----------------------------------------------------------------------------
Load ==
  /\ loaded = FALSE /\ loaded' = TRUE
  /\ UNCHANGED <<rows, sent, plans, req, reply, job, verdict>>

MayLiveAnywhere(m, b) == m \in Models /\ b \in Airports
MayLiveAt(m, b) == m \in Models /\ b \in Airports /\ b \in LongEnough[m]

Upsertable(o, p) == TRUE
Free(o, p)  == rows[o][p] = None
Holds(o, p) == rows[o][p] # None

(* The body is looked at here for the first time.  Its columns are spread  *)
(* after the id that is drawn, so p is a cuid or what the body says, which *)
(* may be in use, or have been.                                            *)
CommitAdd(r) ==
  LET q == req[r]
  IN  /\ q.phase = "adding" /\ loaded
      /\ \E p \in PlaneIds, b \in Bases, m \in Types :
           IF MayLiveAt(m, b) /\ Free(q.org, p)
           THEN /\ rows' = [rows EXCEPT ![q.org][p] =
                              [base |-> b, model |-> m, updated |-> FALSE]]
                /\ Finish(r, "ok")
           ELSE Finish(r, "refused") /\ UNCHANGED rows
      /\ UNCHANGED <<loaded, sent, plans, job, verdict>>

Served(b) == b \in Airports

(* The body is the data of the update, whatever columns it has: it may set *)
(* the id and orgId too, to a key that is free.  Nothing checks the model. *)
CommitUpdate(r) ==
  LET q == req[r]
  IN  /\ q.phase = "updating" /\ loaded
      /\ \E o \in Orgs, p \in PlaneIds, b \in Bases, m \in Types :
           IF /\ Served(b) /\ Holds(q.org, q.plane)
              /\ Free(o, p) \/ <<o, p>> = <<q.org, q.plane>>
           THEN /\ rows' = [rows EXCEPT ![q.org][q.plane] = None,
                                       ![o][p] = [base |-> b, model |-> m, updated |-> TRUE]]
                /\ Finish(r, "ok")
           ELSE Finish(r, "refused") /\ UNCHANGED rows
      /\ UNCHANGED <<loaded, sent, plans, job, verdict>>

CommitDelete(r) ==
  LET q == req[r]
  IN  /\ q.phase = "deleting"
      /\ IF Holds(q.org, q.plane)
         THEN rows' = [rows EXCEPT ![q.org][q.plane] = None] /\ Finish(r, "ok")
         ELSE Finish(r, "refused") /\ UNCHANGED rows
      /\ UNCHANGED <<loaded, sent, plans, job, verdict>>

-----------------------------------------------------------------------------
Specced(fleet) == \A p \in PlaneIds : fleet[p] # None => fleet[p].model \in Models

(* The demand is checked against the airports, then the models of the      *)
(* planes read before; route() hands both to the planner.                  *)
Submit(r) ==
  LET q == req[r]
  IN  /\ q.phase = "planning" /\ loaded
      /\ \/ Finish(r, "refused") /\ UNCHANGED <<sent, job, verdict>>
         \/ /\ Specced(q.seen)
            /\ \E op \in Ops :
                 /\ Planner!Submit(op)
                 /\ sent' = [sent EXCEPT ![op] = [org |-> q.org, fleet |-> q.seen]]
                 /\ req' = [req EXCEPT ![r].phase = "solving", ![r].job = op]
            /\ UNCHANGED reply
      /\ UNCHANGED <<rows, loaded, plans>>

Solve ==
  /\ \E op \in Ops : Planner!Settle(op)
  /\ UNCHANGED <<rows, loaded, sent, plans, req, reply>>

HearAndReply(r) ==
  LET q == req[r]
  IN  /\ q.phase = "solving"
      /\ Planner!Answer(q.job)
      /\ Finish(r, IF Planner!AnswerTo(verdict[q.job]) = "ok" THEN "ok" ELSE "refused")
      /\ UNCHANGED <<rows, loaded, sent, plans>>

Hear(r) ==
  LET q == req[r]
  IN  /\ q.phase = "solving"
      /\ Planner!Answer(q.job)
      /\ IF Planner!AnswerTo(verdict[q.job]) = "ok"
         THEN req' = [req EXCEPT ![r].phase = "recording"] /\ UNCHANGED reply
         ELSE Finish(r, "refused")
      /\ UNCHANGED <<rows, loaded, sent, plans>>

Record(r) ==
  /\ req[r].phase = "recording"
  /\ plans' = plans \cup {req[r].job}
  /\ Finish(r, "ok")
  /\ UNCHANGED <<rows, loaded, sent, job, verdict>>

Arrive(r)  == AddPlane(r) \/ UpdatePlane(r) \/ DeletePlane(r) \/ PlanRoute(r)
Proceed(r) == \/ CommitAdd(r) \/ CommitUpdate(r) \/ CommitDelete(r)
              \/ Submit(r) \/ Hear(r) \/ Record(r)

Next == Load \/ Solve \/ \E r \in Requests : Arrive(r) \/ Proceed(r)

Spec == Init /\ [][Next]_vars

-----------------------------------------------------------------------------
(* Properties. *)

Fits(row) == row.model \in Models /\ row.base \in LongEnough[row.model]

Fleets == {rows[o] : o \in Orgs} \cup {sent[op].fleet : op \in {o \in Ops : sent[o] # None}}

(* In the table as in what the planner was given, a plane that has no      *)
(* known model, or is at an airport whose runways are too short for it,    *)
(* got there through updatePlane.                                          *)
OnlyUpdatesMisplace ==
  \A fleet \in Fleets : \A p \in PlaneIds :
    fleet[p] # None => Fits(fleet[p]) \/ fleet[p].updated

(* The request q may take or change what is at the key (o, p), or put      *)
(* something there.                                                        *)
Entitled(q, o, p) ==
  IF Holds(o, p)
  THEN q.phase \in {"updating", "deleting"} /\ q.org = o /\ q.plane = p
  ELSE \/ q.phase = "adding" /\ q.org = o
       \/ /\ q.phase = "updating" /\ Holds(q.org, q.plane)
          /\ rows'[q.org][q.plane] = None

(* Whatever ids the bodies name and however requests race, a plane is      *)
(* changed, moved or removed only by a request that names it and its       *)
(* organization; what appears was added by its organization, or was moved  *)
(* there from a place it has left.                                         *)
OwnPlanesOnly ==
  [][\A o \in Orgs, p \in PlaneIds : rows'[o][p] # rows[o][p] =>
       \E r \in Requests : reply'[r] = "ok" /\ Entitled(req[r], o, p)]_vars

(* No plan is lost between the planner and table Routing: what the planner *)
(* answered is recorded, or the request that submitted it is about to      *)
(* record it; and nothing else is recorded.                                *)
PlansAreKept ==
  \A op \in Ops :
    job[op] = "ok" <=>
      \/ op \in plans
      \/ \E r \in Requests : req[r].phase = "recording" /\ req[r].job = op
=============================================================================
