-------------------------- MODULE FleetPlansProofs --------------------------
(* The safety of FleetPlans for any organizations, planes, models, runways *)
(* and concurrent requests; then that of AviationData, which publishes the *)
(* airports, for any files.                                                *)
EXTENDS FleetPlans, AviationData, TLAPS, WellFoundedInduction, FiniteSetTheorems

(* What a request in progress holds. *)
SlotInv ==
  \A r \in Requests :
    /\ req[r].phase # "idle" => req[r].org \in Orgs
    /\ req[r].phase \in {"updating", "deleting"} => req[r].plane \in PlaneIds
    /\ req[r].phase \in {"solving", "recording"} => req[r].job \in Ops

Excused(fleet) == \A p \in PlaneIds : fleet[p] # None => Fits(fleet[p]) \/ fleet[p].updated

(* The fleets in the table, with the planner and in the hands of planRoute.*)
FleetInv ==
  /\ \A o \in Orgs : Excused(rows[o])
  /\ \A op \in Ops : sent[op] # None => Excused(sent[op].fleet)
  /\ \A r \in Requests : Excused(req[r].seen)

IInv == TypeOK /\ SlotInv /\ FleetInv /\ PlansAreKept

USE DEF Planner!Submit, Planner!Settle, Planner!Answer, Planner!AnswerTo, Planner!JobsInit

LEMMA IdleIsRequest == Idle \in Request /\ Idle.phase = "idle" /\ Idle.seen = NoPlanes
BY DEF Idle, Request, Fleet, NoPlanes

(* A slot that is given an answer, or a new request. *)
LEMMA FinishKeeps ==
  ASSUME TypeOK, NEW r \in Requests, NEW a \in {"ok", "refused"}, Finish(r, a)
  PROVE  /\ req' \in [Requests -> Request] /\ reply' \in [Requests -> {"none", "ok", "refused"}]
         /\ \A s \in Requests : req'[s] = IF s = r THEN Idle ELSE req[s]
         /\ reply'[r] = a
BY IdleIsRequest DEF TypeOK, Finish

LEMMA BeginKeeps ==
  ASSUME TypeOK, NEW r \in Requests, NEW q \in Request, Begin(r, q)
  PROVE  /\ TypeOK'
         /\ req[r] = Idle
         /\ \A s \in Requests : req'[s] = req[s] \/ (s = r /\ req'[s] = q)
BY DEF TypeOK, Begin

LEMMA BeginInv ==
  ASSUME IInv, NEW r \in Requests, NEW q \in Request, Begin(r, q),
         q.phase \notin {"idle", "solving", "recording"}, q.org \in Orgs,
         q.phase \in {"updating", "deleting"} => q.plane \in PlaneIds,
         Excused(q.seen)
  PROVE  IInv'
<1>1. TypeOK' /\ req[r] = Idle /\ \A s \in Requests : req'[s] = req[s] \/ (s = r /\ req'[s] = q)
  BY BeginKeeps DEF IInv
<1>2. UNCHANGED <<rows, sent, plans, job>>
  BY DEF Begin
<1>3. SlotInv'
  BY <1>1, <1>2 DEF IInv, SlotInv
<1>4. FleetInv'
  BY <1>1, <1>2 DEF IInv, FleetInv, Excused
<1>5. PlansAreKept'
  BY <1>1, <1>2, IdleIsRequest DEF IInv, PlansAreKept
<1> QED
  BY <1>1, <1>3, <1>4, <1>5 DEF IInv

LEMMA ArriveInv ==
  ASSUME IInv, NEW r \in Requests, Arrive(r)
  PROVE  IInv'
<1> USE IdleIsRequest DEF IInv
<1>0. Excused(NoPlanes)
  BY DEF Excused, NoPlanes
<1>1. CASE AddPlane(r)
  <2> PICK o \in Orgs : Begin(r, [Idle EXCEPT !.phase = "adding", !.org = o])
    BY <1>1 DEF AddPlane
  <2> DEFINE q == [Idle EXCEPT !.phase = "adding", !.org = o]
  <2>1. q \in Request /\ q.phase = "adding" /\ q.org = o /\ q.seen = NoPlanes
    BY DEF Request, Idle
  <2> HIDE DEF q
  <2> QED
    BY <1>0, <2>1, BeginInv DEF q
<1>2. CASE UpdatePlane(r)
  <2> PICK o \in Orgs, p \in PlaneIds :
        Begin(r, [Idle EXCEPT !.phase = "updating", !.org = o, !.plane = p])
    BY <1>2 DEF UpdatePlane
  <2> DEFINE q == [Idle EXCEPT !.phase = "updating", !.org = o, !.plane = p]
  <2>1. q \in Request /\ q.phase = "updating" /\ q.org = o /\ q.plane = p /\ q.seen = NoPlanes
    BY DEF Request, Idle
  <2> HIDE DEF q
  <2> QED
    BY <1>0, <2>1, BeginInv DEF q
<1>3. CASE DeletePlane(r)
  <2> PICK o \in Orgs, p \in PlaneIds :
        Begin(r, [Idle EXCEPT !.phase = "deleting", !.org = o, !.plane = p])
    BY <1>3 DEF DeletePlane
  <2> DEFINE q == [Idle EXCEPT !.phase = "deleting", !.org = o, !.plane = p]
  <2>1. q \in Request /\ q.phase = "deleting" /\ q.org = o /\ q.plane = p /\ q.seen = NoPlanes
    BY DEF Request, Idle
  <2> HIDE DEF q
  <2> QED
    BY <1>0, <2>1, BeginInv DEF q
<1>4. CASE PlanRoute(r)
  <2> PICK o \in Orgs :
        Begin(r, [Idle EXCEPT !.phase = "planning", !.org = o, !.seen = rows[o]])
    BY <1>4 DEF PlanRoute
  <2> DEFINE q == [Idle EXCEPT !.phase = "planning", !.org = o, !.seen = rows[o]]
  <2>0. rows[o] \in Fleet
    BY DEF TypeOK
  <2>1. q \in Request /\ q.phase = "planning" /\ q.org = o /\ q.seen = rows[o]
    BY <2>0 DEF Request, Idle
  <2>2. Excused(rows[o])
    BY DEF FleetInv
  <2> HIDE DEF q
  <2> QED
    BY <2>1, <2>2, BeginInv DEF q
<1> QED
  BY <1>1, <1>2, <1>3, <1>4 DEF Arrive

-----------------------------------------------------------------------------
(* The writes of the handlers of AssetsController. *)

(* A write that ends a request and leaves every row excused. *)
LEMMA WriteInv ==
  ASSUME IInv, NEW r \in Requests, NEW a \in {"ok", "refused"}, Finish(r, a),
         req[r].phase \notin {"solving", "recording"},
         UNCHANGED <<loaded, sent, plans, job, verdict>>,
         rows' \in [Orgs -> Fleet], \A o \in Orgs : Excused(rows'[o])
  PROVE  IInv'
<1> USE IdleIsRequest DEF IInv
<1>0. /\ req' \in [Requests -> Request] /\ reply' \in [Requests -> {"none", "ok", "refused"}]
      /\ \A s \in Requests : req'[s] = IF s = r THEN Idle ELSE req[s]
  BY FinishKeeps
<1>1. TypeOK'
  BY <1>0 DEF TypeOK
<1>2. SlotInv'
  BY <1>0 DEF SlotInv
<1>3. FleetInv'
  BY <1>0 DEF FleetInv, Excused, NoPlanes
<1>4. PlansAreKept'
  BY <1>0 DEF PlansAreKept
<1> QED
  BY <1>1, <1>2, <1>3, <1>4

LEMMA RefusedInv ==
  ASSUME IInv, NEW r \in Requests, Finish(r, "refused"),
         req[r].phase \notin {"solving", "recording"},
         UNCHANGED <<rows, loaded, sent, plans, job, verdict>>
  PROVE  IInv'
<1>1. rows' \in [Orgs -> Fleet] /\ \A o \in Orgs : Excused(rows'[o])
  BY DEF IInv, TypeOK, FleetInv
<1> QED
  BY <1>1, WriteInv

LEMMA CommitAddInv ==
  ASSUME IInv, NEW r \in Requests, CommitAdd(r)
  PROVE  IInv'
<1> USE DEF IInv
<1>1. UNCHANGED <<loaded, sent, plans, job, verdict>> /\ req[r].phase = "adding"
  BY DEF CommitAdd
<1>2. CASE Finish(r, "refused") /\ UNCHANGED rows
  BY <1>1, <1>2, RefusedInv
<1>3. ASSUME NEW p \in PlaneIds, NEW b \in Bases, NEW m \in Types, MayLiveAt(m, b),
             rows' = [rows EXCEPT ![req[r].org][p] =
                        [base |-> b, model |-> m, updated |-> FALSE]],
             Finish(r, "ok")
      PROVE  IInv'
  <2> DEFINE row == [base |-> b, model |-> m, updated |-> FALSE]
  <2>1. row \in Row /\ Fits(row)
    BY <1>3 DEF Row, Fits, MayLiveAt
  <2>2. rows' = [rows EXCEPT ![req[r].org][p] = row]
    BY <1>3
  <2> HIDE DEF row
  <2>3. rows' \in [Orgs -> Fleet]
    BY <2>1, <2>2 DEF TypeOK, Fleet
  <2>4. \A o \in Orgs : Excused(rows'[o])
    BY <2>1, <2>2 DEF TypeOK, Fleet, FleetInv, Excused
  <2> QED
    BY <1>1, <1>3, <2>3, <2>4, WriteInv
<1> QED
  BY <1>2, <1>3 DEF CommitAdd

LEMMA CommitUpdateInv ==
  ASSUME IInv, NEW r \in Requests, CommitUpdate(r)
  PROVE  IInv'
<1> USE DEF IInv
<1>1. /\ UNCHANGED <<loaded, sent, plans, job, verdict>>
      /\ req[r].phase = "updating" /\ req[r].plane \in PlaneIds /\ req[r].org \in Orgs
  BY DEF CommitUpdate, SlotInv
<1>2. CASE Finish(r, "refused") /\ UNCHANGED rows
  BY <1>1, <1>2, RefusedInv
<1>3. ASSUME NEW o \in Orgs, NEW p \in PlaneIds, NEW b \in Bases, NEW m \in Types, Served(b),
             rows' = [rows EXCEPT ![req[r].org][req[r].plane] = None,
                                  ![o][p] = [base |-> b, model |-> m, updated |-> TRUE]],
             Finish(r, "ok")
      PROVE  IInv'
  <2> DEFINE row == [base |-> b, model |-> m, updated |-> TRUE]
  <2>1. row \in Row /\ row.updated
    BY <1>3 DEF Row, Served
  <2>2. rows' = [rows EXCEPT ![req[r].org][req[r].plane] = None, ![o][p] = row]
    BY <1>3
  <2> HIDE DEF row
  <2>3. rows' \in [Orgs -> Fleet]
    BY <1>1, <2>1, <2>2 DEF TypeOK, Fleet
  <2>4. \A x \in Orgs, y \in PlaneIds :
          rows'[x][y] = None \/ rows'[x][y] = row \/ rows'[x][y] = rows[x][y]
    BY <1>1, <2>2 DEF TypeOK, Fleet
  <2>5. \A x \in Orgs : Excused(rows'[x])
    BY <2>1, <2>4 DEF FleetInv, Excused
  <2> QED
    BY <1>1, <1>3, <2>3, <2>5, WriteInv
<1> QED
  BY <1>2, <1>3 DEF CommitUpdate

LEMMA CommitDeleteInv ==
  ASSUME IInv, NEW r \in Requests, CommitDelete(r)
  PROVE  IInv'
<1> USE DEF IInv
<1>1. /\ UNCHANGED <<loaded, sent, plans, job, verdict>>
      /\ req[r].phase = "deleting" /\ req[r].plane \in PlaneIds /\ req[r].org \in Orgs
  BY DEF CommitDelete, SlotInv
<1>2. CASE Finish(r, "refused") /\ UNCHANGED rows
  BY <1>1, <1>2, RefusedInv
<1>3. CASE rows' = [rows EXCEPT ![req[r].org][req[r].plane] = None] /\ Finish(r, "ok")
  <2>1. rows' \in [Orgs -> Fleet]
    BY <1>1, <1>3 DEF TypeOK, Fleet
  <2>2. \A o \in Orgs : Excused(rows'[o])
    BY <1>1, <1>3 DEF TypeOK, Fleet, FleetInv, Excused
  <2> QED
    BY <1>1, <1>3, <2>1, <2>2, WriteInv
<1> QED
  BY <1>2, <1>3 DEF CommitDelete

-----------------------------------------------------------------------------
(* From the demand to the plan. *)

LEMMA SubmitInv ==
  ASSUME IInv, NEW r \in Requests, Submit(r)
  PROVE  IInv'
<1> USE IdleIsRequest DEF IInv
<1>1. /\ UNCHANGED <<rows, loaded, plans>>
      /\ req[r].phase = "planning" /\ req[r].org \in Orgs
  BY DEF Submit, SlotInv
<1>2. CASE Finish(r, "refused") /\ UNCHANGED <<sent, job, verdict>>
  BY <1>1, <1>2, RefusedInv
<1>3. ASSUME NEW op \in Ops, Planner!Submit(op),
             sent' = [sent EXCEPT ![op] = [org |-> req[r].org, fleet |-> req[r].seen]],
             req' = [req EXCEPT ![r].phase = "solving", ![r].job = op],
             UNCHANGED reply
      PROVE  IInv'
  <2>0. /\ req' \in [Requests -> Request]
        /\ \A s \in Requests : s # r => req'[s] = req[s]
        /\ req'[r].phase = "solving" /\ req'[r].job = op
        /\ req'[r].org = req[r].org /\ req'[r].seen = req[r].seen
    <3> DEFINE q == [req[r] EXCEPT !.phase = "solving", !.job = op]
    <3>1. /\ q \in Request /\ q.phase = "solving" /\ q.job = op
          /\ q.org = req[r].org /\ q.seen = req[r].seen
      BY DEF TypeOK, Request
    <3>2. req' = [req EXCEPT ![r] = q]
      BY <1>3 DEF TypeOK
    <3> HIDE DEF q
    <3> QED
      BY <3>1, <3>2 DEF TypeOK
  <2>1. /\ sent' \in [Ops -> [org : Orgs, fleet : Fleet] \cup {None}]
        /\ sent'[op].fleet = req[r].seen
        /\ \A o \in Ops : o # op => sent'[o] = sent[o]
    BY <1>1, <1>3 DEF TypeOK, Request
  <2>2. TypeOK'
    BY <2>0, <2>1, <1>1, <1>3 DEF TypeOK
  <2>3. SlotInv'
    BY <2>0, <1>1 DEF SlotInv
  <2>4. FleetInv'
    BY <2>0, <2>1, <1>1 DEF FleetInv, Excused
  <2>5. PlansAreKept'
    BY <2>0, <1>1, <1>3 DEF PlansAreKept, TypeOK
  <2> QED
    BY <2>2, <2>3, <2>4, <2>5
<1> QED
  BY <1>2, <1>3 DEF Submit

LEMMA SolveInv ==
  ASSUME IInv, Solve
  PROVE  IInv'
<1> USE DEF IInv
<1>1. UNCHANGED <<rows, loaded, sent, plans, req, reply, job>>
  BY DEF Solve
<1>2. TypeOK'
  BY <1>1 DEF TypeOK, Solve
<1>3. SlotInv' /\ FleetInv' /\ PlansAreKept'
  BY <1>1 DEF SlotInv, FleetInv, Excused, PlansAreKept
<1> QED
  BY <1>2, <1>3

LEMMA HearInv ==
  ASSUME IInv, NEW r \in Requests, Hear(r)
  PROVE  IInv'
<1> USE IdleIsRequest DEF IInv
<1>1. /\ UNCHANGED <<rows, loaded, sent, plans, verdict>>
      /\ req[r].phase = "solving" /\ req[r].job \in Ops
      /\ job[req[r].job] = "pending"
      /\ job' = [job EXCEPT ![req[r].job] = IF verdict[req[r].job] = "ok" THEN "ok" ELSE "bad"]
  BY DEF Hear, SlotInv
<1>2. job' \in [Ops -> {"new", "pending", "ok", "bad"}]
  BY <1>1 DEF TypeOK
<1>3. CASE verdict[req[r].job] = "ok"
  <2>1. req' = [req EXCEPT ![r].phase = "recording"] /\ UNCHANGED reply
    BY <1>3 DEF Hear
  <2>2. /\ req' \in [Requests -> Request]
        /\ \A s \in Requests : s # r => req'[s] = req[s]
        /\ req'[r].phase = "recording" /\ req'[r].job = req[r].job
        /\ req'[r].org = req[r].org /\ req'[r].seen = req[r].seen
    BY <2>1 DEF TypeOK, Request
  <2>3. TypeOK'
    BY <1>1, <1>2, <2>1, <2>2 DEF TypeOK
  <2>4. SlotInv'
    BY <1>1, <2>2 DEF SlotInv
  <2>5. FleetInv'
    BY <1>1, <2>2 DEF FleetInv, Excused
  <2>6. PlansAreKept'
    BY <1>1, <1>3, <2>2 DEF PlansAreKept, TypeOK
  <2> QED
    BY <2>3, <2>4, <2>5, <2>6
<1>4. CASE verdict[req[r].job] # "ok"
  <2>1. Finish(r, "refused")
    BY <1>4 DEF Hear
  <2>2. /\ req' \in [Requests -> Request]
        /\ reply' \in [Requests -> {"none", "ok", "refused"}]
        /\ \A s \in Requests : req'[s] = IF s = r THEN Idle ELSE req[s]
    BY <2>1, FinishKeeps
  <2>3. TypeOK'
    BY <1>1, <1>2, <2>2 DEF TypeOK
  <2>4. SlotInv'
    BY <1>1, <2>2 DEF SlotInv
  <2>5. FleetInv'
    BY <1>1, <2>2 DEF FleetInv, Excused, NoPlanes
  <2>6. PlansAreKept'
    BY <1>1, <1>4, <2>2 DEF PlansAreKept, TypeOK
  <2> QED
    BY <2>3, <2>4, <2>5, <2>6
<1> QED
  BY <1>3, <1>4

LEMMA RecordInv ==
  ASSUME IInv, NEW r \in Requests, Record(r)
  PROVE  IInv'
<1> USE IdleIsRequest DEF IInv
<1>0. /\ req' \in [Requests -> Request] /\ reply' \in [Requests -> {"none", "ok", "refused"}]
      /\ \A s \in Requests : req'[s] = IF s = r THEN Idle ELSE req[s]
  BY FinishKeeps DEF Record
<1>1. /\ UNCHANGED <<rows, loaded, sent, job, verdict>>
      /\ req[r].phase = "recording" /\ req[r].job \in Ops
      /\ plans' = plans \cup {req[r].job}
  BY DEF Record, SlotInv
<1>2. TypeOK'
  BY <1>0, <1>1 DEF TypeOK
<1>3. SlotInv'
  BY <1>0, <1>1 DEF SlotInv
<1>4. FleetInv'
  BY <1>0, <1>1 DEF FleetInv, Excused, NoPlanes
<1>5. PlansAreKept'
  BY <1>0, <1>1 DEF PlansAreKept
<1> QED
  BY <1>2, <1>3, <1>4, <1>5

-----------------------------------------------------------------------------
LEMMA InitInv == Init => IInv
<1> SUFFICES ASSUME Init PROVE IInv
  OBVIOUS
<1>1. TypeOK
  BY IdleIsRequest DEF Init, TypeOK, Fleet, NoPlanes
<1>2. SlotInv /\ FleetInv
  BY IdleIsRequest DEF Init, SlotInv, FleetInv, Excused, NoPlanes
<1>3. PlansAreKept
  BY IdleIsRequest DEF Init, PlansAreKept
<1> QED
  BY <1>1, <1>2, <1>3 DEF IInv

LEMMA NextInv == IInv /\ [Next]_vars => IInv'
<1> SUFFICES ASSUME IInv, [Next]_vars PROVE IInv'
  OBVIOUS
<1>1. CASE Load
  BY <1>1 DEF Load, IInv, TypeOK, SlotInv, FleetInv, Excused, PlansAreKept
<1>2. CASE UNCHANGED vars
  BY <1>2 DEF vars, IInv, TypeOK, SlotInv, FleetInv, Excused, PlansAreKept
<1>3. ASSUME NEW r \in Requests, Proceed(r) PROVE IInv'
  BY <1>3, CommitAddInv, CommitUpdateInv, CommitDeleteInv, SubmitInv, HearInv, RecordInv
     DEF Proceed
<1> QED
  BY <1>1, <1>2, <1>3, ArriveInv, SolveInv DEF Next

(* The inductive invariant holds for any number of planes and requests. *)
THEOREM Invariance == Spec => []IInv
BY InitInv, NextInv, PTL DEF Spec

(* Every variable keeps its type. *)
THEOREM TypeCorrect == Spec => []TypeOK
<1>1. IInv => TypeOK
  BY DEF IInv
<1> QED
  BY <1>1, Invariance, PTL

(* planRoute's plans reach table Routing: a plan the planner answered is   *)
(* recorded or about to be, and nothing else is.                           *)
THEOREM NoPlanIsLost == Spec => []PlansAreKept
<1>1. IInv => PlansAreKept
  BY DEF IInv
<1> QED
  BY <1>1, Invariance, PTL

(* Only updatePlane brings a plane where it cannot fly from, in the table  *)
(* and in what the planner is given.                                       *)
THEOREM MisplacedByUpdate == Spec => []OnlyUpdatesMisplace
<1>1. IInv => OnlyUpdatesMisplace
  BY DEF IInv, FleetInv, Excused, OnlyUpdatesMisplace, Fleets
<1> QED
  BY <1>1, Invariance, PTL

(* A plane is changed, moved or removed only by requests that name it and  *)
(* its organization, and never overwritten or doubled, whatever ids bodies *)
(* name.                                                                   *)
THEOREM OthersKeepTheirPlanes == Spec => OwnPlanesOnly
<1> DEFINE Own == \A o \in Orgs, p \in PlaneIds : rows'[o][p] # rows[o][p] =>
                    \E r \in Requests : reply'[r] = "ok" /\ Entitled(req[r], o, p)
<1>1. IInv /\ [Next]_vars => [Own]_vars
  <2> SUFFICES ASSUME IInv, Next PROVE Own
    BY DEF vars
  <2>0. ASSUME NEW r \in Requests, Finish(r, "ok"),
               \A o \in Orgs, p \in PlaneIds : rows'[o][p] # rows[o][p] => Entitled(req[r], o, p)
        PROVE  Own
    <3>1. reply'[r] = "ok"
      BY <2>0, FinishKeeps DEF IInv
    <3> QED
      BY <2>0, <3>1
  <2>1. CASE UNCHANGED rows
    BY <2>1
  <2>2. ASSUME NEW r \in Requests, CommitAdd(r), ~UNCHANGED rows PROVE Own
    <3>1. PICK p \in PlaneIds, row \in [base : Bases, model : Types, updated : BOOLEAN] :
            Free(req[r].org, p) /\ rows' = [rows EXCEPT ![req[r].org][p] = row]
      BY <2>2 DEF CommitAdd
    <3>2. Finish(r, "ok") /\ req[r].phase = "adding" /\ req[r].org \in Orgs
      BY <2>2 DEF CommitAdd, IInv, SlotInv
    <3>3. ASSUME NEW o \in Orgs, NEW x \in PlaneIds, rows'[o][x] # rows[o][x]
          PROVE  o = req[r].org /\ x = p
      BY <3>1, <3>2, <3>3 DEF IInv, TypeOK, Fleet
    <3> QED
      BY <2>0, <3>1, <3>2, <3>3 DEF Free, Holds, Entitled
  <2>3. ASSUME NEW r \in Requests, CommitUpdate(r), ~UNCHANGED rows PROVE Own
    <3>1. PICK o \in Orgs, p \in PlaneIds, row \in [base : Bases, model : Types, updated : {TRUE}] :
            /\ Holds(req[r].org, req[r].plane)
            /\ Free(o, p) \/ <<o, p>> = <<req[r].org, req[r].plane>>
            /\ rows' = [rows EXCEPT ![req[r].org][req[r].plane] = None, ![o][p] = row]
      BY <2>3 DEF CommitUpdate
    <3>2. /\ Finish(r, "ok") /\ req[r].phase = "updating"
          /\ req[r].org \in Orgs /\ req[r].plane \in PlaneIds
      BY <2>3 DEF CommitUpdate, IInv, SlotInv
    <3> DEFINE there == o = req[r].org /\ p = req[r].plane
    <3>3. ASSUME NEW x \in Orgs, NEW y \in PlaneIds, rows'[x][y] # rows[x][y]
          PROVE  (x = req[r].org /\ y = req[r].plane) \/ (x = o /\ y = p)
      BY <3>1, <3>2, <3>3 DEF IInv, TypeOK, Fleet
    <3>4. ~there => rows'[req[r].org][req[r].plane] = None /\ rows[o][p] = None
      BY <3>1, <3>2 DEF IInv, TypeOK, Fleet, Free
    <3>5. rows[req[r].org][req[r].plane] # None
      BY <3>1 DEF Holds
    <3> QED
      BY <2>0, <3>2, <3>3, <3>4, <3>5 DEF Holds, Entitled
  <2>4. ASSUME NEW r \in Requests, CommitDelete(r), ~UNCHANGED rows PROVE Own
    <3>1. /\ Holds(req[r].org, req[r].plane) /\ Finish(r, "ok")
          /\ rows' = [rows EXCEPT ![req[r].org][req[r].plane] = None]
          /\ req[r].phase = "deleting" /\ req[r].org \in Orgs
      BY <2>4 DEF CommitDelete, IInv, SlotInv
    <3>2. ASSUME NEW x \in Orgs, NEW y \in PlaneIds, rows'[x][y] # rows[x][y]
          PROVE  x = req[r].org /\ y = req[r].plane
      BY <3>1, <3>2 DEF IInv, TypeOK, Fleet
    <3> QED
      BY <2>0, <3>1, <3>2 DEF Holds, Entitled
  <2>5. CASE Load \/ Solve
    BY <2>5 DEF Load, Solve
  <2>6. ASSUME NEW r \in Requests, Arrive(r) PROVE UNCHANGED rows
    BY <2>6 DEF Arrive, AddPlane, UpdatePlane, DeletePlane, PlanRoute, Begin
  <2>7. ASSUME NEW r \in Requests, Submit(r) \/ Hear(r) \/ Record(r) PROVE UNCHANGED rows
    BY <2>7 DEF Submit, Hear, Record
  <2> HIDE DEF Own
  <2> QED
    BY <2>1, <2>2, <2>3, <2>4, <2>5, <2>6, <2>7 DEF Next, Proceed
<1> QED
  BY <1>1, Invariance, PTL DEF Spec, OwnPlanesOnly

-----------------------------------------------------------------------------
(* Where the airports come from: what AviationData publishes.              *)

LEMMA LeastOf ==
  ASSUME NEW S \in SUBSET Nat, S # {}
  PROVE  \E n \in S : \A m \in S : n <= m
<1> DEFINE R == OpToRel(<, Nat)
<1>1. IsWellFoundedOn(R, Nat)
  BY NatLessThanWellFounded
<1>2. ASSUME NEW x \in Nat, NEW y \in Nat, ~ (<<y, x>> \in R) PROVE x <= y
  BY <1>2 DEF OpToRel
<1> HIDE DEF R
<1>3. PICK x \in S : \A y \in S : ~ (<<y, x>> \in R)
  BY <1>1, WFMin, Zenon
<1> QED
  BY <1>2, <1>3

LEMMA GreatestOf ==
  ASSUME NEW n \in Nat, NEW S \in SUBSET (1..n), S # {}
  PROVE  Greatest(S) \in S /\ \A j \in S : j <= Greatest(S)
<1> DEFINE D == {m \in Nat : n - m \in S}
<1>1. D # {}
  <2>1. PICK i \in S : TRUE
    OBVIOUS
  <2>2. n - i \in D
    OBVIOUS
  <2> QED
    BY <2>2
<1>2. PICK m \in D : \A k \in D : m <= k
  <2>1. D \in SUBSET Nat
    OBVIOUS
  <2> HIDE DEF D
  <2> QED
    BY <1>1, <2>1, LeastOf
<1>3. n - m \in S
  BY <1>2
<1>4. ASSUME NEW j \in S PROVE j <= n - m
  <2>1. n - j \in D
    <3>1. j \in 1..n /\ n - j \in Nat /\ n - (n - j) = j
      OBVIOUS
    <3> QED
      BY <3>1
  <2>2. m \in Nat /\ j \in Nat
    BY <1>2
  <2> HIDE DEF D
  <2> QED
    BY <1>2, <2>1, <2>2
<1>5. \E i \in S : \A j \in S : j <= i
  BY <1>3, <1>4
<1> QED
  BY <1>5 DEF Greatest

LEMMA LeastIs ==
  ASSUME NEW S \in SUBSET Nat, S # {}
  PROVE  Least(S) \in S /\ \A j \in S : Least(S) <= j
BY LeastOf DEF Least

-----------------------------------------------------------------------------
(* The filter. *)

Kept(a) == a.runways > 0 /\ a.fuel # 0

Filters(s, kept) ==
  kept = [n \in 0..Len(s) |->
            IF n = 0 THEN <<>>
            ELSE IF s[n].runways > 0 /\ s[n].fuel # 0
            THEN Append(kept[n - 1], s[n]) ELSE kept[n - 1]]

FiltersTo(s, n, kept) ==
  kept = [m \in 0..n |->
            IF m = 0 THEN <<>>
            ELSE IF s[m].runways > 0 /\ s[m].fuel # 0
            THEN Append(kept[m - 1], s[m]) ELSE kept[m - 1]]

LEMMA FilterExists ==
  ASSUME NEW s, Len(s) \in Nat
  PROVE  \E kept : Filters(s, kept)
<1> DEFINE Wrong == {n \in Nat : ~ \E kept : FiltersTo(s, n, kept)}
<1>1. ASSUME Wrong # {} PROVE FALSE
  <2>1. PICK n \in Wrong : \A m \in Wrong : n <= m
    BY <1>1, LeastOf
  <2>2. n \in Nat /\ ~ \E kept : FiltersTo(s, n, kept)
    BY <2>1
  <2>3. n # 0
    <3>1. FiltersTo(s, 0, [m \in 0..0 |-> <<>>])
      BY DEF FiltersTo
    <3> QED
      BY <2>2, <3>1
  <2>4. n - 1 \in Nat /\ n - 1 \notin Wrong
    <3> HIDE DEF Wrong
    <3> QED
      BY <2>1, <2>2, <2>3
  <2>5. PICK g : FiltersTo(s, n - 1, g)
    BY <2>4
  <2> DEFINE h == [m \in 0..n |->
                     IF m = n THEN IF s[m].runways > 0 /\ s[m].fuel # 0
                                   THEN Append(g[m - 1], s[m]) ELSE g[m - 1]
                     ELSE g[m]]
  <2>6. \A m \in 0..(n - 1) :
          g[m] = IF m = 0 THEN <<>>
                 ELSE IF s[m].runways > 0 /\ s[m].fuel # 0
                 THEN Append(g[m - 1], s[m]) ELSE g[m - 1]
    BY <2>5 DEF FiltersTo
  <2>7. \A m \in 0..n :
          h[m] = IF m = 0 THEN <<>>
                 ELSE IF s[m].runways > 0 /\ s[m].fuel # 0
                 THEN Append(h[m - 1], s[m]) ELSE h[m - 1]
    <3> TAKE m \in 0..n
    <3>1. CASE m = n
      <4>1. h[m - 1] = g[m - 1]
        BY <2>3, <2>2, <3>1
      <4> QED
        BY <2>2, <2>3, <3>1, <4>1
    <3>2. CASE m # n
      <4>1. m \in 0..(n - 1) /\ h[m] = g[m]
        BY <2>2, <3>2
      <4>2. m # 0 => h[m - 1] = g[m - 1]
        BY <2>2, <3>2
      <4> HIDE DEF h
      <4> QED
        BY <2>6, <4>1, <4>2
    <3> QED
      BY <3>1, <3>2
  <2>8. h = [m \in 0..n |-> h[m]]
    OBVIOUS
  <2> HIDE DEF h
  <2>9. FiltersTo(s, n, h)
    BY <2>7, <2>8, Zenon DEF FiltersTo
  <2> QED
    BY <2>2, <2>9
<1>2. \E kept : FiltersTo(s, Len(s), kept)
  BY <1>1
<1> QED
  BY <1>2 DEF Filters, FiltersTo

LEMMA AppendedOne ==
  ASSUME NEW A, NEW q \in Seq(A), NEW x \in A
  PROVE  {Append(q, x)[i] : i \in 1..Len(Append(q, x))} = {q[i] : i \in 1..Len(q)} \cup {x}
<1> PICK h : h = Append(q, x)
  OBVIOUS
<1>1. /\ Len(h) = Len(q) + 1 /\ Len(q) \in Nat /\ h[Len(q) + 1] = x
      /\ \A i \in 1..Len(q) : h[i] = q[i]
  OBVIOUS
<1>2. ASSUME NEW i \in 1..Len(h) PROVE h[i] \in {q[k] : k \in 1..Len(q)} \cup {x}
  <2>1. i \in 1..Len(q) \/ i = Len(q) + 1
    BY <1>1
  <2> QED
    BY <1>1, <2>1
<1>3. ASSUME NEW i \in 1..Len(q) PROVE q[i] \in {h[k] : k \in 1..Len(h)}
  <2>1. i \in 1..Len(h)
    BY <1>1
  <2> QED
    BY <1>1, <2>1
<1>4. x \in {h[k] : k \in 1..Len(h)}
  BY <1>1
<1>5. {h[i] : i \in 1..Len(h)} = {q[i] : i \in 1..Len(q)} \cup {x}
  BY <1>2, <1>3, <1>4
<1> QED
  BY <1>5

LEMMA UsableTyped ==
  ASSUME NEW s \in Seq(Airport)
  PROVE  Usable(s) \in Seq(Airport)
<1> DEFINE f == CHOOSE kept : Filters(s, kept)
           Wrong == {n \in 0..Len(s) : f[n] \notin Seq(Airport)}
<1>1. Filters(s, f)
  BY FilterExists
<1>2. Usable(s) = f[Len(s)]
  BY DEF Usable, Filters
<1> HIDE DEF f
<1>3. \A n \in 0..Len(s) :
        f[n] = IF n = 0 THEN <<>>
               ELSE IF Kept(s[n]) THEN Append(f[n - 1], s[n]) ELSE f[n - 1]
  BY <1>1, Zenon DEF Filters, Kept
<1>4. ASSUME Wrong # {} PROVE FALSE
  <2>1. PICK n \in Wrong : \A m \in Wrong : n <= m
    <3>1. Wrong \in SUBSET Nat
      OBVIOUS
    <3> HIDE DEF Wrong
    <3> QED
      BY <1>4, <3>1, LeastOf
  <2>2. n \in 0..Len(s) /\ f[n] \notin Seq(Airport)
    BY <2>1
  <2>3. n # 0
    <3>1. 0 \in 0..Len(s)
      OBVIOUS
    <3>2. f[0] = <<>>
      BY <1>3, <3>1
    <3>3. <<>> \in Seq(Airport)
      OBVIOUS
    <3> QED
      BY <2>2, <3>2, <3>3
  <2>4. n - 1 \in 0..Len(s) /\ n - 1 \notin Wrong /\ s[n] \in Airport
    <3>1. n \in 1..Len(s) /\ n - 1 < n /\ n - 1 \in 0..Len(s)
      BY <2>2, <2>3
    <3> HIDE DEF Wrong
    <3> QED
      BY <2>1, <3>1
  <2>5. f[n - 1] \in Seq(Airport)
    BY <2>4
  <2>6. Append(f[n - 1], s[n]) \in Seq(Airport)
    BY <2>4, <2>5
  <2>7. f[n] \in {f[n - 1], Append(f[n - 1], s[n])}
    BY <1>3, <2>2, <2>3
  <2> QED
    BY <2>2, <2>5, <2>6, <2>7
<1>5. f[Len(s)] \in Seq(Airport)
  BY <1>4
<1> QED
  BY <1>2, <1>5

(* What is left has the elements that were kept, each once. *)
LEMMA UsableIs ==
  ASSUME NEW s \in Seq(Airport),
         \A i, j \in 1..Len(s) : Kept(s[i]) /\ Kept(s[j]) /\ s[i] = s[j] => i = j
  PROVE  /\ {Usable(s)[i] : i \in 1..Len(Usable(s))} = {s[i] : i \in {j \in 1..Len(s) : Kept(s[j])}}
         /\ Len(Usable(s)) = Cardinality({s[i] : i \in {j \in 1..Len(s) : Kept(s[j])}})
<1> DEFINE f == CHOOSE kept : Filters(s, kept)
           Of(n) == {s[i] : i \in {j \in 1..n : Kept(s[j])}}
           Right(n) == /\ f[n] \in Seq(Airport)
                       /\ {f[n][i] : i \in 1..Len(f[n])} = Of(n)
                       /\ IsFiniteSet(Of(n)) /\ Len(f[n]) = Cardinality(Of(n))
           Wrong == {n \in 0..Len(s) : ~ Right(n)}
<1>1. Filters(s, f)
  BY FilterExists
<1>2. Usable(s) = f[Len(s)]
  BY DEF Usable, Filters
<1> HIDE DEF f
<1>3. \A n \in 0..Len(s) :
        f[n] = IF n = 0 THEN <<>>
               ELSE IF Kept(s[n]) THEN Append(f[n - 1], s[n]) ELSE f[n - 1]
  BY <1>1, Zenon DEF Filters, Kept
<1>4. Right(0)
  <2>1. f[0] = <<>>
    <3>1. 0 \in 0..Len(s)
      OBVIOUS
    <3> QED
      BY <1>3, <3>1
  <2>2. Of(0) = {}
    OBVIOUS
  <2>3. {f[0][i] : i \in 1..Len(f[0])} = {}
    BY <2>1
  <2> HIDE DEF Of
  <2>4. f[0] \in Seq(Airport) /\ Len(f[0]) = 0
    BY <2>1
  <2> QED
    BY <2>2, <2>3, <2>4, FS_EmptySet
<1>5. ASSUME NEW n \in 1..Len(s), Right(n - 1) PROVE Right(n)
  <2>1. CASE Kept(s[n])
    <3>1. f[n] = Append(f[n - 1], s[n])
      <4>1. n \in 0..Len(s) /\ n # 0
        OBVIOUS
      <4> QED
        BY <1>3, <2>1, <4>1
    <3>2. Of(n) = Of(n - 1) \cup {s[n]}
      BY <2>1
    <3>3. s[n] \notin Of(n - 1)
      BY <2>1
    <3>4. s[n] \in Airport
      OBVIOUS
    <3> HIDE DEF Of
    <3>5. IsFiniteSet(Of(n)) /\ Cardinality(Of(n)) = Cardinality(Of(n - 1)) + 1
      BY <1>5, <3>2, <3>3, FS_AddElement
    <3>6. f[n] \in Seq(Airport) /\ Len(f[n]) = Len(f[n - 1]) + 1
      BY <1>5, <3>1, <3>4
    <3>7. {f[n][i] : i \in 1..Len(f[n])} = Of(n)
      <4> PICK q : q = f[n - 1]
        OBVIOUS
      <4>1. q \in Seq(Airport) /\ f[n] = Append(q, s[n]) /\ {q[i] : i \in 1..Len(q)} = Of(n - 1)
        BY <1>5, <3>1
      <4>2. {Append(q, s[n])[i] : i \in 1..Len(Append(q, s[n]))} = {q[i] : i \in 1..Len(q)} \cup {s[n]}
        BY <3>4, <4>1, AppendedOne
      <4> QED
        BY <3>2, <4>1, <4>2
    <3> QED
      BY <1>5, <3>5, <3>6, <3>7
  <2>2. CASE ~ Kept(s[n])
    <3>1. f[n] = f[n - 1]
      <4>1. n \in 0..Len(s) /\ n # 0
        OBVIOUS
      <4> QED
        BY <1>3, <2>2, <4>1
    <3>2. Of(n) = Of(n - 1)
      BY <2>2
    <3> HIDE DEF Of
    <3> QED
      BY <1>5, <3>1, <3>2
  <2> QED
    BY <2>1, <2>2
<1> HIDE DEF Right
<1>6. ASSUME Wrong # {} PROVE FALSE
  <2>1. PICK n \in Wrong : \A m \in Wrong : n <= m
    <3>1. Wrong \in SUBSET Nat
      OBVIOUS
    <3> HIDE DEF Wrong
    <3> QED
      BY <1>6, <3>1, LeastOf
  <2>2. n # 0 /\ n \in 0..Len(s) /\ ~ Right(n)
    BY <1>4, <2>1
  <2>3. n - 1 \in 0..Len(s) /\ n - 1 \notin Wrong
    <3>1. n \in 1..Len(s) /\ n - 1 < n /\ n - 1 \in 0..Len(s)
      BY <2>2
    <3> HIDE DEF Wrong
    <3> QED
      BY <2>1, <3>1
  <2> QED
    BY <1>5, <2>2, <2>3
<1>7. Right(Len(s))
  BY <1>6
<1> QED
  BY <1>2, <1>7 DEF Right

-----------------------------------------------------------------------------
(* What holds of the array while the files are read.                       *)

ListedTo(id) == {i \in ListedRows(id) : i <= at["airports"]}
PricedTo(id) == {i \in Rows("fuel", id) : i <= at["fuel"]}
StripsTo(id) == {i \in Rows("runways", id) : i <= at["runways"]}
PriceTo(id) ==
  IF PricedTo(id) = {} THEN 0 ELSE content["fuel"][Greatest(PricedTo(id))].price

ReadInOrder ==
  /\ at \in [Files -> Nat]
  /\ chain = 1 => at["fuel"] = 0
  /\ chain <= 2 => at["runways"] = 0
  /\ chain > 1 => at["airports"] = Len(content["airports"])
  /\ chain > 2 => at["fuel"] = Len(content["fuel"])
  /\ promise["airports"] = "ok" =>
       /\ chain = 4 /\ at["runways"] = Len(content["runways"])
       /\ value = Usable(data)

(* The first airport of an id has what the rows so far say of it.          *)
DataIsRead ==
  /\ \A id \in Ids : With(id) # {} <=> ListedTo(id) # {}
  /\ \A id \in Ids, i \in 1..Len(data) :
       data[i].id = id =>
         IF i \in With(id)
         THEN /\ data[i].city = content["airports"][Least(ListedTo(id))].city
              /\ data[i].fuel = PriceTo(id) /\ data[i].runways = Cardinality(StripsTo(id))
         ELSE data[i].fuel = 0 /\ data[i].runways = 0

FilesInv == DataTypeOK /\ ReadInOrder /\ DataIsRead

LEMMA FilesAre ==
  ASSUME content \in Contents
  PROVE  /\ content["airports"] \in Seq(AirportRow)
         /\ content["fuel"] \in Seq(FuelRow)
         /\ content["runways"] \in Seq(RunwayRow)
         /\ content["planes"] \in Seq(Nat)
BY ContentsTyped

LEMMA WithIs ==
  ASSUME data \in Seq(Airport), NEW id
  PROVE  /\ With(id) = {} <=> \A i \in 1..Len(data) : data[i].id # id
         /\ \A i, j \in With(id) : i = j
         /\ With(id) \subseteq 1..Len(data)
<1>1. ASSUME NEW k \in 1..Len(data), data[k].id = id PROVE With(id) # {}
  <2> DEFINE S == {i \in 1..Len(data) : data[i].id = id}
  <2>1. PICK i \in S : \A j \in S : i <= j
    <3>1. S \in SUBSET Nat /\ S # {}
      BY <1>1
    <3> HIDE DEF S
    <3> QED
      BY <3>1, LeastOf
  <2>2. \A j \in 1..(i - 1) : data[j].id # id
    BY <2>1
  <2> QED
    BY <2>1, <2>2 DEF With
<1>2. ASSUME NEW i \in With(id), NEW j \in With(id) PROVE i = j
  <2>1. /\ i \in 1..Len(data) /\ data[i].id = id /\ \A k \in 1..(i - 1) : data[k].id # id
        /\ j \in 1..Len(data) /\ data[j].id = id /\ \A k \in 1..(j - 1) : data[k].id # id
    BY DEF With
  <2>2. ~ (i < j) /\ ~ (j < i)
    BY <2>1
  <2> QED
    BY <2>1, <2>2
<1>3. With(id) \subseteq 1..Len(data)
  BY DEF With
<1>4. ASSUME NEW k \in With(id) PROVE data[k].id = id
  BY DEF With
<1> QED
  BY <1>1, <1>2, <1>3, <1>4

LEMMA FilesFirst ==
  ASSUME DataInit
  PROVE  FilesInv
<1>1. content \in Contents
  BY DEF DataInit
<1>2. \A f \in Files : Len(content[f]) \in Nat
  BY <1>1, FilesAre DEF Files
<1>3. DataTypeOK
  BY <1>1, <1>2 DEF DataInit, DataTypeOK, Files
<1>4. ReadInOrder
  <2>1. at \in [Files -> Nat] /\ at["fuel"] = 0 /\ at["runways"] = 0 /\ chain = 1
        /\ promise["airports"] # "ok"
    BY DEF DataInit, Files, Promises
  <2> QED
    BY <2>1 DEF ReadInOrder
<1>5. DataIsRead
  <2>1. data = <<>> /\ at["airports"] = 0
    BY DEF DataInit, Files
  <2>2. \A id : With(id) = {}
    BY <2>1 DEF With
  <2>3. \A id : ListedTo(id) = {}
    <3>1. Len(content["airports"]) \in Nat
      BY <1>2 DEF Files
    <3>2. \A id : ListedRows(id) \subseteq 1..Len(content["airports"])
      BY DEF ListedRows, Rows
    <3> QED
      BY <2>1, <3>1, <3>2 DEF ListedTo
  <2> QED
    BY <2>1, <2>2, <2>3 DEF DataIsRead
<1> QED
  BY <1>3, <1>4, <1>5 DEF FilesInv

(* Steps that read nothing. *)
LEMMA FilesUnread ==
  ASSUME FilesInv, DataTypeOK',
         content' = content, at' = at, chain' = chain, data' = data, value' = value,
         promise'["airports"] = "ok" => promise["airports"] = "ok"
  PROVE  FilesInv'
<1>1. ReadInOrder'
  <2>1. Usable(data)' = Usable(data)
    <3> PICK d : d = data
      OBVIOUS
    <3>1. data' = d
      OBVIOUS
    <3> QED
      BY <3>1
  <2> QED
    BY <2>1 DEF FilesInv, ReadInOrder
<1>2. /\ \A id : ListedTo(id)' = ListedTo(id)
      /\ \A id : PriceTo(id)' = PriceTo(id)
      /\ \A id : StripsTo(id)' = StripsTo(id)
      /\ \A id : With(id)' = With(id)
  BY DEF ListedTo, PriceTo, PricedTo, StripsTo, With, ListedRows, Rows
<1>3. DataIsRead'
  BY <1>2 DEF FilesInv, DataIsRead
<1> QED
  BY <1>1, <1>3 DEF FilesInv

(* A row of a file, which the three below come to. *)
LEMMA RowIs ==
  ASSUME FilesInv, NEW f \in Files, ReadRow(f), NEW n, n = at[f] + 1
  PROVE  /\ Reading(f) /\ n \in 1..Len(content[f]) /\ Len(content[f]) \in Nat /\ n \in Nat
         /\ content[f][n] = content[f][at[f] + 1]
         /\ data' = Take(f, content[f][n])
         /\ content' = content /\ chain' = chain /\ value' = value /\ promise' = promise
         /\ watched' = watched /\ todo' = todo /\ answer' = answer /\ server' = server
         /\ at' \in [Files -> Nat] /\ at'[f] = n /\ \A g \in Files \ {f} : at'[g] = at[g]
         /\ \A g \in Files : Len(content[g]) \in Nat /\ at'[g] \in 0..Len(content[g])
         /\ content \in Contents /\ data \in Seq(Airport)
         /\ promise["airports"] # "ok" \/ f = "planes"
<1>1. at \in [Files -> Nat] /\ content \in Contents /\ data \in Seq(Airport)
      /\ \A g \in Files : at[g] \in 0..Len(content[g])
  BY DEF FilesInv, DataTypeOK, ReadInOrder
<1>2. \A g \in Files : Len(content[g]) \in Nat
  BY <1>1, FilesAre DEF Files
<1>3. /\ Reading(f) /\ at[f] < Len(content[f])
      /\ at' = [at EXCEPT ![f] = @ + 1] /\ data' = Take(f, content[f][at[f] + 1])
      /\ content' = content /\ chain' = chain /\ value' = value /\ promise' = promise
      /\ watched' = watched /\ todo' = todo /\ answer' = answer /\ server' = server
  BY DEF ReadRow
<1>4. promise["airports"] # "ok" \/ f = "planes"
  BY <1>3 DEF Reading
<1>5. /\ at' \in [Files -> Nat] /\ at'[f] = n /\ \A g \in Files \ {f} : at'[g] = at[g]
      /\ \A g \in Files : at'[g] \in 0..Len(content[g])
  BY <1>1, <1>2, <1>3
<1>6. n \in 1..Len(content[f]) /\ n \in Nat
  BY <1>1, <1>2, <1>3
<1> QED
  BY <1>1, <1>2, <1>3, <1>4, <1>5, <1>6

LEMMA AirportRowRead ==
  ASSUME FilesInv, ReadRow("airports")
  PROVE  FilesInv'
<1> PICK n, row : n = at["airports"] + 1 /\ row = content["airports"][n]
  OBVIOUS
<1>1. "airports" \in Files /\ "fuel" \in Files \ {"airports"} /\ "runways" \in Files \ {"airports"}
  BY DEF Files
<1>2. /\ Reading("airports") /\ n \in 1..Len(content["airports"]) /\ Len(content["airports"]) \in Nat
      /\ data' = Take("airports", row) /\ n \in Nat
      /\ content' = content /\ chain' = chain /\ value' = value /\ promise' = promise
      /\ watched' = watched /\ todo' = todo /\ answer' = answer /\ server' = server
      /\ at' \in [Files -> Nat] /\ at'["airports"] = n /\ \A g \in Files \ {"airports"} : at'[g] = at[g]
      /\ \A g \in Files : Len(content[g]) \in Nat /\ at'[g] \in 0..Len(content[g])
      /\ content \in Contents /\ data \in Seq(Airport)
      /\ promise["airports"] # "ok"
  BY <1>1, RowIs
<1>3. chain = 1 /\ at["fuel"] = 0 /\ at["runways"] = 0 /\ at["airports"] = n - 1
  <2>1. chain = 1
    BY <1>2 DEF Reading, Chained, FilesInv, DataTypeOK
  <2>2. at["airports"] \in Nat
    BY <1>1 DEF FilesInv, ReadInOrder
  <2> QED
    BY <2>1, <2>2 DEF FilesInv, ReadInOrder
<1>4. row \in AirportRow
  BY <1>2, FilesAre
<1>5. data' = IF Listed(row) THEN Append(data, NewAirport(row)) ELSE data
  BY <1>2 DEF Take
<1> PICK new : new = NewAirport(row)
  OBVIOUS
<1>6. new \in Airport /\ new.id = row.id /\ new.city = row.city /\ new.fuel = 0 /\ new.runways = 0
  BY <1>4, ZeroIsPrice DEF NewAirport, AirportRow, Airport
<1>7. data' \in Seq(Airport)
  <2>1. data \in Seq(Airport)
    BY <1>2
  <2>2. Append(data, new) \in Seq(Airport)
    BY <1>6, <2>1
  <2> QED
    BY <1>5, <2>1, <2>2
<1>8. DataTypeOK'
  BY <1>2, <1>7 DEF FilesInv, DataTypeOK
<1>9. ReadInOrder'
  BY <1>1, <1>2, <1>3 DEF ReadInOrder
<1>10. /\ \A id : PriceTo(id) = 0 /\ PriceTo(id)' = 0
       /\ \A id : Cardinality(StripsTo(id)) = 0 /\ Cardinality(StripsTo(id)') = 0
  <2>1. \A id : PricedTo(id) = {} /\ StripsTo(id) = {}
    <3>1. Len(content["fuel"]) \in Nat /\ Len(content["runways"]) \in Nat
      BY <1>1, <1>2
    <3> QED
      BY <1>3, <3>1 DEF PricedTo, StripsTo, Rows
  <2>2. \A id : PricedTo(id)' = PricedTo(id) /\ StripsTo(id)' = StripsTo(id)
    BY <1>1, <1>2 DEF PricedTo, StripsTo, Rows
  <2> QED
    BY <2>1, <2>2, FS_EmptySet DEF PriceTo
<1>11. \A id : ListedTo(id)' = IF Listed(row) /\ id = row.id THEN ListedTo(id) \cup {n} ELSE ListedTo(id)
  <2> TAKE id
  <2>1. ListedRows(id)' = ListedRows(id) /\ ListedRows(id) \subseteq 1..Len(content["airports"])
    BY <1>2 DEF ListedRows, Rows
  <2>2. n \in ListedRows(id) <=> Listed(row) /\ id = row.id
    BY <1>2 DEF ListedRows, Rows
  <2>3. ListedTo(id)' = {i \in ListedRows(id) : i <= n}
    BY <1>2, <2>1 DEF ListedTo
  <2>4. ListedTo(id) = {i \in ListedRows(id) : i <= n - 1}
    BY <1>3 DEF ListedTo
  <2>5. \A i \in ListedRows(id) : i <= n <=> i <= n - 1 \/ i = n
    BY <1>2, <2>1
  <2> QED
    BY <2>2, <2>3, <2>4, <2>5
<1>12. CASE ~ Listed(row)
  <2>1. data' = data /\ \A id : ListedTo(id)' = ListedTo(id)
    BY <1>5, <1>11, <1>12
  <2>2. \A id : With(id)' = With(id)
    BY <2>1 DEF With
  <2>3. DataIsRead'
    BY <1>2, <1>10, <2>1, <2>2 DEF FilesInv, DataIsRead
  <2> QED
    BY <1>8, <1>9, <2>3 DEF FilesInv
<1>13. CASE Listed(row)
  <2> PICK m : m = Len(data) + 1
    OBVIOUS
  <2>1. /\ m \in Nat /\ Len(data') = m /\ Len(data) = m - 1 /\ data'[m] = new
        /\ \A i \in 1..(m - 1) : data'[i] = data[i]
    BY <1>2, <1>5, <1>6, <1>13
  <2>2. \A id : With(id)' = IF id = row.id /\ With(id) = {} THEN {m} ELSE With(id)
    <3> TAKE id
    <3>1. With(id)' = {i \in 1..m : data'[i].id = id /\ \A j \in 1..(i - 1) : data'[j].id # id}
      BY <2>1 DEF With
    <3>2. With(id) = {i \in 1..(m - 1) : data'[i].id = id /\ \A j \in 1..(i - 1) : data'[j].id # id}
      BY <2>1 DEF With
    <3>3. With(id) = {} <=> \A i \in 1..(m - 1) : data'[i].id # id
      BY <1>2, <2>1, WithIs
    <3>4. With(id)' = With(id) \cup (IF id = row.id /\ With(id) = {} THEN {m} ELSE {})
      <4>1. 1..m = (1..(m - 1)) \cup {m}
        BY <2>1
      <4>2. data'[m].id = id <=> row.id = id
        BY <1>6, <2>1
      <4> QED
        BY <3>1, <3>2, <3>3, <4>1, <4>2
    <3> QED
      BY <3>4
  <2>3. ASSUME NEW id \in Ids PROVE With(id)' # {} <=> ListedTo(id)' # {}
    BY <1>11, <1>13, <2>2 DEF FilesInv, DataIsRead
  <2>4. ASSUME NEW id \in Ids, NEW i \in 1..m, data'[i].id = id
        PROVE  IF i \in With(id)'
               THEN /\ data'[i].city = content["airports"][Least(ListedTo(id)')].city
                    /\ data'[i].fuel = 0 /\ data'[i].runways = 0
               ELSE data'[i].fuel = 0 /\ data'[i].runways = 0
    <3>1. CASE i = m
      <4>1. data'[i] = new /\ id = row.id
        BY <1>6, <2>1, <2>4, <3>1
      <4>2. ASSUME i \in With(id)'
            PROVE  new.city = content["airports"][Least(ListedTo(id)')].city
        <5>1. m \notin With(id)
          BY <1>2, <2>1, WithIs
        <5>2. With(id) = {}
          BY <2>2, <3>1, <4>1, <4>2, <5>1
        <5>3. ListedTo(id) = {}
          BY <5>2 DEF FilesInv, DataIsRead
        <5>4. ListedTo(id)' = {n}
          BY <1>11, <1>13, <4>1, <5>3
        <5>5. Least({n}) = n
          <6> PICK S : S = {n}
            OBVIOUS
          <6>1. S \in SUBSET Nat /\ S # {}
            BY <1>2
          <6>2. Least(S) \in S
            BY <6>1, LeastIs
          <6> QED
            BY <6>2
        <5> QED
          BY <1>6, <5>4, <5>5
      <4> QED
        BY <1>6, <4>1, <4>2
    <3>2. CASE i # m
      <4>1. i \in 1..Len(data) /\ data'[i] = data[i] /\ data[i].id = id
        BY <2>1, <2>4, <3>2
      <4>2. With(id) # {}
        BY <1>2, <4>1, WithIs
      <4>3. With(id)' = With(id)
        BY <2>2, <4>2
      <4>4. Least(ListedTo(id)') = Least(ListedTo(id))
        <5> PICK L, M : L = ListedTo(id) /\ M = ListedTo(id)'
          OBVIOUS
        <5>1. L # {} /\ M \in {L, L \cup {n}}
          BY <1>11, <4>2 DEF FilesInv, DataIsRead
        <5>2. L \subseteq Nat /\ \A k \in L : k < n
          BY <1>2, <1>3 DEF ListedTo, ListedRows, Rows
        <5>3. Least(L) \in L /\ \A k \in L : Least(L) <= k
          BY <5>1, <5>2, LeastIs
        <5>4. Least(M) \in M /\ \A k \in M : Least(M) <= k
          BY <1>2, <5>1, <5>2, LeastIs
        <5>5. Least(M) \in L
          BY <1>2, <5>1, <5>2, <5>3, <5>4
        <5>6. Least(M) <= Least(L) /\ Least(L) <= Least(M)
          BY <5>1, <5>3, <5>4, <5>5
        <5>7. Least(M) = Least(L)
          BY <5>2, <5>3, <5>5, <5>6
        <5> QED
          BY <5>7
      <4>5. IF i \in With(id)
            THEN /\ data[i].city = content["airports"][Least(ListedTo(id))].city
                 /\ data[i].fuel = PriceTo(id) /\ data[i].runways = Cardinality(StripsTo(id))
            ELSE data[i].fuel = 0 /\ data[i].runways = 0
        BY <4>1 DEF FilesInv, DataIsRead
      <4> QED
        BY <1>10, <4>1, <4>3, <4>4, <4>5
    <3> QED
      BY <3>1, <3>2
  <2>5. DataIsRead'
    BY <1>2, <1>10, <2>1, <2>3, <2>4 DEF DataIsRead
  <2> QED
    BY <1>8, <1>9, <2>5 DEF FilesInv
<1> QED
  BY <1>12, <1>13

(* The other two change airports that are there. *)
LEMMA WithStays ==
  ASSUME data \in Seq(Airport), data' \in Seq(Airport), Len(data') = Len(data),
         \A i \in 1..Len(data) : data'[i].id = data[i].id
  PROVE  \A id : With(id)' = With(id)
<1>1. 1..Len(data') = 1..Len(data)
  OBVIOUS
<1>2. ASSUME NEW id PROVE With(id)' = With(id)
  <2>1. \A i \in 1..Len(data) : \A j \in 1..(i - 1) : j \in 1..Len(data)
    OBVIOUS
  <2> QED
    BY <1>1, <2>1 DEF With
<1> QED
  BY <1>2

LEMMA FuelRowRead ==
  ASSUME FilesInv, ReadRow("fuel")
  PROVE  FilesInv'
<1> PICK n, row : n = at["fuel"] + 1 /\ row = content["fuel"][n]
  OBVIOUS
<1>1. "fuel" \in Files /\ "airports" \in Files \ {"fuel"} /\ "runways" \in Files \ {"fuel"}
  BY DEF Files
<1>2. /\ Reading("fuel") /\ n \in 1..Len(content["fuel"]) /\ Len(content["fuel"]) \in Nat
      /\ data' = Take("fuel", row) /\ n \in Nat
      /\ content' = content /\ chain' = chain /\ value' = value /\ promise' = promise
      /\ watched' = watched /\ todo' = todo /\ answer' = answer /\ server' = server
      /\ at' \in [Files -> Nat] /\ at'["fuel"] = n /\ \A g \in Files \ {"fuel"} : at'[g] = at[g]
      /\ \A g \in Files : Len(content[g]) \in Nat /\ at'[g] \in 0..Len(content[g])
      /\ content \in Contents /\ data \in Seq(Airport)
      /\ promise["airports"] # "ok"
  BY <1>1, RowIs
<1>3. chain = 2 /\ at["runways"] = 0 /\ at["fuel"] = n - 1
  <2>1. chain = 2
    BY <1>2 DEF Reading, Chained, FilesInv, DataTypeOK
  <2>2. at["fuel"] \in Nat
    BY <1>1 DEF FilesInv, ReadInOrder
  <2> QED
    BY <2>1, <2>2 DEF FilesInv, ReadInOrder
<1>4. row \in FuelRow
  BY <1>2, FilesAre
<1>5. data' = [i \in 1..Len(data) |->
                 IF i \in With(row.id) THEN [data[i] EXCEPT !.fuel = row.price] ELSE data[i]]
  BY <1>2 DEF Take
<1>6. /\ data' \in Seq(Airport) /\ Len(data') = Len(data)
      /\ \A i \in 1..Len(data) :
           /\ data'[i].id = data[i].id /\ data'[i].city = data[i].city
           /\ data'[i].runways = data[i].runways
           /\ data'[i].fuel = IF i \in With(row.id) THEN row.price ELSE data[i].fuel
  <2> PICK k : k = Len(data)
    OBVIOUS
  <2>1. k \in Nat /\ \A i \in 1..k : data[i] \in Airport
    BY <1>2
  <2>2. row.price \in Prices
    BY <1>4 DEF FuelRow
  <2>3. \A i \in 1..k : [data[i] EXCEPT !.fuel = row.price] \in Airport
    BY <2>1, <2>2 DEF Airport
  <2>4. data' \in [1..k -> Airport]
    BY <1>5, <2>1, <2>3
  <2>5. data' \in Seq(Airport) /\ Len(data') = k
    BY <2>1, <2>4
  <2>6. ASSUME NEW i \in 1..k
        PROVE  /\ data'[i].id = data[i].id /\ data'[i].city = data[i].city
               /\ data'[i].runways = data[i].runways
               /\ data'[i].fuel = IF i \in With(row.id) THEN row.price ELSE data[i].fuel
    BY <1>5, <2>1 DEF Airport
  <2> QED
    BY <2>5, <2>6
<1>7. DataTypeOK'
  BY <1>2, <1>6 DEF FilesInv, DataTypeOK
<1>8. ReadInOrder'
  BY <1>1, <1>2, <1>3 DEF FilesInv, ReadInOrder
<1>9. \A id : With(id)' = With(id)
  BY <1>2, <1>6, WithStays
<1>10. \A id : ListedTo(id)' = ListedTo(id) /\ StripsTo(id)' = StripsTo(id)
  BY <1>1, <1>2 DEF ListedTo, StripsTo, ListedRows, Rows
<1>11. \A id : PricedTo(id)' = IF id = row.id THEN PricedTo(id) \cup {n} ELSE PricedTo(id)
  <2> TAKE id
  <2>1. Rows("fuel", id)' = Rows("fuel", id) /\ Rows("fuel", id) \subseteq 1..Len(content["fuel"])
    BY <1>2 DEF Rows
  <2>2. n \in Rows("fuel", id) <=> id = row.id
    BY <1>2 DEF Rows
  <2>3. PricedTo(id)' = {i \in Rows("fuel", id) : i <= n}
    BY <1>2, <2>1 DEF PricedTo
  <2>4. PricedTo(id) = {i \in Rows("fuel", id) : i <= n - 1}
    BY <1>3 DEF PricedTo
  <2>5. \A i \in Rows("fuel", id) : i <= n <=> i <= n - 1 \/ i = n
    BY <1>2, <2>1
  <2> QED
    BY <2>2, <2>3, <2>4, <2>5
<1>12. \A id : PriceTo(id)' = IF id = row.id THEN row.price ELSE PriceTo(id)
  <2> TAKE id
  <2> PICK P, Q : P = PricedTo(id) /\ Q = PricedTo(id)'
    OBVIOUS
  <2>1. /\ PriceTo(id) = IF P = {} THEN 0 ELSE content["fuel"][Greatest(P)].price
        /\ PriceTo(id)' = IF Q = {} THEN 0 ELSE content["fuel"][Greatest(Q)].price
    BY <1>2 DEF PriceTo
  <2>2. CASE id # row.id
    BY <1>11, <2>1, <2>2
  <2>3. CASE id = row.id
    <3>1. Q = P \cup {n} /\ Q \in SUBSET (1..n)
      <4>1. Q = P \cup {n}
        BY <1>11, <2>3
      <4>2. P \subseteq 1..n
        BY <1>2, <1>3 DEF PricedTo, Rows
      <4> QED
        BY <1>2, <4>1, <4>2
    <3>2. Greatest(Q) \in Q /\ \A j \in Q : j <= Greatest(Q)
      BY <1>2, <3>1, GreatestOf
    <3>3. Greatest(Q) = n
      <4> PICK g : g = Greatest(Q)
        OBVIOUS
      <4>1. g \in 1..n /\ n <= g
        BY <3>1, <3>2
      <4> QED
        BY <1>2, <4>1
    <3> QED
      BY <2>1, <2>3, <3>1, <3>3
  <2> QED
    BY <2>2, <2>3
<1>13. ASSUME NEW id \in Ids, NEW i \in 1..Len(data), data'[i].id = id
       PROVE  IF i \in With(id)
              THEN /\ data'[i].city = content["airports"][Least(ListedTo(id))].city
                   /\ data'[i].fuel = PriceTo(id)' /\ data'[i].runways = Cardinality(StripsTo(id))
              ELSE data'[i].fuel = 0 /\ data'[i].runways = 0
  <2>1. data[i].id = id
    BY <1>6, <1>13
  <2>2. IF i \in With(id)
        THEN /\ data[i].city = content["airports"][Least(ListedTo(id))].city
             /\ data[i].fuel = PriceTo(id) /\ data[i].runways = Cardinality(StripsTo(id))
        ELSE data[i].fuel = 0 /\ data[i].runways = 0
    BY <2>1 DEF FilesInv, DataIsRead
  <2>3. i \in With(row.id) => id = row.id
    BY <2>1 DEF With
  <2> QED
    BY <1>6, <1>12, <2>2, <2>3
<1>14. DataIsRead'
  BY <1>2, <1>6, <1>9, <1>10, <1>13 DEF FilesInv, DataIsRead
<1> QED
  BY <1>7, <1>8, <1>14 DEF FilesInv

LEMMA RunwayRowRead ==
  ASSUME FilesInv, ReadRow("runways")
  PROVE  FilesInv'
<1> PICK n, row : n = at["runways"] + 1 /\ row = content["runways"][n]
  OBVIOUS
<1>1. "runways" \in Files /\ "airports" \in Files \ {"runways"} /\ "fuel" \in Files \ {"runways"}
  BY DEF Files
<1>2. /\ Reading("runways") /\ n \in 1..Len(content["runways"]) /\ Len(content["runways"]) \in Nat
      /\ data' = Take("runways", row) /\ n \in Nat
      /\ content' = content /\ chain' = chain /\ value' = value /\ promise' = promise
      /\ watched' = watched /\ todo' = todo /\ answer' = answer /\ server' = server
      /\ at' \in [Files -> Nat] /\ at'["runways"] = n /\ \A g \in Files \ {"runways"} : at'[g] = at[g]
      /\ \A g \in Files : Len(content[g]) \in Nat /\ at'[g] \in 0..Len(content[g])
      /\ content \in Contents /\ data \in Seq(Airport)
      /\ promise["airports"] # "ok"
  BY <1>1, RowIs
<1>3. chain = 3 /\ at["runways"] = n - 1
  <2>1. chain = 3
    BY <1>2 DEF Reading, Chained, FilesInv, DataTypeOK
  <2>2. at["runways"] \in Nat
    BY <1>1 DEF FilesInv, ReadInOrder
  <2> QED
    BY <2>1, <2>2
<1>4. row \in RunwayRow
  BY <1>2, FilesAre
<1>5. data' = [i \in 1..Len(data) |->
                 IF i \in With(row.id) THEN [data[i] EXCEPT !.runways = @ + 1] ELSE data[i]]
  BY <1>2 DEF Take
<1>6. /\ data' \in Seq(Airport) /\ Len(data') = Len(data)
      /\ \A i \in 1..Len(data) :
           /\ data'[i].id = data[i].id /\ data'[i].city = data[i].city
           /\ data'[i].fuel = data[i].fuel
           /\ data'[i].runways = IF i \in With(row.id) THEN data[i].runways + 1 ELSE data[i].runways
  <2> PICK k : k = Len(data)
    OBVIOUS
  <2>1. k \in Nat /\ \A i \in 1..k : data[i] \in Airport
    BY <1>2
  <2>2. \A i \in 1..k : [data[i] EXCEPT !.runways = @ + 1] \in Airport
    BY <2>1 DEF Airport
  <2>3. data' \in [1..k -> Airport]
    BY <1>5, <2>1, <2>2
  <2>4. data' \in Seq(Airport) /\ Len(data') = k
    BY <2>1, <2>3
  <2>5. ASSUME NEW i \in 1..k
        PROVE  /\ data'[i].id = data[i].id /\ data'[i].city = data[i].city
               /\ data'[i].fuel = data[i].fuel
               /\ data'[i].runways = IF i \in With(row.id) THEN data[i].runways + 1 ELSE data[i].runways
    BY <1>5, <2>1 DEF Airport
  <2> QED
    BY <2>4, <2>5
<1>7. DataTypeOK'
  BY <1>2, <1>6 DEF FilesInv, DataTypeOK
<1>8. ReadInOrder'
  BY <1>1, <1>2, <1>3 DEF FilesInv, ReadInOrder
<1>9. \A id : With(id)' = With(id)
  BY <1>2, <1>6, WithStays
<1>10. \A id : ListedTo(id)' = ListedTo(id) /\ PriceTo(id)' = PriceTo(id)
  BY <1>1, <1>2 DEF ListedTo, PriceTo, PricedTo, ListedRows, Rows
<1>11. \A id : Cardinality(StripsTo(id)') =
                 IF id = row.id THEN Cardinality(StripsTo(id)) + 1 ELSE Cardinality(StripsTo(id))
  <2> TAKE id
  <2>1. Rows("runways", id)' = Rows("runways", id) /\ Rows("runways", id) \subseteq 1..Len(content["runways"])
    BY <1>2 DEF Rows
  <2>2. n \in Rows("runways", id) <=> id = row.id
    BY <1>2 DEF Rows
  <2>3. StripsTo(id)' = {i \in Rows("runways", id) : i <= n}
    BY <1>2, <2>1 DEF StripsTo
  <2>4. StripsTo(id) = {i \in Rows("runways", id) : i <= n - 1}
    BY <1>3 DEF StripsTo
  <2>5. \A i \in Rows("runways", id) : i <= n <=> i <= n - 1 \/ i = n
    BY <1>2, <2>1
  <2>6. StripsTo(id)' = IF id = row.id THEN StripsTo(id) \cup {n} ELSE StripsTo(id)
    BY <2>2, <2>3, <2>4, <2>5
  <2> PICK S : S = StripsTo(id)
    OBVIOUS
  <2>7. IsFiniteSet(S) /\ n \notin S
    <3>1. S \in SUBSET (1..n) /\ n \notin S
      <4>1. \A i \in S : i \in 1..Len(content["runways"]) /\ i <= n - 1
        BY <2>1, <2>4
      <4>2. \A i \in S : i \in 1..n /\ i # n
        BY <1>2, <4>1
      <4> QED
        BY <4>2
    <3>2. IsFiniteSet(1..n)
      <4>1. n \in Int /\ 1 \in Int
        BY <1>2
      <4> QED
        BY ONLY <4>1, FS_Interval
    <3> QED
      BY <3>1, <3>2, FS_Subset
  <2>8. Cardinality(S \cup {n}) = Cardinality(S) + 1
    BY <2>7, FS_AddElement
  <2> QED
    BY <2>6, <2>8
<1>12. ASSUME NEW id \in Ids, NEW i \in 1..Len(data), data'[i].id = id
       PROVE  IF i \in With(id)
              THEN /\ data'[i].city = content["airports"][Least(ListedTo(id))].city
                   /\ data'[i].fuel = PriceTo(id) /\ data'[i].runways = Cardinality(StripsTo(id)')
              ELSE data'[i].fuel = 0 /\ data'[i].runways = 0
  <2>1. data[i].id = id
    BY <1>6, <1>12
  <2>2. IF i \in With(id)
        THEN /\ data[i].city = content["airports"][Least(ListedTo(id))].city
             /\ data[i].fuel = PriceTo(id) /\ data[i].runways = Cardinality(StripsTo(id))
        ELSE data[i].fuel = 0 /\ data[i].runways = 0
    BY <2>1 DEF FilesInv, DataIsRead
  <2>3. i \in With(row.id) => id = row.id
    BY <2>1 DEF With
  <2> QED
    BY <1>6, <1>11, <2>2, <2>3
<1>13. DataIsRead'
  BY <1>2, <1>6, <1>9, <1>10, <1>12 DEF FilesInv, DataIsRead
<1> QED
  BY <1>7, <1>8, <1>13 DEF FilesInv

LEMMA PlaneRowRead ==
  ASSUME FilesInv, ReadRow("planes")
  PROVE  FilesInv'
<1> PICK n : n = at["planes"] + 1
  OBVIOUS
<1>1. "planes" \in Files /\ \A f \in {"airports", "fuel", "runways"} : f \in Files \ {"planes"}
  BY DEF Files
<1>2. /\ data' = Take("planes", content["planes"][n])
      /\ content' = content /\ chain' = chain /\ value' = value /\ promise' = promise
      /\ watched' = watched /\ todo' = todo /\ answer' = answer /\ server' = server
      /\ at' \in [Files -> Nat] /\ \A g \in Files \ {"planes"} : at'[g] = at[g]
      /\ \A g \in Files : at'[g] \in 0..Len(content[g])
  BY <1>1, RowIs
<1>3. data' = data
  BY <1>2 DEF Take
<1>4. DataTypeOK'
  BY <1>2, <1>3 DEF FilesInv, DataTypeOK
<1>5. ReadInOrder'
  <2>1. Usable(data)' = Usable(data)
    <3> PICK d : d = data
      OBVIOUS
    <3>1. data' = d
      BY <1>3
    <3> QED
      BY <3>1
  <2> QED
    BY <1>1, <1>2, <2>1 DEF FilesInv, ReadInOrder
<1>6. /\ \A id : ListedTo(id)' = ListedTo(id)
      /\ \A id : PriceTo(id)' = PriceTo(id)
      /\ \A id : StripsTo(id)' = StripsTo(id)
      /\ \A id : With(id)' = With(id)
  BY <1>1, <1>2, <1>3
     DEF ListedTo, PriceTo, PricedTo, StripsTo, With, ListedRows, Rows
<1>7. DataIsRead'
  BY <1>2, <1>3, <1>6 DEF FilesInv, DataIsRead
<1> QED
  BY <1>4, <1>5, <1>7 DEF FilesInv

LEMMA FilesByRows ==
  ASSUME FilesInv, NEW f \in Files, ReadRow(f)
  PROVE  FilesInv'
BY AirportRowRead, FuelRowRead, RunwayRowRead, PlaneRowRead DEF Files

LEMMA FilesByEnds ==
  ASSUME FilesInv, NEW f \in Files, End(f)
  PROVE  FilesInv'
<1>1. /\ Reading(f) /\ at[f] = Len(content[f])
      /\ content' = content /\ at' = at /\ data' = data
      /\ watched' = watched /\ todo' = todo /\ answer' = answer /\ server' = server
  BY DEF End
<1>2. DataTypeOK /\ ReadInOrder /\ DataIsRead
  BY DEF FilesInv
<1>3. DataIsRead'
  <2>1. /\ \A id : ListedTo(id)' = ListedTo(id)
        /\ \A id : PriceTo(id)' = PriceTo(id)
        /\ \A id : StripsTo(id)' = StripsTo(id)
        /\ \A id : With(id)' = With(id)
    BY <1>1 DEF ListedTo, PriceTo, PricedTo, StripsTo, With, ListedRows, Rows
  <2> QED
    BY <1>1, <1>2, <2>1 DEF DataIsRead
<1>4. promise \in [Promises -> {"pending", "ok", "failed"}] /\ chain \in 1..4
  BY <1>2 DEF DataTypeOK
<1>5. CASE f = "planes"
  <2>1. promise' = [promise EXCEPT !["planes"] = "ok"] /\ chain' = chain /\ value' = value
    BY <1>5 DEF End
  <2>2. promise' \in [Promises -> {"pending", "ok", "failed"}] /\ promise'["airports"] = promise["airports"]
    BY <1>4, <2>1 DEF Promises
  <2>3. DataTypeOK'
    BY <1>1, <1>2, <2>1, <2>2 DEF DataTypeOK
  <2> QED
    BY <1>1, <2>1, <2>2, <2>3, FilesUnread
<1>6. CASE f # "planes"
  <2>1. /\ chain < 4 /\ Chained[chain] = f /\ promise["airports"] = "pending"
        /\ chain' = chain + 1
        /\ IF f = "runways"
           THEN /\ promise' = [promise EXCEPT !["airports"] = "ok", !["cities"] = "ok"]
                /\ value' = Usable(data)
           ELSE promise' = promise /\ value' = value
    BY <1>1, <1>6 DEF End, Reading
  <2>2. \/ chain = 1 /\ f = "airports"
        \/ chain = 2 /\ f = "fuel"
        \/ chain = 3 /\ f = "runways"
    BY <1>4, <2>1 DEF Chained
  <2>3. chain' \in 1..4
    BY <2>1, <2>2
  <2>4. CASE f = "runways"
    <3>1. /\ promise' \in [Promises -> {"pending", "ok", "failed"}]
          /\ value' = Usable(data)
      BY <1>4, <2>1, <2>4 DEF Promises
    <3>2. data \in Seq(Airport)
      BY <1>2 DEF DataTypeOK
    <3>3. value' \in Seq(Airport)
      <4> PICK d : d = data
        OBVIOUS
      <4>1. Usable(d) \in Seq(Airport)
        BY <3>2, UsableTyped
      <4> QED
        BY <3>1, <4>1
    <3>4. DataTypeOK'
      BY <1>1, <1>2, <2>3, <3>1, <3>3 DEF DataTypeOK
    <3>5. ReadInOrder'
      <4>1. Usable(data)' = Usable(data)
        <5> PICK d : d = data
          OBVIOUS
        <5>1. data' = d
          BY <1>1
        <5> QED
          BY <5>1
      <4>2. chain' = 4 /\ chain = 3
        BY <2>1, <2>2, <2>4
      <4> QED
        BY <1>1, <1>2, <2>4, <3>1, <4>1, <4>2 DEF ReadInOrder
    <3> QED
      BY <1>3, <3>4, <3>5 DEF FilesInv
  <2>5. CASE f # "runways"
    <3>1. promise' = promise /\ value' = value /\ promise["airports"] # "ok"
      BY <2>1, <2>5
    <3>2. DataTypeOK'
      BY <1>1, <1>2, <2>3, <3>1 DEF DataTypeOK
    <3>3. ReadInOrder'
      BY <1>1, <1>2, <2>1, <2>2, <2>5, <3>1 DEF ReadInOrder
    <3> QED
      BY <1>3, <3>2, <3>3 DEF FilesInv
  <2> QED
    BY <2>4, <2>5
<1> QED
  BY <1>5, <1>6

LEMMA FilesByFailures ==
  ASSUME FilesInv, NEW f \in Files, ReadFails(f) \/ ParseFails(f)
  PROVE  FilesInv'
<1>1. DataTypeOK
  BY DEF FilesInv
<1>2. CASE Down
  <2>1. /\ content' = content /\ at' = at /\ chain' = chain /\ data' = data /\ value' = value
        /\ promise' = promise /\ watched' = watched /\ todo' = todo /\ answer' = answer
        /\ server' = "down"
    BY <1>2 DEF Down, stream
  <2>2. DataTypeOK'
    BY <1>1, <2>1 DEF DataTypeOK
  <2> QED
    BY <2>1, <2>2, FilesUnread
<1>3. ASSUME NEW ps \in SUBSET Promises,
             promise' = [p \in Promises |-> IF p \in ps THEN "failed" ELSE promise[p]],
             UNCHANGED <<stream, watched, todo, answer, server>>
      PROVE  FilesInv'
  <2>1. /\ content' = content /\ at' = at /\ chain' = chain /\ data' = data /\ value' = value
        /\ watched' = watched /\ todo' = todo /\ answer' = answer /\ server' = server
    BY <1>3 DEF stream
  <2>2. promise' \in [Promises -> {"pending", "ok", "failed"}]
    BY <1>1, <1>3 DEF DataTypeOK
  <2>3. promise'["airports"] = "ok" => promise["airports"] = "ok"
    BY <1>3 DEF Promises
  <2>4. DataTypeOK'
    BY <1>1, <2>1, <2>2 DEF DataTypeOK
  <2> QED
    BY <2>1, <2>3, <2>4, FilesUnread
<1>4. Down \/ Reject({"planes"}, "planes") \/ Reject({"airports", "cities"}, "cities")
  BY DEF ReadFails, ParseFails
<1>5. CASE Reject({"planes"}, "planes")
  <2>1. {"planes"} \in SUBSET Promises
    BY DEF Promises
  <2> QED
    BY <1>2, <1>3, <1>5, <2>1 DEF Reject
<1>6. CASE Reject({"airports", "cities"}, "cities")
  <2>1. {"airports", "cities"} \in SUBSET Promises
    BY DEF Promises
  <2> QED
    BY <1>2, <1>3, <1>6, <2>1 DEF Reject
<1> QED
  BY <1>2, <1>4, <1>5, <1>6

LEMMA FilesByHandlers ==
  ASSUME FilesInv, NEW r \in Waiters, Ask(r) \/ Handler(r)
  PROVE  FilesInv'
<1>1. DataTypeOK
  BY DEF FilesInv
<1>2. /\ content' = content /\ at' = at /\ chain' = chain /\ data' = data /\ value' = value
      /\ promise' = promise /\ server' = server
  BY DEF Ask, Handler, Continue, Answer, stream
<1>3. ASSUME NEW program \in Seq(Promises), Await(r, program)
      PROVE  watched' \in SUBSET Promises /\ todo' \in [Waiters -> Seq(Promises) \cup {Nothing}]
  <2>1. program # <<>> => Head(program) \in Promises
    OBVIOUS
  <2> QED
    BY <1>1, <1>3, <2>1 DEF Await, DataTypeOK
<1>4. watched' \in SUBSET Promises /\ todo' \in [Waiters -> Seq(Promises) \cup {Nothing}]
      /\ answer' \in [Waiters -> {"none", "ok", "error"}]
  <2>1. CASE Ask(r)
    <3>1. PICK program \in Programs : Await(r, program)
      BY <2>1 DEF Ask
    <3>2. program \in Seq(Promises)
      BY ProgramsTyped
    <3> QED
      BY <1>1, <1>3, <2>1, <3>1, <3>2 DEF Ask, DataTypeOK
  <2>2. CASE Continue(r)
    <3>1. todo[r] \in Seq(Promises) /\ todo[r] # <<>>
      BY <1>1, <2>2 DEF DataTypeOK, Continue
    <3>2. Tail(todo[r]) \in Seq(Promises)
      BY <3>1
    <3>3. CASE Await(r, Tail(todo[r])) /\ answer' = answer
      <4> PICK program : program = Tail(todo[r])
        OBVIOUS
      <4>1. Await(r, program)
        BY <3>3
      <4> QED
        BY <1>1, <1>3, <3>2, <3>3, <4>1 DEF DataTypeOK
    <3>4. CASE /\ todo' = [todo EXCEPT ![r] = Nothing]
               /\ answer' = [answer EXCEPT ![r] = "error"] /\ watched' = watched
      BY <1>1, <3>4 DEF DataTypeOK
    <3> QED
      BY <2>2, <3>3, <3>4 DEF Continue
  <2>3. CASE Answer(r)
    BY <1>1, <2>3 DEF Answer, DataTypeOK
  <2> QED
    BY <2>1, <2>2, <2>3 DEF Handler
<1>5. DataTypeOK'
  BY <1>1, <1>2, <1>4 DEF DataTypeOK
<1> QED
  BY <1>2, <1>5, FilesUnread

LEMMA FilesStep ==
  ASSUME FilesInv, [DataNext]_dataVars
  PROVE  FilesInv'
<1>1. CASE UNCHANGED dataVars
  <2>1. /\ content' = content /\ at' = at /\ chain' = chain /\ data' = data /\ value' = value
        /\ promise' = promise /\ watched' = watched /\ todo' = todo /\ answer' = answer
        /\ server' = server
    BY <1>1 DEF dataVars, stream
  <2>2. DataTypeOK'
    BY <2>1 DEF FilesInv, DataTypeOK
  <2> QED
    BY <2>1, <2>2, FilesUnread
<1>2. CASE DataNext
  BY <1>2, FilesByRows, FilesByEnds, FilesByFailures, FilesByHandlers DEF DataNext, Stream
<1> QED
  BY <1>1, <1>2

LEMMA FilesAlways == DataSpec => []FilesInv
BY FilesFirst, FilesStep, PTL DEF DataSpec

(* The array of airports, the promises and the handlers that await them,   *)
(* whatever is in the files.                                               *)
THEOREM FilesAreTyped ==
  DataSpec => []DataTypeOK
<1>1. FilesInv => DataTypeOK
  BY DEF FilesInv
<1> QED
  BY <1>1, FilesAlways, PTL

(* What loadAirports resolves with is what the three files say together,   *)
(* however many rows of an airport they have, of whichever airports.       *)
THEOREM AirportsArePublished ==
  DataSpec => []PublishedIsExpected
<1>1. ASSUME FilesInv PROVE PublishedIsExpected
  <2> SUFFICES ASSUME promise["airports"] = "ok"
               PROVE  /\ {value[i] : i \in 1..Len(value)} = Expected
                      /\ Len(value) = Cardinality(Expected)
    BY DEF PublishedIsExpected
  <2>1. /\ value = Usable(data) /\ chain = 4 /\ data \in Seq(Airport) /\ content \in Contents
        /\ at["airports"] = Len(content["airports"]) /\ at["fuel"] = Len(content["fuel"])
        /\ at["runways"] = Len(content["runways"])
    BY <1>1 DEF FilesInv, ReadInOrder, DataTypeOK
  <2>2. \A id : /\ ListedTo(id) = ListedRows(id)
                /\ PriceTo(id) = PriceOf(id)
                /\ StripsTo(id) = Rows("runways", id)
    <3> TAKE id
    <3>1. PricedTo(id) = Rows("fuel", id)
      BY <2>1 DEF PricedTo, Rows
    <3>2. PriceTo(id) = PriceOf(id)
      BY <3>1 DEF PriceTo, PriceOf
    <3>3. ListedTo(id) = ListedRows(id)
      BY <2>1 DEF ListedTo, ListedRows, Rows
    <3>4. StripsTo(id) = Rows("runways", id)
      BY <2>1 DEF StripsTo, Rows
    <3> QED
      BY <3>2, <3>3, <3>4
  <2>3. \A id : IsFiniteSet(Rows("runways", id))
    <3> TAKE id
    <3> PICK S, k : S = Rows("runways", id) /\ k = Len(content["runways"])
      OBVIOUS
    <3>1. S \in SUBSET (1..k) /\ k \in Int /\ 1 \in Int
      BY <2>1, FilesAre DEF Rows
    <3>2. IsFiniteSet(1..k)
      BY ONLY <3>1, FS_Interval
    <3> QED
      BY <3>1, <3>2, FS_Subset
  <2> DEFINE Wanted(id) == ListedRows(id) # {} /\ PriceOf(id) # 0 /\ Rows("runways", id) # {}
             Entry(id) == [id |-> id, city |-> content["airports"][Least(ListedRows(id))].city,
                           fuel |-> PriceOf(id),
                           runways |-> Cardinality(Rows("runways", id))]
  <2>4. Expected = {Entry(id) : id \in {x \in Ids : Wanted(x)}}
    BY DEF Expected
  <2>5. \A i \in 1..Len(data) :
          data[i] = [id |-> data[i].id, city |-> data[i].city, fuel |-> data[i].fuel,
                     runways |-> data[i].runways] /\ data[i].id \in Ids /\ data[i].runways \in Nat
    <3> TAKE i \in 1..Len(data)
    <3>1. data[i] \in Airport
      BY <2>1
    <3> QED
      BY <3>1 DEF Airport
  <2>6. ASSUME NEW id \in Ids, NEW i \in 1..Len(data), data[i].id = id
        PROVE  IF i \in With(id)
               THEN data[i] = Entry(id) ELSE data[i].fuel = 0
    BY <1>1, <2>2, <2>5, <2>6 DEF FilesInv, DataIsRead
  <2>7. \A id \in Ids : Cardinality(Rows("runways", id)) > 0 <=> Rows("runways", id) # {}
    BY <2>3, FS_EmptySet, FS_CardinalityType
  <2>8. ASSUME NEW i \in 1..Len(data), Kept(data[i])
        PROVE  i \in With(data[i].id) /\ Wanted(data[i].id) /\ data[i] = Entry(data[i].id)
    <3> PICK id : id = data[i].id
      OBVIOUS
    <3>1. id \in Ids /\ data[i].fuel # 0 /\ data[i].runways > 0
      BY <2>5, <2>8 DEF Kept
    <3>2. i \in With(id) /\ data[i] = Entry(id)
      BY <2>6, <3>1
    <3>3. ListedRows(id) # {}
      BY <1>1, <2>2, <3>1, <3>2 DEF FilesInv, DataIsRead
    <3>4. PriceOf(id) # 0 /\ Rows("runways", id) # {}
      BY <2>7, <3>1, <3>2
    <3> QED
      BY <3>2, <3>3, <3>4
  <2>9. \A i, j \in 1..Len(data) : Kept(data[i]) /\ Kept(data[j]) /\ data[i] = data[j] => i = j
    <3> SUFFICES ASSUME NEW i \in 1..Len(data), NEW j \in 1..Len(data),
                        Kept(data[i]), Kept(data[j]), data[i] = data[j]
                 PROVE  i = j
      OBVIOUS
    <3> PICK id : id = data[i].id
      OBVIOUS
    <3>1. i \in With(id) /\ j \in With(id)
      BY <2>8
    <3> QED
      BY <2>1, <3>1, WithIs
  <2> DEFINE Left == {data[i] : i \in {j \in 1..Len(data) : Kept(data[j])}}
  <2>10. {value[i] : i \in 1..Len(value)} = Left /\ Len(value) = Cardinality(Left)
    <3> PICK d : d = data
      OBVIOUS
    <3>1. /\ d \in Seq(Airport)
          /\ \A i, j \in 1..Len(d) : Kept(d[i]) /\ Kept(d[j]) /\ d[i] = d[j] => i = j
      BY <2>1, <2>9
    <3>2. LET U == Usable(d)
              L == {d[i] : i \in {j \in 1..Len(d) : Kept(d[j])}}
          IN  {U[i] : i \in 1..Len(U)} = L /\ Len(U) = Cardinality(L)
      BY <3>1, UsableIs
    <3> QED
      BY <2>1, <3>2
  <2> HIDE DEF Entry, Wanted
  <2>11. ASSUME NEW id \in Ids, Wanted(id) PROVE Entry(id) \in Left
    <3>1. With(id) # {}
      BY <1>1, <2>2, <2>11 DEF FilesInv, DataIsRead, Wanted
    <3>2. PICK i \in With(id) : TRUE
      BY <3>1
    <3>3. i \in 1..Len(data) /\ data[i].id = id
      BY DEF With
    <3>4. data[i] = Entry(id)
      BY <2>6, <3>3
    <3>5. Entry(id).fuel # 0 /\ Entry(id).runways > 0
      BY <2>7, <2>11 DEF Entry, Wanted
    <3> QED
      BY <3>3, <3>4, <3>5 DEF Kept
  <2>12. ASSUME NEW i \in 1..Len(data), Kept(data[i])
         PROVE  data[i] \in {Entry(id) : id \in {x \in Ids : Wanted(x)}}
    BY <2>5, <2>8, <2>12
  <2>13. Left = Expected
    BY <2>4, <2>11, <2>12
  <2> HIDE DEF Left
  <2> QED
    BY <2>10, <2>13
<1>2. FilesInv => PublishedIsExpected
  BY <1>1
<1> QED
  BY <1>2, FilesAlways, PTL

(* FleetPlans may take the airports for a constant: no stream that is still*)
(* read, nor any failure, changes what was published.                      *)
THEOREM PublishedForGood ==
  DataSpec => [][promise["airports"] = "ok" => promise'["airports"] = "ok" /\ value' = value]_dataVars
<1>1. ASSUME FilesInv, DataNext, promise["airports"] = "ok"
      PROVE  promise'["airports"] = "ok" /\ value' = value
  <2>1. promise \in [Promises -> {"pending", "ok", "failed"}] /\ "airports" \in Promises
    BY <1>1 DEF FilesInv, DataTypeOK, Promises
  <2>2. ASSUME NEW f \in Files, Stream(f) PROVE promise'["airports"] = "ok" /\ value' = value
    <3>1. Reading(f)
      BY <2>2 DEF Stream, ReadRow, End, ReadFails, ParseFails
    <3>2. f = "planes"
      BY <1>1, <3>1 DEF Reading
    <3>3. CASE ReadRow(f)
      BY <1>1, <3>3 DEF ReadRow
    <3>4. CASE End(f)
      BY <1>1, <2>1, <3>2, <3>4 DEF End
    <3>5. CASE ReadFails(f)
      BY <1>1, <3>5 DEF ReadFails, Down, stream
    <3>6. CASE ParseFails(f)
      BY <1>1, <2>1, <3>2, <3>6 DEF ParseFails, Reject, Down, stream
    <3> QED
      BY <2>2, <3>3, <3>4, <3>5, <3>6 DEF Stream
  <2>3. ASSUME NEW r \in Waiters, Ask(r) \/ Handler(r)
        PROVE  promise'["airports"] = "ok" /\ value' = value
    BY <1>1, <2>3 DEF Ask, Handler, Continue, Answer, stream
  <2> QED
    BY <1>1, <2>2, <2>3 DEF DataNext
<1>2. FilesInv /\ [DataNext]_dataVars
        => [promise["airports"] = "ok" => promise'["airports"] = "ok" /\ value' = value]_dataVars
  BY <1>1
<1> QED
  BY <1>2, FilesAlways, PTL DEF DataSpec
=============================================================================
