----------------------------- MODULE RouteJobs -----------------------------
(***************************************************************************)
(* What the route planner promises a caller of RoutingService.route(): a   *)
(* job is answered at most once, only after the solver has reached a       *)
(* verdict on that very job, and the answer is the one the verdict calls   *)
(* for -- a plan for "ok", a 400 with the solver's errors otherwise.       *)
(* Nothing is promised about a job being answered at all: see              *)
(* EveryRequestSettles in RoutingPipeline for what holds there.            *)
(***************************************************************************)
CONSTANTS Ops,       \* the jobs, one per call of route()
          Verdicts,  \* what the solver may conclude; "ok" is a plan
          None       \* no verdict yet

VARIABLES job, verdict

jobVars == <<job, verdict>>

AnswerTo(v) == IF v = "ok" THEN "ok" ELSE "bad"

JobsInit == /\ job = [op \in Ops |-> "new"]
            /\ verdict = [op \in Ops |-> None]

Submit(op) == /\ job[op] = "new"
              /\ job' = [job EXCEPT ![op] = "pending"]
              /\ UNCHANGED verdict

Settle(op) == /\ job[op] = "pending"
              /\ verdict[op] = None
              /\ \E v \in Verdicts : verdict' = [verdict EXCEPT ![op] = v]
              /\ UNCHANGED job

Answer(op) == /\ job[op] = "pending"
              /\ verdict[op] \in Verdicts
              /\ job' = [job EXCEPT ![op] = AnswerTo(verdict[op])]
              /\ UNCHANGED verdict

JobsNext == \E op \in Ops : Submit(op) \/ Settle(op) \/ Answer(op)

JobsSpec == JobsInit /\ [][JobsNext]_jobVars
=============================================================================
