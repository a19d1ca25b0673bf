-------------------------- MODULE OrgInvitesProofs --------------------------
(* The safety of OrgInvites for all sets of users, organizations, tokens   *)
(* and concurrent requests.                                                *)
EXTENDS OrgInvites, TLAPS

(* The records a request slot may hold. *)
LEMMA IdleIsRequest == Idle \in Request
BY DEF Idle, Request, Phases

LEMMA FewerTasksIsRequest ==
  ASSUME NEW q \in Request, NEW w
  PROVE  /\ Without(q, w) \in Request
         /\ Without(q, w).phase = q.phase
         /\ Without(q, w).user = q.user
         /\ Without(q, w).org = q.org
         /\ Without(q, w).token = q.token
BY DEF Request, Without

LEMMA RegisterUserKeeps ==
  ASSUME IInv, NEW u \in Users, RegisterUser(u)
  PROVE  IInv'
<1> USE NoneIsNone DEF IInv
<1>1. TypeOK'
  BY MaxDayIsNat DEF TypeOK, Request, Phases, ForOrg, Replies, Idle, Grants, Days, RegisterUser
<1>2. (invites \subseteq Issued)'
  BY MaxDayIsNat DEF TypeOK, Issued, RequestInv, RegisterUser
<1>3. RequestInv'
  BY MaxDayIsNat DEF RequestInv, TypeOK, Issued, ForOrg, Idle, RegisterUser
<1>4. CallerStaysMember'
  BY MaxDayIsNat DEF CallerStaysMember, TypeOK, RequestInv, ForOrg, Idle, RegisterUser
<1>5. OneLiveInvite'
  BY MaxDayIsNat DEF OneLiveInvite, TypeOK, Issued, Grants, RegisterUser
<1> QED
  BY <1>1, <1>2, <1>3, <1>4, <1>5

LEMMA CreateOrgKeeps ==
  ASSUME IInv, NEW u \in Users, NEW o \in Orgs, CreateOrg(u, o)
  PROVE  IInv'
<1> USE NoneIsNone DEF IInv
<1>1. TypeOK'
  BY MaxDayIsNat DEF TypeOK, Request, Phases, ForOrg, Replies, Idle, Grants, Days, CreateOrg
<1>2. (invites \subseteq Issued)'
  BY MaxDayIsNat DEF TypeOK, Issued, RequestInv, CreateOrg
<1>3. RequestInv'
  BY MaxDayIsNat DEF RequestInv, TypeOK, Issued, ForOrg, Idle, CreateOrg
<1>4. CallerStaysMember'
  BY MaxDayIsNat DEF CallerStaysMember, TypeOK, RequestInv, ForOrg, Idle, CreateOrg
<1>5. OneLiveInvite'
  BY MaxDayIsNat DEF OneLiveInvite, TypeOK, Issued, Grants, CreateOrg
<1> QED
  BY <1>1, <1>2, <1>3, <1>4, <1>5

LEMMA DeclineInviteKeeps ==
  ASSUME IInv, NEW u \in Users, NEW t \in Tokens, DeclineInvite(u, t)
  PROVE  IInv'
<1> USE NoneIsNone DEF IInv
<1>1. TypeOK'
  BY MaxDayIsNat DEF TypeOK, Request, Phases, ForOrg, Replies, Idle, Grants, Days, DeclineInvite
<1>2. (invites \subseteq Issued)'
  BY MaxDayIsNat DEF TypeOK, Issued, RequestInv, DeclineInvite
<1>3. RequestInv'
  BY MaxDayIsNat DEF RequestInv, TypeOK, Issued, ForOrg, Idle, DeclineInvite
<1>4. CallerStaysMember'
  BY MaxDayIsNat DEF CallerStaysMember, TypeOK, RequestInv, ForOrg, Idle, DeclineInvite
<1>5. OneLiveInvite'
  BY MaxDayIsNat DEF OneLiveInvite, TypeOK, Issued, Grants, DeclineInvite
<1> QED
  BY <1>1, <1>2, <1>3, <1>4, <1>5

LEMMA MidnightKeeps ==
  ASSUME IInv, Midnight
  PROVE  IInv'
<1> USE NoneIsNone DEF IInv
<1>1. TypeOK'
  BY MaxDayIsNat DEF TypeOK, Request, Phases, ForOrg, Replies, Idle, Grants, Days, Midnight, dbVars
<1>2. (invites \subseteq Issued)'
  BY MaxDayIsNat DEF TypeOK, Issued, RequestInv, Midnight, dbVars
<1>3. RequestInv'
  BY MaxDayIsNat DEF RequestInv, TypeOK, Issued, ForOrg, Idle, Midnight, dbVars
<1>4. CallerStaysMember'
  BY MaxDayIsNat DEF CallerStaysMember, TypeOK, RequestInv, ForOrg, Idle, Midnight, dbVars
<1>5. OneLiveInvite'
  BY MaxDayIsNat DEF OneLiveInvite, TypeOK, Issued, Grants, Midnight, dbVars
<1> QED
  BY <1>1, <1>2, <1>3, <1>4, <1>5

LEMMA InviteCreatedKeeps ==
  ASSUME IInv, NEW r \in Requests, NEW w \in Users, NEW t \in Tokens, InviteCreated(r, w, t)
  PROVE  IInv'
<1> USE NoneIsNone DEF IInv
<1>1. TypeOK'
  <2>1. req' \in [Requests -> Request]
    BY IdleIsRequest, FewerTasksIsRequest DEF TypeOK, InviteCreated, TaskDone
  <2>2. reply' \in [Requests -> Replies]
    BY DEF TypeOK, InviteCreated, TaskDone, FirstAnswer, InviteVerdict, Replies
  <2>3. [user |-> w, org |-> req[r].org, day |-> today] \in Grants
    BY DEF TypeOK, RequestInv, ForOrg, Grants, InviteCreated
  <2>4. grant' \in [Tokens -> Grants \cup {None}] /\ invites' \in SUBSET Tokens
    BY <2>3 DEF TypeOK, InviteCreated
  <2> QED
    BY <2>1, <2>2, <2>4 DEF TypeOK, InviteCreated
<1>2. (invites \subseteq Issued)'
  <2>1. None # [user |-> w, org |-> req[r].org, day |-> today]
    <3>1. [user |-> w, org |-> req[r].org, day |-> today] \in Grants
      BY DEF TypeOK, RequestInv, ForOrg, Grants, InviteCreated
    <3> QED
      BY <3>1, NoneIsNone
  <2> QED
    BY <2>1 DEF TypeOK, Issued, InviteCreated
<1>3. RequestInv'
  BY MaxDayIsNat, FewerTasksIsRequest DEF RequestInv, TypeOK, Issued, ForOrg, Idle, InviteCreated, TaskDone, FirstAnswer, InviteVerdict, LiveFor
<1>4. CallerStaysMember'
  BY MaxDayIsNat, FewerTasksIsRequest DEF CallerStaysMember, TypeOK, RequestInv, ForOrg, Idle, InviteCreated, TaskDone, FirstAnswer, InviteVerdict, LiveFor
<1>5. OneLiveInvite'
  BY MaxDayIsNat DEF OneLiveInvite, TypeOK, Issued, Grants, InviteCreated, TaskDone, FirstAnswer, InviteVerdict, LiveFor
<1> QED
  BY <1>1, <1>2, <1>3, <1>4, <1>5

LEMMA InviteRefusedKeeps ==
  ASSUME IInv, NEW r \in Requests, NEW w \in Users, InviteRefused(r, w)
  PROVE  IInv'
<1> USE NoneIsNone DEF IInv
<1>1. TypeOK'
  <2>1. req' \in [Requests -> Request]
    BY IdleIsRequest, FewerTasksIsRequest DEF TypeOK, InviteRefused, TaskDone
  <2>2. reply' \in [Requests -> Replies]
    BY DEF TypeOK, InviteRefused, TaskDone, FirstAnswer, InviteVerdict, Replies
  <2> QED
    BY <2>1, <2>2 DEF TypeOK, InviteRefused, dbVars
<1>2. (invites \subseteq Issued)'
  BY MaxDayIsNat DEF TypeOK, Issued, RequestInv, InviteRefused, dbVars, TaskDone, FirstAnswer, InviteVerdict
<1>3. RequestInv'
  BY MaxDayIsNat, FewerTasksIsRequest DEF RequestInv, TypeOK, Issued, ForOrg, Idle, InviteRefused, dbVars, TaskDone, FirstAnswer, InviteVerdict
<1>4. CallerStaysMember'
  BY MaxDayIsNat, FewerTasksIsRequest DEF CallerStaysMember, TypeOK, RequestInv, ForOrg, Idle, InviteRefused, dbVars, TaskDone, FirstAnswer, InviteVerdict
<1>5. OneLiveInvite'
  BY MaxDayIsNat DEF OneLiveInvite, TypeOK, Issued, Grants, InviteRefused, dbVars, TaskDone, FirstAnswer, InviteVerdict
<1> QED
  BY <1>1, <1>2, <1>3, <1>4, <1>5

LEMMA CommitCancelKeeps ==
  ASSUME IInv, NEW r \in Requests, CommitCancel(r)
  PROVE  IInv'
<1> USE NoneIsNone DEF IInv
<1>1. TypeOK'
  BY MaxDayIsNat DEF TypeOK, Request, Phases, ForOrg, Replies, Idle, Grants, Days, CommitCancel, Finish
<1>2. (invites \subseteq Issued)'
  BY MaxDayIsNat DEF TypeOK, Issued, RequestInv, CommitCancel, Finish
<1>3. RequestInv'
  BY MaxDayIsNat DEF RequestInv, TypeOK, Issued, ForOrg, Idle, CommitCancel, Finish
<1>4. CallerStaysMember'
  BY MaxDayIsNat DEF CallerStaysMember, TypeOK, RequestInv, ForOrg, Idle, CommitCancel, Finish
<1>5. OneLiveInvite'
  BY MaxDayIsNat DEF OneLiveInvite, TypeOK, Issued, Grants, CommitCancel, Finish
<1> QED
  BY <1>1, <1>2, <1>3, <1>4, <1>5

LEMMA CommitNameKeeps ==
  ASSUME IInv, NEW r \in Requests, CommitName(r)
  PROVE  IInv'
<1> USE NoneIsNone DEF IInv
<1>1. TypeOK'
  BY MaxDayIsNat DEF TypeOK, Request, Phases, ForOrg, Replies, Idle, Grants, Days, CommitName, Finish
<1>2. (invites \subseteq Issued)'
  BY MaxDayIsNat DEF TypeOK, Issued, RequestInv, CommitName, Finish
<1>3. RequestInv'
  BY MaxDayIsNat DEF RequestInv, TypeOK, Issued, ForOrg, Idle, CommitName, Finish
<1>4. CallerStaysMember'
  BY MaxDayIsNat DEF CallerStaysMember, TypeOK, RequestInv, ForOrg, Idle, CommitName, Finish
<1>5. OneLiveInvite'
  BY MaxDayIsNat DEF OneLiveInvite, TypeOK, Issued, Grants, CommitName, Finish
<1> QED
  BY <1>1, <1>2, <1>3, <1>4, <1>5

(* The requests that begin by reading the organization. *)
LEMMA ReadOrgKeeps ==
  ASSUME IInv, NEW r \in Requests, NEW u \in Users, NEW o \in Orgs, NEW q \in Request,
         q.phase \in ForOrg, q.user = u, q.org = o, q.phase = "cancelling" => q.token \in Tokens,
         ReadOrg(r, u, o, q)
  PROVE  IInv'
<1> USE DEF IInv
<1>1. UNCHANGED <<registered, members, namedBy, grant, invites, today>>
  BY DEF ReadOrg, dbVars
<1>2. OneLiveInvite' /\ (invites \subseteq Issued)'
  BY <1>1 DEF OneLiveInvite, Issued
<1>3. CASE u \in members[o]
  <2>1. req' = [req EXCEPT ![r] = q] /\ reply' = [reply EXCEPT ![r] = "none"]
    BY <1>3 DEF ReadOrg, Begin
  <2>2. TypeOK'
    BY <1>1, <2>1 DEF TypeOK, Replies
  <2>3. RequestInv' /\ CallerStaysMember'
    BY <1>1, <1>3, <2>1 DEF TypeOK, RequestInv, CallerStaysMember, Issued, ForOrg
  <2> QED
    BY <1>2, <2>2, <2>3
<1>4. CASE u \notin members[o]
  <2>1. req' = [req EXCEPT ![r] = Idle] /\ reply' = [reply EXCEPT ![r] = "unknown"]
    BY <1>4 DEF ReadOrg, Finish
  <2>2. TypeOK'
    BY <1>1, <2>1, IdleIsRequest DEF TypeOK, Replies
  <2>3. RequestInv' /\ CallerStaysMember'
    BY <1>1, <2>1 DEF TypeOK, RequestInv, CallerStaysMember, Issued, ForOrg, Idle
  <2> QED
    BY <1>2, <2>2, <2>3
<1> QED
  BY <1>3, <1>4

LEMMA AcceptInviteKeeps ==
  ASSUME IInv, NEW r \in Requests, NEW u \in Users, NEW t \in Issued, AcceptInvite(r, u, t)
  PROVE  IInv'
<1> USE DEF IInv
<1>1. UNCHANGED <<registered, members, namedBy, grant, invites, today>>
  BY DEF AcceptInvite, dbVars
<1>2. OneLiveInvite' /\ (invites \subseteq Issued)'
  BY <1>1 DEF OneLiveInvite, Issued
<1>3. CASE t \in invites /\ grant[t].user = u
  <2> DEFINE ph == IF Expired(grant[t]) THEN "expiring" ELSE "accepting"
             q  == [Idle EXCEPT !.phase = ph, !.user = u, !.org = grant[t].org, !.token = t]
  <2>1. req' = [req EXCEPT ![r] = q] /\ reply' = [reply EXCEPT ![r] = "none"]
    BY <1>3 DEF AcceptInvite, Begin
  <2>2. ph \in {"accepting", "expiring"}
    OBVIOUS
  <2>3. t \in Tokens /\ grant[t] \in Grants
    BY DEF TypeOK, Issued
  <2> HIDE DEF ph
  <2>4. /\ q \in Request /\ q.phase = ph /\ q.user = u
        /\ q.org = grant[t].org /\ q.token = t
    BY <2>2, <2>3 DEF Idle, Request, Phases, Grants
  <2> HIDE DEF q
  <2>5. TypeOK'
    BY <1>1, <2>1, <2>4 DEF TypeOK, Replies
  <2>6. RequestInv'
    BY <1>1, <1>3, <2>1, <2>2, <2>4 DEF TypeOK, RequestInv, Issued, ForOrg
  <2>7. CallerStaysMember'
    BY <1>1, <2>1, <2>2, <2>4 DEF TypeOK, CallerStaysMember, ForOrg
  <2> QED
    BY <1>2, <2>5, <2>6, <2>7
<1>4. CASE ~ (t \in invites /\ grant[t].user = u)
  <2>1. req' = [req EXCEPT ![r] = Idle] /\ reply' = [reply EXCEPT ![r] = "unknown"]
    BY <1>4 DEF AcceptInvite, Finish
  <2>2. TypeOK'
    BY <1>1, <2>1, IdleIsRequest DEF TypeOK, Replies
  <2>3. RequestInv' /\ CallerStaysMember'
    BY <1>1, <2>1 DEF TypeOK, RequestInv, CallerStaysMember, Issued, ForOrg, Idle
  <2> QED
    BY <1>2, <2>2, <2>3
<1> QED
  BY <1>3, <1>4

LEMMA ArriveKeeps ==
  ASSUME IInv, NEW r \in Requests, Arrive(r)
  PROVE  IInv'
<1>1. ASSUME NEW u \in Users, NEW o \in Orgs, NEW ws \in SUBSET Users, InviteUsers(r, u, o, ws)
      PROVE  IInv'
  <2> DEFINE q == [Idle EXCEPT !.phase = "inviting", !.user = u, !.org = o,
                               !.seen = members[o], !.todo = ws]
  <2>1. /\ q \in Request /\ q.phase = "inviting" /\ q.user = u /\ q.org = o
    BY DEF Idle, Request, Phases, IInv, TypeOK
  <2>2. ReadOrg(r, u, o, q)
    BY <1>1 DEF InviteUsers
  <2> HIDE DEF q
  <2> QED
    BY <2>1, <2>2, ReadOrgKeeps DEF ForOrg
<1>2. ASSUME NEW u \in Users, NEW o \in Orgs, NEW t \in Issued, CancelInvite(r, u, o, t)
      PROVE  IInv'
  <2> DEFINE q == [Idle EXCEPT !.phase = "cancelling", !.user = u, !.org = o, !.token = t]
  <2>1. /\ q \in Request /\ q.phase = "cancelling" /\ q.user = u /\ q.org = o /\ q.token \in Tokens
    BY DEF Idle, Request, Phases, Issued
  <2>2. ReadOrg(r, u, o, q)
    BY <1>2 DEF CancelInvite
  <2> HIDE DEF q
  <2> QED
    BY <2>1, <2>2, ReadOrgKeeps DEF ForOrg
<1>3. ASSUME NEW u \in Users, NEW o \in Orgs, UpdateOrgName(r, u, o)
      PROVE  IInv'
  <2> DEFINE q == [Idle EXCEPT !.phase = "renaming", !.user = u, !.org = o]
  <2>1. /\ q \in Request /\ q.phase = "renaming" /\ q.user = u /\ q.org = o
    BY DEF Idle, Request, Phases
  <2>2. ReadOrg(r, u, o, q)
    BY <1>3 DEF UpdateOrgName
  <2> HIDE DEF q
  <2> QED
    BY <2>1, <2>2, ReadOrgKeeps DEF ForOrg
<1> QED
  BY <1>1, <1>2, <1>3, AcceptInviteKeeps DEF Arrive

LEMMA CommitAcceptKeeps ==
  ASSUME IInv, NEW r \in Requests, CommitAccept(r)
  PROVE  IInv'
<1> USE NoneIsNone DEF IInv
<1>1. TypeOK'
  <2>1. req' \in [Requests -> Request]
    BY IdleIsRequest DEF TypeOK, CommitAccept, Finish
  <2>2. reply' \in [Requests -> Replies]
    BY DEF TypeOK, CommitAccept, Finish, Replies
  <2>3. members' \in [Orgs -> SUBSET Users]
    BY DEF TypeOK, RequestInv, Issued, Grants, CommitAccept
  <2> QED
    BY <2>1, <2>2, <2>3 DEF TypeOK, CommitAccept
<1>2. (invites \subseteq Issued)'
  BY MaxDayIsNat DEF TypeOK, Issued, RequestInv, CommitAccept, Finish
<1>3. RequestInv'
  BY MaxDayIsNat DEF RequestInv, TypeOK, Issued, ForOrg, Idle, CommitAccept, Finish
<1>4. CallerStaysMember'
  BY MaxDayIsNat DEF CallerStaysMember, TypeOK, RequestInv, ForOrg, Idle, CommitAccept, Finish
<1>5. OneLiveInvite'
  BY MaxDayIsNat DEF OneLiveInvite, TypeOK, Issued, Grants, CommitAccept, Finish
<1> QED
  BY <1>1, <1>2, <1>3, <1>4, <1>5

LEMMA InitEstablishes == Init => IInv
<1> SUFFICES ASSUME Init PROVE IInv
  OBVIOUS
<1>1. TypeOK
  BY MaxDayIsNat, IdleIsRequest DEF Init, TypeOK, Days, Replies
<1>2. RequestInv /\ CallerStaysMember
  BY DEF Init, RequestInv, CallerStaysMember, Idle, ForOrg
<1> QED
  BY <1>1, <1>2 DEF Init, IInv, OneLiveInvite

LEMMA StepKeeps == IInv /\ [Next]_vars => IInv'
<1> SUFFICES ASSUME IInv, [Next]_vars PROVE IInv'
  OBVIOUS
<1>1. ASSUME NEW u \in Users, RegisterUser(u)
      PROVE  IInv'
  BY <1>1, RegisterUserKeeps
<1>2. ASSUME NEW u \in Users, NEW o \in Orgs, CreateOrg(u, o)
      PROVE  IInv'
  BY <1>2, CreateOrgKeeps
<1>3. ASSUME NEW u \in Users, NEW t \in Tokens, DeclineInvite(u, t)
      PROVE  IInv'
  BY <1>3, DeclineInviteKeeps
<1>4. CASE Midnight
  BY <1>4, MidnightKeeps
<1>5. ASSUME NEW r \in Requests, Arrive(r)
      PROVE  IInv'
  BY <1>5, ArriveKeeps
<1>6. ASSUME NEW r \in Requests, Proceed(r)
      PROVE  IInv'
  BY <1>6, InviteRefusedKeeps, InviteCreatedKeeps, CommitCancelKeeps, CommitNameKeeps,
     CommitAcceptKeeps DEF Proceed
<1>7. CASE UNCHANGED vars
  BY <1>7 DEF vars, dbVars, IInv, TypeOK, RequestInv, CallerStaysMember, OneLiveInvite, Issued
<1> QED
  BY <1>1, <1>2, <1>3, <1>4, <1>5, <1>6, <1>7 DEF Next

(* The inductive invariant holds in every reachable state. *)
THEOREM Invariance == Spec => []IInv
<1> QED
  BY InitEstablishes, StepKeeps, PTL DEF Spec

(* Every variable keeps its type. *)
THEOREM TypeCorrect == Spec => []TypeOK
<1>1. IInv => TypeOK
  BY DEF IInv
<1> QED
  BY <1>1, Invariance, PTL

(* A member who passed the check on the organization as read is a member   *)
(* when his request writes.                                                *)
THEOREM CheckStaysValid == Spec => []CallerStaysMember
<1>1. IInv => CallerStaysMember
  BY DEF IInv
<1> QED
  BY <1>1, Invariance, PTL

(* At most one live invite per user and organization. *)
THEOREM InvitesAreUnique == Spec => []OneLiveInvite
<1>1. IInv => OneLiveInvite
  BY DEF IInv
<1> QED
  BY <1>1, Invariance, PTL

(* No two requests are told that they spent the same invite. *)
THEOREM OkMeansSpent == Spec => OkSpendsInvite
<1>1. ASSUME IInv, [Next]_vars, NEW r \in Requests,
             req[r].phase \in {"accepting", "cancelling"}, reply'[r] = "ok"
      PROVE  req[r].token \in invites \ invites'
  <2>1. reply[r] = "none"
    BY <1>1 DEF IInv, RequestInv
  <2>2. reply'[r] # reply[r]
    BY <1>1, <2>1
  <2>3. ASSUME NEW s \in Requests, s # r, Arrive(s) \/ Proceed(s)
        PROVE  reply'[r] = reply[r]
    <3>1. reply \in [Requests -> Replies]
      BY <1>1 DEF IInv, TypeOK
    <3>2. ASSUME NEW a, reply' = [reply EXCEPT ![s] = a]
          PROVE  reply'[r] = reply[r]
      BY <2>3, <3>1, <3>2
    <3>3. ASSUME Arrive(s)
          PROVE  \E a : reply' = [reply EXCEPT ![s] = a]
      BY <3>3 DEF Arrive, InviteUsers, CancelInvite, UpdateOrgName, AcceptInvite, ReadOrg, Begin,
         Finish
    <3>4. ASSUME NEW w \in Users, InviteRefused(s, w) \/ \E t \in Tokens : InviteCreated(s, w, t)
          PROVE  \E a : reply' = [reply EXCEPT ![s] = a]
      BY <3>4 DEF InviteRefused, InviteCreated, TaskDone
    <3>5. ASSUME CommitCancel(s) \/ CommitName(s) \/ CommitAccept(s)
          PROVE  \E a : reply' = [reply EXCEPT ![s] = a]
      BY <3>5 DEF CommitCancel, CommitName, CommitAccept, Finish
    <3> QED
      BY <2>3, <3>2, <3>3, <3>4, <3>5 DEF Proceed
  <2>4. Arrive(r) \/ Proceed(r)
    BY <1>1, <2>2, <2>3 DEF Next, vars, RegisterUser, CreateOrg, DeclineInvite, Midnight
  <2>5. CommitCancel(r) \/ CommitAccept(r)
    BY <1>1, <2>4 DEF Arrive, InviteUsers, CancelInvite, UpdateOrgName, AcceptInvite, ReadOrg,
       Proceed, InviteRefused, InviteCreated, CommitName
  <2> QED
    BY <1>1, <2>1, <2>5 DEF CommitCancel, CommitAccept, Finish, IInv, TypeOK
<1>2. IInv /\ [Next]_vars =>
        [\A r \in Requests : req[r].phase \in {"accepting", "cancelling"} /\ reply'[r] = "ok"
                               => req[r].token \in invites \ invites']_vars
  BY <1>1
<1> QED
  BY <1>2, Invariance, PTL DEF Spec, OkSpendsInvite

-----------------------------------------------------------------------------
(* The refinement: creating an organization founds it, a created invite is *)
(* issued, the commit of acceptInvite joins (or, for an expired invite,    *)
(* withdraws), the commits of cancelInvite and declineInvite withdraw.     *)

LEMMA LedgerInitially == Init => Ledger!LedgerInit
  BY DEF Init, Ledger!LedgerInit

LEMMA LedgerStep == IInv /\ [Next]_vars => [Ledger!LedgerNext]_(Ledger!ledgerVars)
<1> SUFFICES ASSUME IInv, [Next]_vars
             PROVE  Ledger!LedgerNext \/ UNCHANGED <<members, grant, invites>>
  BY DEF Ledger!ledgerVars
<1> USE DEF IInv, TypeOK
<1>1. ASSUME NEW u \in Users, NEW o \in Orgs, CreateOrg(u, o)
      PROVE  Ledger!Found(u, o)
  BY <1>1 DEF CreateOrg, Ledger!Found
<1>2. ASSUME NEW u \in Users, NEW t \in Tokens, DeclineInvite(u, t)
      PROVE  Ledger!Withdraw(t)
  BY <1>2 DEF DeclineInvite, Ledger!Withdraw
<1>3. ASSUME NEW r \in Requests, NEW w \in Users, NEW t \in Tokens, InviteCreated(r, w, t)
      PROVE  \E g \in Ledger!Grants : Ledger!Issue(t, g)
  <2> DEFINE g == [user |-> w, org |-> req[r].org, day |-> today]
  <2>1. g \in Ledger!Grants /\ g.user = w /\ g.org = req[r].org
    BY <1>3 DEF InviteCreated, RequestInv, ForOrg, Ledger!Grants
  <2>2. members[g.org] # {}
    BY <1>3, <2>1 DEF InviteCreated, CallerStaysMember, ForOrg
  <2>3. ~ \E s \in invites : grant[s].user = g.user /\ grant[s].org = g.org
    BY <1>3, <2>1 DEF InviteCreated, InviteVerdict, LiveFor
  <2>4. /\ grant[t] = None
        /\ grant' = [grant EXCEPT ![t] = g]
        /\ invites' = invites \cup {t}
        /\ members' = members
    BY <1>3 DEF InviteCreated
  <2> HIDE DEF g
  <2>5. Ledger!Issue(t, g)
    BY <2>2, <2>3, <2>4 DEF Ledger!Issue
  <2> QED
    BY <2>1, <2>5
<1>4. ASSUME NEW r \in Requests, CommitCancel(r)
      PROVE  Ledger!LedgerNext \/ UNCHANGED <<members, grant, invites>>
  <2>1. req[r].token \in Tokens
    BY <1>4 DEF CommitCancel, RequestInv
  <2>2. Ledger!Withdraw(req[r].token) \/ UNCHANGED <<members, grant, invites>>
    BY <1>4 DEF CommitCancel, Ledger!Withdraw
  <2> QED
    BY <2>1, <2>2 DEF Ledger!LedgerNext
<1>5. ASSUME NEW r \in Requests, CommitAccept(r)
      PROVE  Ledger!LedgerNext \/ UNCHANGED <<members, grant, invites>>
  <2> DEFINE t == req[r].token
  <2>1. /\ t \in Tokens
        /\ req[r].user = grant[t].user /\ req[r].org = grant[t].org
    BY <1>5 DEF CommitAccept, RequestInv, Issued
  <2>2. CASE t \notin invites
    BY <1>5, <2>2 DEF CommitAccept
  <2>3. CASE t \in invites /\ req[r].phase = "accepting"
    <3>1. Ledger!Join(t)
      BY <1>5, <2>1, <2>3 DEF CommitAccept, Ledger!Join
    <3> QED
      BY <2>1, <3>1 DEF Ledger!LedgerNext
  <2>4. CASE t \in invites /\ req[r].phase # "accepting"
    <3>1. Ledger!Withdraw(t)
      BY <1>5, <2>4 DEF CommitAccept, Ledger!Withdraw
    <3> QED
      BY <2>1, <3>1 DEF Ledger!LedgerNext
  <2> QED
    BY <2>2, <2>3, <2>4
<1>6. ASSUME NEW r \in Requests, Arrive(r)
      PROVE  UNCHANGED <<members, grant, invites>>
  BY <1>6 DEF Arrive, InviteUsers, CancelInvite, UpdateOrgName, ReadOrg, AcceptInvite, dbVars
<1>7. ASSUME NEW r \in Requests, Proceed(r)
      PROVE  Ledger!LedgerNext \/ UNCHANGED <<members, grant, invites>>
  <2>1. ASSUME NEW w \in Users, InviteRefused(r, w)
        PROVE  UNCHANGED <<members, grant, invites>>
    BY <2>1 DEF InviteRefused, dbVars
  <2>2. CASE CommitName(r)
    BY <2>2 DEF CommitName
  <2> QED
    BY <1>3, <1>4, <1>5, <1>7, <2>1, <2>2 DEF Proceed, Ledger!LedgerNext
<1>8. \/ UNCHANGED <<members, grant, invites>>
      \/ \E u \in Users, o \in Orgs : CreateOrg(u, o)
      \/ \E u \in Users, t \in Tokens : DeclineInvite(u, t)
      \/ \E r \in Requests : Arrive(r) \/ Proceed(r)
  BY DEF Next, vars, dbVars, RegisterUser, Midnight
<1> QED
  BY <1>1, <1>2, <1>6, <1>7, <1>8 DEF Ledger!LedgerNext

(* The endpoints implement InviteLedger. *)
THEOREM Refinement == Spec => ImplementsLedger
<1> QED
  BY LedgerInitially, LedgerStep, Invariance, PTL DEF Spec, ImplementsLedger, Ledger!LedgerSpec
=============================================================================
