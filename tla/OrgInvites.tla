----------------------------- MODULE OrgInvites -----------------------------
(***************************************************************************)
(* Organizations, their members and their invites: OrgsController and      *)
(* OrgsService (src/orgs), and user registration as far as invites look at *)
(* it (src/users).                                                         *)
(*                                                                         *)
(* A user is known here by an id that stays: PATCH /users/me is not part   *)
(* of this module (see Accounts), nor are bodies that write relations.     *)
(*                                                                         *)
(* Requests run concurrently and share only the database.  Most of them    *)
(* read first (the organization with its users, or the invite), decide on  *)
(* what they read, and write in a later step; each database call is one    *)
(* step, a nested write being one transaction.                             *)
(***************************************************************************)
EXTENDS Naturals, FiniteSets

CONSTANTS Users, Orgs, Tokens,  \* ids and random tokens; none is generated twice
          Requests,             \* requests that may be in progress at once
          MaxDay,               \* bound of the clock
          None

ASSUME MaxDayIsNat == MaxDay \in Nat

VARIABLES
  registered,  \* ids in the User table
  members,     \* Organization.users; {} for an organization not created
  namedBy,     \* who set Organization.name last
  grant,       \* what each token was issued for: the columns of Invite
  invites,     \* tokens of the rows of the Invite table
  today,       \* the clock, in days
  req,         \* the requests in progress: their inputs and what they read
  reply        \* the last answer of each request slot

dbVars == <<registered, members, namedBy, grant, invites>>
vars   == <<dbVars, today, req, reply>>

Days   == 0..MaxDay
Grants == [user : Users, org : Orgs, day : Days]

ASSUME NoneIsNone == None \notin Users \cup Orgs \cup Tokens \cup Grants

Phases  == {"idle", "inviting", "cancelling", "renaming", "accepting", "expiring"}
ForOrg  == {"inviting", "cancelling", "renaming"}  \* on behalf of a member
Replies == {"none", "ok", "unknown", "duplicate", "expired", "error"}

Request == [phase : Phases, user : Users \cup {None}, org : Orgs \cup {None},
            token : Tokens \cup {None}, seen : SUBSET Users, todo : SUBSET Users]

Idle == [phase |-> "idle", user |-> None, org |-> None, token |-> None,
         seen |-> {}, todo |-> {}]

TypeOK ==
  /\ registered \in SUBSET Users
  /\ members \in [Orgs -> SUBSET Users]
  /\ namedBy \in [Orgs -> Users \cup {None}]
  /\ grant \in [Tokens -> Grants \cup {None}]
  /\ invites \in SUBSET Tokens
  /\ today \in Days
  /\ req \in [Requests -> Request]
  /\ reply \in [Requests -> Replies]

Init ==
  /\ registered = {}
  /\ members = [o \in Orgs |-> {}]
  /\ namedBy = [o \in Orgs |-> None]
  /\ grant = [t \in Tokens |-> None]
  /\ invites = {}
  /\ today = 0
  /\ req = [r \in Requests |-> Idle]
  /\ reply = [r \in Requests |-> "none"]

-----------------------------------------------------------------------------
(* Helpers. *)

Issued == {t \in Tokens : grant[t] # None}

(* The tokens that requests in progress may still draw: the model bounds   *)
(* the number of invites ever issued by Cardinality(Tokens).               *)
Claimed == {p \in Requests \X Users : p[2] \in req[p[1]].todo}

LiveFor(w, o) == {t \in invites : grant[t].user = w /\ grant[t].org = o}

Begin(r, q)  == /\ req' = [req EXCEPT ![r] = q]
                /\ reply' = [reply EXCEPT ![r] = "none"]
Finish(r, a) == /\ req' = [req EXCEPT ![r] = Idle]
                /\ reply' = [reply EXCEPT ![r] = a]

(* Mutant: the organization exists, and that is all that is looked at. *)
ReadOrgUnchecked(r, u, o, q) ==
  /\ req[r].phase = "idle"
  /\ u \in registered
  /\ IF members[o] # {} THEN Begin(r, q) ELSE Finish(r, "unknown")
  /\ UNCHANGED <<dbVars, today>>

(* Reading the organization with its users: the request goes on only if    *)
(* its user is among them, and is answered 404 otherwise.                  *)
ReadOrg(r, u, o, q) ==
  /\ req[r].phase = "idle"
  /\ u \in registered
  /\ IF u \in members[o] THEN Begin(r, q) ELSE Finish(r, "unknown")
  /\ UNCHANGED <<dbVars, today>>

-----------------------------------------------------------------------------
(* Requests of a single database call. *)

RegisterUser(u) ==
  /\ u \notin registered
  /\ registered' = registered \cup {u}
  /\ UNCHANGED <<members, namedBy, grant, invites, today, req, reply>>

(* The id is drawn, or in the body, which is spread after it; one that is  *)
(* in use fails and changes nothing.                                       *)
CreateOrg(u, o) ==
  /\ u \in registered
  /\ members[o] = {}
  /\ members' = [members EXCEPT ![o] = {u}]
  /\ namedBy' = [namedBy EXCEPT ![o] = u]
  /\ UNCHANGED <<registered, grant, invites, today, req, reply>>

(* delete where userId and token: fails, changing nothing, without a row.  *)
DeclineInvite(u, t) ==
  /\ t \in invites
  /\ grant[t].user = u
  /\ invites' = invites \ {t}
  /\ UNCHANGED <<registered, members, namedBy, grant, today, req, reply>>

Midnight ==
  /\ today < MaxDay
  /\ today' = today + 1
  /\ UNCHANGED <<dbVars, req, reply>>

-----------------------------------------------------------------------------
(* inviteUser: the organization, then one task per user id, all of them    *)
(* deciding on the organization as it was read.                            *)
InviteUsers(r, u, o, ws) ==
  /\ Cardinality(Claimed) + Cardinality(ws) <= Cardinality(Tokens \ Issued)
  /\ ReadOrg(r, u, o, [Idle EXCEPT !.phase = "inviting", !.user = u, !.org = o,
                                   !.seen = members[o], !.todo = ws])

(* Mutant: no primary key on (userId, orgId). *)
InviteVerdictWithoutKey(q, w) ==
  IF w \notin registered THEN "unknown"
  ELSE IF w \in q.seen THEN "duplicate"
  ELSE "ok"

(* Why the task for w fails, or "ok".  A second invite violates the        *)
(* primary key (userId, orgId), which inviteUser answers with a 500.       *)
InviteVerdict(q, w) ==
  IF w \notin registered THEN "unknown"
  ELSE IF w \in q.seen THEN "duplicate"
  ELSE IF LiveFor(w, q.org) # {} THEN "error"
  ELSE "ok"

(* Promise.all answers with the first failure, while the other tasks go on *)
(* unwatched, or with "ok" after the last one.                             *)
FirstAnswer(r, w, verdict) ==
  IF reply[r] = "none" /\ (verdict # "ok" \/ req[r].todo = {w}) THEN verdict ELSE reply[r]

Without(q, w) == [q EXCEPT !.todo = @ \ {w}]

TaskDone(r, w, verdict) ==
  /\ reply' = [reply EXCEPT ![r] = FirstAnswer(r, w, verdict)]
  /\ req' = [req EXCEPT ![r] = IF @.todo = {w} THEN Idle ELSE Without(@, w)]

(* The task creates the invite ... *)
InviteCreated(r, w, t) ==
  /\ req[r].phase = "inviting"
  /\ w \in req[r].todo
  /\ InviteVerdict(req[r], w) = "ok"
  /\ grant[t] = None
  /\ grant' = [grant EXCEPT ![t] = [user |-> w, org |-> req[r].org, day |-> today]]
  /\ invites' = invites \cup {t}
  /\ TaskDone(r, w, "ok")
  /\ UNCHANGED <<registered, members, namedBy, today>>

(* ... or throws. *)
InviteRefused(r, w) ==
  /\ req[r].phase = "inviting"
  /\ w \in req[r].todo
  /\ InviteVerdict(req[r], w) # "ok"
  /\ TaskDone(r, w, InviteVerdict(req[r], w))
  /\ UNCHANGED <<dbVars, today>>

-----------------------------------------------------------------------------
(* cancelInvite: the organization, then the nested delete of the token,    *)
(* which fails unless the organization has such an invite.                 *)
CancelInvite(r, u, o, t) ==
  ReadOrg(r, u, o, [Idle EXCEPT !.phase = "cancelling", !.user = u, !.org = o, !.token = t])

(* Mutant: deleteMany, which does not mind that there is no such row. *)
CommitCancelMany(r) ==
  LET t == req[r].token
      found == t \in invites /\ grant[t].org = req[r].org
  IN /\ req[r].phase = "cancelling"
     /\ invites' = IF found THEN invites \ {t} ELSE invites
     /\ Finish(r, "ok")
     /\ UNCHANGED <<registered, members, namedBy, grant, today>>

CommitCancel(r) ==
  LET t == req[r].token
      found == t \in invites /\ grant[t].org = req[r].org
  IN /\ req[r].phase = "cancelling"
     /\ invites' = IF found THEN invites \ {t} ELSE invites
     /\ Finish(r, IF found THEN "ok" ELSE "error")
     /\ UNCHANGED <<registered, members, namedBy, grant, today>>

(* updateOrgName *)
UpdateOrgName(r, u, o) ==
  ReadOrg(r, u, o, [Idle EXCEPT !.phase = "renaming", !.user = u, !.org = o])

CommitName(r) ==
  /\ req[r].phase = "renaming"
  /\ namedBy' = [namedBy EXCEPT ![req[r].org] = req[r].user]
  /\ Finish(r, "ok")
  /\ UNCHANGED <<registered, members, grant, invites, today>>

-----------------------------------------------------------------------------
(* acceptInvite: the invite by its token, then one nested update that      *)
(* connects the user and deletes the invite, or fails without the row.     *)

(* createdAt.diffNow().get('days'): diffNow() yields a duration in         *)
(* milliseconds, and one of those has no days to get.                      *)
DiffNowDays(g) == 0

Expired(g) == DiffNowDays(g) > 1

AcceptInvite(r, u, t) ==
  /\ req[r].phase = "idle"
  /\ u \in registered
  /\ IF t \in invites /\ grant[t].user = u
       THEN Begin(r, [Idle EXCEPT !.phase = IF Expired(grant[t]) THEN "expiring" ELSE "accepting",
                                  !.user = u, !.org = grant[t].org, !.token = t])
       ELSE Finish(r, "unknown")
  /\ UNCHANGED <<dbVars, today>>

(* Mutant: the user is connected in a call of its own, found or not. *)
CommitAcceptInTwo(r) ==
  LET q == req[r]
      found == q.token \in invites
  IN /\ q.phase \in {"accepting", "expiring"}
     /\ invites' = invites \ {q.token}
     /\ members' = [members EXCEPT ![q.org] = @ \cup {q.user}]
     /\ Finish(r, IF found THEN "ok" ELSE "error")
     /\ UNCHANGED <<registered, namedBy, grant, today>>

CommitAccept(r) ==
  LET q == req[r]
      found == q.token \in invites
  IN /\ q.phase \in {"accepting", "expiring"}
     /\ invites' = invites \ {q.token}
     /\ members' = IF found /\ q.phase = "accepting"
                     THEN [members EXCEPT ![q.org] = @ \cup {q.user}]
                     ELSE members
     /\ Finish(r, IF ~ found THEN "error" ELSE IF q.phase = "accepting" THEN "ok" ELSE "expired")
     /\ UNCHANGED <<registered, namedBy, grant, today>>

-----------------------------------------------------------------------------
Arrive(r) ==
  \E u \in Users :
    \/ \E o \in Orgs :
         \/ \E ws \in SUBSET Users \ {{}} : InviteUsers(r, u, o, ws)
         \/ \E t \in Issued : CancelInvite(r, u, o, t)
         \/ UpdateOrgName(r, u, o)
    \/ \E t \in Issued : AcceptInvite(r, u, t)

Proceed(r) ==
  \/ \E w \in Users : InviteRefused(r, w) \/ \E t \in Tokens : InviteCreated(r, w, t)
  \/ CommitCancel(r)
  \/ CommitName(r)
  \/ CommitAccept(r)

Next ==
  \/ \E u \in Users : RegisterUser(u)
  \/ \E u \in Users, o \in Orgs : CreateOrg(u, o)
  \/ \E u \in Users, t \in Tokens : DeclineInvite(u, t)
  \/ Midnight
  \/ \E r \in Requests : Arrive(r) \/ Proceed(r)

Spec == Init /\ [][Next]_vars

-----------------------------------------------------------------------------
(* Properties. *)

(* The membership check is made on what was read, the write comes later:   *)
(* whoever acts for an organization is still a member of it when he does.  *)
CallerStaysMember ==
  \A r \in Requests : req[r].phase \in ForOrg => req[r].user \in members[req[r].org]

(* However many members invite concurrently, a user has at most one live   *)
(* invite to an organization.                                              *)
OneLiveInvite ==
  \A s, t \in invites :
    grant[s].user = grant[t].user /\ grant[s].org = grant[t].org => s = t

(* An invite is spent by the request that is told so: between reading the  *)
(* invite and writing, others may accept, cancel or decline it, and then   *)
(* this request must not be answered "ok".                                 *)
OkSpendsInvite ==
  [][\A r \in Requests :
       req[r].phase \in {"accepting", "cancelling"} /\ reply'[r] = "ok"
         => req[r].token \in invites \ invites']_vars

(* Memberships, invites and tokens evolve as InviteLedger promises: nobody *)
(* joins but the founder and those who spend an invite of their own, and   *)
(* no spent token comes back.                                              *)
Ledger == INSTANCE InviteLedger WITH live <- invites

ImplementsLedger == Ledger!LedgerSpec

-----------------------------------------------------------------------------
(* The inductive invariant behind them: see OrgInvitesProofs. *)

(* What a request in progress remembers is in the database, for good: the  *)
(* organization it acts for, the columns of the invite it accepts.         *)
RequestInv ==
  \A r \in Requests :
    /\ req[r].phase \in ForOrg => req[r].org \in Orgs /\ req[r].user \in Users
    /\ req[r].phase = "cancelling" => req[r].token \in Tokens
    /\ req[r].phase \notin {"idle", "inviting"} => reply[r] = "none"
    /\ req[r].phase \in {"accepting", "expiring"} =>
         /\ req[r].token \in Issued
         /\ req[r].user = grant[req[r].token].user
         /\ req[r].org = grant[req[r].token].org

IInv == /\ TypeOK
        /\ invites \subseteq Issued
        /\ RequestInv
        /\ CallerStaysMember
        /\ OneLiveInvite
=============================================================================
