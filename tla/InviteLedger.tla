---------------------------- MODULE InviteLedger ----------------------------
(***************************************************************************)
(* What the organization endpoints promise: who belongs to an organization *)
(* is its founder and whoever spent an invite made out to him.  An invite  *)
(* is issued by a member, at most one per user and organization is live,   *)
(* and its token is spent once -- by the invitee joining, or by being      *)
(* withdrawn (declined or cancelled) -- and never comes back.              *)
(***************************************************************************)
CONSTANTS Users, Orgs, Tokens, Days, None

VARIABLES members,  \* users of each organization; {} before it exists
          grant,    \* user, organization and day of issue of each token
          live      \* tokens that may still be spent

ledgerVars == <<members, grant, live>>

Grants == [user : Users, org : Orgs, day : Days]

LedgerInit == /\ members = [o \in Orgs |-> {}]
              /\ grant = [t \in Tokens |-> None]
              /\ live = {}

Found(u, o) == /\ members[o] = {}
               /\ members' = [members EXCEPT ![o] = {u}]
               /\ UNCHANGED <<grant, live>>

Issue(t, g) == /\ grant[t] = None
               /\ members[g.org] # {}
               /\ ~ \E s \in live : grant[s].user = g.user /\ grant[s].org = g.org
               /\ grant' = [grant EXCEPT ![t] = g]
               /\ live' = live \cup {t}
               /\ UNCHANGED members

Join(t) == /\ t \in live
           /\ live' = live \ {t}
           /\ members' = [members EXCEPT ![grant[t].org] = @ \cup {grant[t].user}]
           /\ UNCHANGED grant

Withdraw(t) == /\ t \in live
               /\ live' = live \ {t}
               /\ UNCHANGED <<members, grant>>

LedgerNext ==
  \/ \E u \in Users, o \in Orgs : Found(u, o)
  \/ \E t \in Tokens : \/ Join(t) \/ Withdraw(t)
                       \/ \E g \in Grants : Issue(t, g)

LedgerSpec == LedgerInit /\ [][LedgerNext]_ledgerVars
=============================================================================
