------------------------------ MODULE Accounts ------------------------------
(***************************************************************************)
(* Users: registration, login, the lookup of a request's user by its       *)
(* token, and the handlers under /users (src/users, src/auth).             *)
(*                                                                         *)
(* Each database call is one step.  AuthMiddleware keeps the row it found  *)
(* as req.user, and the handler works on that copy later.                  *)
(***************************************************************************)
EXTENDS Naturals, FiniteSets

CONSTANTS Requests,
          Ids,       \* any string: a cuid, or what a client makes up
          Tokens,    \* no draw of 32 random bytes hits one that was ever in use
          Emails, Names, Secrets,
          Unhashed,  \* a password column that is no hash; nothing compares to it
          None

VARIABLES
  rows,       \* table User, by id
  issued,     \* tokens drawn, or made up by clients, so far
  rewritten,  \* accounts whose id or email an update has changed
  req, reply,
  server

dbVars == <<rows, issued, rewritten>>
vars   == <<dbVars, req, reply, server>>

(* An account is known by the token drawn for it, born, a history that the *)
(* code does not keep: each of the other columns may change.               *)
Row == [email : Emails, name : Names, secret : Secrets \cup {Unhashed}, token : Tokens,
        born : Tokens]

(* account is the account that login compared or the middleware found.     *)
Request == [phase : {"idle", "creating", "login", "rereading", "auth", "me", "naming"},
            id : Ids \cup {None}, token : Tokens \cup {None}, email : Emails \cup {None},
            name : Names \cup {None}, secret : Secrets \cup {None},
            wants : {"me", "naming"}, account : Tokens \cup {None}]

Idle == [phase |-> "idle", id |-> None, token |-> None, email |-> None, name |-> None,
         secret |-> None, wants |-> "me", account |-> None]

(* What a client is told of an account; None if it is refused. *)
Account == [email : Emails, token : Tokens]

ASSUME NoneIsNone ==
  None \notin Ids \cup Tokens \cup Emails \cup Names \cup Secrets \cup Row \cup Account

TypeOK ==
  /\ rows \in [Ids -> Row \cup {None}]
  /\ issued \in SUBSET Tokens /\ rewritten \in SUBSET Tokens
  /\ req \in [Requests -> Request]
  /\ reply \in [Requests -> Account \cup {None}]
  /\ server \in {"up", "down"}

Init ==
  /\ rows = [i \in Ids |-> None] /\ issued = {} /\ rewritten = {}
  /\ req = [r \in Requests |-> Idle]
  /\ reply = [r \in Requests |-> None]
  /\ server = "up"

-----------------------------------------------------------------------------
Taken     == {i \in Ids : rows[i] # None}
With(e)   == {i \in Taken : rows[i].email = e}
Bearer(t) == {i \in Taken : rows[i].token = t}

Begin(r, q) ==
  /\ server = "up" /\ req[r] = Idle
  /\ req' = [req EXCEPT ![r] = q]
  /\ reply' = [reply EXCEPT ![r] = None]
  /\ UNCHANGED server

Continue(r, q) ==
  /\ server = "up"
  /\ req' = [req EXCEPT ![r] = q]
  /\ UNCHANGED <<reply, server>>

Finish(r, told) ==
  /\ server = "up"
  /\ req' = [req EXCEPT ![r] = Idle]
  /\ reply' = [reply EXCEPT ![r] = told]
  /\ UNCHANGED server

(* meUser omits the password. *)
Tell(r, row) == Finish(r, [email |-> row.email, token |-> row.token])
Refuse(r)    == Finish(r, None)

Register(r) ==
  \E i \in Ids, t \in Tokens \ issued, e \in Emails, n \in Names, s \in Secrets :
    /\ Begin(r, [Idle EXCEPT !.phase = "creating", !.id = i, !.token = t, !.email = e,
                             !.name = n, !.secret = s])
    /\ issued' = issued \cup {t}
    /\ UNCHANGED <<rows, rewritten>>

NewRow(q) == [email |-> q.email, name |-> q.name, secret |-> q.secret, token |-> q.token,
              born |-> q.token]

UpsertByEmail(r) ==
  LET q == req[r]
      i == IF With(q.email) # {} THEN CHOOSE j \in With(q.email) : TRUE ELSE q.id
  IN  /\ q.phase = "creating"
      /\ rows' = [rows EXCEPT ![i] = NewRow(q)]
      /\ Tell(r, NewRow(q))
      /\ UNCHANGED <<issued, rewritten>>

(* A duplicate email or token is answered with a 400, a duplicate id,      *)
(* reported as 'PRIMARY', with a 500: the expression does not match it.    *)
Create(r) ==
  LET q == req[r]
  IN  /\ q.phase = "creating"
      /\ IF q.id \in Taken \/ With(q.email) # {} \/ Bearer(q.token) # {}
         THEN Refuse(r) /\ UNCHANGED rows
         ELSE rows' = [rows EXCEPT ![q.id] = NewRow(q)] /\ Tell(r, NewRow(q))
      /\ UNCHANGED <<issued, rewritten>>

-----------------------------------------------------------------------------
Login(r) ==
  \E e \in Emails, s \in Secrets :
    /\ Begin(r, [Idle EXCEPT !.phase = "login", !.email = e, !.secret = s])
    /\ UNCHANGED dbVars

OpenedBy(q) == {i \in With(q.email) : rows[i].secret = q.secret}

(* The row is read to compare the password, and read again to be returned: *)
(* whatever then has the email.                                            *)
Compare(r) ==
  LET q == req[r]
  IN  /\ q.phase = "login"
      /\ \/ OpenedBy(q) = {} /\ Refuse(r)
         \/ \E i \in OpenedBy(q) :
              Continue(r, [q EXCEPT !.phase = "rereading", !.account = rows[i].born])
      /\ UNCHANGED dbVars

Reread(r) ==
  LET q == req[r]
  IN  /\ q.phase = "rereading"
      /\ \/ With(q.email) = {} /\ Refuse(r)
         \/ \E i \in With(q.email) : Tell(r, rows[i])
      /\ UNCHANGED dbVars

-----------------------------------------------------------------------------
Arrive(r) ==
  \E t \in issued, w \in {"me", "naming"} :
    /\ Begin(r, [Idle EXCEPT !.phase = "auth", !.token = t, !.wants = w])
    /\ UNCHANGED dbVars

(* No user for the token: req.user is null and the handler throws on it.   *)
(* Of the row, the handlers use the id only.                               *)
Auth(r) ==
  LET q == req[r]
  IN  /\ q.phase = "auth"
      /\ \/ Bearer(q.token) = {} /\ Refuse(r)
         \/ \E i \in Bearer(q.token) :
              Continue(r, [q EXCEPT !.phase = q.wants, !.id = i, !.account = rows[i].born])
      /\ UNCHANGED dbVars

(* The lookup is rejected: user.then has no handler for that. *)
LookupFails(r) ==
  /\ req[r].phase = "auth" /\ server = "up"
  /\ server' = "down"
  /\ UNCHANGED <<dbVars, req, reply>>

(* If nobody has the id any more, the answer is null. *)
Me(r) ==
  LET q == req[r]
  IN  /\ q.phase = "me"
      /\ IF q.id \in Taken THEN Tell(r, rows[q.id]) ELSE Refuse(r)
      /\ UNCHANGED dbVars

-----------------------------------------------------------------------------
ClashesInColumns(i, j, row) ==
  \E k \in Taken \ {i, j} : rows[k].email = row.email \/ rows[k].token = row.token

(* The primary key and the two unique columns of table User, for the row   *)
(* of i that becomes row under the id j.                                   *)
Clashes(i, j, row) ==
  \E k \in Taken \ {i} : k = j \/ rows[k].email = row.email \/ rows[k].token = row.token

(* What a body may make of a row: nothing strips it of columns that are no *)
(* part of UpdateNameDTO, and a password is stored as it comes.            *)
Updates(row) == {new \in Row : new.born = row.born}

Replaced(i, j, row) ==
  [k \in Ids |-> IF k = j THEN row ELSE IF k = i THEN None ELSE rows[k]]

(* The update finds its row by the id of req.user; the body is looked at   *)
(* here for the first time.  It is refused if nobody has that id any more, *)
(* if a key clashes, and if the validation or Prisma does not take it.     *)
UpdateName(r) ==
  LET i == req[r].id
  IN  /\ req[r].phase = "naming"
      /\ \/ Refuse(r) /\ UNCHANGED dbVars
         \/ /\ i \in Taken
            /\ \E j \in Ids, row \in Updates(rows[i]) :
                 /\ ~Clashes(i, j, row)
                 /\ rows' = Replaced(i, j, row)
                 /\ issued' = issued \cup {row.token}
                 /\ rewritten' = IF j = i /\ row.email = rows[i].email THEN rewritten
                                 ELSE rewritten \cup {row.born}
                 /\ Tell(r, row)

Open(r)    == Register(r) \/ Login(r) \/ Arrive(r)
Proceed(r) == \/ Create(r) \/ Compare(r) \/ Reread(r)
              \/ Auth(r) \/ Me(r) \/ UpdateName(r)

Next == \E r \in Requests : Open(r) \/ Proceed(r) \/ LookupFails(r)

Spec == Init /\ [][Next]_vars

-----------------------------------------------------------------------------
(* Properties. *)

(* The account that login compared is still the one of the email when the  *)
(* row is read again, and the account the middleware found is the one of   *)
(* the id when the handler works on it, unless an update has rewritten the *)
(* account's email or id: no registration takes either away.               *)
OnlyRewritingMixesUp ==
  \A r \in Requests :
    LET q == req[r]
    IN  q.account # None /\ q.account \notin rewritten =>
          \E i \in Taken :
            /\ rows[i].born = q.account
            /\ q.phase = "rereading" => rows[i].email = q.email
            /\ q.phase \in {"me", "naming"} => i = q.id

(* Whatever clients put into their bodies and however requests interleave, *)
(* a row is changed, moved to another id or lost at the hands of its own   *)
(* account only, or of one that has rewritten its id or email before.      *)
AccountsChangeThemselves ==
  [][\A i \in Taken : rows[i] # rows'[i] =>
       \E r \in Requests :
         /\ req[r].phase = "naming" /\ reply'[r] # None
         /\ req[r].account \in {rows[i].born} \cup rewritten]_vars
=============================================================================
