--------------------------- MODULE AccountsProofs ---------------------------
(* The safety of Accounts for any number of users and concurrent requests. *)
EXTENDS Accounts, TLAPS

(* What a request in progress holds. *)
Holding(q) ==
  /\ q.phase = "creating" => /\ q.id \in Ids /\ q.token \in issued /\ q.email \in Emails
                             /\ q.name \in Names /\ q.secret \in Secrets
  /\ q.phase \in {"me", "naming"} => q.id \in Ids /\ q.account # None

SlotInv == \A r \in Requests : Holding(req[r])

(* A token is drawn for one account, or for one registration in progress,  *)
(* whatever tokens clients have made up meanwhile.                         *)
TokenInv ==
  /\ \A i \in Taken : rows[i].born \in issued
  /\ \A i, j \in Taken : rows[i].born = rows[j].born => i = j
  /\ \A r \in Requests : req[r].phase = "creating" =>
       /\ \A i \in Taken : rows[i].born # req[r].token
       /\ \A s \in Requests : req[s].phase = "creating" /\ req[s].token = req[r].token => s = r

KeysAreUnique ==
  \A i, j \in Taken : rows[i].email = rows[j].email \/ rows[i].token = rows[j].token => i = j

IInv == TypeOK /\ SlotInv /\ TokenInv /\ KeysAreUnique /\ OnlyRewritingMixesUp

(* OnlyRewritingMixesUp, of one request. *)
Knows(q) ==
  q.account # None /\ q.account \notin rewritten =>
    \E i \in Taken : /\ rows[i].born = q.account
                     /\ q.phase = "rereading" => rows[i].email = q.email
                     /\ q.phase \in {"me", "naming"} => i = q.id

AllKnow == \A r \in Requests : Knows(req[r])

LEMMA MixesUpByRequest == OnlyRewritingMixesUp <=> AllKnow
BY DEF OnlyRewritingMixesUp, AllKnow, Knows

LEMMA IdleIsRequest ==
  Idle \in Request /\ Idle.phase = "idle" /\ Idle.account = None
BY DEF Idle, Request

LEMMA TakenIsRow ==
  ASSUME TypeOK, NEW i \in Taken
  PROVE  i \in Ids /\ rows[i] \in Row /\ rows[i] # None
BY DEF TypeOK, Taken

LEMMA RowIsSome == \A row \in Row : row # None
BY NoneIsNone

LEMMA AccountOfRow ==
  ASSUME NEW row \in Row
  PROVE  [email |-> row.email, token |-> row.token] \in Account
BY DEF Row, Account

-----------------------------------------------------------------------------
(* Steps that leave the table alone. *)

LEMMA QuietInv ==
  ASSUME IInv, UNCHANGED <<rows, rewritten>>, issued \subseteq issued', issued' \in SUBSET Tokens,
         NEW r \in Requests, NEW q \in Request, req' = [req EXCEPT ![r] = q],
         NEW told \in Account \cup {None},
         reply' = reply \/ reply' = [reply EXCEPT ![r] = told],
         server' \in {"up", "down"}, Knows(q),
         q.phase = "creating" => /\ q.id \in Ids /\ q.token \in issued' \ issued
                                 /\ q.email \in Emails /\ q.name \in Names
                                 /\ q.secret \in Secrets,
         q.phase \in {"me", "naming"} => q.id \in Ids /\ q.account # None
  PROVE  IInv'
<1> USE DEF IInv
<1>1. /\ req'[r] = q /\ \A s \in Requests : s # r => req'[s] = req[s]
      /\ Taken' = Taken
  BY DEF TypeOK, Taken
<1>2. TypeOK'
  BY DEF TypeOK
<1>3. SlotInv'
  BY <1>1 DEF SlotInv, Holding
<1>4. TokenInv'
  BY <1>1 DEF TokenInv, SlotInv, Holding
<1>5. KeysAreUnique'
  BY <1>1 DEF KeysAreUnique
<1>6. OnlyRewritingMixesUp'
  <2>1. \A s \in Requests : Knows(req[s])
    BY MixesUpByRequest DEF AllKnow
  <2>2. AllKnow'
    BY <1>1, <2>1 DEF AllKnow, Knows
  <2> QED
    BY <2>2, MixesUpByRequest, PTL
<1> QED
  BY <1>2, <1>3, <1>4, <1>5, <1>6

LEMMA FinishInv ==
  ASSUME IInv, UNCHANGED dbVars, NEW r \in Requests, NEW told \in Account \cup {None},
         Finish(r, told)
  PROVE  IInv'
<1>1. Knows(Idle)
  BY IdleIsRequest DEF Knows
<1>2. UNCHANGED <<rows, rewritten>> /\ issued \subseteq issued' /\ issued' \in SUBSET Tokens
  BY DEF dbVars, IInv, TypeOK
<1>3. /\ req' = [req EXCEPT ![r] = Idle] /\ reply' = [reply EXCEPT ![r] = told]
      /\ server' \in {"up", "down"}
  BY DEF Finish
<1> QED
  BY <1>1, <1>2, <1>3, IdleIsRequest, QuietInv

LEMMA TellInv ==
  ASSUME IInv, UNCHANGED dbVars, NEW r \in Requests, NEW i \in Taken, Tell(r, rows[i])
  PROVE  IInv'
<1> DEFINE told == [email |-> rows[i].email, token |-> rows[i].token]
<1>1. told \in Account
  BY TakenIsRow, AccountOfRow DEF IInv
<1>2. Finish(r, told)
  BY DEF Tell
<1> HIDE DEF told
<1> QED
  BY <1>1, <1>2, FinishInv

LEMMA RefuseInv ==
  ASSUME IInv, UNCHANGED dbVars, NEW r \in Requests, Refuse(r)
  PROVE  IInv'
BY FinishInv DEF Refuse

LEMMA BeginInv ==
  ASSUME IInv, UNCHANGED <<rows, rewritten>>, issued \subseteq issued', issued' \in SUBSET Tokens,
         NEW r \in Requests, NEW q \in Request, Begin(r, q),
         q.account = None, q.phase \in {"creating", "login", "auth"},
         q.phase = "creating" => /\ q.id \in Ids /\ q.token \in issued' \ issued
                                 /\ q.email \in Emails /\ q.name \in Names
                                 /\ q.secret \in Secrets
  PROVE  IInv'
<1>1. Knows(q)
  BY DEF Knows
<1> QED
  BY <1>1, QuietInv DEF Begin, IInv, TypeOK

LEMMA OpenInv ==
  ASSUME IInv, NEW r \in Requests, Open(r)
  PROVE  IInv'
<1> USE DEF IInv
<1>1. CASE Register(r)
  <2> PICK i \in Ids, t \in Tokens \ issued, e \in Emails, n \in Names, s \in Secrets :
        /\ Begin(r, [Idle EXCEPT !.phase = "creating", !.id = i, !.token = t, !.email = e,
                                 !.name = n, !.secret = s])
        /\ issued' = issued \cup {t}
        /\ UNCHANGED <<rows, rewritten>>
    BY <1>1 DEF Register
  <2> DEFINE q == [Idle EXCEPT !.phase = "creating", !.id = i, !.token = t, !.email = e,
                               !.name = n, !.secret = s]
  <2>1. /\ q \in Request /\ q.phase = "creating" /\ q.id = i /\ q.token = t /\ q.email = e
        /\ q.name = n /\ q.secret = s /\ q.account = None
    BY DEF Request, Idle
  <2>2. issued' \in SUBSET Tokens /\ issued \subseteq issued' /\ t \in issued' \ issued
    BY DEF TypeOK
  <2> HIDE DEF q
  <2> QED
    BY <2>1, <2>2, BeginInv DEF q
<1>2. CASE Login(r)
  <2> PICK e \in Emails, s \in Secrets :
        /\ Begin(r, [Idle EXCEPT !.phase = "login", !.email = e, !.secret = s])
        /\ UNCHANGED dbVars
    BY <1>2 DEF Login
  <2> DEFINE q == [Idle EXCEPT !.phase = "login", !.email = e, !.secret = s]
  <2>1. q \in Request /\ q.phase = "login" /\ q.account = None
    BY DEF Request, Idle
  <2>2. UNCHANGED <<rows, rewritten>> /\ issued' = issued /\ issued' \in SUBSET Tokens
    BY DEF dbVars, TypeOK
  <2> HIDE DEF q
  <2> QED
    BY <2>1, <2>2, BeginInv DEF q
<1>3. CASE Arrive(r)
  <2> PICK t \in issued, w \in {"me", "naming"} :
        /\ Begin(r, [Idle EXCEPT !.phase = "auth", !.token = t, !.wants = w])
        /\ UNCHANGED dbVars
    BY <1>3 DEF Arrive
  <2> DEFINE q == [Idle EXCEPT !.phase = "auth", !.token = t, !.wants = w]
  <2>0. t \in Tokens
    BY DEF TypeOK
  <2>1. q \in Request /\ q.phase = "auth" /\ q.account = None
    BY <2>0 DEF Request, Idle
  <2>2. UNCHANGED <<rows, rewritten>> /\ issued' = issued /\ issued' \in SUBSET Tokens
    BY DEF dbVars, TypeOK
  <2> HIDE DEF q
  <2> QED
    BY <2>1, <2>2, BeginInv DEF q
<1> QED
  BY <1>1, <1>2, <1>3 DEF Open

(* A request that goes on with the account of a row. *)
LEMMA ContinueInv ==
  ASSUME IInv, UNCHANGED dbVars, NEW r \in Requests, NEW q \in Request, NEW i \in Taken,
         Continue(r, q), q.account = rows[i].born, q.phase \in {"rereading", "me", "naming"},
         q.phase = "rereading" => rows[i].email = q.email,
         q.phase \in {"me", "naming"} => q.id = i
  PROVE  IInv'
<1> USE DEF IInv
<1>1. i \in Ids /\ rows[i].born # None
  BY TakenIsRow, NoneIsNone DEF Row
<1>2. Knows(q)
  BY DEF Knows
<1>3. /\ UNCHANGED <<rows, rewritten>> /\ issued' = issued /\ issued' \in SUBSET Tokens
      /\ req' = [req EXCEPT ![r] = q] /\ reply' = reply /\ server' \in {"up", "down"}
  BY DEF Continue, dbVars, TypeOK
<1>4. None \in Account \cup {None}
  OBVIOUS
<1> QED
  BY <1>1, <1>2, <1>3, <1>4, QuietInv

LEMMA CompareInv ==
  ASSUME IInv, NEW r \in Requests, Compare(r)
  PROVE  IInv'
<1> USE DEF IInv
<1>1. CASE Refuse(r)
  BY <1>1, RefuseInv DEF Compare
<1>2. CASE ~Refuse(r)
  <2>1. PICK i \in OpenedBy(req[r]) :
          Continue(r, [req[r] EXCEPT !.phase = "rereading", !.account = rows[i].born])
    BY <1>2 DEF Compare
  <2> DEFINE q == [req[r] EXCEPT !.phase = "rereading", !.account = rows[i].born]
  <2>2. i \in Taken /\ rows[i].email = req[r].email /\ rows[i].born \in Tokens
    BY TakenIsRow DEF OpenedBy, With, Row
  <2>3. /\ q \in Request /\ q.phase = "rereading" /\ q.email = req[r].email
        /\ q.account = rows[i].born
    BY <2>2 DEF TypeOK, Request
  <2>4. Continue(r, q) /\ UNCHANGED dbVars
    BY <2>1 DEF Compare
  <2> HIDE DEF q
  <2> QED
    BY <2>2, <2>3, <2>4, ContinueInv
<1> QED
  BY <1>1, <1>2

LEMMA AuthInv ==
  ASSUME IInv, NEW r \in Requests, Auth(r)
  PROVE  IInv'
<1> USE DEF IInv
<1>1. CASE Refuse(r)
  BY <1>1, RefuseInv DEF Auth
<1>2. CASE ~Refuse(r)
  <2>1. PICK i \in Bearer(req[r].token) :
          Continue(r, [req[r] EXCEPT !.phase = req[r].wants, !.id = i, !.account = rows[i].born])
    BY <1>2 DEF Auth
  <2> DEFINE q == [req[r] EXCEPT !.phase = req[r].wants, !.id = i, !.account = rows[i].born]
  <2>2. i \in Taken /\ i \in Ids /\ rows[i].born \in Tokens
    BY TakenIsRow DEF Bearer, Row
  <2>3. /\ q \in Request /\ q.phase \in {"me", "naming"} /\ q.id = i
        /\ q.account = rows[i].born
    BY <2>2 DEF TypeOK, Request
  <2>4. Continue(r, q) /\ UNCHANGED dbVars
    BY <2>1 DEF Auth
  <2> HIDE DEF q
  <2> QED
    BY <2>2, <2>3, <2>4, ContinueInv
<1> QED
  BY <1>1, <1>2

LEMMA RereadInv ==
  ASSUME IInv, NEW r \in Requests, Reread(r)
  PROVE  IInv'
BY TellInv, RefuseInv DEF Reread, With

LEMMA MeInv ==
  ASSUME IInv, NEW r \in Requests, Me(r)
  PROVE  IInv'
BY TellInv, RefuseInv DEF Me

-----------------------------------------------------------------------------
(* The two steps that write. *)

LEMMA CreateInv ==
  ASSUME IInv, NEW r \in Requests, Create(r)
  PROVE  IInv'
<1> USE DEF IInv
<1>1. CASE Refuse(r) /\ UNCHANGED dbVars
  BY <1>1, RefuseInv
<1>2. CASE /\ req[r].id \notin Taken /\ With(req[r].email) = {} /\ Bearer(req[r].token) = {}
           /\ rows' = [rows EXCEPT ![req[r].id] = NewRow(req[r])]
           /\ Tell(r, NewRow(req[r]))
           /\ UNCHANGED <<issued, rewritten>>
  <2> DEFINE i == req[r].id
             row == NewRow(req[r])
             told == [email |-> row.email, token |-> row.token]
  <2>1. req[r].phase = "creating"
    BY DEF Create
  <2>2. /\ i \in Ids /\ row \in Row /\ row.token = req[r].token /\ row.email = req[r].email
        /\ row.born = req[r].token /\ row.born \in issued
    BY <2>1 DEF SlotInv, Holding, NewRow, Row, TypeOK
  <2>3. told \in Account
    BY <2>2, AccountOfRow
  <2>4. rows' = [rows EXCEPT ![i] = row] /\ i \notin Taken /\ Finish(r, told)
    BY <1>2 DEF Tell
  <2>5. /\ \A j \in Taken : rows[j].email # row.email /\ rows[j].token # row.token
        /\ \A j \in Taken : rows[j].born # row.born
        /\ UNCHANGED <<issued, rewritten>>
    BY <1>2, <2>1, <2>2 DEF With, Bearer, TokenInv
  <2> HIDE DEF row, told
  <2>6. /\ req'[r] = Idle /\ \A s \in Requests : s # r => req'[s] = req[s]
        /\ rows'[i] = row /\ \A j \in Ids : j # i => rows'[j] = rows[j]
        /\ Taken' = Taken \cup {i}
    BY <2>2, <2>4, RowIsSome DEF Finish, TypeOK, Taken
  <2>7. TypeOK'
    BY <2>2, <2>3, <2>4, <2>5, IdleIsRequest DEF TypeOK, Finish
  <2>8. SlotInv'
    BY <2>5, <2>6, IdleIsRequest DEF SlotInv, Holding
  <2>9. TokenInv'
    BY <2>1, <2>2, <2>4, <2>5, <2>6, IdleIsRequest, TakenIsRow DEF TokenInv
  <2>10. KeysAreUnique'
    BY <2>4, <2>5, <2>6, TakenIsRow DEF KeysAreUnique
  <2>11. OnlyRewritingMixesUp'
    <3>1. \A s \in Requests : Knows(req[s])
      BY MixesUpByRequest DEF AllKnow
    <3>2. AllKnow'
      BY <2>4, <2>5, <2>6, <3>1, IdleIsRequest, TakenIsRow DEF AllKnow, Knows
    <3> QED
      BY <3>2, MixesUpByRequest, PTL
  <2> QED
    BY <2>7, <2>8, <2>9, <2>10, <2>11
<1> QED
  BY <1>1, <1>2 DEF Create, dbVars

LEMMA UpdateNameInv ==
  ASSUME IInv, NEW r \in Requests, UpdateName(r)
  PROVE  IInv'
<1> USE DEF IInv
<1> DEFINE i == req[r].id
<1>1. CASE Refuse(r) /\ UNCHANGED dbVars
  BY <1>1, RefuseInv
<1>2. ASSUME i \in Taken, NEW j \in Ids, NEW row \in Updates(rows[i]), ~Clashes(i, j, row),
             rows' = Replaced(i, j, row), issued' = issued \cup {row.token},
             rewritten' = IF j = i /\ row.email = rows[i].email THEN rewritten
                          ELSE rewritten \cup {row.born},
             Tell(r, row)
      PROVE  IInv'
  <2> DEFINE told == [email |-> row.email, token |-> row.token]
  <2>1. /\ i \in Ids /\ row \in Row /\ row.born = rows[i].born /\ row # None
        /\ row.token \in Tokens /\ row.born \in Tokens
    BY <1>2, TakenIsRow, RowIsSome DEF Updates, Row
  <2>2. told \in Account /\ Finish(r, told)
    BY <1>2, <2>1, AccountOfRow DEF Tell
  <2> HIDE DEF i, told
  <2>3. /\ req'[r] = Idle /\ \A s \in Requests : s # r => req'[s] = req[s]
        /\ rows'[j] = row
        /\ Taken' = (Taken \ {i}) \cup {j}
        /\ \A k \in Taken \ {i} : k # j /\ rows'[k] = rows[k]
    BY <1>2, <2>1, <2>2 DEF Finish, TypeOK, Taken, Replaced, Clashes
  <2>4. \A k \in Taken \ {i} : rows[k].email # row.email /\ rows[k].token # row.token
    BY <1>2 DEF Clashes
  <2>5. TypeOK'
    <3>1. rows' \in [Ids -> Row \cup {None}]
      BY <1>2, <2>1 DEF TypeOK, Replaced
    <3>2. issued' \in SUBSET Tokens /\ rewritten' \in SUBSET Tokens
      BY <1>2, <2>1 DEF TypeOK
    <3> QED
      BY <2>2, <3>1, <3>2, IdleIsRequest DEF TypeOK, Finish
  <2>6. SlotInv'
    BY <1>2, <2>3, IdleIsRequest DEF SlotInv, Holding
  <2>7. TokenInv'
    BY <1>2, <2>1, <2>3, IdleIsRequest DEF TokenInv
  <2>8. KeysAreUnique'
    BY <2>3, <2>4 DEF KeysAreUnique
  <2>9. OnlyRewritingMixesUp'
    <3>1. \A s \in Requests : Knows(req[s])
      BY MixesUpByRequest DEF AllKnow
    <3>2. AllKnow'
      <4> SUFFICES ASSUME NEW s \in Requests, s # r, req[s].account # None,
                          req[s].account \notin rewritten'
                   PROVE  Knows(req[s])'
        BY <2>3, IdleIsRequest DEF AllKnow, Knows
      <4>1. PICK k \in Taken : /\ rows[k].born = req[s].account
                               /\ req[s].phase = "rereading" => rows[k].email = req[s].email
                               /\ req[s].phase \in {"me", "naming"} => k = req[s].id
        BY <1>2, <3>1 DEF Knows
      <4>2. CASE k = i
        BY <1>2, <2>1, <2>3, <4>1, <4>2 DEF Knows
      <4>3. CASE k # i
        BY <2>3, <4>1, <4>3 DEF Knows
      <4> QED
        BY <4>2, <4>3
    <3> QED
      BY <3>2, MixesUpByRequest, PTL
  <2> QED
    BY <2>5, <2>6, <2>7, <2>8, <2>9
<1> QED
  BY <1>1, <1>2 DEF UpdateName

LEMMA LookupFailsInv ==
  ASSUME IInv, NEW r \in Requests, LookupFails(r)
  PROVE  IInv'
BY DEF IInv, LookupFails, dbVars, TypeOK, SlotInv, Holding, TokenInv, KeysAreUnique,
       OnlyRewritingMixesUp, Taken

-----------------------------------------------------------------------------
LEMMA InitInv == Init => IInv
<1> SUFFICES ASSUME Init PROVE IInv
  OBVIOUS
<1>1. TypeOK
  BY IdleIsRequest DEF Init, TypeOK
<1>2. SlotInv /\ TokenInv /\ KeysAreUnique /\ OnlyRewritingMixesUp
  BY IdleIsRequest DEF Init, SlotInv, Holding, TokenInv, KeysAreUnique, OnlyRewritingMixesUp,
                       Taken
<1> QED
  BY <1>1, <1>2 DEF IInv

LEMMA NextInv == IInv /\ [Next]_vars => IInv'
<1> SUFFICES ASSUME IInv, [Next]_vars PROVE IInv'
  OBVIOUS
<1>1. CASE UNCHANGED vars
  BY <1>1 DEF vars, IInv, dbVars, TypeOK, SlotInv, Holding, TokenInv, KeysAreUnique,
              OnlyRewritingMixesUp, Taken
<1>2. ASSUME NEW r \in Requests, Proceed(r) PROVE IInv'
  BY <1>2, CreateInv, CompareInv, RereadInv, AuthInv, MeInv, UpdateNameInv DEF Proceed
<1> QED
  BY <1>1, <1>2, OpenInv, LookupFailsInv DEF Next

(* The inductive invariant holds for any number of users and requests, and *)
(* whatever columns the bodies of PATCH /users/me name.                    *)
THEOREM Invariance == Spec => []IInv
BY InitInv, NextInv, PTL DEF Spec

(* Every variable keeps its type; what a client is told has no password. *)
THEOREM TypeCorrect == Spec => []TypeOK
<1>1. IInv => TypeOK
  BY DEF IInv
<1> QED
  BY <1>1, Invariance, PTL

(* An account that login compared, or that the middleware found, is still  *)
(* behind its email or id when the next step uses it, unless an update has *)
(* rewritten that account's id or email.                                   *)
THEOREM FoundUserStays == Spec => []OnlyRewritingMixesUp
<1>1. IInv => OnlyRewritingMixesUp
  BY DEF IInv
<1> QED
  BY <1>1, Invariance, PTL

(* No email and no token belongs to two accounts, although clients rewrite *)
(* both, and every token that is drawn makes one account at most.          *)
THEOREM OneAccountEach == Spec => [](TokenInv /\ KeysAreUnique)
<1>1. IInv => TokenInv /\ KeysAreUnique
  BY DEF IInv
<1> QED
  BY <1>1, Invariance, PTL

(* A row changes, moves or goes only through a request of its own account, *)
(* or of an account that has rewritten its id or email.                    *)
THEOREM NobodyElseWrites == Spec => AccountsChangeThemselves
<1> DEFINE Own == \A i \in Taken : rows[i] # rows'[i] =>
                    \E r \in Requests :
                      /\ req[r].phase = "naming" /\ reply'[r] # None
                      /\ req[r].account \in {rows[i].born} \cup rewritten
<1>1. IInv /\ [Next]_vars => [Own]_vars
  <2> SUFFICES ASSUME IInv, Next PROVE Own
    BY DEF vars
  <2>1. CASE UNCHANGED rows
    BY <2>1
  <2>2. ASSUME NEW r \in Requests, Create(r) PROVE Own
    BY <2>2 DEF IInv, Create, Taken, TypeOK
  <2>3. ASSUME NEW r \in Requests, UpdateName(r), rows' # rows PROVE Own
    <3> DEFINE i == req[r].id
    <3>1. PICK j \in Ids, row \in Updates(rows[i]) :
            i \in Taken /\ ~Clashes(i, j, row) /\ rows' = Replaced(i, j, row) /\ Tell(r, row)
      BY <2>3 DEF UpdateName, dbVars
    <3>2. req[r].phase = "naming"
      BY <2>3 DEF UpdateName
    <3>3. \A k \in Taken \ {i} : rows'[k] = rows[k]
      BY <3>1 DEF Taken, Replaced, Clashes
    <3>4. reply'[r] # None
      <4>1. row \in Row
        BY DEF Updates
      <4> QED
        BY <3>1, <4>1, AccountOfRow, NoneIsNone DEF Tell, Finish, IInv, TypeOK
    <3>5. req[r].account \in {rows[i].born} \cup rewritten
      BY <3>2 DEF IInv, SlotInv, Holding, OnlyRewritingMixesUp
    <3> QED
      BY <3>2, <3>3, <3>4, <3>5
  <2>4. ASSUME NEW r \in Requests,
               Open(r) \/ LookupFails(r) \/ Compare(r) \/ Reread(r) \/ Auth(r) \/ Me(r)
        PROVE  UNCHANGED rows
    BY <2>4 DEF Open, Register, Login, Arrive, LookupFails, Compare, Reread, Auth, Me, dbVars
  <2> HIDE DEF Own
  <2> QED
    BY <2>1, <2>2, <2>3, <2>4 DEF Next, Proceed
<1> QED
  BY <1>1, Invariance, PTL DEF Spec, AccountsChangeThemselves
=============================================================================
