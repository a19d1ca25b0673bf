SPECIFICATION Spec
CONSTANTS
  Users = {ana, bob}
  Orgs = {org1, org2}
  Tokens = {t1, t2}
  Requests = {r1, r2}
  MaxDay = 1
  None = None
INVARIANTS
  CallerStaysMember
  OneLiveInvite
PROPERTIES
  OkSpendsInvite
  ImplementsLedger
CHECK_DEADLOCK FALSE
