SPECIFICATION Spec
CONSTANTS
  Requests = {r1, r2}
  Ids = {u1, u2}
  Tokens = {t1, t2, t3}
  Emails = {ana, bob}
  Names = {n1, n2}
  Secrets = {pw, other}
  Unhashed = Unhashed
  None = None
SYMMETRY Symmetry
INVARIANTS
  OnlyRewritingMixesUp
PROPERTIES
  AccountsChangeThemselves
CHECK_DEADLOCK FALSE
