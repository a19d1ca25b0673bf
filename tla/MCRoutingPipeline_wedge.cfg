SPECIFICATION Spec
CONSTANTS
  Ops = {op1, op2}
  NL = NL
  None = None
  Verdicts = {"ok"}
  MayAbort = FALSE
SYMMETRY OpSymmetry
INVARIANTS
  NoLineLeftBehind
CHECK_DEADLOCK FALSE
