SPECIFICATION FairSpec
CONSTANTS
  Ops = {op1, op2, op3}
  NL = NL
  None = None
  Verdicts = {"ok", "runtime"}
  MayAbort = TRUE
INVARIANTS
  AnswerOnItsWay
  ResultsBeforeNotice
  StreamOfLines
  DirectoryOutlivesThread
PROPERTIES
  EveryRequestSettles
  ImplementsRouteJobs
CHECK_DEADLOCK FALSE
