SPECIFICATION FairSpec
CONSTANTS
  Requests = {r1, r2}
  Users = {ana}
  Pages <- MCPages
  ParamOf <- MCParamOf
  Paths <- MCPaths
  None = None
INVARIANTS
  OwnNamesWin
  PageIsOwn
PROPERTIES
  EveryRequestIsAnswered
CHECK_DEADLOCK FALSE
