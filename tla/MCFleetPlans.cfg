SPECIFICATION Spec
CONSTANTS
  longfield = longfield
  jet = jet
  Orgs = {org1, org2, org3}
  Requests = {r1, r2}
  PlaneIds = {p1}
  Airports = {longfield, grass}
  Models = {jet}
  LongEnough <- MCLongEnough
  Ops = {op1}
  Verdicts = {"ok", "unroutable"}
  Elsewhere = Elsewhere
  Unlisted = Unlisted
  None = None
SYMMETRY Symmetry
INVARIANTS
  OnlyUpdatesMisplace
  PlansAreKept
PROPERTIES
  OwnPlanesOnly
CHECK_DEADLOCK FALSE
