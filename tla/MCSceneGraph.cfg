SPECIFICATION FairSpec
CONSTANTS
  a = a
  b = b
  Labels = {a, b}
  Files = {"there", "back"}
  Graph <- MCGraph
  Spots <- MCSpots
  MaxNodes = 2
  MaxArrays = 3
  MaxRemovals = 2
  Off = Off
  None = None
INVARIANTS
  PartnersBend
  EdgesJoinNodes
  PaintedUnlessMarked
PROPERTIES
  LoadIsShown
CHECK_DEADLOCK FALSE
