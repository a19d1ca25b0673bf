SPECIFICATION MapFairSpec
CONSTANTS
  Airports <- Fields
  Worlds <- MCWorlds
INVARIANTS
  MapTypeOK
  AirwaysAreDistinct
  CheapestAreLinked
  NothingLeftToRepair
PROPERTIES
  MapIsDrawn
