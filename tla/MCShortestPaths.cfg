SPECIFICATION FairSpec
CONSTANTS
  N = 4
  Maps <- MCMaps
INVARIANTS
  CostsAreLeast
  PathIsFlown
  TableIsPrice
  TableIsDistance
PROPERTIES
  CallReturns
