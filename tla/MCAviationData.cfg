SPECIFICATION DataFairSpec
CONSTANTS
  jfk = jfk
  lga = lga
  town = town
  Ids = {jfk, lga}
  Cities = {town}
  Prices = {0, 1, 2}
  Contents <- MCContents
  Waiters = {r1, r2}
  Programs <- MCPrograms
  Nothing = Nothing
INVARIANTS
  DataTypeOK
  PublishedIsExpected
PROPERTIES
  WaitersSettle
CHECK_DEADLOCK FALSE
