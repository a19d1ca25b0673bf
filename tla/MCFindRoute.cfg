SPECIFICATION FairSpec
CONSTANTS
  Planes <- SmallAndLarge
  Airports <- Line
  Capacity <- Seats
  MaxPassengers = 5
  Worlds <- AllWorlds
  Cost <- FuelPrice
  Time <- FlightTime
  Table <- ExactTable
  Estimate <- ApproxCost
INVARIANTS
  NoDearerThanBaseline
  PlaneToAsk
  EveryoneIsCarried
  OneMapIsPlanned
PROPERTIES
  Ends
