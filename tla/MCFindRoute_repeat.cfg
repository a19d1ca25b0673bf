SPECIFICATION Spec
CONSTANTS
  Planes <- SmallAndLarge
  Airports <- Line
  Capacity <- Seats
  MaxPassengers = 5
  Worlds <- TwoOfAKind
  Cost <- FuelPrice
  Time <- FlightTime
  Table <- ExactTable
  Estimate <- ApproxCost
INVARIANTS
  EveryoneIsCarried
