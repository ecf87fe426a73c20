CONSTANTS
  Players = {p1, p2}
  MaxSeats = 3
  Capacity = 2
  Grace = 0
  Countdown = 1
  MaxRace = 1
  MaxDistance = 0
  Tolerance = 0
  MaxSeq = 0
  MaxGen = 1
SPECIFICATION FairSpec
INVARIANTS PlacesUnique ResultsAreAwarded ResultsInPlaceOrder
PROPERTIES ImplementsRoom SessionsEnd
CHECK_DEADLOCK FALSE
