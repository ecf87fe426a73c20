CONSTANTS
  Players = {p1, p2}
  MaxSeats = 3
  Capacity = 2
  Grace = 1
  Countdown = 0
  MaxRace = 0
  MaxDistance = 1
  Tolerance = 0
  MaxSeq = 1
  MaxGen = 2
SYMMETRY PlayerSymmetry
SPECIFICATION Spec
INVARIANTS TypeOK HostIsFirstConnected OneSeatPerPlayer
PROPERTIES FinishIsFinal GraceIsHonoured
CHECK_DEADLOCK FALSE
