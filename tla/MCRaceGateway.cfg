CONSTANTS
  Players = {p1, p2}
  Sockets = {k1, k2}
  NumRooms = 2
  Races = {1}
  MaxSeats = 2
SPECIFICATION MCFairSpec
PROPERTIES OnlyMovesLeaveSeatsBehind  AbandonedSeatsAreFreed
CHECK_DEADLOCK FALSE
