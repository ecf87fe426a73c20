CONSTANTS
  Codes = {c1}
  Seeds = {today}
  MinCapacity = 2
  Capacity = 2
  MaxRooms = 1
  MaxSeats = 1
  Sockets = {k1, k2}
  MaxGen = 2
SPECIFICATION Spec
PROPERTIES LateCloseSparesSeat
CHECK_DEADLOCK FALSE
