CONSTANTS
  Codes = {c1, c2}
  Seeds = {today, daily}
  MinCapacity = 2
  Capacity = 2
  MaxRooms = 2
  MaxSeats = 3
  Sockets = {k1, k2, k3}
  MaxGen = 3
SYMMETRY Symmetry
SPECIFICATION Spec
INVARIANTS CodesMatchRooms HostIsLongestSeated SeatsHaveSockets
PROPERTY UsedTokensStayShut
CHECK_DEADLOCK FALSE
