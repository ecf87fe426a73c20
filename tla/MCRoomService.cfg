CONSTANTS
  Players = {p1, p2, p3}
  Codes = {c1, c2}
  Seeds = {today}
  Capacity = 2
  EmptyTtl = 0
  FinishedTtl = 1
SYMMETRY Symmetry
SPECIFICATION Spec
INVARIANTS SuspendedHoldNoSeat NeverOverfull
PROPERTIES OwnSlotIsHandedBack
