SPECIFICATION FairSpec
CONSTANTS
  Tiers = {"free", "gold"}
  Players <- MCPlayers
  WindCap <- MCWindCap
  MaxBreaks = 1
  MaxWinds = 1
  MaxEpoch = 2
INVARIANTS WebWindsAreCapped
PROPERTIES FlightsAreBookedOnce BreaksEnd SearchesResolve
CHECK_DEADLOCK FALSE
