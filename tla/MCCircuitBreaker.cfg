CONSTANTS
  Requests = {r1, r2, r3}
  Threshold = 3
  Window = 2
  Cooldown = 1
  MaxCooldown = 5
SPECIFICATION BreakerFairSpec
PROPERTIES TripsAreEarned BreakerHeals
