SPECIFICATION Spec
CONSTANTS
  MaxDay = 3
  WeekDays = 2
  VipDays = 1
  NestCap = 1
  PrestigeNeed = 1
  MissionDefs = 1
  MaxKinds = 2
  MaxRefusals = 1
  MaxClaims = 4
INVARIANTS PaidOnce NothingIsLost
CHECK_DEADLOCK FALSE
