SPECIFICATION Spec
CONSTANTS
  Ids = {p1, p2, p3}
  Devices = {d1, d2}
  Accounts = {a1}
  MaxDay = 3
  RequestTtl = 1
  MaxPending = 1
  MaxCases = 2
  MaxSquads = 2
  Cap = 3
  MaxPerPilot = 2
  Probation = 1
  OwnerInactive = 2
  WeekDays = 2
  Target = 1
  Runs = {r1, r2}
  Values = {1, 2}
  Tiers = {1, 2}
  MaxCups = 1
  MaxEntries = 1
  Menus = {{"guests", "friends", "days"}, {"friends", "moderation", "days"}, {"friends", "crowd", "days"},
           {"squads", "two"}, {"squads", "guests", "two"}, {"squads", "roles", "crowd"}, {"squads", "moderation"},
           {"clubs", "roles", "days", "crowd"}, {"clubs", "goals", "scores", "days"},
           {"cups", "days"}, {"cups", "crowd"}, {"cups", "guests"}, {"cups", "scores"},
           {"scores", "rollback", "moderation"}, {"scores", "rollback", "guests"}, {"cases", "moderation"}}
SYMMETRY Symmetric
INVARIANTS NoFriendsAcrossBlocks LinksResolve OwnersMatch GoalCountsItsWeek RunsCountOnce OneTierPerBest
CHECK_DEADLOCK FALSE
