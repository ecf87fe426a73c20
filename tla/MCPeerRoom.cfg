SPECIFICATION FairSpec
CONSTANTS
  Peers = {1, 2, 3}
  None = None
  Scopes = {{"third", "finish", "lead", "stale"}, {"third", "ready", "leave", "lead"}, {"finish", "again", "greet", "leave", "lead", "break", "stale"}, {"ready", "greet", "late", "leave", "lead", "break", "stale"}, {"finish", "early", "late", "ready", "lead"}}
  MaxFaults = 1
  MaxToggles = 1
  MaxChan = 2
INVARIANTS PlacesOfOneLeader RostersAgree
PROPERTIES BarrierOpens GreetingsEnd
CHECK_DEADLOCK FALSE
