SPECIFICATION FairCoreSpec
CONSTANTS
  Commands <- OneSlot
  CommandKinds = {"sync", "docked", "away"}
  Pids = {1, 2, 3}
  PidReuse = FALSE
  SaveWindow = FALSE
  AwayAfter = 2
  MaxLog = 1
  MaxCommands = 2
  MaxCrashes = 0
  MaxFlips = 3
INVARIANTS
  CoreSound
PROPERTIES
  LogReachesHome
  ModeFollowsHome
CHECK_DEADLOCK FALSE
