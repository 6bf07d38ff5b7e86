SPECIFICATION CoreSpec
CONSTANTS
  Commands <- OneSlot
  CommandKinds = {"sync", "away", "docked", "candidate"}
  Pids = {1, 2, 3}
  PidReuse = TRUE
  SaveWindow = TRUE
  AwayAfter = 2
  MaxLog = 1
  MaxCommands = 2
  MaxCrashes = 1
  MaxFlips = 1
INVARIANT OutboxFollowsAck
CHECK_DEADLOCK FALSE
