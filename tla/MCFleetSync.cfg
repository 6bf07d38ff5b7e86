SPECIFICATION FleetSpec
CONSTANTS
  home = home
  s1 = s1
  Home = home
  Suitcases <- OneSuitcase
  BatchLimit = 2
  MaxSeq = 2
  MaxFaults = 1
  SameInstant = FALSE
  LocalKinds = {"plain", "data"}
  HomeKinds = {"plain", "data", "request"}
  InitialPolicy = "automatic"
  PolicyChanges = {"manual", "none"}
INVARIANTS
  HomeHoldsPrefix
  CursorLosesNothing
  ProjectionFollowsLogs
  ArtifactsAvailable
  AnswersAreAccepted
PROPERTY ImplementsUplink
CHECK_DEADLOCK FALSE
