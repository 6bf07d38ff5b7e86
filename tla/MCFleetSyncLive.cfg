SPECIFICATION FairFleetSpec
CONSTANTS
  home = home
  s1 = s1
  Home = home
  Suitcases <- OneSuitcase
  BatchLimit = 1
  MaxSeq = 2
  MaxFaults = 1
  SameInstant = FALSE
  LocalKinds = {"plain"}
  HomeKinds = {"data", "request"}
  InitialPolicy = "manual"
  PolicyChanges = {"none"}
PROPERTIES
  HomeEventsArrive
  ImplementsFairUplink
  RequestsAnswered
CHECK_DEADLOCK FALSE
