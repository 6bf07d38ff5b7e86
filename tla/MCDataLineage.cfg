SPECIFICATION FairDataSpec
CONSTANTS
  Home = Home
  s1 = s1
  Suitcases <- OneSuitcase
  Keys = {"avatar", "notes"}
  Files = {"avatar", "notes"}
  ConflictPolicy = "collect"
  MaxWrites = 2
  MaxSelections = 2
  MaxFaults = 1
CHECK_DEADLOCK FALSE
INVARIANTS
  KeptWhenUndisturbed
  CheckpointsSound
  MarkerTellsTruth
PROPERTIES
  ChangesetsSettle
