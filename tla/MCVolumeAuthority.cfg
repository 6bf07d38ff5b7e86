SPECIFICATION FairAuthoritySpec
CONSTANTS
  Home = Home
  s1 = s1
  exchange = exchange
  request = request
  pass = pass
  Suitcases <- OneSuitcase
  WorkerSite <- TwoAtHome
  MaxTransfers = 2
  MaxCaptures = 1
  MaxWrites = 1
  MaxSetbacks = 1
CHECK_DEADLOCK FALSE
INVARIANTS
  AuthoritySound
  EventsAccepted
  
PROPERTIES
  TransfersSettle
