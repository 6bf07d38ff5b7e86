SPECIFICATION FairEdgeSpec
CONSTANTS
  Names = {n1}
  Services = {s1}
  NoService = NoService
  Clients = {main, worker}
  Eager = main
  Requests = {q1}
  PendingCap = 1
  MaxRetries = 1
  MaxRelease = 2
  MaxWire = 1
  MaxFaults = 2
CHECK_DEADLOCK FALSE
INVARIANTS
  StaleRouteIsNoticed
  RoutesSound
  OldResponseIsPurged
PROPERTY
  RoutesConverge
