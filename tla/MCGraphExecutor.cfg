SPECIFICATION FairGraphSpec
CONSTANTS
  Order <- DatabaseThenWeb
  Exclusive = {"database"}
  Releases = {r1, r2}
  NoRelease = NoRelease
  MaxInstances = 3
  MaxFaults = 1
CHECK_DEADLOCK FALSE
INVARIANTS
  
  TrafficSound
PROPERTIES
  
  ConvergeEnds
