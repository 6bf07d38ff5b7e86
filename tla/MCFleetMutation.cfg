SPECIFICATION FairMutationSpec
CONSTANTS
  Apps = {a1, a2}
  Suitcases = {s1, s2}
  Mutations = {delete}
  MaxTokens = 2
  MaxRequests = 2
  MaxData = 1
  MaxFaults = 1
CHECK_DEADLOCK FALSE
INVARIANTS
  EveryReplicaAgreed
  RequestsSound
PROPERTIES
  GateOpens
