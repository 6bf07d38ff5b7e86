SPECIFICATION RevisionSpec
CONSTANTS
  Callers = {c1, c2}
  Digests = {d1, d2}
  NoDigest = NoDigest
  NoCaller = NoCaller
  MaxChanges = 3
  MaxCrashes = 1
SYMMETRY Interchangeable
CHECK_DEADLOCK FALSE
INVARIANTS
  RevisionsSound
  BuildsUndisturbed
  StatusIsSomeones
PROPERTIES
  NoLostEdit
