SPECIFICATION Spec
CONSTANTS
  starter = starter
  other = other
  third = third
  updater = updater
  dimr = dimr
  poller = poller
  a = a
  b = b
  both = both
  onlyA = onlyA
  onlyB = onlyB
  faulty = faulty
  broken = broken
  nil = nil
  Callers = {starter, other}
  Starter = starter
  Updater = updater
  Dim = dimr
  Poller = poller
  Dimensions <- MCDimensions
  Exports <- BadOnes
  Malformed <- MCMalformed
  DimsOf <- MCDimsOf
  FaultyIn <- MCFaultyIn
  None = nil
  Poll = TRUE
  Events <- Faults
INVARIANTS
  TypeOK
  VerdictIsOwn
  OnlyValidTrees
  NoNilBuffer
PROPERTIES
  VersionNeedsCleanLoad
