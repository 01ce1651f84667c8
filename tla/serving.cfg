SPECIFICATION ServingSpec
CONSTANTS
  starter = starter
  updater = updater
  dimr = dimr
  poller = poller
  a = a
  b = b
  both = both
  onlyA = onlyA
  onlyB = onlyB
  faulty = faulty
  broken = broken
  nil = nil
  Callers = {starter}
  Starter = starter
  Updater = updater
  Dim = dimr
  Poller = poller
  Dimensions <- MCDimensions
  Exports <- AllExports
  Malformed <- MCMalformed
  DimsOf <- MCDimsOf
  FaultyIn <- MCFaultyIn
  None = nil
  Asked <- MCAsked
  HasPage <- MCHasPage
  HasRoot <- MCHasRoot
  IsAlias <- MCIsAlias
  Blank <- NoExports
  Poll = FALSE
  Events <- Crashes
INVARIANTS
  CurrentLoadable
  RestoredWorld
  StaysKnown
  DiesOnlyOnRemoval
  QuietAnswers
  RepoSurvives
  ReaderTypeOK
PROPERTIES
  Publishes
