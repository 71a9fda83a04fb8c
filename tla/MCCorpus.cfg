SPECIFICATION CorpusSpec
CONSTANTS
  w = w
  batch = batch
  Windows <- MCWindows
  Batch = batch
  Canonical <- MCCanonical
  CheckpointEvery <- MCEvery
  MaxIndex = 1
  MaxMatches = 3
  MaxTicks <- MCTicks
  Losing = {1}
  BatchMatches = 2
INVARIANTS
  ReplayableIsOneMatch
  RecordIsPrefix
PROPERTIES
  FinishedStays
CHECK_DEADLOCK FALSE
