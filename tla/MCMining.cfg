\* Every corpus of four records over three features and two actions.
CONSTANTS
  NFeatures = 3
  NActions = 2
  Records = {"r1", "r2", "r3", "r4"}
  MinCovs = {1, 2}
  MaxRules = 2
  MaxProposals = 2
SPECIFICATION MiningSpec
CHECK_DEADLOCK FALSE
INVARIANTS
  ClaimsHold
  SubsetKeepsCoverage
  RoundIsDistinct
