\* One editor, three merges of two rounds, three decisions.
CONSTANTS
  NFeatures = 3
  NActions = 2
  Rounds <- MCRounds
  MaxMerges = 3
  MaxClicks = 3
SPECIFICATION LibrarySpec
CHECK_DEADLOCK FALSE
INVARIANTS
  ApprovalIsHuman
  DecisionsKept
