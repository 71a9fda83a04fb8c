\* Both loops of a two-slot session, both intake policies.
CONSTANTS
  Slots = {1, 2}
  Actions <- Cells
  Legal <- MCLegal
  Acting <- MCActing
  Finished <- MCFinished
  RetryBudget = 1
  InboxCap = 2
  RejectionThreshold = 2
  SendEvery = 2
  Pacings = {"step", "realtime"}
  Intakes = {"newest", "all"}
  MaxSubmit = 3
SPECIFICATION RecordedSpec
CHECK_DEADLOCK FALSE
INVARIANTS
  InputsAccounted
  InputsInOrder
  EndedOnce
  EndedOnFinalPosition
  SuspectedOnce
  ReplayReproduces
PROPERTY HostReturns
