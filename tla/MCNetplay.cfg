\* More connections than places, a spectator, a seat that does not exist.
CONSTANTS
  Conn = {c1, c2, c3}
  Tickets = {"red", "ghost", "watch"}
  Spectators = {"watch"}
  Seated = {"red"}
  MaxConnections = 2
  AbuseThreshold = 1
  InputsPerTick = 1
  SilenceDeadline = 1
  MaxTime = 2
SPECIFICATION Spec
CHECK_DEADLOCK FALSE
INVARIANTS
  CapacityHeld
  TicketOnce
  BooksAgree
  InputRate
PROPERTY LossIsReported
