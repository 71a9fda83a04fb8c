\* A connection declared silent that speaks again.
CONSTANTS
  Conn = {c1, c2}
  Tickets = {"red", "ghost", "watch"}
  Spectators = {"watch"}
  Seated = {"red"}
  MaxConnections = 2
  AbuseThreshold = 2
  InputsPerTick = 1
  SilenceDeadline = 1
  MaxTime = 3
SPECIFICATION Spec
CHECK_DEADLOCK FALSE
INVARIANT SeatHandedOver
