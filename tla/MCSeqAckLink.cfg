\* The ack layer across the wraparound of an 8-number sequence space.
CONSTANTS
  HalfSeq = 4
  AckBits = 2
  InflightWindow = 3
  End = {"server", "client"}
  Policies <- MCPolicies
  AckDeadline = 1
  MaxSent <- MCMaxSent
  MaxLag = 3
  MaxTime = 1
SPECIFICATION Spec
VIEW MCView
CHECK_DEADLOCK FALSE
INVARIANTS
  TypeOK
  AckedWasReceived
  RecordIsExact
  DeliversFresh
