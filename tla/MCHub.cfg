\* Two viewers of one session, channels of two packets, five worlds.
CONSTANTS
  Fields = {"ball", "paddle"}
  Values = {0, 1, 2, 3}
  HistoryDepth = 3
  SnapshotEvery = 3
  SpeculationDepth = 2
  Viewers = {"left", "scoreboard"}
  ChanDepth = 2
  World <- MCWorld
  MaxTick = 5
  Modes = {"speculative", "confirmedOnly", "bounded"}
SPECIFICATION Spec
CHECK_DEADLOCK FALSE
INVARIANTS
  NextPacketDecodes
  ShowsLastOrOwed
PROPERTIES
  ClosedViewersEnd
  ViewersAreReplicas
