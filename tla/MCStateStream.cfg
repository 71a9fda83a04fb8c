\* The state stream in every baseline mode, over a lossy and reordering link.
CONSTANTS
  HalfSeq = 16
  AckBits = 2
  InflightWindow = 3
  Fields = {"ball", "paddle"}
  Values = {0, 1, 2, 3}
  HistoryDepth = 3
  SnapshotEvery = 4
  SpeculationDepth = 2
  World <- MCWorld
  MaxTick = 6
  Modes = {"speculative", "confirmedOnly", "bounded"}
  Clients <- MCClients
SPECIFICATION Spec
CHECK_DEADLOCK FALSE
INVARIANTS
  Reconstruction
  ConfirmedOnlyDecodes
  NoWedge
PROPERTY StreamIsReplica
