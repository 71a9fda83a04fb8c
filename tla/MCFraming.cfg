\* Three messages of one to six chunks; an end whose limits refuse some of them
\* at once and some of them part-way.
CONSTANTS
  ChunkSize = 2
  MaxMessageSize = 11
  RecvChunkSize = 1
  RecvMaxSize = 3
  MaxPending = 2
  MaxChunks = 5
  MsgIds = 8
  HalfWord = 16
  RelQCap = 2
  InboxCap = 1
  Sizes = {0, 3, 5, 9, 11}
  MaxSends = 3
SPECIFICATION Spec
CHECK_DEADLOCK FALSE
INVARIANTS
  DeliveredWhole
  DeliveredInOrder
  PlacesAccounted
PROPERTIES
  WholeSendsArrive
