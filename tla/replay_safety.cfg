CONSTANTS
  Clients = {c1}
  Conns = {k1, k2}
  NoConn = NoConn
  NoOne = NoOne
  Publisher = Publisher
  QueueSize = 2
  Window = 3
  MaxSeq = 3
  MaxFaults = 1
  MaxOrphans = 1
  MaxNotes = 1
SPECIFICATION Spec
CHECK_DEADLOCK FALSE
SYMMETRY ConnSymmetry
INVARIANTS
  NoDuplicateDelivery GapsAreExplained NoHoles
  ActiveHoldsLatest CaughtUpShowsRetained
PROPERTIES
  ImplementsTimeline
