CONSTANTS
  Clients = {c1}
  Conns = {k1, k2}
  NoConn = NoConn
  NoOne = NoOne
  Publisher = Publisher
  QueueSize = 2
  Window = 1
  MaxSeq = 3
  MaxFaults = 1
  MaxOrphans = 0
  MaxNotes = 0
SPECIFICATION Spec
CHECK_DEADLOCK FALSE
INVARIANTS CaughtUpShowsRetained
