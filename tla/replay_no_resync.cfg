CONSTANTS
  Clients = {c1}
  Conns = {k1}
  NoConn = NoConn
  NoOne = NoOne
  Publisher = Publisher
  QueueSize = 2
  Window = 3
  MaxSeq = 2
  MaxFaults = 0
  MaxOrphans = 1
  MaxNotes = 0
SPECIFICATION FairSpec
CHECK_DEADLOCK FALSE
PROPERTIES
  GapsAreResynced
