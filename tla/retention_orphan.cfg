CONSTANTS
  visitor = visitor
  tab1 = tab1
  tab2 = tab2
  ask = ask
  None = None
  Visitors = {visitor}
  Connections = {tab1, tab2}
  OwnerOf <- MCOwnerOf
  Requests = {ask}
  MaxMessages = 1
  MaxCrashes = 1
SPECIFICATION Spec
INVARIANTS
  NoOrphanedMemory
