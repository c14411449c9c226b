CONSTANTS
  first = first
  second = second
  Replies = {first, second}
  Segments = 2
  Chunks = 1
  Attempts = 2
  Pool = 3
  Nobody = Nobody
  MaxFaults = 2
SPECIFICATION FairSpec
CHECK_DEADLOCK FALSE
INVARIANTS
  PublishedIsReply
  LostThreadsArePaidFor
PROPERTIES
  SpeechEnds
