CONSTANTS
  Messages = {m1, m2}
  Admins = {a1}
  NoMessage = NoMessage
  MaxCommands = 2
  MaxFaults = 1
  MaxStops = 0
SPECIFICATION FairSpec
CHECK_DEADLOCK FALSE
PROPERTIES TurnsEnd CandidatesAreTaken
