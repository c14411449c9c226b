CONSTANTS
  trust = trust
  habit = habit
  reflections = reflections
  persona = persona
  Files = {reflections, persona}
  Entries = {trust, habit}
  FileOf <- MCFileOf
  Gone = Gone
  MaxRescans = 1
  MaxEvents = 3
  MaxCrashes = 2
  MaxFaults = 1
SPECIFICATION Spec
CHECK_DEADLOCK FALSE
INVARIANTS
  ViewFollowsJournal
  StartupOrderSuffices
PROPERTIES
  ReplayNeverRegresses
  SentinelMovesForward
