CONSTANTS
  Messages = {m1, m2}
  Admins = {a1, a2}
  NoMessage = NoMessage
  MaxCommands = 3
  MaxFaults = 1
  MaxStops = 1
SPECIFICATION Spec
CHECK_DEADLOCK FALSE
SYMMETRY TurnSymmetry
INVARIANTS
  OneTurnAtATime AdminsLoseNoReply CompletedHasReply
  PausedIsQuiet StaleActiveHasNoText TakenHasTurn
PROPERTIES
  StatusIsFinal
  ImplementsQueue
