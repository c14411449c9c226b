CONSTANTS
  turn = turn
  locale = locale
  Ops = {turn, locale}
  Locale = {locale}
  MaxAttempts = 2
  Slots = 1
  MaxCrashes = 3
  MaxFaults = 2
SPECIFICATION FairSpec
CHECK_DEADLOCK FALSE
INVARIANTS
  AcceptedIsKept
  DeadLettersAreDocumented
  GivenUpIsClosed
PROPERTIES
  NoRunAfterGivenUp
  WaitingIsServed
