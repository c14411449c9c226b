CONSTANTS
  ann = ann
  ben = ben
  cat = cat
  Visitors = {ann, ben, cat}
  Room = Room
  Nobody = Nobody
  Remembered = 1
  AgeLimit = 2
  Penalty = 1
  MentionBonus = 4
  PromptMalus = 8
  MaxQueue = 3
SPECIFICATION FairSpec
CHECK_DEADLOCK FALSE
INVARIANTS
  FewArePassed
PROPERTIES
  ClassesKeepTheirOrder
  VisitorsAreAnswered
