CONSTANTS
  r1 = r1
  r2 = r2
  r3 = r3
  Requests = {r1, r2}
  NSlots = 2
  Mixes <- TwoRequests
  MaxGen = 1
  NoTask = NoTask
SPECIFICATION FairSpec
CHECK_DEADLOCK FALSE
INVARIANTS
  OnePlace
  AnsweredOnce
  NoOrphanResult
PROPERTIES
  WorkEnds
