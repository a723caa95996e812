CONSTANTS
  Requests = {r1, r2, m1}
  Metrics = {m1}
  Main = Main
  Worker = Worker
  NoEntry = NoEntry
SPECIFICATION FairSpec
CHECK_DEADLOCK FALSE
INVARIANTS
  OneHandler
  OrderIsKept
PROPERTIES
  Answered
