CONSTANTS
  Alias = {a1, a2}
  Clients = {c1, c2}
  Pids = {1, 2, 3, 4}
  InitialModel = None
  Ops = {"select", "astart", "astop", "fstop", "cancel", "dir", "decide"}
  Raising = {"select", "astart"}
  Retries = 1
  Main = Main
  Watchdog = Watchdog
  None = None
SPECIFICATION Spec
SYMMETRY Symmetry
INVARIANTS
  StatusIsTrue
  SparesActiveReply
  OperationIsNotACrash
  CancelStopsDownload
  
PROPERTIES
  FailedSwitchKeepsOldModel
