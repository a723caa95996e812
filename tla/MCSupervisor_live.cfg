CONSTANTS
  Alias = {a1}
  Clients = {c1}
  Pids = {1, 2, 3}
  InitialModel = a1
  Ops = {"select", "astart", "astop", "vision", "watch"}
  Raising = {"select", "astart", "vision", "watch", "main"}
  Retries = 1
  Main = Main
  Watchdog = Watchdog
  None = None
SPECIFICATION FairSpec
INVARIANTS
  OnlyProcLives
  NoModelAfterShutdown
PROPERTIES
  LockIsReleased
  ShutdownCompletes
  CrashIsHandled
