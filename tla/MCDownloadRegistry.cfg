CONSTANTS
  Keys = {k1, k2}
  Callers = {c1}
  MaxActive = 1
  MaxWorkers = 2
  NoKey = NoKey
SPECIFICATION FairSpec
INVARIANTS
  SlotLimit
PROPERTIES
  WorkersAreShown
  DownloadsProceed
