CONSTANTS
  Keys = {k1, k2}
  Callers = {c1}
  MaxActive = 1
  MaxWorkers = 3
  NoKey = NoKey
SPECIFICATION Spec
SYMMETRY Symmetry
INVARIANTS
  CancelReachesWorker
