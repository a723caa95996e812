CONSTANTS
  Sups = {s1, s2}
  Guards = {g1, g2}
  None = None
SPECIFICATION FairSpec
CHECK_DEADLOCK FALSE
INVARIANTS
  SoleSupervisor
  OneModel
PROPERTIES
  SessionEnds
