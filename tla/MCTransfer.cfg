CONSTANTS
  Chunks = {c1, c2}
  Versions = {v1, v2, w1, w2}
  Weak = {w1, w2}
  Threads = 2
  Ranged = {TRUE, FALSE}
  None = None
  Hole = Hole
  Torn = Torn
SPECIFICATION FairSpec
INVARIANTS
  TrustedIsOnDisk
PROPERTIES
  PublishedIsDurable
  WorkIsKept
  IsAtomic
  ResumeCompletes
