CONSTANTS
  N = 3
  Seqs = {s1, s2}
  Windows = {0, 2}
  NUbatch = 2
  MaxBatch = 3
  MaxPos = 3
  MaxShift = 1
  Shifts <- MCShifts
  Divisors = {2}
  Ranges <- MCRanges
SPECIFICATION Spec
SYMMETRY Symmetry
CHECK_DEADLOCK FALSE
INVARIANTS
  Consistent
  KeysFollow
  Sees
  PrepareRestores
