CONSTANTS
  Ports = {p1, p2}
  Conns = {k1, k2}
  None = None
  Capacity = 1
  Buffer = 2
  MaxBytes <- MCMaxBytes
SPECIFICATION Spec
CHECK_DEADLOCK FALSE
INVARIANTS
  PortAgrees
  PermitsAdd
PROPERTIES
  EndAfterData
  ConnectionsEnd
