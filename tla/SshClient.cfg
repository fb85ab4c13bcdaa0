SPECIFICATION FairSpec
CONSTANTS
  Procs = {p1, p2, p3}
  None = None
  MaxFaults = 2
  Room = 1
INVARIANTS
  NoneForgotten
PROPERTIES
  KeepsLink
  StopEndsAll
  Reconnects
CHECK_DEADLOCK FALSE
