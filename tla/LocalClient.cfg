SPECIFICATION FairSpec
CONSTANTS
  Own = Own
  Other = Other
  None = None
  MaxVersion = 2
  MaxBreaks = 1
  MaxControls = 1
  MaxPending = 1
  Room = 1
PROPERTIES
  DeliversOwnInOrder
  KeepsLink
  ShutdownEnds
  Reconnects
CHECK_DEADLOCK FALSE
