SPECIFICATION FairSpec
CONSTANT
  MaxEvents = 4
INVARIANTS
  TypeOK
  FirstAcceptedIsFull
  ResyncUnderWay
PROPERTIES
  ResyncEnds
CHECK_DEADLOCK FALSE
