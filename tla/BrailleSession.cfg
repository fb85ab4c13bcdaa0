SPECIFICATION Spec
CONSTANTS
  None = None
  Buffers = {b1, b2}
  FirstBuffer = b1
  Lines = 3
  Settings = {{}, {"word"}, {"word", "line"}}
  MaxPresses = 3
  MaxChanges = 2
  MaxPeriods = 2
  MaxLosses = 1
CHECK_DEADLOCK FALSE
INVARIANT TypeOK
INVARIANT SnapshotIsCurrent
INVARIANT AnswersAsPlanned
PROPERTY OneActionPerBurst
PROPERTY PlannedTextIsHit
PROPERTY NoActionAfterLeaving
CONSTRAINT FewDisturbances
