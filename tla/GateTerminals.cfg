SPECIFICATION Spec
CONSTANTS
  t1 = t1
  t2 = t2
  None = None
  Terminals <- MCTerminals
  MaxInstances = 1
  r1 = r1
  r2 = r2
  ReqIds <- MCReqIds
  Retries = 1
  MaxQueue = 2
  MaxCalls = 1
  Tty = {FALSE}
  Hazards = {"silentRefocus", "transportLoss", "editorLoss", "frontendFailure", "closedTerminal"}
SYMMETRY Symmetry
INVARIANTS
  TrackingOfLive
  OffMeansOff
  LostIsForgotten
PROPERTIES
  OpensForSelected
  ReopensOnAnswer
