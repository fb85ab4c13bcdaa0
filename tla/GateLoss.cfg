SPECIFICATION Spec
CONSTANTS
  t1 = t1
  t2 = t2
  None = None
  Terminals <- MCTerminals1
  MaxInstances = 1
  r1 = r1
  r2 = r2
  ReqIds <- MCReqIds
  Retries = 0
  MaxQueue = 2
  MaxCalls = 1
  Tty = {FALSE}
  Hazards = {"transportLoss"}
SYMMETRY Symmetry1
INVARIANTS
  LossFailsOpen
