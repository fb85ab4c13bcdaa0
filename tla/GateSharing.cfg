SPECIFICATION Spec
CONSTANTS
  t1 = t1
  t2 = t2
  None = None
  Terminals <- MCTerminals
  MaxInstances = 2
  r1 = r1
  r2 = r2
  ReqIds <- MCReqIds
  Retries = 0
  MaxQueue = 1
  MaxCalls = 1
  Tty = {FALSE, TRUE}
  Hazards = {"closedTerminal"}
SYMMETRY Symmetry
INVARIANTS
  SuppressionRouted
  TerminalInputFailsOpen
  NoForeignPending
PROPERTIES
  KeepsContract
  KeepsPairing
CONSTRAINT FewCalls
