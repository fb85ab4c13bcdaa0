SPECIFICATION Spec
CONSTANTS
  t1 = t1
  t2 = t2
  c1 = c1
  c2 = c2
  None = None
  Main = Main
  Terminals <- MCTerminals
  Transports <- MCTransports
SYMMETRY Symmetry
INVARIANTS
  DisconnectWins
