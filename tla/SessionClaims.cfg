CONSTANTS
  t1 = t1
  t2 = t2
  a = a
  b = b
  c = c
  local = local
  work = work
  Terminals = {t1, t2}
  Sessions = {a, b, c}
  Local = local
  Profiles = {work}
  TargetOf <- MCTargetOf
  Home <- MCHome
  MaxPresses = 2
  MaxInventories = 2
  MaxPicks = 1
  None = None
SPECIFICATION Spec
CHECK_DEADLOCK FALSE
CONSTRAINT FewPending
INVARIANTS
  OneConnectionPerSession
PROPERTIES
  KeepsPairing
  BaselinesNeverGoBack
  ConnectsWhereAsked
