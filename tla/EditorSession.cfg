SPECIFICATION Spec
CONSTANTS
  Terminals = {t1, t2}
  Away = Away
  None = None
  FeatureSets <- MCFeatureSets
  MaxPending = 2
  Items = 2
  MaxGestures = 3
  MaxPeriods = 2
  MaxPlaces = 1
  MaxPrompts = 1
  MaxLosses = 1
CHECK_DEADLOCK FALSE
INVARIANT TypeOK
INVARIANT ViewIsCurrent
INVARIANT PendingIsOwn
PROPERTY SpokenIsReached
PROPERTY ClipboardOnlyWhereAsked
PROPERTY ReleaseEndsExploration
CONSTRAINT FewDisturbances
