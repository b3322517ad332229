CONSTANTS
  a = a b = b a2 = a2
  Workers = {w1, w2}
  Contents = {a, b, a2}
  Ir <- MCIr
  None = None
  Mixed = Mixed
  Mixes <- ReadingMixes
  AutoSave = TRUE
SPECIFICATION Spec
SYMMETRY Symmetry
CHECK_DEADLOCK FALSE
PROPERTY VersionsAdvance
