CONSTANTS
  a = a b = b a2 = a2
  Workers = {w1, w2, w3}
  Contents = {a, b, a2}
  Ir <- MCIr
  None = None
  Mixed = Mixed
  Mixes <- UnsavedMixes
  AutoSave = FALSE
SPECIFICATION Spec
SYMMETRY Symmetry
CHECK_DEADLOCK FALSE
INVARIANT DeltaChainLoads
