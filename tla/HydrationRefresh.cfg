CONSTANTS
  Workers = {w1, w2}
  Files = {f1, f2}
  Contents = {x, quiet}
  Mentions = {x}
  Absent = Absent
  None = None
  Mixes <- RefreshMixes
SPECIFICATION Spec
SYMMETRY Symmetry
CHECK_DEADLOCK FALSE
INVARIANTS HydratedWhenComplete
