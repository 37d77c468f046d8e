SPECIFICATION Spec
CONSTANTS
  Inserters = {i1, i2}
  Searchers = {s1}
  Deleters = {d1, d2}
  Nodes = {n1, n2, n3}
  NULL = NULL
  Values = {1, 2}
SYMMETRY Symmetry
CHECK_DEADLOCK FALSE
INVARIANTS
  TypeOK
  Intact
  Exclusion
  NotStuck
