SPECIFICATION Spec
CONSTANTS
  Inserters = {i1}
  Searchers = {s1}
  Deleters = {d1, d2}
  Nodes = {n1, n2, n3}
  NULL = NULL
  Values = {1, 2}
CHECK_DEADLOCK FALSE
PROPERTY DeletesOne
