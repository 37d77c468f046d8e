SPECIFICATION Spec
CONSTANTS
  N = 4
  MEALS = 3
INVARIANTS
  TypeOK
  NeighboursApart
  ForksExact
  NotStuck
PROPERTY AllEat
CHECK_DEADLOCK FALSE
