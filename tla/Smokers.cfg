SPECIFICATION Spec
CONSTANTS
  SmokerIds = {0, 1, 2, 3}
  SEM_VALUE_MAX = 1
INVARIANTS
  TypeOK
  TableOne
  RoundKept
PROPERTY
  AgentsGoOn
