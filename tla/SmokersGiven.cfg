SPECIFICATION GivenSpec
CONSTANTS
  SmokerIds = {0, 1, 2, 3}
  SEM_VALUE_MAX = 2
INVARIANT WokenAsGiven
