SPECIFICATION Spec
CONSTANTS
  BUF = 3
  Items = {1, 2}
INVARIANT
  ConsumedRemoved
