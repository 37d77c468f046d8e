SPECIFICATION Spec
CONSTANTS
  Requests = {r1, r2, r3}
  NoRequest = NoRequest
  Capacity = 3
INVARIANTS
  TypeOK
  NoneLost
  HandedOver
PROPERTY DrainEnds
