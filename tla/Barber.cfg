SPECIFICATION Spec
CONSTANTS
  Customers = {c1, c2, c3}
  SEATS = 2
  BELOW_ZERO = 2
CHECK_DEADLOCK FALSE
PROPERTY BarberServes
