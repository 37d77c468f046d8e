SPECIFICATION Spec
CONSTANTS
  NSECTORS = 2
  LBS = 1
  Plain = {p1, p2}
  Majors = {0, 8}
  QUEUE_MAX = 2
CHECK_DEADLOCK FALSE
INVARIANTS
  TypeOK
  LeaksKnown
PROPERTIES
  DiskSpec
  Served
