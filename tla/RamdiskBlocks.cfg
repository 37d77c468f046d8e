SPECIFICATION TextSpec
CONSTANTS
  NSECTORS = 4
  LBS = 2
  Plain = {p1, p2}
  Majors = {0}
  QUEUE_MAX = 1
CHECK_DEADLOCK FALSE
INVARIANT ReadsBack
