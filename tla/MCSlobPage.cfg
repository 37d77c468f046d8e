SPECIFICATION Spec
CONSTANTS
  PAGE_UNITS = 6
  Requests <- MCRequests
INVARIANTS
  TypeOK
  UnitsExact
  FreeListExact
PROPERTIES
  WalkEnds
  PageSpec
