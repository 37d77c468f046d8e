SPECIFICATION StatSpec
CONSTANTS
  PAGE_UNITS = 4
  Frames = {f1, f2}
  NoFrame = NoFrame
  Threads = {t1, t2}
  KmallocSizes <- MCKmallocSizes
  Caches <- MCCaches
  SLOB_BREAK1 = 3
  SLOB_BREAK2 = 5
  KMALLOC_ALIGN = 2
  RCU_SIZE = 2
  ScanLimit = 50
  ULONG = 64
  SMP = FALSE
SYMMETRY Symmetry
INVARIANTS
  TypeOK
  BlocksApart
  NoEmptyPage
  ListsExact
  NoBug
  PagesCounted
PROPERTIES
  FreeExact
  UsedExact
