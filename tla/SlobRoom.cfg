SPECIFICATION StatSpec
CONSTANTS
  PAGE_UNITS = 4
  Frames = {f1, f2}
  NoFrame = NoFrame
  Threads = {t1}
  KmallocSizes = {}
  Caches <- FitCaches
  SLOB_BREAK1 = 5
  SLOB_BREAK2 = 7
  KMALLOC_ALIGN = 2
  RCU_SIZE = 2
  ScanLimit = 50
  ULONG = 64
  SMP = FALSE
PROPERTY RoomFound
