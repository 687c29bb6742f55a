SPECIFICATION FairReaders
CONSTANTS
  p1 = p1
  p2 = p2
  p3 = p3
  none = none
  torn = torn
  Torn = torn
  app = app
  Paths <- TwoPaths
  NoPath = none
  Volumes = {0}
  InitSlots = 1
  Stray = {"keep"}
  MaxEvents = 2
  Readers <- OneReader
  MaxReads = 1
INVARIANTS
  ReadersSeeRealDevices
  OverrunNeedsArrival
  BlankNeedsDeparture
PROPERTIES
  ImplementsRegistry
  EventuallyReported
CHECK_DEADLOCK FALSE
