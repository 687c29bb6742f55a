SPECIFICATION Spec
CONSTANTS
  p1 = p1
  p2 = p2
  p3 = p3
  none = none
  Paths <- TwoPaths
  NoPath = none
  Volumes = {0, 1}
  InitSlots = 2
  Stray = {"keep", "set", "clear"}
  MaxEvents = 4
SYMMETRY Symmetry2
INVARIANTS
  ExportedIsReported
  ReportedIsExported
  RunningTracksOwner
  CallbacksAreAccurate
PROPERTY CallbacksAlternate
CHECK_DEADLOCK FALSE
