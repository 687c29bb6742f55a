SPECIFICATION Spec
CONSTANTS
  p1 = p1
  p2 = p2
  p3 = p3
  sbc = sbc
  aac = aac
  gone = gone
  t1 = t1
  t2 = t2
  Paths <- TwoPaths
  Playable <- TwoPaths
  Formats <- OneFormat
  Threads <- TwoThreads
  Gone = gone
  Chunk = 4
  MaxEvents = 3
SYMMETRY Symmetric
INVARIANTS
  PointersAreCurrent
  CrashesAreKnown
  NoStaleWorker
  WorkersAreRunning
PROPERTIES
  ImplementsSpeaker
CHECK_DEADLOCK FALSE
