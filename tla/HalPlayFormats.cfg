SPECIFICATION FairSpec
CONSTANTS
  p1 = p1
  p2 = p2
  p3 = p3
  sbc = sbc
  aac = aac
  gone = gone
  t1 = t1
  t2 = t2
  Paths <- TwoPaths
  Playable <- OnePath
  Formats <- TwoFormats
  Threads <- TwoThreads
  Gone = gone
  Chunk = 4
  MaxEvents = 2
INVARIANTS
  ThreadsGoOn
PROPERTIES
  JoinsReturn
  RemovalTakesEffect
CHECK_DEADLOCK FALSE
