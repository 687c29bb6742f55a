SPECIFICATION FairSpec
CONSTANTS
  app1 = app1
  app2 = app2
  dbus = dbus
  Threads <- ThreeThreads
  Dispatcher = dbus
  MaxCalls = 2
  MaxStops = 2
INVARIANTS
  WritesReachOpenHandle
  LeaksAreBounded
PROPERTY CallsReturn
CHECK_DEADLOCK FALSE
