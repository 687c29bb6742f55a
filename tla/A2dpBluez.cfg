SPECIFICATION Spec
CONSTANTS
  t1 = t1
  t2 = t2
  c1 = c1
  c2 = c2
  NoObj = noobj
  Torn = torn
  Transports <- TwoTransports
  Callers <- TwoCallers
  Volumes = {5, 125}
  MaxEvents = 4
SYMMETRY Symmetry
INVARIANTS
  TransportIsLive
  TransportIsKnown
PROPERTIES
  OnlyBlindCommandsCrash
  NoVolumeJump
CHECK_DEADLOCK FALSE
