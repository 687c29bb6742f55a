SPECIFICATION Spec
CONSTANTS
  gst1 = gst1
  gst2 = gst2
  other = other
  Tool = tool
  None = none
  Stale = stale
  Procs <- Processes
  Gst <- GstLaunch
  MaxEvents = 1
INVARIANTS
  ReadyIsReady
  EncoderIsReset
  NoPipelineLeft
CHECK_DEADLOCK FALSE
