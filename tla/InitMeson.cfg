SPECIFICATION FairSpec
CONSTANTS
  MaxFaults = 4
  MaxRequests = 3
INVARIANTS
  KeyIsKept
  ResetIsRemembered
  PlainIsExplained
PROPERTIES
  DataIsErasedOnRequest
  ResetIsCarriedOut
CHECK_DEADLOCK FALSE
