SPECIFICATION FairSpec
CONSTANTS
  MaxCuts = 2
  MaxRequests = 2
INVARIANTS
  PartialSystemNeverBoots
  MarkedUpdateIsRetried
  UrlHasRequest
PROPERTIES
  ImplementsTransaction
  RecoveryEnds
CHECK_DEADLOCK FALSE
