SPECIFICATION Spec
CONSTANTS
  MaxCuts = 2
  MaxRequests = 2
INVARIANT UpgradeInProgressIsRetried
CHECK_DEADLOCK FALSE
