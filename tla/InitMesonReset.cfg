SPECIFICATION Spec
CONSTANTS
  MaxFaults = 1
  MaxRequests = 1
INVARIANT NewFileSystemIsEncrypted
CHECK_DEADLOCK FALSE
