CONSTANTS
  MaxKeys = 3
  MaxRequests = 4
  MaxBlocks = 2
SPECIFICATION Spec
INVARIANT ExistingFileIsSent
CHECK_DEADLOCK FALSE
