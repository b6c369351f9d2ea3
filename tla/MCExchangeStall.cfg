CONSTANTS
  MaxKeys = 3
  MaxRequests = 4
  MaxBlocks = 2
SPECIFICATION LiveSpec
PROPERTY RequestsAreAnswered
CHECK_DEADLOCK FALSE
