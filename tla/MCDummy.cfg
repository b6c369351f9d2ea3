CONSTANTS
  MaxKeys = 6
  MaxRequests = 5
  MaxBlocks = 2
  RequestsCount = 3
SPECIFICATION DummySpec
INVARIANTS
  ScriptKeysAgree
  GivesUpOnlyForAReason
  SuccessIsComplete
PROPERTY
  ScriptEnds
CHECK_DEADLOCK FALSE
