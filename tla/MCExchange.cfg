CONSTANTS
  MaxKeys = 2
  MaxRequests = 4
  MaxBlocks = 6
SPECIFICATION LiveSpec
INVARIANTS
  TypeOK
  KeysAgree
  FilesDecipherable
  FileAnswersRequest
  AuthAnswerComesFirst
  RefusalFollowsUpdate
PROPERTY CallsReturn
CHECK_DEADLOCK FALSE
