CONSTANTS
  Base = 3
  KeySize = 2
  Primes = {2, 3, 5, 7}
  MaxUpdates = 2
  Hash = {h1, h2}
  MaxHashes = 2
  BLOCK_SIZE = 2
  BufferBlocks = 3
  LengthLimit = 12
  MaxFile = 14
  WordBits = 4
  KeyShift = 2
  IdeaKeys <- MCIdeaKeys
  Chains <- MCChains
  ByteBits = 2
  BlockSize = 8
  WordBytes = 3
  MaxLength = 70
SPECIFICATION Spec
INVARIANT BlocksRoundTrip
CHECK_DEADLOCK FALSE
