CONSTANTS
  AlphabetSize = 3
  SubsequenceLength = 2
  MostFrequent = 1
  Texts <- MCTexts
  Secrets <- MCSecrets
SPECIFICATION Spec
INVARIANTS
  DecodedIsPrefix
  EncodedByLetterCount
  CrashNeedsEmptyKey
  DistancesAreGaps
  PredictionDivides
  CracksTheText
CHECK_DEADLOCK FALSE
