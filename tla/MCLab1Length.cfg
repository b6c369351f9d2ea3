CONSTANTS
  AlphabetSize = 3
  SubsequenceLength = 2
  MostFrequent = 1
  Texts <- MCTexts
  Secrets <- MCSecrets
SPECIFICATION Spec
INVARIANT PredictionIsGreatest
CHECK_DEADLOCK FALSE
