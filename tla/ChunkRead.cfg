SPECIFICATION FairSpec
CONSTANTS
  Chunks <- MixedChunks
  ReadAhead = 2
  Readers = {r1}
  Selections <- MixedSelections
  Modes <- AllModes
INVARIANTS ValuesCorrect FailureHasCause
PROPERTIES ReadsEnd
