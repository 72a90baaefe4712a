SPECIFICATION Spec
CONSTANTS
  MaxNodes = 30
  NodeOverhead = 10
  OffsetSize = 8
  MaxBlocks = 20
  MaxHeapDepth = 3
  MaxRows = 10
  BlockHeaderLen = 1
  BlockSumLen = 1
  FileBytes = 1000
  UsizeMax = 6
  DenseCases <- MCDenseCases
  ChunkCases <- MCChunkCases
  FilterCases <- MCFilterCases
  MessageCases <- MCMessageCases
  FileCases <- MCFileCases
  NumberCases <- NumbersThatFit
  StringCases <- MCStringCases
  NameCases <- MCNameCases
  VlenCases <- MCVlenCases
  AttributeCases <- MCAttributeCases
  FillCases <- MCFillCases
  SelectCases <- MCSelectCases
INVARIANTS
  DenseIsWhole
  MissingIsNotData
  ChunksAtTheirPlace
  FiltersUndone
  MessagesWhole
  ValuesAreStored
  SelectionsExact
