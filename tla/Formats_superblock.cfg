SPECIFICATION Spec
CONSTANTS
  MaxNodes = 30
  NodeOverhead = 10
  OffsetSize = 8
  MaxBlocks = 20
  MaxHeapDepth = 3
  MaxRows = 10
  BlockHeaderLen = 1
  BlockSumLen = 1
  FileBytes = 1000
  UsizeMax = 6
  DenseCases = {}
  ChunkCases = {}
  FilterCases = {}
  MessageCases = {}
  FileCases <- MCWideFileCases
  NumberCases = {}
  StringCases = {}
  NameCases = {}
  VlenCases = {}
  AttributeCases = {}
  FillCases = {}
  SelectCases = {}
INVARIANT EverySuperblockFits
