SPECIFICATION FairSpec
CONSTANTS
  Files <- MCFiles
  MaxDepth = 2
  MaxBlocks = 4
  MaxNodes = 4
  MaxHops = 2
INVARIANTS IndexIsWhole OutcomeIsRight EntriesAreOwn
PROPERTIES OpensEnd
CHECK_DEADLOCK FALSE
