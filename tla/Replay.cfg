SPECIFICATION FairSpec
CONSTANTS
  Size = 5
  PageSize = 2
  MaxRounds = 3
  Drivers = {d1}
  Prefetches <- MCPrefetches
  Walks <- MCWalks
INVARIANTS ValueIsSynchronous FailureIsSynchronous RoundsEarnPages
PROPERTIES WalksEnd
