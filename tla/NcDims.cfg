SPECIFICATION Spec
CONSTANTS
  Files <- MCFiles
  MaxId = 100
INVARIANTS InventedServe NumbersFollowTheWalk InventedAreNeeded
CHECK_DEADLOCK FALSE
