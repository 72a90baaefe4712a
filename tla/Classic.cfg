SPECIFICATION Spec
CONSTANTS
  Files <- MCFiles
  Calls <- MCCalls
  FillName <- MCFillName
  UsizeMax <- MCUsizeMax
  Modes = {"sync", "async"}
  FirstWindow = 48
  PageSize = 16
  Prefetch = 20
  MaxRounds = 6
  MaxCalls = 2
CHECK_DEADLOCK FALSE
INVARIANTS
  HeaderIsWhole
  ValuesAreLaidOut
  FailureHasCause
PROPERTIES
  ReadsEnd
