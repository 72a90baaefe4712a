SPECIFICATION FairSpec
CONSTANTS
  r1 = r1
  r2 = r2
  File <- MCFile
  PageSize = 2
  Readers = {r1, r2}
  Requests <- MCRequests
INVARIANTS PagesAreFileBytes NeverLosesPage FailureHasCause ReadsExact
PROPERTIES ImplementsByteReads ReadsEnd
