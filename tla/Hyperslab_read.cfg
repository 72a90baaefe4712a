SPECIFICATION Spec
CONSTANTS
  Width = 32
  Datasets <- MCDatasets
  Starts <- MCStarts
  Counts = {0, 1, 2, 3}
INVARIANTS CopiesAreExact FailureHasCause ListingTiles
