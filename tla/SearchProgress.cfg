CONSTANTS
  Sizes = {1, 2}
  SeqLimit = 8
  MaxSearches = 2
  MaxInFlight = 1
SPECIFICATION FairSpec
INVARIANTS
  TypeOK
  NoPointSkipped
PROPERTIES
  CompletedFullyFlown
  EnteredAtCurrentPoint
  SearchEnds
