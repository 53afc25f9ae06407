CONSTANTS
  MaxQueued = 2
  MaxLogBytes = 3
  MaxRotations = 3
  Absent = absent
  Old = old
  MaxLines = 9
SPECIFICATION FairSpec
INVARIANTS
  GapsAreMarked
  IdleMeansAccounted
  ArchivedFilesAreFull
PROPERTIES
  StopFinishes
