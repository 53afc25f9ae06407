CONSTANTS
  GotoPoints = {p1}
  Searches = {s1}
  None = none
  Modes = {"rtl", "hold"}
  MaxUploads = 2
  MaxReplies = 2
SPECIFICATION Spec
INVARIANTS
  UploadsExclusive
  ModeHolds
  AutoFliesCommanded
  SearchLoadedIsFlown
  AcceptedIsEngaged
