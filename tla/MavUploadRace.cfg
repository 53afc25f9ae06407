CONSTANTS
  GotoPoints = {p1}
  Searches = {s1}
  None = none
  Modes = {"rtl", "hold"}
  MaxUploads = 1
  MaxReplies = 2
SPECIFICATION Spec
INVARIANTS
  SafetyModeHolds
