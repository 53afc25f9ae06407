CONSTANTS
  Commands = {"continue"}
  NoTarget = none
  Searches = {s1, s2}
  None = no_search
  OperatorCommands = {"none", "abandon_search", "mission_complete"}
  MaxRetries = 2
  MaxTasks = 1
  MaxEvents = 1
SPECIFICATION FairSpec
INVARIANTS
  SearchFlownOnlyWhileSearching
  QuietSearchIsFlown
PROPERTIES
  SearchIsServed
