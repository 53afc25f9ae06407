CONSTANTS
  Commands = {"continue", "hold"}
  NoTarget = none
  Searches = {s1}
  None = no_search
  OperatorCommands = {"none", "abandon_search", "mission_complete"}
  MaxRetries = 2
  MaxTasks = 1
  MaxEvents = 1
SPECIFICATION Spec
INVARIANTS
  WaitingKeepsRole
