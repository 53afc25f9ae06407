CONSTANTS
  Commands = {"hold"}
  NoTarget = none
  MaxEvents = 2
SPECIFICATION FairSpec
INVARIANTS
  EdgesAlternate
  RecoveryRedrives
PROPERTIES
  DeadSocketRetired
  CommsViewConverges
