CONSTANTS
  Targets = {t1}
  NoTarget = none
  LowBatteryLatchCount = 2
  AltitudeBreachLatchCount = 2
  MaxRun = 3
SPECIFICATION HSpec
INVARIANTS
  StateIsArbitrated
  RoleMatchesState
  LatchesAreTimely
PROPERTIES
  LatchesAreFinal
  LatchesAreDebounced
  ResolutionIsTruthful
