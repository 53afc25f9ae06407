CONSTANTS
  Targets = {t1, t2}
  NoTarget = none
  LowBatteryLatchCount = 2
  AltitudeBreachLatchCount = 2
SPECIFICATION Spec
PROPERTIES
  ActionedTargetIsFlown
