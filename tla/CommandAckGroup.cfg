CONSTANTS
  A = a
  B = b
  Connections = {a, b}
  Numbered = {a}
  Skew <- MCSkew
  Contents = {x, y, bad}
  Unactionable = {bad}
  Resolutions = {"actioned", "superseded"}
  ToleranceMs = 3
  MaxCommands = 3
  MaxDeliveries = 4
CHECK_DEADLOCK FALSE
SPECIFICATION FairSpec
INVARIANTS
  ActuatedOnce
  GroupCommandInForce
PROPERTIES
  EveryCopyAcked
  ImplementsAckSpec
