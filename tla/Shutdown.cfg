CONSTANTS
  Commands = {c1}
  MaxInputs = 1
SPECIFICATION FairSpec
INVARIANTS
  TypeOK
  ThreadsOutlived
  AcksFlushed
PROPERTIES
  DialsJoined
  SignalExits
