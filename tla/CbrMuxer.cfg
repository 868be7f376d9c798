SPECIFICATION Spec
CONSTANTS
  Pids = {1, 2, 3}
  CcMod = 2
  N = 3
  Bps <- MCBps
  FileChoices <- MCOnePidEach
  MaxPackets = 7
INVARIANTS
  InProportion
PROPERTIES
  ImplementsLoops
CHECK_DEADLOCK FALSE
