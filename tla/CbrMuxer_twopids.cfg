SPECIFICATION Spec
CONSTANTS
  Pids = {1, 2}
  CcMod = 2
  N = 1
  Bps <- MCOneBps
  FileChoices <- MCTwoPids
  MaxPackets = 10
PROPERTIES
  DecoderLosesNothing
CHECK_DEADLOCK FALSE
