SPECIFICATION Spec
CONSTANTS
  Pids = {1, 2}
  CcMod = 3
  FileLists <- MCFileLists
INVARIANTS
  CheckerIsSilent
PROPERTIES
  DecoderLosesNothing
