SPECIFICATION Spec
CONSTANTS
  TimeQueue <- MCTimeQueue
  CountQueue <- MCCountQueue
  FileOf <- MCFileOf
  ShapePackets = 1
  Pids = {0, 1, 2, 3, 9}
  NullPid = 9
  CcMod = 2
  MaxTime = 4
  MaxFaults = 1
  Null <- MCNull
  Unset <- MCUnset
  ibits = 2
  obits = 5
  FillPackets = 3
  Word = 100000
  vbrBits = 5
  ClockFrequency = 12
  HalfClock = 30
  VbrBufferPackets = 6
  PacketSize = 5
  PcrOffset = 1
  TicksPerByte = 3
  trbits = 2
  PcrMod = 100
  MaxCount = 8
  FirstPcr = 93
  NoPcr = NoPcr
  Inputs <- MCInputs
  MaxShaped = 20
INVARIANTS
  NullsFitBuffer
  OutputKeepsStep
  NotTooOften
  NoTimedFileFallsBehind
PROPERTIES
  PcrFollowsPosition
  EndsOnSoundPcrs
  ReadsItsOwnFileAgain
CHECK_DEADLOCK FALSE
