SPECIFICATION Spec
CONSTANTS
  Room = 4
  PtsStep = 2
  PtsMax = 16
  PtsLimit = 22
  HeaderRoom = 4
  VbvMax = 12
  Period = 3
  PcrPackets = 4
  WrapPackets = 20
  MaxOpens = 3
  VideoFiles <- MCVideoFiles
  AudioFiles <- MCAudioFiles
  FramePackets = 4
  Held = 1
  Samples = 7
  SampleRate = 6
  PtsTime = 7
  PacketBits = 8
  VideoStep = 10
  FileOffset = 3
  MaxFiles = 4
INVARIANTS
  NothingIsLost
  FilesAreKept
  ReceiverBufferHolds
  InTime
  InStepWithVideo
PROPERTIES
  DecodingTimesGoOn
  EveryFrameIsSent
CHECK_DEADLOCK FALSE
