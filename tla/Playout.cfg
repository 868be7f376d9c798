SPECIFICATION Spec
CONSTANTS
  Setups = {"paths", "timeout"}
  PacketBytes = 2
  File <- MCFile
  UdpSize = 4
  TcpSize = 2
  Bitrate = 2
  Word = 1000
  BackupFile <- MCBackup
  Unset <- MCUnset
  PipeBytes = 4
  InputChoices = {0, 1, 3, 4}
  OutputChoices = {0, 1, 2}
  MaxTime = 4
  MaxFaults = 1
  MaxChoices = 1
INVARIANTS
  NeverTooFast
  OnlyTimeoutsMixPackets
  SeamlessSwitch
PROPERTIES
  StaysOnAir
CHECK_DEADLOCK FALSE
