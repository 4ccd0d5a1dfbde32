SPECIFICATION EvidenceSpec
CONSTANTS
  LogFiles = {"small", "big"}
  Channels = {"System"}
  AgentFiles = {"monday", "copy", "live"}
  Devices <- MCDevices
  Disk <- MCDisk
  Today = "d2"
  Cap = 3
  NoHash = NoHash
  NoFile = NoFile
  Redacting = TRUE
INVARIANTS
  ManifestTruth
  
CHECK_DEADLOCK FALSE
