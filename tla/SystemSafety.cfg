SPECIFICATION SystemSpec
CONSTANTS
  SeqMod = 3
  MAX_CONSECUTIVE_FRAMES_IN_BLOCK = 2
  RequestSizes = {2}
  NonStandard = {3}
  CanTxFails = FALSE
  BlockSize = 1
  EcuStatuses = {"CTS", "WAIT", "OVFLW"}
  ResponseSizes = {1}
  Settings = {"busy"}
  MaxSessions = 2
  MaxRequests = 2
  MaxPeriodic = 1
  MaxQuietPeriodic = 0
  MaxWaits = 1
  MaxLosses = 1
INVARIANTS
  SystemTypeOK
  ResponsesInOrder
  AckBeforeResponse
  NoUngrantedCF
