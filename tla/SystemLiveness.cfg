SPECIFICATION FairSystem
CONSTANTS
  SeqMod = 3
  MAX_CONSECUTIVE_FRAMES_IN_BLOCK = 2
  RequestSizes = {2}
  NonStandard = {3}
  CanTxFails = TRUE
  BlockSize = 1
  EcuStatuses = {"CTS", "WAIT", "OVFLW"}
  ResponseSizes = {0, 1}
  Settings = {"quiet", "late"}
  MaxSessions = 1
  MaxRequests = 2
  MaxPeriodic = 0
  MaxQuietPeriodic = 1
  MaxWaits = 1
  MaxLosses = 1
PROPERTIES
  SessionEnds
  RequestAnswered
