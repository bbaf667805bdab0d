SPECIFICATION SystemSpec
CONSTANTS
  SeqMod = 3
  MAX_CONSECUTIVE_FRAMES_IN_BLOCK = 2
  RequestSizes = {0, 2}
  NonStandard = {3}
  CanTxFails = FALSE
  BlockSize = 1
  EcuStatuses = {"CTS", "WAIT", "OVFLW"}
  ResponseSizes = {0, 1}
  Settings = {"late"}
  MaxSessions = 1
  MaxRequests = 2
  MaxPeriodic = 0
  MaxQuietPeriodic = 0
  MaxWaits = 0
  MaxLosses = 0
INVARIANTS
  NoUngrantedCF
