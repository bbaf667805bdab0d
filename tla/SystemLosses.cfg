SPECIFICATION SystemSpec
CONSTANTS
  SeqMod = 2
  MAX_CONSECUTIVE_FRAMES_IN_BLOCK = 2
  RequestSizes = {0, 2}
  NonStandard = {3}
  CanTxFails = FALSE
  BlockSize = 1
  EcuStatuses = {"CTS", "WAIT", "OVFLW"}
  ResponseSizes = {0, 3}
  Settings = {"busy"}
  MaxSessions = 1
  MaxRequests = 2
  MaxPeriodic = 1
  MaxQuietPeriodic = 0
  MaxWaits = 0
  MaxLosses = 2
INVARIANTS
  NoMixedResponse
  RequestIntact
