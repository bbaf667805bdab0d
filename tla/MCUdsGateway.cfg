SPECIFICATION MCSpec
CONSTANTS
  SeqMod = 2
  MAX_CONSECUTIVE_FRAMES_IN_BLOCK = 2
  RequestSizes = {0, 2}
  NonStandard <- MCNonStandard
  CanTxFails = TRUE
  MaxSessions = 2
  MaxMsgs = 2
  MaxFrames = 2
INVARIANTS
  TypeOK
  WriteMutex
  SocketLifetime
  ForwarderServesSession
  AckPrecedesFrames
  SegmentsInOrder
