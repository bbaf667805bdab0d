SPECIFICATION MCSpec
CONSTANTS
  RequestLengths = {1}
  FrameLengths = {2}
  MaxRequests = 1
  MaxFrames = 0
INVARIANTS
  OkMeansSent
