SPECIFICATION MCFairSpec
CONSTANTS
  RequestLengths = {0, 9}
  FrameLengths = {1, 5}
  MaxRequests = 2
  MaxFrames = 2
INVARIANTS
  TypeOK
  HandlersBeforeClose
  CleanExit
PROPERTIES
  ImplementsService
  ImplementsStatus
  ShutdownEnds
  RequestServed
  StatusServed
