SPECIFICATION PathSpec
CONSTANTS
  FrameLengths = {1, 2, 4}
  MaxFrames = 2
  Viewers = {"subscriber", "qt"}
INVARIANTS
  TypeOK
  ShownAsPublished
PROPERTIES
  ImplementsStatus
  SignalEnds
  StatusServed
  ViewerEnds
CHECK_DEADLOCK FALSE

