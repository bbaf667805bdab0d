SPECIFICATION BytesSpec
CONSTANTS
  Lengths = {0, 3, 4, 11, 12, 24, 4099, 4100}
  Cuts = {3, 8, 10}
  BlockSizes = {0, 2}
  ResponseSizes = {1, 7, 8, 13, 14, 4095}
  MaxMessages = 2
  MaxAnswers = 2
  MaxRunts = 1
  MaxWaits = 1
  MaxMishaps = 1
INVARIANTS
  InStep
  RequestWhole
  ResponseWhole
CHECK_DEADLOCK FALSE
