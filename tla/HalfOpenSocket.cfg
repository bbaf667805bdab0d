SPECIFICATION Spec
CONSTANTS
  RequestLengths = {1}
  MaxRequests = 2
PROPERTIES
  SendInitialises
