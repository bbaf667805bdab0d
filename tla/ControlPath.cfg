SPECIFICATION PathSpec
CONSTANTS
  RequestLengths = {0, 1, 2, 5, 8, 9}
  Interfaces = {"absent", "up"}
  OtherLengths = {0, 9}
  MaxRequests = 2
  Together = {{"unified"}, {"control", "other"}, {"cli"}, {"qt"}, {"python"}}
  Numbers = {1, 3, 6}
  CliInputs = {2, 3, 257, NotANumber, Eof}
  Passwords = {7, 8}
  Directions = {5}
  Speeds = {50}
  Positions = {995, 1000}
  NotANumber = NotANumber
  Eof = Eof
  MaxLines = 2
INVARIANTS
  PathTypeOK
  OneDescriptor
  BusFollowsSent
  BusFollowsOrders
  SurvivesOwnClients
  OneAfterSignal
PROPERTIES
  ImplementsService
  RequestServed
  ClientEnds
