SPECIFICATION Spec
CONSTANTS
  Clients = {c1, c2}
  Devices = {1, 2}
  Points = {7}
  None = None
  Asks <- MCAsks
  InCapacity = 2
  OutCapacity = 1
  MaxRequests = 3
INVARIANTS TypeOK SessionKept SessionIsolated AnsweredOnce
PROPERTIES ServiceSpec
CHECK_DEADLOCK FALSE
SYMMETRY MCSymmetry
