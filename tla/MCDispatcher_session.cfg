SPECIFICATION Spec
CONSTANTS
  Clients = {c1, c2}
  Devices = {1, 2}
  Points = {7}
  None = None
  Asks <- MCReads
  InCapacity = 2
  OutCapacity = 1
  MaxRequests = 3
INVARIANT SessionAlwaysKept
CHECK_DEADLOCK FALSE
