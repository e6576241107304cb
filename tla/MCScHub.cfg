SPECIFICATION FairSpec
CONSTANTS
  None = None
  c1 = c1
  c2 = c2
  va = va
  vb = vb
  Conns <- MCConns
  Callers = {k1, k2}
  Vmacs <- MCVmacs
  Address <- MCAddress
  Shard <- MCShard
  Workers = 2
  HubCapacity = 1
  WireCapacity = 1
  MaxFrames = 3
  MaxBreaks = 1
INVARIANTS TypeOK NoStaleEntry RoutedInOrder AcceptComesFirst
PROPERTIES SendReturns ClosedIsUnlisted
CHECK_DEADLOCK FALSE
