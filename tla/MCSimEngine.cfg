SPECIFICATION Spec
CONSTANTS
  None = None
  NumPriorities = 2
  NumStates = 2
  input = input
  output = output
  Points = {input, output}
  KindOf <- MCKindOf
  Increment <- MCIncrement
  Samples = {0, 1, 2}
  Writes <- MCWrites
  Subscribers = {s1, s2}
  Requests <- MCRequests
  SweepPeriod = 2
  MaxTime = 3
  MaxWrites = 1
  MaxSubscribes = 2
SYMMETRY MCSymmetry
INVARIANTS TypeOK CovAccuracy ExpiryBound
CHECK_DEADLOCK FALSE
