CONSTANTS
  None = None
  SequenceNumbers = 4
  MaxFlips = 2
  MaxNoisyBytes = 15
  MaxSegments = 5
  Requests <- MCRequests
  Answers <- MCAnswers
  Routes <- MCRoutes
  Peer <- MCPeer
SPECIFICATION Spec
INVARIANTS
  Understood
  NoiseDetected
  Reassembled
