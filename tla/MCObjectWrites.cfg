SPECIFICATION Spec
CONSTANTS
  None = None
  NumPriorities = 3
  NumStates = 2
  MaxCommands = 3
  Values <- MCValues
  Priorities <- MCPriorities
INVARIANTS TypeOK LastCommandWins
PROPERTIES FailedWriteChangesNothing ServiceIsKept ForceWriteApplies
CHECK_DEADLOCK FALSE
