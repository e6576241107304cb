SPECIFICATION Spec
CONSTANTS
  None = None
  NumPriorities = 2
  NumStates = 2
  output = output
  gone = gone
  DayLength = 3
  BufferSize = 2
  MaxTotal = 2
  Week <- MCWeek
  KindOf <- MCKindOf
  Outputs <- MCOutputs
  Instants <- MCInstants
  ScheduleWrites <- MCScheduleWrites
  TargetWrites <- MCTargetWrites
  LogWrites <- MCLogWrites
  MaxWrites = 2
  MaxRecords = 3
INVARIANTS TypeOK LogIsRecent ShowsProgramme
PROPERTIES CommandsKept TargetFollows
