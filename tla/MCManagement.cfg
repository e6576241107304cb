CONSTANTS
  None = None
  Demo = Demo
  NumPriorities = 2
  NumStates = 2
  DemoDevice = 1
  MaxInstance = 2
  MaxWrites = 2
  Overflow = 32
  Ids = {1, 2, 3}
  Normalise <- MCNormalise
  Configs <- MCConfigs
  Profiles <- MCProfiles
  Singles <- MCSingles
  EvenSingles <- MCEvenSingles
  Numbers <- MCNumbers
  Days <- MCDays
SPECIFICATION Spec
INVARIANTS
  Discoverable
  DateIsRight
PROPERTIES
  PutShows
