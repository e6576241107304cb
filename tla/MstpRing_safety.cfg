SPECIFICATION Spec
CONSTANTS
  Masters = {0, 1, 2}
  MaxMaster = 2
  BusCapacity = 3
  QueueCapacity = 2
  Dests = {1}
  MaxData = 2
  MaxPolls = 1
  Stalls = TRUE
INVARIANTS TypeOK OneToken OneDataPerToken
PROPERTIES TokensNeverMultiply TokenLostOnlyToAbsent
