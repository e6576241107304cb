SPECIFICATION FairSpec
CONSTANTS
  Masters = {0, 1, 2}
  MaxMaster = 2
  BusCapacity = 3
  QueueCapacity = 1
  Dests = {1}
  MaxData = 1
  MaxPolls = 1
  Stalls = FALSE
PROPERTIES RingSpec TokenCirculates QueuedIsSent
