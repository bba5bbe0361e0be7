SPECIFICATION FairSpec
CONSTANTS
  e1 = e1
  Events = {e1}
  NotifiedOn = {"WEBHOOK"}
  ChannelsOf <- OneEvent
  Forced <- SecondHandling
  Deliveries = {i1, i2}
  Dispatchers = {g1, g2}
  MaxDeliver = 2
  MaxAttempts = 2
CHECK_DEADLOCK FALSE
INVARIANTS
  TypeOK
  ClaimedIsStored
PROPERTIES
  RetryingEnds
