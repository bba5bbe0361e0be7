SPECIFICATION FairSpec
CONSTANTS
  i1 = i1
  Instances = {i1, i2}
  Operated = {i1}
  Events = {e1}
  Sales <- TwoSales
  MaxDeliver = 2
  InitialWeights <- SchemaWeights
  ShortReads = {0, 1}
  Changes <- OneChange
  MaxChanges = 1
CHECK_DEADLOCK FALSE
INVARIANTS
  TypeOK
  FailedQueryNeverAccuses
  EngineScoresOnce
PROPERTIES
  RulesAreRefreshed
