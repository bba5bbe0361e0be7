CONSTANTS
  s1 = s1  s2 = s2
  r1 = r1  r2 = r2
  Sales = {s1, s2}
  Reversals = {r1, r2}
  MaxConcurrent = 1
  Timeout = 2
  Grace = 1
  StuckAfter = 9

SPECIFICATION Spec
SYMMETRY SalesAndReversals
CHECK_DEADLOCK FALSE

INVARIANTS
  TypeOK
  WorkerIsDoneWhenStuck
  NoCallInProgressIsReversed
  SlotsAreShared
