SPECIFICATION Spec
CONSTANTS
  s1 = s1
  a1 = a1
  r1 = r1
  r2 = r2
  Sales = {s1}
  Calls = {a1, r1, r2}
  SaleOf <- OneSale
  KindOf <- Kinds
  MaxConns = 2
SYMMETRY Symmetry
CHECK_DEADLOCK FALSE
INVARIANTS
  TypeOK
  NotSentIsNotReceived
  WaiterIsHeard
  ReversedOnItsConnection
