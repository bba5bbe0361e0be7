SPECIFICATION Spec
CONSTANTS
  s1 = s1
  a1 = a1
  r1 = r1
  r2 = r2
  Sales = {s1}
  Calls = {a1, r1}
  SaleOf <- OneSale
  KindOf <- Kinds
  MaxConns = 2
CHECK_DEADLOCK FALSE
INVARIANT NothingLeftToReverse
