SPECIFICATION Spec
CONSTANTS
  s1 = s1
  s2 = s2
  day1 = day1
  day2 = day2
  b1 = b1
  b2 = b2
  b3 = b3
  a1 = a1
  a2 = a2
  r1 = r1
  v1 = v1
  MerchantOf <- OneMerchant
  CurrencyOf <- OneCurrency
  DayOf <- EachItsDay
  KeyOfBatch <- BatchDays
  SaleOf <- EventSales
  KeyOf <- EventDays
  AmountOf <- EventAmounts
  KeyOfClose <- CloseDays
  TerminalTotals <- SaidByTerminal
  RunDate <- OneDate
  Sales = {s1}
  Keys = {day1, day2}
  Batches = {b1, b3}
  Approvals = {a1}
  Reversals = {r1}
  Recoveries = {v1}
  Closes = {}
  Runs = {t1, t2}
  Operators = {o1}
  MaxVersion = 4
  ReversedAmount = 1
  TerminalCount = 1
SYMMETRY Symmetry
CHECK_DEADLOCK FALSE
INVARIANTS
  NoReversalWaitsForItsPurchase
  MismatchIsReviewed
PROPERTIES
  OnlyReviewedIsSent
