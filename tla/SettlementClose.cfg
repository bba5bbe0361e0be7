SPECIFICATION Spec
CONSTANTS
  s1 = s1
  s2 = s2
  day1 = day1
  day2 = day2
  b1 = b1
  b2 = b2
  b3 = b3
  a1 = a1
  a2 = a2
  r1 = r1
  v1 = v1
  MerchantOf <- OneMerchant
  CurrencyOf <- OneCurrency
  DayOf <- EachItsDay
  KeyOfBatch <- BatchDays
  SaleOf <- EventSales
  KeyOf <- EventDays
  AmountOf <- EventAmounts
  KeyOfClose <- CloseDays
  TerminalTotals <- SaidByTerminal
  RunDate <- OneDate
  Sales = {s1, s2}
  Keys = {day1}
  Batches = {b1, b2}
  Approvals = {a1, a2}
  Reversals = {}
  Recoveries = {}
  Closes = {c1}
  Runs = {}
  Operators = {o1, o2}
  MaxVersion = 4
  ReversedAmount = 2
  TerminalCount = 1
SYMMETRY Symmetry
CHECK_DEADLOCK FALSE
INVARIANTS
  TypeOK
  TotalsAreOfTheRows
  SettledDayIsAnnounced
