CONSTANTS
  t1 = t1  t2 = t2  t3 = t3
  e1 = e1  e2 = e2  e3 = e3  e4 = e4
  s1 = s1  s2 = s2
  r1 = r1  r2 = r2
  i1 = i1  i2 = i2
  card = card
  Cards = {card}
  CardOf <- SameCard
  Txns = {t1}
  Received = {e1}
  TxOf <- OneSaleReceived
  Malformed = {}
  Scores = {s1}
  ScoreOf <- OneSaleScores
  Reversals = {r1}
  ReversalOf <- OneSaleReversals
  Reconcilers = {i1}
  OutlivesStuckAfter = {}

SPECIFICATION FairSpec
CHECK_DEADLOCK FALSE

PROPERTIES
  UnresolvedIsResolved
  RequestedReversalIsDone
