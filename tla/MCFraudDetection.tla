------------------------- MODULE MCFraudDetection -------------------------
(* Instances of FraudDetection for TLC: the weights of the schema, a sale  *)
(* that breaks every rule and one that breaks those on its amount only.    *)
EXTENDS FraudDetection, TLC

CONSTANT i1

SchemaWeights ==
  [r \in RuleIds |-> CASE r = "RULE-001" -> 20 [] r = "RULE-002" -> 15
                       [] r = "RULE-003" -> 25 [] r = "RULE-004" -> 20
                       [] r = "RULE-005" -> 30]

History(n, avg, rejections, same) ==
  [q \in Queries |-> CASE q = "txPerHour" -> n [] q = "avgMerchantAmt" -> avg
                       [] q = "recentRejections" -> rejections
                       [] q = "sameAmountCount" -> same]

(* It breaks every rule. *)
WorstSale == [history |-> History(61, 1000000, 4, 2),
              amountCents |-> 5000001, magstripe |-> TRUE]

(* It is at the limit of every rule. *)
UsualSale == [history |-> History(60, 1000000, 3, 1),
              amountCents |-> 3000000, magstripe |-> TRUE]

TwoSales == {WorstSale, UsualSale}
OneChange == {<<"RULE-001", 90>>}
=============================================================================
