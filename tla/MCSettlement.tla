---------------------------- MODULE MCSettlement ----------------------------
(* Instances of Settlement for TLC. Every event of an instance is given by *)
(* the constants of its configuration; the functions below say of which    *)
(* sale, terminal's day and amount each is.                                *)
EXTENDS Settlement, TLC

CONSTANTS
  s1, s2,                \* sales
  day1, day2,            \* two days of one terminal
  b1, b2, b3,            \* batches: b1 and b2 of the first day, b3 of the second
  a1, a2,                \* approvals of s1 and s2, on the first day
  r1,                    \* the reversal of s1, on the second day
  v1,                    \* its recovery, on the first day
  ReversedAmount,        \* what r1 says was reversed
  TerminalCount          \* sales of amount 2 in the totals of the terminal

OneMerchant == [k \in Keys |-> "merchant"]
OneCurrency == [k \in Keys |-> "ARS"]
EachItsDay == [k \in Keys |-> k]
BatchDays == [b \in Batches |-> IF b = b3 THEN day2 ELSE day1]
EventSales == [e \in Registrations |-> IF e = a2 THEN s2 ELSE s1]
EventDays == [e \in Registrations |-> IF e = r1 THEN day2 ELSE day1]
EventAmounts == [e \in Registrations |-> IF e = r1 THEN ReversedAmount ELSE 2]
CloseDays == [c \in Closes |-> day1]
SaidByTerminal == [c \in Closes |-> [count |-> TerminalCount, amount |-> 2 * TerminalCount]]
OneDate == [t \in Runs |-> "today"]
Symmetry == Permutations(Operators) \cup Permutations(Runs) \cup
            Permutations(Batches \cap {b1, b2})
=============================================================================
