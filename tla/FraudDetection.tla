--------------------------- MODULE FraudDetection ---------------------------
(***************************************************************************)
(* The Fraud Detection context: the rule engine, the fraud cases, and the  *)
(* rules with the copy that each instance caches in memory.                *)
(*                                                                         *)
(* The cache hands out the same list of rules to everybody: an operator's  *)
(* change is made in that list before it is saved, while evaluations read  *)
(* it. What the cache, an evaluation and a change hold is therefore kept   *)
(* with the identity of the list it is. One step is one access to the      *)
(* database, to the cache or to a shared list, or a publication. An        *)
(* instance that ends loses its goroutines and its cache: that is the same *)
(* as their being abandoned and the cache's running out.                   *)
(***************************************************************************)
EXTENDS Integers, FiniteSets, Sequences

CONSTANTS
  Instances,      \* instances of the service, each with its cache
  Operated,       \* the instances that operators' requests arrive at
  Events,         \* fraud.check-requested events, one per transaction
  Sales,          \* what a transaction may be (see SaleType)
  MaxDeliver,     \* deliveries of one event before JetStream drops it
  InitialWeights, \* score_weight of each rule of the schema
  ShortReads,     \* bound: how many rules a read that is cut short returns
  Changes,        \* <<rule, weight>> that operators may ask for
  MaxChanges      \* bound: changes that operators ask for

RuleIds == {"RULE-001", "RULE-002", "RULE-003", "RULE-004", "RULE-005"}
Queries == {"txPerHour", "avgMerchantAmt", "recentRejections", "sameAmountCount"}
SaleType == [history : [Queries -> Nat], amountCents : Nat \ {0}, magstripe : BOOLEAN]

ASSUME FraudAssumption ==
  /\ Operated \subseteq Instances
  /\ Sales \subseteq SaleType
  /\ Sales # {}
  /\ MaxDeliver \in Nat \ {0}
  /\ InitialWeights \in [RuleIds -> 1..100]
  /\ ShortReads \subseteq Nat
  /\ Changes \subseteq RuleIds \X (1..100)
  /\ MaxChanges \in Nat

------------------------------------------------------------------------------
(* The rule engine.                                                        *)

(* buildRuleContext: what a failed query would have counted is left at 0,  *)
(* and so is everything when all of them fail.                             *)
buildRuleContext(history, failed) ==
  [q \in Queries |-> IF q \in failed THEN 0 ELSE history[q]]

(* Variant: a merchant without an average has an average of zero. *)
RulesHitByAnyAmount(sale, h) ==
  {r \in RuleIds :
     \/ r = "RULE-001" /\ h["txPerHour"] > 60
     \/ r = "RULE-002" /\ sale.amountCents > h["avgMerchantAmt"] * 3
     \/ r = "RULE-003" /\ h["recentRejections"] > 3
     \/ r = "RULE-004" /\ h["sameAmountCount"] > 1
     \/ r = "RULE-005" /\ sale.magstripe /\ sale.amountCents > 5000000}

(* registerEvalFns: the limits are those of the functions; threshold_value *)
(* of the rule is not looked at.                                           *)
RulesHit(sale, h) ==
  {r \in RuleIds :
     \/ r = "RULE-001" /\ h["txPerHour"] > 60
     \/ r = "RULE-002" /\ h["avgMerchantAmt"] > 0
                       /\ sale.amountCents > h["avgMerchantAmt"] * 3
     \/ r = "RULE-003" /\ h["recentRejections"] > 3
     \/ r = "RULE-004" /\ h["sameAmountCount"] > 1
     \/ r = "RULE-005" /\ sale.magstripe /\ sale.amountCents > 5000000}

(* NewFraudScore *)
Decision(points) ==
  IF points >= 70 THEN "REJECT" ELSE IF points >= 50 THEN "REVIEW" ELSE "APPROVE"

NewFraudScore(points, hits) ==
  [score |-> points, decision |-> Decision(points), rulesHit |-> hits]

Total(hits, weights) ==
  LET Points(r) == IF r \in hits THEN weights[r] ELSE 0
  IN  Points("RULE-001") + Points("RULE-002") + Points("RULE-003")
        + Points("RULE-004") + Points("RULE-005")

(* Variant: the sum is not limited to 100. *)
ApplyWithoutLimit(hits, weights) == NewFraudScore(Total(hits, weights), hits)

ApplyEvaluations(hits, weights) ==
  LET total == Total(hits, weights)
  IN  NewFraudScore(IF total > 100 THEN 100 ELSE total, hits)

BuildNeutralScore == NewFraudScore(50, {"BYPASS"})

------------------------------------------------------------------------------
(* State.                                                                  *)

VARIABLES
  weight,     \* fraud_rules.score_weight
  cached,     \* the list of rules that each instance caches, while it is
              \* younger than RulesCacheTTL: an older one is not looked at
  changes,    \* how many changes were asked for
  sale,       \* the transaction of each event
  delivered,  \* how many times each event was delivered
  acked,      \* events acknowledged
  processed,  \* processed_events
  cases,      \* events whose transaction has a row in fraud_cases
  announced,  \* the fraud.score-calculated of each transaction, in order
  call        \* the goroutines of each instance: one handles events, one
              \* the requests of operators

rules == <<weight, cached, changes>>
checks == <<sale, delivered, acked, processed, cases, announced>>
vars == <<rules, checks, call>>

Callers == (Instances \X {"check"}) \cup (Operated \X {"admin"})

(* A list of rules: which one of the instance's it is, the rules that it   *)
(* has, and their weights (of those that it has not, the weight says       *)
(* nothing). The list without rules is nil, which is no list of anybody's: *)
(* its id is 0. An instance has three holders.                             *)
Lists == [id : 0..3, rules : SUBSET RuleIds, weight : [RuleIds -> 1..100]]
NoList == [id |-> 0, rules |-> {}, weight |-> InitialWeights]

NoCall == [pc |-> "idle", job |-> <<>>, list |-> NoList, score |-> <<>>]

Scores == [score : 0..100, decision : {"APPROVE", "REVIEW", "REJECT"},
           rulesHit : (SUBSET RuleIds) \cup {{"BYPASS"}}]

Pcs == {"idle", "find", "loaded", "found", "neutral", "evaluated", "claimed",
        "saved", "committed", "done", "changed", "updated"}

TypeOK ==
  /\ weight \in [RuleIds -> 1..100]
  /\ cached \in [Instances -> Lists]
  /\ changes \in 0..MaxChanges
  /\ sale \in [Events -> Sales]
  /\ delivered \in [Events -> 0..MaxDeliver]
  /\ acked \subseteq Events
  /\ processed \subseteq Events
  /\ cases \subseteq Events
  /\ announced \in [Events -> Seq(Scores)]
  /\ call \in [Callers -> [pc : Pcs, job : Events \cup Changes \cup {<<>>},
                           list : Lists, score : Scores \cup {<<>>}]]
  /\ \A c \in Callers : call[c].pc # "idle" =>
       call[c].job \in IF c[2] = "check" THEN Events ELSE Changes

Init ==
  /\ weight = InitialWeights
  /\ cached = [i \in Instances |-> NoList]
  /\ changes = 0
  /\ sale \in [Events -> Sales]
  /\ delivered = [e \in Events |-> 0]
  /\ acked = {}
  /\ processed = {}
  /\ cases = {}
  /\ announced = [e \in Events |-> <<>>]
  /\ call = [c \in Callers |-> NoCall]

------------------------------------------------------------------------------
(* The cache of rules.                                                     *)

Hit(i) == cached[i].id # 0

InUse(i, id) == \/ cached[i].id = id
                \/ \E c \in Callers : c[1] = i /\ call[c].list.id = id

NewList(i, read) ==
  IF read = {} THEN NoList
  ELSE [id |-> CHOOSE id \in 1..3 : ~InUse(i, id), rules |-> read, weight |-> weight]

(* FindAllActive, when the cache has the rules. *)
UseCached(c) ==
  /\ call[c].pc = "find"
  /\ Hit(c[1])
  /\ call' = [call EXCEPT ![c].pc = "found", ![c].list = cached[c[1]]]
  /\ UNCHANGED <<rules, checks>>

(* What the loop over the rows may have read when it ends: the rules come  *)
(* in the order of their weights. No rule is ever deactivated by the code: *)
(* the query has them all.                                                 *)
Read(got) ==
  \/ got = RuleIds
  \/ /\ Cardinality(got) \in ShortReads
     /\ \A r \in got, q \in RuleIds \ got : weight[r] >= weight[q]

(* rows.Err() is not looked at: a query whose connection fails, or whose   *)
(* time runs out, after it was sent looks like one that had fewer rows.    *)
loadFromDB(c) ==
  /\ call[c].pc = "find"
  /\ ~Hit(c[1])
  /\ \E got \in SUBSET RuleIds :
       /\ Read(got)
       /\ call' = [call EXCEPT ![c].pc = "loaded", ![c].list = NewList(c[1], got)]
  /\ UNCHANGED <<rules, checks>>

(* FindAllActive after its query: whatever happened to the rules since. To *)
(* store nil is to have nothing cached.                                    *)
StoreLoaded(c) ==
  /\ call[c].pc = "loaded"
  /\ cached' = [cached EXCEPT ![c[1]] = call[c].list]
  /\ call' = [call EXCEPT ![c].pc = "found"]
  /\ UNCHANGED <<weight, changes, checks>>

(* Variant: a cached list is served for ever. *)
CacheStays(i) == FALSE /\ UNCHANGED vars

(* RulesCacheTTL has passed since the list was stored. *)
CacheExpires(i) ==
  /\ Hit(i)
  /\ cached' = [cached EXCEPT ![i] = NoList]
  /\ UNCHANGED <<weight, changes, checks, call>>

------------------------------------------------------------------------------
(* UpdateRuleThreshold.                                                    *)

StartChange(i, change) ==
  /\ call[<<i, "admin">>].pc = "idle"
  /\ changes < MaxChanges
  /\ changes' = changes + 1
  /\ call' = [call EXCEPT ![<<i, "admin">>] = [NoCall EXCEPT !.pc = "find", !.job = change]]
  /\ UNCHANGED <<weight, cached, checks>>

(* The rule is changed where it is: in the list that the cache serves, and *)
(* that an evaluation may be about to read.                                *)
UpdateThreshold(i) ==
  LET a == call[<<i, "admin">>]
      Changed(list) == IF list.id = a.list.id
                       THEN [list EXCEPT !.weight[a.job[1]] = a.job[2]] ELSE list
  IN  /\ a.pc = "found"
      /\ a.job[1] \in a.list.rules
      /\ cached' = [cached EXCEPT ![i] = Changed(@)]
      /\ call' = [call EXCEPT ![<<i, "admin">>].pc = "changed",
                              ![<<i, "admin">>].list = Changed(@),
                              ![<<i, "check">>].list = Changed(@)]
      /\ UNCHANGED <<weight, changes, checks>>

(* FraudRuleRepo.Save. *)
SaveRule(i) ==
  LET a == call[<<i, "admin">>]
  IN  /\ a.pc = "changed"
      /\ weight' = [weight EXCEPT ![a.job[1]] = a.list.weight[a.job[1]]]
      /\ call' = [call EXCEPT ![<<i, "admin">>].pc = "updated",
                              ![<<i, "admin">>].list = NoList]
      /\ UNCHANGED <<cached, changes, checks>>

Invalidate(i) ==
  /\ call[<<i, "admin">>].pc = "updated"
  /\ cached' = [cached EXCEPT ![i] = NoList]
  /\ call' = [call EXCEPT ![<<i, "admin">>] = NoCall]
  /\ UNCHANGED <<weight, changes, checks>>

(* The rules cannot be read, or the one to change is not in the list, or   *)
(* the change cannot be saved: the cached list keeps it.                   *)
ChangeFails(i) ==
  LET a == call[<<i, "admin">>]
  IN  /\ \/ a.pc = "find" /\ ~Hit(i)
         \/ a.pc = "found" /\ a.job[1] \notin a.list.rules
         \/ a.pc = "changed"
      /\ call' = [call EXCEPT ![<<i, "admin">>] = NoCall]
      /\ UNCHANGED <<rules, checks>>

------------------------------------------------------------------------------
(* EvaluateTransaction.                                                    *)

Goto(i, pc) == call' = [call EXCEPT ![<<i, "check">>].pc = pc]

Deliver(i, e) ==
  /\ call[<<i, "check">>].pc = "idle"
  /\ e \notin acked
  /\ delivered[e] < MaxDeliver
  /\ delivered' = [delivered EXCEPT ![e] = @ + 1]
  /\ call' = [call EXCEPT ![<<i, "check">>] = [NoCall EXCEPT !.pc = "find", !.job = e]]
  /\ UNCHANGED <<rules, sale, acked, processed, cases, announced>>

(* RuleEngine.Evaluate: any of the queries may fail, or run out of time.   *)
(* Only the rules of the list are evaluated.                               *)
Evaluate(i) ==
  LET c == call[<<i, "check">>]
  IN  /\ c.pc = "found"
      /\ c.list.rules # {}
      /\ \E failed \in SUBSET Queries :
           LET h == buildRuleContext(sale[c.job].history, failed)
               hits == RulesHit(sale[c.job], h) \cap c.list.rules
           IN  call' = [call EXCEPT ![<<i, "check">>] =
                 [c EXCEPT !.pc = "evaluated", !.list = NoList,
                           !.score = ApplyEvaluations(hits, c.list.weight)]]
      /\ UNCHANGED <<rules, checks>>

(* The rules cannot be read, or there are none. *)
EngineFails(i) ==
  LET c == call[<<i, "check">>]
  IN  /\ \/ c.pc = "find" /\ ~Hit(i)
         \/ c.pc = "found" /\ c.list.rules = {}
      /\ call' = [call EXCEPT ![<<i, "check">>] =
           [c EXCEPT !.pc = "neutral", !.list = NoList, !.score = BuildNeutralScore]]
      /\ UNCHANGED <<rules, checks>>

Announce(i) ==
  LET c == call[<<i, "check">>]
  IN  /\ announced' = [announced EXCEPT ![c.job] = Append(@, c.score)]
      /\ call' = [call EXCEPT ![<<i, "check">>] = [c EXCEPT !.pc = "done", !.score = <<>>]]

(* The neutral score claims nothing and stores no case. *)
PublishNeutral(i) ==
  /\ call[<<i, "check">>].pc = "neutral"
  /\ Announce(i)
  /\ UNCHANGED <<rules, sale, delivered, acked, processed, cases>>

(* Variant: the event is not claimed. *)
ClaimAgain(i) ==
  /\ call[<<i, "check">>].pc = "evaluated"
  /\ Goto(i, "claimed")
  /\ UNCHANGED <<rules, checks>>

(* TryMarkAsProcessed: it waits for another transaction that has inserted  *)
(* the same id; a duplicate is acknowledged.                               *)
ClaimEvent(i) ==
  LET c == call[<<i, "check">>]
  IN  /\ c.pc = "evaluated"
      /\ ~\E o \in Instances : /\ call[<<o, "check">>].job = c.job
                               /\ call[<<o, "check">>].pc \in {"claimed", "saved"}
      /\ call' = [call EXCEPT ![<<i, "check">>] =
           IF c.job \in processed THEN [c EXCEPT !.pc = "done", !.score = <<>>]
                                  ELSE [c EXCEPT !.pc = "claimed"]]
      /\ UNCHANGED <<rules, checks>>

(* FraudCaseRepo.Save, on a connection of its own: it stays if the claim   *)
(* is rolled back, and the case that exists is kept.                       *)
SaveCase(i) ==
  /\ call[<<i, "check">>].pc = "claimed"
  /\ cases' = cases \cup {call[<<i, "check">>].job}
  /\ Goto(i, "saved")
  /\ UNCHANGED <<rules, sale, delivered, acked, processed, announced>>

CommitClaim(i) ==
  /\ call[<<i, "check">>].pc = "saved"
  /\ processed' = processed \cup {call[<<i, "check">>].job}
  /\ Goto(i, "committed")
  /\ UNCHANGED <<rules, sale, delivered, acked, cases, announced>>

Publish(i) ==
  /\ call[<<i, "check">>].pc = "committed"
  /\ Announce(i)
  /\ UNCHANGED <<rules, sale, delivered, acked, processed, cases>>

(* It is only logged. *)
PublishFails(i) ==
  /\ call[<<i, "check">>].pc = "committed"
  /\ call' = [call EXCEPT ![<<i, "check">>].pc = "done", ![<<i, "check">>].score = <<>>]
  /\ UNCHANGED <<rules, checks>>

Ack(i) ==
  LET c == call[<<i, "check">>]
  IN  /\ c.pc = "done"
      /\ acked' = acked \cup {c.job}
      /\ call' = [call EXCEPT ![<<i, "check">>] = NoCall]
      /\ UNCHANGED <<rules, sale, delivered, processed, cases, announced>>

(* An error, answered with a Nak, or the end of the instance. *)
AbandonCheck(i) ==
  /\ call[<<i, "check">>].pc # "idle"
  /\ call' = [call EXCEPT ![<<i, "check">>] = NoCall]
  /\ UNCHANGED <<rules, checks>>

(* Bound: an event that JetStream is done with lends its name to the event *)
(* of another transaction, so that there are always more to come.          *)
NextTransaction(e) ==
  /\ e \in acked \/ delivered[e] = MaxDeliver
  /\ \A i \in Instances : call[<<i, "check">>].job # e
  /\ sale' \in {[sale EXCEPT ![e] = s] : s \in Sales}
  /\ delivered' = [delivered EXCEPT ![e] = 0]
  /\ acked' = acked \ {e}
  /\ processed' = processed \ {e}
  /\ cases' = cases \ {e}
  /\ announced' = [announced EXCEPT ![e] = <<>>]
  /\ UNCHANGED <<rules, call>>

------------------------------------------------------------------------------
CacheStep(c) == UseCached(c) \/ loadFromDB(c) \/ StoreLoaded(c)

ChangeStep(i) ==
  UpdateThreshold(i) \/ SaveRule(i) \/ Invalidate(i) \/ ChangeFails(i)

CheckStep(i) ==
  \/ Evaluate(i) \/ EngineFails(i) \/ PublishNeutral(i)
  \/ ClaimEvent(i) \/ SaveCase(i) \/ CommitClaim(i)
  \/ Publish(i) \/ PublishFails(i) \/ Ack(i) \/ AbandonCheck(i)

Next ==
  \/ \E c \in Callers : CacheStep(c)
  \/ \E i \in Instances : CacheExpires(i) \/ CheckStep(i)
  \/ \E i \in Operated, change \in Changes : StartChange(i, change)
  \/ \E i \in Operated : ChangeStep(i)
  \/ \E i \in Instances, e \in Events : Deliver(i, e)
  \/ \E e \in Events : NextTransaction(e)

Spec == Init /\ [][Next]_vars

(* Nothing but the passing of time. *)
Fairness == \A i \in Instances : WF_vars(CacheExpires(i))

FairSpec == Spec /\ Fairness

------------------------------------------------------------------------------
(* Properties.                                                             *)

(* A query of the history that fails or times out never makes a sale look  *)
(* worse: a score that is announced only names rules that the whole        *)
(* history breaks, or the bypass of the engine.                            *)
FailedQueryNeverAccuses ==
  \A e \in Events : \A k \in DOMAIN announced[e] :
    \/ announced[e][k] = BuildNeutralScore
    \/ announced[e][k].rulesHit \subseteq RulesHit(sale[e], sale[e].history)

(* Of the handlings of one event at most one announces a score of the      *)
(* engine, and it does so with the case of the transaction stored: a       *)
(* redelivery, on another instance and with other rules, cannot give       *)
(* Authorization a second opinion. Neutral scores are not counted.         *)
EngineScoresOnce ==
  \A e \in Events :
    LET ofTheEngine == {k \in DOMAIN announced[e] : announced[e][k] # BuildNeutralScore}
    IN  /\ Cardinality(ofTheEngine) <= 1
        /\ ofTheEngine # {} => e \in cases

(* When operators stop changing the rules, what every instance serves of   *)
(* them ends up being what the table says: also at the instances that were *)
(* not told, the one that stored an old list after it was invalidated, and *)
(* the one whose cached list kept a change that was never saved. That a    *)
(* list has all the rules is not promised: loadFromDB may be cut short     *)
(* whenever a list is read, and nothing tells such a list from a whole one.*)
RulesAreRefreshed ==
  <>[](\A i \in Instances : \A r \in cached[i].rules : cached[i].weight[r] = weight[r])
=============================================================================
