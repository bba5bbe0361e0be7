------------------------------ MODULE FraudProofs ------------------------------
(***************************************************************************)
(* Proofs about FraudDetection, for any number of instances, transactions, *)
(* deliveries and changes of the rules: types, what a failed query can do  *)
(* to a score, and that a transaction has one score of the engine.         *)
(***************************************************************************)
EXTENDS FraudDetection, FiniteSetTheorems, TLAPS

------------------------------------------------------------------------------
(* What is appended comes after what was there. *)
LEMMA ScoreAppended ==
  ASSUME NEW S, NEW q \in Seq(S), NEW e \in S
  PROVE  /\ Append(q, e) \in Seq(S)
         /\ Len(q) \in Nat
         /\ Len(Append(q, e)) = Len(q) + 1
         /\ \A i \in 1..Len(q) : Append(q, e)[i] = q[i]
         /\ Append(q, e)[Len(q) + 1] = e
  OBVIOUS

------------------------------------------------------------------------------
(* The rule engine.                                                        *)

(* The rules hit are rules, and their weights add up to a number. *)
LEMMA EngineScoreType ==
  ASSUME NEW hits \in SUBSET RuleIds, NEW w \in [RuleIds -> 1..100]
  PROVE  ApplyEvaluations(hits, w) \in Scores
<1>1. Total(hits, w) \in Nat
  <2> DEFINE points(r) == IF r \in hits THEN w[r] ELSE 0
  <2>1. \A r \in RuleIds : points(r) \in Nat
    OBVIOUS
  <2>2. Total(hits, w) = points("RULE-001") + points("RULE-002") + points("RULE-003")
                           + points("RULE-004") + points("RULE-005")
    BY DEF Total
  <2> HIDE DEF points
  <2> QED
    BY <2>1, <2>2 DEF RuleIds
<1>2. (IF Total(hits, w) > 100 THEN 100 ELSE Total(hits, w)) \in 0..100
  BY <1>1
<1>3. \A n \in 0..100 : Decision(n) \in {"APPROVE", "REVIEW", "REJECT"}
  BY DEF Decision
<1> QED
  BY <1>2, <1>3 DEF ApplyEvaluations, NewFraudScore, Scores

(* The rules hit by any history are rules. *)
LEMMA RulesHitType ==
  ASSUME NEW s, NEW h PROVE RulesHit(s, h) \in SUBSET RuleIds
  BY DEF RulesHit

(* The neutral score names the bypass of the engine. *)
LEMMA NeutralType ==
  /\ BuildNeutralScore \in Scores
  /\ BuildNeutralScore.rulesHit = {"BYPASS"}
<1>1. BuildNeutralScore = [score |-> 50, decision |-> "REVIEW", rulesHit |-> {"BYPASS"}]
  BY DEF BuildNeutralScore, NewFraudScore, Decision
<1>2. /\ 50 \in 0..100 /\ "REVIEW" \in {"APPROVE", "REVIEW", "REJECT"}
      /\ {"BYPASS"} \in (SUBSET RuleIds) \cup {{"BYPASS"}}
  OBVIOUS
<1> QED
  BY <1>1, <1>2 DEF Scores

(* What the failed queries leave out can only spare a rule. *)
LEMMA FailuresSpare ==
  ASSUME NEW s \in SaleType, NEW failed \in SUBSET Queries
  PROVE  RulesHit(s, buildRuleContext(s.history, failed)) \subseteq RulesHit(s, s.history)
<1>1. \A q \in Queries : /\ s.history[q] \in Nat
                         /\ buildRuleContext(s.history, failed)[q] \in {0, s.history[q]}
  BY DEF SaleType, buildRuleContext
<1>2. /\ "txPerHour" \in Queries /\ "avgMerchantAmt" \in Queries
      /\ "recentRejections" \in Queries /\ "sameAmountCount" \in Queries
  BY DEF Queries
<1> QED
  BY <1>1, <1>2 DEF RulesHit

------------------------------------------------------------------------------
(* Type correctness.                                                       *)

(* What a goroutine holds. *)
CallType == [pc : Pcs, job : Events \cup Changes \cup {<<>>},
             list : Lists, score : Scores \cup {<<>>}]

JobsFit ==
  \A c \in Callers : call[c].pc # "idle" =>
    call[c].job \in IF c[2] = "check" THEN Events ELSE Changes

(* Who calls. *)
LEMMA CallersOf ==
  /\ \A i \in Instances : <<i, "check">> \in Callers /\ <<i, "check">>[2] = "check"
  /\ \A i \in Operated : <<i, "admin">> \in Callers /\ <<i, "admin">>[2] = "admin"
  /\ \A c \in Callers : c[1] \in Instances
  BY FraudAssumption DEF Callers

(* A goroutine that does nothing, and nobody's list. *)
LEMMA NoCallType == NoCall \in CallType /\ NoList \in Lists
  BY FraudAssumption DEF NoCall, NoList, CallType, Lists, Pcs

(* A list that nobody else holds, with rules of the table. *)
LEMMA NewListType ==
  ASSUME TypeOK, NEW i \in Instances, cached[i].id = 0, NEW got \in SUBSET RuleIds
  PROVE  NewList(i, got) \in Lists
<1>1. \E id \in 1..3 : ~InUse(i, id)
  <2> DEFINE a == call[<<i, "check">>].list.id
             b == call[<<i, "admin">>].list.id
  <2>1. PICK id \in 1..3 : id # a /\ id # b
    OBVIOUS
  <2>2. ASSUME NEW c \in Callers, c[1] = i PROVE call[c].list.id # id
    <3>1. c = <<i, "check">> \/ c = <<i, "admin">>
      BY <2>2 DEF Callers
    <3> QED
      BY <2>1, <3>1
  <2> QED
    BY <2>1, <2>2 DEF InUse
<1>2. (CHOOSE id \in 1..3 : ~InUse(i, id)) \in 1..3
  BY <1>1
<1> QED
  BY <1>2, NoCallType DEF NewList, Lists, TypeOK

(* The goroutines are well typed, with jobs of their own kinds. *)
CallsOK == call \in [Callers -> CallType] /\ JobsFit

(* The handling of an event changes. *)
LEMMA CheckUpdate ==
  ASSUME CallsOK, NEW i \in Instances, NEW r \in CallType,
         r.pc # "idle" => r.job \in Events,
         call' = [call EXCEPT ![<<i, "check">>] = r]
  PROVE  /\ CallsOK'
         /\ call'[<<i, "check">>] = r
         /\ \A c \in Callers : c # <<i, "check">> => call'[c] = call[c]
  BY CallersOf DEF CallsOK, JobsFit

(* A request of an operator changes. *)
LEMMA AdminUpdate ==
  ASSUME CallsOK, NEW i \in Operated, NEW r \in CallType,
         r.pc # "idle" => r.job \in Changes,
         call' = [call EXCEPT ![<<i, "admin">>] = r]
  PROVE  /\ CallsOK'
         /\ \A c \in Callers : c # <<i, "admin">> => call'[c] = call[c]
  BY CallersOf DEF CallsOK, JobsFit

(* A goroutine moves on with its job, another list and another score. *)
LEMMA MovedType ==
  ASSUME NEW r \in CallType, NEW pc \in Pcs, NEW l \in Lists, NEW s \in Scores \cup {<<>>}
  PROVE  /\ [r EXCEPT !.pc = pc] \in CallType
         /\ [r EXCEPT !.pc = pc, !.list = l] \in CallType
         /\ [r EXCEPT !.pc = pc, !.score = s] \in CallType
         /\ [r EXCEPT !.pc = pc, !.list = l, !.score = s] \in CallType
         /\ [r EXCEPT !.list = l] \in CallType
  BY DEF CallType

(* The rules, the cache and the goroutines that look at them. *)
RulesOK ==
  /\ weight \in [RuleIds -> 1..100]
  /\ cached \in [Instances -> Lists]
  /\ changes \in 0..MaxChanges

(* What is kept of the checks. *)
ChecksOK ==
  /\ sale \in [Events -> Sales]
  /\ delivered \in [Events -> 0..MaxDeliver]
  /\ acked \subseteq Events
  /\ processed \subseteq Events
  /\ cases \subseteq Events
  /\ announced \in [Events -> Seq(Scores)]

(* TypeOK by what it is about, before a step and after. *)
LEMMA TypeParts == TypeOK <=> RulesOK /\ ChecksOK /\ CallsOK
  BY DEF TypeOK, RulesOK, ChecksOK, CallsOK, JobsFit, CallType

LEMMA TypeAfter ==
  /\ RulesOK' /\ ChecksOK' /\ CallsOK' => TypeOK'
  /\ RulesOK /\ UNCHANGED rules => RulesOK'
  /\ ChecksOK /\ UNCHANGED checks => ChecksOK'
  BY DEF TypeOK, RulesOK, ChecksOK, CallsOK, JobsFit, CallType, rules, checks

(* The cache and the goroutines are well typed after a step of either. *)
LEMMA CacheStepType ==
  ASSUME TypeOK, NEW c \in Callers, CacheStep(c)
  PROVE  TypeOK'
<1> DEFINE Up(r) == call' = [call EXCEPT ![c] = r]
<1>0. c[1] \in Instances /\ call[c] \in CallType /\ RulesOK /\ ChecksOK /\ CallsOK
  BY CallersOf, TypeParts DEF CallsOK
<1>1. "found" \in Pcs /\ "loaded" \in Pcs
  BY DEF Pcs
<1>2. ASSUME NEW r \in CallType, r.job = call[c].job, call[c].pc # "idle", Up(r)
      PROVE  CallsOK'
  BY <1>0, <1>2 DEF CallsOK, JobsFit
<1>3. CASE UseCached(c)
  <2> DEFINE r == [call[c] EXCEPT !.pc = "found", !.list = cached[c[1]]]
  <2>1. r \in CallType /\ r.job = call[c].job
    BY <1>0, <1>1, MovedType DEF RulesOK, CallType
  <2>2. Up(r)
    BY <1>3 DEF UseCached
  <2>3. CallsOK'
    BY <1>2, <1>3, <2>1, <2>2 DEF UseCached
  <2> QED
    BY <1>0, <1>3, <2>3, TypeAfter DEF UseCached
<1>4. CASE loadFromDB(c)
  <2>0. cached[c[1]].id = 0
    BY <1>4 DEF loadFromDB, Hit
  <2> PICK got \in SUBSET RuleIds :
        call' = [call EXCEPT ![c].pc = "loaded", ![c].list = NewList(c[1], got)]
    BY <1>4 DEF loadFromDB
  <2> DEFINE r == [call[c] EXCEPT !.pc = "loaded", !.list = NewList(c[1], got)]
  <2>1. r \in CallType /\ r.job = call[c].job
    BY <1>0, <1>1, <2>0, MovedType, NewListType DEF CallType
  <2>2. Up(r)
    OBVIOUS
  <2>3. CallsOK'
    BY <1>2, <1>4, <2>1, <2>2 DEF loadFromDB
  <2> QED
    BY <1>0, <1>4, <2>3, TypeAfter DEF loadFromDB
<1>5. CASE StoreLoaded(c)
  <2> DEFINE r == [call[c] EXCEPT !.pc = "found"]
  <2>1. r \in CallType /\ r.job = call[c].job
    BY <1>0, <1>1, MovedType DEF CallType
  <2>2. Up(r)
    BY <1>5 DEF StoreLoaded
  <2>3. CallsOK'
    BY <1>2, <1>5, <2>1, <2>2 DEF StoreLoaded
  <2>4. cached' \in [Instances -> Lists]
    BY <1>0, <1>5 DEF StoreLoaded, RulesOK, CallType
  <2> QED
    BY <1>0, <1>5, <2>3, <2>4, TypeAfter DEF StoreLoaded, RulesOK
<1> QED
  BY <1>3, <1>4, <1>5 DEF CacheStep

(* So are they after a step of an operator's request. *)
LEMMA ChangeStepType ==
  ASSUME TypeOK, NEW i \in Operated,
         ChangeStep(i) \/ \E change \in Changes : StartChange(i, change)
  PROVE  TypeOK'
<1> DEFINE c == <<i, "admin">>
           a == call[c]
<1>0. /\ c \in Callers /\ c[2] = "admin" /\ i \in Instances /\ a \in CallType
      /\ RulesOK /\ ChecksOK /\ CallsOK
      /\ a.pc # "idle" => a.job \in Changes
  BY CallersOf, TypeParts, FraudAssumption DEF CallsOK, JobsFit
<1>1. NoCall \in CallType /\ NoCall.pc = "idle" /\ NoList \in Lists
  BY NoCallType DEF NoCall
<1>2. CASE ChangeFails(i)
  <2>1. CallsOK'
    BY <1>0, <1>1, <1>2, AdminUpdate DEF ChangeFails
  <2> QED
    BY <1>0, <1>2, <2>1, TypeAfter DEF ChangeFails
<1>3. CASE Invalidate(i)
  <2>1. CallsOK'
    BY <1>0, <1>1, <1>3, AdminUpdate DEF Invalidate
  <2>2. cached' \in [Instances -> Lists]
    BY <1>0, <1>1, <1>3 DEF Invalidate, RulesOK
  <2> QED
    BY <1>0, <1>3, <2>1, <2>2, TypeAfter DEF Invalidate, RulesOK
<1>4. CASE SaveRule(i)
  <2> DEFINE r == [a EXCEPT !.pc = "updated", !.list = NoList]
  <2>1. a.job \in RuleIds \X (1..100)
    BY <1>0, <1>4, FraudAssumption DEF SaveRule
  <2>2. r \in CallType /\ r.job = a.job
    <3>1. "updated" \in Pcs
      BY DEF Pcs
    <3>2. r \in CallType
      BY <1>0, <1>1, <3>1, MovedType
    <3> QED
      BY <1>0, <3>2 DEF CallType
  <2>3. call' = [call EXCEPT ![c] = r]
    BY <1>4 DEF SaveRule
  <2>4. CallsOK'
    BY <1>0, <1>4, <2>2, <2>3, AdminUpdate DEF SaveRule
  <2>5. weight' \in [RuleIds -> 1..100]
    <3>1. weight' = [weight EXCEPT ![a.job[1]] = a.list.weight[a.job[1]]]
      BY <1>4 DEF SaveRule
    <3>2. a.job[1] \in RuleIds /\ a.list.weight \in [RuleIds -> 1..100]
      BY <1>0, <2>1 DEF CallType, Lists
    <3>3. weight \in [RuleIds -> 1..100] /\ a.list.weight[a.job[1]] \in 1..100
      BY <1>0, <3>2 DEF RulesOK
    <3> QED
      BY <3>1, <3>3
  <2> QED
    BY <1>0, <1>4, <2>4, <2>5, TypeAfter DEF SaveRule, RulesOK
<1>5. ASSUME NEW change \in Changes, StartChange(i, change) PROVE TypeOK'
  <2> DEFINE r == [NoCall EXCEPT !.pc = "find", !.job = change]
  <2>1. r \in CallType /\ r.job \in Changes
    BY <1>1 DEF CallType, Pcs
  <2>2. call' = [call EXCEPT ![c] = r]
    BY <1>5 DEF StartChange
  <2>3. CallsOK'
    BY <1>0, <2>1, <2>2, AdminUpdate
  <2>4. changes' \in 0..MaxChanges
    <3>1. changes \in 0..MaxChanges /\ changes < MaxChanges /\ changes' = changes + 1
      BY <1>0, <1>5 DEF StartChange, RulesOK
    <3> QED
      BY <3>1, FraudAssumption
  <2> QED
    BY <1>0, <1>5, <2>3, <2>4, TypeAfter DEF StartChange, RulesOK
<1>6. CASE UpdateThreshold(i)
  <2> DEFINE Changed(l) == IF l.id = a.list.id
                           THEN [l EXCEPT !.weight[a.job[1]] = a.job[2]] ELSE l
             d == <<i, "check">>
  <2>1. a.job[1] \in RuleIds /\ a.job[2] \in 1..100
    BY <1>0, <1>6, FraudAssumption DEF UpdateThreshold
  <2>2. \A l \in Lists : Changed(l) \in Lists
    BY <2>1 DEF Lists
  <2>3. d \in Callers /\ c # d /\ call[d] \in CallType
    BY <1>0, CallersOf DEF CallsOK
  <2>4. /\ call'[c] = [a EXCEPT !.pc = "changed", !.list = Changed(a.list)]
        /\ call'[d] = [call[d] EXCEPT !.list = Changed(call[d].list)]
        /\ \A e \in Callers : e # c /\ e # d => call'[e] = call[e]
        /\ DOMAIN call' = Callers
        /\ call' = [e \in DOMAIN call' |-> call'[e]]
    BY <1>0, <1>6, <2>3 DEF UpdateThreshold, CallsOK
  <2>5. call'[c] \in CallType /\ call'[d] \in CallType
    <3>1. "changed" \in Pcs
      BY DEF Pcs
    <3>2. Changed(a.list) \in Lists /\ Changed(call[d].list) \in Lists
      BY <1>0, <2>2, <2>3 DEF CallType
    <3> HIDE DEF Changed, a, c, d
    <3>3. [a EXCEPT !.pc = "changed", !.list = Changed(a.list)] \in CallType
      BY <1>0, <3>1, <3>2, MovedType
    <3>4. [call[d] EXCEPT !.list = Changed(call[d].list)] \in CallType
      BY <2>3, <3>1, <3>2, MovedType
    <3> QED
      BY <2>4, <3>3, <3>4
  <2>6. call'[c].job = a.job /\ call'[d].job = call[d].job /\ call'[d].pc = call[d].pc
    BY <1>0, <2>3, <2>4 DEF CallType
  <2>7. CallsOK'
    <3>1. a.pc # "idle"
      BY <1>6 DEF UpdateThreshold
    <3> HIDE DEF Changed, a, c, d
    <3>2. \A e \in Callers : call'[e] \in CallType
      BY <1>0, <2>4, <2>5 DEF CallsOK
    <3>3. \A e \in Callers : call'[e].pc # "idle" => call'[e].job = call[e].job /\ call[e].pc # "idle"
      BY <1>0, <2>4, <2>6, <3>1 DEF a
    <3>4. call' \in [Callers -> CallType]
      BY <2>4, <3>2
    <3> QED
      BY <1>0, <3>3, <3>4 DEF CallsOK, JobsFit
  <2>8. cached' \in [Instances -> Lists]
    BY <1>0, <1>6, <2>2 DEF UpdateThreshold, RulesOK
  <2> QED
    BY <1>0, <1>6, <2>7, <2>8, TypeAfter DEF UpdateThreshold, RulesOK
<1> QED
  BY <1>2, <1>3, <1>4, <1>5, <1>6 DEF ChangeStep

------------------------------------------------------------------------------
(* The inductive invariant of the checks.                                  *)

(* The goroutine of an instance that handles events. *)
Check(i) == call[<<i, "check">>]

(* A goroutine has a score to announce. *)
Carrying == {"neutral", "evaluated", "claimed", "saved", "committed"}

(* The scores that the engine may give to a sale. *)
Honest(score, s) == score.rulesHit \subseteq RulesHit(s, s.history)

(* A score that is carried names only what the whole history breaks, and   *)
(* the neutral one is not claimed for.                                     *)
CarriedScores ==
  \A i \in Instances : Check(i).pc \in Carrying =>
    /\ Check(i).score \in Scores
    /\ IF Check(i).pc = "neutral" THEN Check(i).score = BuildNeutralScore
       ELSE Honest(Check(i).score, sale[Check(i).job])

(* Scores of the engine that were announced for the transaction of event e. *)
EngineScored(e) ==
  \E k \in 1..Len(announced[e]) : announced[e][k] # BuildNeutralScore

(* One goroutine at most is between the claim of an event and its          *)
(* announcement, and nothing of the engine was announced before. Its claim *)
(* is committed with the case stored.                                      *)
OneClaim ==
  /\ \A i, j \in Instances :
       /\ Check(i).pc \in {"claimed", "saved", "committed"}
       /\ Check(j).pc \in {"claimed", "saved", "committed"}
       /\ Check(i).job = Check(j).job
       => i = j
  /\ \A i \in Instances :
       /\ Check(i).pc \in {"claimed", "saved"} => Check(i).job \notin processed
       /\ Check(i).pc \in {"saved", "committed"} => Check(i).job \in cases
       /\ Check(i).pc = "committed" =>
            Check(i).job \in processed /\ ~EngineScored(Check(i).job)

(* An announced score of the engine is the only one of its transaction,    *)
(* whose event is consumed and whose case is stored.                       *)
OneScore ==
  \A e \in Events :
    /\ EngineScored(e) => e \in processed /\ e \in cases
    /\ \A k, l \in 1..Len(announced[e]) :
         announced[e][k] # BuildNeutralScore /\ announced[e][l] # BuildNeutralScore => k = l

HonestScores ==
  \A e \in Events : \A k \in 1..Len(announced[e]) :
    announced[e][k] = BuildNeutralScore \/ Honest(announced[e][k], sale[e])

CheckParts == CarriedScores /\ OneClaim /\ OneScore /\ HonestScores

CheckInv == TypeOK /\ CheckParts

------------------------------------------------------------------------------
(* Its preservation.                                                       *)

(* What the goroutine of an event became. *)
LEMMA CheckBecomes ==
  ASSUME TypeOK, NEW i \in Instances, NEW r \in CallType,
         r.pc # "idle" => r.job \in Events,
         call' = [call EXCEPT ![<<i, "check">>] = r]
  PROVE  /\ CallsOK'
         /\ Check(i)' = r
         /\ \A j \in Instances : j # i => Check(j)' = Check(j)
<1>1. CallsOK
  BY TypeParts
<1>2. \A j \in Instances : j # i => <<j, "check">> \in Callers /\ <<j, "check">> # <<i, "check">>
  BY CallersOf
<1> QED
  BY <1>1, <1>2, CheckUpdate DEF Check

(* The goroutine of an event has a job of its kind. *)
LEMMA CheckIs ==
  ASSUME TypeOK, NEW i \in Instances
  PROVE  /\ Check(i) \in CallType
         /\ Check(i).pc # "idle" => Check(i).job \in Events
  BY TypeParts, CallersOf DEF CallsOK, JobsFit, Check

(* A step in which no goroutine gets a score or moves on with one. *)
Quiet ==
  /\ UNCHANGED <<sale, processed, cases, announced>>
  /\ \A i \in Instances :
       \/ Check(i)'.pc \notin Carrying
       \/ /\ Check(i)'.pc = Check(i).pc
          /\ Check(i)'.job = Check(i).job
          /\ Check(i)'.score = Check(i).score

(* It keeps the invariant. *)
LEMMA QuietKeeps ==
  ASSUME CheckParts, Quiet
  PROVE  CheckParts'
<1>1. \A e : EngineScored(e)' <=> EngineScored(e)
  BY DEF Quiet, EngineScored
<1>2. CarriedScores'
  BY DEF Quiet, CheckParts, CarriedScores, Honest
<1>3. OneClaim'
  BY <1>1 DEF Quiet, CheckParts, OneClaim, Carrying
<1>4. OneScore'
  BY <1>1 DEF Quiet, CheckParts, OneScore
<1>5. HonestScores'
  BY DEF Quiet, CheckParts, HonestScores, Honest
<1> QED
  BY <1>2, <1>3, <1>4, <1>5 DEF CheckParts

(* A score is appended to those of one transaction. *)
LEMMA Announced ==
  ASSUME TypeOK, NEW e \in Events, NEW s \in Scores,
         announced' = [announced EXCEPT ![e] = Append(announced[e], s)]
  PROVE  /\ announced' \in [Events -> Seq(Scores)]
         /\ Len(announced[e]) \in Nat
         /\ Len(announced'[e]) = Len(announced[e]) + 1
         /\ \A k \in 1..Len(announced[e]) : announced'[e][k] = announced[e][k]
         /\ announced'[e][Len(announced[e]) + 1] = s
         /\ \A d \in Events : d # e => announced'[d] = announced[d]
<1>1. announced[e] \in Seq(Scores) /\ announced \in [Events -> Seq(Scores)]
  BY DEF TypeOK
<1>2. announced'[e] = Append(announced[e], s)
  BY <1>1
<1>3. /\ Append(announced[e], s) \in Seq(Scores)
      /\ Len(announced[e]) \in Nat
      /\ Len(Append(announced[e], s)) = Len(announced[e]) + 1
      /\ \A k \in 1..Len(announced[e]) : Append(announced[e], s)[k] = announced[e][k]
      /\ Append(announced[e], s)[Len(announced[e]) + 1] = s
  BY <1>1, ScoreAppended
<1> QED
  BY <1>1, <1>2, <1>3

(* Announcing the score that is carried. *)
LEMMA AnnounceKeeps ==
  ASSUME CheckInv, NEW i \in Instances, Check(i).pc \in {"neutral", "committed"},
         Announce(i), UNCHANGED <<sale, processed, cases>>
  PROVE  /\ announced' \in [Events -> Seq(Scores)]
         /\ CallsOK'
         /\ CheckParts'
<1> DEFINE e == Check(i).job
           s == Check(i).score
           r == [Check(i) EXCEPT !.pc = "done", !.score = <<>>]
<1>0. TypeOK /\ CarriedScores /\ OneClaim /\ OneScore /\ HonestScores
  BY DEF CheckInv, CheckParts
<1>1. /\ Check(i) \in CallType /\ e \in Events
      /\ r \in CallType /\ r.pc = "done" /\ r.job = e
  <2>1. "done" \in Pcs /\ <<>> \in Scores \cup {<<>>} /\ Check(i).pc # "idle"
    BY DEF Pcs
  <2>2. Check(i) \in CallType /\ e \in Events
    BY <1>0, <2>1, CheckIs
  <2>3. r \in CallType
    BY <2>1, <2>2, NoCallType, MovedType
  <2>4. r.pc = "done" /\ r.job = e
    BY <2>2 DEF CallType
  <2> QED
    BY <2>2, <2>3, <2>4
<1>2. CallsOK' /\ Check(i)' = r /\ \A j \in Instances : j # i => Check(j)' = Check(j)
  <2>1. call' = [call EXCEPT ![<<i, "check">>] = r]
    BY DEF Announce, Check
  <2> QED
    BY <1>0, <1>1, <2>1, CheckBecomes
<1>3. /\ s \in Scores
      /\ Check(i).pc = "neutral" => s = BuildNeutralScore
      /\ Check(i).pc = "committed" => Honest(s, sale[e])
  BY <1>0 DEF CarriedScores, Carrying
<1>4. announced' = [announced EXCEPT ![e] = Append(announced[e], s)]
  BY DEF Announce, Check
<1>5. PICK d \in Events, x \in Scores : d = e /\ x = s
  BY <1>1, <1>3
<1>6. /\ announced' \in [Events -> Seq(Scores)]
      /\ Len(announced[d]) \in Nat
      /\ Len(announced'[d]) = Len(announced[d]) + 1
      /\ \A k \in 1..Len(announced[d]) : announced'[d][k] = announced[d][k]
      /\ announced'[d][Len(announced[d]) + 1] = x
      /\ \A f \in Events : f # d => announced'[f] = announced[f]
  <2>1. announced' = [announced EXCEPT ![d] = Append(announced[d], x)]
    BY <1>4, <1>5
  <2> QED
    BY <1>0, <2>1, Announced
<1>7. \A k \in 1..Len(announced'[d]) :
        \/ k \in 1..Len(announced[d]) /\ announced'[d][k] = announced[d][k]
        \/ k = Len(announced[d]) + 1 /\ announced'[d][k] = x
  BY <1>6
<1>8. ASSUME NEW f \in Events, EngineScored(f)', ~EngineScored(f)
      PROVE  f = d /\ Check(i).pc = "committed"
  <2>1. f = d
    BY <1>6, <1>8 DEF EngineScored
  <2>2. x # BuildNeutralScore
    BY <1>7, <1>8, <2>1 DEF EngineScored
  <2> QED
    BY <1>3, <1>5, <2>1, <2>2
<1>9. CarriedScores'
  BY <1>0, <1>1, <1>2 DEF CarriedScores, Carrying, Honest
<1>10. OneClaim'
  <2>1. ASSUME NEW j \in Instances, Check(j)'.pc \in {"claimed", "saved", "committed"}
        PROVE  j # i /\ Check(j)' = Check(j)
    BY <1>1, <1>2, <2>1
  <2>2. ASSUME NEW j \in Instances, Check(j)'.pc = "committed", EngineScored(Check(j).job)'
        PROVE  FALSE
    <3>1. j # i /\ Check(j)' = Check(j) /\ Check(j).pc = "committed"
      BY <2>1, <2>2
    <3>2. PICK f \in Events : f = Check(j).job
      BY <1>0, <3>1, CheckIs
    <3>3. ~EngineScored(f)
      BY <1>0, <3>1, <3>2 DEF OneClaim
    <3>4. EngineScored(f)'
      BY <2>2, <3>1, <3>2
    <3>5. f = e /\ Check(i).pc = "committed"
      BY <1>5, <1>8, <3>3, <3>4
    <3> QED
      BY <1>0, <3>1, <3>2, <3>5 DEF OneClaim
  <2> QED
    BY <1>0, <2>1, <2>2 DEF OneClaim
<1>11. OneScore'
  <2>1. ASSUME NEW f \in Events, EngineScored(f)'
        PROVE  f \in processed /\ f \in cases
    <3>1. CASE EngineScored(f)
      BY <1>0, <3>1 DEF OneScore
    <3>2. CASE ~EngineScored(f)
      BY <1>0, <1>5, <1>8, <2>1, <3>2 DEF OneClaim
    <3> QED
      BY <3>1, <3>2
  <2>2. ASSUME NEW f \in Events, NEW k \in 1..Len(announced'[f]), NEW l \in 1..Len(announced'[f]),
               announced'[f][k] # BuildNeutralScore, announced'[f][l] # BuildNeutralScore
        PROVE  k = l
    <3>1. CASE f # d
      <4>1. announced'[f] = announced[f]
        BY <1>6, <3>1
      <4>2. \A u, v \in 1..Len(announced[f]) :
              announced[f][u] # BuildNeutralScore /\ announced[f][v] # BuildNeutralScore => u = v
        BY <1>0 DEF OneScore
      <4> QED
        BY <2>2, <4>1, <4>2
    <3>2. CASE f = d /\ x = BuildNeutralScore
      <4>1. k \in 1..Len(announced[d]) /\ announced[d][k] # BuildNeutralScore
        BY <1>7, <2>2, <3>2
      <4>2. l \in 1..Len(announced[d]) /\ announced[d][l] # BuildNeutralScore
        BY <1>7, <2>2, <3>2
      <4>3. \A u, v \in 1..Len(announced[d]) :
              announced[d][u] # BuildNeutralScore /\ announced[d][v] # BuildNeutralScore => u = v
        BY <1>0 DEF OneScore
      <4> QED
        BY <4>1, <4>2, <4>3
    <3>3. CASE f = d /\ x # BuildNeutralScore
      <4>1. ~EngineScored(d)
        BY <1>0, <1>3, <1>5, <3>3 DEF OneClaim
      <4>2. k \notin 1..Len(announced[d]) \/ announced'[d][k] # announced[d][k]
        BY <2>2, <3>3, <4>1 DEF EngineScored
      <4>3. l \notin 1..Len(announced[d]) \/ announced'[d][l] # announced[d][l]
        BY <2>2, <3>3, <4>1 DEF EngineScored
      <4> QED
        BY <1>7, <3>3, <4>2, <4>3
    <3> QED
      BY <3>1, <3>2, <3>3
  <2> QED
    BY <2>1, <2>2 DEF OneScore
<1>12. HonestScores'
  <2> SUFFICES ASSUME NEW f \in Events, NEW k \in 1..Len(announced'[f])
               PROVE  announced'[f][k] = BuildNeutralScore \/ Honest(announced'[f][k], sale[f])
    BY DEF HonestScores, Honest
  <2>1. CASE f # d
    BY <1>0, <1>6, <2>1 DEF HonestScores
  <2>2. CASE f = d
    BY <1>0, <1>3, <1>5, <1>7, <2>2 DEF HonestScores
  <2> QED
    BY <2>1, <2>2
<1> QED
  BY <1>2, <1>6, <1>9, <1>10, <1>11, <1>12 DEF CheckParts

(* Every step of the handling of an event keeps the invariant.             *)
LEMMA CheckStepKeeps ==
  ASSUME CheckInv, NEW i \in Instances, CheckStep(i)
  PROVE  TypeOK' /\ CheckParts'
<1> DEFINE e == Check(i).job
           At(pc) == [Check(i) EXCEPT !.pc = pc]
<1>0. TypeOK /\ CheckParts /\ CarriedScores /\ OneClaim /\ OneScore /\ HonestScores
  BY DEF CheckInv, CheckParts
<1>1. RulesOK /\ ChecksOK /\ CallsOK
  BY <1>0, TypeParts
<1>2. Check(i) \in CallType /\ (Check(i).pc # "idle" => e \in Events)
  BY <1>0, CheckIs
<1>3. \A j \in Instances : Check(j).pc # "idle" => Check(j).job \in Events
  BY <1>0, CheckIs
<1>4. NoCall \in CallType /\ NoCall.pc = "idle" /\ NoList \in Lists
  BY NoCallType DEF NoCall
<1>5. ASSUME NEW pc \in Pcs
      PROVE  /\ At(pc) \in CallType
             /\ At(pc).pc = pc /\ At(pc).job = e /\ At(pc).score = Check(i).score
  <2>1. At(pc) \in CallType
    BY <1>2, <1>4, MovedType
  <2> QED
    BY <1>2, <2>1 DEF CallType
<1>6. /\ "claimed" \in Pcs /\ "saved" \in Pcs /\ "committed" \in Pcs /\ "done" \in Pcs
      /\ "neutral" \in Pcs /\ "evaluated" \in Pcs
  BY DEF Pcs
<1>7. ASSUME NEW r \in CallType, r.pc # "idle" => r.job = e, Check(i).pc # "idle",
             call' = [call EXCEPT ![<<i, "check">>] = r]
      PROVE  CallsOK' /\ Check(i)' = r /\ \A j \in Instances : j # i => Check(j)' = Check(j)
  BY <1>0, <1>2, <1>7, CheckBecomes
<1>8. ASSUME NEW r \in CallType, r.pc # "idle" => r.job = e, r.pc \notin Carrying,
             Check(i).pc # "idle",
             call' = [call EXCEPT ![<<i, "check">>] = r],
             UNCHANGED <<sale, processed, cases, announced>>
      PROVE  CallsOK' /\ CheckParts'
  <2>1. CallsOK' /\ Check(i)' = r /\ \A j \in Instances : j # i => Check(j)' = Check(j)
    BY <1>7, <1>8
  <2>2. Quiet
    BY <1>8, <2>1 DEF Quiet
  <2> QED
    BY <1>0, <2>1, <2>2, QuietKeeps
<1>9. CASE Evaluate(i)
  <2>1. PICK failed \in SUBSET Queries :
          call' = [call EXCEPT ![<<i, "check">>] =
            [Check(i) EXCEPT !.pc = "evaluated", !.list = NoList,
               !.score = ApplyEvaluations(
                 RulesHit(sale[e], buildRuleContext(sale[e].history, failed))
                   \cap Check(i).list.rules,
                 Check(i).list.weight)]]
    BY <1>9 DEF Evaluate, Check
  <2> DEFINE hits == RulesHit(sale[e], buildRuleContext(sale[e].history, failed))
                       \cap Check(i).list.rules
             score == ApplyEvaluations(hits, Check(i).list.weight)
             r == [Check(i) EXCEPT !.pc = "evaluated", !.list = NoList, !.score = score]
  <2>2. Check(i).pc = "found" /\ e \in Events /\ UNCHANGED <<rules, checks>>
    BY <1>2, <1>9 DEF Evaluate, Check
  <2>3. score \in Scores
    <3>1. hits \in SUBSET RuleIds
      BY RulesHitType
    <3>2. Check(i).list.weight \in [RuleIds -> 1..100]
      BY <1>2 DEF CallType, Lists
    <3> QED
      BY <3>1, <3>2, EngineScoreType
  <2>4. Honest(score, sale[e])
    <3>1. sale[e] \in SaleType
      BY <1>1, <2>2, FraudAssumption DEF ChecksOK
    <3>2. score.rulesHit = hits
      BY DEF ApplyEvaluations, NewFraudScore
    <3> QED
      BY <3>1, <3>2, FailuresSpare DEF Honest
  <2> HIDE DEF score, hits
  <2>5. r \in CallType /\ r.pc = "evaluated" /\ r.job = e /\ r.score = score
    <3>1. r \in CallType
      BY <1>2, <1>4, <1>6, <2>3, MovedType
    <3> QED
      BY <1>2, <3>1 DEF CallType
  <2>6. call' = [call EXCEPT ![<<i, "check">>] = r]
    BY <2>1 DEF score, hits
  <2>7. CallsOK' /\ Check(i)' = r /\ \A j \in Instances : j # i => Check(j)' = Check(j)
    BY <1>7, <2>2, <2>5, <2>6
  <2> HIDE DEF r
  <2>8. \A f : EngineScored(f)' <=> EngineScored(f)
    BY <2>2 DEF checks, EngineScored
  <2>9. CarriedScores'
    BY <1>0, <2>2, <2>3, <2>4, <2>5, <2>7 DEF CarriedScores, checks, Honest
  <2>10. OneClaim'
    BY <1>0, <2>2, <2>5, <2>7, <2>8 DEF OneClaim, checks
  <2>11. OneScore' /\ HonestScores'
    BY <1>0, <2>2, <2>8 DEF OneScore, HonestScores, checks, Honest
  <2> QED
    BY <1>1, <2>2, <2>7, <2>9, <2>10, <2>11, TypeAfter DEF CheckParts
<1>10. CASE EngineFails(i)
  <2> DEFINE r == [Check(i) EXCEPT !.pc = "neutral", !.list = NoList,
                                   !.score = BuildNeutralScore]
  <2>1. /\ Check(i).pc \in {"find", "found"} /\ e \in Events
        /\ UNCHANGED <<rules, checks>>
    BY <1>2, <1>10 DEF EngineFails, Check
  <2>2. call' = [call EXCEPT ![<<i, "check">>] = r]
    BY <1>10 DEF EngineFails, Check
  <2>3. r \in CallType /\ r.pc = "neutral" /\ r.job = e /\ r.score = BuildNeutralScore
    <3>1. r \in CallType
      BY <1>2, <1>4, <1>6, NeutralType, MovedType
    <3> QED
      BY <1>2, <3>1 DEF CallType
  <2>4. CallsOK' /\ Check(i)' = r /\ \A j \in Instances : j # i => Check(j)' = Check(j)
    BY <1>7, <2>1, <2>2, <2>3
  <2> HIDE DEF r
  <2>5. \A f : EngineScored(f)' <=> EngineScored(f)
    BY <2>1 DEF checks, EngineScored
  <2>6. CarriedScores'
    BY <1>0, <2>1, <2>3, <2>4, NeutralType DEF CarriedScores, checks, Honest
  <2>7. OneClaim'
    BY <1>0, <2>1, <2>3, <2>4, <2>5 DEF OneClaim, checks
  <2>8. OneScore' /\ HonestScores'
    BY <1>0, <2>1, <2>5 DEF OneScore, HonestScores, checks, Honest
  <2> QED
    BY <1>1, <2>1, <2>4, <2>6, <2>7, <2>8, TypeAfter DEF CheckParts
<1>11. CASE PublishNeutral(i) \/ Publish(i)
  <2>1. /\ Check(i).pc \in {"neutral", "committed"} /\ Announce(i)
        /\ UNCHANGED <<rules, sale, delivered, acked, processed, cases>>
    BY <1>11 DEF PublishNeutral, Publish, Check
  <2>2. /\ announced' \in [Events -> Seq(Scores)]
        /\ CallsOK'
        /\ CheckParts'
    BY <2>1, AnnounceKeeps
  <2> QED
    BY <1>1, <2>1, <2>2, TypeAfter DEF ChecksOK
<1>12. CASE ClaimEvent(i)
  <2>1. /\ Check(i).pc = "evaluated" /\ e \in Events /\ UNCHANGED <<rules, checks>>
        /\ \A o \in Instances :
             ~(Check(o).job = e /\ Check(o).pc \in {"claimed", "saved"})
    BY <1>2, <1>12 DEF ClaimEvent, Check
  <2>2. CASE e \in processed
    <3> DEFINE r == [Check(i) EXCEPT !.pc = "done", !.score = <<>>]
    <3>1. call' = [call EXCEPT ![<<i, "check">>] = r]
      BY <1>12, <2>2 DEF ClaimEvent, Check
    <3>2. r \in CallType /\ r.pc = "done" /\ r.job = e
      <4>1. r \in CallType
        BY <1>2, <1>4, <1>6, MovedType
      <4> QED
        BY <1>2, <4>1 DEF CallType
    <3>3. CallsOK' /\ CheckParts'
      BY <1>8, <2>1, <3>1, <3>2 DEF Carrying, checks
    <3> QED
      BY <1>1, <2>1, <3>3, TypeAfter
  <2>3. CASE e \notin processed
    <3> DEFINE r == At("claimed")
    <3>1. call' = [call EXCEPT ![<<i, "check">>] = r]
      BY <1>12, <2>3 DEF ClaimEvent, Check
    <3>2. r \in CallType /\ r.pc = "claimed" /\ r.job = e /\ r.score = Check(i).score
      BY <1>5, <1>6
    <3> HIDE DEF r
    <3>3. CallsOK' /\ Check(i)' = r /\ \A j \in Instances : j # i => Check(j)' = Check(j)
      BY <1>7, <2>1, <3>1, <3>2
    <3>4. \A f : EngineScored(f)' <=> EngineScored(f)
      BY <2>1 DEF checks, EngineScored
    <3>5. CarriedScores'
      BY <1>0, <2>1, <3>2, <3>3 DEF CarriedScores, Carrying, checks, Honest
    <3>6. ASSUME NEW j \in Instances, j # i, Check(j).job = e
          PROVE  Check(j).pc \notin {"claimed", "saved", "committed"}
      BY <1>0, <2>1, <2>3, <3>6 DEF OneClaim
    <3>7. OneClaim'
      BY <1>0, <2>1, <2>3, <3>2, <3>3, <3>4, <3>6 DEF OneClaim, checks
    <3>8. OneScore' /\ HonestScores'
      BY <1>0, <2>1, <3>4 DEF OneScore, HonestScores, checks, Honest
    <3> QED
      BY <1>1, <2>1, <3>3, <3>5, <3>7, <3>8, TypeAfter DEF CheckParts
  <2> QED
    BY <2>2, <2>3
<1>13. CASE SaveCase(i)
  <2> DEFINE r == At("saved")
  <2>1. /\ Check(i).pc = "claimed" /\ e \in Events /\ cases' = cases \cup {e}
        /\ UNCHANGED <<rules, sale, delivered, acked, processed, announced>>
    BY <1>2, <1>13 DEF SaveCase, Check
  <2>2. call' = [call EXCEPT ![<<i, "check">>] = r]
    BY <1>13 DEF SaveCase, Goto, Check
  <2>3. r \in CallType /\ r.pc = "saved" /\ r.job = e /\ r.score = Check(i).score
    BY <1>5, <1>6
  <2> HIDE DEF r
  <2>4. CallsOK' /\ Check(i)' = r /\ \A j \in Instances : j # i => Check(j)' = Check(j)
    BY <1>7, <2>1, <2>2, <2>3
  <2>5. \A f : EngineScored(f)' <=> EngineScored(f)
    BY <2>1 DEF EngineScored
  <2>6. CarriedScores'
    BY <1>0, <2>1, <2>3, <2>4 DEF CarriedScores, Carrying, Honest
  <2>7. OneClaim'
    BY <1>0, <2>1, <2>3, <2>4, <2>5 DEF OneClaim
  <2>8. OneScore' /\ HonestScores'
    BY <1>0, <2>1, <2>5 DEF OneScore, HonestScores, Honest
  <2>9. ChecksOK'
    BY <1>1, <2>1 DEF ChecksOK
  <2> QED
    BY <1>1, <2>1, <2>4, <2>6, <2>7, <2>8, <2>9, TypeAfter DEF CheckParts
<1>14. CASE CommitClaim(i)
  <2> DEFINE r == At("committed")
  <2>1. /\ Check(i).pc = "saved" /\ e \in Events /\ processed' = processed \cup {e}
        /\ UNCHANGED <<rules, sale, delivered, acked, cases, announced>>
    BY <1>2, <1>14 DEF CommitClaim, Check
  <2>2. call' = [call EXCEPT ![<<i, "check">>] = r]
    BY <1>14 DEF CommitClaim, Goto, Check
  <2>3. r \in CallType /\ r.pc = "committed" /\ r.job = e /\ r.score = Check(i).score
    BY <1>5, <1>6
  <2> HIDE DEF r
  <2>4. CallsOK' /\ Check(i)' = r /\ \A j \in Instances : j # i => Check(j)' = Check(j)
    BY <1>7, <2>1, <2>2, <2>3
  <2>5. \A f : EngineScored(f)' <=> EngineScored(f)
    BY <2>1 DEF EngineScored
  <2>6. CarriedScores'
    BY <1>0, <2>1, <2>3, <2>4 DEF CarriedScores, Carrying, Honest
  <2>7. e \notin processed /\ ~EngineScored(e)
    BY <1>0, <2>1 DEF OneClaim, OneScore
  <2>8. OneClaim'
    <3>1. ASSUME NEW j \in Instances, j # i, Check(j).pc \in {"claimed", "saved"}
          PROVE  Check(j).job # e
      BY <1>0, <2>1, <3>1 DEF OneClaim
    <3> QED
      BY <1>0, <2>1, <2>3, <2>4, <2>5, <2>7, <3>1 DEF OneClaim
  <2>9. OneScore' /\ HonestScores'
    BY <1>0, <2>1, <2>5 DEF OneScore, HonestScores, Honest
  <2>10. ChecksOK'
    BY <1>1, <2>1 DEF ChecksOK
  <2> QED
    BY <1>1, <2>1, <2>4, <2>6, <2>8, <2>9, <2>10, TypeAfter DEF CheckParts
<1>15. CASE PublishFails(i)
  <2> DEFINE r == [Check(i) EXCEPT !.pc = "done", !.score = <<>>]
  <2>1. Check(i).pc = "committed" /\ UNCHANGED <<rules, checks>>
    BY <1>15 DEF PublishFails, Check
  <2>2. call' = [call EXCEPT ![<<i, "check">>] = r]
    BY <1>15 DEF PublishFails, Check
  <2>3. r \in CallType /\ r.pc = "done" /\ r.job = e
    <3>1. r \in CallType
      BY <1>2, <1>4, <1>6, MovedType
    <3> QED
      BY <1>2, <3>1 DEF CallType
  <2>4. CallsOK' /\ CheckParts'
    BY <1>8, <2>1, <2>2, <2>3 DEF Carrying, checks
  <2> QED
    BY <1>1, <2>1, <2>4, TypeAfter
<1>16. CASE Ack(i)
  <2>1. /\ Check(i).pc = "done" /\ e \in Events /\ acked' = acked \cup {e}
        /\ call' = [call EXCEPT ![<<i, "check">>] = NoCall]
        /\ UNCHANGED <<rules, sale, delivered, processed, cases, announced>>
    BY <1>2, <1>16 DEF Ack, Check
  <2>2. CallsOK' /\ CheckParts'
    BY <1>4, <1>8, <2>1 DEF Carrying
  <2>3. ChecksOK'
    BY <1>1, <2>1 DEF ChecksOK
  <2> QED
    BY <1>1, <2>1, <2>2, <2>3, TypeAfter
<1>17. CASE AbandonCheck(i)
  <2>1. /\ Check(i).pc # "idle"
        /\ call' = [call EXCEPT ![<<i, "check">>] = NoCall]
        /\ UNCHANGED <<rules, checks>>
    BY <1>17 DEF AbandonCheck, Check
  <2>2. CallsOK' /\ CheckParts'
    BY <1>4, <1>8, <2>1 DEF Carrying, checks
  <2> QED
    BY <1>1, <2>1, <2>2, TypeAfter
<1> QED
  BY <1>9, <1>10, <1>11, <1>12, <1>13, <1>14, <1>15, <1>16, <1>17 DEF CheckStep

(* The cache and the requests of operators do not touch the scores that    *)
(* are carried.                                                            *)
LEMMA RulesStepKeeps ==
  ASSUME CheckInv,
         \/ \E c \in Callers : CacheStep(c)
         \/ \E i \in Instances : CacheExpires(i)
         \/ \E i \in Operated : ChangeStep(i)
         \/ \E i \in Operated, change \in Changes : StartChange(i, change)
  PROVE  TypeOK' /\ CheckParts'
<1>0. TypeOK /\ CheckParts /\ RulesOK /\ ChecksOK /\ CallsOK
  BY TypeParts DEF CheckInv
<1>1. ASSUME NEW c \in Callers, CacheStep(c) PROVE TypeOK' /\ Quiet
  <2>1. TypeOK'
    BY <1>0, <1>1, CacheStepType
  <2>2. UNCHANGED checks
    BY <1>1 DEF CacheStep, UseCached, loadFromDB, StoreLoaded, checks
  <2>3. /\ \A d \in Callers : d # c => call'[d] = call[d]
        /\ call'[c].pc \in {"loaded", "found"}
    BY <1>0, <1>1 DEF CacheStep, UseCached, loadFromDB, StoreLoaded, CallsOK, CallType
  <2>4. \A j \in Instances : Check(j)'.pc \in {"loaded", "found"} \/ Check(j)' = Check(j)
    BY <2>3, CallersOf DEF Check
  <2> QED
    BY <2>1, <2>2, <2>4 DEF Quiet, checks, Carrying
<1>2. ASSUME NEW i \in Instances, CacheExpires(i) PROVE TypeOK' /\ Quiet
  <2>1. cached' \in [Instances -> Lists] /\ UNCHANGED <<weight, changes, checks, call>>
    BY <1>0, <1>2, NoCallType DEF CacheExpires, RulesOK
  <2>2. CallsOK'
    BY <1>0, <2>1 DEF CallsOK, JobsFit
  <2>3. TypeOK'
    BY <1>0, <2>1, <2>2, TypeAfter DEF RulesOK
  <2> QED
    BY <2>1, <2>3 DEF Quiet, checks, Check
<1>3. ASSUME NEW i \in Operated,
             ChangeStep(i) \/ \E change \in Changes : StartChange(i, change)
      PROVE  TypeOK' /\ Quiet
  <2>1. TypeOK'
    BY <1>0, <1>3, ChangeStepType
  <2>2. UNCHANGED checks
    BY <1>3 DEF ChangeStep, StartChange, UpdateThreshold, SaveRule, Invalidate,
                ChangeFails, checks
  <2>3. \A j \in Instances : <<j, "check">> \in Callers /\ <<j, "check">> # <<i, "admin">>
    BY CallersOf
  <2>4. CASE UpdateThreshold(i)
    <3> DEFINE a == call[<<i, "admin">>]
               Changed(l) == IF l.id = a.list.id
                             THEN [l EXCEPT !.weight[a.job[1]] = a.job[2]] ELSE l
    <3>1. \A j \in Instances :
            \/ call'[<<j, "check">>] = call[<<j, "check">>]
            \/ call'[<<j, "check">>] =
                 [call[<<j, "check">>] EXCEPT !.list = Changed(call[<<j, "check">>].list)]
      BY <1>0, <2>3, <2>4, FraudAssumption DEF UpdateThreshold, CallsOK
    <3>2. \A j \in Instances : call[<<j, "check">>] \in CallType
      BY <1>0, <2>3 DEF CallsOK
    <3> HIDE DEF Changed
    <3>3. \A j \in Instances : /\ Check(j)'.pc = Check(j).pc
                               /\ Check(j)'.job = Check(j).job
                               /\ Check(j)'.score = Check(j).score
      BY <3>1, <3>2 DEF CallType, Check
    <3> QED
      BY <2>1, <2>2, <3>3 DEF Quiet, checks
  <2>5. CASE ~UpdateThreshold(i)
    <3>1. \A j \in Instances : Check(j)' = Check(j)
      BY <1>0, <1>3, <2>3, <2>5
         DEF ChangeStep, StartChange, SaveRule, Invalidate, ChangeFails, Check, CallsOK
    <3> QED
      BY <2>1, <2>2, <3>1 DEF Quiet, checks
  <2> QED
    BY <2>4, <2>5
<1>4. TypeOK' /\ Quiet
  BY <1>1, <1>2, <1>3
<1> QED
  BY <1>0, <1>4, QuietKeeps

(* An event is delivered: its goroutine has no score yet. *)
LEMMA DeliverKeeps ==
  ASSUME CheckInv, NEW i \in Instances, NEW e \in Events, Deliver(i, e)
  PROVE  TypeOK' /\ CheckParts'
<1> DEFINE r == [NoCall EXCEPT !.pc = "find", !.job = e]
<1>0. TypeOK /\ CheckParts /\ RulesOK /\ ChecksOK
  BY TypeParts DEF CheckInv
<1>1. r \in CallType /\ r.pc = "find" /\ r.job = e
  BY NoCallType DEF CallType, Pcs
<1>2. call' = [call EXCEPT ![<<i, "check">>] = r]
  BY DEF Deliver
<1>3. CallsOK' /\ Check(i)' = r /\ \A j \in Instances : j # i => Check(j)' = Check(j)
  BY <1>0, <1>1, <1>2, CheckBecomes
<1>4. Quiet
  BY <1>1, <1>3 DEF Quiet, Deliver, Carrying
<1>5. delivered' \in [Events -> 0..MaxDeliver]
  <2>1. /\ delivered' = [delivered EXCEPT ![e] = delivered[e] + 1]
        /\ delivered[e] \in 0..MaxDeliver /\ delivered[e] < MaxDeliver
    BY <1>0 DEF Deliver, ChecksOK
  <2>2. delivered[e] + 1 \in 0..MaxDeliver
    BY <2>1, FraudAssumption
  <2> QED
    BY <1>0, <2>1, <2>2 DEF ChecksOK
<1>6. TypeOK'
  BY <1>0, <1>3, <1>5, TypeAfter DEF Deliver, ChecksOK
<1> QED
  BY <1>0, <1>4, <1>6, QuietKeeps

(* An event that nobody handles any more stands for another transaction,   *)
(* of which nothing was announced.                                         *)
LEMMA NextTransactionKeeps ==
  ASSUME CheckInv, NEW e \in Events, NextTransaction(e)
  PROVE  TypeOK' /\ CheckParts'
<1>0. /\ TypeOK /\ CarriedScores /\ OneClaim /\ OneScore /\ HonestScores
      /\ RulesOK /\ ChecksOK /\ CallsOK
  BY TypeParts DEF CheckInv, CheckParts
<1>1. PICK s \in Sales : sale' = [sale EXCEPT ![e] = s]
  BY DEF NextTransaction
<1>2. /\ announced' = [announced EXCEPT ![e] = <<>>] /\ delivered' = [delivered EXCEPT ![e] = 0]
      /\ acked' = acked \ {e} /\ processed' = processed \ {e} /\ cases' = cases \ {e}
      /\ UNCHANGED <<rules, call>>
      /\ \A i \in Instances : Check(i).job # e
  BY DEF NextTransaction, Check
<1>3. ChecksOK'
  <2>1. 0 \in 0..MaxDeliver /\ <<>> \in Seq(Scores)
    BY FraudAssumption
  <2> QED
    BY <1>0, <1>1, <1>2, <2>1 DEF ChecksOK
<1>4. TypeOK'
  <2>1. CallsOK'
    BY <1>0, <1>2 DEF CallsOK, JobsFit
  <2> QED
    BY <1>0, <1>2, <1>3, <2>1, TypeAfter
<1>5. /\ \A d \in Events : d # e => announced'[d] = announced[d] /\ sale'[d] = sale[d]
      /\ Len(announced'[e]) = 0
  BY <1>0, <1>1, <1>2 DEF ChecksOK
<1>6. \A i \in Instances : Check(i)' = Check(i)
  BY <1>2 DEF Check
<1>7. \A i \in Instances : Check(i).pc # "idle" => Check(i).job \in Events /\ Check(i).job # e
  BY <1>0, <1>2, CheckIs
<1>8. ~EngineScored(e)' /\ \A d \in Events : d # e => (EngineScored(d)' <=> EngineScored(d))
  BY <1>5 DEF EngineScored
<1>9. CarriedScores'
  BY <1>0, <1>5, <1>6, <1>7 DEF CarriedScores, Carrying, Honest
<1>10. OneClaim'
  <2>1. ASSUME NEW i \in Instances, Check(i).pc \in {"claimed", "saved", "committed"}
        PROVE  /\ Check(i).pc \in {"claimed", "saved"} => Check(i).job \notin processed'
               /\ Check(i).pc \in {"saved", "committed"} => Check(i).job \in cases'
               /\ Check(i).pc = "committed" => Check(i).job \in processed'
    BY <1>0, <1>2, <1>7, <2>1 DEF OneClaim
  <2>2. ASSUME NEW i \in Instances, Check(i).pc = "committed"
        PROVE  ~EngineScored(Check(i).job)'
    <3>1. PICK d \in Events : d = Check(i).job /\ d # e
      BY <1>7, <2>2
    <3>2. ~EngineScored(d)'
      BY <1>0, <1>8, <2>2, <3>1 DEF OneClaim
    <3> QED
      BY <1>6, <3>1, <3>2
  <2> QED
    BY <1>0, <1>6, <2>1, <2>2 DEF OneClaim
<1>11. OneScore'
  <2>1. \A d \in Events : EngineScored(d)' => d \in processed' /\ d \in cases'
    BY <1>0, <1>2, <1>8 DEF OneScore
  <2>2. ASSUME NEW d \in Events, NEW k \in 1..Len(announced'[d]), NEW l \in 1..Len(announced'[d]),
               announced'[d][k] # BuildNeutralScore, announced'[d][l] # BuildNeutralScore
        PROVE  k = l
    <3>1. d # e
      BY <1>5, <2>2
    <3>2. \A u, v \in 1..Len(announced[d]) :
            announced[d][u] # BuildNeutralScore /\ announced[d][v] # BuildNeutralScore => u = v
      BY <1>0 DEF OneScore
    <3> QED
      BY <1>5, <2>2, <3>1, <3>2
  <2> QED
    BY <2>1, <2>2 DEF OneScore
<1>12. HonestScores'
  <2> SUFFICES ASSUME NEW d \in Events, NEW k \in 1..Len(announced'[d])
               PROVE  announced'[d][k] = BuildNeutralScore \/ Honest(announced'[d][k], sale'[d])
    BY DEF HonestScores, Honest
  <2>1. d # e
    BY <1>5
  <2> QED
    BY <1>0, <1>5, <2>1 DEF HonestScores
<1> QED
  BY <1>4, <1>9, <1>10, <1>11, <1>12 DEF CheckParts

------------------------------------------------------------------------------
(* The theorems.                                                           *)

(* CheckInv is inductive.                                                  *)
LEMMA CheckInductive ==
  /\ Init => CheckInv
  /\ CheckInv /\ [Next]_vars => CheckInv'
<1>1. ASSUME Init PROVE CheckInv
  <2>1. \A i \in Instances : Check(i) = NoCall /\ Check(i).pc = "idle"
    BY <1>1, CallersOf DEF Init, Check, NoCall
  <2>2. \A e \in Events : announced[e] = <<>> /\ Len(announced[e]) = 0
    BY <1>1 DEF Init
  <2>3. RulesOK /\ ChecksOK
    BY <1>1, NoCallType, FraudAssumption DEF Init, RulesOK, ChecksOK
  <2>4. CallsOK
    BY <1>1, NoCallType DEF Init, CallsOK, JobsFit, NoCall
  <2>5. CarriedScores /\ OneClaim
    BY <2>1 DEF CarriedScores, Carrying, OneClaim
  <2>6. OneScore /\ HonestScores
    BY <2>2 DEF OneScore, HonestScores, EngineScored
  <2> QED
    BY <2>3, <2>4, <2>5, <2>6, TypeParts DEF CheckInv, CheckParts
<1>2. ASSUME CheckInv, Next PROVE CheckInv'
  <2>1. ASSUME NEW i \in Instances, CheckStep(i) PROVE TypeOK' /\ CheckParts'
    BY <1>2, <2>1, CheckStepKeeps
  <2>2. ASSUME NEW i \in Instances, NEW e \in Events, Deliver(i, e)
        PROVE  TypeOK' /\ CheckParts'
    BY <1>2, <2>2, DeliverKeeps
  <2>3. ASSUME NEW e \in Events, NextTransaction(e) PROVE TypeOK' /\ CheckParts'
    BY <1>2, <2>3, NextTransactionKeeps
  <2>4. CASE \/ \E c \in Callers : CacheStep(c)
             \/ \E i \in Instances : CacheExpires(i)
             \/ \E i \in Operated : ChangeStep(i)
             \/ \E i \in Operated, change \in Changes : StartChange(i, change)
    BY <1>2, <2>4, RulesStepKeeps DEF CheckInv
  <2> QED
    BY <1>2, <2>1, <2>2, <2>3, <2>4 DEF Next, CheckInv
<1>3. ASSUME CheckInv, UNCHANGED vars PROVE CheckInv'
  <2>1. UNCHANGED <<rules, checks, call>>
    BY <1>3 DEF vars
  <2>2. RulesOK' /\ ChecksOK' /\ CallsOK'
    BY <1>3, <2>1, TypeParts, TypeAfter DEF CheckInv, CallsOK, JobsFit
  <2>3. Quiet
    BY <2>1 DEF Quiet, checks, Check
  <2> QED
    BY <1>3, <2>2, <2>3, TypeAfter, QuietKeeps DEF CheckInv
<1> QED
  BY <1>1, <1>2, <1>3 DEF vars

LEMMA CheckInvHolds == Spec => []CheckInv
  BY CheckInductive, PTL DEF Spec

(* The rules, the lists that the instances share, the events and their     *)
(* scores keep their types: a score is of 0 to 100 points, whatever the    *)
(* operators made of the weights, and an instance always has a list for    *)
(* who reads the rules, three holders or not.                              *)
THEOREM TypeCorrect == Spec => []TypeOK
<1>1. CheckInv => TypeOK
  BY DEF CheckInv
<1> QED
  BY <1>1, CheckInvHolds, PTL

(* Whatever queries of the history fail or run out of time, a score that   *)
(* is announced only names rules that the whole history breaks, unless it  *)
(* is the neutral one (buildRuleContext, registerEvalFns).                 *)
THEOREM FailuresNeverAccuse == Spec => []FailedQueryNeverAccuses
<1>1. ASSUME CheckInv PROVE FailedQueryNeverAccuses
  <2> SUFFICES ASSUME NEW e \in Events, NEW k \in DOMAIN announced[e]
               PROVE  \/ announced[e][k] = BuildNeutralScore
                      \/ announced[e][k].rulesHit \subseteq RulesHit(sale[e], sale[e].history)
    BY DEF FailedQueryNeverAccuses
  <2>1. announced[e] \in Seq(Scores)
    BY <1>1 DEF CheckInv, TypeOK
  <2>2. k \in 1..Len(announced[e])
    BY <2>1
  <2> QED
    BY <1>1, <2>2 DEF CheckInv, CheckParts, HonestScores, Honest
<1> QED
  BY <1>1, CheckInvHolds, PTL

(* However many times an event is delivered, to whichever instances, one   *)
(* score of the engine is announced for its transaction at most, and its   *)
(* case is stored by then (TryMarkAsProcessed, FraudCaseRepo.Save).        *)
THEOREM OneEngineScore == Spec => []EngineScoresOnce
<1>1. ASSUME CheckInv PROVE EngineScoresOnce
  <2> SUFFICES ASSUME NEW e \in Events
               PROVE  LET ofTheEngine ==
                            {k \in DOMAIN announced[e] : announced[e][k] # BuildNeutralScore}
                      IN  /\ Cardinality(ofTheEngine) <= 1
                          /\ ofTheEngine # {} => e \in cases
    BY DEF EngineScoresOnce
  <2> DEFINE K == {k \in DOMAIN announced[e] : announced[e][k] # BuildNeutralScore}
  <2>1. announced[e] \in Seq(Scores)
    BY <1>1 DEF CheckInv, TypeOK
  <2>2. \A k \in K : k \in 1..Len(announced[e]) /\ announced[e][k] # BuildNeutralScore
    BY <2>1
  <2>3. \A k, l \in K : k = l
    BY <1>1, <2>2 DEF CheckInv, CheckParts, OneScore
  <2>4. Cardinality(K) <= 1
    <3>1. CASE K = {}
      BY <3>1, FS_EmptySet
    <3>2. ASSUME NEW k \in K PROVE Cardinality(K) <= 1
      <4>1. K = {k}
        BY <2>3
      <4>2. Cardinality({k}) = 1
        BY FS_Singleton
      <4> QED
        BY <4>1, <4>2
    <3> QED
      BY <3>1, <3>2
  <2>5. K # {} => e \in cases
    BY <1>1, <2>2 DEF CheckInv, CheckParts, OneScore, EngineScored
  <2> QED
    BY <2>4, <2>5
<1> QED
  BY <1>1, CheckInvHolds, PTL
==============================================================================
