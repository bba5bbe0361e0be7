----------------------------- MODULE TimingProofs -----------------------------
(***************************************************************************)
(* Three holding times are long enough: with ACQUIRER_STUCK_AFTER of at    *)
(* least three times what a call can hold its slot, its timeout and what   *)
(* it overruns it by, the reconciler never takes a sale from a live        *)
(* worker, for any number of sales, reversals and slots. This is what      *)
(* OutlivesStuckAfter = {} asks for in ChargeProofs.                       *)
(***************************************************************************)
EXTENDS AcquirerTiming, FiniteSetTheorems, SequenceTheorems, TLAPS

------------------------------------------------------------------------------
(* The inductive invariant.                                                *)

(* The time that a call holds its slot is a number of ticks. *)
LEMMA HoldIsNat == MaxHold \in Nat
  BY ConfigAssumption DEF MaxHold

Blocked == {c \in Calls : call[c] = "blocked"}

(* Each of the two consumers runs one handler at a time, so two calls wait *)
(* at most: one of a sale and one of a reversal.                           *)
Queue ==
  /\ \/ waiting = <<>> /\ Blocked = {}
     \/ \E c \in Calls : waiting = <<c>> /\ Blocked = {c}
     \/ \E c, d \in Calls : waiting = <<c, d>> /\ c # d /\ Blocked = {c, d}
  /\ \A u, v \in Sales : call[u] = "blocked" /\ call[v] = "blocked" => u = v
  /\ \A q, r \in Reversals : call[q] = "blocked" /\ call[r] = "blocked" => q = r

(* Somebody waits only while all the slots are taken. *)
Slots ==
  /\ Cardinality(Running) <= MaxConcurrent
  /\ waiting # <<>> => Cardinality(Running) = MaxConcurrent

(* A call that did not begin has no elapsed time. *)
NotBegun == \A c \in Calls : call[c] \in {"idle", "blocked"} => elapsed[c] = 0

(* A sale is PROCESSING from when it wants a slot, and until its worker    *)
(* ends nobody takes it.                                                   *)
LiveIsProcessing ==
  \A s \in Sales :
    /\ state[s] = "FRAUD_CHECKING" <=> call[s] = "idle"
    /\ call[s] = "idle" => age[s] = 0
    /\ call[s] \in {"idle", "blocked", "running"} => reconcile[s] = "idle"
    /\ call[s] \in {"blocked", "running"} => state[s] = "PROCESSING"

(* How old the sale of a live worker can be: at the head of the queue, or  *)
(* behind one, or with its slot.                                           *)
AgeIsBounded ==
  \A s \in Sales :
    /\ call[s] = "running" => age[s] <= elapsed[s] + 2 * MaxHold
    /\ call[s] = "blocked" => \A c \in Running :
         /\ age[s] <= elapsed[c] + MaxHold
         /\ s # Head(waiting) => age[s] <= elapsed[c]

TimingParts ==
  /\ Queue
  /\ Slots
  /\ NotBegun
  /\ LiveIsProcessing
  /\ AgeIsBounded

(* The types of the variables but the queue. *)
Types ==
  /\ state \in [Sales -> {"FRAUD_CHECKING", "PROCESSING", "INDETERMINATE",
                          "APPROVED", "REJECTED"}]
  /\ age \in [Sales -> 0..(StuckAfter + 1)]
  /\ call \in [Calls -> {"idle", "blocked", "running", "done"}]
  /\ elapsed \in [Calls -> 0..MaxHold]
  /\ reconcile \in [Sales -> {"idle", "reverse", "save"}]

TimingInv == Types /\ TimingParts

(* The calls of an instance are finitely many, a sale is not a reversal,   *)
(* and the reconciler waits for three holding times. The defaults (30 s    *)
(* and 2 min) do if a call overruns its timeout by 10 s at most, and those *)
(* of Docker Compose (3 s and 10 s) if it does by a third of a second.     *)
LongEnough ==
  /\ IsFiniteSet(Calls)
  /\ Sales \cap Reversals = {}
  /\ StuckAfter >= 3 * MaxHold

------------------------------------------------------------------------------
(* The slots.                                                              *)

(* The calls in course are finitely many. *)
LEMMA RunningIsFinite ==
  ASSUME IsFiniteSet(Calls)
  PROVE  IsFiniteSet(Running) /\ Cardinality(Running) \in Nat
  BY FS_Subset, FS_CardinalityType DEF Running

(* Where a call wants a slot. *)
LEMMA WantsSlot ==
  ASSUME IsFiniteSet(Calls), Types, Queue, Slots, NEW c \in Calls,
         call[c] = "idle", RunAcquirerCall(c)
  PROVE  \/ /\ waiting = <<>> /\ waiting' = <<>>
            /\ \A d \in Calls : call'[d] = IF d = c THEN "running" ELSE call[d]
            /\ Slots'
         \/ /\ \A d \in Calls : call'[d] = IF d = c THEN "blocked" ELSE call[d]
            /\ waiting' = Append(waiting, c)
            /\ Running' = Running /\ Running # {}
            /\ Slots'
<1>0. Cardinality(Running) \in Nat /\ IsFiniteSet(Running) /\ MaxConcurrent \in Nat \ {0}
  BY RunningIsFinite, ConfigAssumption
<1>1. CASE Cardinality(Running) < MaxConcurrent
  <2>1. /\ waiting = <<>> /\ waiting' = waiting
        /\ \A d \in Calls : call'[d] = IF d = c THEN "running" ELSE call[d]
    BY <1>0, <1>1 DEF RunAcquirerCall, Types, Slots
  <2>2. Running' = Running \cup {c} /\ c \notin Running
    BY <2>1 DEF Running
  <2>3. Cardinality(Running') = Cardinality(Running) + 1
    BY <1>0, <2>2, FS_AddElement
  <2> QED
    BY <1>0, <1>1, <2>1, <2>3 DEF Slots
<1>2. CASE ~(Cardinality(Running) < MaxConcurrent)
  <2>1. /\ waiting' = Append(waiting, c)
        /\ \A d \in Calls : call'[d] = IF d = c THEN "blocked" ELSE call[d]
    BY <1>2 DEF RunAcquirerCall, Types
  <2>2. Running' = Running
    BY <2>1 DEF Running
  <2>3. Running # {}
    BY <1>0, <1>2, FS_EmptySet
  <2> QED
    BY <1>0, <1>2, <2>1, <2>2, <2>3 DEF Slots
<1> QED
  BY <1>1, <1>2

(* Where a call frees its slot: nobody waits, or the first who waits takes *)
(* it over, and the other, if there is one, is then the first.             *)
LEMMA FreesSlot ==
  ASSUME IsFiniteSet(Calls), Types, Queue, Slots, NEW c \in Calls, ReleaseSlot(c)
  PROVE  /\ call[c] = "running"
         /\ \/ /\ waiting = <<>> /\ waiting' = <<>>
               /\ \A d \in Calls : call'[d] = IF d = c THEN "done" ELSE call[d]
            \/ \E h \in Calls :
                 /\ h # c /\ call[h] = "blocked" /\ h = Head(waiting)
                 /\ \A d \in Calls : call'[d] = IF d = c THEN "done"
                                     ELSE IF d = h THEN "running" ELSE call[d]
                 /\ \/ waiting = <<h>> /\ Blocked = {h} /\ waiting' = <<>>
                    \/ \E k \in Calls :
                         /\ waiting = <<h, k>> /\ h # k /\ Blocked = {h, k}
                         /\ waiting' = <<k>>
         /\ Slots'
<1>0. /\ Cardinality(Running) \in Nat /\ IsFiniteSet(Running)
      /\ MaxConcurrent \in Nat /\ c \in Running
  BY RunningIsFinite, ConfigAssumption DEF ReleaseSlot, Running
<1>r. Cardinality(Running \ {c}) = Cardinality(Running) - 1 /\ IsFiniteSet(Running \ {c})
  BY <1>0, FS_RemoveElement
<1>1. CASE waiting = <<>>
  <2>1. /\ waiting' = <<>>
        /\ \A d \in Calls : call'[d] = IF d = c THEN "done" ELSE call[d]
    BY <1>1 DEF ReleaseSlot
  <2>2. Running' = Running \ {c}
    BY <2>1 DEF Running
  <2> QED
    BY <1>0, <1>1, <1>r, <2>1, <2>2 DEF Slots, ReleaseSlot
<1>2. ASSUME NEW h \in Calls, call[h] = "blocked", h = Head(waiting), waiting # <<>>
      PROVE  /\ h # c
             /\ \A d \in Calls : call'[d] = IF d = c THEN "done"
                                 ELSE IF d = h THEN "running" ELSE call[d]
             /\ Slots'
  <2>1. h # c /\ h \notin Running
    BY <1>2 DEF ReleaseSlot, Running
  <2>2. \A d \in Calls : call'[d] = IF d = c THEN "done"
                         ELSE IF d = h THEN "running" ELSE call[d]
    BY <1>2, <2>1 DEF ReleaseSlot
  <2>3. Running' = (Running \ {c}) \cup {h}
    BY <2>1, <2>2 DEF Running
  <2>4. Cardinality(Running') = Cardinality(Running)
    <3> DEFINE S == Running \ {c}
    <3>1. h \notin S /\ IsFiniteSet(S) /\ Cardinality(S) = Cardinality(Running) - 1
      BY <1>r, <2>1
    <3> HIDE DEF S
    <3>2. Cardinality(S \cup {h}) = Cardinality(S) + 1
      BY <3>1, FS_AddElement
    <3> QED
      BY <1>0, <2>3, <3>1, <3>2 DEF S
  <2> QED
    BY <1>0, <1>2, <2>1, <2>2, <2>4 DEF Slots
<1>3. ASSUME NEW h \in Calls, waiting = <<h>>, Blocked = {h}
      PROVE  h = Head(waiting) /\ waiting # <<>> /\ call[h] = "blocked" /\ waiting' = <<>>
  BY <1>3 DEF Blocked, ReleaseSlot
<1>4. ASSUME NEW h \in Calls, NEW k \in Calls, waiting = <<h, k>>, h # k, Blocked = {h, k}
      PROVE  h = Head(waiting) /\ waiting # <<>> /\ call[h] = "blocked" /\ waiting' = <<k>>
  BY <1>4 DEF Blocked, ReleaseSlot
<1> QED
  BY <1>1, <1>2, <1>3, <1>4 DEF Queue, ReleaseSlot

------------------------------------------------------------------------------
(* The steps.                                                              *)

(* The initial state. *)
LEMMA InitTiming == Init => TimingInv
<1> SUFFICES ASSUME Init PROVE TimingInv
  OBVIOUS
<1> USE ConfigAssumption, HoldIsNat DEF Init
<1>1. Types
  BY DEF Types
<1>2. Blocked = {} /\ Running = {}
  BY DEF Blocked, Running
<1>3. Queue
  BY <1>2 DEF Queue, Calls
<1>4. Slots
  BY <1>2, FS_EmptySet DEF Slots
<1>5. NotBegun /\ LiveIsProcessing /\ AgeIsBounded
  BY DEF NotBegun, LiveIsProcessing, AgeIsBounded, Calls
<1> QED
  BY <1>1, <1>3, <1>4, <1>5 DEF TimingInv, TimingParts

(* The types are kept. *)
LEMMA NextTypes ==
  ASSUME Types, Queue, [Next]_vars
  PROVE  Types'
<1> USE ConfigAssumption, HoldIsNat
<1>c. Sales \subseteq Calls /\ Reversals \subseteq Calls
  BY DEF Calls
<1>q. waiting # <<>> => Head(waiting) \in Calls
  BY DEF Queue
<1>1. ASSUME NEW c \in Calls, RunAcquirerCall(c)
      PROVE  call' \in [Calls -> {"idle", "blocked", "running", "done"}]
  BY <1>1 DEF Types, RunAcquirerCall
<1>2. ASSUME NEW c \in Calls, ReleaseSlot(c)
      PROVE  call' \in [Calls -> {"idle", "blocked", "running", "done"}]
  <2>1. \A d \in Calls :
          (CASE d = c -> "done"
             [] waiting # <<>> /\ d = Head(waiting) -> "running"
             [] OTHER -> call[d]) \in {"idle", "blocked", "running", "done"}
    BY DEF Types
  <2> QED
    BY <1>2, <2>1 DEF ReleaseSlot
<1>3. ASSUME NEW s \in Sales, ApplyFraudScore(s) PROVE Types'
  BY <1>1, <1>3, <1>c DEF ApplyFraudScore, Types
<1>5. ASSUME NEW s \in Sales, Answer(s) PROVE Types'
  BY <1>2, <1>5, <1>c DEF Answer, Types
<1>6. ASSUME NEW s \in Sales, CallTimesOut(s) PROVE Types'
  BY <1>2, <1>6, <1>c DEF CallTimesOut, Types
<1>7. ASSUME NEW s \in Sales, TakeOver(s) PROVE Types'
  BY <1>7 DEF TakeOver, Types
<1>8. ASSUME NEW s \in Sales, ReverseAtHost(s) PROVE Types'
  BY <1>8 DEF ReverseAtHost, Types
<1>9. ASSUME NEW s \in Sales, SaveRejection(s) PROVE Types'
  BY <1>9 DEF SaveRejection, Types
<1>10. ASSUME NEW r \in Reversals, ProcessReversal(r) PROVE Types'
  BY <1>1, <1>10, <1>c DEF ProcessReversal, Types
<1>11. ASSUME NEW r \in Reversals, ReversalEnds(r) PROVE Types'
  BY <1>2, <1>11, <1>c DEF ReversalEnds, Types
<1>12. CASE Restart
  BY <1>12 DEF Restart, Types
<1>13. CASE Tick
  <2>1. \A c \in Calls : (IF c \in Running THEN elapsed[c] + 1 ELSE elapsed[c]) \in 0..MaxHold
    BY <1>13 DEF Tick, Types
  <2>2. \A s \in Sales : (IF state[s] = "PROCESSING" /\ age[s] <= StuckAfter
                          THEN age[s] + 1 ELSE age[s]) \in 0..(StuckAfter + 1)
    BY DEF Types
  <2> QED
    BY <1>13, <2>1, <2>2 DEF Tick, Types
<1>14. CASE UNCHANGED vars
  BY <1>14 DEF vars, Types
<1> QED
  BY <1>3, <1>5, <1>6, <1>7, <1>8, <1>9, <1>10, <1>11, <1>12, <1>13, <1>14
  DEF Next

(* What Append does to a queue. *)
LEMMA AppendedLast ==
  ASSUME NEW q \in Seq(Calls), NEW c \in Calls
  PROVE  /\ Append(q, c) \in Seq(Calls)
         /\ Len(Append(q, c)) = Len(q) + 1
         /\ \A i \in 1..Len(q) : Append(q, c)[i] = q[i]
         /\ Append(q, c)[Len(q) + 1] = c
  OBVIOUS

(* Whoever waits second is behind the first.                               *)
LEMMA SecondInQueue ==
  ASSUME NEW d \in Calls, NEW c \in Calls
  PROVE  Append(<<d>>, c) = <<d, c>>
<1> DEFINE first == <<d>>  both == <<d, c>>
<1>1. first \in Seq(Calls) /\ Len(first) = 1 /\ first[1] = d
  OBVIOUS
<1>2. both \in Seq(Calls) /\ Len(both) = 2 /\ both[1] = d /\ both[2] = c
  OBVIOUS
<1> HIDE DEF first, both
<1>3. /\ Append(first, c) \in Seq(Calls)
      /\ Len(Append(first, c)) = Len(first) + 1
      /\ \A i \in 1..Len(first) : Append(first, c)[i] = first[i]
      /\ Append(first, c)[Len(first) + 1] = c
  BY <1>1, AppendedLast
<1>4. Len(first) + 1 = 2 /\ 1 \in 1..Len(first)
  BY <1>1
<1>5. \A i \in 1..2 : Append(first, c)[i] = both[i]
  BY <1>1, <1>2, <1>3, <1>4
<1>6. Append(first, c) = both
  BY <1>2, <1>3, <1>4, <1>5, SeqEqual
<1> QED
  BY <1>6 DEF first, both

(* A call that did not begin, and the queue, when a call wants a slot. No  *)
(* other of its kind is blocked.                                           *)
LEMMA QueueAfterWant ==
  ASSUME LongEnough, Types, Queue, Slots, NotBegun, NEW c \in Calls,
         call[c] = "idle", RunAcquirerCall(c), UNCHANGED elapsed,
         c \in Sales => \A u \in Sales : call[u] # "blocked",
         c \in Reversals => \A q \in Reversals : call[q] # "blocked"
  PROVE  /\ Queue' /\ NotBegun'
         /\ waiting # <<>> => Head(waiting)' = Head(waiting)
<1> USE DEF Queue, Blocked, Calls, LongEnough
<1>1. CASE /\ waiting = <<>> /\ waiting' = <<>>
           /\ \A d \in Calls : call'[d] = IF d = c THEN "running" ELSE call[d]
  BY <1>1 DEF NotBegun
<1>2. CASE /\ \A d \in Calls : call'[d] = IF d = c THEN "blocked" ELSE call[d]
           /\ waiting' = Append(waiting, c)
  <2>1. NotBegun'
    BY <1>2 DEF NotBegun
  <2>2. CASE waiting = <<>> /\ Blocked = {}
    <3>1. waiting' = <<c>> /\ Blocked' = {c}
      BY <1>2, <2>2
    <3> QED
      BY <1>2, <2>1, <2>2, <3>1
  <2>0. Blocked' = Blocked \cup {c}
    BY <1>2
  <2>3. ASSUME NEW d \in Calls, waiting = <<d>>, Blocked = {d}
        PROVE  Queue' /\ Head(waiting)' = Head(waiting)
    <3>1. waiting' = <<d, c>>
      <4> HIDE DEF Queue, Blocked, Calls, LongEnough
      <4>1. waiting' = Append(<<d>>, c)
        BY <1>2, <2>3
      <4>2. Append(<<d>>, c) = <<d, c>>
        BY SecondInQueue
      <4> QED
        BY <4>1, <4>2
    <3>2. call[d] = "blocked" /\ d # c
      <4>1. d \in Blocked
        <5> HIDE DEF Blocked
        <5> QED
          BY <2>3
      <4> QED
        BY <4>1
    <3>3. \E u, v \in Calls : waiting' = <<u, v>> /\ u # v /\ Blocked' = {u, v}
      <4> HIDE DEF Blocked
      <4>1. Blocked' = {d, c}
        BY <2>0, <2>3
      <4> QED
        BY <3>1, <3>2, <4>1
    <3>4. /\ \A u, v \in Sales : call'[u] = "blocked" /\ call'[v] = "blocked" => u = v
          /\ \A q, r \in Reversals : call'[q] = "blocked" /\ call'[r] = "blocked" => q = r
      BY <1>2
    <3> QED
      BY <2>3, <3>1, <3>3, <3>4
  <2>4. ASSUME NEW d \in Calls, NEW e \in Calls, d # e, Blocked = {d, e}
        PROVE  FALSE
    <3>1. call[d] = "blocked" /\ call[e] = "blocked"
      BY <2>4
    <3> QED
      BY <2>4, <3>1
  <2> QED
    BY <2>1, <2>2, <2>3, <2>4
<1> QED
  BY <1>1, <1>2, WantsSlot

(* A sale wants a slot, and its state says so. *)
LEMMA SaleWantsSlot ==
  ASSUME LongEnough, TimingInv, NEW s \in Sales, ApplyFraudScore(s)
  PROVE  TimingParts'
<1> USE ConfigAssumption, HoldIsNat DEF TimingInv, TimingParts, Types
<1>1. /\ s \in Calls /\ s \notin Reversals /\ call[s] = "idle" /\ age[s] = 0
      /\ state' = [state EXCEPT ![s] = "PROCESSING"] /\ RunAcquirerCall(s)
      /\ UNCHANGED <<age, elapsed, reconcile>>
      /\ \A u \in Sales : call[u] # "blocked"
  BY DEF ApplyFraudScore, LiveIsProcessing, Calls, LongEnough
<1>2. Queue' /\ NotBegun'
  BY <1>1, QueueAfterWant
<1>w. \/ /\ waiting = <<>> /\ waiting' = <<>>
         /\ \A d \in Calls : call'[d] = IF d = s THEN "running" ELSE call[d]
         /\ Slots'
      \/ /\ \A d \in Calls : call'[d] = IF d = s THEN "blocked" ELSE call[d]
         /\ Running' = Running /\ Running # {}
         /\ Slots'
  BY <1>1, WantsSlot DEF LongEnough
<1>c. Sales \subseteq Calls
  BY DEF Calls
<1>3. LiveIsProcessing'
  BY <1>1, <1>w, <1>c DEF LiveIsProcessing
<1>4. AgeIsBounded'
  <2>1. \A u \in Sales : u # s => call'[u] # "blocked" /\ call'[u] = call[u]
    BY <1>1, <1>w, <1>c
  <2>2. \A c \in Calls : elapsed[c] \in Nat
    OBVIOUS
  <2>3. age'[s] = 0 /\ UNCHANGED <<age, elapsed>> /\ \A c \in Running' : c \in Calls
    BY <1>1 DEF Running
  <2> QED
    BY <2>1, <2>2, <2>3, <1>c DEF AgeIsBounded
<1> QED
  BY <1>2, <1>w, <1>3, <1>4

(* A reversal wants a slot. *)
LEMMA ReversalWantsSlot ==
  ASSUME LongEnough, TimingInv, NEW r \in Reversals, ProcessReversal(r)
  PROVE  TimingParts'
<1> USE ConfigAssumption, HoldIsNat DEF TimingInv, TimingParts, Types
<1>1. /\ r \in Calls /\ r \notin Sales /\ call[r] = "idle"
      /\ RunAcquirerCall(r) /\ UNCHANGED <<state, age, elapsed, reconcile>>
      /\ \A q \in Reversals : call[q] # "blocked"
  BY DEF ProcessReversal, Calls, LongEnough
<1>2. /\ Queue' /\ NotBegun'
      /\ waiting # <<>> => Head(waiting)' = Head(waiting)
  BY <1>1, QueueAfterWant
<1>w. \/ /\ waiting = <<>> /\ waiting' = <<>>
         /\ \A d \in Calls : call'[d] = IF d = r THEN "running" ELSE call[d]
         /\ Slots'
      \/ /\ \A d \in Calls : call'[d] = IF d = r THEN "blocked" ELSE call[d]
         /\ Running' = Running
         /\ Slots'
  BY <1>1, WantsSlot DEF LongEnough
<1>3. \A u \in Sales : call'[u] = call[u]
  BY <1>1, <1>w DEF Calls
<1>4. LiveIsProcessing'
  BY <1>1, <1>3 DEF LiveIsProcessing
<1>5. AgeIsBounded'
  <2>1. \A u \in Sales : call[u] = "blocked" => waiting # <<>>
    <3>1. Blocked = {} \/ waiting # <<>>
      <4> HIDE DEF Types, Blocked
      <4> QED
        BY DEF Queue
    <3> QED
      BY <3>1 DEF Blocked, Calls
  <2>2. CASE waiting = <<>>
    BY <1>1, <1>3, <2>1, <2>2 DEF AgeIsBounded
  <2>3. CASE waiting # <<>>
    <3>1. Head(waiting') = Head(waiting) /\ Running' = Running
      BY <1>2, <1>w, <2>3
    <3>2. UNCHANGED <<age, elapsed>>
      BY <1>1
    <3> HIDE DEF Types
    <3>3. ASSUME NEW u \in Sales, call[u] = "running"
          PROVE  age[u] <= elapsed[u] + 2 * MaxHold
      BY <3>3 DEF AgeIsBounded
    <3>4. ASSUME NEW u \in Sales, call[u] = "blocked", NEW c \in Running
          PROVE  /\ age[u] <= elapsed[c] + MaxHold
                 /\ u # Head(waiting) => age[u] <= elapsed[c]
      BY <3>4 DEF AgeIsBounded
    <3> QED
      BY <1>3, <3>1, <3>2, <3>3, <3>4 DEF AgeIsBounded
  <2> QED
    BY <2>2, <2>3
<1> QED
  BY <1>2, <1>w, <1>4, <1>5

(* Whoever is blocked, somebody has a slot. *)
LEMMA SomebodyRuns ==
  ASSUME Queue, Slots, NEW c \in Calls, call[c] = "blocked"
  PROVE  waiting # <<>> /\ Running # {}
<1>1. waiting # <<>>
  BY DEF Queue, Blocked
<1>2. Cardinality(Running) # 0
  BY <1>1, ConfigAssumption DEF Slots
<1> QED
  BY <1>1, <1>2, FS_EmptySet

(* A call frees its slot: what the queue and the ages are afterwards.      *)
LEMMA SlotFreed ==
  ASSUME LongEnough, TimingInv, NEW c \in Calls, ReleaseSlot(c),
         UNCHANGED <<age, elapsed>>
  PROVE  /\ Queue' /\ Slots' /\ NotBegun' /\ AgeIsBounded'
         /\ call[c] = "running" /\ call'[c] = "done"
         /\ \A d \in Calls \ {c} :
              call'[d] = call[d] \/ (call[d] = "blocked" /\ call'[d] = "running")
<1> USE ConfigAssumption, HoldIsNat DEF TimingInv, TimingParts, Types
<1>0. Sales \subseteq Calls /\ Reversals \subseteq Calls
  BY DEF Calls
<1>1. /\ call[c] = "running" /\ Slots'
      /\ \/ /\ waiting = <<>> /\ waiting' = <<>>
            /\ \A d \in Calls : call'[d] = IF d = c THEN "done" ELSE call[d]
         \/ \E h \in Calls :
              /\ h # c /\ call[h] = "blocked" /\ h = Head(waiting)
              /\ \A d \in Calls : call'[d] = IF d = c THEN "done"
                                  ELSE IF d = h THEN "running" ELSE call[d]
              /\ \/ waiting = <<h>> /\ Blocked = {h} /\ waiting' = <<>>
                 \/ \E k \in Calls :
                      /\ waiting = <<h, k>> /\ h # k /\ Blocked = {h, k}
                      /\ waiting' = <<k>>
  BY FreesSlot DEF LongEnough
<1>n. \A d \in Calls : elapsed[d] \in 0..MaxHold
  OBVIOUS
<1>a. \A s \in Sales : age[s] \in Nat
  OBVIOUS
<1>2. CASE /\ waiting = <<>> /\ waiting' = <<>>
           /\ \A d \in Calls : call'[d] = IF d = c THEN "done" ELSE call[d]
  <2>1. Blocked = {} /\ Blocked' = {}
    BY <1>1, <1>2 DEF Queue, Blocked
  <2>2. Queue'
    BY <1>0, <1>2, <2>1 DEF Queue, Blocked
  <2>3. NotBegun'
    BY <1>2 DEF NotBegun
  <2>4. AgeIsBounded'
    BY <1>0, <1>2, <2>1 DEF AgeIsBounded, Blocked
  <2> QED
    BY <1>1, <1>2, <2>2, <2>3, <2>4
<1>3. ASSUME NEW h \in Calls, h # c, call[h] = "blocked", h = Head(waiting),
             \A d \in Calls : call'[d] = IF d = c THEN "done"
                              ELSE IF d = h THEN "running" ELSE call[d]
      PROVE  /\ NotBegun' /\ elapsed[h] = 0 /\ Blocked' = Blocked \ {h}
             /\ h \in Sales => age[h] <= 2 * MaxHold
             /\ \A d \in Sales : call[d] = "blocked" /\ d # h =>
                  \A e \in Running' : age[d] <= elapsed[e] + MaxHold
             /\ \A u, v \in Sales : call'[u] = "blocked" /\ call'[v] = "blocked" => u = v
             /\ \A q, r \in Reversals : call'[q] = "blocked" /\ call'[r] = "blocked" => q = r
  <2>1. NotBegun' /\ elapsed[h] = 0
    BY <1>3 DEF NotBegun
  <2>2. Blocked' = Blocked \ {h}
    BY <1>1, <1>3 DEF Blocked
  <2>3. c \in Running /\ Running' = (Running \ {c}) \cup {h}
    BY <1>1, <1>3 DEF Running
  <2>4. h \in Sales => age[h] <= 2 * MaxHold
    <3>1. h \in Sales => age[h] <= elapsed[c] + MaxHold
      BY <1>3, <2>3 DEF AgeIsBounded
    <3> QED
      BY <1>n, <1>a, <3>1
  <2>5. ASSUME NEW d \in Sales, call[d] = "blocked", d # h, NEW e \in Running'
        PROVE  age[d] <= elapsed[e] + MaxHold
    <3>1. age[d] <= elapsed[c] /\ \A f \in Running : age[d] <= elapsed[f] + MaxHold
      BY <1>3, <2>3, <2>5 DEF AgeIsBounded
    <3>2. CASE e = h
      <4>1. age[d] <= MaxHold
        BY <3>1, <1>n, <1>a
      <4> QED
        BY <4>1, <3>2, <2>1, <1>a
    <3>3. CASE e \in Running
      BY <3>1, <3>3
    <3> QED
      BY <2>3, <2>5, <3>2, <3>3
  <2>6. /\ \A u, v \in Sales : call'[u] = "blocked" /\ call'[v] = "blocked" => u = v
        /\ \A q, r \in Reversals : call'[q] = "blocked" /\ call'[r] = "blocked" => q = r
    BY <1>0, <1>3 DEF Queue
  <2> QED
    BY <2>1, <2>2, <2>4, <2>5, <2>6
<1>4. ASSUME NEW h \in Calls, h # c, call[h] = "blocked", h = Head(waiting),
             \A d \in Calls : call'[d] = IF d = c THEN "done"
                              ELSE IF d = h THEN "running" ELSE call[d],
             \/ waiting = <<h>> /\ Blocked = {h} /\ waiting' = <<>>
             \/ \E k \in Calls :
                  /\ waiting = <<h, k>> /\ h # k /\ Blocked = {h, k}
                  /\ waiting' = <<k>>
      PROVE  Queue' /\ AgeIsBounded'
  <2>1. /\ elapsed[h] = 0 /\ Blocked' = Blocked \ {h}
        /\ h \in Sales => age[h] <= 2 * MaxHold
        /\ \A d \in Sales : call[d] = "blocked" /\ d # h =>
             \A e \in Running' : age[d] <= elapsed[e] + MaxHold
        /\ \A u, v \in Sales : call'[u] = "blocked" /\ call'[v] = "blocked" => u = v
        /\ \A q, r \in Reversals : call'[q] = "blocked" /\ call'[r] = "blocked" => q = r
    BY <1>3, <1>4
  <2>2. \/ waiting' = <<>> /\ Blocked' = {}
        \/ \E k \in Calls : waiting' = <<k>> /\ Blocked' = {k}
    <3> HIDE DEF Blocked
    <3> QED
      BY <1>4, <2>1
  <2>3. Queue'
    BY <2>1, <2>2 DEF Queue
  <2>4. \A d \in Blocked' : d = Head(waiting')
    <3> HIDE DEF Blocked
    <3> QED
      BY <2>2
  <2>5. \A s \in Sales : call'[s] = "running" => age'[s] <= elapsed'[s] + 2 * MaxHold
    <3> SUFFICES ASSUME NEW s \in Sales, call'[s] = "running"
                 PROVE  age[s] <= elapsed[s] + 2 * MaxHold
      OBVIOUS
    <3>1. CASE s = h
      BY <2>1, <3>1, <1>a
    <3>2. CASE s # h
      BY <1>0, <1>4, <3>2 DEF AgeIsBounded
    <3> QED
      BY <3>1, <3>2
  <2>6. \A s \in Sales : call'[s] = "blocked" => \A e \in Running' :
          age'[s] <= elapsed'[e] + MaxHold /\ s = Head(waiting')
    <3> SUFFICES ASSUME NEW s \in Sales, call'[s] = "blocked", NEW e \in Running'
                 PROVE  age[s] <= elapsed[e] + MaxHold /\ s = Head(waiting')
      OBVIOUS
    <3>1. s # h /\ call[s] = "blocked"
      BY <1>0, <1>4
    <3>2. s = Head(waiting')
      BY <1>0, <2>4 DEF Blocked
    <3> QED
      BY <2>1, <3>1, <3>2
  <2> QED
    BY <2>3, <2>5, <2>6 DEF AgeIsBounded
<1>5. call'[c] = "done"
  BY <1>1
<1>6. \A d \in Calls \ {c} :
        call'[d] = call[d] \/ (call[d] = "blocked" /\ call'[d] = "running")
  BY <1>1
<1> QED
  BY <1>1, <1>2, <1>3, <1>4, <1>5, <1>6

(* Between its answer and its timeout nothing else is known of a sale.     *)
LEMMA CallOfSaleEnds ==
  ASSUME LongEnough, TimingInv, NEW s \in Sales, ReleaseSlot(s),
         UNCHANGED <<age, elapsed, reconcile>>,
         NEW outcome \in {"REJECTED", "APPROVED", "INDETERMINATE"},
         state' = [state EXCEPT ![s] = outcome]
  PROVE  TimingParts'
<1> USE DEF TimingInv, TimingParts
<1>c. Sales \subseteq Calls
  BY DEF Calls
<1>1. /\ Queue' /\ Slots' /\ NotBegun' /\ AgeIsBounded'
      /\ call[s] = "running" /\ call'[s] = "done"
      /\ \A d \in Calls \ {s} :
           call'[d] = call[d] \/ (call[d] = "blocked" /\ call'[d] = "running")
  BY <1>c, SlotFreed
<1>2. state'[s] = outcome /\ \A u \in Sales \ {s} : state'[u] = state[u]
  BY DEF Types
<1>3. LiveIsProcessing'
  <2>1. ASSUME NEW u \in Sales, u # s
        PROVE  /\ state'[u] = "FRAUD_CHECKING" <=> call'[u] = "idle"
               /\ call'[u] = "idle" => age'[u] = 0
               /\ call'[u] \in {"idle", "blocked", "running"} => reconcile'[u] = "idle"
               /\ call'[u] \in {"blocked", "running"} => state'[u] = "PROCESSING"
    BY <1>c, <1>1, <1>2, <2>1 DEF LiveIsProcessing
  <2> QED
    BY <1>1, <1>2, <2>1 DEF LiveIsProcessing
<1> QED
  BY <1>1, <1>3

(* The worker of a sale that is PROCESSING is done, or the sale is not old *)
(* enough to be taken: whoever waits does so behind a call that ends.      *)
LEMMA WorkerIsDone ==
  ASSUME LongEnough, TimingInv, NEW s \in Sales,
         state[s] = "PROCESSING", age[s] > StuckAfter
  PROVE  call[s] = "done"
<1> USE ConfigAssumption, HoldIsNat DEF TimingInv, TimingParts
<1>c. s \in Calls /\ age[s] \in Nat /\ StuckAfter \in Nat /\ MaxHold \in Nat
      /\ StuckAfter >= 3 * MaxHold
  BY DEF Calls, Types, LongEnough
<1>e. \A c \in Calls : elapsed[c] \in Nat /\ elapsed[c] <= MaxHold
  BY DEF Types
<1>1. call[s] # "idle"
  BY DEF LiveIsProcessing
<1>2. call[s] # "running"
  <2> SUFFICES ASSUME call[s] = "running" PROVE FALSE
    OBVIOUS
  <2>1. age[s] <= elapsed[s] + 2 * MaxHold
    BY DEF AgeIsBounded
  <2> QED
    BY <1>c, <1>e, <2>1
<1>3. call[s] # "blocked"
  <2> SUFFICES ASSUME call[s] = "blocked" PROVE FALSE
    OBVIOUS
  <2>1. PICK c \in Running : TRUE
    BY <1>c, SomebodyRuns
  <2>2. c \in Calls /\ age[s] <= elapsed[c] + MaxHold
    BY DEF AgeIsBounded, Running
  <2> QED
    BY <1>c, <1>e, <2>2
<1> QED
  BY <1>c, <1>1, <1>2, <1>3 DEF Types

(* The reconciler moves a sale on, whose worker is done.                   *)
LEMMA ReconcilerSteps ==
  ASSUME LongEnough, TimingInv, NEW s \in Sales,
         TakeOver(s) \/ ReverseAtHost(s) \/ SaveRejection(s)
  PROVE  TimingParts'
<1> USE DEF TimingInv, TimingParts
<1>1. call[s] = "done" /\ UNCHANGED <<age, call, elapsed, waiting>>
  <2>1. CASE TakeOver(s) /\ state[s] = "INDETERMINATE"
    <3>1. call[s] \notin {"idle", "blocked", "running"}
      BY <2>1 DEF LiveIsProcessing
    <3> QED
      BY <2>1, <3>1 DEF Types, Calls, TakeOver
  <2>2. CASE TakeOver(s) /\ state[s] = "PROCESSING" /\ age[s] > StuckAfter
    BY <2>2, WorkerIsDone DEF TakeOver
  <2>3. CASE ReverseAtHost(s) \/ SaveRejection(s)
    <3>1. reconcile[s] # "idle" /\ UNCHANGED <<age, call, elapsed, waiting>>
      BY <2>3 DEF ReverseAtHost, SaveRejection
    <3>2. call[s] \notin {"idle", "blocked", "running"}
      BY <3>1 DEF LiveIsProcessing
    <3> QED
      BY <3>1, <3>2 DEF Types, Calls
  <2> QED
    BY <2>1, <2>2, <2>3 DEF TakeOver
<1>2. Queue' /\ Slots' /\ NotBegun' /\ AgeIsBounded'
  <2>1. Blocked' = Blocked /\ Running' = Running
    BY <1>1 DEF Blocked, Running
  <2> QED
    BY <1>1, <2>1 DEF Queue, Slots, NotBegun, AgeIsBounded
<1>3. state[s] # "FRAUD_CHECKING"
  BY <1>1 DEF LiveIsProcessing
<1>4. CASE TakeOver(s)
  <2>1. LiveIsProcessing'
    BY <1>1, <1>3, <1>4 DEF TakeOver, LiveIsProcessing, Types
  <2> QED
    BY <1>2, <2>1
<1>5. CASE ReverseAtHost(s)
  <2>1. LiveIsProcessing'
    BY <1>1, <1>3, <1>5 DEF ReverseAtHost, LiveIsProcessing, Types
  <2> QED
    BY <1>2, <2>1
<1>6. CASE SaveRejection(s)
  <2>1. LiveIsProcessing'
    BY <1>1, <1>3, <1>6 DEF SaveRejection, LiveIsProcessing, Types
  <2> QED
    BY <1>2, <2>1
<1> QED
  BY <1>4, <1>5, <1>6

(* A reversal frees its slot. *)
LEMMA CallOfReversalEnds ==
  ASSUME LongEnough, TimingInv, NEW r \in Reversals, ReversalEnds(r)
  PROVE  TimingParts'
<1> USE DEF TimingInv, TimingParts
<1>c. Sales \subseteq Calls /\ r \in Calls /\ r \notin Sales
  BY DEF Calls, LongEnough
<1>0. ReleaseSlot(r) /\ UNCHANGED <<state, age, elapsed, reconcile>>
  BY DEF ReversalEnds
<1>1. /\ Queue' /\ Slots' /\ NotBegun' /\ AgeIsBounded'
      /\ \A d \in Calls \ {r} :
           call'[d] = call[d] \/ (call[d] = "blocked" /\ call'[d] = "running")
  BY <1>c, <1>0, SlotFreed
<1>2. LiveIsProcessing'
  <2>1. ASSUME NEW u \in Sales
        PROVE  /\ state'[u] = "FRAUD_CHECKING" <=> call'[u] = "idle"
               /\ call'[u] = "idle" => age'[u] = 0
               /\ call'[u] \in {"idle", "blocked", "running"} => reconcile'[u] = "idle"
               /\ call'[u] \in {"blocked", "running"} => state'[u] = "PROCESSING"
    BY <1>c, <1>0, <1>1, <2>1 DEF LiveIsProcessing
  <2> QED
    BY <2>1 DEF LiveIsProcessing
<1> QED
  BY <1>1, <1>2

(* The process restarts: no call lives. *)
LEMMA RestartStep ==
  ASSUME TimingInv, Restart
  PROVE  TimingParts'
<1> USE ConfigAssumption, HoldIsNat DEF TimingInv, TimingParts
<1>c. Sales \subseteq Calls /\ Reversals \subseteq Calls
  BY DEF Calls
<1>1. /\ UNCHANGED <<state, age, elapsed, reconcile>> /\ waiting' = <<>>
      /\ \A c \in Calls : call'[c] = IF call[c] = "idle" THEN "idle" ELSE "done"
  BY DEF Restart
<1>2. Blocked' = {} /\ Running' = {}
  BY <1>1 DEF Blocked, Running
<1>3. Queue'
  BY <1>c, <1>1, <1>2 DEF Queue
<1>4. Slots'
  BY <1>1, <1>2, FS_EmptySet DEF Slots
<1>5. NotBegun' /\ LiveIsProcessing' /\ AgeIsBounded'
  BY <1>c, <1>1 DEF NotBegun, LiveIsProcessing, AgeIsBounded
<1> QED
  BY <1>3, <1>4, <1>5

(* Time advances: for whoever waits it does so for whoever has the slots.  *)
LEMMA TickStep ==
  ASSUME TimingInv, Tick
  PROVE  TimingParts'
<1> USE ConfigAssumption, HoldIsNat DEF TimingInv, TimingParts
<1>c. Sales \subseteq Calls
  BY DEF Calls
<1>1. /\ UNCHANGED <<state, call, waiting, reconcile>>
      /\ \A c \in Calls :
           elapsed'[c] = IF c \in Running THEN elapsed[c] + 1 ELSE elapsed[c]
      /\ \A s \in Sales :
           age'[s] = IF state[s] = "PROCESSING" /\ age[s] <= StuckAfter
                     THEN age[s] + 1 ELSE age[s]
  BY DEF Tick
<1>2. Blocked' = Blocked /\ Running' = Running
  BY <1>1 DEF Blocked, Running
<1>3. Queue' /\ Slots'
  BY <1>1, <1>2 DEF Queue, Slots
<1>4. NotBegun' /\ LiveIsProcessing'
  BY <1>c, <1>1 DEF NotBegun, LiveIsProcessing, Running
<1>5. AgeIsBounded'
  <2>n. /\ \A c \in Calls : elapsed[c] \in Nat
        /\ \A s \in Sales : age[s] \in Nat /\ age'[s] \in Nat /\ age'[s] <= age[s] + 1
        /\ MaxHold \in Nat
    BY <1>1 DEF Types
  <2>r. \A c \in Running : c \in Calls /\ elapsed'[c] = elapsed[c] + 1
    BY <1>1 DEF Running
  <2>1. ASSUME NEW s \in Sales, call[s] = "running"
        PROVE  age'[s] <= elapsed'[s] + 2 * MaxHold
    <3>1. age[s] <= elapsed[s] + 2 * MaxHold
      BY <2>1 DEF AgeIsBounded
    <3>2. s \in Running
      BY <1>c, <2>1 DEF Running
    <3> QED
      BY <2>n, <2>r, <3>1, <3>2
  <2>2. ASSUME NEW s \in Sales, call[s] = "blocked", NEW c \in Running
        PROVE  /\ age'[s] <= elapsed'[c] + MaxHold
               /\ s # Head(waiting) => age'[s] <= elapsed'[c]
    <3>1. /\ age[s] <= elapsed[c] + MaxHold
          /\ s # Head(waiting) => age[s] <= elapsed[c]
      BY <2>2 DEF AgeIsBounded
    <3> QED
      BY <2>n, <2>r, <3>1
  <2> QED
    BY <1>1, <1>2, <2>1, <2>2 DEF AgeIsBounded
<1> QED
  BY <1>3, <1>4, <1>5

(* Every step keeps the invariant. *)
LEMMA NextTiming ==
  ASSUME LongEnough, TimingInv, [Next]_vars
  PROVE  TimingInv'
<1>t. Types'
  BY NextTypes DEF TimingInv, TimingParts
<1> SUFFICES TimingParts'
  BY <1>t DEF TimingInv
<1>1. ASSUME NEW s \in Sales, ApplyFraudScore(s) PROVE TimingParts'
  BY <1>1, SaleWantsSlot
<1>3. ASSUME NEW s \in Sales, Answer(s) PROVE TimingParts'
  <2>1. state[s] = "PROCESSING"
    BY <1>3 DEF Answer, ReleaseSlot, TimingInv, TimingParts, LiveIsProcessing
  <2>2. PICK outcome \in {"APPROVED", "REJECTED"} :
          state' = [state EXCEPT ![s] = outcome]
    BY <1>3, <2>1 DEF Answer
  <2>3. ReleaseSlot(s) /\ UNCHANGED <<age, elapsed, reconcile>>
    BY <1>3 DEF Answer
  <2> QED
    BY <2>2, <2>3, CallOfSaleEnds
<1>4. ASSUME NEW s \in Sales, CallTimesOut(s) PROVE TimingParts'
  <2>1. state[s] = "PROCESSING"
    BY <1>4 DEF CallTimesOut, ReleaseSlot, TimingInv, TimingParts, LiveIsProcessing
  <2>2. /\ ReleaseSlot(s) /\ UNCHANGED <<age, elapsed, reconcile>>
        /\ state' = [state EXCEPT ![s] = "INDETERMINATE"]
    BY <1>4, <2>1 DEF CallTimesOut
  <2> QED
    BY <2>2, CallOfSaleEnds
<1>5. ASSUME NEW s \in Sales, TakeOver(s) \/ ReverseAtHost(s) \/ SaveRejection(s)
      PROVE  TimingParts'
  BY <1>5, ReconcilerSteps
<1>6. ASSUME NEW r \in Reversals, ProcessReversal(r) PROVE TimingParts'
  BY <1>6, ReversalWantsSlot
<1>7. ASSUME NEW r \in Reversals, ReversalEnds(r) PROVE TimingParts'
  BY <1>7, CallOfReversalEnds
<1>8. CASE Restart
  BY <1>8, RestartStep
<1>9. CASE Tick
  BY <1>9, TickStep
<1>10. CASE UNCHANGED vars
  <2>1. UNCHANGED <<state, age, call, elapsed, waiting, reconcile>>
    BY <1>10 DEF vars
  <2>2. Blocked' = Blocked /\ Running' = Running
    BY <2>1 DEF Blocked, Running
  <2> QED
    BY <2>1, <2>2 DEF TimingInv, TimingParts, Queue, Slots, NotBegun,
       LiveIsProcessing, AgeIsBounded
<1> QED
  BY <1>1, <1>3, <1>4, <1>5, <1>6, <1>7, <1>8, <1>9, <1>10 DEF Next

------------------------------------------------------------------------------
(* The invariant holds.                                                    *)
LEMMA AlwaysTimingInv == ASSUME LongEnough PROVE Spec => []TimingInv
<1>1. TimingInv /\ [Next]_vars => TimingInv'
  BY NextTiming
<1> QED
  BY <1>1, InitTiming, PTL DEF Spec

(* The queue is a sequence of calls. *)
LEMMA QueueOfCalls ==
  ASSUME Queue
  PROVE  waiting \in Seq(Calls) /\ Blocked = {waiting[k] : k \in DOMAIN waiting}
<1>1. CASE waiting = <<>> /\ Blocked = {}
  BY <1>1
<1>2. ASSUME NEW c \in Calls, waiting = <<c>>, Blocked = {c}
      PROVE  waiting \in Seq(Calls) /\ Blocked = {waiting[k] : k \in DOMAIN waiting}
  BY <1>2
<1>3. ASSUME NEW c \in Calls, NEW d \in Calls, waiting = <<c, d>>, Blocked = {c, d}
      PROVE  waiting \in Seq(Calls) /\ Blocked = {waiting[k] : k \in DOMAIN waiting}
  BY <1>3
<1> QED
  BY <1>1, <1>2, <1>3 DEF Queue

------------------------------------------------------------------------------
(* The theorems.                                                           *)

(* The variables keep their types. *)
THEOREM TypeCorrect == ASSUME LongEnough PROVE Spec => []TypeOK
<1>1. TimingInv => TypeOK
  BY QueueOfCalls DEF TimingInv, TimingParts, Types, TypeOK
<1> QED
  BY <1>1, AlwaysTimingInv, PTL

(* A sale old enough for the reconciler has no live worker: a call waits   *)
(* for at most two others, and each of the three holds a slot for MaxHold. *)
THEOREM ThreeHoldingTimesAreEnough ==
  ASSUME LongEnough PROVE Spec => []WorkerIsDoneWhenStuck
<1>1. TimingInv => WorkerIsDoneWhenStuck
  BY WorkerIsDone DEF WorkerIsDoneWhenStuck
<1> QED
  BY <1>1, AlwaysTimingInv, PTL

(* No call in progress is reversed, a blocked one neither, provided that   *)
(* ACQUIRER_STUCK_AFTER is at least three holding times. That it exceeds   *)
(* one timeout, as config.go demands, does not suffice.                    *)
THEOREM NoLiveCallIsReversed ==
  ASSUME LongEnough PROVE Spec => []NoCallInProgressIsReversed
<1>1. TimingInv => NoCallInProgressIsReversed
  BY DEF TimingInv, TimingParts, LiveIsProcessing, NoCallInProgressIsReversed
<1> QED
  BY <1>1, AlwaysTimingInv, PTL

(* The slots bound the calls, and handlers wait in order and only while    *)
(* all of them are taken.                                                  *)
THEOREM SlotsAreBounded ==
  ASSUME LongEnough PROVE Spec => []SlotsAreShared
<1>1. TimingInv => SlotsAreShared
  BY QueueOfCalls DEF TimingInv, TimingParts, Slots, SlotsAreShared, Blocked
<1> QED
  BY <1>1, AlwaysTimingInv, PTL
==============================================================================
