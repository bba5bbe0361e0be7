--------------------------- MODULE AcquirerTiming ---------------------------
(***************************************************************************)
(* How long a sale can be PROCESSING while its worker is alive. One        *)
(* instance of Authorization: the slots of ACQUIRER_MAX_CONCURRENT, the    *)
(* NATS handlers that block while they are all taken, the timeout of each  *)
(* call, and the reconciler, which takes a sale that has been PROCESSING   *)
(* for longer than ACQUIRER_STUCK_AFTER. Time advances in ticks.           *)
(*                                                                         *)
(* A call holds its slot for longer than its timeout: the round trip waits *)
(* for writeMu without looking at its context, writes with a deadline of   *)
(* its own, and the result is saved and published before the slot is given *)
(* back. Nothing in the code bounds the sum; Grace does here.              *)
(*                                                                         *)
(* Authorization.tla takes from here its constant OutlivesStuckAfter: it   *)
(* is empty when WorkerIsDoneWhenStuck holds. The definitions marked as    *)
(* variants are not part of the specification, as there.                   *)
(***************************************************************************)
EXTENDS Naturals, Sequences, FiniteSets

CONSTANTS
  Sales,          \* sales whose fraud score arrives at this instance
  Reversals,      \* reversal requests that arrive at this instance
  MaxConcurrent,  \* ACQUIRER_MAX_CONCURRENT
  Timeout,        \* ACQUIRER_TIMEOUT_SECONDS, in ticks
  Grace,          \* bound: how much longer a call can hold its slot, in ticks
  StuckAfter      \* ACQUIRER_STUCK_AFTER, in ticks

(* config.Load refuses to start otherwise. *)
ASSUME ConfigAssumption ==
  /\ MaxConcurrent \in Nat /\ MaxConcurrent >= 1
  /\ Timeout \in Nat /\ Timeout >= 1
  /\ Grace \in Nat
  /\ StuckAfter \in Nat /\ StuckAfter > Timeout

Calls == Sales \cup Reversals

(* How long a call can hold its slot. *)
MaxHold == Timeout + Grace

VARIABLES
  state,      \* transactions.state of each sale
  age,        \* ticks since processing_started_at, up to StuckAfter + 1
  call,       \* the call of each sale and of each reversal request
  elapsed,    \* ticks since the call took its slot
  waiting,    \* calls whose handler is blocked on the slots, in order
  reconcile   \* where the reconciler is with each sale

vars == <<state, age, call, elapsed, waiting, reconcile>>

Running == {c \in Calls : call[c] = "running"}

TypeOK ==
  /\ state \in [Sales -> {"FRAUD_CHECKING", "PROCESSING", "INDETERMINATE",
                          "APPROVED", "REJECTED"}]
  /\ age \in [Sales -> 0..(StuckAfter + 1)]
  /\ call \in [Calls -> {"idle", "blocked", "running", "done"}]
  /\ elapsed \in [Calls -> 0..MaxHold]
  /\ waiting \in Seq(Calls)
  /\ reconcile \in [Sales -> {"idle", "reverse", "save"}]

Init ==
  /\ state = [s \in Sales |-> "FRAUD_CHECKING"]
  /\ age = [s \in Sales |-> 0]
  /\ call = [c \in Calls |-> "idle"]
  /\ elapsed = [c \in Calls |-> 0]
  /\ waiting = <<>>
  /\ reconcile = [s \in Sales |-> "idle"]

(* runAcquirerCall: the call takes a slot, or its handler blocks until one *)
(* is free. Nothing cancels that wait.                                     *)
RunAcquirerCall(c) ==
  IF Cardinality(Running) < MaxConcurrent
  THEN /\ call' = [call EXCEPT ![c] = "running"]
       /\ UNCHANGED waiting
  ELSE /\ call' = [call EXCEPT ![c] = "blocked"]
       /\ waiting' = Append(waiting, c)

(* Variant: the slot is not given back. *)
LoseSlot(c) ==
  /\ call[c] = "running"
  /\ call' = [call EXCEPT ![c] = "done"]
  /\ UNCHANGED waiting

(* A call ends and frees its slot. A blocked handler takes it over at      *)
(* once, in the order in which they blocked.                               *)
ReleaseSlot(c) ==
  /\ call[c] = "running"
  /\ call' = [d \in Calls |->
       CASE d = c -> "done"
         [] waiting # <<>> /\ d = Head(waiting) -> "running"
         [] OTHER -> call[d]]
  /\ waiting' = IF waiting = <<>> THEN waiting ELSE Tail(waiting)

(* ApplyFraudScore: the sale is saved as PROCESSING, and then waits for a  *)
(* slot. A consumer runs one handler at a time.                            *)
ApplyFraudScore(s) ==
  /\ state[s] = "FRAUD_CHECKING"
  /\ \A u \in Sales : call[u] # "blocked"
  /\ state' = [state EXCEPT ![s] = "PROCESSING"]
  /\ RunAcquirerCall(s)
  /\ UNCHANGED <<age, elapsed, reconcile>>

(* ProcessReversal of some other, approved sale. *)
ProcessReversal(r) ==
  /\ call[r] = "idle"
  /\ \A q \in Reversals : call[q] # "blocked"
  /\ RunAcquirerCall(r)
  /\ UNCHANGED <<state, age, elapsed, reconcile>>

(* The answer arrives in time and is saved if the sale is still in         *)
(* PROCESSING.                                                             *)
Answer(s) ==
  /\ ReleaseSlot(s)
  /\ \E outcome \in {"APPROVED", "REJECTED"} :
       state' = [state EXCEPT ![s] = IF @ = "PROCESSING" THEN outcome ELSE @]
  /\ UNCHANGED <<age, elapsed, reconcile>>

(* withAcquirerTimeout: the call ends without an answer, at its timeout or *)
(* as soon afterwards as it looks at its context.                          *)
CallTimesOut(s) ==
  /\ elapsed[s] >= Timeout
  /\ ReleaseSlot(s)
  /\ state' = [state EXCEPT ![s] = IF @ = "PROCESSING" THEN "INDETERMINATE" ELSE @]
  /\ UNCHANGED <<age, elapsed, reconcile>>

(* A reversal ends, answered or not. *)
ReversalEnds(r) ==
  /\ ReleaseSlot(r)
  /\ UNCHANGED <<state, age, elapsed, reconcile>>

(* The process dies with its calls and starts again. *)
Restart ==
  /\ \E c \in Calls : call[c] \in {"blocked", "running"}
  /\ call' = [c \in Calls |-> IF call[c] = "idle" THEN "idle" ELSE "done"]
  /\ waiting' = <<>>
  /\ UNCHANGED <<state, age, elapsed, reconcile>>

(* Variant: a sale is taken as soon as one call could have timed out. *)
TakeOverEarly(s) ==
  /\ reconcile[s] = "idle"
  /\ \/ state[s] = "INDETERMINATE"
     \/ state[s] = "PROCESSING" /\ age[s] > Timeout
  /\ state' = [state EXCEPT ![s] = "INDETERMINATE"]
  /\ reconcile' = [reconcile EXCEPT ![s] = "reverse"]
  /\ UNCHANGED <<age, call, elapsed, waiting>>

(* FindUnresolved and the UPDATE that takes the sale from its worker. *)
TakeOver(s) ==
  /\ reconcile[s] = "idle"
  /\ \/ state[s] = "INDETERMINATE"
     \/ state[s] = "PROCESSING" /\ age[s] > StuckAfter
  /\ state' = [state EXCEPT ![s] = "INDETERMINATE"]
  /\ reconcile' = [reconcile EXCEPT ![s] = "reverse"]
  /\ UNCHANGED <<age, call, elapsed, waiting>>

(* The host has answered the reversal. *)
ReverseAtHost(s) ==
  /\ reconcile[s] = "reverse"
  /\ reconcile' = [reconcile EXCEPT ![s] = "save"]
  /\ UNCHANGED <<state, age, call, elapsed, waiting>>

SaveRejection(s) ==
  /\ reconcile[s] = "save"
  /\ state' = [state EXCEPT ![s] = "REJECTED"]
  /\ reconcile' = [reconcile EXCEPT ![s] = "idle"]
  /\ UNCHANGED <<age, call, elapsed, waiting>>

(* Variant: calls have no timeout. *)
TickWithoutTimeout ==
  /\ elapsed' = [c \in Calls |-> IF c \in Running THEN elapsed[c] + 1 ELSE elapsed[c]]
  /\ age' = [s \in Sales |-> IF state[s] = "PROCESSING" /\ age[s] <= StuckAfter
                             THEN age[s] + 1 ELSE age[s]]
  /\ UNCHANGED <<state, call, waiting, reconcile>>

(* Time advances, but no call holds its slot for longer than MaxHold. *)
Tick ==
  /\ \A c \in Running : elapsed[c] < MaxHold
  /\ elapsed' = [c \in Calls |-> IF c \in Running THEN elapsed[c] + 1 ELSE elapsed[c]]
  /\ age' = [s \in Sales |-> IF state[s] = "PROCESSING" /\ age[s] <= StuckAfter
                             THEN age[s] + 1 ELSE age[s]]
  /\ UNCHANGED <<state, call, waiting, reconcile>>

Next ==
  \/ \E s \in Sales :
       \/ ApplyFraudScore(s) \/ Answer(s) \/ CallTimesOut(s)
       \/ TakeOver(s) \/ ReverseAtHost(s) \/ SaveRejection(s)
  \/ \E r \in Reversals : ProcessReversal(r) \/ ReversalEnds(r)
  \/ Restart
  \/ Tick

Spec == Init /\ [][Next]_vars

------------------------------------------------------------------------------
(* The reconciler reverses no sale whose call is made, or will be: that of *)
(* a handler that waits for a slot. config.go asks of ACQUIRER_STUCK_AFTER *)
(* that it exceed one ACQUIRER_TIMEOUT_SECONDS, because a shorter one      *)
(* would reverse calls in progress. That is needed and not enough: a sale  *)
(* is PROCESSING from before it has a slot, and it can wait for two calls  *)
(* before its own. What holds is this property with an                     *)
(* ACQUIRER_STUCK_AFTER of at least three times what a call holds a slot.  *)
NoCallInProgressIsReversed ==
  \A s \in Sales : reconcile[s] = "save" => call[s] \notin {"blocked", "running"}

(* With the same three holding times, a sale old enough for the reconciler *)
(* has no live worker.                                                     *)
WorkerIsDoneWhenStuck ==
  \A s \in Sales : state[s] = "PROCESSING" /\ age[s] > StuckAfter =>
                   call[s] = "done"

(* The slots bound the calls in progress, and a handler only waits while   *)
(* they are all taken, in the order of the queue.                          *)
SlotsAreShared ==
  /\ Cardinality(Running) <= MaxConcurrent
  /\ waiting # <<>> => Cardinality(Running) = MaxConcurrent
  /\ {c \in Calls : call[c] = "blocked"} = {waiting[k] : k \in DOMAIN waiting}
=============================================================================
