---------------------------- MODULE Notification ----------------------------
(***************************************************************************)
(* The Notification context: the notifications of each event, their        *)
(* dispatch to the terminal or to the merchant's webhook, and the job that *)
(* retries the ones that failed.                                           *)
(*                                                                         *)
(* A notification is saved with an UPSERT that compares nothing, and the   *)
(* job reserves nothing: it lists what is due again while a goroutine is   *)
(* still dispatching it. One step is one access to the database that       *)
(* another goroutine may see, or the answer of a channel. A goroutine may  *)
(* stop between any two steps.                                             *)
(*                                                                         *)
(* The channels are the external part: each call of one delivers or fails. *)
(***************************************************************************)
EXTENDS Integers, FiniteSets

CONSTANTS
  Events,       \* auth.approved, auth.rejected and batch.closed events
  ChannelsOf,   \* the channels each event is notified on
  Deliveries,   \* goroutines that handle events
  MaxDeliver,   \* deliveries of one event before JetStream drops it
  Dispatchers,  \* bound: dispatches in course at a time
  MaxAttempts,  \* maxAttempts of the aggregate
  Forced        \* bound: notifications that operators ask to retry

Channels == {"TERMINAL", "WEBHOOK"}

ASSUME NotificationAssumption ==
  /\ ChannelsOf \in [Events -> (SUBSET Channels) \ {{}}]
  /\ MaxDeliver \in Nat \ {0}
  /\ MaxAttempts \in Nat \ {0}

(* Every handling of an event makes new notifications. *)
Ids == UNION {{<<e, k, c>> : k \in 1..MaxDeliver, c \in ChannelsOf[e]} : e \in Events}

StoredStates == {"NONE", "PENDING", "SENT", "RETRYING", "DEAD"}

(* NotificationState.CanTransitionTo. FAILED is only passed through in     *)
(* memory, within MarkFailed.                                              *)
CanTransitionTo(s) ==
  CASE s = "PENDING"  -> {"SENT", "FAILED"}
    [] s = "FAILED"   -> {"RETRYING", "DEAD"}
    [] s = "RETRYING" -> {"SENT", "FAILED"}
    [] OTHER          -> {}

VARIABLES
  state,      \* notifications.state; NONE while there is no row
  attempts,   \* delivery_attempts: how many; they are numbered from 1
  processed,  \* processed_events
  delivered,  \* how many times each event was delivered
  acked,      \* events acknowledged
  worker,     \* the goroutine of each delivery
  dispatch    \* the goroutine of each dispatch

rows == <<state, attempts>>
events == <<processed, delivered, acked, worker>>
vars == <<rows, events, dispatch>>

NoWork == [pc |-> "idle", event |-> "none", k |-> 0, saved |-> {}]
NoDispatch == [pc |-> "idle", id |-> <<>>, state |-> "NONE", attempts |-> 0]

TypeOK ==
  /\ state \in [Ids -> StoredStates]
  /\ attempts \in [Ids -> Nat]
  /\ processed \subseteq Events
  /\ delivered \in [Events -> 0..MaxDeliver]
  /\ acked \subseteq Events
  /\ \A d \in Deliveries :
       /\ worker[d].pc \in {"idle", "created", "claimed", "committed"}
       /\ worker[d].event \in Events \cup {"none"}
       /\ worker[d].saved \subseteq Channels
  /\ \A g \in Dispatchers :
       /\ dispatch[g].pc \in {"idle", "row", "sending", "marked"}
       /\ dispatch[g].id \in Ids \cup {<<>>}
       /\ dispatch[g].state \in StoredStates

Init ==
  /\ state = [id \in Ids |-> "NONE"]
  /\ attempts = [id \in Ids |-> 0]
  /\ processed = {}
  /\ delivered = [e \in Events |-> 0]
  /\ acked = {}
  /\ worker = [d \in Deliveries |-> NoWork]
  /\ dispatch = [g \in Dispatchers |-> NoDispatch]

------------------------------------------------------------------------------
(* An event makes its notifications.                                       *)

(* JetStream delivers an event until it is acknowledged, or MaxDeliver     *)
(* times.                                                                  *)
Deliverable(e) == e \notin acked /\ delivered[e] < MaxDeliver

Deliver(d, e) ==
  /\ worker[d].pc = "idle"
  /\ Deliverable(e)
  /\ delivered' = [delivered EXCEPT ![e] = @ + 1]
  /\ worker' = [worker EXCEPT ![d] =
       [pc |-> "created", event |-> e, k |-> delivered[e] + 1, saved |-> {}]]
  /\ UNCHANGED <<rows, processed, acked, dispatch>>

(* TryMarkAsProcessed: it waits for another transaction that has inserted  *)
(* the same id; a duplicate is acknowledged.                               *)
ClaimEvent(d) ==
  LET e == worker[d].event
  IN  /\ worker[d].pc = "created"
      /\ ~\E o \in Deliveries : worker[o].event = e /\ worker[o].pc = "claimed"
      /\ IF e \in processed
         THEN /\ worker' = [worker EXCEPT ![d] = NoWork]
              /\ acked' = acked \cup {e}
         ELSE /\ worker' = [worker EXCEPT ![d].pc = "claimed"]
              /\ UNCHANGED acked
      /\ UNCHANGED <<rows, processed, delivered, dispatch>>

IdOf(d, c) == <<worker[d].event, worker[d].k, c>>

(* The terminal's notification is saved before the webhook's, each in a    *)
(* transaction of its own, on another connection than the claim.           *)
SaveNotification(d) ==
  /\ worker[d].pc = "claimed"
  /\ \E c \in ChannelsOf[worker[d].event] \ worker[d].saved :
       /\ c = "WEBHOOK" => "TERMINAL" \notin ChannelsOf[worker[d].event] \ worker[d].saved
       /\ state' = [state EXCEPT ![IdOf(d, c)] = "PENDING"]
       /\ worker' = [worker EXCEPT ![d].saved = @ \cup {c}]
  /\ UNCHANGED <<attempts, processed, delivered, acked, dispatch>>

(* Variant: the notifications are saved by the goroutines that dispatch    *)
(* them, after the commit.                                                 *)
CommitBeforeSaving(d) ==
  /\ worker[d].pc = "claimed"
  /\ processed' = processed \cup {worker[d].event}
  /\ worker' = [worker EXCEPT ![d].pc = "committed",
                              ![d].saved = ChannelsOf[worker[d].event]]
  /\ UNCHANGED <<rows, delivered, acked, dispatch>>

CommitEvent(d) ==
  /\ worker[d].pc = "claimed"
  /\ worker[d].saved = ChannelsOf[worker[d].event]
  /\ processed' = processed \cup {worker[d].event}
  /\ worker' = [worker EXCEPT ![d].pc = "committed"]
  /\ UNCHANGED <<rows, delivered, acked, dispatch>>

(* go h.dispatch: the goroutine has the notification as it was created. *)
StartDispatch(d, g) ==
  /\ worker[d].pc = "committed"
  /\ dispatch[g].pc = "idle"
  /\ \E c \in worker[d].saved :
       /\ dispatch' = [dispatch EXCEPT ![g] =
            [pc |-> "sending", id |-> IdOf(d, c), state |-> "PENDING", attempts |-> 0]]
       /\ worker' = [worker EXCEPT ![d].saved = @ \ {c}]
  /\ UNCHANGED <<rows, processed, delivered, acked>>

AckEvent(d) ==
  /\ worker[d].pc = "committed"
  /\ worker[d].saved = {}
  /\ acked' = acked \cup {worker[d].event}
  /\ worker' = [worker EXCEPT ![d] = NoWork]
  /\ UNCHANGED <<rows, processed, delivered, dispatch>>

(* An error, answered with a Nak, or the end of the instance. *)
AbandonEvent(d) ==
  /\ worker[d].pc # "idle"
  /\ worker' = [worker EXCEPT ![d] = NoWork]
  /\ UNCHANGED <<rows, processed, delivered, acked, dispatch>>

------------------------------------------------------------------------------
(* The retry job, and operators.                                           *)

(* Variant: the query asks for a state that no row has. *)
FailedNotifications == {id \in Ids : state[id] = "FAILED"}

(* next_retry_at may have passed at any time since the row was saved. *)
FindPendingRetries == {id \in Ids : state[id] = "RETRYING"}

(* RetryFailed and ForceRetry read the row in FindByID, and its attempts   *)
(* in another query.                                                       *)
ReadRow(g, id) ==
  dispatch' = [dispatch EXCEPT ![g] =
                 [pc |-> "row", id |-> id, state |-> state[id], attempts |-> 0]]

(* runRetryJob starts RetryFailed for each notification it lists, whoever  *)
(* may be at it already. If it has been sent by the time its row is read,  *)
(* the goroutine saves nothing.                                            *)
RetryFailed(g, id) ==
  /\ dispatch[g].pc = "idle"
  /\ id \in FindPendingRetries
  /\ ReadRow(g, id)
  /\ UNCHANGED <<rows, events>>

(* An operator may ask for any notification there is, in any state. *)
ForceRetry(g, id) ==
  /\ dispatch[g].pc = "idle"
  /\ id \in Forced
  /\ state[id] # "NONE"
  /\ ReadRow(g, id)
  /\ UNCHANGED <<rows, events>>

loadAttempts(g) ==
  /\ dispatch[g].pc = "row"
  /\ dispatch' = [dispatch EXCEPT ![g].pc = "sending",
                                  ![g].attempts = attempts[dispatch[g].id]]
  /\ UNCHANGED <<rows, events>>

------------------------------------------------------------------------------
(* dispatch.                                                               *)

(* Variant: MarkFailed does not go on from FAILED to RETRYING. *)
LeftFailed(ok, tried) ==
  IF ok THEN "SENT" ELSE IF tried >= MaxAttempts THEN "DEAD" ELSE "FAILED"

(* MarkSent and MarkFailed, each with the transition it makes. *)
Marked(ok, tried) ==
  IF ok THEN "SENT" ELSE IF tried >= MaxAttempts THEN "DEAD" ELSE "RETRYING"

(* The channel's answer is a delivery or not (external); a copy that may   *)
(* not make the transition is left unsaved. The notification.dispatched    *)
(* that is published between the answer and the save changes nothing here. *)
Send(g) ==
  LET n == dispatch[g]
  IN  /\ n.pc = "sending"
      /\ \E ok \in BOOLEAN :
           dispatch' = [dispatch EXCEPT ![g] =
             IF (IF ok THEN "SENT" ELSE "FAILED") \in CanTransitionTo(n.state)
             THEN [n EXCEPT !.pc = "marked",
                            !.state = Marked(ok, n.attempts + 1),
                            !.attempts = @ + 1]
             ELSE NoDispatch]
      /\ UNCHANGED <<rows, events>>

(* The UPSERT of the row, and of the attempts in memory the ones whose     *)
(* number the table does not have: the id of an attempt is its             *)
(* notification's with its number.                                         *)
Save(g) ==
  LET n == dispatch[g]
  IN  /\ n.pc = "marked"
      /\ state' = [state EXCEPT ![n.id] = n.state]
      /\ attempts' = [attempts EXCEPT ![n.id] = IF @ < n.attempts THEN n.attempts ELSE @]
      /\ dispatch' = [dispatch EXCEPT ![g] = NoDispatch]
      /\ UNCHANGED <<events>>

(* The save fails. An instance that ends before it saves nothing either.   *)
AbandonDispatch(g) ==
  /\ dispatch[g].pc = "marked"
  /\ dispatch' = [dispatch EXCEPT ![g] = NoDispatch]
  /\ UNCHANGED <<rows, events>>

------------------------------------------------------------------------------
Next ==
  \/ \E d \in Deliveries :
       \/ \E e \in Events : Deliver(d, e)
       \/ ClaimEvent(d)
       \/ SaveNotification(d)
       \/ CommitEvent(d)
       \/ \E g \in Dispatchers : StartDispatch(d, g)
       \/ AckEvent(d)
       \/ AbandonEvent(d)
  \/ \E g \in Dispatchers, id \in Ids : RetryFailed(g, id) \/ ForceRetry(g, id)
  \/ \E g \in Dispatchers :
       \/ loadAttempts(g)
       \/ Send(g)
       \/ Save(g)
       \/ AbandonDispatch(g)

Spec == Init /\ [][Next]_vars

(* The job runs while its instance lives, every call of a channel has a    *)
(* timeout, and of the saves of one notification not all fail.             *)
Fairness ==
  /\ \A g \in Dispatchers : WF_vars(loadAttempts(g)) /\ WF_vars(Send(g))
  /\ \A id \in Ids :
       /\ SF_vars(\E g \in Dispatchers : RetryFailed(g, id))
       /\ SF_vars(\E g \in Dispatchers : dispatch[g].id = id /\ Save(g))

FairSpec == Spec /\ Fairness

------------------------------------------------------------------------------
(* Properties.                                                             *)

(* An event that was claimed has its notifications in the table: they are  *)
(* saved outside the claiming transaction, but before it commits, so that  *)
(* a redelivery that finds the claim has nothing left to make. One handler *)
(* made them all, whatever the other deliveries of the event left behind.  *)
ClaimedIsStored ==
  \A e \in processed :
    \E k \in 1..MaxDeliver : \A c \in ChannelsOf[e] : state[<<e, k, c>>] # "NONE"

(* A notification that waits for a retry ends up sent or dead, though the  *)
(* goroutines of two runs of the job, or an operator's, may take it back   *)
(* to RETRYING with what they read before it ended.                        *)
RetryingEnds ==
  \A id \in Ids : state[id] = "RETRYING" ~> state[id] \in {"SENT", "DEAD"}
=============================================================================
