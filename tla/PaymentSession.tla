--------------------------- MODULE PaymentSession ---------------------------
(***************************************************************************)
(* The Terminal Gateway: payment sessions, the payments and cancellations  *)
(* that clients and cashiers ask for, the results that come back from      *)
(* Authorization, the job that deletes expired sessions, and the outbox    *)
(* that carries transaction.received.                                      *)
(*                                                                         *)
(* A session is read, changed in memory and saved with an UPSERT that      *)
(* compares nothing. One step is one access to the database that another   *)
(* goroutine may see. A goroutine may stop between any two steps: its      *)
(* request failed or its instance died.                                    *)
(*                                                                         *)
(* Authorization is the external part: it announces results of the         *)
(* payments that JetStream has stored.                                     *)
(***************************************************************************)
EXTENDS Outbox

CONSTANTS
  Sessions,
  Payments,    \* POST /pay requests; each builds an event id of its own
  Cancels,     \* POST /cancel requests
  SessionOf,   \* the session of each payment, cancel and result
  Results,     \* auth.approved and auth.rejected events
  StateOf,     \* APPROVED or REJECTED, for each result
  Deliveries,  \* goroutines that handle results: one in each instance
  MaxDeliver   \* deliveries of one event before JetStream drops it

ASSUME SessionAssumption ==
  /\ Events = Payments
  /\ SessionOf \in [Payments \cup Cancels \cup Results -> Sessions]
  /\ StateOf \in [Results -> {"APPROVED", "REJECTED"}]
  /\ MaxDeliver \in Nat \ {0}

SessionStates == {"NONE", "AWAITING_PAYMENT", "PROCESSING", "APPROVED",
                  "REJECTED", "CANCELLED"}

(* SessionState.CanTransitionTo. No code makes a session EXPIRED (the job  *)
(* deletes it) nor RECONNECTING.                                           *)
CanTransitionTo(s) ==
  CASE s = "AWAITING_PAYMENT" -> {"PROCESSING", "CANCELLED"}
    [] s = "PROCESSING"       -> {"APPROVED", "REJECTED"}
    [] OTHER                  -> {}

VARIABLES
  session,    \* payment_sessions: the state; NONE while there is no row
  age,        \* of each session: unborn, live, or past expires_at
  processed,  \* processed_events
  published,  \* results that Authorization published
  delivered,  \* how many times each result was delivered
  acked,      \* results acknowledged
  told,       \* how many times the terminal was told each result
  request,    \* the goroutine of each payment and cancel
  worker      \* the goroutine of each delivery

gatewayVars == <<session, age, processed, published, delivered, acked, told,
                 request, worker>>
vars == <<outboxVars, gatewayVars>>

NoWork == [pc |-> "idle", result |-> "none"]

TypeOK ==
  /\ OutboxTypeOK
  /\ session \in [Sessions -> SessionStates]
  /\ age \in [Sessions -> {"unborn", "live", "expired"}]
  /\ processed \subseteq Results
  /\ acked \subseteq published
  /\ published \subseteq Results
  /\ delivered \in [Results -> 0..MaxDeliver]
  /\ told \in [Results -> Nat]
  /\ request \in [Payments \cup Cancels -> {"idle", "loaded", "done"}]
  /\ worker \in [Deliveries -> [pc : {"idle", "loaded", "claimed", "saved", "notify", "ack"},
                                result : Results \cup {"none"}]]

Init ==
  /\ OutboxInit
  /\ session = [s \in Sessions |-> "NONE"]
  /\ age = [s \in Sessions |-> "unborn"]
  /\ processed = {}
  /\ published = {}
  /\ delivered = [r \in Results |-> 0]
  /\ acked = {}
  /\ told = [r \in Results |-> 0]
  /\ request = [q \in Payments \cup Cancels |-> "idle"]
  /\ worker = [d \in Deliveries |-> NoWork]

(* The UPSERT of Save and SaveTx: whatever the row says, or if it is gone. *)
Save(s, state) == session' = [session EXCEPT ![s] = state]

------------------------------------------------------------------------------
(* Requests.                                                               *)

CreateSession(s) ==
  /\ age[s] = "unborn"
  /\ age' = [age EXCEPT ![s] = "live"]
  /\ Save(s, "AWAITING_PAYMENT")
  /\ UNCHANGED <<outboxVars, processed, published, delivered, acked, told,
                 request, worker>>

(* ProcessPayment reads the session; StartProcessing changes the copy. *)
LoadForPayment(p) ==
  /\ request[p] = "idle"
  /\ age[SessionOf[p]] # "expired"
  /\ "PROCESSING" \in CanTransitionTo(session[SessionOf[p]])
  /\ request' = [request EXCEPT ![p] = "loaded"]
  /\ UNCHANGED <<outboxVars, session, age, processed, published, delivered,
                 acked, told, worker>>

(* Variant: the session is saved outside the transaction that inserts the  *)
(* event, and the goroutine stops in between.                              *)
SaveWithoutEvent(p) ==
  /\ request[p] = "loaded"
  /\ request' = [request EXCEPT ![p] = "done"]
  /\ Save(SessionOf[p], "PROCESSING")
  /\ outbox' \in {outbox, outbox \cup {p}}
  /\ UNCHANGED <<stream, window, relay, age, processed, published, delivered,
                 acked, told, worker>>

(* Its transaction: the session and the event in the outbox. *)
CommitPayment(p) ==
  /\ request[p] = "loaded"
  /\ request' = [request EXCEPT ![p] = "done"]
  /\ Save(SessionOf[p], "PROCESSING")
  /\ outbox' = outbox \cup {p}
  /\ UNCHANGED <<stream, window, relay, age, processed, published, delivered,
                 acked, told, worker>>

LoadForCancel(c) ==
  /\ request[c] = "idle"
  /\ "CANCELLED" \in CanTransitionTo(session[SessionOf[c]])
  /\ request' = [request EXCEPT ![c] = "loaded"]
  /\ UNCHANGED <<outboxVars, session, age, processed, published, delivered,
                 acked, told, worker>>

SaveCancel(c) ==
  /\ request[c] = "loaded"
  /\ request' = [request EXCEPT ![c] = "done"]
  /\ Save(SessionOf[c], "CANCELLED")
  /\ UNCHANGED <<outboxVars, age, processed, published, delivered, acked, told,
                 worker>>

AbandonRequest(q) ==
  /\ request[q] = "loaded"
  /\ request' = [request EXCEPT ![q] = "done"]
  /\ UNCHANGED <<outboxVars, session, age, processed, published, delivered,
                 acked, told, worker>>

------------------------------------------------------------------------------
(* Time, and the job that deletes what expired.                            *)

Expire(s) ==
  /\ age[s] = "live"
  /\ age' = [age EXCEPT ![s] = "expired"]
  /\ UNCHANGED <<outboxVars, session, processed, published, delivered, acked,
                 told, request, worker>>

(* Variant: only sessions nobody has paid are deleted. *)
DeleteUnpaid(s) ==
  /\ age[s] = "expired"
  /\ session[s] = "AWAITING_PAYMENT"
  /\ Save(s, "NONE")
  /\ UNCHANGED <<outboxVars, age, processed, published, delivered, acked, told,
                 request, worker>>

(* Variant: Expire is called, and the row stays. *)
KeepExpired(s) ==
  /\ age[s] = "expired"
  /\ session[s] \in {"AWAITING_PAYMENT", "PROCESSING"}
  /\ Save(s, "EXPIRED")
  /\ UNCHANGED <<outboxVars, age, processed, published, delivered, acked, told,
                 request, worker>>

(* DELETE ... WHERE expires_at < NOW() AND state IN (...). *)
DeleteExpired(s) ==
  /\ age[s] = "expired"
  /\ session[s] \in {"AWAITING_PAYMENT", "PROCESSING"}
  /\ Save(s, "NONE")
  /\ UNCHANGED <<outboxVars, age, processed, published, delivered, acked, told,
                 request, worker>>

------------------------------------------------------------------------------
(* Results.                                                                *)

(* Authorization decides a payment it received (external). *)
PublishResult(r) ==
  /\ r \notin published
  /\ \E p \in Payments : SessionOf[p] = SessionOf[r] /\ stream[p] > 0
  /\ published' = published \cup {r}
  /\ UNCHANGED <<outboxVars, session, age, processed, delivered, acked, told,
                 request, worker>>

(* JetStream delivers a result, again if AckWait has passed, to a free     *)
(* worker, and ApplyApproval or ApplyRejection reads its session.          *)
Deliver(d, r) ==
  /\ worker[d].pc = "idle"
  /\ r \in published \ acked
  /\ delivered[r] < MaxDeliver
  /\ delivered' = [delivered EXCEPT ![r] = @ + 1]
  /\ IF StateOf[r] \in CanTransitionTo(session[SessionOf[r]])
     THEN worker' = [worker EXCEPT ![d] = [pc |-> "loaded", result |-> r]]
     ELSE UNCHANGED worker  \* no session or no such transition: Nak
  /\ UNCHANGED <<outboxVars, session, age, processed, published, acked, told,
                 request>>

(* Variant: a duplicate is not recognized. *)
AlwaysNew(d) ==
  /\ worker[d].pc = "loaded"
  /\ worker' = [worker EXCEPT ![d].pc = "claimed"]
  /\ UNCHANGED <<outboxVars, session, age, processed, published, delivered,
                 acked, told, request>>

(* Another transaction that has inserted the event id and not ended. *)
ClaimPending(r) ==
  \E d \in Deliveries : worker[d].result = r /\ worker[d].pc \in {"claimed", "saved"}

(* TryMarkAsProcessed: it waits for another transaction that has inserted  *)
(* the same id; a duplicate is acknowledged and changes nothing.           *)
ClaimResult(d) ==
  LET r == worker[d].result
  IN  /\ worker[d].pc = "loaded"
      /\ ~ClaimPending(r)
      /\ IF r \in processed
         THEN worker' = [worker EXCEPT ![d].pc = "ack"]
         ELSE worker' = [worker EXCEPT ![d].pc = "claimed"]
      /\ UNCHANGED <<outboxVars, session, age, processed, published, delivered,
                     acked, told, request>>

(* sessionRepo.Save takes a connection of its own: the session is saved    *)
(* now, whatever becomes of the claim.                                     *)
SaveResult(d) ==
  LET r == worker[d].result
  IN  /\ worker[d].pc = "claimed"
      /\ Save(SessionOf[r], StateOf[r])
      /\ worker' = [worker EXCEPT ![d].pc = "saved"]
      /\ UNCHANGED <<outboxVars, age, processed, published, delivered, acked,
                     told, request>>

CommitResult(d) ==
  /\ worker[d].pc = "saved"
  /\ processed' = processed \cup {worker[d].result}
  /\ worker' = [worker EXCEPT ![d].pc = "notify"]
  /\ UNCHANGED <<outboxVars, session, age, published, delivered, acked, told,
                 request>>

NotifyResult(d) ==
  LET r == worker[d].result
  IN  /\ worker[d].pc = "notify"
      /\ told' = [told EXCEPT ![r] = @ + 1]
      /\ worker' = [worker EXCEPT ![d].pc = "ack"]
      /\ UNCHANGED <<outboxVars, session, age, processed, published, delivered,
                     acked, request>>

AckResult(d) ==
  /\ worker[d].pc = "ack"
  /\ acked' = acked \cup {worker[d].result}
  /\ worker' = [worker EXCEPT ![d] = NoWork]
  /\ UNCHANGED <<outboxVars, session, age, processed, published, delivered,
                 told, request>>

(* An error, answered with a Nak, or the end of the instance. *)
AbandonResult(d) ==
  /\ worker[d].pc # "idle"
  /\ worker' = [worker EXCEPT ![d] = NoWork]
  /\ UNCHANGED <<outboxVars, session, age, processed, published, delivered,
                 acked, told, request>>

------------------------------------------------------------------------------
Next ==
  \/ RelayNext /\ UNCHANGED gatewayVars
  \/ \E s \in Sessions : CreateSession(s) \/ Expire(s) \/ DeleteExpired(s)
  \/ \E p \in Payments : LoadForPayment(p) \/ CommitPayment(p)
  \/ \E c \in Cancels : LoadForCancel(c) \/ SaveCancel(c)
  \/ \E q \in Payments \cup Cancels : AbandonRequest(q)
  \/ \E r \in Results : PublishResult(r)
  \/ \E d \in Deliveries :
       \/ \E r \in Results : Deliver(d, r)
       \/ ClaimResult(d)
       \/ SaveResult(d)
       \/ CommitResult(d)
       \/ NotifyResult(d)
       \/ AckResult(d)
       \/ AbandonResult(d)

Spec == Init /\ [][Next]_vars

(* Besides the relays: time passes, the cleaning job runs every minute and *)
(* a goroutine does not stay for ever between two steps.                   *)
Fairness ==
  /\ RelayFairness
  /\ \A s \in Sessions : WF_vars(Expire(s)) /\ WF_vars(DeleteExpired(s))
  /\ \A q \in Payments \cup Cancels : WF_vars(AbandonRequest(q))
  /\ \A d \in Deliveries : WF_vars(AbandonResult(d))

FairSpec == Spec /\ Fairness

------------------------------------------------------------------------------
(* Properties.                                                             *)

(* A session that was paid has its transaction.received in the outbox or   *)
(* in JetStream, whichever of two payments, a cancellation, the cleaning   *)
(* job and a relay that fails half-way came in between: the session and    *)
(* the event are committed together, and a row leaves the outbox only with *)
(* the commit that follows its publication.                                *)
PaidIsAnnounced ==
  \A s \in Sessions :
    session[s] \in {"PROCESSING", "APPROVED", "REJECTED"} =>
      \E p \in Payments : SessionOf[p] = s /\ (p \in outbox \/ stream[p] > 0)

(* The terminal is told a result at most once, and never one whose claim   *)
(* was rolled back, though the event may be in the hands of two instances  *)
(* at a time and redelivered: only the transaction that inserts its id     *)
(* goes on to tell the terminal.                                           *)
ToldOnce ==
  \A r \in Results : told[r] <= 1 /\ (told[r] > 0 => r \in processed)

(* Two relays never hold the same row, and a row that a relay holds is     *)
(* still in the outbox: what it publishes nobody else has deleted.         *)
RowsAreHeldOnce ==
  \A r \in Relays :
    /\ Held(r) \subseteq outbox
    /\ \A q \in Relays \ {r} : Held(q) \cap Held(r) = {}

(* An event put in the outbox is published, through relays that die and    *)
(* batches that are rolled back.                                           *)
EnqueuedIsPublished ==
  \A e \in Events : e \in outbox ~> stream[e] > 0

(* Every session ends: paid and decided, cancelled or deleted. A payment   *)
(* or a cancellation in course may bring back a session that the job has   *)
(* deleted, and the job must take it again.                                *)
SessionsEnd ==
  <>[](\A s \in Sessions : session[s] \notin {"AWAITING_PAYMENT", "PROCESSING"})
=============================================================================
