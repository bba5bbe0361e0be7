---------------------------- MODULE GatewayProofs ----------------------------
(***************************************************************************)
(* Proofs about Outbox and PaymentSession, for any number of sessions,     *)
(* requests, results, deliveries and relays, and any size of a batch.      *)
(***************************************************************************)
EXTENDS PaymentSession, TLAPS

------------------------------------------------------------------------------
(* Type correctness.                                                       *)

Cycle == [todo : SUBSET Events, deleted : SUBSET Events]

(* A step of a relay, or of JetStream, keeps the outbox well typed. *)
LEMMA RelayType ==
  ASSUME OutboxTypeOK, RelayNext
  PROVE  OutboxTypeOK'
<1> USE DEF OutboxTypeOK
<1>1. NoCycle \in Cycle
  BY DEF NoCycle, Cycle
<1>2. CASE \E r \in Relays : SelectRows(r)
  BY <1>2 DEF SelectRows, FreeRows
<1>3. CASE \E r \in Relays, e \in Events : PublishRow(r, e)
  BY <1>3 DEF PublishRow, Store
<1>4. CASE \E r \in Relays, e \in Events : PublishUnconfirmed(r, e)
  BY <1>1, <1>4 DEF PublishUnconfirmed, Store, Cycle
<1>5. CASE \E r \in Relays : Rollback(r)
  BY <1>1, <1>5 DEF Rollback, Cycle
<1>6. CASE \E r \in Relays : Commit(r)
  BY <1>1, <1>6 DEF Commit, Cycle
<1>7. CASE \E e \in Events : ForgetId(e)
  BY <1>7 DEF ForgetId
<1> QED
  BY <1>2, <1>3, <1>4, <1>5, <1>6, <1>7 DEF RelayNext

(* Nothing happens to the outbox. *)
LEMMA OutboxStays ==
  ASSUME OutboxTypeOK, UNCHANGED outboxVars
  PROVE  OutboxTypeOK'
  BY DEF OutboxTypeOK, outboxVars

(* Who handles a result handles one that was published. *)
HandledWasPublished ==
  \A d \in Deliveries : worker[d].pc # "idle" => worker[d].result \in published

TypeInv == TypeOK /\ HandledWasPublished

WorkerType == [pc : {"idle", "loaded", "claimed", "saved", "notify", "ack"},
               result : Results \cup {"none"}]

(* The initial state is well typed. *)
LEMMA InitType == Init => TypeInv
<1> SUFFICES ASSUME Init PROVE TypeInv
  OBVIOUS
<1>1. OutboxTypeOK
  BY DEF Init, OutboxInit, OutboxTypeOK, NoCycle
<1>2. 0 \in 0..MaxDeliver
  BY SessionAssumption
<1> QED
  BY <1>1, <1>2 DEF Init, TypeInv, TypeOK, HandledWasPublished, NoWork, SessionStates

(* Every step keeps the state well typed. *)
LEMMA NextType == TypeInv /\ [Next]_vars => TypeInv'
<1> SUFFICES ASSUME TypeInv, [Next]_vars PROVE TypeInv'
  OBVIOUS
<1> USE DEF TypeInv, TypeOK, HandledWasPublished
<1>1. CASE RelayNext /\ UNCHANGED gatewayVars
  BY <1>1, RelayType DEF gatewayVars
<1>2. CASE \E s \in Sessions : CreateSession(s) \/ Expire(s) \/ DeleteExpired(s)
  BY <1>2, OutboxStays DEF CreateSession, Expire, DeleteExpired, Save, SessionStates
<1>3. CASE \E p \in Payments : LoadForPayment(p)
  BY <1>3, OutboxStays DEF LoadForPayment
<1>4. CASE \E p \in Payments : CommitPayment(p)
  <2> PICK p \in Payments : CommitPayment(p)
    BY <1>4
  <2>1. OutboxTypeOK'
    BY SessionAssumption DEF CommitPayment, OutboxTypeOK
  <2>2. session' \in [Sessions -> SessionStates]
    BY SessionAssumption DEF CommitPayment, Save, SessionStates
  <2> QED
    BY <2>1, <2>2 DEF CommitPayment
<1>5. CASE \E c \in Cancels : LoadForCancel(c) \/ SaveCancel(c)
  BY <1>5, OutboxStays DEF LoadForCancel, SaveCancel, Save, SessionStates
<1>6. CASE \E q \in Payments \cup Cancels : AbandonRequest(q)
  BY <1>6, OutboxStays DEF AbandonRequest
<1>7. CASE \E r \in Results : PublishResult(r)
  BY <1>7, OutboxStays DEF PublishResult
<1>8. CASE \E d \in Deliveries, r \in Results : Deliver(d, r)
  <2> PICK d \in Deliveries, r \in Results : Deliver(d, r)
    BY <1>8
  <2>1. delivered' \in [Results -> 0..MaxDeliver]
    BY SessionAssumption DEF Deliver
  <2>2. /\ worker' \in [Deliveries -> WorkerType]
        /\ HandledWasPublished'
    BY DEF Deliver, WorkerType
  <2> QED
    BY <2>1, <2>2, OutboxStays DEF Deliver, WorkerType
<1>9. CASE \E d \in Deliveries : ClaimResult(d)
  <2> PICK d \in Deliveries : ClaimResult(d)
    BY <1>9
  <2>1. /\ worker' \in [Deliveries -> WorkerType]
        /\ HandledWasPublished'
    BY DEF ClaimResult, WorkerType
  <2> QED
    BY <2>1, OutboxStays DEF ClaimResult, WorkerType
<1>10. CASE \E d \in Deliveries : SaveResult(d)
  <2> PICK d \in Deliveries : SaveResult(d)
    BY <1>10
  <2>1. worker[d].result \in Results
    BY DEF SaveResult
  <2>2. session' \in [Sessions -> SessionStates]
    BY <2>1, SessionAssumption DEF SaveResult, Save, SessionStates
  <2> QED
    BY <2>2, OutboxStays DEF SaveResult
<1>11. CASE \E d \in Deliveries : CommitResult(d) \/ NotifyResult(d)
  <2> PICK d \in Deliveries : CommitResult(d) \/ NotifyResult(d)
    BY <1>11
  <2>1. worker[d].result \in Results
    BY DEF CommitResult, NotifyResult
  <2>2. /\ worker' \in [Deliveries -> WorkerType]
        /\ HandledWasPublished'
    BY DEF CommitResult, NotifyResult, WorkerType
  <2>3. processed' \subseteq Results
    BY <2>1 DEF CommitResult, NotifyResult
  <2>4. told' \in [Results -> Nat]
    BY <2>1 DEF CommitResult, NotifyResult
  <2> QED
    BY <2>2, <2>3, <2>4, OutboxStays DEF CommitResult, NotifyResult, WorkerType
<1>12. CASE \E d \in Deliveries : AckResult(d) \/ AbandonResult(d)
  <2>1. NoWork \in WorkerType /\ NoWork.pc = "idle"
    BY DEF NoWork, WorkerType
  <2> QED
    BY <1>12, <2>1, OutboxStays DEF AckResult, AbandonResult, WorkerType
<1>13. CASE UNCHANGED vars
  BY <1>13, OutboxStays DEF vars, gatewayVars
<1> QED
  BY <1>1, <1>2, <1>3, <1>4, <1>5, <1>6, <1>7, <1>8, <1>9, <1>10, <1>11, <1>12, <1>13
     DEF Next

(* Both hold in every reachable state. *)
LEMMA TypesHold == Spec => []TypeInv
  BY InitType, NextType, PTL DEF Spec

(* Every reachable state of the Terminal Gateway is well typed, and what   *)
(* its workers handle was published.                                       *)
THEOREM TypeCorrect == Spec => []TypeOK
<1>1. TypeInv => TypeOK
  BY DEF TypeInv
<1> QED
  BY <1>1, TypesHold, PTL

------------------------------------------------------------------------------
(* The relays.                                                             *)

(* A step that does not touch the relays and only adds rows to the outbox. *)
LEMMA RowsStayHeld ==
  ASSUME RowsAreHeldOnce, relay' = relay, outbox \subseteq outbox'
  PROVE  RowsAreHeldOnce'
  BY DEF RowsAreHeldOnce, Held

(* A relay that holds nothing, or less, takes no row from another. *)
LEMMA HoldsLess ==
  ASSUME OutboxTypeOK, RowsAreHeldOnce, NEW r \in Relays, NEW c \in Cycle,
         c.todo \cup c.deleted \subseteq Held(r),
         relay' = [relay EXCEPT ![r] = c], outbox' = outbox
  PROVE  RowsAreHeldOnce'
  BY DEF OutboxTypeOK, RowsAreHeldOnce, Held, Cycle

(* A step of a relay keeps the rows of the relays apart. *)
LEMMA RelayHoldsOnce ==
  ASSUME OutboxTypeOK, RowsAreHeldOnce, RelayNext
  PROVE  RowsAreHeldOnce'
<1>1. NoCycle \in Cycle /\ NoCycle.todo = {} /\ NoCycle.deleted = {}
  BY DEF NoCycle, Cycle
<1>2. ASSUME NEW r \in Relays, SelectRows(r)
      PROVE  RowsAreHeldOnce'
  <2> PICK rows \in SUBSET FreeRows :
         relay' = [relay EXCEPT ![r] = [todo |-> rows, deleted |-> {}]]
    BY <1>2 DEF SelectRows
  <2>1. Held(r)' = rows
    BY <1>2 DEF Held, OutboxTypeOK
  <2>2. \A q \in Relays \ {r} : Held(q)' = Held(q)
    BY DEF Held, OutboxTypeOK
  <2>3. outbox' = outbox
    BY <1>2 DEF SelectRows
  <2> QED
    BY <2>1, <2>2, <2>3 DEF RowsAreHeldOnce, FreeRows
<1>3. ASSUME NEW r \in Relays, NEW e \in Events, PublishRow(r, e)
      PROVE  RowsAreHeldOnce'
  <2> DEFINE c == [todo |-> relay[r].todo \ {e}, deleted |-> relay[r].deleted \cup {e}]
  <2>1. c \in Cycle
    BY DEF Cycle, OutboxTypeOK
  <2>2. c.todo \cup c.deleted \subseteq Held(r)
    BY <1>3 DEF PublishRow, Held
  <2> QED
    BY <1>3, <2>1, <2>2, HoldsLess DEF PublishRow
<1>4. ASSUME NEW r \in Relays, NEW e \in Events, PublishUnconfirmed(r, e)
      PROVE  RowsAreHeldOnce'
  BY <1>1, <1>4, HoldsLess DEF PublishUnconfirmed
<1>5. ASSUME NEW r \in Relays, Rollback(r)
      PROVE  RowsAreHeldOnce'
  BY <1>1, <1>5, HoldsLess DEF Rollback
<1>6. ASSUME NEW r \in Relays, Commit(r)
      PROVE  RowsAreHeldOnce'
  <2>1. Held(r)' = {}
    BY <1>1, <1>6 DEF Commit, Held, OutboxTypeOK
  <2>2. \A q \in Relays \ {r} : Held(q)' = Held(q)
    BY <1>6 DEF Commit, Held, OutboxTypeOK
  <2>3. \A q \in Relays \ {r} : Held(q) \subseteq outbox \ relay[r].deleted
    BY DEF RowsAreHeldOnce, Held
  <2>4. outbox' = outbox \ relay[r].deleted
    BY <1>6 DEF Commit
  <2> QED
    BY <2>1, <2>2, <2>3, <2>4 DEF RowsAreHeldOnce
<1>7. ASSUME NEW e \in Events, ForgetId(e)
      PROVE  RowsAreHeldOnce'
  BY <1>7, RowsStayHeld DEF ForgetId
<1> QED
  BY <1>2, <1>3, <1>4, <1>5, <1>6, <1>7 DEF RelayNext

(* Besides the relays nobody takes a row of the outbox, or tells JetStream *)
(* something: a request adds a row, or nothing happens to the outbox.      *)
LEMMA OutboxGrows ==
  ASSUME [Next]_vars, ~(RelayNext /\ UNCHANGED gatewayVars)
  PROVE  /\ UNCHANGED <<stream, window, relay>>
         /\ outbox \subseteq outbox'
<1> USE DEF outboxVars
<1>1. CASE \E s \in Sessions : CreateSession(s) \/ Expire(s) \/ DeleteExpired(s)
  BY <1>1 DEF CreateSession, Expire, DeleteExpired
<1>2. CASE \E p \in Payments : LoadForPayment(p) \/ CommitPayment(p)
  BY <1>2 DEF LoadForPayment, CommitPayment
<1>3. CASE \E c \in Cancels : LoadForCancel(c) \/ SaveCancel(c)
  BY <1>3 DEF LoadForCancel, SaveCancel
<1>4. CASE \E q \in Payments \cup Cancels : AbandonRequest(q)
  BY <1>4 DEF AbandonRequest
<1>5. CASE \E r \in Results : PublishResult(r)
  BY <1>5 DEF PublishResult
<1>6. CASE \E d \in Deliveries, r \in Results : Deliver(d, r)
  BY <1>6 DEF Deliver
<1>7. CASE \E d \in Deliveries : ClaimResult(d) \/ SaveResult(d) \/ CommitResult(d)
  BY <1>7 DEF ClaimResult, SaveResult, CommitResult
<1>8. CASE \E d \in Deliveries : NotifyResult(d) \/ AckResult(d) \/ AbandonResult(d)
  BY <1>8 DEF NotifyResult, AckResult, AbandonResult
<1>9. CASE UNCHANGED vars
  BY <1>9 DEF vars
<1> QED
  BY <1>1, <1>2, <1>3, <1>4, <1>5, <1>6, <1>7, <1>8, <1>9 DEF Next

(* However many relays there are, a row is in the hands of one of them at  *)
(* most and stays in the table while it is: FOR UPDATE SKIP LOCKED and the *)
(* deletion in the transaction that published it.                          *)
THEOREM RowsHeldOnce == Spec => []RowsAreHeldOnce
<1>1. Init => RowsAreHeldOnce
  BY DEF Init, OutboxInit, RowsAreHeldOnce, Held, NoCycle
<1>2. RowsAreHeldOnce /\ TypeInv /\ [Next]_vars => RowsAreHeldOnce'
  <2> SUFFICES ASSUME RowsAreHeldOnce, TypeInv, [Next]_vars
               PROVE  RowsAreHeldOnce'
    OBVIOUS
  <2>1. OutboxTypeOK
    BY DEF TypeInv, TypeOK
  <2>2. CASE RelayNext
    BY <2>1, <2>2, RelayHoldsOnce
  <2>3. CASE ~RelayNext
    BY <2>3, OutboxGrows, RowsStayHeld
  <2> QED
    BY <2>2, <2>3
<1> QED
  BY <1>1, <1>2, TypesHold, PTL DEF Spec

------------------------------------------------------------------------------
(* A paid session is announced.                                            *)

(* What a relay has deleted, and what JetStream remembers, was stored. *)
StoredIfGone ==
  /\ \A r \in Relays : \A e \in relay[r].deleted : stream[e] > 0
  /\ \A e \in window : stream[e] > 0

(* Authorization only decides what it received. *)
DecidedWasStored ==
  \A r \in published :
    \E p \in Payments : SessionOf[p] = SessionOf[r] /\ stream[p] > 0

PaidInv == TypeInv /\ StoredIfGone /\ DecidedWasStored /\ PaidIsAnnounced

(* What was stored stays so, and the others' deletions are as before. *)
LEMMA StoreKeeps ==
  ASSUME OutboxTypeOK, StoredIfGone, NEW e \in Events, Store(e)
  PROVE  /\ stream'[e] > 0
         /\ \A x \in Events : stream[x] > 0 => stream'[x] > 0
         /\ \A x \in window' : stream'[x] > 0
  BY DEF OutboxTypeOK, StoredIfGone, Store

(* A relay never loses a row: it goes only when its event was stored. *)
LEMMA RelayKeepsEvents ==
  ASSUME OutboxTypeOK, StoredIfGone, RelayNext
  PROVE  /\ StoredIfGone'
         /\ \A e \in Events : stream[e] > 0 => stream'[e] > 0
         /\ \A e \in outbox : e \in outbox' \/ stream'[e] > 0
<1>1. NoCycle \in Cycle /\ NoCycle.deleted = {}
  BY DEF NoCycle, Cycle
<1>2. CASE \E r \in Relays : SelectRows(r)
  BY <1>2 DEF SelectRows, OutboxTypeOK, StoredIfGone
<1>3. ASSUME NEW r \in Relays, NEW e \in Events, PublishRow(r, e)
      PROVE  /\ StoredIfGone'
             /\ \A x \in Events : stream[x] > 0 => stream'[x] > 0
             /\ outbox' = outbox
  <2>1. Store(e) /\ outbox' = outbox
    BY <1>3 DEF PublishRow
  <2>2. \A q \in Relays : relay'[q].deleted \subseteq relay[q].deleted \cup {e}
    BY <1>3 DEF PublishRow, OutboxTypeOK
  <2>3. \A q \in Relays : relay[q].deleted \subseteq Events
    BY DEF OutboxTypeOK
  <2> QED
    BY <2>1, <2>2, <2>3, StoreKeeps DEF StoredIfGone
<1>4. ASSUME NEW r \in Relays, NEW e \in Events, PublishUnconfirmed(r, e)
      PROVE  /\ StoredIfGone'
             /\ \A x \in Events : stream[x] > 0 => stream'[x] > 0
             /\ outbox' = outbox
  <2>1. Store(e) /\ outbox' = outbox
    BY <1>4 DEF PublishUnconfirmed
  <2>2. \A q \in Relays : relay'[q].deleted \subseteq relay[q].deleted
    BY <1>1, <1>4 DEF PublishUnconfirmed, OutboxTypeOK
  <2>3. \A q \in Relays : relay[q].deleted \subseteq Events
    BY DEF OutboxTypeOK
  <2> QED
    BY <2>1, <2>2, <2>3, StoreKeeps DEF StoredIfGone
<1>5. CASE \E r \in Relays : Rollback(r)
  BY <1>1, <1>5 DEF Rollback, OutboxTypeOK, StoredIfGone
<1>6. CASE \E r \in Relays : Commit(r)
  BY <1>1, <1>6 DEF Commit, OutboxTypeOK, StoredIfGone
<1>7. CASE \E e \in Events : ForgetId(e)
  BY <1>7 DEF ForgetId, OutboxTypeOK, StoredIfGone
<1> QED
  BY <1>2, <1>3, <1>4, <1>5, <1>6, <1>7 DEF RelayNext, OutboxTypeOK

(* What announces a session: an event in the outbox or in JetStream. *)
Announced(s) == \E p \in Payments : SessionOf[p] = s /\ (p \in outbox \/ stream[p] > 0)

(* No event is lost. *)
LEMMA AnnouncedStays ==
  ASSUME \A p \in Payments : stream[p] > 0 => stream'[p] > 0,
         \A p \in Payments : p \in outbox => p \in outbox' \/ stream'[p] > 0,
         NEW s \in Sessions, Announced(s)
  PROVE  Announced(s)'
  BY DEF Announced

(* While no event is lost, a session that is not saved as paid keeps what  *)
(* the property says of it.                                                *)
LEMMA PaidStays ==
  ASSUME PaidIsAnnounced, NEW X,
         \A p \in Payments : stream[p] > 0 => stream'[p] > 0,
         \A p \in Payments : p \in outbox => p \in outbox' \/ stream'[p] > 0,
         \A s \in Sessions : s \in X \/ session'[s]
           \in {session[s], "NONE", "AWAITING_PAYMENT", "CANCELLED"},
         \A s \in Sessions \cap X : Announced(s)'
  PROVE  PaidIsAnnounced'
<1>1. \A s \in Sessions :
        session'[s] \in {"PROCESSING", "APPROVED", "REJECTED"} => Announced(s)'
  <2> TAKE s \in Sessions
  <2>1. CASE s \in X
    BY <2>1
  <2>2. CASE session'[s] = session[s]
    BY <2>2, AnnouncedStays DEF PaidIsAnnounced, Announced
  <2>3. CASE session'[s] \in {"NONE", "AWAITING_PAYMENT", "CANCELLED"}
    BY <2>3
  <2> QED
    BY <2>1, <2>2, <2>3
<1> QED
  BY <1>1 DEF PaidIsAnnounced, Announced

(* No session is saved as paid. *)
LEMMA NobodyPays ==
  ASSUME PaidIsAnnounced,
         \A p \in Payments : stream[p] > 0 => stream'[p] > 0,
         \A p \in Payments : p \in outbox => p \in outbox' \/ stream'[p] > 0,
         \A s \in Sessions : session'[s]
           \in {session[s], "NONE", "AWAITING_PAYMENT", "CANCELLED"}
  PROVE  PaidIsAnnounced'
<1> DEFINE X == {}
<1>1. \A s \in Sessions \cap X : Announced(s)'
  OBVIOUS
<1> QED
  BY <1>1, PaidStays

(* The inductive step. *)
LEMMA NextPaid == PaidInv /\ [Next]_vars => PaidInv'
<1> SUFFICES ASSUME PaidInv, [Next]_vars PROVE PaidInv'
  OBVIOUS
<1>0. TypeInv' /\ OutboxTypeOK /\ Events = Payments
  BY NextType, SessionAssumption DEF PaidInv, TypeInv, TypeOK
<1>1. CASE RelayNext /\ UNCHANGED gatewayVars
  <2>1. /\ StoredIfGone'
        /\ \A p \in Payments : stream[p] > 0 => stream'[p] > 0
        /\ \A p \in Payments : p \in outbox => p \in outbox' \/ stream'[p] > 0
    BY <1>0, <1>1, RelayKeepsEvents DEF PaidInv
  <2>2. published' = published /\ session' = session
    BY <1>1 DEF gatewayVars
  <2>3. DecidedWasStored'
    BY <2>1, <2>2 DEF PaidInv, DecidedWasStored
  <2>4. PaidIsAnnounced'
    BY <2>1, <2>2, NobodyPays DEF PaidInv
  <2> QED
    BY <1>0, <2>1, <2>3, <2>4 DEF PaidInv
<1>2. CASE ~(RelayNext /\ UNCHANGED gatewayVars)
  <2>1. UNCHANGED <<stream, window, relay>> /\ outbox \subseteq outbox'
    BY <1>2, OutboxGrows
  <2>0. /\ PaidIsAnnounced
        /\ \A p \in Payments : stream[p] > 0 => stream'[p] > 0
        /\ \A p \in Payments : p \in outbox => p \in outbox' \/ stream'[p] > 0
    BY <2>1 DEF PaidInv
  <2>2. StoredIfGone'
    BY <2>1 DEF PaidInv, StoredIfGone
  <2>3. DecidedWasStored'
    <3>1. CASE published' = published
      BY <2>1, <3>1 DEF PaidInv, DecidedWasStored
    <3>2. CASE \E r \in Results : PublishResult(r)
      BY <2>1, <3>2 DEF PaidInv, DecidedWasStored, PublishResult
    <3>3. published' = published \/ \E r \in Results : PublishResult(r)
      BY <1>2 DEF Next, vars, gatewayVars, CreateSession, Expire, DeleteExpired,
                  LoadForPayment, CommitPayment, LoadForCancel, SaveCancel,
                  AbandonRequest, Deliver, ClaimResult, SaveResult, CommitResult,
                  NotifyResult, AckResult, AbandonResult
    <3> QED
      BY <3>1, <3>2, <3>3
  <2>4. PaidIsAnnounced'
    <3>0. session \in [Sessions -> SessionStates]
      BY DEF PaidInv, TypeInv, TypeOK
    <3>1. CASE \E s \in Sessions : CreateSession(s) \/ DeleteExpired(s)
      <4>1. \A s \in Sessions : session'[s] \in {session[s], "NONE", "AWAITING_PAYMENT"}
        BY <3>0, <3>1 DEF CreateSession, DeleteExpired, Save
      <4> QED
        BY <2>0, <4>1, NobodyPays
    <3>2. ASSUME NEW p \in Payments, CommitPayment(p)
          PROVE  PaidIsAnnounced'
      <4> DEFINE X == {SessionOf[p]}
      <4>1. SessionOf[p] \in Sessions /\ p \in outbox'
        BY <3>2, SessionAssumption DEF CommitPayment
      <4>2. \A s \in Sessions : s \in X \/ session'[s] = session[s]
        BY <3>0, <3>2 DEF CommitPayment, Save
      <4>3. \A s \in Sessions \cap X : Announced(s)'
        BY <4>1 DEF Announced
      <4> QED
        BY <2>0, <4>2, <4>3, PaidStays
    <3>3. CASE \E c \in Cancels : SaveCancel(c)
      <4>1. \A s \in Sessions : session'[s] \in {session[s], "CANCELLED"}
        BY <3>0, <3>3 DEF SaveCancel, Save
      <4> QED
        BY <2>0, <4>1, NobodyPays
    <3>4. ASSUME NEW d \in Deliveries, SaveResult(d)
          PROVE  PaidIsAnnounced'
      <4> PICK r \in Results : r = worker[d].result
        BY <3>4 DEF SaveResult, PaidInv, TypeInv, TypeOK, HandledWasPublished
      <4> DEFINE X == {SessionOf[r]}
      <4>1. r \in published
        BY <3>4 DEF SaveResult, PaidInv, TypeInv, TypeOK, HandledWasPublished
      <4>2. PICK p \in Payments : SessionOf[p] = SessionOf[r] /\ stream[p] > 0
        BY <4>1 DEF PaidInv, DecidedWasStored
      <4>4. \A s \in Sessions : s \in X \/ session'[s] = session[s]
        BY <3>0, <3>4 DEF SaveResult, Save
      <4>5. \A s \in Sessions \cap X : Announced(s)'
        BY <2>1, <4>2 DEF Announced
      <4> QED
        BY <2>0, <4>4, <4>5, PaidStays
    <3>5. CASE session' = session
      BY <2>0, <3>5, NobodyPays
    <3>6. \/ session' = session
          \/ \E s \in Sessions : CreateSession(s) \/ DeleteExpired(s)
          \/ \E p \in Payments : CommitPayment(p)
          \/ \E c \in Cancels : SaveCancel(c)
          \/ \E d \in Deliveries : SaveResult(d)
      BY <1>2 DEF Next, vars, gatewayVars, Expire, LoadForPayment, LoadForCancel,
                  AbandonRequest, PublishResult, Deliver, ClaimResult, CommitResult,
                  NotifyResult, AckResult, AbandonResult
    <3> QED
      BY <3>1, <3>2, <3>3, <3>4, <3>5, <3>6
  <2> QED
    BY <1>0, <2>2, <2>3, <2>4 DEF PaidInv
<1> QED
  BY <1>1, <1>2

(* Whatever payments, cancellations, results, deletions and relays do to   *)
(* each other, no session is paid without its transaction.received in the  *)
(* outbox or in JetStream: the customer who paid is on the way to be       *)
(* authorized.                                                             *)
THEOREM PaidAnnounced == Spec => []PaidIsAnnounced
<1>1. Init => PaidInv
  <2>1. Init => StoredIfGone /\ DecidedWasStored /\ PaidIsAnnounced
    BY DEF Init, OutboxInit, NoCycle, StoredIfGone, DecidedWasStored, PaidIsAnnounced
  <2> QED
    BY <2>1, InitType DEF PaidInv
<1>2. PaidInv => PaidIsAnnounced
  BY DEF PaidInv
<1> QED
  BY <1>1, <1>2, NextPaid, PTL DEF Spec

------------------------------------------------------------------------------
(* A result is told once.                                                  *)

Claims(d) == worker[d].pc \in {"claimed", "saved"}
Tells(d) == worker[d].pc = "notify"

(* A worker that has inserted the event id and not committed is the first, *)
(* one that has committed has told nobody, and there is one of them.       *)
OneTells ==
  \A d \in Deliveries :
    /\ Claims(d) => worker[d].result \notin processed
    /\ Tells(d) => worker[d].result \in processed /\ told[worker[d].result] = 0
    /\ \A c \in Deliveries \ {d} :
         (Claims(d) \/ Tells(d)) /\ (Claims(c) \/ Tells(c)) =>
           worker[c].result # worker[d].result

ToldInv == OneTells /\ ToldOnce

(* A step in which nobody claims, commits or tells. *)
LEMMA NobodyTells ==
  ASSUME ToldInv, processed' = processed, told' = told,
         \A d \in Deliveries :
           \/ worker'[d].pc \in {"idle", "loaded", "ack"}
           \/ /\ worker'[d].result = worker[d].result
              /\ Claims(d)' <=> Claims(d)
              /\ Tells(d)' <=> Tells(d)
  PROVE  ToldInv'
<1>1. \A d \in Deliveries : Claims(d)' \/ Tells(d)' =>
        worker'[d].result = worker[d].result /\ (Claims(d)' <=> Claims(d)) /\ (Tells(d)' <=> Tells(d))
  BY DEF Claims, Tells
<1>2. OneTells'
  BY <1>1 DEF ToldInv, OneTells
<1> QED
  BY <1>2 DEF ToldInv, ToldOnce

(* The inductive step. *)
LEMMA NextTold == ToldInv /\ TypeInv /\ [Next]_vars => ToldInv'
<1> SUFFICES ASSUME ToldInv, TypeInv, [Next]_vars PROVE ToldInv'
  OBVIOUS
<1>0. /\ worker \in [Deliveries -> WorkerType]
      /\ told \in [Results -> Nat]
      /\ \A d \in Deliveries : worker[d].pc # "idle" => worker[d].result \in Results
  BY DEF TypeInv, TypeOK, HandledWasPublished, WorkerType
<1>1. ASSUME NEW d \in Deliveries, ClaimResult(d)
      PROVE  ToldInv'
  <2>1. CASE worker[d].result \in processed
    <3>1. \A c \in Deliveries : worker'[c].pc = "ack" \/ worker'[c] = worker[c]
      BY <1>0, <1>1, <2>1 DEF ClaimResult, WorkerType
    <3> QED
      BY <1>1, <3>1, NobodyTells DEF ClaimResult, Claims, Tells
  <2>2. CASE worker[d].result \notin processed
    <3>1. /\ worker'[d].pc = "claimed" /\ worker'[d].result = worker[d].result
          /\ \A c \in Deliveries \ {d} : worker'[c] = worker[c]
          /\ processed' = processed /\ told' = told
      BY <1>0, <1>1, <2>2 DEF ClaimResult, WorkerType
    <3>2. \A c \in Deliveries \ {d} :
            Claims(c) \/ Tells(c) => worker[c].result # worker[d].result
      BY <1>1, <2>2 DEF ClaimResult, ClaimPending, ToldInv, OneTells, Claims
    <3>3. OneTells'
      BY <2>2, <3>1, <3>2 DEF ToldInv, OneTells, Claims, Tells
    <3> QED
      BY <3>1, <3>3 DEF ToldInv, ToldOnce
  <2> QED
    BY <2>1, <2>2
<1>2. ASSUME NEW d \in Deliveries, CommitResult(d)
      PROVE  ToldInv'
  <2> PICK r \in Results : r = worker[d].result
    BY <1>0, <1>2 DEF CommitResult
  <2>1. /\ worker'[d].pc = "notify" /\ worker'[d].result = r
        /\ \A c \in Deliveries \ {d} : worker'[c] = worker[c]
        /\ processed' = processed \cup {r} /\ told' = told
    BY <1>0, <1>2 DEF CommitResult, WorkerType
  <2>2. Claims(d)
    BY <1>2 DEF CommitResult, Claims
  <2>3. told[r] = 0
    BY <1>0, <2>2 DEF ToldInv, OneTells, ToldOnce
  <2>4. \A c \in Deliveries \ {d} : Claims(c) \/ Tells(c) => worker[c].result # r
    BY <2>2 DEF ToldInv, OneTells
  <2>5. OneTells'
    BY <2>1, <2>2, <2>3, <2>4 DEF ToldInv, OneTells, Claims, Tells
  <2> QED
    BY <2>1, <2>5 DEF ToldInv, ToldOnce
<1>3. ASSUME NEW d \in Deliveries, NotifyResult(d)
      PROVE  ToldInv'
  <2> PICK r \in Results : r = worker[d].result
    BY <1>0, <1>3 DEF NotifyResult
  <2>1. /\ worker'[d].pc = "ack"
        /\ \A c \in Deliveries \ {d} : worker'[c] = worker[c]
        /\ processed' = processed
        /\ told' = [told EXCEPT ![r] = @ + 1]
    BY <1>0, <1>3 DEF NotifyResult, WorkerType
  <2>2. Tells(d)
    BY <1>3 DEF NotifyResult, Tells
  <2>3. r \in processed /\ told[r] = 0
    BY <2>2 DEF ToldInv, OneTells
  <2>4. \A c \in Deliveries \ {d} : Tells(c) => worker[c].result # r
    BY <2>2 DEF ToldInv, OneTells
  <2>5. OneTells'
    BY <1>0, <2>1, <2>4 DEF ToldInv, OneTells, Claims, Tells, WorkerType
  <2>6. ToldOnce'
    BY <1>0, <2>1, <2>3 DEF ToldInv, ToldOnce
  <2> QED
    BY <2>5, <2>6 DEF ToldInv
<1>4. CASE \E d \in Deliveries : SaveResult(d)
  <2>1. \A d \in Deliveries :
          /\ worker'[d].result = worker[d].result
          /\ Claims(d)' <=> Claims(d)
          /\ Tells(d)' <=> Tells(d)
    BY <1>0, <1>4 DEF SaveResult, Claims, Tells, WorkerType
  <2> QED
    BY <1>4, <2>1, NobodyTells DEF SaveResult
<1>5. CASE \E d \in Deliveries :
             AckResult(d) \/ AbandonResult(d) \/ \E r \in Results : Deliver(d, r)
  <2>1. \A d \in Deliveries :
          worker'[d].pc \in {"idle", "loaded"} \/ worker'[d] = worker[d]
    BY <1>0, <1>5 DEF AckResult, AbandonResult, Deliver, NoWork, WorkerType
  <2>2. processed' = processed /\ told' = told
    BY <1>5 DEF AckResult, AbandonResult, Deliver
  <2> QED
    BY <2>1, <2>2, NobodyTells DEF Claims, Tells
<1>6. CASE UNCHANGED <<worker, processed, told>>
  BY <1>6, NobodyTells DEF Claims, Tells
<1>7. \/ UNCHANGED <<worker, processed, told>>
      \/ \E d \in Deliveries : \/ ClaimResult(d) \/ SaveResult(d) \/ CommitResult(d)
                              \/ NotifyResult(d) \/ AckResult(d) \/ AbandonResult(d)
                              \/ \E r \in Results : Deliver(d, r)
  BY DEF Next, vars, gatewayVars, CreateSession, Expire, DeleteExpired, LoadForPayment,
         CommitPayment, LoadForCancel, SaveCancel, AbandonRequest, PublishResult
<1> QED
  BY <1>1, <1>2, <1>3, <1>4, <1>5, <1>6, <1>7

(* However many instances handle the deliveries of a result, and wherever  *)
(* they stop, the terminal hears of it once at most, and never of one      *)
(* whose event was not recorded as processed.                              *)
THEOREM TerminalToldOnce == Spec => []ToldOnce
<1>1. Init => ToldInv
  BY DEF Init, ToldInv, OneTells, ToldOnce, Claims, Tells, NoWork
<1>2. ToldInv => ToldOnce
  BY DEF ToldInv
<1> QED
  BY <1>1, <1>2, NextTold, TypesHold, PTL DEF Spec
=============================================================================
