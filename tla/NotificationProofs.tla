-------------------------- MODULE NotificationProofs --------------------------
(***************************************************************************)
(* Proofs about Notification, for any number of events, channels of each,  *)
(* deliveries and dispatches.                                              *)
(***************************************************************************)
EXTENDS Notification, TLAPS

------------------------------------------------------------------------------
(* Type correctness.                                                       *)

Workers == [pc : {"idle", "created", "claimed", "committed"},
            event : Events \cup {"none"}, k : Nat, saved : SUBSET Channels]

Dispatches == [pc : {"idle", "row", "sending", "marked"}, id : Ids \cup {<<>>},
               state : StoredStates, attempts : Nat]

(* A goroutine that handles an event has made notifications of its own.    *)
HandlesAnEvent ==
  \A d \in Deliveries : worker[d].pc # "idle" =>
    /\ worker[d].event \in Events
    /\ worker[d].k \in 1..MaxDeliver
    /\ worker[d].saved \subseteq ChannelsOf[worker[d].event]

DispatchesARow == \A g \in Dispatchers : dispatch[g].pc # "idle" => dispatch[g].id \in Ids

TypeInv ==
  /\ state \in [Ids -> StoredStates]
  /\ attempts \in [Ids -> Nat]
  /\ processed \subseteq Events
  /\ delivered \in [Events -> 0..MaxDeliver]
  /\ acked \subseteq Events
  /\ worker \in [Deliveries -> Workers]
  /\ dispatch \in [Dispatchers -> Dispatches]
  /\ HandlesAnEvent
  /\ DispatchesARow

(* The notification of a channel of an event, made by one of its handlings. *)
LEMMA IdsOfEvents ==
  ASSUME NEW e \in Events, NEW k \in 1..MaxDeliver, NEW c \in ChannelsOf[e]
  PROVE  <<e, k, c>> \in Ids
BY DEF Ids

(* A free goroutine, and a free dispatch. *)
LEMMA FreeOnes ==
  /\ NoWork \in Workers /\ NoWork.pc = "idle"
  /\ NoDispatch \in Dispatches /\ NoDispatch.pc = "idle"
BY DEF NoWork, NoDispatch, Workers, Dispatches, StoredStates

(* A dispatch that has its answer. *)
LEMMA MarkedDispatch ==
  ASSUME NEW n \in Dispatches, NEW s \in StoredStates
  PROVE  [n EXCEPT !.pc = "marked", !.state = s, !.attempts = @ + 1] \in Dispatches
<1>1. n.attempts + 1 \in Nat
  BY DEF Dispatches
<1> QED
  BY <1>1 DEF Dispatches

(* The types of TypeOK are among those of TypeInv. *)
LEMMA TypeInvIsStronger == TypeInv => TypeOK
BY DEF TypeInv, TypeOK, Workers, Dispatches

(* The initial state is well typed. *)
LEMMA InitType == Init => TypeInv
<1> SUFFICES ASSUME Init PROVE TypeInv
  OBVIOUS
<1>1. 0 \in 0..MaxDeliver
  BY NotificationAssumption
<1>2. worker \in [Deliveries -> Workers] /\ dispatch \in [Dispatchers -> Dispatches]
  BY FreeOnes DEF Init
<1> QED
  BY <1>1, <1>2, FreeOnes DEF Init, TypeInv, HandlesAnEvent, DispatchesARow, StoredStates

(* The steps of the handlers of events. *)
LEMMA EventType ==
  ASSUME TypeInv, NEW d \in Deliveries,
         \/ \E e \in Events : Deliver(d, e)
         \/ ClaimEvent(d) \/ SaveNotification(d) \/ CommitEvent(d)
         \/ \E g \in Dispatchers : StartDispatch(d, g)
         \/ AckEvent(d) \/ AbandonEvent(d)
  PROVE  TypeInv'
<1> USE DEF TypeInv
<1>1. CASE \E e \in Events : Deliver(d, e)
  <2> PICK e \in Events : Deliver(d, e)
    BY <1>1
  <2>1. delivered[e] + 1 \in 1..MaxDeliver
    BY NotificationAssumption DEF Deliver, Deliverable
  <2>2. [pc |-> "created", event |-> e, k |-> delivered[e] + 1, saved |-> {}] \in Workers
    BY <2>1 DEF Workers
  <2>3. worker' \in [Deliveries -> Workers] /\ delivered' \in [Events -> 0..MaxDeliver]
    BY <2>1, <2>2 DEF Deliver
  <2>4. HandlesAnEvent'
    BY <2>1, <2>3 DEF Deliver, HandlesAnEvent
  <2> QED
    BY <2>3, <2>4 DEF Deliver, rows, DispatchesARow
<1>2. CASE ClaimEvent(d)
  <2>1. worker[d].event \in Events
    BY <1>2 DEF ClaimEvent, HandlesAnEvent
  <2>2. worker' \in [Deliveries -> Workers]
    BY <1>2, FreeOnes DEF ClaimEvent, Workers
  <2>3. HandlesAnEvent'
    BY <1>2, <2>2, FreeOnes DEF ClaimEvent, HandlesAnEvent, Workers
  <2> QED
    BY <1>2, <2>1, <2>2, <2>3 DEF ClaimEvent, rows, DispatchesARow
<1>3. CASE SaveNotification(d)
  <2> PICK c \in ChannelsOf[worker[d].event] :
        /\ state' = [state EXCEPT ![IdOf(d, c)] = "PENDING"]
        /\ worker' = [worker EXCEPT ![d].saved = @ \cup {c}]
    BY <1>3 DEF SaveNotification
  <2>1. worker[d].event \in Events /\ ChannelsOf[worker[d].event] \subseteq Channels
    BY <1>3, NotificationAssumption DEF SaveNotification, HandlesAnEvent
  <2>2. worker' \in [Deliveries -> Workers]
    BY <2>1 DEF Workers
  <2>3. HandlesAnEvent'
    BY <1>3, <2>1, <2>2 DEF SaveNotification, HandlesAnEvent, Workers
  <2>4. state' \in [Ids -> StoredStates]
    BY DEF StoredStates
  <2> QED
    BY <1>3, <2>2, <2>3, <2>4 DEF SaveNotification, DispatchesARow
<1>4. CASE CommitEvent(d)
  <2>1. worker[d].event \in Events
    BY <1>4 DEF CommitEvent, HandlesAnEvent
  <2>2. worker' \in [Deliveries -> Workers]
    BY <1>4 DEF CommitEvent, Workers
  <2>3. HandlesAnEvent'
    BY <1>4, <2>2 DEF CommitEvent, HandlesAnEvent, Workers
  <2> QED
    BY <1>4, <2>1, <2>2, <2>3 DEF CommitEvent, rows, DispatchesARow
<1>5. CASE \E g \in Dispatchers : StartDispatch(d, g)
  <2> PICK g \in Dispatchers, c \in worker[d].saved :
        /\ StartDispatch(d, g)
        /\ dispatch' = [dispatch EXCEPT ![g] =
             [pc |-> "sending", id |-> IdOf(d, c), state |-> "PENDING", attempts |-> 0]]
        /\ worker' = [worker EXCEPT ![d].saved = @ \ {c}]
    BY <1>5 DEF StartDispatch
  <2>1. IdOf(d, c) \in Ids
    BY IdsOfEvents DEF StartDispatch, HandlesAnEvent, IdOf
  <2>2. [pc |-> "sending", id |-> IdOf(d, c), state |-> "PENDING", attempts |-> 0]
          \in Dispatches
    BY <2>1 DEF Dispatches, StoredStates
  <2>3. worker' \in [Deliveries -> Workers] /\ dispatch' \in [Dispatchers -> Dispatches]
    BY <2>2 DEF Workers
  <2>4. HandlesAnEvent'
    BY <2>3 DEF StartDispatch, HandlesAnEvent, Workers
  <2>5. DispatchesARow'
    BY <2>1, <2>3 DEF DispatchesARow
  <2> QED
    BY <2>3, <2>4, <2>5 DEF StartDispatch, rows
<1>6. CASE AckEvent(d)
  <2>1. worker[d].event \in Events
    BY <1>6 DEF AckEvent, HandlesAnEvent
  <2> QED
    BY <1>6, <2>1, FreeOnes DEF AckEvent, HandlesAnEvent, rows, DispatchesARow
<1>7. CASE AbandonEvent(d)
  BY <1>7, FreeOnes DEF AbandonEvent, HandlesAnEvent, rows, DispatchesARow
<1> QED
  BY <1>1, <1>2, <1>3, <1>4, <1>5, <1>6, <1>7

(* The steps of the dispatches. *)
LEMMA DispatchType ==
  ASSUME TypeInv, NEW g \in Dispatchers,
         \/ \E id \in Ids : RetryFailed(g, id) \/ ForceRetry(g, id)
         \/ loadAttempts(g) \/ Send(g) \/ Save(g) \/ AbandonDispatch(g)
  PROVE  TypeInv'
<1> USE DEF TypeInv
<1>1. CASE \E id \in Ids : RetryFailed(g, id) \/ ForceRetry(g, id)
  <2> PICK id \in Ids : ReadRow(g, id) /\ UNCHANGED <<rows, events>>
    BY <1>1 DEF RetryFailed, ForceRetry
  <2>1. [pc |-> "row", id |-> id, state |-> state[id], attempts |-> 0] \in Dispatches
    BY DEF Dispatches
  <2>2. dispatch' \in [Dispatchers -> Dispatches]
    BY <2>1 DEF ReadRow
  <2>3. DispatchesARow'
    BY <2>2 DEF ReadRow, DispatchesARow
  <2> QED
    BY <2>2, <2>3 DEF rows, events, HandlesAnEvent
<1>2. CASE loadAttempts(g)
  <2>1. attempts[dispatch[g].id] \in Nat
    BY <1>2 DEF loadAttempts, DispatchesARow
  <2>2. dispatch' \in [Dispatchers -> Dispatches]
    BY <1>2, <2>1 DEF loadAttempts, Dispatches
  <2>3. DispatchesARow'
    BY <1>2, <2>2 DEF loadAttempts, DispatchesARow, Dispatches
  <2> QED
    BY <1>2, <2>2, <2>3 DEF loadAttempts, rows, events, HandlesAnEvent
<1>3. CASE Send(g)
  <2> PICK ok \in BOOLEAN :
        dispatch' = [dispatch EXCEPT ![g] =
          IF (IF ok THEN "SENT" ELSE "FAILED") \in CanTransitionTo(dispatch[g].state)
          THEN [dispatch[g] EXCEPT !.pc = "marked",
                                   !.state = Marked(ok, dispatch[g].attempts + 1),
                                   !.attempts = @ + 1]
          ELSE NoDispatch]
    BY <1>3 DEF Send
  <2>1. Marked(ok, dispatch[g].attempts + 1) \in StoredStates
    BY DEF Marked, StoredStates
  <2>2. [dispatch[g] EXCEPT !.pc = "marked",
                            !.state = Marked(ok, dispatch[g].attempts + 1),
                            !.attempts = @ + 1] \in Dispatches
    BY <2>1, MarkedDispatch
  <2>3. dispatch' \in [Dispatchers -> Dispatches]
    BY <2>2, FreeOnes
  <2>4. DispatchesARow'
    <3>1. \A h \in Dispatchers : dispatch'[h].pc # "idle" =>
            dispatch[h].pc # "idle" /\ dispatch'[h].id = dispatch[h].id
      BY <1>3 DEF Send, NoDispatch, Dispatches
    <3> QED
      BY <3>1 DEF DispatchesARow
  <2> QED
    BY <1>3, <2>3, <2>4 DEF Send, rows, events, HandlesAnEvent
<1>4. CASE Save(g)
  <2>1. dispatch[g] \in Dispatches
    OBVIOUS
  <2>2. state' \in [Ids -> StoredStates] /\ attempts' \in [Ids -> Nat]
    BY <1>4, <2>1 DEF Save, Dispatches
  <2>3. dispatch' \in [Dispatchers -> Dispatches]
    BY <1>4, FreeOnes DEF Save
  <2>4. DispatchesARow'
    BY <1>4, <2>3, FreeOnes DEF Save, DispatchesARow
  <2> QED
    BY <1>4, <2>2, <2>3, <2>4 DEF Save, events, HandlesAnEvent
<1>5. CASE AbandonDispatch(g)
  BY <1>5, FreeOnes DEF AbandonDispatch, DispatchesARow, rows, events, HandlesAnEvent
<1> QED
  BY <1>1, <1>2, <1>3, <1>4, <1>5

(* Every step keeps the types. *)
LEMMA NextType == TypeInv /\ [Next]_vars => TypeInv'
<1> SUFFICES ASSUME TypeInv, [Next]_vars PROVE TypeInv'
  OBVIOUS
<1>1. CASE UNCHANGED vars
  BY <1>1 DEF vars, rows, events, TypeInv, HandlesAnEvent, DispatchesARow
<1>2. CASE Next
  BY <1>2, EventType, DispatchType DEF Next
<1> QED
  BY <1>1, <1>2

(* The types hold in every reachable state. *)
LEMMA TypesHold == Spec => []TypeInv
BY InitType, NextType, PTL DEF Spec

(* Every variable has its type, in particular a goroutine that handles an  *)
(* event and a dispatch never work on a notification that does not exist.  *)
THEOREM TypeCorrect == Spec => []TypeOK
BY TypesHold, TypeInvIsStronger, PTL

------------------------------------------------------------------------------
(* A claimed event has its notifications.                                  *)

(* What the handler of an event saved is in the table. *)
SavedIsStored ==
  \A d \in Deliveries : worker[d].pc = "claimed" =>
    \A c \in worker[d].saved : state[IdOf(d, c)] # "NONE"

(* Before the claim nothing is saved. *)
NothingSavedYet == \A d \in Deliveries : worker[d].pc = "created" => worker[d].saved = {}

(* A dispatch saves a state that a row may have. *)
MarkedIsAState == \A g \in Dispatchers : dispatch[g].pc = "marked" => dispatch[g].state # "NONE"

StoredInv == NothingSavedYet /\ SavedIsStored /\ MarkedIsAState /\ ClaimedIsStored

(* No row is ever deleted. *)
LEMMA RowsStay ==
  ASSUME TypeInv, StoredInv, [Next]_vars, NEW id \in Ids, state[id] # "NONE"
  PROVE  state'[id] # "NONE"
<1>1. CASE \E d \in Deliveries : SaveNotification(d)
  BY <1>1 DEF SaveNotification, TypeInv
<1>2. CASE \E g \in Dispatchers : Save(g)
  BY <1>2 DEF Save, TypeInv, StoredInv, MarkedIsAState
<1>3. CASE UNCHANGED state
  BY <1>3
<1> QED
  BY <1>1, <1>2, <1>3 DEF Next, vars, rows, events, Deliver, ClaimEvent, CommitEvent,
     StartDispatch, AckEvent, AbandonEvent, RetryFailed, ForceRetry, loadAttempts,
     Send, AbandonDispatch

(* Only a delivery begins the handling of an event. *)
LEMMA NextUnsaved ==
  ASSUME TypeInv, StoredInv, [Next]_vars
  PROVE  NothingSavedYet'
<1> SUFFICES ASSUME NEW d \in Deliveries, worker'[d].pc = "created"
             PROVE  worker'[d].saved = {}
  BY DEF NothingSavedYet
<1>1. CASE \E e \in Events : Deliver(d, e)
  BY <1>1 DEF Deliver, TypeInv
<1>2. CASE worker'[d] = worker[d]
  BY <1>2 DEF StoredInv, NothingSavedYet
<1>3. CASE \/ ClaimEvent(d) \/ SaveNotification(d) \/ CommitEvent(d)
           \/ \E g \in Dispatchers : StartDispatch(d, g)
           \/ AckEvent(d) \/ AbandonEvent(d)
  BY <1>3, FreeOnes DEF ClaimEvent, SaveNotification, CommitEvent, StartDispatch,
                        AckEvent, AbandonEvent, TypeInv, Workers
<1>4. CASE \E o \in Deliveries \ {d} :
             \/ \E e \in Events : Deliver(o, e)
             \/ ClaimEvent(o) \/ SaveNotification(o) \/ CommitEvent(o)
             \/ \E g \in Dispatchers : StartDispatch(o, g)
             \/ AckEvent(o) \/ AbandonEvent(o)
  BY <1>2, <1>4 DEF Deliver, ClaimEvent, SaveNotification, CommitEvent, StartDispatch,
                    AckEvent, AbandonEvent, TypeInv
<1> QED
  BY <1>1, <1>2, <1>3, <1>4
     DEF Next, vars, rows, events, RetryFailed, ForceRetry, loadAttempts, Send, Save,
         AbandonDispatch

(* Whoever claims begins with nothing saved, and then saves what it is     *)
(* said to have saved.                                                     *)
LEMMA NextSaved ==
  ASSUME TypeInv, StoredInv, [Next]_vars
  PROVE  SavedIsStored'
<1> SUFFICES ASSUME NEW d \in Deliveries, worker'[d].pc = "claimed",
                    NEW c \in worker'[d].saved
             PROVE  state'[IdOf(d, c)'] # "NONE"
  BY DEF SavedIsStored
<1>1. ASSUME worker'[d] = worker[d]
      PROVE  state'[IdOf(d, c)'] # "NONE"
  <2>1. state[IdOf(d, c)] # "NONE" /\ IdOf(d, c)' = IdOf(d, c)
    BY <1>1 DEF StoredInv, SavedIsStored, IdOf
  <2>2. IdOf(d, c) \in Ids
    BY <1>1, IdsOfEvents DEF TypeInv, HandlesAnEvent, IdOf
  <2> QED
    BY <2>1, <2>2, RowsStay
<1>2. CASE ClaimEvent(d)
  BY <1>2, FreeOnes DEF ClaimEvent, TypeInv, Workers, NothingSavedYet, StoredInv
<1>3. CASE SaveNotification(d)
  <2> PICK x \in ChannelsOf[worker[d].event] :
        /\ state' = [state EXCEPT ![IdOf(d, x)] = "PENDING"]
        /\ worker' = [worker EXCEPT ![d].saved = @ \cup {x}]
    BY <1>3 DEF SaveNotification
  <2>1. /\ worker[d].pc = "claimed" /\ IdOf(d, c)' = IdOf(d, c)
        /\ c \in worker[d].saved \cup {x}
    BY <1>3 DEF SaveNotification, TypeInv, Workers, IdOf
  <2>2. IdOf(d, x) \in Ids
    BY <2>1, IdsOfEvents DEF TypeInv, HandlesAnEvent, IdOf
  <2>3. CASE c = x
    BY <2>1, <2>2, <2>3 DEF TypeInv
  <2>4. CASE c \in worker[d].saved
    <3>1. state[IdOf(d, c)] # "NONE" /\ IdOf(d, c) \in Ids
      BY <2>1, <2>4, IdsOfEvents DEF StoredInv, SavedIsStored, TypeInv, HandlesAnEvent, IdOf
    <3> QED
      BY <2>1, <3>1, RowsStay
  <2> QED
    BY <2>1, <2>3, <2>4
<1>4. CASE \/ \E e \in Events : Deliver(d, e)
           \/ CommitEvent(d) \/ AckEvent(d) \/ AbandonEvent(d)
           \/ \E g \in Dispatchers : StartDispatch(d, g)
  BY <1>4, FreeOnes DEF Deliver, CommitEvent, AckEvent, AbandonEvent, StartDispatch,
                        TypeInv, Workers
<1>5. CASE \E o \in Deliveries \ {d} :
             \/ \E e \in Events : Deliver(o, e)
             \/ ClaimEvent(o) \/ SaveNotification(o) \/ CommitEvent(o)
             \/ \E g \in Dispatchers : StartDispatch(o, g)
             \/ AckEvent(o) \/ AbandonEvent(o)
  BY <1>1, <1>5 DEF Deliver, ClaimEvent, SaveNotification, CommitEvent, StartDispatch,
                    AckEvent, AbandonEvent, TypeInv
<1>6. CASE UNCHANGED worker
  BY <1>1, <1>6
<1> QED
  BY <1>2, <1>3, <1>4, <1>5, <1>6
     DEF Next, vars, rows, events, RetryFailed, ForceRetry, loadAttempts, Send, Save,
         AbandonDispatch

(* Only an answer marks a dispatch. *)
LEMMA NextMarked ==
  ASSUME TypeInv, StoredInv, [Next]_vars
  PROVE  MarkedIsAState'
<1>1. ASSUME NEW g \in Dispatchers, Send(g)
      PROVE  MarkedIsAState'
  BY <1>1, FreeOnes DEF Send, Marked, StoredInv, MarkedIsAState, TypeInv, Dispatches
<1>2. CASE \E g \in Dispatchers, id \in Ids : RetryFailed(g, id) \/ ForceRetry(g, id)
  BY <1>2 DEF RetryFailed, ForceRetry, ReadRow, StoredInv, MarkedIsAState, TypeInv
<1>3. CASE \E g \in Dispatchers : loadAttempts(g)
  BY <1>3 DEF loadAttempts, StoredInv, MarkedIsAState, TypeInv, Dispatches
<1>4. CASE \E g \in Dispatchers : Save(g) \/ AbandonDispatch(g)
  BY <1>4, FreeOnes DEF Save, AbandonDispatch, StoredInv, MarkedIsAState, TypeInv
<1>5. CASE \E d \in Deliveries, g \in Dispatchers : StartDispatch(d, g)
  BY <1>5 DEF StartDispatch, StoredInv, MarkedIsAState, TypeInv
<1>6. CASE UNCHANGED dispatch
  BY <1>6 DEF StoredInv, MarkedIsAState
<1> QED
  BY <1>1, <1>2, <1>3, <1>4, <1>5, <1>6
     DEF Next, vars, Deliver, ClaimEvent, SaveNotification, CommitEvent, AckEvent,
         AbandonEvent

(* An event is claimed by the commit of a handler that saved all of its    *)
(* notifications.                                                          *)
LEMMA NextStored ==
  ASSUME TypeInv, StoredInv, [Next]_vars
  PROVE  ClaimedIsStored'
<1> SUFFICES ASSUME NEW e \in processed'
             PROVE  \E k \in 1..MaxDeliver : \A c \in ChannelsOf[e] : state'[<<e, k, c>>] # "NONE"
  BY DEF ClaimedIsStored
<1>1. CASE e \in processed
  <2>1. PICK k \in 1..MaxDeliver : \A c \in ChannelsOf[e] : state[<<e, k, c>>] # "NONE"
    BY <1>1 DEF StoredInv, ClaimedIsStored
  <2>2. ASSUME NEW c \in ChannelsOf[e]
        PROVE  state'[<<e, k, c>>] # "NONE"
    BY <1>1, <2>1, IdsOfEvents, RowsStay DEF TypeInv
  <2> QED
    BY <2>2
<1>2. CASE e \notin processed
  <2>1. PICK d \in Deliveries : CommitEvent(d)
    BY <1>2 DEF Next, vars, rows, events, Deliver, ClaimEvent, SaveNotification,
       StartDispatch, AckEvent, AbandonEvent, RetryFailed, ForceRetry, loadAttempts,
       Send, Save, AbandonDispatch
  <2>2. worker[d].event = e /\ worker[d].k \in 1..MaxDeliver
    BY <1>2, <2>1 DEF CommitEvent, TypeInv, HandlesAnEvent
  <2>3. \A c \in ChannelsOf[e] : state'[<<e, worker[d].k, c>>] # "NONE"
    BY <2>1, <2>2 DEF CommitEvent, rows, StoredInv, SavedIsStored, IdOf
  <2> QED
    BY <2>2, <2>3
<1> QED
  BY <1>1, <1>2

(* An event that was claimed has all of its notifications in the table,    *)
(* although they are saved on another connection than the claim.           *)
THEOREM ClaimedHasNotifications == Spec => []ClaimedIsStored
<1>1. Init => StoredInv
  BY FreeOnes DEF Init, NoWork, NoDispatch, StoredInv, NothingSavedYet, SavedIsStored,
     MarkedIsAState, ClaimedIsStored
<1>2. TypeInv /\ StoredInv /\ [Next]_vars => StoredInv'
  BY NextSaved, NextMarked, NextStored, NextUnsaved DEF StoredInv
<1> QED
  BY <1>1, <1>2, TypesHold, PTL DEF Spec, StoredInv
===============================================================================
