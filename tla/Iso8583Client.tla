--------------------------- MODULE Iso8583Client ---------------------------
(***************************************************************************)
(* The ISO 8583 client: calls that share one TCP connection to the host,   *)
(* the goroutine that reads it and reconnects, and the host.               *)
(*                                                                         *)
(* A call registers a waiter for its key (message type and RRN) under mu,  *)
(* together with the reading of the connection it is for, writes its frame *)
(* and waits. A response goes to the first waiter of its key. When a       *)
(* connection ends its waiters are told. The host handles each connection  *)
(* in a goroutine of its own, and reads to the end what was sent on one    *)
(* that the client has already left.                                       *)
(*                                                                         *)
(* A connection breaks for the network, for either end, for a message that *)
(* cannot be read, for a partial write or for an echo without an answer.   *)
(***************************************************************************)
EXTENDS Integers, Sequences, FiniteSets, SequencesExt

CONSTANTS
  Sales,
  Calls,     \* calls of Authorize and Reverse
  KindOf,    \* AUTH or REVERSAL, for each call
  SaleOf,    \* the sale of each call
  MaxConns   \* bound: connections opened, one after another

ASSUME ClientAssumption ==
  /\ KindOf \in [Calls -> {"AUTH", "REVERSAL"}]
  /\ SaleOf \in [Calls -> Sales]
  /\ MaxConns \in Nat \ {0}

Conns == 1..MaxConns
Keys == {"AUTH", "REVERSAL"} \X Sales
KeyOf(c) == <<KindOf[c], SaleOf[c]>>

(* DE-39: approved, original not found, or anything else. *)
Codes == {"00", "25", "declined"}

VARIABLES
  conn,      \* Client.conn; 0 is nil
  opened,    \* connections opened so far
  open,      \* connections that are not broken
  serving,   \* where Run is: dialing, reading, or out of the read loop
  pending,   \* the waiters of each key, in order
  chan,      \* the channel of each call: empty, closed or a code
  call,      \* the goroutine of each call, and the connection it took
  toHost,    \* frames on the way to the host, by connection: calls
  toClient,  \* responses on the way back, by connection
  approved,  \* the connection on which the host approved a sale; 0 if not
  reversed   \* sales the host reversed

client == <<conn, serving, pending, chan>>
wire == <<toHost, toClient>>
host == <<approved, reversed>>
vars == <<client, opened, open, call, wire, host>>

Ended == {"answered", "not sent", "lost", "timed out", "partial"}

TypeOK ==
  /\ conn \in {0, opened}
  /\ opened \in 0..MaxConns
  /\ open \subseteq 1..opened
  /\ serving \in {"dialing", "reading", "ended"}
  /\ serving = "dialing" <=> conn = 0
  /\ pending \in [Keys -> Seq(Calls)]
  /\ \A k \in Keys : \A i \in DOMAIN pending[k] : KeyOf(pending[k][i]) = k
  /\ chan \in [Calls -> Codes \cup {"empty", "closed"}]
  /\ call \in [Calls -> [pc : {"idle", "registered", "waiting"} \cup Ended,
                         conn : 0..MaxConns]]
  /\ toHost \in [Conns -> Seq(Calls)]
  /\ toClient \in [Conns -> Seq(Keys \X Codes)]
  /\ approved \in [Sales -> 0..MaxConns]
  /\ reversed \subseteq Sales

Init ==
  /\ conn = 0
  /\ opened = 0
  /\ open = {}
  /\ serving = "dialing"
  /\ pending = [k \in Keys |-> <<>>]
  /\ chan = [c \in Calls |-> "empty"]
  /\ call = [c \in Calls |-> [pc |-> "idle", conn |-> 0]]
  /\ toHost = [n \in Conns |-> <<>>]
  /\ toClient = [n \in Conns |-> <<>>]
  /\ approved = [s \in Sales |-> 0]
  /\ reversed = {}

------------------------------------------------------------------------------
(* Run and serve.                                                          *)

Dial ==
  /\ serving = "dialing"
  /\ opened < MaxConns
  /\ opened' = opened + 1
  /\ open' = open \cup {opened + 1}
  /\ conn' = opened + 1
  /\ serving' = "reading"
  /\ UNCHANGED <<pending, chan, call, wire, host>>

(* Some of the frames on their way are lost, those sent last. *)
Break(n) ==
  /\ n \in open
  /\ open' = open \ {n}
  /\ \E kept \in 0..Len(toHost[n]) :
       toHost' = [toHost EXCEPT ![n] = SubSeq(@, 1, kept)]
  /\ UNCHANGED <<client, opened, call, toClient, host>>

(* readLoop and deliver: the first waiter of the key, or nobody if the     *)
(* call did not wait so long.                                              *)
ReadResponse ==
  /\ serving = "reading"
  /\ toClient[conn] # <<>>
  /\ LET k == Head(toClient[conn])[1]
         code == Head(toClient[conn])[2]
     IN  /\ toClient' = [toClient EXCEPT ![conn] = Tail(@)]
         /\ IF pending[k] = <<>>
            THEN UNCHANGED <<pending, chan>>
            ELSE /\ chan' = [chan EXCEPT ![Head(pending[k])] = code]
                 /\ pending' = [pending EXCEPT ![k] = Tail(@)]
  /\ UNCHANGED <<conn, serving, opened, open, call, toHost, host>>

(* The read fails, and serve stops the echo and closes the connection. *)
ReadFails ==
  /\ serving = "reading"
  /\ conn \notin open
  /\ serving' = "ended"
  /\ UNCHANGED <<conn, pending, chan, opened, open, call, wire, host>>

Waiters == {c \in Calls : c \in ToSet(pending[KeyOf(c)])}

(* Variant: c.conn keeps the connection that ended. *)
DropWaiters ==
  /\ serving = "ended"
  /\ serving' = "dialing"
  /\ chan' = [c \in Calls |-> IF c \in Waiters THEN "closed" ELSE chan[c]]
  /\ pending' = [k \in Keys |-> <<>>]
  /\ UNCHANGED <<conn, opened, open, call, wire, host>>

(* The end of serve: no connection, and whoever waited is told. *)
DropConnection ==
  /\ serving = "ended"
  /\ serving' = "dialing"
  /\ conn' = 0
  /\ chan' = [c \in Calls |-> IF c \in Waiters THEN "closed" ELSE chan[c]]
  /\ pending' = [k \in Keys |-> <<>>]
  /\ UNCHANGED <<opened, open, call, wire, host>>

------------------------------------------------------------------------------
(* roundTrip.                                                              *)

(* forget: if the call is still among the waiters of its key. *)
Forget(c) ==
  IF c \in Waiters
  THEN \E i \in DOMAIN pending[KeyOf(c)] :
         /\ pending[KeyOf(c)][i] = c
         /\ pending' = [pending EXCEPT ![KeyOf(c)] = RemoveAt(@, i)]
  ELSE UNCHANGED pending

(* Whoever reverses a sale has seen its authorization end.                 *)
AuthorizationEnded(s) ==
  \A c \in Calls : KindOf[c] = "AUTH" /\ SaleOf[c] = s => call[c].pc \in Ended

(* The message cannot be made, or there is no connection. *)
StartNotSent(c) ==
  /\ call[c].pc = "idle"
  /\ KindOf[c] = "REVERSAL" => AuthorizationEnded(SaleOf[c])
  /\ call' = [call EXCEPT ![c].pc = "not sent"]
  /\ UNCHANGED <<client, opened, open, wire, host>>

(* Variant: the connection was read before, in another critical section.   *)
RegisterLater(c) ==
  /\ call[c].pc = "idle"
  /\ KindOf[c] = "REVERSAL" => AuthorizationEnded(SaleOf[c])
  /\ \E n \in 1..opened : call' = [call EXCEPT ![c] = [pc |-> "registered", conn |-> n]]
  /\ pending' = [pending EXCEPT ![KeyOf(c)] = Append(@, c)]
  /\ UNCHANGED <<conn, serving, chan, opened, open, wire, host>>

(* The waiter is registered in the critical section that reads c.conn. *)
Register(c) ==
  /\ call[c].pc = "idle"
  /\ KindOf[c] = "REVERSAL" => AuthorizationEnded(SaleOf[c])
  /\ conn # 0
  /\ call' = [call EXCEPT ![c] = [pc |-> "registered", conn |-> conn]]
  /\ pending' = [pending EXCEPT ![KeyOf(c)] = Append(@, c)]
  /\ UNCHANGED <<conn, serving, chan, opened, open, wire, host>>

(* WriteFrame under writeMu. On a connection that broke, the frame may be  *)
(* accepted all the same and go nowhere.                                   *)
Write(c) ==
  LET n == call[c].conn
  IN  /\ call[c].pc = "registered"
      /\ call' = [call EXCEPT ![c].pc = "waiting"]
      /\ toHost' = IF n \in open THEN [toHost EXCEPT ![n] = Append(@, c)] ELSE toHost
      /\ UNCHANGED <<client, opened, open, toClient, host>>

(* No byte went out. *)
WriteNothing(c) ==
  /\ call[c].pc = "registered"
  /\ call' = [call EXCEPT ![c].pc = "not sent"]
  /\ Forget(c)
  /\ UNCHANGED <<conn, serving, chan, opened, open, wire, host>>

(* Some bytes did: the connection is closed, and the host gets no frame.   *)
WritePart(c) ==
  /\ call[c].pc = "registered"
  /\ call[c].conn \in open
  /\ call' = [call EXCEPT ![c].pc = "partial"]
  /\ Forget(c)
  /\ open' = open \ {call[c].conn}
  /\ UNCHANGED <<conn, serving, chan, opened, wire, host>>

(* Variant: whoever was waiting when the connection ended is told that     *)
(* nothing was sent.                                                       *)
ReceiveNotSent(c) ==
  /\ call[c].pc = "waiting"
  /\ chan[c] # "empty"
  /\ call' = [call EXCEPT ![c].pc = IF chan[c] = "closed" THEN "not sent" ELSE "answered"]
  /\ UNCHANGED <<client, opened, open, wire, host>>

Receive(c) ==
  /\ call[c].pc = "waiting"
  /\ chan[c] # "empty"
  /\ call' = [call EXCEPT ![c].pc = IF chan[c] = "closed" THEN "lost" ELSE "answered"]
  /\ UNCHANGED <<client, opened, open, wire, host>>

(* The select may take ctx.Done though the response is there. *)
TimeOut(c) ==
  /\ call[c].pc = "waiting"
  /\ call' = [call EXCEPT ![c].pc = "timed out"]
  /\ Forget(c)
  /\ UNCHANGED <<conn, serving, chan, opened, open, wire, host>>

------------------------------------------------------------------------------
(* The host: hostsim.                                                      *)

(* The response is written, or lost with the connection. *)
Respond(n, k, code) ==
  toClient' \in IF n \in open
                THEN {toClient, [toClient EXCEPT ![n] = Append(@, <<k, code>>)]}
                ELSE {toClient}

NextFrame(n, kind) ==
  /\ toHost[n] # <<>>
  /\ KindOf[Head(toHost[n])] = kind
  /\ toHost' = [toHost EXCEPT ![n] = Tail(@)]
  /\ UNCHANGED <<client, opened, open, call>>

(* authorize: approved or declined, with an answer or without. *)
HostAuthorizes(n) ==
  LET s == SaleOf[Head(toHost[n])]
  IN  /\ NextFrame(n, "AUTH")
      /\ \/ /\ approved' = [approved EXCEPT ![s] = n]
            /\ Respond(n, <<"AUTH", s>>, "00")
         \/ /\ UNCHANGED approved
            /\ Respond(n, <<"AUTH", s>>, "declined")
      /\ UNCHANGED reversed

(* Variant: a reversal leaves the approval in place. *)
NoteReversal(s) == UNCHANGED approved

Unapprove(s) == approved' = [approved EXCEPT ![s] = 0]

(* reverse: it may fail, and it fails to find what was never approved.     *)
HostReverses(n) ==
  LET s == SaleOf[Head(toHost[n])]
  IN  /\ NextFrame(n, "REVERSAL")
      /\ \/ /\ Respond(n, <<"REVERSAL", s>>, "declined")
            /\ UNCHANGED <<approved, reversed>>
         \/ /\ approved[s] = 0 /\ s \notin reversed
            /\ Respond(n, <<"REVERSAL", s>>, "25")
            /\ UNCHANGED <<approved, reversed>>
         \/ /\ approved[s] # 0 \/ s \in reversed
            /\ Respond(n, <<"REVERSAL", s>>, "00")
            /\ Unapprove(s)
            /\ reversed' = reversed \cup {s}

------------------------------------------------------------------------------
Next ==
  \/ Dial \/ ReadResponse \/ ReadFails \/ DropConnection
  \/ \E n \in Conns : Break(n) \/ HostAuthorizes(n) \/ HostReverses(n)
  \/ \E c \in Calls :
       \/ StartNotSent(c)
       \/ Register(c)
       \/ Write(c)
       \/ WriteNothing(c)
       \/ WritePart(c)
       \/ Receive(c)
       \/ TimeOut(c)

Spec == Init /\ [][Next]_vars

------------------------------------------------------------------------------
(* Properties.                                                             *)

(* A call that fails with ErrNotSent never reaches the host: Authorization *)
(* takes its word for it and neither reverses nor reconciles the sale.     *)
NotSentIsNotReceived ==
  \A c \in Calls : call[c].pc = "not sent" =>
    /\ \A n \in Conns : c \notin ToSet(toHost[n])
    /\ KindOf[c] = "AUTH" => approved[SaleOf[c]] = 0

(* Whoever waits will be heard of: it is among the waiters of its key and  *)
(* for the connection that is being served, or its channel has an answer   *)
(* or is closed. A connection that ends between the registration and the   *)
(* write leaves no waiter that only its timeout would end.                 *)
WaiterIsHeard ==
  \A c \in Calls : call[c].pc \in {"registered", "waiting"} =>
    IF c \in Waiters THEN call[c].conn = conn ELSE chan[c] # "empty"

(* Once a reversal was answered 00 or 25 the host does not hold the sale   *)
(* approved, unless the authorization was left in another connection than  *)
(* the reversal's: on one connection the host handles them in order,       *)
(* whatever was late, timed out or answered in the place of another.       *)
ReversedOnItsConnection ==
  \A c \in Calls :
    KindOf[c] = "REVERSAL" /\ call[c].pc = "answered" /\ chan[c] \in {"00", "25"} =>
      approved[SaleOf[c]] # call[c].conn

(* What Reverse is documented to conclude from "original not found": that  *)
(* there is nothing to undo, and that its caller may forget the sale. It   *)
(* does not hold. The authorization may be unread on a connection that the *)
(* link has left; the host answers the reversal, sent on the next one, and *)
(* approves the sale afterwards.                                           *)
NothingLeftToReverse ==
  \A c \in Calls :
    KindOf[c] = "REVERSAL" /\ call[c].pc = "answered" /\ chan[c] = "25" =>
      approved[SaleOf[c]] = 0
==============================================================================
