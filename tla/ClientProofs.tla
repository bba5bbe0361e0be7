----------------------------- MODULE ClientProofs -----------------------------
(***************************************************************************)
(* Proofs about Iso8583Client, for any number of calls, sales and          *)
(* connections: who waits is heard of, what was not sent was not received, *)
(* and a reversal that was answered left nothing approved on its           *)
(* connection.                                                             *)
(***************************************************************************)
EXTENDS Iso8583Client, SequenceTheorems, TLAPS

------------------------------------------------------------------------------
(* The sequences: waiters, frames and responses.                           *)

(* What is appended comes after what was there. *)
LEMMA Appended ==
  ASSUME NEW S, NEW q \in Seq(S), NEW e \in S
  PROVE  /\ Append(q, e) \in Seq(S)
         /\ Len(Append(q, e)) = Len(q) + 1
         /\ \A i \in 1..Len(q) : Append(q, e)[i] = q[i]
         /\ Append(q, e)[Len(q) + 1] = e
  OBVIOUS

(* Without its head, what is left of a sequence moves up by one. *)
LEMMA Shifted ==
  ASSUME NEW S, NEW q \in Seq(S), q # <<>>
  PROVE  /\ Tail(q) \in Seq(S)
         /\ Len(q) \in Nat \ {0}
         /\ Len(Tail(q)) = Len(q) - 1
         /\ \A i \in 1..Len(Tail(q)) : Tail(q)[i] = q[i + 1]
         /\ Head(q) = q[1]
         /\ q[1] \in S
  BY HeadTailProperties

(* The beginning of a sequence. *)
LEMMA Prefix ==
  ASSUME NEW S, NEW q \in Seq(S), NEW k \in 0..Len(q)
  PROVE  /\ SubSeq(q, 1, k) \in Seq(S)
         /\ Len(SubSeq(q, 1, k)) = k
         /\ \A i \in 1..k : SubSeq(q, 1, k)[i] = q[i]
  OBVIOUS

(* A sequence without one of its places. *)
LEMMA Removed ==
  ASSUME NEW S, NEW q \in Seq(S), NEW i \in 1..Len(q)
  PROVE  /\ RemoveAt(q, i) \in Seq(S)
         /\ Len(RemoveAt(q, i)) = Len(q) - 1
         /\ \A j \in 1..Len(RemoveAt(q, i)) :
              RemoveAt(q, i)[j] = IF j < i THEN q[j] ELSE q[j + 1]
<1> DEFINE before == SubSeq(q, 1, i - 1)
           after == SubSeq(q, i + 1, Len(q))
<1>1. /\ before \in Seq(S) /\ Len(before) = i - 1
      /\ \A j \in 1..(i - 1) : before[j] = q[j]
  OBVIOUS
<1>2. /\ after \in Seq(S) /\ Len(after) = Len(q) - i
      /\ \A j \in 1..(Len(q) - i) : after[j] = q[i + j]
  OBVIOUS
<1>3. RemoveAt(q, i) = before \o after
  BY DEF RemoveAt
<1> HIDE DEF before, after
<1>4. /\ before \o after \in Seq(S)
      /\ Len(before \o after) = Len(before) + Len(after)
      /\ \A j \in 1..(Len(before) + Len(after)) : (before \o after)[j] =
           IF j <= Len(before) THEN before[j] ELSE after[j - Len(before)]
  BY <1>1, <1>2, ConcatProperties
<1>5. Len(q) \in Nat
  OBVIOUS
<1>6. \A j \in 1..(Len(q) - 1) :
        (before \o after)[j] = IF j < i THEN q[j] ELSE q[j + 1]
  <2> SUFFICES ASSUME NEW j \in 1..(Len(q) - 1)
               PROVE  (before \o after)[j] = IF j < i THEN q[j] ELSE q[j + 1]
    OBVIOUS
  <2>1. CASE j < i
    BY <1>1, <1>2, <1>4, <1>5, <2>1
  <2>2. CASE ~(j < i)
    <3>1. (before \o after)[j] = after[j - (i - 1)]
      BY <1>1, <1>2, <1>4, <1>5, <2>2
    <3>2. j - (i - 1) \in 1..(Len(q) - i) /\ i + (j - (i - 1)) = j + 1
      BY <1>5, <2>2
    <3>3. after[j - (i - 1)] = q[i + (j - (i - 1))]
      BY <1>2, <3>2
    <3> QED
      BY <2>2, <3>1, <3>2, <3>3
  <2> QED
    BY <2>1, <2>2
<1>7. Len(before) + Len(after) = Len(q) - 1
  BY <1>1, <1>2, <1>5
<1> QED
  BY <1>3, <1>4, <1>6, <1>7

------------------------------------------------------------------------------
(* Type correctness.                                                       *)

(* The waiters of each key are calls of that key. *)
PendingType ==
  /\ pending \in [Keys -> Seq(Calls)]
  /\ \A k \in Keys : \A i \in DOMAIN pending[k] : KeyOf(pending[k][i]) = k

(* The key of a call. *)
LEMMA KeyType ==
  ASSUME NEW c \in Calls
  PROVE  /\ KeyOf(c) \in Keys
         /\ KeyOf(c) = <<KindOf[c], SaleOf[c]>>
  BY ClientAssumption DEF KeyOf, Keys

(* Replacing the waiters of one key keeps the others. *)
LEMMA PendingExcept ==
  ASSUME PendingType, NEW k \in Keys, NEW q \in Seq(Calls),
         \A i \in 1..Len(q) : KeyOf(q[i]) = k,
         pending' = [pending EXCEPT ![k] = q]
  PROVE  PendingType'
<1>1. /\ pending' \in [Keys -> Seq(Calls)]
      /\ \A j \in Keys : pending'[j] = IF j = k THEN q ELSE pending[j]
  BY DEF PendingType
<1>2. DOMAIN q = 1..Len(q)
  OBVIOUS
<1>3. ASSUME NEW j \in Keys PROVE \A i \in DOMAIN pending'[j] : KeyOf(pending'[j][i]) = j
  BY <1>1, <1>2 DEF PendingType
<1> QED
  BY <1>1, <1>3 DEF PendingType

(* A new waiter goes to the end of its key. *)
LEMMA RegisteredType ==
  ASSUME PendingType, NEW c \in Calls,
         pending' = [pending EXCEPT ![KeyOf(c)] = Append(@, c)]
  PROVE  PendingType'
<1> DEFINE q == pending[KeyOf(c)]
<1>1. q \in Seq(Calls) /\ KeyOf(c) \in Keys /\ \A i \in 1..Len(q) : KeyOf(q[i]) = KeyOf(c)
  BY KeyType DEF PendingType
<1>2. /\ Append(q, c) \in Seq(Calls)
      /\ Len(Append(q, c)) = Len(q) + 1
      /\ \A i \in 1..Len(q) : Append(q, c)[i] = q[i]
      /\ Append(q, c)[Len(q) + 1] = c
  BY <1>1, Appended
<1>3. \A i \in 1..Len(Append(q, c)) : KeyOf(Append(q, c)[i]) = KeyOf(c)
  BY <1>1, <1>2
<1>4. pending' = [pending EXCEPT ![KeyOf(c)] = Append(q, c)]
  OBVIOUS
<1> QED
  BY <1>1, <1>2, <1>3, <1>4, PendingExcept

(* forget removes one place of the key of the call, or nothing. *)
LEMMA ForgetPlaces ==
  ASSUME PendingType, NEW c \in Calls, Forget(c)
  PROVE  \/ c \notin Waiters /\ pending' = pending
         \/ \E i \in 1..Len(pending[KeyOf(c)]) :
              /\ pending[KeyOf(c)][i] = c
              /\ pending' = [pending EXCEPT ![KeyOf(c)] = RemoveAt(pending[KeyOf(c)], i)]
<1>1. pending[KeyOf(c)] \in Seq(Calls)
  BY KeyType DEF PendingType
<1>2. DOMAIN pending[KeyOf(c)] = 1..Len(pending[KeyOf(c)])
  BY <1>1
<1> QED
  BY <1>2 DEF Forget

(* forget keeps the waiters well typed. *)
LEMMA ForgetType ==
  ASSUME PendingType, NEW c \in Calls, Forget(c)
  PROVE  PendingType'
<1> DEFINE q == pending[KeyOf(c)]
<1>1. q \in Seq(Calls) /\ KeyOf(c) \in Keys /\ \A i \in 1..Len(q) : KeyOf(q[i]) = KeyOf(c)
  BY KeyType DEF PendingType
<1>2. CASE pending' = pending
  BY <1>2 DEF PendingType
<1>3. ASSUME NEW i \in 1..Len(q), pending' = [pending EXCEPT ![KeyOf(c)] = RemoveAt(q, i)]
      PROVE  PendingType'
  <2>1. /\ RemoveAt(q, i) \in Seq(Calls)
        /\ Len(RemoveAt(q, i)) = Len(q) - 1
        /\ \A j \in 1..Len(RemoveAt(q, i)) :
             RemoveAt(q, i)[j] = IF j < i THEN q[j] ELSE q[j + 1]
    BY <1>1, Removed
  <2>2. \A j \in 1..Len(RemoveAt(q, i)) : KeyOf(RemoveAt(q, i)[j]) = KeyOf(c)
    BY <1>1, <2>1
  <2> QED
    BY <1>1, <1>3, <2>1, <2>2, PendingExcept
<1> QED
  BY <1>2, <1>3, ForgetPlaces

(* A connection that breaks loses the end of what was sent on it. *)
LEMMA BreakType ==
  ASSUME toHost \in [Conns -> Seq(Calls)], NEW n \in Conns, NEW k \in 0..Len(toHost[n]),
         toHost' = [toHost EXCEPT ![n] = SubSeq(@, 1, k)]
  PROVE  toHost' \in [Conns -> Seq(Calls)]
<1>1. SubSeq(toHost[n], 1, k) \in Seq(Calls)
  BY Prefix
<1> QED
  BY <1>1

(* The host answers with a code for a key. *)
LEMMA RespondType ==
  ASSUME toClient \in [Conns -> Seq(Keys \X Codes)],
         NEW n \in Conns, NEW k \in Keys, NEW code \in Codes, Respond(n, k, code)
  PROVE  /\ toClient' \in [Conns -> Seq(Keys \X Codes)]
         /\ \/ toClient' = toClient
            \/ toClient' = [toClient EXCEPT ![n] = Append(toClient[n], <<k, code>>)]
<1>1. Append(toClient[n], <<k, code>>) \in Seq(Keys \X Codes)
  BY Appended
<1> QED
  BY <1>1 DEF Respond

(* The frame that the host takes. *)
LEMMA NextFrameType ==
  ASSUME TypeOK, NEW n \in Conns, NEW kind \in {"AUTH", "REVERSAL"}, NextFrame(n, kind)
  PROVE  /\ toHost' \in [Conns -> Seq(Calls)]
         /\ Head(toHost[n]) \in Calls
         /\ SaleOf[Head(toHost[n])] \in Sales
         /\ <<kind, SaleOf[Head(toHost[n])]>> \in Keys
<1>1. toHost[n] \in Seq(Calls) /\ toHost[n] # <<>>
  BY DEF TypeOK, NextFrame
<1>2. Tail(toHost[n]) \in Seq(Calls) /\ Head(toHost[n]) \in Calls
  BY <1>1, Shifted
<1>3. toHost' = [toHost EXCEPT ![n] = Tail(toHost[n])]
  BY DEF NextFrame
<1> QED
  BY <1>2, <1>3, ClientAssumption DEF TypeOK, Keys

(* A call moves on. *)
LEMMA PcType ==
  ASSUME TypeOK, NEW c \in Calls, NEW pc \in {"registered", "waiting"} \cup Ended,
         call' = [call EXCEPT ![c].pc = pc]
  PROVE  call' \in [Calls -> [pc : {"idle", "registered", "waiting"} \cup Ended,
                              conn : 0..MaxConns]]
  BY DEF TypeOK

(* The initial state is well typed. *)
LEMMA InitTypeOK == Init => TypeOK
  BY ClientAssumption DEF Init, TypeOK, Conns, Keys, Ended

(* What reading a response does to the waiters and their channels. *)
LEMMA ReadMove ==
  ASSUME TypeOK, ReadResponse
  PROVE  /\ conn \in Conns
         /\ toClient[conn] \in Seq(Keys \X Codes)
         /\ toClient[conn] # <<>>
         /\ toClient' = [toClient EXCEPT ![conn] = Tail(toClient[conn])]
         /\ \E k \in Keys, code \in Codes :
              /\ toClient[conn][1] = <<k, code>>
              /\ \/ /\ pending[k] = <<>>
                    /\ UNCHANGED <<pending, chan>>
                 \/ /\ pending[k] # <<>>
                    /\ chan' = [chan EXCEPT ![pending[k][1]] = code]
                    /\ pending' = [pending EXCEPT ![k] = Tail(pending[k])]
<1>1. conn \in Conns
  BY ClientAssumption DEF TypeOK, ReadResponse, Conns
<1>2. toClient[conn] \in Seq(Keys \X Codes) /\ toClient[conn] # <<>>
  BY <1>1 DEF TypeOK, ReadResponse
<1>3. Head(toClient[conn]) = toClient[conn][1] /\ toClient[conn][1] \in Keys \X Codes
  BY <1>2, Shifted
<1>4. PICK k \in Keys, code \in Codes : toClient[conn][1] = <<k, code>>
  BY <1>3
<1>5. Head(toClient[conn])[1] = k /\ Head(toClient[conn])[2] = code
  BY <1>3, <1>4
<1>6. toClient' = [toClient EXCEPT ![conn] = Tail(toClient[conn])]
  BY DEF ReadResponse
<1>7. \/ pending[k] = <<>> /\ UNCHANGED <<pending, chan>>
      \/ /\ pending[k] # <<>>
         /\ chan' = [chan EXCEPT ![Head(pending[k])] = code]
         /\ pending' = [pending EXCEPT ![k] = Tail(pending[k])]
  BY <1>5 DEF ReadResponse
<1>8. ASSUME pending[k] # <<>> PROVE Head(pending[k]) = pending[k][1]
  BY <1>8, Shifted DEF TypeOK
<1> QED
  BY <1>1, <1>2, <1>4, <1>6, <1>7, <1>8

(* The head of a queue of waiters leaves it. *)
LEMMA ServedType ==
  ASSUME PendingType, NEW k \in Keys, pending[k] # <<>>,
         pending' = [pending EXCEPT ![k] = Tail(pending[k])]
  PROVE  PendingType' /\ pending[k][1] \in Calls
<1>1. pending[k] \in Seq(Calls) /\ \A i \in 1..Len(pending[k]) : KeyOf(pending[k][i]) = k
  BY DEF PendingType
<1>2. /\ Tail(pending[k]) \in Seq(Calls)
      /\ Len(pending[k]) \in Nat \ {0}
      /\ Len(Tail(pending[k])) = Len(pending[k]) - 1
      /\ \A i \in 1..Len(Tail(pending[k])) : Tail(pending[k])[i] = pending[k][i + 1]
      /\ pending[k][1] \in Calls
  BY <1>1, Shifted
<1>3. \A i \in 1..Len(Tail(pending[k])) : KeyOf(Tail(pending[k])[i]) = k
  BY <1>1, <1>2
<1> QED
  BY <1>2, <1>3, PendingExcept

(* Every reachable state is well typed: connections are numbered as they   *)
(* are opened, c.conn is the last of them or nil, and Run only dials when  *)
(* it is nil.                                                              *)
THEOREM TypeCorrect == Spec => []TypeOK
<1>1. Init => TypeOK
  BY InitTypeOK
<1>2. TypeOK /\ [Next]_vars => TypeOK'
  <2> SUFFICES ASSUME TypeOK, [Next]_vars PROVE TypeOK'
    OBVIOUS
  <2> USE ClientAssumption
  <2>0. PendingType
    BY DEF TypeOK, PendingType
  <2>1. CASE Dial
    BY <2>1 DEF TypeOK, Dial, client, wire, host, Conns
  <2>2. CASE ReadResponse
    <3>1. PendingType' /\ chan' \in [Calls -> Codes \cup {"empty", "closed"}]
      <4>1. PICK k \in Keys, code \in Codes :
              \/ UNCHANGED <<pending, chan>>
              \/ /\ pending[k] # <<>>
                 /\ chan' = [chan EXCEPT ![pending[k][1]] = code]
                 /\ pending' = [pending EXCEPT ![k] = Tail(pending[k])]
        BY <2>2, ReadMove
      <4>2. CASE UNCHANGED <<pending, chan>>
        BY <2>0, <4>2 DEF TypeOK, PendingType
      <4>3. CASE /\ pending[k] # <<>>
                 /\ chan' = [chan EXCEPT ![pending[k][1]] = code]
                 /\ pending' = [pending EXCEPT ![k] = Tail(pending[k])]
        BY <2>0, <4>3, ServedType DEF TypeOK
      <4> QED
        BY <4>1, <4>2, <4>3
    <3>2. toClient' \in [Conns -> Seq(Keys \X Codes)]
      <4>1. Tail(toClient[conn]) \in Seq(Keys \X Codes)
        BY <2>2, ReadMove, Shifted
      <4> QED
        BY <2>2, <4>1, ReadMove DEF TypeOK
    <3> QED
      BY <2>2, <3>1, <3>2 DEF TypeOK, PendingType, ReadResponse, host
  <2>3. CASE ReadFails
    BY <2>3 DEF TypeOK, ReadFails, wire, host
  <2>4. CASE DropConnection
    <3>1. pending' \in [Keys -> Seq(Calls)] /\ \A k \in Keys : pending'[k] = <<>>
      BY <2>4 DEF DropConnection
    <3>2. chan' \in [Calls -> Codes \cup {"empty", "closed"}]
      BY <2>4 DEF TypeOK, DropConnection
    <3> QED
      BY <2>4, <3>1, <3>2 DEF TypeOK, DropConnection, wire, host
  <2>5. ASSUME NEW n \in Conns, Break(n) PROVE TypeOK'
    <3>1. toHost' \in [Conns -> Seq(Calls)]
      BY <2>5, BreakType DEF TypeOK, Break
    <3> QED
      BY <2>5, <3>1 DEF TypeOK, Break, client, host
  <2>6. ASSUME NEW n \in Conns, HostAuthorizes(n) PROVE TypeOK'
    <3> DEFINE s == SaleOf[Head(toHost[n])]
    <3>1. toHost' \in [Conns -> Seq(Calls)] /\ s \in Sales /\ <<"AUTH", s>> \in Keys
      BY <2>6, NextFrameType DEF HostAuthorizes
    <3>2. toClient' \in [Conns -> Seq(Keys \X Codes)]
      BY <2>6, <3>1, RespondType DEF TypeOK, HostAuthorizes, Codes
    <3>3. approved' \in [Sales -> 0..MaxConns]
      <4>1. approved' = approved \/ approved' = [approved EXCEPT ![s] = n]
        BY <2>6 DEF HostAuthorizes
      <4>2. approved \in [Sales -> 0..MaxConns] /\ n \in 0..MaxConns
        BY DEF TypeOK, Conns
      <4> QED
        BY <4>1, <4>2
    <3> QED
      BY <2>6, <3>1, <3>2, <3>3 DEF TypeOK, HostAuthorizes, NextFrame, client
  <2>7. ASSUME NEW n \in Conns, HostReverses(n) PROVE TypeOK'
    <3> DEFINE s == SaleOf[Head(toHost[n])]
    <3>1. toHost' \in [Conns -> Seq(Calls)] /\ s \in Sales /\ <<"REVERSAL", s>> \in Keys
      BY <2>7, NextFrameType DEF HostReverses
    <3>2. toClient' \in [Conns -> Seq(Keys \X Codes)]
      BY <2>7, <3>1, RespondType DEF TypeOK, HostReverses, Codes
    <3>3. approved' \in [Sales -> 0..MaxConns] /\ reversed' \subseteq Sales
      <4>1. \/ approved' = approved /\ reversed' = reversed
            \/ approved' = [approved EXCEPT ![s] = 0] /\ reversed' = reversed \cup {s}
        BY <2>7 DEF HostReverses, Unapprove
      <4>2. approved \in [Sales -> 0..MaxConns] /\ reversed \subseteq Sales
        BY DEF TypeOK
      <4>3. 0 \in 0..MaxConns
        OBVIOUS
      <4>4. approved' \in [Sales -> 0..MaxConns]
        BY <4>1, <4>2, <4>3
      <4> QED
        BY <3>1, <4>1, <4>2, <4>4
    <3> QED
      BY <2>7, <3>1, <3>2, <3>3 DEF TypeOK, HostReverses, NextFrame, client
  <2>8. ASSUME NEW c \in Calls, StartNotSent(c) PROVE TypeOK'
    BY <2>8 DEF TypeOK, StartNotSent, client, wire, host, Ended
  <2>9. ASSUME NEW c \in Calls, Register(c) PROVE TypeOK'
    <3>1. PendingType'
      BY <2>0, <2>9, RegisteredType DEF Register
    <3> QED
      BY <2>9, <3>1 DEF TypeOK, PendingType, Register, wire, host
  <2>10. ASSUME NEW c \in Calls, Write(c) PROVE TypeOK'
    <3>1. toHost' \in [Conns -> Seq(Calls)]
      <4>1. CASE toHost' = toHost
        BY <4>1 DEF TypeOK
      <4>2. ASSUME call[c].conn \in open,
                   toHost' = [toHost EXCEPT ![call[c].conn] = Append(@, c)]
            PROVE  toHost' \in [Conns -> Seq(Calls)]
        <5>1. call[c].conn \in Conns
          BY <4>2 DEF TypeOK, Conns
        <5>2. Append(toHost[call[c].conn], c) \in Seq(Calls)
          BY <5>1, Appended DEF TypeOK
        <5> QED
          BY <4>2, <5>1, <5>2 DEF TypeOK
      <4> QED
        BY <2>10, <4>1, <4>2 DEF Write
    <3> QED
      BY <2>10, <3>1 DEF TypeOK, Write, client, host
  <2>11. ASSUME NEW c \in Calls, WriteNothing(c) PROVE TypeOK'
    <3>1. PendingType'
      BY <2>0, <2>11, ForgetType DEF WriteNothing
    <3>2. call' \in [Calls -> [pc : {"idle", "registered", "waiting"} \cup Ended,
                              conn : 0..MaxConns]]
      BY <2>11, PcType DEF WriteNothing, Ended
    <3> QED
      BY <2>11, <3>1, <3>2 DEF TypeOK, PendingType, WriteNothing, wire, host
  <2>12. ASSUME NEW c \in Calls, WritePart(c) PROVE TypeOK'
    <3>1. PendingType'
      BY <2>0, <2>12, ForgetType DEF WritePart
    <3>2. call' \in [Calls -> [pc : {"idle", "registered", "waiting"} \cup Ended,
                              conn : 0..MaxConns]]
      BY <2>12, PcType DEF WritePart, Ended
    <3> QED
      BY <2>12, <3>1, <3>2 DEF TypeOK, PendingType, WritePart, wire, host
  <2>13. ASSUME NEW c \in Calls, Receive(c) PROVE TypeOK'
    <3>1. call' = [call EXCEPT ![c].pc = "lost"] \/ call' = [call EXCEPT ![c].pc = "answered"]
      BY <2>13 DEF Receive
    <3>2. call' \in [Calls -> [pc : {"idle", "registered", "waiting"} \cup Ended,
                              conn : 0..MaxConns]]
      BY <3>1, PcType DEF Ended
    <3> QED
      BY <2>13, <3>2 DEF TypeOK, Receive, client, wire, host
  <2>14. ASSUME NEW c \in Calls, TimeOut(c) PROVE TypeOK'
    <3>1. PendingType'
      BY <2>0, <2>14, ForgetType DEF TimeOut
    <3>2. call' \in [Calls -> [pc : {"idle", "registered", "waiting"} \cup Ended,
                              conn : 0..MaxConns]]
      BY <2>14, PcType DEF TimeOut, Ended
    <3> QED
      BY <2>14, <3>1, <3>2 DEF TypeOK, PendingType, TimeOut, wire, host
  <2>15. CASE UNCHANGED vars
    BY <2>15 DEF TypeOK, vars, client, wire, host
  <2> QED
    BY <2>1, <2>2, <2>3, <2>4, <2>5, <2>6, <2>7, <2>8, <2>9, <2>10, <2>11, <2>12,
       <2>13, <2>14, <2>15 DEF Next
<1> QED
  BY <1>1, <1>2, PTL DEF Spec

------------------------------------------------------------------------------
(* What one step does.                                                     *)

(* In roundTrip, with a waiter that may be registered. *)
Live == {"registered", "waiting"}

(* The whole frame was written. *)
Sent == {"waiting", "answered", "lost", "timed out"}

(* A call goes one way: it keeps its connection, and neither its end nor   *)
(* what it wrote is undone.                                                *)
CallMove(c) ==
  /\ call[c].pc \in Ended => call'[c] = call[c]
  /\ call[c].pc # "idle" => call'[c].pc # "idle" /\ call'[c].conn = call[c].conn
  /\ call[c].pc \in Sent => call'[c].pc \in Sent
  /\ call[c].pc = "idle" /\ call'[c].pc # "idle" =>
       /\ call'[c].pc \in {"not sent", "registered"}
       /\ KindOf[c] = "REVERSAL" => AuthorizationEnded(SaleOf[c])

(* Every step moves every call so. *)
LEMMA CallMoves ==
  ASSUME TypeOK, [Next]_vars
  PROVE  \A c \in Calls : CallMove(c)
<1> SUFFICES ASSUME NEW c \in Calls PROVE CallMove(c)
  OBVIOUS
<1> USE DEF CallMove, Ended, Sent
<1>1. CASE UNCHANGED call
  BY <1>1
<1>2. ASSUME NEW d \in Calls, StartNotSent(d) PROVE CallMove(c)
  BY <1>2 DEF StartNotSent, TypeOK
<1>3. ASSUME NEW d \in Calls, Register(d) PROVE CallMove(c)
  BY <1>3 DEF Register, TypeOK
<1>4. ASSUME NEW d \in Calls, Write(d) PROVE CallMove(c)
  BY <1>4 DEF Write, TypeOK
<1>5. ASSUME NEW d \in Calls, WriteNothing(d) PROVE CallMove(c)
  BY <1>5 DEF WriteNothing, TypeOK
<1>6. ASSUME NEW d \in Calls, WritePart(d) PROVE CallMove(c)
  BY <1>6 DEF WritePart, TypeOK
<1>7. ASSUME NEW d \in Calls, Receive(d) PROVE CallMove(c)
  BY <1>7 DEF Receive, TypeOK
<1>8. ASSUME NEW d \in Calls, TimeOut(d) PROVE CallMove(c)
  BY <1>8 DEF TimeOut, TypeOK
<1>9. \/ UNCHANGED call
      \/ \E d \in Calls : \/ StartNotSent(d) \/ Register(d) \/ Write(d) \/ WriteNothing(d)
                          \/ WritePart(d) \/ Receive(d) \/ TimeOut(d)
  BY DEF Next, vars, Dial, ReadResponse, ReadFails, DropConnection, Break,
         HostAuthorizes, HostReverses, NextFrame
<1> QED
  BY <1>1, <1>2, <1>3, <1>4, <1>5, <1>6, <1>7, <1>8, <1>9

(* The frames on the way on connection n: the last are lost, the host      *)
(* takes the first, or a call that was registered for n writes its own.    *)
FrameMove(n) ==
  \/ /\ Len(toHost'[n]) <= Len(toHost[n])
     /\ \A i \in 1..Len(toHost'[n]) : toHost'[n][i] = toHost[n][i]
  \/ /\ toHost[n] # <<>>
     /\ Len(toHost'[n]) = Len(toHost[n]) - 1
     /\ \A i \in 1..Len(toHost'[n]) : toHost'[n][i] = toHost[n][i + 1]
  \/ \E c \in Calls :
       /\ call[c].pc = "registered" /\ call[c].conn = n /\ call'[c].pc = "waiting"
       /\ Len(toHost'[n]) = Len(toHost[n]) + 1
       /\ \A i \in 1..Len(toHost[n]) : toHost'[n][i] = toHost[n][i]
       /\ toHost'[n][Len(toHost[n]) + 1] = c

(* Every step moves the frames of every connection so. *)
LEMMA FrameMoves ==
  ASSUME TypeOK, [Next]_vars
  PROVE  \A n \in Conns : FrameMove(n)
<1> SUFFICES ASSUME NEW n \in Conns PROVE FrameMove(n)
  OBVIOUS
<1>1. toHost[n] \in Seq(Calls) /\ Len(toHost[n]) \in Nat
  BY DEF TypeOK
<1>2. CASE toHost'[n] = toHost[n]
  BY <1>1, <1>2 DEF FrameMove
<1>3. ASSUME NEW m \in Conns, Break(m) PROVE FrameMove(n)
  <2>1. PICK k \in 0..Len(toHost[m]) : toHost' = [toHost EXCEPT ![m] = SubSeq(toHost[m], 1, k)]
    BY <1>3 DEF Break
  <2>2. CASE m = n
    <3>1. /\ Len(SubSeq(toHost[n], 1, k)) = k
          /\ \A i \in 1..k : SubSeq(toHost[n], 1, k)[i] = toHost[n][i]
      BY <1>1, <2>2, Prefix
    <3>2. toHost'[n] = SubSeq(toHost[n], 1, k)
      BY <2>1, <2>2 DEF TypeOK
    <3>3. k <= Len(toHost[n])
      BY <1>1, <2>2
    <3> QED
      BY <3>1, <3>2, <3>3 DEF FrameMove
  <2>3. CASE m # n
    BY <1>2, <2>1, <2>3 DEF TypeOK
  <2> QED
    BY <2>2, <2>3
<1>4. ASSUME NEW m \in Conns, NextFrame(m, "AUTH") \/ NextFrame(m, "REVERSAL")
      PROVE  FrameMove(n)
  <2>1. toHost[m] # <<>> /\ toHost' = [toHost EXCEPT ![m] = Tail(toHost[m])]
    BY <1>4 DEF NextFrame
  <2>2. CASE m = n
    <3>1. /\ Len(Tail(toHost[n])) = Len(toHost[n]) - 1
          /\ \A i \in 1..Len(Tail(toHost[n])) : Tail(toHost[n])[i] = toHost[n][i + 1]
      BY <1>1, <2>1, <2>2, Shifted
    <3>2. toHost'[n] = Tail(toHost[n])
      BY <2>1, <2>2 DEF TypeOK
    <3> QED
      BY <2>1, <2>2, <3>1, <3>2 DEF FrameMove
  <2>3. CASE m # n
    BY <1>2, <2>1, <2>3 DEF TypeOK
  <2> QED
    BY <2>2, <2>3
<1>5. ASSUME NEW c \in Calls, Write(c) PROVE FrameMove(n)
  <2>1. \/ toHost' = toHost
        \/ toHost' = [toHost EXCEPT ![call[c].conn] = Append(toHost[call[c].conn], c)]
    BY <1>5 DEF Write
  <2>2. call[c].pc = "registered" /\ call'[c].pc = "waiting"
    BY <1>5 DEF Write, TypeOK
  <2>3. CASE toHost' = toHost
    BY <1>2, <2>3
  <2>4. CASE toHost' = [toHost EXCEPT ![call[c].conn] = Append(toHost[call[c].conn], c)]
    <3>1. CASE call[c].conn = n
      <4>1. toHost'[n] = Append(toHost[n], c)
        BY <2>4, <3>1 DEF TypeOK
      <4>2. /\ Len(Append(toHost[n], c)) = Len(toHost[n]) + 1
            /\ \A i \in 1..Len(toHost[n]) : Append(toHost[n], c)[i] = toHost[n][i]
            /\ Append(toHost[n], c)[Len(toHost[n]) + 1] = c
        BY <1>1, Appended
      <4> QED
        BY <2>2, <3>1, <4>1, <4>2 DEF FrameMove
    <3>2. CASE call[c].conn # n
      BY <1>2, <2>4, <3>2 DEF TypeOK
    <3> QED
      BY <3>1, <3>2
  <2> QED
    BY <2>1, <2>3, <2>4
<1>6. \/ UNCHANGED toHost
      \/ \E m \in Conns : Break(m) \/ NextFrame(m, "AUTH") \/ NextFrame(m, "REVERSAL")
      \/ \E c \in Calls : Write(c)
  BY DEF Next, vars, wire, Dial, ReadResponse, ReadFails, DropConnection, HostAuthorizes,
         HostReverses, StartNotSent, Register, WriteNothing, WritePart, Receive, TimeOut
<1> QED
  BY <1>2, <1>3, <1>4, <1>5, <1>6

(* The host approves a sale only when it takes a frame of it. *)
ApprovalMove(s) ==
  \/ approved'[s] \in {approved[s], 0}
  \/ \E n \in Conns :
       /\ approved'[s] = n
       /\ toHost[n] # <<>>
       /\ KindOf[toHost[n][1]] = "AUTH" /\ SaleOf[toHost[n][1]] = s

(* Every step moves every approval so. *)
LEMMA ApprovalMoves ==
  ASSUME TypeOK, [Next]_vars
  PROVE  \A s \in Sales : ApprovalMove(s)
<1> SUFFICES ASSUME NEW s \in Sales PROVE ApprovalMove(s)
  OBVIOUS
<1>1. CASE UNCHANGED approved
  BY <1>1 DEF ApprovalMove
<1>2. ASSUME NEW n \in Conns, HostAuthorizes(n) PROVE ApprovalMove(s)
  <2>1. toHost[n] \in Seq(Calls) /\ toHost[n] # <<>> /\ KindOf[Head(toHost[n])] = "AUTH"
    BY <1>2 DEF TypeOK, HostAuthorizes, NextFrame
  <2>2. Head(toHost[n]) = toHost[n][1]
    BY <2>1, Shifted
  <2>3. \/ approved' = approved
        \/ approved' = [approved EXCEPT ![SaleOf[Head(toHost[n])]] = n]
    BY <1>2 DEF HostAuthorizes
  <2> QED
    BY <2>1, <2>2, <2>3 DEF TypeOK, ApprovalMove
<1>3. ASSUME NEW n \in Conns, HostReverses(n) PROVE ApprovalMove(s)
  <2>1. \/ approved' = approved
        \/ approved' = [approved EXCEPT ![SaleOf[Head(toHost[n])]] = 0]
    BY <1>3 DEF HostReverses, Unapprove
  <2> QED
    BY <2>1 DEF TypeOK, ApprovalMove
<1>4. UNCHANGED approved \/ \E n \in Conns : HostAuthorizes(n) \/ HostReverses(n)
  BY DEF Next, vars, host, Dial, ReadResponse, ReadFails, DropConnection, Break,
         StartNotSent, Register, Write, WriteNothing, WritePart, Receive, TimeOut
<1> QED
  BY <1>1, <1>2, <1>3, <1>4

------------------------------------------------------------------------------
(* Who waits is heard of.                                                  *)

(* A call has a place in the queue of its key. *)
HasPlace(c) == \E i \in 1..Len(pending[KeyOf(c)]) : pending[KeyOf(c)][i] = c

(* Each place of a queue of waiters is a call's that waits for the         *)
(* connection being served and was not told anything yet.                  *)
QueuedCallsWait ==
  \A k \in Keys : \A i \in 1..Len(pending[k]) :
    /\ call[pending[k][i]].pc \in Live
    /\ call[pending[k][i]].conn = conn
    /\ chan[pending[k][i]] = "empty"

(* No call has two places. *)
OnePlaceEach ==
  \A k \in Keys : \A i, j \in 1..Len(pending[k]) :
    pending[k][i] = pending[k][j] => i = j

(* A call took a connection before it registered; from then on it has a    *)
(* place or was told, and before nobody tells it anything.                 *)
CallsHaveAPlace ==
  \A c \in Calls :
    /\ call[c].pc \in Live => call[c].conn \in Conns
    /\ call[c].pc \in Live /\ chan[c] = "empty" => HasPlace(c)
    /\ call[c].pc = "idle" => chan[c] = "empty"

WaiterParts == QueuedCallsWait /\ OnePlaceEach /\ CallsHaveAPlace

(* Waiters are the calls that have a place. *)
LEMMA WaitersHavePlaces ==
  ASSUME PendingType, NEW c \in Calls
  PROVE  c \in Waiters <=> HasPlace(c)
<1>1. DOMAIN pending[KeyOf(c)] = 1..Len(pending[KeyOf(c)])
  BY KeyType DEF PendingType
<1> QED
  BY <1>1 DEF Waiters, ToSet, HasPlace

(* What holds of a place: the call is of its key, and has that place. *)
LEMMA PlaceOf ==
  ASSUME PendingType, NEW k \in Keys, NEW i \in 1..Len(pending[k])
  PROVE  /\ pending[k][i] \in Calls
         /\ KeyOf(pending[k][i]) = k
         /\ HasPlace(pending[k][i])
<1>1. pending[k] \in Seq(Calls) /\ DOMAIN pending[k] = 1..Len(pending[k])
  BY DEF PendingType
<1>2. pending[k][i] \in Calls /\ KeyOf(pending[k][i]) = k
  BY <1>1 DEF PendingType
<1> QED
  BY <1>2 DEF HasPlace

(* A call that has no place moves, and nothing else does. *)
LEMMA AwayFromQueues ==
  ASSUME PendingType, WaiterParts, NEW c \in Calls, ~HasPlace(c),
         UNCHANGED <<conn, pending, chan>>,
         call[c].pc \in Live => chan[c] # "empty",
         call'[c].pc \notin Live \cup {"idle"},
         \A d \in Calls \ {c} : call'[d] = call[d]
  PROVE  WaiterParts'
<1>1. ASSUME NEW k \in Keys, NEW i \in 1..Len(pending[k])
      PROVE  pending[k][i] \in Calls \ {c}
  BY <1>1, PlaceOf
<1>2. QueuedCallsWait'
  BY <1>1 DEF WaiterParts, QueuedCallsWait
<1>3. OnePlaceEach'
  BY DEF WaiterParts, OnePlaceEach
<1>4. \A d \in Calls : HasPlace(d)' <=> HasPlace(d)
  BY DEF HasPlace, KeyOf
<1>5. CallsHaveAPlace'
  BY <1>4 DEF WaiterParts, CallsHaveAPlace
<1> QED
  BY <1>2, <1>3, <1>5 DEF WaiterParts

(* A call gives up its place, if it has one, and ends. *)
LEMMA GivesUp ==
  ASSUME PendingType, WaiterParts, NEW c \in Calls, Forget(c),
         UNCHANGED <<conn, chan>>,
         call[c].pc \in Live, call'[c].pc \notin Live \cup {"idle"},
         \A d \in Calls \ {c} : call'[d] = call[d]
  PROVE  WaiterParts'
<1> DEFINE q == pending[KeyOf(c)]
<1>1. CASE c \notin Waiters /\ pending' = pending
  <2>1. ~HasPlace(c)
    BY <1>1, WaitersHavePlaces
  <2>2. chan[c] # "empty"
    BY <2>1 DEF WaiterParts, CallsHaveAPlace
  <2> QED
    BY <1>1, <2>1, <2>2, AwayFromQueues
<1>2. ASSUME NEW p \in 1..Len(q), q[p] = c,
             pending' = [pending EXCEPT ![KeyOf(c)] = RemoveAt(q, p)]
      PROVE  WaiterParts'
  <2>0. q \in Seq(Calls) /\ KeyOf(c) \in Keys /\ Len(q) \in Nat
    BY KeyType DEF PendingType
  <2>1. /\ Len(RemoveAt(q, p)) = Len(q) - 1
        /\ \A j \in 1..Len(RemoveAt(q, p)) :
             RemoveAt(q, p)[j] = IF j < p THEN q[j] ELSE q[j + 1]
    BY <2>0, Removed
  <2>2. /\ pending'[KeyOf(c)] = RemoveAt(q, p)
        /\ \A k \in Keys \ {KeyOf(c)} : pending'[k] = pending[k]
    BY <1>2, <2>0 DEF PendingType
  <2>3. Len(pending'[KeyOf(c)]) = Len(q) - 1
    BY <2>1, <2>2
  <2>4. ASSUME NEW j \in 1..(Len(q) - 1)
        PROVE  LET i == IF j < p THEN j ELSE j + 1
               IN  pending'[KeyOf(c)][j] = q[i] /\ i \in 1..Len(q) /\ i # p
    BY <2>0, <2>1, <2>2
  <2>5. ASSUME NEW k \in Keys, NEW i \in 1..Len(pending[k]), k # KeyOf(c) \/ i # p
        PROVE  pending[k][i] \in Calls \ {c}
    <3>1. pending[k][i] \in Calls /\ KeyOf(pending[k][i]) = k
      BY PlaceOf
    <3> QED
      BY <1>2, <2>0, <2>5, <3>1 DEF WaiterParts, OnePlaceEach
  <2>6. QueuedCallsWait'
    <3> SUFFICES ASSUME NEW k \in Keys, NEW j \in 1..Len(pending'[k])
                 PROVE  /\ call'[pending'[k][j]].pc \in Live
                        /\ call'[pending'[k][j]].conn = conn
                        /\ chan[pending'[k][j]] = "empty"
      BY DEF QueuedCallsWait
    <3>1. \E i \in 1..Len(pending[k]) :
            pending'[k][j] = pending[k][i] /\ (k # KeyOf(c) \/ i # p)
      BY <2>2, <2>3, <2>4
    <3> QED
      BY <2>5, <3>1 DEF WaiterParts, QueuedCallsWait
  <2>7. OnePlaceEach'
    <3> SUFFICES ASSUME NEW k \in Keys, NEW i \in 1..Len(pending'[k]),
                        NEW j \in 1..Len(pending'[k]), pending'[k][i] = pending'[k][j]
                 PROVE  i = j
      BY DEF OnePlaceEach
    <3>1. CASE k # KeyOf(c)
      BY <2>2, <3>1 DEF WaiterParts, OnePlaceEach
    <3>2. CASE k = KeyOf(c)
      <4> DEFINE u == IF i < p THEN i ELSE i + 1
                 v == IF j < p THEN j ELSE j + 1
      <4>1. i \in 1..(Len(q) - 1) /\ j \in 1..(Len(q) - 1)
        BY <2>3, <3>2
      <4>2. /\ pending'[k][i] = q[u] /\ u \in 1..Len(q)
            /\ pending'[k][j] = q[v] /\ v \in 1..Len(q)
        BY <2>4, <3>2, <4>1
      <4>3. \A a, b \in 1..Len(q) : q[a] = q[b] => a = b
        BY <2>0 DEF WaiterParts, OnePlaceEach
      <4>4. q[u] = q[v]
        BY <3>2, <4>2
      <4> HIDE DEF u, v, q
      <4>5. u = v
        BY <4>2, <4>3, <4>4
      <4> QED
        BY <4>1, <4>5 DEF u, v
    <3> QED
      BY <3>1, <3>2
  <2>8. ASSUME NEW d \in Calls \ {c}, HasPlace(d) PROVE HasPlace(d)'
    <3>0. KeyOf(d)' = KeyOf(d) /\ KeyOf(d) \in Keys
      BY KeyType DEF KeyOf
    <3>1. PICK i \in 1..Len(pending[KeyOf(d)]) : pending[KeyOf(d)][i] = d
      BY <2>8 DEF HasPlace
    <3>2. CASE KeyOf(d) # KeyOf(c)
      BY <2>2, <3>0, <3>1, <3>2 DEF HasPlace
    <3>3. CASE KeyOf(d) = KeyOf(c)
      <4> DEFINE j == IF i < p THEN i ELSE i - 1
      <4>1. i # p /\ i \in 1..Len(q)
        BY <1>2, <3>1, <3>3
      <4>2. j \in 1..(Len(q) - 1) /\ (IF j < p THEN j ELSE j + 1) = i
        BY <2>0, <4>1
      <4>3. pending'[KeyOf(c)][j] = d
        BY <2>4, <3>1, <3>3, <4>2
      <4> QED
        BY <2>3, <3>0, <3>3, <4>2, <4>3 DEF HasPlace
    <3> QED
      BY <3>2, <3>3
  <2>9. CallsHaveAPlace'
    BY <2>8 DEF WaiterParts, CallsHaveAPlace
  <2> QED
    BY <2>6, <2>7, <2>9 DEF WaiterParts
<1> QED
  BY <1>1, <1>2, ForgetPlaces

(* The calls and their waiters keep to it in every step. *)
LEMMA WaiterStep ==
  ASSUME TypeOK, WaiterParts, [Next]_vars
  PROVE  WaiterParts'
<1>0. PendingType
  BY DEF TypeOK, PendingType
<1>1. CASE UNCHANGED <<conn, pending, chan, call>>
  BY <1>1 DEF WaiterParts, QueuedCallsWait, OnePlaceEach, CallsHaveAPlace, HasPlace, KeyOf
<1>2. CASE Dial
  <2>1. conn = 0 /\ UNCHANGED <<pending, chan, call>>
    BY <1>2 DEF Dial, TypeOK
  <2>2. ASSUME NEW k \in Keys, NEW i \in 1..Len(pending[k]) PROVE FALSE
    <3>1. pending[k][i] \in Calls /\ call[pending[k][i]].pc \in Live
      BY <1>0, PlaceOf DEF WaiterParts, QueuedCallsWait
    <3>2. call[pending[k][i]].conn \in Conns /\ call[pending[k][i]].conn = 0
      BY <2>1, <3>1 DEF WaiterParts, QueuedCallsWait, CallsHaveAPlace
    <3> QED
      BY <3>2 DEF Conns
  <2>3. QueuedCallsWait'
    BY <2>1, <2>2 DEF QueuedCallsWait
  <2>4. OnePlaceEach' /\ CallsHaveAPlace'
    BY <2>1 DEF WaiterParts, OnePlaceEach, CallsHaveAPlace, HasPlace, KeyOf
  <2> QED
    BY <2>3, <2>4 DEF WaiterParts
<1>3. CASE ReadResponse
  <2>1. UNCHANGED <<conn, call>>
    BY <1>3 DEF ReadResponse
  <2>2. PICK k \in Keys, code \in Codes :
          \/ UNCHANGED <<pending, chan>>
          \/ /\ pending[k] # <<>>
             /\ chan' = [chan EXCEPT ![pending[k][1]] = code]
             /\ pending' = [pending EXCEPT ![k] = Tail(pending[k])]
    BY <1>3, ReadMove
  <2>3. CASE UNCHANGED <<pending, chan>>
    BY <1>1, <2>1, <2>3
  <2>4. CASE /\ pending[k] # <<>>
             /\ chan' = [chan EXCEPT ![pending[k][1]] = code]
             /\ pending' = [pending EXCEPT ![k] = Tail(pending[k])]
    <3> DEFINE c == pending[k][1]
    <3>1. /\ pending[k] \in Seq(Calls)
          /\ Len(pending[k]) \in Nat \ {0}
          /\ Len(Tail(pending[k])) = Len(pending[k]) - 1
          /\ \A i \in 1..Len(Tail(pending[k])) : Tail(pending[k])[i] = pending[k][i + 1]
      BY <2>4, Shifted DEF TypeOK
    <3>2. /\ Len(pending'[k]) = Len(pending[k]) - 1
          /\ \A i \in 1..Len(pending'[k]) : pending'[k][i] = pending[k][i + 1]
          /\ \A j \in Keys \ {k} : pending'[j] = pending[j]
      BY <2>4, <3>1 DEF TypeOK
    <3>3. c \in Calls /\ KeyOf(c) = k /\ call[c].pc \in Live
      <4>1. 1 \in 1..Len(pending[k])
        BY <3>1
      <4> QED
        BY <1>0, <4>1, PlaceOf DEF WaiterParts, QueuedCallsWait
    <3>4. chan'[c] # "empty" /\ \A d \in Calls \ {c} : chan'[d] = chan[d]
      BY <2>4, <3>3 DEF TypeOK, Codes
    <3>5. ASSUME NEW j \in Keys, NEW i \in 1..Len(pending[j]), j # k \/ i # 1
          PROVE  pending[j][i] \in Calls \ {c}
      <4>1. pending[j][i] \in Calls /\ KeyOf(pending[j][i]) = j
        BY <1>0, PlaceOf
      <4>2. 1 \in 1..Len(pending[k])
        BY <3>1
      <4> QED
        BY <3>3, <3>5, <4>1, <4>2 DEF WaiterParts, OnePlaceEach
    <3>6. QueuedCallsWait'
      <4> SUFFICES ASSUME NEW j \in Keys, NEW i \in 1..Len(pending'[j])
                   PROVE  /\ call[pending'[j][i]].pc \in Live
                          /\ call[pending'[j][i]].conn = conn
                          /\ chan'[pending'[j][i]] = "empty"
        BY <2>1 DEF QueuedCallsWait
      <4>1. \E m \in 1..Len(pending[j]) : pending'[j][i] = pending[j][m] /\ (j # k \/ m # 1)
        <5>1. CASE j # k
          BY <3>2, <5>1
        <5>2. CASE j = k
          <6>1. i + 1 \in 1..Len(pending[k]) /\ i + 1 # 1
            BY <3>1, <3>2, <5>2
          <6> QED
            BY <3>2, <5>2, <6>1
        <5> QED
          BY <5>1, <5>2
      <4> QED
        BY <3>4, <3>5, <4>1 DEF WaiterParts, QueuedCallsWait
    <3>7. OnePlaceEach'
      <4> SUFFICES ASSUME NEW j \in Keys, NEW u \in 1..Len(pending'[j]),
                          NEW v \in 1..Len(pending'[j]), pending'[j][u] = pending'[j][v]
                   PROVE  u = v
        BY DEF OnePlaceEach
      <4>1. CASE j # k
        BY <3>2, <4>1 DEF WaiterParts, OnePlaceEach
      <4>2. CASE j = k
        <5>1. \A a, b \in 1..Len(pending[k]) : pending[k][a] = pending[k][b] => a = b
          BY DEF WaiterParts, OnePlaceEach
        <5>2. u + 1 \in 1..Len(pending[k]) /\ v + 1 \in 1..Len(pending[k])
          BY <3>1, <3>2, <4>2
        <5>3. pending[k][u + 1] = pending[k][v + 1]
          BY <3>2, <4>2
        <5>4. u + 1 = v + 1
          BY <5>1, <5>2, <5>3
        <5> QED
          BY <3>1, <3>2, <4>2, <5>4
      <4> QED
        BY <4>1, <4>2
    <3>8. ASSUME NEW d \in Calls \ {c}, HasPlace(d) PROVE HasPlace(d)'
      <4>0. KeyOf(d)' = KeyOf(d) /\ KeyOf(d) \in Keys
        BY KeyType DEF KeyOf
      <4>1. PICK i \in 1..Len(pending[KeyOf(d)]) : pending[KeyOf(d)][i] = d
        BY <3>8 DEF HasPlace
      <4>2. CASE KeyOf(d) # k
        BY <3>2, <4>0, <4>1, <4>2 DEF HasPlace
      <4>3. CASE KeyOf(d) = k
        <5>1. i # 1 /\ i \in 1..Len(pending[k])
          BY <4>1, <4>3
        <5>2. i - 1 \in 1..Len(pending'[k]) /\ (i - 1) + 1 = i
          BY <3>1, <3>2, <5>1
        <5>3. pending'[k][i - 1] = d
          BY <3>2, <4>1, <4>3, <5>2
        <5> QED
          BY <4>0, <4>3, <5>2, <5>3 DEF HasPlace
      <4> QED
        BY <4>2, <4>3
    <3>9. CallsHaveAPlace'
      BY <2>1, <3>3, <3>4, <3>8 DEF WaiterParts, CallsHaveAPlace, Live
    <3> QED
      BY <3>6, <3>7, <3>9 DEF WaiterParts
  <2> QED
    BY <2>2, <2>3, <2>4
<1>4. CASE DropConnection
  <2>1. /\ \A k \in Keys : Len(pending'[k]) = 0
        /\ \A c \in Calls : chan'[c] = IF c \in Waiters THEN "closed" ELSE chan[c]
        /\ call' = call
    BY <1>4 DEF DropConnection
  <2>2. QueuedCallsWait' /\ OnePlaceEach'
    BY <2>1 DEF QueuedCallsWait, OnePlaceEach
  <2>3. ASSUME NEW c \in Calls PROVE call[c].pc = "idle" => c \notin Waiters
    <3>1. ASSUME c \in Waiters PROVE call[c].pc \in Live
      <4>1. PICK i \in 1..Len(pending[KeyOf(c)]) : pending[KeyOf(c)][i] = c
        BY <1>0, <3>1, WaitersHavePlaces DEF HasPlace
      <4> QED
        BY <4>1, KeyType DEF WaiterParts, QueuedCallsWait
    <3> QED
      BY <3>1 DEF Live
  <2>4. CallsHaveAPlace'
    BY <1>0, <2>1, <2>3, WaitersHavePlaces DEF WaiterParts, CallsHaveAPlace
  <2> QED
    BY <2>2, <2>4 DEF WaiterParts
<1>5. ASSUME NEW c \in Calls, StartNotSent(c) PROVE WaiterParts'
  <2>1. ~HasPlace(c)
    <3>1. ASSUME HasPlace(c) PROVE call[c].pc \in Live
      BY <3>1, KeyType DEF HasPlace, WaiterParts, QueuedCallsWait
    <3> QED
      BY <1>5, <3>1 DEF StartNotSent, Live
  <2>2. /\ UNCHANGED <<conn, pending, chan>>
        /\ call[c].pc \notin Live
        /\ call'[c].pc \notin Live \cup {"idle"}
        /\ \A d \in Calls \ {c} : call'[d] = call[d]
    BY <1>5 DEF StartNotSent, TypeOK, client, Live
  <2> QED
    BY <1>0, <2>1, <2>2, AwayFromQueues
<1>6. ASSUME NEW c \in Calls, Register(c) PROVE WaiterParts'
  <2> DEFINE k == KeyOf(c)
             q == pending[k]
  <2>0. k \in Keys /\ q \in Seq(Calls) /\ Len(q) \in Nat
    BY KeyType DEF TypeOK
  <2>1. /\ call[c].pc = "idle" /\ conn \in Conns
        /\ UNCHANGED <<conn, chan>>
        /\ call'[c] = [pc |-> "registered", conn |-> conn]
        /\ \A d \in Calls \ {c} : call'[d] = call[d]
        /\ pending' = [pending EXCEPT ![k] = Append(q, c)]
    BY <1>6 DEF Register, TypeOK, Conns
  <2>2. /\ Len(pending'[k]) = Len(q) + 1
        /\ \A i \in 1..Len(q) : pending'[k][i] = q[i]
        /\ pending'[k][Len(q) + 1] = c
        /\ \A j \in Keys \ {k} : pending'[j] = pending[j]
    <3>1. /\ Len(Append(q, c)) = Len(q) + 1
          /\ \A i \in 1..Len(q) : Append(q, c)[i] = q[i]
          /\ Append(q, c)[Len(q) + 1] = c
      BY <2>0, Appended
    <3>2. pending'[k] = Append(q, c) /\ \A j \in Keys \ {k} : pending'[j] = pending[j]
      BY <2>0, <2>1 DEF TypeOK
    <3> QED
      BY <3>1, <3>2
  <2>3. chan[c] = "empty"
    BY <2>1 DEF WaiterParts, CallsHaveAPlace
  <2>4. ASSUME NEW j \in Keys, NEW i \in 1..Len(pending[j])
        PROVE  pending[j][i] \in Calls \ {c}
    <3>1. pending[j][i] \in Calls /\ call[pending[j][i]].pc \in Live
      BY <1>0, PlaceOf DEF WaiterParts, QueuedCallsWait
    <3> QED
      BY <2>1, <3>1 DEF Live
  <2>5. ASSUME NEW j \in Keys, NEW i \in 1..Len(pending'[j])
        PROVE  \/ i \in 1..Len(pending[j]) /\ pending'[j][i] = pending[j][i]
               \/ j = k /\ i = Len(q) + 1 /\ pending'[j][i] = c
    <3>1. CASE j # k
      BY <2>2, <3>1
    <3>2. CASE j = k
      <4>1. i \in 1..(Len(q) + 1)
        BY <2>2, <3>2
      <4>2. i \in 1..Len(q) \/ i = Len(q) + 1
        BY <2>0, <4>1
      <4> QED
        BY <2>2, <3>2, <4>2
    <3> QED
      BY <3>1, <3>2
  <2>6. QueuedCallsWait'
    <3> SUFFICES ASSUME NEW j \in Keys, NEW i \in 1..Len(pending'[j])
                 PROVE  /\ call'[pending'[j][i]].pc \in Live
                        /\ call'[pending'[j][i]].conn = conn
                        /\ chan[pending'[j][i]] = "empty"
      BY <2>1 DEF QueuedCallsWait
    <3>1. CASE i \in 1..Len(pending[j]) /\ pending'[j][i] = pending[j][i]
      BY <2>1, <2>4, <3>1 DEF WaiterParts, QueuedCallsWait
    <3>2. CASE pending'[j][i] = c
      BY <2>1, <2>3, <3>2 DEF Live
    <3> QED
      BY <2>5, <3>1, <3>2
  <2>7. OnePlaceEach'
    <3> SUFFICES ASSUME NEW j \in Keys, NEW u \in 1..Len(pending'[j]),
                        NEW v \in 1..Len(pending'[j]), pending'[j][u] = pending'[j][v]
                 PROVE  u = v
      BY DEF OnePlaceEach
    <3>1. CASE pending'[j][u] = c
      <4>1. ASSUME NEW i \in 1..Len(pending'[j]), pending'[j][i] = c PROVE i = Len(q) + 1
        <5>1. ~(i \in 1..Len(pending[j]) /\ pending'[j][i] = pending[j][i])
          BY <2>4, <4>1
        <5> QED
          BY <2>5, <5>1
      <4>2. u = Len(q) + 1
        BY <3>1, <4>1
      <4>3. v = Len(q) + 1
        BY <3>1, <4>1
      <4> QED
        BY <4>2, <4>3
    <3>2. CASE pending'[j][u] # c
      <4>1. /\ u \in 1..Len(pending[j]) /\ v \in 1..Len(pending[j])
            /\ pending[j][u] = pending[j][v]
        BY <2>5, <3>2
      <4>2. \A a, b \in 1..Len(pending[j]) : pending[j][a] = pending[j][b] => a = b
        BY DEF WaiterParts, OnePlaceEach
      <4> QED
        BY <4>1, <4>2
    <3> QED
      BY <3>1, <3>2
  <2>8. ASSUME NEW d \in Calls, HasPlace(d) \/ d = c PROVE HasPlace(d)'
    <3>0. KeyOf(d)' = KeyOf(d) /\ KeyOf(d) \in Keys
      BY KeyType DEF KeyOf
    <3>1. CASE d = c
      <4>1. Len(q) + 1 \in 1..Len(pending'[k])
        BY <2>0, <2>2
      <4> QED
        BY <2>2, <3>0, <3>1, <4>1 DEF HasPlace
    <3>2. CASE HasPlace(d)
      <4>1. PICK i \in 1..Len(pending[KeyOf(d)]) : pending[KeyOf(d)][i] = d
        BY <3>2 DEF HasPlace
      <4>2. i \in 1..Len(pending'[KeyOf(d)]) /\ pending'[KeyOf(d)][i] = d
        <5>1. CASE KeyOf(d) # k
          BY <2>2, <3>0, <4>1, <5>1
        <5>2. CASE KeyOf(d) = k
          BY <2>0, <2>2, <4>1, <5>2
        <5> QED
          BY <5>1, <5>2
      <4> QED
        BY <3>0, <4>2 DEF HasPlace
    <3> QED
      BY <2>8, <3>1, <3>2
  <2>9. CallsHaveAPlace'
    BY <2>1, <2>3, <2>8 DEF WaiterParts, CallsHaveAPlace, Live
  <2> QED
    BY <2>6, <2>7, <2>9 DEF WaiterParts
<1>7. ASSUME NEW c \in Calls, Write(c) PROVE WaiterParts'
  <2>1. /\ UNCHANGED <<conn, pending, chan>>
        /\ call[c].pc \in Live /\ call'[c].pc \in Live
        /\ call'[c].conn = call[c].conn
        /\ \A d \in Calls \ {c} : call'[d] = call[d]
    BY <1>7 DEF Write, TypeOK, client, Live
  <2>2. \A d \in Calls : /\ call'[d].pc \in Live <=> call[d].pc \in Live
                         /\ call'[d].pc = "idle" => call[d].pc = "idle"
                         /\ call'[d].conn = call[d].conn
    BY <2>1 DEF Live
  <2>3. QueuedCallsWait'
    BY <1>0, <2>1, <2>2, PlaceOf DEF WaiterParts, QueuedCallsWait
  <2>4. OnePlaceEach'
    BY <2>1 DEF WaiterParts, OnePlaceEach
  <2>5. \A d \in Calls : HasPlace(d)' <=> HasPlace(d)
    BY <2>1 DEF HasPlace, KeyOf
  <2>6. CallsHaveAPlace'
    BY <2>1, <2>2, <2>5 DEF WaiterParts, CallsHaveAPlace
  <2> QED
    BY <2>3, <2>4, <2>6 DEF WaiterParts
<1>8. ASSUME NEW c \in Calls, WriteNothing(c) \/ WritePart(c) \/ TimeOut(c)
      PROVE  WaiterParts'
  <2>1. /\ Forget(c) /\ UNCHANGED <<conn, chan>>
        /\ call[c].pc \in Live /\ call'[c].pc \notin Live \cup {"idle"}
        /\ \A d \in Calls \ {c} : call'[d] = call[d]
    <3>1. CASE WriteNothing(c)
      BY <3>1 DEF WriteNothing, TypeOK, Live
    <3>2. CASE WritePart(c)
      BY <3>2 DEF WritePart, TypeOK, Live
    <3>3. CASE TimeOut(c)
      BY <3>3 DEF TimeOut, TypeOK, Live
    <3> QED
      BY <1>8, <3>1, <3>2, <3>3
  <2> QED
    BY <1>0, <2>1, GivesUp
<1>9. ASSUME NEW c \in Calls, Receive(c) PROVE WaiterParts'
  <2>1. /\ UNCHANGED <<conn, pending, chan>>
        /\ chan[c] # "empty"
        /\ call'[c].pc \notin Live \cup {"idle"}
        /\ \A d \in Calls \ {c} : call'[d] = call[d]
    BY <1>9 DEF Receive, TypeOK, client, Live
  <2>2. ~HasPlace(c)
    BY <2>1, KeyType DEF HasPlace, WaiterParts, QueuedCallsWait
  <2> QED
    BY <1>0, <2>1, <2>2, AwayFromQueues
<1>10. ASSUME NEW n \in Conns, Break(n) \/ HostAuthorizes(n) \/ HostReverses(n)
       PROVE  WaiterParts'
  BY <1>1, <1>10 DEF Break, HostAuthorizes, HostReverses, NextFrame, client
<1>11. CASE ReadFails \/ UNCHANGED vars
  BY <1>1, <1>11 DEF ReadFails, vars, client
<1> QED
  BY <1>2, <1>3, <1>4, <1>5, <1>6, <1>7, <1>8, <1>9, <1>10, <1>11 DEF Next

(* Whoever waits will be heard of: it is among the waiters of its key and  *)
(* for the connection being served, or its channel has an answer or is     *)
(* closed. Whenever the connection ends, no waiter is left behind.         *)
THEOREM WaitersAreHeard == Spec => []WaiterIsHeard
<1>1. Init => WaiterParts
  BY KeyType DEF Init, WaiterParts, QueuedCallsWait, OnePlaceEach, CallsHaveAPlace, Live
<1>2. TypeOK /\ WaiterParts => WaiterIsHeard
  <2> SUFFICES ASSUME TypeOK, WaiterParts, NEW c \in Calls,
                      call[c].pc \in {"registered", "waiting"}
               PROVE  IF c \in Waiters THEN call[c].conn = conn ELSE chan[c] # "empty"
    BY DEF WaiterIsHeard
  <2>1. PendingType
    BY DEF TypeOK, PendingType
  <2>2. CASE c \in Waiters
    <3>1. HasPlace(c)
      BY <2>1, <2>2, WaitersHavePlaces
    <3> QED
      BY <2>2, <3>1, KeyType DEF HasPlace, WaiterParts, QueuedCallsWait
  <2>3. CASE c \notin Waiters
    <3>1. ~HasPlace(c)
      BY <2>1, <2>3, WaitersHavePlaces
    <3> QED
      BY <2>3, <3>1 DEF WaiterParts, CallsHaveAPlace, Live
  <2> QED
    BY <2>2, <2>3
<1>3. Spec => []WaiterParts
  BY <1>1, WaiterStep, TypeCorrect, PTL DEF Spec
<1> QED
  BY <1>2, <1>3, TypeCorrect, PTL

------------------------------------------------------------------------------
(* What was not sent was not received.                                     *)

(* The frames on the way were written, each by a call for that connection. *)
FramesAreSent ==
  \A n \in Conns : \A i \in 1..Len(toHost[n]) :
    call[toHost[n][i]].pc \in Sent /\ call[toHost[n][i]].conn = n

(* The host approves what an authorization asked it to. *)
ApprovedWasSent ==
  \A s \in Sales : approved[s] # 0 =>
    \E c \in Calls : KindOf[c] = "AUTH" /\ SaleOf[c] = s /\ call[c].pc \in Sent

(* Where a frame comes from: it was on the way, no earlier in the order,   *)
(* or it was just written.                                                 *)
LEMMA FrameSource ==
  ASSUME NEW n \in Conns, Len(toHost[n]) \in Nat, FrameMove(n),
         NEW i \in 1..Len(toHost'[n])
  PROVE  \/ \E j \in 1..Len(toHost[n]) : toHost'[n][i] = toHost[n][j]
         \/ \E c \in Calls : /\ call[c].pc = "registered" /\ call[c].conn = n
                             /\ call'[c].pc = "waiting" /\ toHost'[n][i] = c
<1>1. CASE /\ Len(toHost'[n]) <= Len(toHost[n])
           /\ \A j \in 1..Len(toHost'[n]) : toHost'[n][j] = toHost[n][j]
  <2>1. i \in 1..Len(toHost[n])
    BY <1>1
  <2> QED
    BY <1>1, <2>1
<1>2. CASE /\ Len(toHost'[n]) = Len(toHost[n]) - 1
           /\ \A j \in 1..Len(toHost'[n]) : toHost'[n][j] = toHost[n][j + 1]
  <2>1. i + 1 \in 1..Len(toHost[n])
    BY <1>2
  <2> QED
    BY <1>2, <2>1
<1>3. ASSUME NEW c \in Calls,
             call[c].pc = "registered", call[c].conn = n, call'[c].pc = "waiting",
             Len(toHost'[n]) = Len(toHost[n]) + 1,
             \A j \in 1..Len(toHost[n]) : toHost'[n][j] = toHost[n][j],
             toHost'[n][Len(toHost[n]) + 1] = c
      PROVE  \/ \E j \in 1..Len(toHost[n]) : toHost'[n][i] = toHost[n][j]
             \/ toHost'[n][i] = c
  <2>1. i \in 1..Len(toHost[n]) \/ i = Len(toHost[n]) + 1
    BY <1>3
  <2> QED
    BY <1>3, <2>1
<1> QED
  BY <1>1, <1>2, <1>3 DEF FrameMove

(* Frames are written once and calls are final, so both are kept. *)
LEMMA FrameStep ==
  ASSUME TypeOK, FramesAreSent, ApprovedWasSent, [Next]_vars
  PROVE  FramesAreSent' /\ ApprovedWasSent'
<1>0. /\ \A n \in Conns : FrameMove(n)
      /\ \A c \in Calls : CallMove(c)
      /\ \A s \in Sales : ApprovalMove(s)
  BY FrameMoves, CallMoves, ApprovalMoves
<1>1. \A n \in Conns : \A i \in 1..Len(toHost[n]) : toHost[n][i] \in Calls
  BY DEF TypeOK
<1>2. \A n \in Conns : Len(toHost[n]) \in Nat /\ (toHost[n] # <<>> => 1 \in 1..Len(toHost[n]))
  <2> SUFFICES ASSUME NEW n \in Conns
               PROVE  Len(toHost[n]) \in Nat /\ (toHost[n] # <<>> => 1 \in 1..Len(toHost[n]))
    OBVIOUS
  <2>1. toHost[n] \in Seq(Calls)
    BY DEF TypeOK
  <2> QED
    BY <2>1
<1>3. ASSUME NEW n \in Conns, NEW i \in 1..Len(toHost[n])
      PROVE  call'[toHost[n][i]].pc \in Sent /\ call'[toHost[n][i]].conn = n
  <2>1. /\ toHost[n][i] \in Calls
        /\ call[toHost[n][i]].pc \in Sent /\ call[toHost[n][i]].conn = n
    BY <1>1 DEF FramesAreSent
  <2> QED
    BY <1>0, <2>1 DEF CallMove, Sent
<1>4. FramesAreSent'
  <2> SUFFICES ASSUME NEW n \in Conns, NEW i \in 1..Len(toHost'[n])
               PROVE  call'[toHost'[n][i]].pc \in Sent /\ call'[toHost'[n][i]].conn = n
    BY DEF FramesAreSent
  <2>1. CASE \E j \in 1..Len(toHost[n]) : toHost'[n][i] = toHost[n][j]
    BY <1>3, <2>1
  <2>2. CASE \E c \in Calls : /\ call[c].pc = "registered" /\ call[c].conn = n
                              /\ call'[c].pc = "waiting" /\ toHost'[n][i] = c
    BY <1>0, <2>2 DEF CallMove, Sent
  <2> QED
    BY <1>0, <1>2, <2>1, <2>2, FrameSource
<1>5. ApprovedWasSent'
  <2> SUFFICES ASSUME NEW s \in Sales, approved'[s] # 0
               PROVE  \E c \in Calls : /\ KindOf[c] = "AUTH" /\ SaleOf[c] = s
                                       /\ call'[c].pc \in Sent
    BY DEF ApprovedWasSent
  <2>1. CASE approved'[s] = approved[s]
    BY <1>0, <2>1 DEF ApprovedWasSent, CallMove
  <2>2. CASE approved'[s] # approved[s]
    <3>1. PICK n \in Conns : /\ toHost[n] # <<>>
                             /\ KindOf[toHost[n][1]] = "AUTH" /\ SaleOf[toHost[n][1]] = s
      BY <1>0, <2>2 DEF ApprovalMove
    <3> QED
      BY <1>1, <1>2, <1>3, <3>1
  <2> QED
    BY <2>1, <2>2
<1> QED
  BY <1>4, <1>5

(* A sale is authorized by one call: AuthorizedOnce of Authorization.      *)
OneAuthorization ==
  \A a, b \in Calls :
    KindOf[a] = "AUTH" /\ KindOf[b] = "AUTH" /\ SaleOf[a] = SaleOf[b] => a = b

(* A call that fails with ErrNotSent never reaches the host, before or     *)
(* after, if each sale is authorized by one call: the sale it would have   *)
(* approved can be forgotten without a reversal.                           *)
THEOREM NotSentNeverReceived ==
  ASSUME OneAuthorization PROVE Spec => []NotSentIsNotReceived
<1>1. Init => FramesAreSent /\ ApprovedWasSent
  BY DEF Init, FramesAreSent, ApprovedWasSent
<1>2. TypeOK /\ FramesAreSent /\ ApprovedWasSent => NotSentIsNotReceived
  <2> SUFFICES ASSUME TypeOK, FramesAreSent, ApprovedWasSent,
                      NEW c \in Calls, call[c].pc = "not sent"
               PROVE  /\ \A n \in Conns : c \notin ToSet(toHost[n])
                      /\ KindOf[c] = "AUTH" => approved[SaleOf[c]] = 0
    BY DEF NotSentIsNotReceived
  <2>1. ASSUME NEW n \in Conns, c \in ToSet(toHost[n]) PROVE FALSE
    <3>1. toHost[n] \in Seq(Calls)
      BY DEF TypeOK
    <3>2. DOMAIN toHost[n] = 1..Len(toHost[n])
      BY <3>1, LenProperties
    <3>3. \E i \in 1..Len(toHost[n]) : toHost[n][i] = c
      BY <2>1, <3>2 DEF ToSet
    <3> QED
      BY <3>3 DEF FramesAreSent, Sent
  <2>2. ASSUME KindOf[c] = "AUTH", approved[SaleOf[c]] # 0 PROVE FALSE
    <3>1. SaleOf[c] \in Sales
      BY ClientAssumption
    <3>2. PICK d \in Calls : /\ KindOf[d] = "AUTH" /\ SaleOf[d] = SaleOf[c]
                             /\ call[d].pc \in Sent
      BY <2>2, <3>1 DEF ApprovedWasSent
    <3>3. d = c
      BY <2>2, <3>2, OneAuthorization DEF OneAuthorization
    <3> QED
      BY <3>2, <3>3 DEF Sent
  <2> QED
    BY <2>1, <2>2
<1>3. Spec => [](FramesAreSent /\ ApprovedWasSent)
  BY <1>1, FrameStep, TypeCorrect, PTL DEF Spec
<1> QED
  BY <1>2, <1>3, OneAuthorization, TypeCorrect, PTL

------------------------------------------------------------------------------
(* A reversal that was answered.                                           *)

(* Nothing can approve sale s on connection n any more, and nothing did.   *)
AuthorizationOver(n, s) ==
  /\ AuthorizationEnded(s)
  /\ \A i \in 1..Len(toHost[n]) : ~(KindOf[toHost[n][i]] = "AUTH" /\ SaleOf[toHost[n][i]] = s)
  /\ approved[s] # n

(* Reversals are asked for after the authorizations of their sales ended,  *)
(* and so written after them.                                              *)
ReversalsComeLast ==
  /\ \A c \in Calls : KindOf[c] = "REVERSAL" /\ call[c].pc # "idle" =>
       AuthorizationEnded(SaleOf[c])
  /\ \A n \in Conns : \A i, j \in 1..Len(toHost[n]) :
       /\ i < j
       /\ KindOf[toHost[n][i]] = "REVERSAL" /\ KindOf[toHost[n][j]] = "AUTH"
       => SaleOf[toHost[n][i]] # SaleOf[toHost[n][j]]

(* The response that tells a reversal succeeded, on its way or delivered. *)
Reversed == {"00", "25"}

ReversedResponses ==
  \A n \in Conns : \A i \in 1..Len(toClient[n]) : \A s \in Sales, code \in Reversed :
    toClient[n][i] = <<<<"REVERSAL", s>>, code>> => AuthorizationOver(n, s)

ReversedCalls ==
  \A c \in Calls : KindOf[c] = "REVERSAL" /\ chan[c] \in Reversed =>
    \E n \in Conns : call[c].conn = n /\ AuthorizationOver(n, SaleOf[c])

(* Authorizations that ended stay so. *)
LEMMA EndedForGood ==
  ASSUME TypeOK, [Next]_vars, NEW s, AuthorizationEnded(s)
  PROVE  AuthorizationEnded(s)'
  BY CallMoves DEF AuthorizationEnded, CallMove

(* What is over on a connection stays so. *)
LEMMA OverForGood ==
  ASSUME TypeOK, [Next]_vars, NEW n \in Conns, NEW s \in Sales, AuthorizationOver(n, s)
  PROVE  AuthorizationOver(n, s)'
<1>1. AuthorizationEnded(s)'
  BY EndedForGood DEF AuthorizationOver
<1>2. toHost[n] \in Seq(Calls) /\ Len(toHost[n]) \in Nat
  BY DEF TypeOK
<1>3. ASSUME NEW i \in 1..Len(toHost'[n]),
             KindOf[toHost'[n][i]] = "AUTH", SaleOf[toHost'[n][i]] = s
      PROVE  FALSE
  <2>1. PICK c \in Calls : call[c].pc = "registered" /\ toHost'[n][i] = c
    BY <1>2, <1>3, FrameMoves, FrameSource DEF AuthorizationOver
  <2> QED
    BY <1>3, <2>1 DEF AuthorizationOver, AuthorizationEnded, Ended
<1>4. approved'[s] # n
  <2>1. ~ \E m \in Conns : /\ m = n /\ toHost[m] # <<>>
                           /\ KindOf[toHost[m][1]] = "AUTH" /\ SaleOf[toHost[m][1]] = s
    <3>1. toHost[n] # <<>> => 1 \in 1..Len(toHost[n])
      BY <1>2
    <3> QED
      BY <3>1 DEF AuthorizationOver
  <2>2. n # 0
    BY DEF Conns
  <2> QED
    BY <2>1, <2>2, ApprovalMoves DEF AuthorizationOver, ApprovalMove
<1> QED
  BY <1>1, <1>3, <1>4 DEF AuthorizationOver

(* Reversals stay behind the authorizations of their sales. *)
LEMMA OrderStep ==
  ASSUME TypeOK, FramesAreSent, ReversalsComeLast, [Next]_vars
  PROVE  ReversalsComeLast'
<1>1. ASSUME NEW c \in Calls, KindOf[c] = "REVERSAL", call'[c].pc # "idle"
      PROVE  AuthorizationEnded(SaleOf[c])'
  BY <1>1, CallMoves, EndedForGood DEF ReversalsComeLast, CallMove
<1>2. ASSUME NEW n \in Conns,
             NEW i \in 1..Len(toHost'[n]), NEW j \in 1..Len(toHost'[n]), i < j,
             KindOf[toHost'[n][i]] = "REVERSAL", KindOf[toHost'[n][j]] = "AUTH",
             SaleOf[toHost'[n][i]] = SaleOf[toHost'[n][j]]
      PROVE  FALSE
  <2>0. Len(toHost[n]) \in Nat /\ \A u \in 1..Len(toHost[n]) : toHost[n][u] \in Calls
    BY DEF TypeOK
  <2>1. \A u, v \in 1..Len(toHost[n]) :
          /\ u < v
          /\ KindOf[toHost[n][u]] = "REVERSAL" /\ KindOf[toHost[n][v]] = "AUTH"
          => SaleOf[toHost[n][u]] # SaleOf[toHost[n][v]]
    BY DEF ReversalsComeLast
  <2>2. CASE /\ Len(toHost'[n]) <= Len(toHost[n])
             /\ \A u \in 1..Len(toHost'[n]) : toHost'[n][u] = toHost[n][u]
    <3>1. i \in 1..Len(toHost[n]) /\ j \in 1..Len(toHost[n])
      BY <2>2
    <3> QED
      BY <1>2, <2>1, <2>2, <3>1
  <2>3. CASE /\ Len(toHost'[n]) = Len(toHost[n]) - 1
             /\ \A u \in 1..Len(toHost'[n]) : toHost'[n][u] = toHost[n][u + 1]
    <3>1. i + 1 \in 1..Len(toHost[n]) /\ j + 1 \in 1..Len(toHost[n]) /\ i + 1 < j + 1
      BY <1>2, <2>0, <2>3
    <3>2. toHost'[n][i] = toHost[n][i + 1] /\ toHost'[n][j] = toHost[n][j + 1]
      BY <2>3
    <3> QED
      BY <1>2, <2>1, <3>1, <3>2
  <2>4. ASSUME NEW c \in Calls, call[c].pc = "registered",
               Len(toHost'[n]) = Len(toHost[n]) + 1,
               \A u \in 1..Len(toHost[n]) : toHost'[n][u] = toHost[n][u],
               toHost'[n][Len(toHost[n]) + 1] = c
        PROVE  FALSE
    <3>1. i \in 1..Len(toHost[n])
      BY <1>2, <2>0, <2>4
    <3>2. CASE j \in 1..Len(toHost[n])
      BY <1>2, <2>1, <2>4, <3>1, <3>2
    <3>3. CASE j = Len(toHost[n]) + 1
      <4>1. toHost[n][i] \in Calls /\ toHost'[n][i] = toHost[n][i] /\ toHost'[n][j] = c
        BY <2>0, <2>4, <3>1, <3>3
      <4>2. call[toHost[n][i]].pc # "idle"
        BY <3>1 DEF FramesAreSent, Sent
      <4>3. AuthorizationEnded(SaleOf[c])
        BY <1>2, <4>1, <4>2 DEF ReversalsComeLast
      <4> QED
        BY <1>2, <2>4, <4>1, <4>3 DEF AuthorizationEnded, Ended
    <3>4. j \in 1..(Len(toHost[n]) + 1)
      BY <2>4
    <3> QED
      BY <2>0, <3>2, <3>3, <3>4
  <2>5. FrameMove(n)
    BY FrameMoves
  <2> QED
    BY <2>2, <2>3, <2>4, <2>5 DEF FrameMove
<1> QED
  BY <1>1, <1>2 DEF ReversalsComeLast

(* What the host answers to a reversal. *)
LEMMA HostReversesMove ==
  ASSUME TypeOK, FramesAreSent, ReversalsComeLast, NEW n \in Conns, HostReverses(n),
         [Next]_vars
  PROVE  \E s \in Sales, code \in Codes :
           /\ \/ toClient' = toClient
              \/ toClient' = [toClient EXCEPT ![n] = Append(toClient[n], <<<<"REVERSAL", s>>, code>>)]
           /\ code \in Reversed => AuthorizationOver(n, s)'
<1>1. toHost[n] \in Seq(Calls) /\ toHost[n] # <<>> /\ KindOf[Head(toHost[n])] = "REVERSAL"
  BY DEF TypeOK, HostReverses, NextFrame
<1>2. /\ Head(toHost[n]) = toHost[n][1] /\ toHost[n][1] \in Calls
      /\ Len(toHost[n]) \in Nat \ {0}
      /\ Len(Tail(toHost[n])) = Len(toHost[n]) - 1
      /\ \A i \in 1..Len(Tail(toHost[n])) : Tail(toHost[n])[i] = toHost[n][i + 1]
  BY <1>1, Shifted
<1>3. toHost'[n] = Tail(toHost[n])
  BY DEF TypeOK, HostReverses, NextFrame
<1>4. PICK c \in Calls, s \in Sales :
        /\ c = toHost[n][1] /\ s = SaleOf[c] /\ KindOf[c] = "REVERSAL"
        /\ s = SaleOf[Head(toHost[n])] /\ <<"REVERSAL", s>> \in Keys
  BY <1>1, <1>2, ClientAssumption DEF Keys
<1>5. AuthorizationEnded(s)'
  <2>1. 1 \in 1..Len(toHost[n])
    BY <1>2
  <2>2. call[c].pc # "idle"
    BY <1>4, <2>1 DEF FramesAreSent, Sent
  <2> QED
    BY <1>4, <2>2, EndedForGood DEF ReversalsComeLast
<1>6. ASSUME NEW i \in 1..Len(toHost'[n]),
             KindOf[toHost'[n][i]] = "AUTH", SaleOf[toHost'[n][i]] = s
      PROVE  FALSE
  <2>1. i + 1 \in 1..Len(toHost[n]) /\ 1 \in 1..Len(toHost[n]) /\ 1 < i + 1
    BY <1>2, <1>3
  <2>2. toHost'[n][i] = toHost[n][i + 1]
    BY <1>2, <1>3
  <2>3. SaleOf[toHost[n][1]] # SaleOf[toHost[n][i + 1]]
    BY <1>4, <1>6, <2>1, <2>2 DEF ReversalsComeLast
  <2> QED
    BY <1>4, <1>6, <2>2, <2>3
<1>7. n # 0
  BY DEF Conns
<1>8. ASSUME approved'[s] = 0 PROVE AuthorizationOver(n, s)'
  BY <1>5, <1>6, <1>7, <1>8 DEF AuthorizationOver
<1>9. ASSUME NEW code \in Codes, Respond(n, <<"REVERSAL", s>>, code),
             code \in Reversed => AuthorizationOver(n, s)'
      PROVE  \E t \in Sales, x \in Codes :
               /\ \/ toClient' = toClient
                  \/ toClient' = [toClient EXCEPT ![n] = Append(toClient[n], <<<<"REVERSAL", t>>, x>>)]
               /\ x \in Reversed => AuthorizationOver(n, t)'
  <2>1. toClient \in [Conns -> Seq(Keys \X Codes)]
    BY DEF TypeOK
  <2>2. \/ toClient' = toClient
        \/ toClient' = [toClient EXCEPT ![n] = Append(toClient[n], <<<<"REVERSAL", s>>, code>>)]
    BY <1>4, <1>9, <2>1, RespondType
  <2> QED
    BY <1>9, <2>2
<1>10. "00" \in Codes /\ "25" \in Codes /\ "declined" \in Codes /\ "declined" \notin Reversed
  BY DEF Codes, Reversed
<1>11. CASE Respond(n, <<"REVERSAL", s>>, "declined")
  BY <1>9, <1>10, <1>11
<1>12. CASE approved[s] = 0 /\ Respond(n, <<"REVERSAL", s>>, "25") /\ UNCHANGED approved
  BY <1>8, <1>9, <1>10, <1>12
<1>13. CASE Respond(n, <<"REVERSAL", s>>, "00") /\ Unapprove(s)
  <2>1. approved'[s] = 0
    BY <1>13 DEF Unapprove, TypeOK
  <2> QED
    BY <1>8, <1>9, <1>10, <1>13, <2>1
<1> QED
  BY <1>4, <1>11, <1>12, <1>13 DEF HostReverses

(* A response that tells a reversal succeeded is only made when it did. *)
LEMMA ResponseStep ==
  ASSUME TypeOK, FramesAreSent, ReversalsComeLast, ReversedResponses, [Next]_vars
  PROVE  ReversedResponses'
<1> SUFFICES ASSUME NEW n \in Conns, NEW i \in 1..Len(toClient'[n]),
                    NEW s \in Sales, NEW code \in Reversed,
                    toClient'[n][i] = <<<<"REVERSAL", s>>, code>>
             PROVE  AuthorizationOver(n, s)'
  BY DEF ReversedResponses
<1>1. toClient[n] \in Seq(Keys \X Codes) /\ Len(toClient[n]) \in Nat
  BY DEF TypeOK
<1>2. CASE \E j \in 1..Len(toClient[n]) : toClient'[n][i] = toClient[n][j]
  BY <1>2, OverForGood DEF ReversedResponses
<1>3. CASE toClient'[n] = toClient[n]
  BY <1>2, <1>3
<1>4. CASE ReadResponse
  <2>1. toClient' = [toClient EXCEPT ![conn] = Tail(toClient[conn])] /\ toClient[conn] # <<>>
    BY <1>4, ReadMove
  <2>2. CASE n = conn
    <3>1. /\ Len(Tail(toClient[n])) = Len(toClient[n]) - 1
          /\ \A j \in 1..Len(Tail(toClient[n])) : Tail(toClient[n])[j] = toClient[n][j + 1]
      BY <1>1, <2>1, <2>2, Shifted
    <3>2. toClient'[n] = Tail(toClient[n])
      BY <2>1, <2>2 DEF TypeOK
    <3>3. i + 1 \in 1..Len(toClient[n]) /\ toClient'[n][i] = toClient[n][i + 1]
      BY <1>1, <3>1, <3>2
    <3> QED
      BY <1>2, <3>3
  <2>3. CASE n # conn
    BY <1>3, <2>1, <2>3 DEF TypeOK
  <2> QED
    BY <2>2, <2>3
<1>5. ASSUME NEW m \in Conns, NEW k \in Keys, NEW x \in Codes,
             \/ toClient' = toClient
             \/ toClient' = [toClient EXCEPT ![m] = Append(toClient[m], <<k, x>>)],
             k[1] = "REVERSAL" /\ x \in Reversed =>
               \A t \in Sales : k = <<"REVERSAL", t>> => AuthorizationOver(m, t)'
      PROVE  AuthorizationOver(n, s)'
  <2>1. CASE toClient'[n] = toClient[n]
    BY <1>3, <2>1
  <2>2. CASE m = n /\ toClient'[n] = Append(toClient[n], <<k, x>>)
    <3>1. /\ Len(toClient'[n]) = Len(toClient[n]) + 1
          /\ \A j \in 1..Len(toClient[n]) : toClient'[n][j] = toClient[n][j]
          /\ toClient'[n][Len(toClient[n]) + 1] = <<k, x>>
      BY <1>1, <2>2, Appended
    <3>2. CASE i \in 1..Len(toClient[n])
      BY <1>2, <3>1, <3>2
    <3>3. CASE i = Len(toClient[n]) + 1
      <4>1. <<k, x>> = <<<<"REVERSAL", s>>, code>>
        BY <3>1, <3>3
      <4>2. k = <<"REVERSAL", s>> /\ x = code
        BY <4>1
      <4>3. k[1] = "REVERSAL"
        BY <4>2
      <4> QED
        BY <1>5, <2>2, <4>2, <4>3
    <3>4. i \in 1..(Len(toClient[n]) + 1)
      BY <3>1
    <3> QED
      BY <1>1, <3>2, <3>3, <3>4
  <2>3. toClient'[n] = toClient[n] \/ (m = n /\ toClient'[n] = Append(toClient[n], <<k, x>>))
    BY <1>5 DEF TypeOK
  <2> QED
    BY <2>1, <2>2, <2>3
<1>6. ASSUME NEW m \in Conns, HostAuthorizes(m) PROVE AuthorizationOver(n, s)'
  <2>1. PICK k \in Keys : /\ k = <<"AUTH", SaleOf[Head(toHost[m])]>>
                          /\ Respond(m, k, "00") \/ Respond(m, k, "declined")
    BY <1>6, NextFrameType DEF HostAuthorizes
  <2>3. k[1] # "REVERSAL" /\ "00" \in Codes /\ "declined" \in Codes
    BY <2>1 DEF Codes
  <2>2. toClient \in [Conns -> Seq(Keys \X Codes)]
    BY DEF TypeOK
  <2>4. ASSUME NEW x \in Codes, Respond(m, k, x)
        PROVE  \/ toClient' = toClient
               \/ toClient' = [toClient EXCEPT ![m] = Append(toClient[m], <<k, x>>)]
    BY <2>2, <2>4, RespondType
  <2>5. ASSUME NEW x \in Codes, Respond(m, k, x) PROVE AuthorizationOver(n, s)'
    BY <1>5, <2>3, <2>4, <2>5
  <2> QED
    BY <2>1, <2>3, <2>5
<1>7. ASSUME NEW m \in Conns, HostReverses(m) PROVE AuthorizationOver(n, s)'
  <2>1. PICK t \in Sales, x \in Codes :
          /\ \/ toClient' = toClient
             \/ toClient' = [toClient EXCEPT ![m] = Append(toClient[m], <<<<"REVERSAL", t>>, x>>)]
          /\ x \in Reversed => AuthorizationOver(m, t)'
    BY <1>7, HostReversesMove
  <2> DEFINE k == <<"REVERSAL", t>>
  <2>2. k \in Keys
    BY DEF Keys
  <2>3. \A u \in Sales : k = <<"REVERSAL", u>> => u = t
    OBVIOUS
  <2>4. k[1] = "REVERSAL" /\ x \in Reversed =>
          \A u \in Sales : k = <<"REVERSAL", u>> => AuthorizationOver(m, u)'
    BY <2>1, <2>3
  <2>5. \/ toClient' = toClient
        \/ toClient' = [toClient EXCEPT ![m] = Append(toClient[m], <<k, x>>)]
    BY <2>1
  <2> HIDE DEF k
  <2> QED
    BY <1>5, <2>2, <2>4, <2>5
<1>8. \/ UNCHANGED toClient \/ ReadResponse
      \/ \E m \in Conns : HostAuthorizes(m) \/ HostReverses(m)
  BY DEF Next, vars, wire, Dial, ReadFails, DropConnection, Break, StartNotSent,
         Register, Write, WriteNothing, WritePart, Receive, TimeOut
<1> QED
  BY <1>3, <1>4, <1>6, <1>7, <1>8

(* A call is told what its response says, on the connection it took. *)
LEMMA ToldStep ==
  ASSUME TypeOK, WaiterParts, ReversedResponses, ReversedCalls, [Next]_vars
  PROVE  ReversedCalls'
<1> SUFFICES ASSUME NEW c \in Calls, KindOf[c] = "REVERSAL", chan'[c] \in Reversed
             PROVE  \E n \in Conns : call'[c].conn = n /\ AuthorizationOver(n, SaleOf[c])'
  BY DEF ReversedCalls
<1>0. SaleOf[c] \in Sales /\ KeyOf(c) \in Keys /\ KeyOf(c) = <<"REVERSAL", SaleOf[c]>>
  BY ClientAssumption, KeyType
<1>1. CASE chan'[c] = chan[c]
  <2>1. call[c].pc # "idle"
    BY <1>1 DEF Reversed, WaiterParts, CallsHaveAPlace
  <2>2. PICK n \in Conns : call[c].conn = n /\ AuthorizationOver(n, SaleOf[c])
    BY <1>1 DEF ReversedCalls
  <2>3. AuthorizationOver(n, SaleOf[c])'
    BY <1>0, <2>2, OverForGood
  <2>4. call'[c].conn = n
    BY <2>1, <2>2, CallMoves DEF CallMove
  <2> QED
    BY <2>3, <2>4
<1>2. CASE ReadResponse /\ chan'[c] # chan[c]
  <2>1. /\ conn \in Conns
        /\ toClient[conn] \in Seq(Keys \X Codes) /\ toClient[conn] # <<>>
        /\ UNCHANGED call
    BY <1>2, ReadMove DEF ReadResponse
  <2>2. PICK k \in Keys, code \in Codes :
          /\ toClient[conn][1] = <<k, code>>
          /\ pending[k] # <<>> /\ chan' = [chan EXCEPT ![pending[k][1]] = code]
    BY <1>2, ReadMove
  <2>3. c = pending[k][1] /\ chan'[c] = code
    BY <1>2, <2>2 DEF TypeOK
  <2>4. 1 \in 1..Len(pending[k]) /\ 1 \in 1..Len(toClient[conn])
    <3>1. pending[k] \in Seq(Calls)
      BY DEF TypeOK
    <3> QED
      BY <2>1, <2>2, <3>1
  <2>5. KeyOf(c) = k /\ call[c].conn = conn
    <3>1. PendingType
      BY DEF TypeOK, PendingType
    <3> QED
      BY <2>3, <2>4, <3>1, PlaceOf DEF WaiterParts, QueuedCallsWait
  <2>6. PICK n \in Conns : n = conn
    BY <2>1
  <2>7. AuthorizationOver(n, SaleOf[c])
    BY <1>0, <2>2, <2>3, <2>4, <2>5, <2>6 DEF ReversedResponses
  <2>8. AuthorizationOver(n, SaleOf[c])'
    BY <1>0, <2>7, OverForGood
  <2> QED
    BY <2>1, <2>5, <2>6, <2>8
<1>3. CASE DropConnection /\ chan'[c] # chan[c]
  BY <1>3 DEF DropConnection, Reversed
<1>4. UNCHANGED chan \/ ReadResponse \/ DropConnection
  BY DEF Next, vars, client, Dial, ReadFails, Break, HostAuthorizes, HostReverses,
         NextFrame, StartNotSent, Register, Write, WriteNothing, WritePart, Receive, TimeOut
<1> QED
  BY <1>1, <1>2, <1>3, <1>4

(* Once a reversal was answered 00 or 25 the host does not hold its sale   *)
(* approved on the connection the reversal was sent on, whatever was late, *)
(* lost, timed out or answered in the place of another.                    *)
THEOREM ReversedWhereAsked == Spec => []ReversedOnItsConnection
<1> DEFINE IInv == /\ TypeOK /\ WaiterParts /\ FramesAreSent /\ ApprovedWasSent
                   /\ ReversalsComeLast /\ ReversedResponses /\ ReversedCalls
<1>1. Init => IInv
  <2> SUFFICES ASSUME Init PROVE IInv
    OBVIOUS
  <2>1. TypeOK
    BY InitTypeOK
  <2>2. WaiterParts
    BY KeyType DEF Init, WaiterParts, QueuedCallsWait, OnePlaceEach, CallsHaveAPlace, Live
  <2>3. FramesAreSent /\ ApprovedWasSent
    BY DEF Init, FramesAreSent, ApprovedWasSent
  <2>4. ReversalsComeLast
    BY DEF Init, ReversalsComeLast
  <2>5. ReversedResponses /\ ReversedCalls
    BY DEF Init, ReversedResponses, ReversedCalls, Reversed
  <2> QED
    BY <2>1, <2>2, <2>3, <2>4, <2>5
<1>2. IInv /\ TypeOK' /\ [Next]_vars => IInv'
  BY WaiterStep, FrameStep, OrderStep, ResponseStep, ToldStep
<1>3. IInv => ReversedOnItsConnection
  BY DEF ReversedCalls, ReversedOnItsConnection, AuthorizationOver, Reversed
<1> QED
  BY <1>1, <1>2, <1>3, TypeCorrect, PTL DEF Spec
==============================================================================
