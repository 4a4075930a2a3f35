--------------------------- MODULE BrokerQueueProofs ---------------------------
(***************************************************************************)
(* What the broker and its client guarantee for any number of events and   *)
(* connections.                                                            *)
(***************************************************************************)
EXTENDS BrokerQueue, SequenceTheorems, TLAPS

-----------------------------------------------------------------------------
(* Sequences of event numbers *)

Sorted(s) == \A i, j \in 1 .. Len(s) : i < j => s[i] <= s[j]

LEMMA NumbersType ==
  ASSUME NEW S, NEW s \in Seq(S)
  PROVE  Numbers(s) \subseteq S
BY DEF Numbers

LEMMA EmptyFacts == Numbers(<<>>) = {} /\ Sorted(<<>>) /\ \A S : <<>> \in Seq(S)
BY DEF Numbers, Sorted

\* Queueing an event.
LEMMA AppendFacts ==
  ASSUME NEW s \in Seq(Nat), NEW e \in Nat
  PROVE  /\ Numbers(Append(s, e)) = Numbers(s) \cup {e}
         /\ Sorted(s) /\ (\A x \in Numbers(s) : x <= e) => Sorted(Append(s, e))
<1>1. /\ Append(s, e) \in Seq(Nat) /\ Len(Append(s, e)) = Len(s) + 1 /\ Len(s) \in Nat
      /\ \A i \in 1 .. Len(s) : Append(s, e)[i] = s[i]
      /\ Append(s, e)[Len(s) + 1] = e
  OBVIOUS
<1>2. DOMAIN s = 1 .. Len(s) /\ DOMAIN Append(s, e) = 1 .. Len(s) + 1
  BY <1>1, LenProperties
<1>3. \A i \in 1 .. Len(s) + 1 : i \in 1 .. Len(s) \/ i = Len(s) + 1
  BY <1>1
<1>4. \A i \in 1 .. Len(s) : i \in 1 .. Len(s) + 1
  BY <1>1
<1>5. Len(s) + 1 \in 1 .. Len(s) + 1
  BY <1>1
<1>6. Numbers(Append(s, e)) = Numbers(s) \cup {e}
  <2>1. ASSUME NEW x \in Numbers(Append(s, e)) PROVE x \in Numbers(s) \cup {e}
    <3>1. PICK i \in 1 .. Len(s) + 1 : x = Append(s, e)[i]
      BY <1>2, <2>1 DEF Numbers
    <3> QED BY <1>1, <1>2, <1>3, <3>1 DEF Numbers
  <2>2. ASSUME NEW x \in Numbers(s) PROVE x \in Numbers(Append(s, e))
    <3>1. PICK i \in 1 .. Len(s) : x = s[i]
      BY <1>2, <2>2 DEF Numbers
    <3>2. i \in 1 .. Len(s) + 1 /\ x = Append(s, e)[i]
      BY <1>1, <1>4, <3>1
    <3> QED BY <1>2, <3>2 DEF Numbers
  <2>3. e \in Numbers(Append(s, e))
    <3>1. Len(s) + 1 \in DOMAIN Append(s, e) /\ Append(s, e)[Len(s) + 1] = e
      BY <1>1, <1>2, <1>5
    <3> QED BY <3>1 DEF Numbers
  <2> QED BY <2>1, <2>2, <2>3
<1>7. ASSUME Sorted(s), \A x \in Numbers(s) : x <= e
      PROVE  Sorted(Append(s, e))
  <2>1. \A i \in 1 .. Len(s) : s[i] <= e
    BY <1>2, <1>7 DEF Numbers
  <2>2. ASSUME NEW i \in 1 .. Len(s) + 1, NEW j \in 1 .. Len(s) + 1, i < j
        PROVE  Append(s, e)[i] <= Append(s, e)[j]
    <3>1. i \in 1 .. Len(s)
      BY <1>1, <2>2
    <3>2. CASE j \in 1 .. Len(s)
      BY <1>1, <1>7, <2>2, <3>1, <3>2 DEF Sorted
    <3>3. CASE j = Len(s) + 1
      BY <1>1, <2>1, <3>1, <3>3
    <3> QED BY <1>3, <3>2, <3>3
  <2> QED BY <1>1, <2>2 DEF Sorted
<1> QED BY <1>6, <1>7

\* Going on to the next message.
LEMMA TailFacts ==
  ASSUME NEW s \in Seq(Nat), s # <<>>
  PROVE  /\ Tail(s) \in Seq(Nat) /\ Head(s) \in Nat
         /\ Numbers(s) = Numbers(Tail(s)) \cup {Head(s)}
         /\ Sorted(s) => Sorted(Tail(s)) /\ \A x \in Numbers(s) : Head(s) <= x
<1>1. /\ Tail(s) \in Seq(Nat) /\ Len(Tail(s)) = Len(s) - 1 /\ Len(s) \in Nat \ {0}
      /\ \A i \in 1 .. Len(s) - 1 : Tail(s)[i] = s[i + 1]
      /\ Head(s) = s[1] /\ Head(s) \in Nat
  OBVIOUS
<1>2. DOMAIN s = 1 .. Len(s) /\ DOMAIN Tail(s) = 1 .. Len(s) - 1
  BY <1>1, LenProperties
<1>3. Numbers(s) = Numbers(Tail(s)) \cup {Head(s)}
  <2>1. ASSUME NEW x \in Numbers(s) PROVE x \in Numbers(Tail(s)) \cup {Head(s)}
    <3>1. PICK i \in 1 .. Len(s) : x = s[i]
      BY <1>2, <2>1 DEF Numbers
    <3>2. CASE i = 1
      BY <1>1, <3>1, <3>2
    <3>3. CASE i # 1
      <4>1. i - 1 \in 1 .. Len(s) - 1 /\ Tail(s)[i - 1] = x
        BY <1>1, <3>1, <3>3
      <4> QED BY <1>2, <4>1 DEF Numbers
    <3> QED BY <3>2, <3>3
  <2>2. ASSUME NEW x \in Numbers(Tail(s)) PROVE x \in Numbers(s)
    <3>1. PICK i \in 1 .. Len(s) - 1 : x = Tail(s)[i]
      BY <1>2, <2>2 DEF Numbers
    <3>2. i + 1 \in 1 .. Len(s) /\ x = s[i + 1]
      BY <1>1, <3>1
    <3> QED BY <1>2, <3>2 DEF Numbers
  <2>3. Head(s) \in Numbers(s)
    <3>1. 1 \in DOMAIN s /\ Head(s) = s[1]
      BY <1>1, <1>2
    <3> QED BY <3>1 DEF Numbers
  <2> QED BY <2>1, <2>2, <2>3
<1>4. ASSUME Sorted(s)
      PROVE  Sorted(Tail(s)) /\ \A x \in Numbers(s) : Head(s) <= x
  <2>1. ASSUME NEW i \in 1 .. Len(s) - 1, NEW j \in 1 .. Len(s) - 1, i < j
        PROVE  Tail(s)[i] <= Tail(s)[j]
    <3>1. i + 1 \in 1 .. Len(s) /\ j + 1 \in 1 .. Len(s) /\ i + 1 < j + 1
      BY <1>1, <2>1
    <3> QED BY <1>1, <1>4, <3>1 DEF Sorted
  <2>2. Sorted(Tail(s))
    BY <1>1, <2>1 DEF Sorted
  <2>3. ASSUME NEW x \in Numbers(s) PROVE Head(s) <= x
    <3>1. PICK i \in 1 .. Len(s) : x = s[i]
      BY <1>2, <2>3 DEF Numbers
    <3>2. CASE i = 1
      BY <1>1, <3>1, <3>2
    <3>3. CASE i # 1
      <4>1. 1 \in 1 .. Len(s) /\ 1 < i
        BY <1>1, <3>3
      <4> QED BY <1>1, <1>4, <3>1, <4>1 DEF Sorted
    <3> QED BY <3>2, <3>3
  <2> QED BY <2>2, <2>3
<1> QED BY <1>1, <1>3, <1>4

\* A Hello before what is queued.
LEMMA HelloFacts ==
  ASSUME NEW q \in Seq(Nat \ {0})
  PROVE  /\ <<Hello>> \o q \in Seq(Nat) /\ <<Hello>> \o q # <<>>
         /\ Head(<<Hello>> \o q) = Hello /\ Tail(<<Hello>> \o q) = q
         /\ Numbers(<<Hello>> \o q) = Numbers(q) \cup {Hello}
         /\ Sorted(q) => Sorted(<<Hello>> \o q)
<1> DEFINE s == <<Hello>> \o q
<1>1. /\ s \in Seq(Nat) /\ Len(s) = Len(q) + 1 /\ Len(q) \in Nat
      /\ s[1] = Hello /\ \A i \in 2 .. Len(q) + 1 : s[i] = q[i - 1]
  <2>1. q \in Seq(Nat) /\ <<Hello>> \in Seq(Nat) /\ Len(<<Hello>>) = 1 /\ <<Hello>>[1] = Hello
    BY DEF Hello
  <2>2. /\ s \in Seq(Nat) /\ Len(s) = 1 + Len(q) /\ Len(q) \in Nat
        /\ \A i \in 1 .. 1 + Len(q) : s[i] = IF i <= 1 THEN <<Hello>>[i] ELSE q[i - 1]
    BY <2>1, ConcatProperties, LenProperties
  <2>3. 1 \in 1 .. 1 + Len(q) /\ \A i \in 2 .. Len(q) + 1 : i \in 1 .. 1 + Len(q) /\ ~(i <= 1)
    BY <2>2
  <2> QED BY <2>1, <2>2, <2>3
<1> HIDE DEF s
<1>2. s # <<>> /\ Head(s) = Hello
  BY <1>1
<1>3. Tail(s) = q
  <2>1. Tail(s) \in Seq(Nat) /\ Len(Tail(s)) = Len(q)
    BY <1>1, <1>2
  <2>2. \A i \in 1 .. Len(q) : Tail(s)[i] = q[i]
    <3>1. ASSUME NEW i \in 1 .. Len(q) PROVE Tail(s)[i] = q[i]
      <4>1. Tail(s)[i] = s[i + 1]
        BY <1>1, <1>2
      <4>2. i + 1 \in 2 .. Len(q) + 1 /\ (i + 1) - 1 = i
        BY <1>1
      <4> QED BY <1>1, <4>1, <4>2
    <3> QED BY <3>1
  <2>3. q \in Seq(Nat)
    OBVIOUS
  <2> QED BY <2>1, <2>2, <2>3, SeqEqual
<1>4. Numbers(s) = Numbers(q) \cup {Hello}
  BY <1>1, <1>2, <1>3, TailFacts
<1>5. ASSUME Sorted(q) PROVE Sorted(s)
  <2>1. ASSUME NEW i \in 1 .. Len(q) + 1, NEW j \in 1 .. Len(q) + 1, i < j
        PROVE  s[i] <= s[j]
    <3>0. j \in 2 .. Len(q) + 1 /\ j - 1 \in 1 .. Len(q)
      BY <1>1, <2>1
    <3>1. s[j] = q[j - 1] /\ q[j - 1] \in Nat
      BY <1>1, <3>0
    <3>2. CASE i = 1
      BY <1>1, <3>1, <3>2 DEF Hello
    <3>3. CASE i # 1
      <4>1. i \in 2 .. Len(q) + 1 /\ i - 1 \in 1 .. Len(q) /\ i - 1 < j - 1
        BY <1>1, <2>1, <3>3
      <4>2. s[i] = q[i - 1]
        BY <1>1, <4>1
      <4> QED BY <1>5, <3>0, <3>1, <4>1, <4>2 DEF Sorted
    <3> QED BY <3>2, <3>3
  <2> QED BY <1>1, <2>1 DEF Sorted
<1> QED BY <1>1, <1>2, <1>3, <1>4, <1>5 DEF s

\* What is queued again when a message fails: the events among what was to be sent.
LEMMA RequeuedFacts ==
  ASSUME NEW s \in Seq(Nat), s # <<>>, Tail(s) \in Seq(Nat \ {0})
  PROVE  /\ Requeued(s) \in Seq(Nat \ {0})
         /\ Numbers(Requeued(s)) = Numbers(s) \ {Hello}
         /\ Sorted(s) => Sorted(Requeued(s))
<1>1. Head(s) \in Nat /\ Numbers(s) = Numbers(Tail(s)) \cup {Head(s)}
  BY TailFacts
<1>2. Numbers(Tail(s)) \subseteq Nat \ {0}
  BY NumbersType
<1>3. CASE IsEvent(Head(s))
  <2>1. Requeued(s) = s
    BY <1>3 DEF Requeued
  <2>2. Numbers(s) \subseteq Nat \ {0}
    BY <1>1, <1>2, <1>3 DEF IsEvent, Hello
  <2>3. \A i \in 1 .. Len(s) : s[i] \in Nat \ {0}
    <3>1. DOMAIN s = 1 .. Len(s)
      BY LenProperties
    <3> QED BY <2>2, <3>1 DEF Numbers
  <2>4. s \in Seq(Nat \ {0})
    BY <2>3, LenProperties, IsASeq
  <2> QED BY <2>1, <2>2, <2>4 DEF Hello
<1>4. CASE ~IsEvent(Head(s))
  <2>1. Requeued(s) = Tail(s) /\ Head(s) = Hello
    BY <1>4 DEF Requeued, IsEvent
  <2> QED BY <1>1, <1>2, <2>1, TailFacts DEF Hello
<1> QED BY <1>3, <1>4

-----------------------------------------------------------------------------
(* Types, and what is being sent *)

Shape ==
  /\ sending # <<>> => connected # 0 /\ Tail(sending) \in Seq(Nat \ {0})
  /\ wire # "none" => sending # <<>>
  /\ QueueOnlyDisconnected

\* queue_event.
LEMMA QueueEventType ==
  ASSUME TypeOK, NEW e \in Nat \ {0}, QueueEvent(e)
  PROVE  queued' \in Seq(Nat \ {0}) /\ dropped' \subseteq Nat
<1>1. <<>> \in Seq(Nat \ {0}) /\ Append(queued, e) \in Seq(Nat \ {0})
  BY EmptyFacts DEF TypeOK
<1>2. Numbers(queued) \subseteq Nat
  BY NumbersType DEF TypeOK
<1>3. queued' \in Seq(Nat \ {0})
  BY <1>1 DEF QueueEvent
<1>4. dropped' \subseteq Nat
  BY <1>2 DEF QueueEvent, TypeOK
<1> QED BY <1>3, <1>4

LEMMA TypeInit == Init => TypeOK /\ Shape
<1> SUFFICES ASSUME Init PROVE TypeOK /\ Shape
  OBVIOUS
<1>1. <<>> \in Seq(Nat) /\ <<>> \in Seq(Nat \ {0})
  BY EmptyFacts
<1>2. TypeOK
  BY <1>1 DEF Init, TypeOK
<1>3. Shape
  BY DEF Init, Shape, QueueOnlyDisconnected
<1> QED BY <1>2, <1>3

LEMMA TypeStep ==
  ASSUME TypeOK, Shape, [Next]_vars
  PROVE  TypeOK' /\ Shape'
<1> USE DEF Shape
<1>1. CASE HandleEvent
  <2>1. event' \in Nat \ {0} /\ <<event'>> \in Seq(Nat) /\ Tail(<<event'>>) = <<>> /\ <<event'>> # <<>>
    BY <1>1 DEF HandleEvent, TypeOK
  <2>2. CASE connected # 0
    <3>1. sending' = <<event'>> /\ wire' = "message" /\ queued' = queued /\ dropped' = dropped
      BY <1>1, <2>1, <2>2 DEF HandleEvent, Send
    <3>2. TypeOK'
      BY <1>1, <2>1, <3>1 DEF HandleEvent, TypeOK, clientVars
    <3> QED BY <1>1, <2>1, <2>2, <3>1, <3>2, EmptyFacts DEF HandleEvent, QueueOnlyDisconnected
  <2>3. CASE connected = 0
    <3>1. sending' = sending /\ wire' = wire /\ QueueEvent(event')
      BY <1>1, <2>3 DEF HandleEvent
    <3>2. queued' \in Seq(Nat \ {0}) /\ dropped' \subseteq Nat
      BY <2>1, <3>1, QueueEventType
    <3>3. TypeOK'
      BY <1>1, <2>1, <3>1, <3>2 DEF HandleEvent, TypeOK, clientVars
    <3> QED BY <1>1, <2>3, <3>1, <3>3 DEF HandleEvent, QueueOnlyDisconnected
  <2> QED BY <2>2, <2>3
<1>2. CASE SchedulerConnected
  <2>1. queued \in Seq(Nat \ {0})
    BY DEF TypeOK
  <2>2. sending' = <<Hello>> \o queued /\ wire' = "message" /\ queued' = <<>>
    BY <1>2, <2>1, HelloFacts DEF SchedulerConnected, Send
  <2>3. connected' \in Nat \ {0} /\ accepted' \in Seq(Nat \ {0})
    BY <1>2 DEF SchedulerConnected, TypeOK
  <2>4. TypeOK'
    BY <1>2, <2>1, <2>2, <2>3, HelloFacts, EmptyFacts DEF SchedulerConnected, TypeOK, clientVars
  <2> QED BY <2>1, <2>2, <2>3, <2>4, HelloFacts DEF QueueOnlyDisconnected
<1>3. CASE AckReceived
  <2>1. sending # <<>> /\ sending \in Seq(Nat) /\ Tail(sending) \in Seq(Nat \ {0})
    BY <1>3 DEF AckReceived, TypeOK
  <2>2. sending' = Tail(sending) /\ wire' = IF Tail(sending) = <<>> THEN "none" ELSE "message"
    BY <1>3 DEF AckReceived, Send
  <2>3. TypeOK'
    BY <1>3, <2>1, <2>2, TailFacts DEF AckReceived, TypeOK, clientVars
  <2>4. Tail(sending) # <<>> => Tail(Tail(sending)) \in Seq(Nat \ {0})
    BY <2>1
  <2> QED BY <1>3, <2>1, <2>2, <2>3, <2>4 DEF AckReceived, QueueOnlyDisconnected
<1>4. CASE SendFails
  <2>1. sending # <<>> /\ sending \in Seq(Nat) /\ Tail(sending) \in Seq(Nat \ {0})
    BY <1>4 DEF SendFails, TypeOK
  <2>2. queued' \in Seq(Nat \ {0})
    <3>1. Requeued(sending) \in Seq(Nat \ {0})
      BY <2>1, RequeuedFacts
    <3>2. queued' = queued \o Requeued(sending) /\ queued \in Seq(Nat \ {0})
      BY <1>4 DEF SendFails, TypeOK
    <3> QED BY <3>1, <3>2
  <2>3. expired' \in BOOLEAN /\ gone' \in BOOLEAN
    BY <1>4 DEF SendFails
  <2>4. TypeOK'
    BY <1>4, <2>2, <2>3, EmptyFacts DEF SendFails, TypeOK, clientVars
  <2> QED BY <1>4, <2>4 DEF SendFails, QueueOnlyDisconnected
<1>5. CASE MinutePasses
  <2>1. gone' \in BOOLEAN
    BY <1>5 DEF MinutePasses
  <2>2. TypeOK'
    BY <1>5, <2>1 DEF MinutePasses, TypeOK, clientVars
  <2> QED BY <1>5, <2>2 DEF MinutePasses, QueueOnlyDisconnected
<1>6. CASE Connect
  <2>1. conns' \in Nat \ {0} /\ client' \in Nat /\ accepted' \in Seq(Nat \ {0})
    BY <1>6 DEF Connect, TypeOK
  <2>2. TypeOK'
    BY <1>6, <2>1 DEF Connect, TypeOK
  <2> QED BY <1>6, <2>2 DEF Connect, QueueOnlyDisconnected
<1>7. CASE Receive
  <2>1. sending # <<>> /\ Head(sending) \in Nat
    BY <1>7 DEF Receive, TypeOK
  <2>2. /\ UNCHANGED <<event, connected, queued, expired, sending, accepted, dropped, gone, conns, alive>>
        /\ wire' \in {"message", "ack"}
    BY <1>7 DEF Receive, PassOn, clientOnly, brokerVars
  <2>3. client' \in Nat /\ greeted' \in BOOLEAN /\ delivered' \in Seq(Nat \ {0})
    <3>1. CASE alive
      <4>1. delivered' = IF IsEvent(Head(sending)) THEN Append(delivered, Head(sending)) ELSE delivered
        BY <1>7, <3>1 DEF Receive, PassOn
      <4>2. delivered' \in Seq(Nat \ {0})
        BY <2>1, <4>1 DEF TypeOK, IsEvent, Hello
      <4>3. client' \in Nat
        BY <1>7, <3>1 DEF Receive, PassOn, TypeOK
      <4>4. greeted' \in BOOLEAN
        BY <1>7, <3>1 DEF Receive, PassOn
      <4> QED BY <4>2, <4>3, <4>4
    <3>2. CASE ~alive
      BY <1>7, <3>2 DEF Receive, PassOn, TypeOK
    <3> QED BY <3>1, <3>2
  <2>4. TypeOK'
    BY <2>2, <2>3 DEF TypeOK
  <2> QED BY <2>1, <2>2, <2>4 DEF QueueOnlyDisconnected
<1>8. CASE Disconnected \/ SchedulerEnds \/ SchedulerRestarts
  <2>1. /\ UNCHANGED <<event, connected, queued, expired, sending, accepted, dropped, gone, conns, wire, delivered>>
        /\ client' \in {0, client}
    BY <1>8 DEF Disconnected, SchedulerEnds, SchedulerRestarts, clientOnly, brokerVars
  <2>2. alive' \in BOOLEAN /\ greeted' \in BOOLEAN
    BY <1>8 DEF Disconnected, SchedulerEnds, SchedulerRestarts, TypeOK
  <2>3. TypeOK'
    BY <2>1, <2>2 DEF TypeOK
  <2> QED BY <2>1, <2>3 DEF QueueOnlyDisconnected
<1>9. CASE UNCHANGED vars
  BY <1>9 DEF vars, brokerVars, clientVars, TypeOK, QueueOnlyDisconnected
<1> QED BY <1>1, <1>2, <1>3, <1>4, <1>5, <1>6, <1>7, <1>8, <1>9 DEF Next, BrokerStep

-----------------------------------------------------------------------------
(* Order and loss *)

Pending == Numbers(queued) \cup Numbers(sending)

\* What is passed on, queued and sent is sorted, and nothing that is still to be sent
\* is older than something that has been passed on.
Ordered ==
  /\ Sorted(delivered) /\ Sorted(queued) /\ Sorted(sending)
  /\ \A e \in Pending \cup Numbers(delivered) : e <= event
  /\ \A d \in Numbers(delivered) : \A e \in Pending : IsEvent(e) => d <= e

\* An ack is for something that has been passed on.
Acked == wire = "ack" => ~IsEvent(Head(sending)) \/ Head(sending) \in Numbers(delivered)

Queues == Ordered /\ Acked /\ NothingLost

LEMMA QueuesInit == Init => Queues
BY EmptyFacts DEF Init, Queues, Ordered, Acked, NothingLost, Pending

LEMMA QueuesStep ==
  ASSUME TypeOK, Shape, Queues, [Next]_vars
  PROVE  Queues'
<1>0. /\ event \in Nat /\ queued \in Seq(Nat \ {0}) /\ queued \in Seq(Nat)
      /\ sending \in Seq(Nat) /\ delivered \in Seq(Nat)
      /\ Numbers(queued) \subseteq Nat \ {0} /\ Numbers(sending) \subseteq Nat
      /\ Numbers(delivered) \subseteq Nat
  BY NumbersType DEF TypeOK
<1> USE DEF Queues
<1>1. CASE HandleEvent
  <2>1. event' = event + 1 /\ delivered' = delivered /\ sending = <<>>
    BY <1>1 DEF HandleEvent, clientVars
  <2>2. CASE connected # 0
    <3>1. sending' = <<event'>> /\ wire' = "message" /\ queued' = queued /\ dropped' = dropped
      BY <1>1, <2>2 DEF HandleEvent, Send
    <3>2. Numbers(<<event'>>) = {event'} /\ Sorted(<<event'>>)
      BY <1>0, <2>1 DEF Numbers, Sorted
    <3>3. Ordered'
      BY <1>0, <2>1, <3>1, <3>2, EmptyFacts DEF Ordered, Pending
    <3>4. NothingLost'
      BY <1>0, <2>1, <3>1, <3>2, EmptyFacts, SMTT(30) DEF NothingLost
    <3> QED BY <3>1, <3>3, <3>4 DEF Acked
  <2>3. CASE connected = 0
    <3>1. sending' = sending /\ wire' = wire /\ QueueEvent(event')
      BY <1>1, <2>3 DEF HandleEvent
    <3>2. CASE expired
      <4>1. queued' = <<>> /\ dropped' = dropped \cup Numbers(queued) \cup {event'}
        BY <3>1, <3>2 DEF QueueEvent
      <4>2. Ordered'
        BY <1>0, <2>1, <3>1, <4>1, EmptyFacts DEF Ordered, Pending
      <4>3. NothingLost'
        BY <1>0, <2>1, <3>1, <4>1, EmptyFacts DEF NothingLost
      <4> QED BY <2>1, <3>1, <4>2, <4>3 DEF Acked
    <3>3. CASE ~expired
      <4>1. queued' = Append(queued, event') /\ dropped' = dropped
        BY <3>1, <3>3 DEF QueueEvent
      <4>2. event' \in Nat /\ \A x \in Numbers(queued) : x <= event'
        BY <1>0, <2>1 DEF Ordered, Pending
      <4>3. Numbers(queued') = Numbers(queued) \cup {event'} /\ Sorted(queued')
        BY <1>0, <4>1, <4>2, AppendFacts DEF Ordered
      <4>4. Ordered'
        BY <1>0, <2>1, <3>1, <4>3, EmptyFacts DEF Ordered, Pending
      <4>5. NothingLost'
        BY <1>0, <2>1, <3>1, <4>1, <4>3, EmptyFacts, SMTT(30) DEF NothingLost
      <4> QED BY <2>1, <3>1, <4>4, <4>5 DEF Acked
    <3> QED BY <3>2, <3>3
  <2> QED BY <2>2, <2>3
<1>2. CASE SchedulerConnected
  <2>1. /\ sending = <<>> /\ sending' = <<Hello>> \o queued /\ wire' = "message" /\ queued' = <<>>
        /\ event' = event /\ delivered' = delivered /\ dropped' = dropped
    BY <1>0, <1>2, HelloFacts DEF SchedulerConnected, Send, clientVars
  <2>2. Numbers(sending') = Numbers(queued) \cup {Hello} /\ Sorted(sending')
    BY <1>0, <2>1, HelloFacts DEF Ordered
  <2>3. Ordered'
    BY <1>0, <2>1, <2>2, EmptyFacts DEF Ordered, Pending, Hello, IsEvent
  <2>4. NothingLost'
    BY <2>1, <2>2, EmptyFacts DEF NothingLost
  <2> QED BY <2>1, <2>3, <2>4 DEF Acked
<1>3. CASE AckReceived
  <2>1. /\ sending # <<>> /\ wire = "ack" /\ sending' = Tail(sending) /\ wire' # "ack"
        /\ event' = event /\ delivered' = delivered /\ dropped' = dropped /\ queued' = queued
    BY <1>3 DEF AckReceived, Send, clientVars
  <2>2. Numbers(sending) = Numbers(sending') \cup {Head(sending)} /\ Sorted(sending')
    BY <1>0, <2>1, TailFacts DEF Ordered
  <2>3. Ordered'
    BY <2>1, <2>2 DEF Ordered, Pending
  <2>4. Head(sending) \in Numbers(delivered) \/ Head(sending) = 0
    BY <2>1 DEF Acked, IsEvent, Hello
  <2>5. NothingLost'
    <3>1. 0 \notin 1 .. event
      BY <1>0
    <3> QED BY <2>1, <2>2, <2>4, <3>1 DEF NothingLost
  <2> QED BY <2>1, <2>3, <2>5 DEF Acked
<1>4. CASE SendFails
  <2>1. /\ sending # <<>> /\ sending' = <<>> /\ wire' = "none"
        /\ queued' = queued \o Requeued(sending)
        /\ event' = event /\ delivered' = delivered /\ dropped' = dropped
    BY <1>4 DEF SendFails, clientVars
  <2>2. /\ Requeued(sending) \in Seq(Nat \ {0})
        /\ Numbers(Requeued(sending)) = Numbers(sending) \ {Hello}
        /\ Sorted(Requeued(sending))
    BY <1>0, <2>1, RequeuedFacts DEF Shape, Ordered
  <2>3. queued = <<>>
    BY <2>1 DEF Shape, QueueOnlyDisconnected
  <2>4. queued' = Requeued(sending)
    BY <2>1, <2>2, <2>3, ConcatEmptySeq
  <2>5. Ordered'
    BY <2>1, <2>2, <2>3, <2>4, EmptyFacts DEF Ordered, Pending
  <2>6. NothingLost'
    <3>1. Hello \notin 1 .. event
      BY <1>0 DEF Hello
    <3> QED BY <2>1, <2>2, <2>3, <2>4, <3>1, EmptyFacts DEF NothingLost
  <2> QED BY <2>1, <2>5, <2>6 DEF Acked
<1>5. CASE Receive
  <2>1. /\ UNCHANGED <<event, queued, sending, dropped>>
        /\ sending # <<>> /\ queued = <<>> /\ wire = "message"
    BY <1>5 DEF Receive, clientOnly, brokerVars, Shape, QueueOnlyDisconnected
  <2>2. CASE ~alive
    BY <1>5, <2>1, <2>2 DEF Receive, PassOn, Ordered, Pending, Acked, NothingLost
  <2>3. CASE alive /\ ~IsEvent(Head(sending))
    BY <1>5, <2>1, <2>3 DEF Receive, PassOn, Ordered, Pending, Acked, NothingLost
  <2>4. CASE alive /\ IsEvent(Head(sending))
    <3>1. delivered' = Append(delivered, Head(sending))
      BY <1>5, <2>4 DEF Receive, PassOn
    <3>2. /\ Head(sending) \in Nat /\ Head(sending) \in Numbers(sending)
          /\ \A e \in Numbers(sending) : Head(sending) <= e
      BY <1>0, <2>1, TailFacts DEF Ordered
    <3>3. \A d \in Numbers(delivered) : d <= Head(sending)
      BY <2>4, <3>2 DEF Ordered, Pending
    <3>4. Numbers(delivered') = Numbers(delivered) \cup {Head(sending)} /\ Sorted(delivered')
      BY <1>0, <3>1, <3>2, <3>3, AppendFacts DEF Ordered
    <3>5. Ordered'
      BY <2>1, <3>2, <3>4, EmptyFacts DEF Ordered, Pending
    <3> QED BY <2>1, <3>4, <3>5 DEF Acked, NothingLost
  <2> QED BY <2>2, <2>3, <2>4
<1>6. CASE UNCHANGED <<event, queued, sending, wire, delivered, dropped>>
  BY <1>6 DEF Ordered, Pending, Acked, NothingLost
<1>7. CASE MinutePasses \/ Connect \/ Disconnected \/ SchedulerEnds \/ SchedulerRestarts \/ UNCHANGED vars
  BY <1>6, <1>7 DEF MinutePasses, Connect, Disconnected, SchedulerEnds, SchedulerRestarts,
                    clientOnly, vars, brokerVars, clientVars
<1> QED BY <1>1, <1>2, <1>3, <1>4, <1>5, <1>7 DEF Next, BrokerStep

-----------------------------------------------------------------------------
(* The Hello *)

\* A connection number is used once, and whoever is at the other end of the connection
\* the broker uses has been greeted, unless the Hello is still on its way.
Greeted ==
  /\ connected <= conns /\ \A c \in Numbers(accepted) : c <= conns
  /\ /\ connected # 0 /\ client = connected
     /\ sending = <<>> \/ IsEvent(Head(sending)) \/ wire = "ack"
     => greeted

LEMMA GreetedInit == Init => Greeted
BY EmptyFacts DEF Init, Greeted

LEMMA GreetedStep ==
  ASSUME TypeOK, Shape, Greeted, [Next]_vars
  PROVE  Greeted' /\ (delivered' # delivered => greeted)
<1>0. /\ conns \in Nat /\ connected \in Nat /\ client \in Nat /\ accepted \in Seq(Nat)
      /\ queued \in Seq(Nat \ {0})
  BY DEF TypeOK
<1>1. CASE HandleEvent
  BY <1>1 DEF HandleEvent, Greeted, clientVars
<1>2. CASE SchedulerConnected
  <2>1. /\ connected' = Head(accepted) /\ accepted' = Tail(accepted) /\ accepted # <<>>
        /\ sending' = <<Hello>> \o queued /\ wire' # "ack"
        /\ conns' = conns /\ delivered' = delivered
    BY <1>2 DEF SchedulerConnected, Send, clientVars
  <2>2. sending' # <<>> /\ Head(sending') = Hello
    BY <1>0, <2>1, HelloFacts
  <2>3. Numbers(accepted) = Numbers(accepted') \cup {connected'}
    BY <1>0, <2>1, TailFacts
  <2> QED BY <2>1, <2>2, <2>3 DEF Greeted, IsEvent
<1>3. CASE AckReceived
  BY <1>3 DEF AckReceived, Send, Greeted, clientVars
<1>4. CASE SendFails
  BY <1>0, <1>4 DEF SendFails, Greeted, clientVars
<1>5. CASE MinutePasses
  BY <1>5 DEF MinutePasses, Greeted, clientVars
<1>6. CASE Connect
  <2>1. /\ conns' = conns + 1 /\ client' = conns + 1 /\ accepted' = Append(accepted, conns + 1)
        /\ connected' = connected /\ delivered' = delivered
    BY <1>6 DEF Connect
  <2>2. Numbers(accepted') = Numbers(accepted) \cup {conns + 1}
    BY <1>0, <2>1, AppendFacts
  <2>3. Numbers(accepted) \subseteq Nat
    BY <1>0, NumbersType
  <2> QED BY <1>0, <2>1, <2>2, <2>3 DEF Greeted
<1>7. CASE Receive
  <2>1. /\ UNCHANGED <<connected, sending, accepted, conns>>
        /\ client # 0 /\ client = connected /\ wire = "message" /\ sending # <<>>
    BY <1>7 DEF Receive, clientOnly, brokerVars, Shape
  <2>2. CASE ~alive
    BY <1>7, <2>1, <2>2 DEF Receive, PassOn, Greeted
  <2>3. CASE alive
    <3>1. /\ greeted' = (greeted \/ Head(sending) = Hello) /\ client' = client
          /\ ~IsEvent(Head(sending)) => delivered' = delivered
      BY <1>7, <2>3 DEF Receive, PassOn
    <3>2. IsEvent(Head(sending)) => greeted
      BY <2>1 DEF Greeted
    <3>3. greeted'
      BY <3>1, <3>2 DEF IsEvent
    <3> QED BY <2>1, <3>1, <3>2, <3>3 DEF Greeted
  <2> QED BY <2>2, <2>3
<1>8. CASE Disconnected \/ SchedulerRestarts
  BY <1>8 DEF Disconnected, SchedulerRestarts, clientOnly, brokerVars, Greeted
<1>9. CASE SchedulerEnds
  BY <1>9 DEF SchedulerEnds, clientOnly, brokerVars, Greeted
<1>10. CASE UNCHANGED vars
  BY <1>10 DEF vars, brokerVars, clientVars, Greeted
<1> QED BY <1>1, <1>2, <1>3, <1>4, <1>5, <1>6, <1>7, <1>8, <1>9, <1>10 DEF Next, BrokerStep

-----------------------------------------------------------------------------
(* Expiry *)

\* While no scheduler is connected the queue is too old only if nobody has answered for
\* that long, or a Hello has failed.
Expiry == connected = 0 /\ expired => gone

LEMMA ExpiryStep ==
  ASSUME TypeOK, Shape, Expiry, [Next]_vars
  PROVE  Expiry' /\ (dropped' # dropped => gone)
<1>1. CASE HandleEvent
  BY <1>1 DEF HandleEvent, QueueEvent, Expiry, clientVars
<1>2. CASE SchedulerConnected
  <2>1. connected' # 0 /\ dropped' = dropped
    <3>1. accepted # <<>> /\ accepted \in Seq(Nat \ {0}) /\ connected' = Head(accepted)
      BY <1>2 DEF SchedulerConnected, TypeOK
    <3> QED BY <1>2, <3>1 DEF SchedulerConnected
  <2> QED BY <2>1 DEF Expiry
<1>3. CASE AckReceived
  BY <1>3 DEF AckReceived, Shape, QueueOnlyDisconnected, Expiry
<1>4. CASE SendFails
  BY <1>4 DEF SendFails, Expiry
<1>5. CASE MinutePasses
  BY <1>5 DEF MinutePasses, Expiry
<1>6. CASE UNCHANGED <<connected, expired, dropped, gone>>
  BY <1>6 DEF Expiry
<1>7. CASE Connect \/ Receive \/ Disconnected \/ SchedulerEnds \/ SchedulerRestarts \/ UNCHANGED vars
  BY <1>6, <1>7 DEF Connect, Receive, Disconnected, SchedulerEnds, SchedulerRestarts, clientOnly,
                    vars, brokerVars
<1> QED BY <1>1, <1>2, <1>3, <1>4, <1>5, <1>7 DEF Next, BrokerStep

-----------------------------------------------------------------------------
(* The theorems *)

LEMMA Invariance == Spec => [](TypeOK /\ Shape /\ Queues /\ Greeted)
<1>1. Init => TypeOK /\ Shape /\ Queues /\ Greeted
  BY TypeInit, QueuesInit, GreetedInit
<1>2. TypeOK /\ Shape /\ Queues /\ Greeted /\ [Next]_vars => (TypeOK /\ Shape /\ Queues /\ Greeted)'
  BY TypeStep, QueuesStep, GreetedStep
<1> QED BY <1>1, <1>2, PTL DEF Spec

\* The state of the broker and its client keeps its shape, and the queue holds events only.
THEOREM TypeCorrect == Spec => []TypeOK
BY Invariance, PTL

\* With a scheduler connected nothing is queued: handle_new_scheduler_connected takes the
\* whole queue, and a failed send disconnects before it queues again.
THEOREM BrokerQueueOnlyDisconnected == Spec => []QueueOnlyDisconnected
<1>1. Shape => QueueOnlyDisconnected
  BY DEF Shape
<1> QED BY <1>1, Invariance, PTL

\* An event is lost only if queue_event drops it as expired, whatever becomes of the
\* connections, the acks and the scheduler process.
THEOREM BrokerNothingLost == Spec => []NothingLost
<1>1. Queues => NothingLost
  BY DEF Queues
<1> QED BY <1>1, Invariance, PTL

\* broker_client passes events on in the order they came in, with repetitions at most.
THEOREM BrokerInOrder == Spec => []InOrder
<1>1. ASSUME TypeOK, Queues PROVE InOrder
  <2>1. Len(delivered) \in Nat /\ Sorted(delivered)
    BY <1>1 DEF TypeOK, Queues, Ordered
  <2>2. \A i \in 1 .. Len(delivered) - 1 :
          i \in 1 .. Len(delivered) /\ i + 1 \in 1 .. Len(delivered) /\ i < i + 1
    BY <2>1
  <2> QED BY <2>1, <2>2 DEF InOrder, Sorted
<1> QED BY <1>1, Invariance, PTL

\* The scheduler gets no event on a connection before the Hello of that connection.
THEOREM BrokerHelloFirst == Spec => HelloFirst
<1>1. TypeOK /\ Shape /\ Greeted /\ [Next]_vars => [delivered' # delivered => greeted]_vars
  BY GreetedStep
<1> QED BY <1>1, Invariance, PTL DEF Spec, HelloFirst

\* queue_event drops an event as expired only when no scheduler has answered for 60
\* seconds, or a Hello has failed since one did.
THEOREM BrokerExpiredWhenGone == Spec => ExpiredWhenGone
<1>1. Init => Expiry
  BY DEF Init, Expiry
<1>2. TypeOK /\ Shape /\ Expiry /\ [Next]_vars => Expiry' /\ [dropped' # dropped => gone]_vars
  BY ExpiryStep
<1> QED BY <1>1, <1>2, Invariance, PTL DEF Spec, ExpiredWhenGone
=============================================================================
