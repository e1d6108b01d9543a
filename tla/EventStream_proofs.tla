-------------------------- MODULE EventStream_proofs --------------------------
(***************************************************************************)
(* The event stream for any connections, users, producers and limits: it   *)
(* implements Delivery, and no open manager is ever forgotten.             *)
(***************************************************************************)
EXTENDS EventStream, SequenceTheorems, TLAPS

(***************************************************************************)
(* Where the messages for a connection are, from the client backwards: it  *)
(* has Got some, one may be going Out, some Wait in its queue, one is the  *)
(* forwarder's Current event while it has still to be sent to c, some are  *)
(* On the bus, and some producers are Putting one there.                   *)
(***************************************************************************)
Messages(s) == {s[i] : i \in DOMAIN s} \ {Ping}

Got(c)     == Messages(delivered[c])
Out(c)     == Messages(sending[c])
Wait(c)    == Messages(queue[c])
Current(c) == IF c \in targets THEN {event} ELSE {}
On         == Messages(bus)
Putting    == UNION {Messages(putting[p]) : p \in Producer}

Passed(c) == Got(c) \cup Out(c) \cup Wait(c)
Coming(c) == Current(c) \cup On \cup Putting

\* By the log L the messages of S come before those of T, as far as their producers
\* order them, ...
Precede(L, S, T) == \A m \in S, n \in T : L[m].from = L[n].from => m < n

\* ... and so do those of a queue.
Sorted(L, s) ==
    \A i, j \in DOMAIN s :
        i < j /\ s[i] # Ping /\ s[j] # Ping /\ L[s[i]].from = L[s[j]].from => s[i] < s[j]

\* Nothing is anywhere that has not been published, and a message is on its way only
\* to a connection it is for.
Published ==
    /\ On \cup Putting \subseteq DOMAIN log
    /\ \A p \in Producer : \A m \in Messages(putting[p]) : log[m].from = p
    /\ \A c \in Conn : \A m \in Passed(c) \cup Current(c) :
          m \in DOMAIN log /\ log[m].to \in {c, Owner[c]}

\* What has gone further was published earlier.
InOrder ==
    /\ Sorted(log, bus)
    /\ Precede(log, On, Putting)
    /\ \A c \in Conn :
          /\ Sorted(log, queue[c])
          /\ Precede(log, Got(c), Out(c) \cup Wait(c))
          /\ Precede(log, Out(c), Wait(c))
          /\ Precede(log, Passed(c), Coming(c))
          /\ Precede(log, Current(c), On \cup Putting)

\* c gets no more messages, or none that its producer published after n.
Cut(c, n) ==
    \/ status[c] = "closed"
    \/ /\ c \notin registry \/ phase \in {"stopping", "stopped"}
       /\ Precede(log, Passed(c) \cup Current(c), {n})

\* A message for the connection itself is there or on its way, unless it is cut off.
Complete ==
    \A n \in DOMAIN log, c \in Conn :
        log[n].to = c =>
            /\ status[c] # "new"
            /\ n \in Passed(c) \cup Coming(c) \/ Cut(c, n)

\* What a connection that is new, closed, without a forwarder cannot have.
Managed ==
    /\ \A c \in Conn :
          /\ status[c] = "closed" => sending[c] = <<>>
          /\ c \in registry \cup closing \cup targets => status[c] # "new"
    /\ phase \in {"stopping", "stopped"} => targets = {}

\* The inductive invariant.
StreamInv == TypeOK /\ Managed /\ Published /\ InOrder /\ Complete
-------------------------------------------------------------------------------
(***************************************************************************)
(* Queues and the messages in them.                                        *)
(***************************************************************************)
LEMMA MessagesAppend ==
    ASSUME NEW T, NEW s \in Seq(T), NEW x
    PROVE  Messages(Append(s, x)) = Messages(s) \cup ({x} \ {Ping})
<1>1. /\ DOMAIN Append(s, x) = DOMAIN s \cup {Len(s) + 1}
      /\ \A i \in DOMAIN s : Append(s, x)[i] = s[i]
      /\ Append(s, x)[Len(s) + 1] = x
  OBVIOUS
<1> QED
  BY <1>1 DEF Messages

\* Taking the first element of a queue.
LEMMA MessagesTail ==
    ASSUME NEW T, NEW s \in Seq(T), s # <<>>
    PROVE  /\ Messages(s) = Messages(Tail(s)) \cup ({Head(s)} \ {Ping})
           /\ Head(s) \in T /\ Tail(s) \in Seq(T) /\ Len(Tail(s)) = Len(s) - 1
<1>1. Len(s) \in Nat \ {0} /\ DOMAIN s = 1 .. Len(s) /\ Head(s) = s[1]
  OBVIOUS
<1>2. Tail(s) \in Seq(T) /\ Len(Tail(s)) = Len(s) - 1 /\ DOMAIN Tail(s) = 1 .. Len(s) - 1
  OBVIOUS
<1>3. \A i \in 1 .. Len(s) - 1 : Tail(s)[i] = s[i + 1]
  OBVIOUS
<1>4. \A i \in DOMAIN s : i = 1 \/ (i - 1 \in 1 .. Len(s) - 1 /\ s[i] = Tail(s)[i - 1])
  BY <1>1, <1>3
<1>5. \A i \in 1 .. Len(s) - 1 : i + 1 \in DOMAIN s
  BY <1>1
<1>6. Head(s) \in T
  BY <1>1
<1>7. Messages(s) \subseteq Messages(Tail(s)) \cup ({Head(s)} \ {Ping})
  BY <1>1, <1>2, <1>4 DEF Messages
<1>8. Messages(Tail(s)) \cup ({Head(s)} \ {Ping}) \subseteq Messages(s)
  BY <1>1, <1>2, <1>3, <1>5 DEF Messages
<1> QED
  BY <1>2, <1>6, <1>7, <1>8

\* A queue stays in order when its first element is taken, ...
LEMMA SortedTail ==
    ASSUME NEW T, NEW s \in Seq(T), s # <<>>, NEW L, Sorted(L, s)
    PROVE  Sorted(L, Tail(s)) /\ Precede(L, {Head(s)} \ {Ping}, Messages(Tail(s)))
<1>1. Len(s) \in Nat \ {0} /\ DOMAIN s = 1 .. Len(s) /\ Head(s) = s[1]
      /\ DOMAIN Tail(s) = 1 .. Len(s) - 1
  OBVIOUS
<1>2. \A i \in 1 .. Len(s) - 1 : Tail(s)[i] = s[i + 1] /\ i + 1 \in 1 .. Len(s) /\ 1 < i + 1
  OBVIOUS
<1>3. \A i, j \in 1 .. Len(s) - 1 : i < j => i + 1 < j + 1
  BY <1>1
<1>4. Sorted(L, Tail(s))
  BY <1>1, <1>2, <1>3 DEF Sorted
<1>5. 1 \in 1 .. Len(s)
  BY <1>1
<1> QED
  BY <1>1, <1>2, <1>4, <1>5 DEF Sorted, Precede, Messages

\* ... and when what is put behind it was published later.
LEMMA SortedAppend ==
    ASSUME NEW T, NEW s \in Seq(T), NEW x, NEW L, Sorted(L, s),
           Precede(L, Messages(s), {x} \ {Ping})
    PROVE  Sorted(L, Append(s, x))
<1>1. /\ DOMAIN Append(s, x) = DOMAIN s \cup {Len(s) + 1}
      /\ \A i \in DOMAIN s : Append(s, x)[i] = s[i] /\ i \in Nat /\ i < Len(s) + 1
      /\ Append(s, x)[Len(s) + 1] = x /\ Len(s) \in Nat
  OBVIOUS
<1>2. \A i, j \in DOMAIN Append(s, x) : i < j => i \in DOMAIN s /\ (j \in DOMAIN s \/ j = Len(s) + 1)
  BY <1>1
<1> QED
  BY <1>1, <1>2 DEF Sorted, Precede, Messages

\* What has been published before stays as it was, and what is published now is last.
LEMMA LongerLog ==
    ASSUME NEW T, NEW L \in Seq(T), NEW x
    PROVE  /\ DOMAIN Append(L, x) = DOMAIN L \cup {Len(L) + 1} /\ Len(L) + 1 \notin DOMAIN L
           /\ \A m \in DOMAIN L : Append(L, x)[m] = L[m] /\ m < Len(L) + 1 /\ m \in Nat
           /\ Append(L, x)[Len(L) + 1] = x
           /\ \A S, S2 \in SUBSET DOMAIN L : Precede(L, S, S2) => Precede(Append(L, x), S, S2)
           /\ \A S \in SUBSET DOMAIN L : Precede(Append(L, x), S, {Len(L) + 1})
           /\ \A s : Messages(s) \subseteq DOMAIN L /\ Sorted(L, s) => Sorted(Append(L, x), s)
<1>1. /\ DOMAIN Append(L, x) = DOMAIN L \cup {Len(L) + 1} /\ Len(L) + 1 \notin DOMAIN L
      /\ \A m \in DOMAIN L : Append(L, x)[m] = L[m] /\ m < Len(L) + 1 /\ m \in Nat
      /\ Append(L, x)[Len(L) + 1] = x
  OBVIOUS
<1>2. \A S, S2 \in SUBSET DOMAIN L : Precede(L, S, S2) => Precede(Append(L, x), S, S2)
  BY <1>1 DEF Precede
<1>3. \A S \in SUBSET DOMAIN L : Precede(Append(L, x), S, {Len(L) + 1})
  BY <1>1 DEF Precede
<1>4. ASSUME NEW s, Messages(s) \subseteq DOMAIN L, Sorted(L, s)
      PROVE  Sorted(Append(L, x), s)
  <2>1. \A i \in DOMAIN s : s[i] # Ping => Append(L, x)[s[i]] = L[s[i]]
    BY <1>1, <1>4 DEF Messages
  <2> QED
    BY <1>4, <2>1 DEF Sorted
<1> QED
  BY <1>1, <1>2, <1>3, <1>4

\* One message or none.
LEMMA AtMostOneMessage ==
    ASSUME NEW T \in SUBSET Nat, NEW s \in AtMostOne(T)
    PROVE  /\ s \in Seq(T)
           /\ \A m \in Messages(s), n \in Messages(s) : m = n
           /\ s \in {<<>>, <<Ping>>} => Messages(s) = {}
           /\ s \notin {<<>>, <<Ping>>} => s \in Seq(T \ {Ping}) /\ Messages(s) = {s[1]} /\ s = <<s[1]>>
<1>1. CASE s = <<>>
  BY <1>1 DEF Messages
<1>2. CASE s # <<>>
  <2>1. PICK m \in T : s = <<m>>
    BY <1>2 DEF AtMostOne
  <2>2. DOMAIN s = {1} /\ s[1] = m
    BY <2>1
  <2>3. Messages(s) = {m} \ {Ping}
    BY <2>2 DEF Messages
  <2>4. s \in {<<>>, <<Ping>>} => m = Ping
    BY <2>1, <2>2
  <2> QED
    BY <2>1, <2>2, <2>3, <2>4
<1> QED
  BY <1>1, <1>2
-------------------------------------------------------------------------------
(***************************************************************************)
(* Types.                                                                  *)
(***************************************************************************)
\* What a client has got after Sent or Close.
LEMMA ReceivedIs ==
    ASSUME TypeOK, NEW c \in Conn
    PROVE  /\ Received(c) \in [Conn -> Seq(Message)]
           /\ Messages(Received(c)[c]) = Got(c) \cup Out(c)
           /\ \A d \in Conn \ {c} : Received(c)[d] = delivered[d]
           /\ \/ Received(c) = delivered
              \/ \E m \in Out(c) : Received(c) = [delivered EXCEPT ![c] = Append(@, m)]
<1>1. sending[c] \in AtMostOne(Message \cup {Ping}) /\ delivered \in [Conn -> Seq(Message)]
      /\ delivered[c] \in Seq(Message)
  BY DEF TypeOK
<1>2. Message \cup {Ping} \in SUBSET Nat
  BY StreamAssumption DEF Message, Ping
<1>3. CASE sending[c] \in {<<>>, <<Ping>>}
  <2>1. Received(c) = delivered /\ Out(c) = {}
    BY <1>1, <1>2, <1>3, AtMostOneMessage DEF Received, Out
  <2> QED
    BY <1>1, <2>1 DEF Got
<1>4. CASE sending[c] \notin {<<>>, <<Ping>>}
  <2> DEFINE T == Message \cup {Ping}
  <2>1. T \ {Ping} \subseteq Message
    OBVIOUS
  <2>2. sending[c] \in Seq(T \ {Ping}) /\ Messages(sending[c]) = {sending[c][1]}
        /\ sending[c] = <<sending[c][1]>>
    <3> HIDE DEF T
    <3>1. T \in SUBSET Nat /\ sending[c] \in AtMostOne(T)
      BY <1>1, <1>2 DEF T
    <3> QED
      BY <3>1, <1>4, AtMostOneMessage
  <2>3. PICK m \in Message : sending[c] = <<m>> /\ Out(c) = {m}
    <3> HIDE DEF T
    <3>1. sending[c][1] \in T \ {Ping}
      BY <2>2
    <3> QED
      BY <2>1, <2>2, <3>1 DEF Out
  <2>4. delivered[c] \o <<m>> = Append(delivered[c], m)
    BY <1>1
  <2>5. Received(c) = [delivered EXCEPT ![c] = Append(delivered[c], m)]
    BY <1>4, <2>3, <2>4 DEF Received
  <2>6. m # Ping
    BY <2>3 DEF Out, Messages
  <2>7. Messages(Append(delivered[c], m)) = Got(c) \cup {m}
    BY <1>1, <2>6, MessagesAppend DEF Got
  <2> QED
    <3>1. Received(c)[c] = Append(delivered[c], m) /\ Received(c) \in [Conn -> Seq(Message)]
          /\ \A d \in Conn \ {c} : Received(c)[d] = delivered[d]
      BY <1>1, <2>5
    <3>2. m \in Out(c) /\ Messages(Received(c)[c]) = Got(c) \cup Out(c)
      BY <2>3, <2>7, <3>1
    <3> QED
      BY <2>5, <3>1, <3>2
<1> QED
  BY <1>3, <1>4

\* Closing a manager keeps the types.
LEMMA CloseType ==
    ASSUME TypeOK, NEW c \in Conn, CloseUnlessClosed(c)
    PROVE  /\ status' \in [Conn -> {"new", "open", "closed"}] /\ queue' = queue
           /\ sending' \in [Conn -> AtMostOne(Message \cup {Ping})]
           /\ delivered' \in [Conn -> Seq(Message)]
<1>1. CASE Close(c)
  <2>1. <<>> \in AtMostOne(Message \cup {Ping})
    BY DEF AtMostOne
  <2> QED
    BY <1>1, <2>1, ReceivedIs DEF Close, TypeOK
<1> QED
  BY <1>1 DEF CloseUnlessClosed, managers, TypeOK

\* Every step keeps the types.
LEMMA TypeStep ==
    ASSUME TypeOK, [Next]_vars
    PROVE  TypeOK'
<1> USE DEF TypeOK, producers, forwarder, conns, managers
<1> HIDE DEF AtMostOne
<1>1. ASSUME NEW p \in Producer, Publish(p)
      PROVE  TypeOK'
  <2>1. Len(log) + 1 \in Message
    BY <1>1, StreamAssumption DEF Publish, Message
  <2>2. <<Len(log) + 1>> \in AtMostOne(Message)
    BY <2>1 DEF AtMostOne
  <2>3. log' \in Seq([from : Producer, to : Conn \cup User])
    BY <1>1 DEF Publish
  <2> QED
    BY <1>1, <2>2, <2>3 DEF Publish
<1>2. ASSUME NEW p \in Producer, PutOnBus(p)
      PROVE  TypeOK'
  <2>1. PICK m \in Message : putting[p] = <<m>>
    BY <1>2 DEF PutOnBus, AtMostOne
  <2>2. bus' \in Seq(Message) /\ Len(bus') <= BusCap
    BY <1>2, <2>1, StreamAssumption DEF PutOnBus
  <2>3. <<>> \in AtMostOne(Message)
    BY DEF AtMostOne
  <2> QED
    BY <1>2, <2>2, <2>3 DEF PutOnBus
<1>3. CASE TakeEvent
  <2>1. Head(bus) \in Message /\ Tail(bus) \in Seq(Message) /\ Len(Tail(bus)) = Len(bus) - 1
    BY <1>3, MessagesTail DEF TakeEvent
  <2>2. Len(bus) - 1 <= BusCap
    BY StreamAssumption
  <2> QED
    BY <1>3, <2>1, <2>2 DEF TakeEvent, Targets
<1>4. ASSUME NEW c \in Conn, SkipClosed(c) \/ AwaitRoom(c)
      PROVE  TypeOK'
  BY <1>4 DEF SkipClosed, AwaitRoom, NextTarget
<1>5. ASSUME NEW c \in Conn, Send(c) \/ Heartbeat(c)
      PROVE  TypeOK'
  <2>1. PICK x \in Message \cup {Ping} :
          queue' = [queue EXCEPT ![c] = Append(@, x)] /\ Len(queue[c]) < QueueCap
    <3>1. event \in Message \cup {NoEvent} /\ NoEvent = Ping
      BY DEF NoEvent, Ping
    <3> QED
      BY <1>5, <3>1 DEF Send, Heartbeat
  <2>2. queue' \in [Conn -> Seq(Message \cup {Ping})] /\ \A d \in Conn : Len(queue'[d]) <= QueueCap
    BY <2>1, StreamAssumption
  <2> QED
    BY <1>5, <2>2 DEF Send, Heartbeat, NextTarget
<1>6. ASSUME NEW c \in Conn, Connect(c)
      PROVE  TypeOK'
  BY <1>6 DEF Connect
<1>7. ASSUME NEW c \in Conn, SenderGet(c)
      PROVE  TypeOK'
  <2>1. /\ Head(queue[c]) \in Message \cup {Ping} /\ Tail(queue[c]) \in Seq(Message \cup {Ping})
        /\ Len(Tail(queue[c])) = Len(queue[c]) - 1
    BY <1>7, MessagesTail DEF SenderGet
  <2>2. <<Head(queue[c])>> \in AtMostOne(Message \cup {Ping})
    BY <2>1 DEF AtMostOne
  <2>3. Len(queue[c]) - 1 <= QueueCap
    BY StreamAssumption
  <2> QED
    BY <1>7, <2>1, <2>2, <2>3 DEF SenderGet
<1>8. ASSUME NEW c \in Conn, Sent(c)
      PROVE  TypeOK'
  <2>1. <<>> \in AtMostOne(Message \cup {Ping})
    BY DEF AtMostOne
  <2> QED
    BY <1>8, <2>1, ReceivedIs DEF Sent
<1>9. ASSUME NEW c \in Conn, SendFails(c)
      PROVE  TypeOK'
  BY <1>9, CloseType DEF SendFails, CloseUnlessClosed
<1>10. ASSUME NEW S, RemoveConnections(S)
       PROVE  TypeOK'
  BY <1>10, CloseType DEF RemoveConnections
<1>11. ASSUME NEW c \in Conn, CloseNext(c)
       PROVE  TypeOK'
  BY <1>11, CloseType DEF CloseNext
<1>12. CASE StopPruner \/ StopForwarder \/ StopBus
  BY <1>12 DEF StopPruner, StopForwarder, StopBus
<1>13. CASE UNCHANGED vars
  BY <1>13 DEF vars
<1> QED
  BY <1>1, <1>2, <1>3, <1>4, <1>5, <1>6, <1>7, <1>8, <1>9, <1>10, <1>11, <1>12, <1>13
     DEF Next, Disconnect, Prune, CloseAll
-------------------------------------------------------------------------------
(***************************************************************************)
(* Steps that leave bus and producers alone, and by which for a connection *)
(* d a message is at most delivered or lost.                               *)
(***************************************************************************)
Halting == {"stopping", "stopped"}

Settles(d) ==
    /\ Wait(d)' = Wait(d) /\ Sorted(log, queue'[d])
    /\ \/ Got(d)' = Got(d) /\ Out(d)' = Out(d)
       \/ Got(d)' \in {Got(d), Got(d) \cup Out(d)} /\ Out(d)' = {}
    /\ Current(d)' \subseteq Current(d)
    /\ status[d] # "new" => status'[d] # "new" /\ (d \notin registry => d \notin registry')
    /\ status[d] = "closed" => status'[d] = "closed"
    /\ \A n \in Passed(d) \cup Current(d) : n \in (Passed(d) \cup Current(d))' \/ Cut(d, n)'

\* A step after which, at every connection, messages have only moved on to the client or are cut off (Settles).
LEMMA Settling ==
    ASSUME StreamInv, log' = log, putting' = putting, bus' = bus,
           phase \in Halting => phase' \in Halting, \A d \in Conn : Settles(d)
    PROVE  Published' /\ InOrder' /\ Complete'
<1>1. On' = On /\ Putting' = Putting
  BY DEF On, Putting
<1>2. \A d \in Conn : Passed(d)' \subseteq Passed(d) /\ Current(d)' \subseteq Current(d)
  BY DEF Settles, Passed
<1>3. Published'
  BY <1>1, <1>2 DEF StreamInv, Published
<1>4. InOrder'
  <2>1. Sorted(log, bus)' /\ Precede(log, On, Putting)'
    BY <1>1 DEF StreamInv, InOrder
  <2>2. ASSUME NEW d \in Conn
        PROVE  /\ Sorted(log, queue[d])'
               /\ Precede(log, Got(d), Out(d) \cup Wait(d))'
               /\ Precede(log, Out(d), Wait(d))'
               /\ Precede(log, Passed(d), Coming(d))'
               /\ Precede(log, Current(d), On \cup Putting)'
    <3>1. Settles(d)
      OBVIOUS
    <3>2. /\ Precede(log, Got(d), Out(d) \cup Wait(d)) /\ Precede(log, Out(d), Wait(d))
          /\ Precede(log, Passed(d), Coming(d)) /\ Precede(log, Current(d), On \cup Putting)
      BY DEF StreamInv, InOrder
    <3>3. Precede(log, Got(d), Out(d) \cup Wait(d))' /\ Precede(log, Out(d), Wait(d))'
      BY <3>1, <3>2 DEF Settles, Precede
    <3>4. Coming(d)' \subseteq Coming(d)
      BY <1>1, <1>2 DEF Coming
    <3>5. Precede(log, Passed(d), Coming(d))'
      BY <1>2, <3>2, <3>4 DEF Precede
    <3>6. Precede(log, Current(d), On \cup Putting)'
      BY <1>1, <1>2, <3>2 DEF Precede
    <3> QED
      BY <3>1, <3>3, <3>5, <3>6 DEF Settles
  <2> QED
    BY <2>1, <2>2 DEF InOrder
<1>5. ASSUME NEW n \in DOMAIN log, NEW d \in Conn, log[n].to = d
      PROVE  status'[d] # "new" /\ (n \in (Passed(d) \cup Coming(d))' \/ Cut(d, n)')
  <2>1. /\ status[d] # "new"
        /\ n \in Passed(d) \cup Coming(d) \/ Cut(d, n)
    BY <1>5 DEF StreamInv, Complete
  <2>2. CASE Cut(d, n)
    <3>1. Precede(log, Passed(d) \cup Current(d), {n})
            => Precede(log, Passed(d) \cup Current(d), {n})'
      BY <1>2 DEF Precede
    <3> QED
      BY <2>1, <2>2, <3>1 DEF Cut, Settles, Halting
  <2>3. CASE n \in On \cup Putting
    BY <1>1, <2>1, <2>3 DEF Coming, Settles
  <2>4. CASE n \in Passed(d) \cup Current(d)
    BY <2>1, <2>4 DEF Settles, Coming
  <2> QED
    BY <2>1, <2>2, <2>3, <2>4 DEF Coming
<1>6. Complete'
  BY <1>5 DEF Complete
<1> QED
  BY <1>3, <1>4, <1>6
\* The messages of a connection stay where they are.
LEMMA Unmoved ==
    ASSUME NEW d
    PROVE  /\ delivered'[d] = delivered[d] => Got(d)' = Got(d)
           /\ sending'[d] = sending[d] => Out(d)' = Out(d)
           /\ queue'[d] = queue[d] => Wait(d)' = Wait(d)
           /\ targets' = targets /\ event' = event => Current(d)' = Current(d)
  BY DEF Got, Out, Wait, Current

\* A connection whose messages stay where they are settles.
LEMMA Unsettled ==
    ASSUME StreamInv, NEW d \in Conn, delivered'[d] = delivered[d], sending'[d] = sending[d],
           queue'[d] = queue[d], targets' = targets, event' = event,
           status[d] # "new" => status'[d] # "new" /\ (d \notin registry => d \notin registry'),
           status[d] = "closed" => status'[d] = "closed"
    PROVE  Settles(d)
<1>1. /\ Got(d)' = Got(d) /\ Out(d)' = Out(d) /\ Wait(d)' = Wait(d) /\ Current(d)' = Current(d)
  BY Unmoved
<1>2. (Passed(d) \cup Current(d))' = Passed(d) \cup Current(d)
  BY <1>1 DEF Passed
<1> QED
  BY <1>1, <1>2 DEF Settles, StreamInv, InOrder

ConnectionKept == Managed' /\ Published' /\ InOrder' /\ Complete'

\* Connect, AwaitRoom and the steps of the shutdown that touch no message.
LEMMA QuietStep ==
    ASSUME StreamInv,
           \/ \E c \in Conn : Connect(c) \/ AwaitRoom(c)
           \/ StopPruner \/ StopBus \/ UNCHANGED vars
    PROVE  ConnectionKept
<1> USE DEF producers, forwarder, conns, managers, vars
<1>1. /\ log' = log /\ putting' = putting /\ bus' = bus /\ delivered' = delivered
      /\ sending' = sending /\ queue' = queue /\ targets' = targets /\ event' = event
      /\ phase \in Halting => phase' \in Halting
      /\ phase' \in Halting => phase \in Halting
  BY DEF Connect, AwaitRoom, StopPruner, StopBus, Halting
<1>2. \A d \in Conn :
        /\ status[d] # "new" =>
              status'[d] = status[d] /\ (d \in registry' <=> d \in registry) /\ closing' \subseteq closing
        /\ status[d] = "new" => status'[d] # "closed"
        /\ d \in registry' \cup closing' =>
              d \in registry \cup closing \/ status'[d] # "new"
  BY DEF Connect, AwaitRoom, StopPruner, StopBus, StreamInv, TypeOK
<1>3. \A d \in Conn : Settles(d)
  BY <1>1, <1>2, Unsettled
<1>4. Published' /\ InOrder' /\ Complete'
  BY <1>1, <1>3, Settling
<1>5. Managed'
  BY <1>1, <1>2 DEF StreamInv, Managed, Halting
<1> QED
  BY <1>4, <1>5 DEF ConnectionKept

\* The event is not sent to c any more, which is closed.
LEMMA SkipStep ==
    ASSUME StreamInv, NEW c \in Conn, SkipClosed(c)
    PROVE  ConnectionKept
<1> USE DEF producers, conns, managers, NextTarget
<1>1. /\ log' = log /\ putting' = putting /\ bus' = bus /\ delivered' = delivered
      /\ sending' = sending /\ queue' = queue /\ status' = status /\ registry' = registry
      /\ closing' = closing /\ phase' = phase /\ event' = event
      /\ targets' = targets \ {c} /\ status[c] = "closed" /\ c \in targets
  BY DEF SkipClosed, IsFirst
<1>2. ASSUME NEW d \in Conn
      PROVE  Settles(d)
  <2>1. CASE d = c
    <3>1. Got(d)' = Got(d) /\ Out(d)' = Out(d) /\ Wait(d)' = Wait(d) /\ Current(d)' = {}
      BY <1>1, <2>1, Unmoved DEF Current
    <3>2. \A n : Cut(d, n)'
      BY <1>1, <2>1 DEF Cut
    <3> QED
      BY <1>1, <3>1, <3>2 DEF Settles, StreamInv, InOrder
  <2>2. CASE d # c
    <3>1. Got(d)' = Got(d) /\ Out(d)' = Out(d) /\ Wait(d)' = Wait(d)
      BY <1>1, Unmoved
    <3>2. Current(d)' = Current(d)
      BY <1>1, <2>2 DEF Current
    <3> QED
      BY <1>1, <3>1, <3>2 DEF Settles, Passed, StreamInv, InOrder
  <2> QED
    BY <2>1, <2>2
<1>3. Published' /\ InOrder' /\ Complete'
  BY <1>1, <1>2, Settling
<1>4. Managed'
  BY <1>1 DEF StreamInv, Managed
<1> QED
  BY <1>3, <1>4 DEF ConnectionKept

\* The forwarder is cancelled: its event is lost, but so are all that come after it.
LEMMA StopForwarderStep ==
    ASSUME StreamInv, StopForwarder
    PROVE  ConnectionKept
<1> USE DEF producers, conns, managers
<1>1. /\ log' = log /\ putting' = putting /\ bus' = bus /\ delivered' = delivered
      /\ sending' = sending /\ queue' = queue /\ status' = status /\ registry' = registry
      /\ closing' = closing /\ phase' \in Halting /\ targets' = {}
  BY DEF StopForwarder, Halting
<1>2. ASSUME NEW d \in Conn
      PROVE  Settles(d)
  <2>1. Got(d)' = Got(d) /\ Out(d)' = Out(d) /\ Wait(d)' = Wait(d) /\ Current(d)' = {}
    BY <1>1, Unmoved DEF Current
  <2>2. (Passed(d) \cup Current(d))' = Passed(d)
    BY <2>1 DEF Passed
  <2>3. ASSUME NEW n \in Current(d)
        PROVE  Cut(d, n)'
    <3>1. Precede(log, Passed(d), {n})
      BY DEF StreamInv, InOrder, Precede, Coming
    <3>2. Precede(log, Passed(d) \cup Current(d), {n})'
      BY <1>1, <2>2, <3>1
    <3> QED
      BY <1>1, <3>2 DEF Cut, Halting
  <2> QED
    BY <1>1, <2>1, <2>2, <2>3 DEF Settles, StreamInv, InOrder
<1>3. Published' /\ InOrder' /\ Complete'
  BY <1>1, <1>2, Settling
<1>4. Managed'
  BY <1>1 DEF StreamInv, Managed
<1> QED
  BY <1>3, <1>4 DEF ConnectionKept

\* A heartbeat is not a message.
LEMMA HeartbeatStep ==
    ASSUME StreamInv, NEW c \in Conn, Heartbeat(c)
    PROVE  ConnectionKept
<1> USE DEF producers, forwarder, conns, managers
<1>1. /\ log' = log /\ putting' = putting /\ bus' = bus /\ delivered' = delivered
      /\ sending' = sending /\ status' = status /\ registry' = registry /\ closing' = closing
      /\ phase' = phase /\ targets' = targets /\ event' = event
      /\ queue' = [queue EXCEPT ![c] = Append(@, Ping)]
  BY DEF Heartbeat
<1>2. ASSUME NEW d \in Conn
      PROVE  Settles(d)
  <2>1. Got(d)' = Got(d) /\ Out(d)' = Out(d) /\ Current(d)' = Current(d)
    BY <1>1, Unmoved
  <2>2. Wait(d)' = Wait(d) /\ Sorted(log, queue'[d])
    <3>1. queue[d] \in Seq(Message \cup {Ping}) /\ Sorted(log, queue[d])
      BY DEF StreamInv, TypeOK, InOrder
    <3>2. /\ Messages(Append(queue[d], Ping)) = Messages(queue[d])
          /\ Sorted(log, Append(queue[d], Ping))
      <4>1. Messages(Append(queue[d], Ping)) = Messages(queue[d]) \cup ({Ping} \ {Ping})
        BY <3>1, MessagesAppend
      <4>2. Precede(log, Messages(queue[d]), {Ping} \ {Ping})
        BY DEF Precede
      <4> QED
        BY <3>1, <4>1, <4>2, SortedAppend
    <3>3. queue'[d] \in {queue[d], Append(queue[d], Ping)}
      BY <1>1 DEF StreamInv, TypeOK
    <3> QED
      BY <3>1, <3>2, <3>3 DEF Wait
  <2> QED
    BY <1>1, <2>1, <2>2 DEF Settles, Passed
<1>3. Published' /\ InOrder' /\ Complete'
  BY <1>1, <1>2, Settling
<1>4. Managed'
  BY <1>1 DEF StreamInv, Managed
<1> QED
  BY <1>3, <1>4 DEF ConnectionKept

\* A manager is closed, which may be registered or not.
LEMMA CloseSettles ==
    ASSUME StreamInv, NEW c \in Conn, CloseUnlessClosed(c), UNCHANGED <<targets, event>>,
           registry' \subseteq registry
    PROVE  /\ \A d \in Conn : Settles(d)
           /\ \A d \in Conn : status[d] # "new" => status'[d] # "new"
           /\ \A d \in Conn : status'[d] = "closed" => sending'[d] = <<>>
<1>1. CASE Close(c)
  <2>1. /\ status' = [status EXCEPT ![c] = "closed"] /\ status[c] = "open"
        /\ sending' = [sending EXCEPT ![c] = <<>>] /\ queue' = queue
        /\ delivered' \in {delivered, Received(c)}
    BY <1>1 DEF Close
  <2>2. ASSUME NEW d \in Conn
        PROVE  /\ Settles(d)
               /\ status[d] # "new" => status'[d] # "new"
               /\ status'[d] = "closed" => sending'[d] = <<>>
    <3>1. CASE d = c
      <4>1. status'[d] = "closed" /\ sending'[d] = <<>>
        BY <2>1, <3>1 DEF StreamInv, TypeOK
      <4>2. Out(d)' = {} /\ Wait(d)' = Wait(d) /\ Current(d)' = Current(d)
        BY <2>1, <4>1, Unmoved DEF Out, Messages
      <4>3. Got(d)' \in {Got(d), Got(d) \cup Out(d)}
        BY <2>1, <3>1, ReceivedIs DEF StreamInv, Got
      <4>4. \A n : Cut(d, n)'
        BY <4>1 DEF Cut
      <4> QED
        BY <2>1, <4>1, <4>2, <4>3, <4>4 DEF Settles, StreamInv, InOrder
    <3>2. CASE d # c
      <4>1. /\ status'[d] = status[d] /\ sending'[d] = sending[d] /\ queue'[d] = queue[d]
            /\ delivered'[d] = delivered[d]
        BY <2>1, <3>2, ReceivedIs DEF StreamInv, TypeOK
      <4> QED
        BY <4>1, Unsettled DEF StreamInv, Managed
    <3> QED
      BY <3>1, <3>2
  <2> HIDE DEF Settles
  <2> QED
    BY <2>2
<1>2. CASE status[c] = "closed" /\ UNCHANGED managers
  <2>1. status' = status /\ queue' = queue /\ sending' = sending /\ delivered' = delivered
    BY <1>2 DEF managers
  <2>2. ASSUME NEW d \in Conn
        PROVE  Settles(d)
    <3>1. /\ status'[d] = status[d] /\ queue'[d] = queue[d] /\ sending'[d] = sending[d]
          /\ delivered'[d] = delivered[d] /\ (d \notin registry => d \notin registry')
      BY <2>1
    <3> QED
      BY <3>1, Unsettled
  <2> QED
    BY <2>1, <2>2 DEF StreamInv, Managed
<1> QED
  BY <1>1, <1>2 DEF CloseUnlessClosed

\* A close: the queue is abandoned, and the connection is cut off.
LEMMA CloseStep ==
    ASSUME StreamInv,
           \/ \E c \in Conn : SendFails(c) \/ CloseNext(c)
           \/ \E S \in SUBSET Conn : RemoveConnections(S)
    PROVE  ConnectionKept
<1> USE DEF producers, forwarder, conns
<1>1. PICK c \in Conn :
        /\ CloseUnlessClosed(c) /\ UNCHANGED <<targets, event>>
        /\ registry' \subseteq registry /\ closing' \subseteq closing \cup registry
        /\ log' = log /\ putting' = putting /\ bus' = bus /\ phase' = phase
  BY DEF SendFails, CloseNext, RemoveConnections, CloseUnlessClosed
<1>2. /\ \A d \in Conn : Settles(d)
      /\ \A d \in Conn : status[d] # "new" => status'[d] # "new"
      /\ \A d \in Conn : status'[d] = "closed" => sending'[d] = <<>>
  BY <1>1, CloseSettles
<1>3. Published' /\ InOrder' /\ Complete'
  BY <1>1, <1>2, Settling
<1>4. Managed'
  BY <1>1, <1>2 DEF StreamInv, Managed
<1> QED
  BY <1>3, <1>4 DEF ConnectionKept

\* send_json has written the message.
LEMMA SentStep ==
    ASSUME StreamInv, NEW c \in Conn, Sent(c)
    PROVE  ConnectionKept
<1> USE DEF producers, forwarder, conns
<1>1. /\ log' = log /\ putting' = putting /\ bus' = bus /\ phase' = phase
      /\ targets' = targets /\ event' = event /\ registry' = registry /\ closing' = closing
      /\ status' = status /\ queue' = queue /\ delivered' = Received(c)
      /\ sending' = [sending EXCEPT ![c] = <<>>]
  BY DEF Sent
<1>2. ASSUME NEW d \in Conn
      PROVE  Settles(d)
  <2>1. CASE d = c
    <3>1. sending'[d] = <<>>
      BY <1>1, <2>1 DEF StreamInv, TypeOK
    <3>2. Out(d)' = {} /\ Wait(d)' = Wait(d) /\ Current(d)' = Current(d)
      BY <1>1, <3>1, Unmoved DEF Out, Messages
    <3>3. Got(d)' = Got(d) \cup Out(d)
      BY <1>1, <2>1, ReceivedIs DEF StreamInv, Got
    <3>4. Passed(d)' = Passed(d)
      BY <3>2, <3>3 DEF Passed
    <3> QED
      BY <1>1, <3>2, <3>3, <3>4 DEF Settles, StreamInv, InOrder
  <2>2. CASE d # c
    <3>1. delivered'[d] = delivered[d] /\ sending'[d] = sending[d]
      BY <1>1, <2>2, ReceivedIs DEF StreamInv, TypeOK
    <3> QED
      BY <1>1, <3>1, Unsettled
  <2> QED
    BY <2>1, <2>2
<1>3. Published' /\ InOrder' /\ Complete'
  BY <1>1, <1>2, Settling
<1>4. Managed'
  BY <1>1 DEF StreamInv, Managed, TypeOK
<1> QED
  BY <1>3, <1>4 DEF ConnectionKept
-------------------------------------------------------------------------------
(***************************************************************************)
(* The way of a message: published, put on the bus, taken by the           *)
(* forwarder, put into a manager's queue, taken by its sender.             *)
(***************************************************************************)
\* Only what has been published is anywhere.
LEMMA AllPublished ==
    ASSUME Published, NEW c \in Conn
    PROVE  /\ On \cup Putting \subseteq DOMAIN log
           /\ Passed(c) \cup Current(c) \cup Coming(c) \subseteq DOMAIN log
           /\ Got(c) \subseteq Passed(c) /\ Out(c) \subseteq Passed(c) /\ Wait(c) \subseteq Passed(c)
  BY DEF Published, Passed, Coming

\* Order, part by part.
LEMMA PrecedeUnion ==
    ASSUME NEW L, NEW S, NEW T, NEW S2, NEW T2
    PROVE  /\ Precede(L, S, T) /\ Precede(L, S, T2) => Precede(L, S, T \cup T2)
           /\ Precede(L, S, T) /\ Precede(L, S2, T) => Precede(L, S \cup S2, T)
           /\ Precede(L, S, T) /\ S2 \subseteq S /\ T2 \subseteq T => Precede(L, S2, T2)
  BY DEF Precede

\* A publish call: the latest message of all, and its producer had none on the way.
LEMMA PublishStep ==
    ASSUME StreamInv, NEW p \in Producer, Publish(p)
    PROVE  ConnectionKept
<1> USE DEF forwarder, conns, managers
<1> DEFINE k == Len(log) + 1
<1>1. PICK to \in {c \in Conn : status[c] # "new"} \cup User :
        log' = Append(log, [from |-> p, to |-> to])
  BY DEF Publish
<1> DEFINE r == [from |-> p, to |-> to]
<1>2. /\ putting[p] = <<>> /\ putting' = [putting EXCEPT ![p] = <<k>>]
      /\ bus' = bus /\ delivered' = delivered /\ sending' = sending /\ queue' = queue
      /\ targets' = targets /\ event' = event /\ status' = status /\ registry' = registry
      /\ closing' = closing /\ phase' = phase
  BY DEF Publish
<1>3. log \in Seq([from : Producer, to : Conn \cup User]) /\ putting \in [Producer -> AtMostOne(Message)]
  BY DEF StreamInv, TypeOK
<1>4. /\ DOMAIN log' = DOMAIN log \cup {k} /\ k \notin DOMAIN log
      /\ \A m \in DOMAIN log : log'[m] = log[m]
      /\ log'[k] = r /\ r.from = p /\ r.to = to /\ k # Ping
      /\ \A S, T \in SUBSET DOMAIN log : Precede(log, S, T) => Precede(log', S, T)
      /\ \A S \in SUBSET DOMAIN log : Precede(log', S, {k})
      /\ \A s : Messages(s) \subseteq DOMAIN log /\ Sorted(log, s) => Sorted(log', s)
  <2>1. k # Ping
    BY <1>3 DEF Ping
  <2>2. r.from = p /\ r.to = to
    OBVIOUS
  <2>3. log' = Append(log, r)
    BY <1>1
  <2> HIDE DEF r
  <2>4. /\ DOMAIN log' = DOMAIN log \cup {k} /\ k \notin DOMAIN log
        /\ \A m \in DOMAIN log : log'[m] = log[m]
        /\ log'[k] = r
    BY <1>3, <2>3, LongerLog
  <2>5. /\ \A S, T \in SUBSET DOMAIN log : Precede(log, S, T) => Precede(log', S, T)
        /\ \A S \in SUBSET DOMAIN log : Precede(log', S, {k})
        /\ \A s : Messages(s) \subseteq DOMAIN log /\ Sorted(log, s) => Sorted(log', s)
    BY <1>3, <2>3, LongerLog
  <2> QED
    BY <2>1, <2>2, <2>4, <2>5
<1> HIDE DEF k, r
<1>5. /\ Messages(putting'[p]) = {k}
      /\ \A q \in Producer \ {p} : putting'[q] = putting[q]
      /\ Putting' = Putting \cup {k}
  <2>1. Messages(<<k>>) = {k} /\ Messages(<<>>) = {}
    BY <1>4 DEF Messages
  <2>2. putting'[p] = <<k>> /\ \A q \in Producer \ {p} : putting'[q] = putting[q]
    BY <1>2, <1>3
  <2> QED
    BY <1>2, <2>1, <2>2 DEF Putting
<1>6. On' = On /\ \A c \in Conn :
        /\ Got(c)' = Got(c) /\ Out(c)' = Out(c) /\ Wait(c)' = Wait(c) /\ Current(c)' = Current(c)
        /\ Passed(c)' = Passed(c) /\ Coming(c)' = Coming(c) \cup {k}
  <2>1. On' = On /\ \A c \in Conn :
        /\ Got(c)' = Got(c) /\ Out(c)' = Out(c) /\ Wait(c)' = Wait(c) /\ Current(c)' = Current(c)
    BY <1>2 DEF On, Got, Out, Wait, Current
  <2> QED
    BY <1>5, <2>1 DEF Passed, Coming
<1>7. Published'
  <2>1. On' \cup Putting' \subseteq DOMAIN log'
    BY <1>4, <1>5, <1>6 DEF StreamInv, Published
  <2>2. ASSUME NEW q \in Producer, NEW m \in Messages(putting'[q])
        PROVE  log'[m].from = q
    <3>1. CASE q = p
      BY <1>4, <1>5, <3>1
    <3>2. CASE q # p
      <4>1. m \in Messages(putting[q])
        BY <1>5, <3>2
      <4>2. m \in DOMAIN log /\ log[m].from = q
        BY <4>1 DEF StreamInv, Published, Putting
      <4> QED
        BY <1>4, <4>2
    <3> QED
      BY <3>1, <3>2
  <2>3. \A c \in Conn : \A m \in Passed(c)' \cup Current(c)' :
          m \in DOMAIN log' /\ log'[m].to \in {c, Owner[c]}
    BY <1>4, <1>6 DEF StreamInv, Published
  <2> QED
    BY <2>1, <2>2, <2>3 DEF Published
<1>8. InOrder'
  <2>1. Sorted(log', bus') /\ Precede(log', On', Putting')
    <3>1. Sorted(log, bus) /\ Precede(log, On, Putting) /\ Messages(bus) \subseteq DOMAIN log
          /\ On \subseteq DOMAIN log /\ Putting \subseteq DOMAIN log
      BY DEF StreamInv, InOrder, Published, On
    <3> QED
      BY <1>2, <1>4, <1>5, <1>6, <3>1, PrecedeUnion
  <2>2. ASSUME NEW c \in Conn
        PROVE  /\ Sorted(log, queue[c])'
               /\ Precede(log, Got(c), Out(c) \cup Wait(c))'
               /\ Precede(log, Out(c), Wait(c))'
               /\ Precede(log, Passed(c), Coming(c))'
               /\ Precede(log, Current(c), On \cup Putting)'
    <3>1. /\ Sorted(log, queue[c]) /\ Precede(log, Got(c), Out(c) \cup Wait(c))
          /\ Precede(log, Out(c), Wait(c)) /\ Precede(log, Passed(c), Coming(c))
          /\ Precede(log, Current(c), On \cup Putting)
      BY DEF StreamInv, InOrder
    <3>2. /\ On \cup Putting \subseteq DOMAIN log
          /\ Passed(c) \subseteq DOMAIN log /\ Current(c) \subseteq DOMAIN log
          /\ Coming(c) \subseteq DOMAIN log /\ Got(c) \subseteq DOMAIN log
          /\ Out(c) \subseteq DOMAIN log /\ Wait(c) \subseteq DOMAIN log
      BY AllPublished DEF StreamInv
    <3>3. Sorted(log', queue'[c])
      BY <1>2, <1>4, <3>1, <3>2 DEF Wait
    <3>4. Precede(log', Got(c), Out(c) \cup Wait(c)) /\ Precede(log', Out(c), Wait(c))
      BY <1>4, <3>1, <3>2
    <3>5. Precede(log', Passed(c), Coming(c) \cup {k})
      BY <1>4, <3>1, <3>2, PrecedeUnion
    <3>6. Precede(log', Current(c), On \cup Putting \cup {k})
      BY <1>4, <3>1, <3>2, PrecedeUnion
    <3>7. On' \cup Putting' = On \cup Putting \cup {k}
      BY <1>5, <1>6
    <3> QED
      BY <1>6, <3>3, <3>4, <3>5, <3>6, <3>7
  <2> QED
    BY <2>1, <2>2 DEF InOrder
<1>9. Complete'
  <2>1. ASSUME NEW n \in DOMAIN log', NEW c \in Conn, log'[n].to = c
        PROVE  status'[c] # "new" /\ (n \in Passed(c)' \cup Coming(c)' \/ Cut(c, n)')
    <3>1. CASE n = k
      <4>1. c \in Conn /\ c \notin User /\ c = to
        BY <1>4, <2>1, <3>1, StreamAssumption
      <4> QED
        BY <1>2, <1>6, <3>1, <4>1
    <3>2. CASE n # k
      <4>1. n \in DOMAIN log /\ log[n].to = c
        BY <1>4, <2>1, <3>2
      <4>2. status[c] # "new" /\ (n \in Passed(c) \cup Coming(c) \/ Cut(c, n))
        BY <4>1 DEF StreamInv, Complete
      <4>3. Precede(log, Passed(c) \cup Current(c), {n}) => Precede(log', Passed(c) \cup Current(c), {n})
        <5>1. Passed(c) \cup Current(c) \in SUBSET DOMAIN log /\ {n} \in SUBSET DOMAIN log
          BY <4>1, AllPublished DEF StreamInv
        <5> QED
          BY <1>4, <5>1
      <4>4. Cut(c, n) => Cut(c, n)'
        BY <1>2, <1>6, <4>3 DEF Cut
      <4> QED
        BY <1>2, <1>6, <4>2, <4>4
    <3> QED
      BY <3>1, <3>2
  <2> QED
    BY <2>1 DEF Complete
<1>10. Managed'
  BY <1>2 DEF StreamInv, Managed
<1> QED
  BY <1>7, <1>8, <1>9, <1>10 DEF ConnectionKept

\* Of two producers' messages neither has to be first.
LEMMA PutOnBusStep ==
    ASSUME StreamInv, NEW p \in Producer, PutOnBus(p)
    PROVE  ConnectionKept
<1> USE DEF forwarder, conns, managers
<1>1. /\ log' = log /\ bus' = bus \o putting[p] /\ putting' = [putting EXCEPT ![p] = <<>>]
      /\ delivered' = delivered /\ sending' = sending /\ queue' = queue
      /\ targets' = targets /\ event' = event /\ status' = status /\ registry' = registry
      /\ closing' = closing /\ phase' = phase /\ putting[p] # <<>>
  BY DEF PutOnBus
<1>2. putting \in [Producer -> AtMostOne(Message)] /\ bus \in Seq(Message)
  BY DEF StreamInv, TypeOK
<1>3. PICK m \in Message : putting[p] = <<m>>
  BY <1>1, <1>2 DEF AtMostOne
<1>4. m # Ping /\ bus' = Append(bus, m)
  BY <1>1, <1>2, <1>3 DEF Message, Ping
<1>5. Messages(<<m>>) = {m} /\ Messages(<<>>) = {}
  BY <1>4 DEF Messages
<1>6. On' = On \cup {m}
  <2>1. Messages(Append(bus, m)) = Messages(bus) \cup {m}
    BY <1>2, <1>4, MessagesAppend
  <2> QED
    BY <1>4, <2>1 DEF On
<1>7. /\ putting'[p] = <<>> /\ \A q \in Producer \ {p} : putting'[q] = putting[q]
      /\ Messages(putting[p]) = {m} /\ Messages(putting'[p]) = {}
  BY <1>1, <1>2, <1>3, <1>5
<1>8. Putting = Putting' \cup {m} /\ m \in Putting /\ m \in DOMAIN log /\ log[m].from = p
  <2>1. Putting = Putting' \cup {m}
    BY <1>7 DEF Putting
  <2> QED
    BY <1>7, <2>1 DEF StreamInv, Published
<1>9. \A c \in Conn :
        /\ Got(c)' = Got(c) /\ Out(c)' = Out(c) /\ Wait(c)' = Wait(c) /\ Current(c)' = Current(c)
        /\ Passed(c)' = Passed(c) /\ Coming(c)' = Coming(c)
        /\ (On \cup Putting)' = On \cup Putting
  <2>1. \A c \in Conn :
        /\ Got(c)' = Got(c) /\ Out(c)' = Out(c) /\ Wait(c)' = Wait(c) /\ Current(c)' = Current(c)
    BY <1>1 DEF Got, Out, Wait, Current
  <2> QED
    BY <1>6, <1>8, <2>1 DEF Passed, Coming
<1>10. Published'
  <2>1. \A q \in Producer : \A n \in Messages(putting'[q]) : n \in Messages(putting[q])
    BY <1>7
  <2>2. (On \cup Putting)' = On \cup Putting
    BY <1>6, <1>8
  <2> QED
    BY <1>1, <1>9, <2>1, <2>2 DEF StreamInv, Published
<1>11. InOrder'
  <2>1. Sorted(log, bus) /\ Precede(log, On, Putting)
    BY DEF StreamInv, InOrder
  <2>2. Sorted(log, bus')
    <3>1. Precede(log, Messages(bus), {m} \ {Ping})
      BY <1>8, <2>1 DEF Precede, On
    <3> QED
      BY <1>2, <1>4, <2>1, <3>1, SortedAppend
  <2>3. Precede(log, On', Putting')
    <3>1. ASSUME NEW n \in Putting'
          PROVE  log[n].from # p
      <4>1. PICK q \in Producer : n \in Messages(putting'[q])
        BY DEF Putting
      <4>2. q # p /\ n \in Messages(putting[q])
        BY <1>7, <4>1
      <4> QED
        BY <4>2 DEF StreamInv, Published
    <3>2. Precede(log, {m}, Putting')
      BY <1>8, <3>1 DEF Precede
    <3>3. Precede(log, On, Putting')
      BY <1>8, <2>1 DEF Precede
    <3> QED
      BY <1>6, <3>2, <3>3, PrecedeUnion
  <2> QED
    BY <1>1, <1>9, <2>2, <2>3 DEF StreamInv, InOrder
<1>12. Complete'
  BY <1>1, <1>9 DEF StreamInv, Complete, Cut
<1>13. Managed'
  BY <1>1 DEF StreamInv, Managed
<1> QED
  BY <1>10, <1>11, <1>12, <1>13 DEF ConnectionKept

\* A connection that is not registered when the event is taken will not get it, but then
\* it will get none of those that follow.
LEMMA TakeEventStep ==
    ASSUME StreamInv, TakeEvent
    PROVE  ConnectionKept
<1> USE DEF producers, conns, managers
<1> DEFINE h == Head(bus)
<1>1. /\ log' = log /\ putting' = putting /\ bus' = Tail(bus) /\ bus # <<>>
      /\ delivered' = delivered /\ sending' = sending /\ queue' = queue
      /\ targets = {} /\ targets' = Targets(h) /\ event' = h
      /\ status' = status /\ registry' = registry
      /\ closing' = closing /\ phase' = phase /\ phase \in {"run", "draining"}
  BY DEF TakeEvent
<1>2. bus \in Seq(Message) /\ Sorted(log, bus) /\ Precede(log, On, Putting)
  BY DEF StreamInv, TypeOK, InOrder
<1>3. h \in Message /\ h # Ping /\ {h} \ {Ping} = {h}
  <2>1. h \in Message
    BY <1>1, <1>2, MessagesTail
  <2> QED
    BY <2>1 DEF Message, Ping
<1>4. On = On' \cup {h}
  BY <1>1, <1>2, <1>3, MessagesTail DEF On
<1>5. Sorted(log, bus') /\ Precede(log, {h}, On')
  BY <1>1, <1>2, <1>3, SortedTail DEF On
<1> HIDE DEF h
<1>6. Putting' = Putting
  BY <1>1 DEF Putting
<1>7. Precede(log, {h}, On' \cup Putting') /\ Precede(log, On', Putting')
  <2>1. Precede(log, {h}, Putting) /\ Precede(log, On', Putting)
    BY <1>2, <1>4 DEF Precede
  <2> QED
    BY <1>5, <1>6, <2>1, PrecedeUnion
<1>8. \A c \in Conn :
        /\ Passed(c)' = Passed(c) /\ Got(c)' = Got(c) /\ Out(c)' = Out(c) /\ Wait(c)' = Wait(c)
        /\ Current(c) = {} /\ Current(c)' = IF c \in Targets(h) THEN {h} ELSE {}
        /\ Coming(c)' \subseteq Coming(c)
  <2>1. \A c \in Conn :
        /\ Got(c)' = Got(c) /\ Out(c)' = Out(c) /\ Wait(c)' = Wait(c)
        /\ Current(c) = {} /\ Current(c)' = IF c \in Targets(h) THEN {h} ELSE {}
    BY <1>1 DEF Got, Out, Wait, Current
  <2> QED
    BY <1>4, <1>6, <2>1 DEF Passed, Coming
<1>9. Published'
  <2>1. h \in DOMAIN log /\ (On \cup Putting)' \subseteq DOMAIN log
    BY <1>4, <1>6 DEF StreamInv, Published
  <2>2. \A c \in Targets(h) : log[h].to \in {c, Owner[c]}
    BY DEF Targets
  <2> QED
    BY <1>1, <1>8, <2>1, <2>2 DEF StreamInv, Published
<1>10. InOrder'
  <2>1. ASSUME NEW c \in Conn
        PROVE  /\ Sorted(log, queue[c])'
               /\ Precede(log, Got(c), Out(c) \cup Wait(c))'
               /\ Precede(log, Out(c), Wait(c))'
               /\ Precede(log, Passed(c), Coming(c))'
               /\ Precede(log, Current(c), On \cup Putting)'
    <3>1. /\ Sorted(log, queue[c]) /\ Precede(log, Got(c), Out(c) \cup Wait(c))
          /\ Precede(log, Out(c), Wait(c)) /\ Precede(log, Passed(c), Coming(c))
      BY DEF StreamInv, InOrder
    <3>2. Precede(log, Passed(c), Coming(c))'
      BY <1>1, <1>8, <3>1 DEF Precede
    <3>3. Precede(log, Current(c), On \cup Putting)'
      BY <1>1, <1>7, <1>8 DEF Precede
    <3>4. Sorted(log, queue[c])' /\ Precede(log, Got(c), Out(c) \cup Wait(c))'
          /\ Precede(log, Out(c), Wait(c))'
      BY <1>1, <1>8, <3>1
    <3> QED
      BY <3>2, <3>3, <3>4
  <2> QED
    BY <1>1, <1>5, <1>7, <2>1 DEF InOrder
<1>11. Complete'
  <2>1. ASSUME NEW n \in DOMAIN log, NEW c \in Conn, log[n].to = c
        PROVE  status[c] # "new" /\ (n \in (Passed(c) \cup Coming(c))' \/ Cut(c, n)')
    <3>1. status[c] # "new" /\ (n \in Passed(c) \cup Coming(c) \/ Cut(c, n))
      BY <2>1 DEF StreamInv, Complete
    <3>2. c \notin registry => Current(c)' = {}
      BY <1>8 DEF Targets
    <3>3. (Passed(c) \cup Current(c))' = Passed(c) \cup Current(c)'
      BY <1>8
    <3>4. CASE Cut(c, n)
      BY <1>1, <1>8, <3>1, <3>2, <3>3, <3>4 DEF Cut
    <3>5. CASE n = h
      <4>1. CASE c \in registry
        <5>1. c \in Targets(h)
          BY <2>1, <3>5, <4>1 DEF Targets
        <5> QED
          BY <1>8, <3>1, <3>5, <5>1 DEF Coming
      <4>2. CASE c \notin registry
        <5>1. Precede(log, Passed(c), {n})
          BY <1>4, <3>5 DEF StreamInv, InOrder, Precede, Coming
        <5> QED
          BY <1>1, <1>8, <3>1, <3>2, <4>2, <5>1 DEF Cut
      <4> QED
        BY <4>1, <4>2
    <3>6. CASE n \in Passed(c) \cup On' \cup Putting'
      BY <1>8, <3>1, <3>6 DEF Coming
    <3> QED
      BY <1>4, <1>6, <1>8, <3>1, <3>4, <3>5, <3>6 DEF Coming
  <2> QED
    BY <1>1, <2>1 DEF Complete
<1>12. Managed'
  <2>1. Targets(h) \subseteq registry
    BY DEF Targets
  <2> QED
    BY <1>1, <2>1 DEF StreamInv, Managed
<1> QED
  BY <1>9, <1>10, <1>11, <1>12 DEF ConnectionKept

\* The forwarder hands its event to a connection's queue.
LEMMA SendStep ==
    ASSUME StreamInv, NEW c \in Conn, Send(c)
    PROVE  ConnectionKept
<1> USE DEF producers, conns, managers
<1>1. /\ log' = log /\ putting' = putting /\ bus' = bus /\ event' = event
      /\ delivered' = delivered /\ sending' = sending
      /\ queue' = [queue EXCEPT ![c] = Append(@, event)]
      /\ c \in targets /\ targets' = targets \ {c}
      /\ status' = status /\ registry' = registry /\ closing' = closing /\ phase' = phase
  BY DEF Send, NextTarget, IsFirst
<1>2. On' = On /\ Putting' = Putting
  BY <1>1 DEF On, Putting
<1>3. /\ queue \in [Conn -> Seq(Message \cup {Ping})] /\ queue[c] \in Seq(Message \cup {Ping})
      /\ log \in Seq([from : Producer, to : Conn \cup User])
  BY DEF StreamInv, TypeOK
<1>4. Current(c) = {event} /\ Current(c)' = {}
  BY <1>1 DEF Current
<1>5. event \in DOMAIN log /\ {event} \ {Ping} = {event}
  BY <1>3, <1>4 DEF StreamInv, Published, Ping
<1>6. /\ queue'[c] = Append(queue[c], event)
      /\ \A d \in Conn \ {c} : queue'[d] = queue[d]
      /\ Wait(c)' = Wait(c) \cup {event}
  <2>1. /\ queue'[c] = Append(queue[c], event)
        /\ \A d \in Conn \ {c} : queue'[d] = queue[d]
    BY <1>1, <1>3
  <2>2. Messages(Append(queue[c], event)) = Messages(queue[c]) \cup {event}
    BY <1>3, <1>5, MessagesAppend
  <2> QED
    BY <2>1, <2>2 DEF Wait
<1>7. /\ \A d \in Conn : Got(d)' = Got(d) /\ Out(d)' = Out(d)
      /\ \A d \in Conn \ {c} : Wait(d)' = Wait(d) /\ Current(d)' = Current(d)
  BY <1>1, <1>6 DEF Got, Out, Wait, Current
<1>8. /\ Passed(c)' = Passed(c) \cup {event} /\ Coming(c)' \subseteq Coming(c)
      /\ Coming(c)' = On \cup Putting
      /\ \A d \in Conn \ {c} : Passed(d)' = Passed(d) /\ Coming(d)' = Coming(d)
      /\ \A d \in Conn : (Passed(d) \cup Current(d))' = Passed(d) \cup Current(d)
  BY <1>2, <1>4, <1>6, <1>7 DEF Passed, Coming
<1>9. Published'
  BY <1>1, <1>2, <1>8 DEF StreamInv, Published
<1>10. InOrder'
  <2>1. ASSUME NEW d \in Conn
        PROVE  /\ Sorted(log, queue[d])'
               /\ Precede(log, Got(d), Out(d) \cup Wait(d))'
               /\ Precede(log, Out(d), Wait(d))'
               /\ Precede(log, Passed(d), Coming(d))'
               /\ Precede(log, Current(d), On \cup Putting)'
    <3>1. /\ Sorted(log, queue[d]) /\ Precede(log, Got(d), Out(d) \cup Wait(d))
          /\ Precede(log, Out(d), Wait(d)) /\ Precede(log, Passed(d), Coming(d))
          /\ Precede(log, Current(d), On \cup Putting)
      BY DEF StreamInv, InOrder
    <3>2. CASE d = c
      <4>1. /\ queue'[d] = Append(queue[d], event) /\ queue[d] \in Seq(Message \cup {Ping})
            /\ Messages(Append(queue[d], event)) = Messages(queue[d]) \cup {event}
        <5>1. queue'[d] = Append(queue[d], event) /\ queue[d] \in Seq(Message \cup {Ping})
          BY <1>3, <1>6, <3>2
        <5>2. Messages(Append(queue[d], event)) = Messages(queue[d]) \cup ({event} \ {Ping})
          BY <5>1, MessagesAppend
        <5> QED
          BY <1>5, <5>1, <5>2
      <4>2. /\ Got(d)' = Got(d) /\ Out(d)' = Out(d) /\ Wait(d)' = Wait(d) \cup {event}
            /\ Current(d) = {event} /\ Current(d)' = {}
        BY <1>1, <3>2, <4>1 DEF Got, Out, Wait, Current
      <4>3. Passed(d)' = Passed(d) \cup {event} /\ Coming(d)' = On \cup Putting
        BY <1>2, <4>2 DEF Passed, Coming
      <4>4. event \in Coming(d)
        BY <4>2 DEF Coming
      <4>5. Precede(log, Passed(d), {event}) /\ Precede(log, Got(d), {event})
            /\ Precede(log, Out(d), {event}) /\ Precede(log, Messages(queue[d]), {event})
        BY <3>1, <4>4 DEF Precede, Passed, Wait
      <4>6. Sorted(log, queue'[d])
        BY <1>5, <3>1, <4>1, <4>5, SortedAppend
      <4>7. Precede(log, Out(d), Wait(d) \cup {event})
        BY <3>1, <4>5, PrecedeUnion
      <4>8. Precede(log, Got(d), Out(d) \cup (Wait(d) \cup {event}))
        <5>1. Precede(log, Got(d), (Out(d) \cup Wait(d)) \cup {event})
          BY <3>1, <4>5, PrecedeUnion
        <5> QED
          BY <5>1 DEF Precede
      <4>9. Precede(log, Passed(d) \cup {event}, On \cup Putting)
        <5>1. Precede(log, Passed(d), On \cup Putting)
          BY <3>1 DEF Precede, Coming
        <5>2. Precede(log, {event}, On \cup Putting)
          BY <3>1, <4>2
        <5> QED
          BY <5>1, <5>2, PrecedeUnion
      <4>10. Precede(log, {}, On' \cup Putting')
        BY DEF Precede
      <4> QED
        BY <1>1, <4>2, <4>3, <4>6, <4>7, <4>8, <4>9, <4>10
    <3>3. CASE d # c
      <4>1. /\ queue'[d] = queue[d] /\ Got(d)' = Got(d) /\ Out(d)' = Out(d) /\ Wait(d)' = Wait(d)
            /\ Current(d)' = Current(d) /\ Passed(d)' = Passed(d) /\ Coming(d)' = Coming(d)
        BY <1>6, <1>7, <1>8, <3>3
      <4> QED
        BY <1>1, <1>2, <3>1, <4>1
    <3> QED
      BY <3>2, <3>3
  <2> QED
    BY <1>1, <1>2, <2>1 DEF StreamInv, InOrder
<1>11. Complete'
  <2>1. \A n, d : d \in Conn /\ Cut(d, n) => Cut(d, n)'
    BY <1>1, <1>8 DEF Cut
  <2>2. \A d \in Conn : (Passed(d) \cup Coming(d))' = Passed(d) \cup Coming(d)
    BY <1>2, <1>8 DEF Coming
  <2> QED
    BY <1>1, <2>1, <2>2 DEF StreamInv, Complete
<1>12. Managed'
  BY <1>1 DEF StreamInv, Managed
<1> QED
  BY <1>9, <1>10, <1>11, <1>12 DEF ConnectionKept

\* The sender takes the first message of its queue.
LEMMA SenderGetStep ==
    ASSUME StreamInv, NEW c \in Conn, SenderGet(c)
    PROVE  ConnectionKept
<1> USE DEF producers, forwarder, conns
<1> DEFINE h == Head(queue[c])
<1>1. /\ log' = log /\ putting' = putting /\ bus' = bus /\ event' = event /\ targets' = targets
      /\ delivered' = delivered /\ sending' = [sending EXCEPT ![c] = <<h>>]
      /\ queue' = [queue EXCEPT ![c] = Tail(@)]
      /\ status[c] = "open" /\ sending[c] = <<>> /\ queue[c] # <<>>
      /\ status' = status /\ registry' = registry /\ closing' = closing /\ phase' = phase
  BY DEF SenderGet
<1>2. /\ queue \in [Conn -> Seq(Message \cup {Ping})] /\ queue[c] \in Seq(Message \cup {Ping})
      /\ sending \in [Conn -> AtMostOne(Message \cup {Ping})]
      /\ Sorted(log, queue[c])
  BY DEF StreamInv, TypeOK, InOrder
<1>3. /\ queue'[c] = Tail(queue[c]) /\ sending'[c] = <<h>>
      /\ \A d \in Conn \ {c} : queue'[d] = queue[d] /\ sending'[d] = sending[d]
  BY <1>1, <1>2
<1>4. Wait(c) = Wait(c)' \cup ({h} \ {Ping})
  BY <1>1, <1>2, <1>3, MessagesTail DEF Wait
<1>5. Sorted(log, queue'[c]) /\ Precede(log, {h} \ {Ping}, Wait(c)')
  BY <1>1, <1>2, <1>3, SortedTail DEF Wait
<1> HIDE DEF h
<1>6. Out(c) = {} /\ Out(c)' = {h} \ {Ping}
  BY <1>1, <1>3 DEF Out, Messages
<1>7. /\ On' = On /\ Putting' = Putting
      /\ \A d \in Conn : Got(d)' = Got(d) /\ Current(d)' = Current(d)
      /\ \A d \in Conn \ {c} : Wait(d)' = Wait(d) /\ Out(d)' = Out(d)
  BY <1>1, <1>3 DEF On, Putting, Got, Out, Wait, Current
<1>8. \A d \in Conn : Passed(d)' = Passed(d) /\ Coming(d)' = Coming(d)
  BY <1>4, <1>6, <1>7 DEF Passed, Coming
<1>9. Published'
  BY <1>1, <1>7, <1>8 DEF StreamInv, Published
<1>10. InOrder'
  <2>1. ASSUME NEW d \in Conn
        PROVE  /\ Sorted(log, queue[d])'
               /\ Precede(log, Got(d), Out(d) \cup Wait(d))'
               /\ Precede(log, Out(d), Wait(d))'
    <3>1. /\ Sorted(log, queue[d]) /\ Precede(log, Got(d), Out(d) \cup Wait(d))
          /\ Precede(log, Out(d), Wait(d))
      BY DEF StreamInv, InOrder
    <3>2. CASE d = c
      <4>1. (Out(c) \cup Wait(c))' = Out(c) \cup Wait(c)
        BY <1>4, <1>6
      <4> QED
        BY <1>1, <1>5, <1>6, <1>7, <3>1, <3>2, <4>1
    <3>3. CASE d # c
      BY <1>1, <1>3, <1>7, <3>1, <3>3
    <3> QED
      BY <3>2, <3>3
  <2>2. \A d \in Conn : Precede(log, Passed(d), Coming(d))' /\ Precede(log, Current(d), On \cup Putting)'
    BY <1>1, <1>7, <1>8 DEF StreamInv, InOrder
  <2> QED
    BY <1>1, <1>7, <2>1, <2>2 DEF StreamInv, InOrder
<1>11. Complete'
  BY <1>1, <1>7, <1>8 DEF StreamInv, Complete, Cut
<1>12. Managed'
  BY <1>1, <1>3 DEF StreamInv, Managed
<1> QED
  BY <1>9, <1>10, <1>11, <1>12 DEF ConnectionKept
-------------------------------------------------------------------------------
(***************************************************************************)
(* The inductive invariant holds, and so do the properties of the runs.    *)
(***************************************************************************)
LEMMA EveryStep ==
    ASSUME StreamInv, [Next]_vars
    PROVE  StreamInv'
<1>1. TypeOK'
  BY TypeStep DEF StreamInv
<1>2. ConnectionKept
  <2>1. CASE \E p \in Producer : Publish(p) \/ PutOnBus(p)
    BY <2>1, PublishStep, PutOnBusStep
  <2>2. CASE TakeEvent
    BY <2>2, TakeEventStep
  <2>3. ASSUME NEW c \in Conn,
               \/ SkipClosed(c) \/ Send(c) \/ AwaitRoom(c)
               \/ Connect(c) \/ Heartbeat(c) \/ SenderGet(c) \/ Sent(c)
        PROVE  ConnectionKept
    BY <2>3, SkipStep, SendStep, QuietStep, HeartbeatStep, SenderGetStep, SentStep
  <2>4. ASSUME NEW c \in Conn, SendFails(c) \/ CloseNext(c)
        PROVE  ConnectionKept
    BY <2>4, CloseStep
  <2>5. ASSUME NEW S \in SUBSET Conn, RemoveConnections(S)
        PROVE  ConnectionKept
    BY <2>5, CloseStep
  <2>6. CASE \E c \in Conn : Disconnect(c)
    <3>1. PICK c \in Conn : RemoveConnections({c})
      BY <2>6 DEF Disconnect
    <3>2. {c} \in SUBSET Conn
      OBVIOUS
    <3> QED
      BY <2>5, <3>1, <3>2
  <2>7. CASE Prune
    <3>1. PICK us \in SUBSET User : RemoveConnections({c \in Conn : Owner[c] \in us})
      BY <2>7 DEF Prune
    <3>2. {c \in Conn : Owner[c] \in us} \in SUBSET Conn
      OBVIOUS
    <3> QED
      BY <2>5, <3>1, <3>2
  <2>8. CASE StopPruner \/ StopBus \/ UNCHANGED vars
    BY <2>8, QuietStep
  <2>9. CASE StopForwarder
    BY <2>9, StopForwarderStep
  <2>10. CASE CloseAll
    <3>1. Conn \in SUBSET Conn
      OBVIOUS
    <3> QED
      BY <2>5, <2>10, <3>1 DEF CloseAll
  <2> QED
    BY <2>1, <2>2, <2>3, <2>4, <2>6, <2>7, <2>8, <2>9, <2>10 DEF Next
<1> QED
  BY <1>1, <1>2 DEF ConnectionKept, StreamInv

\* Initially there is no message.
LEMMA InitFacts ==
    ASSUME Init
    PROVE  StreamInv
<1>1. Messages(<<>>) = {} /\ \A L : Sorted(L, <<>>)
  BY DEF Messages, Sorted
<1>2. \A c \in Conn : Got(c) = {} /\ Out(c) = {} /\ Wait(c) = {} /\ Current(c) = {}
  BY <1>1 DEF Init, Got, Out, Wait, Current
<1>3. On = {} /\ Putting = {} /\ \A p \in Producer : Messages(putting[p]) = {}
  BY <1>1 DEF Init, On, Putting
<1>4. \A c \in Conn : Passed(c) = {} /\ Coming(c) = {}
  BY <1>2, <1>3 DEF Passed, Coming
<1>5. TypeOK
  <2>1. <<>> \in AtMostOne(Message) /\ <<>> \in AtMostOne(Message \cup {Ping})
    BY DEF AtMostOne
  <2>2. /\ \A T : <<>> \in Seq(T)
        /\ Len(<<>>) = 0 /\ 0 <= BusCap /\ 0 <= QueueCap
    BY StreamAssumption
  <2>3. queue \in [Conn -> Seq(Message \cup {Ping})] /\ \A c \in Conn : Len(queue[c]) <= QueueCap
    BY <2>2 DEF Init
  <2>4. putting \in [Producer -> AtMostOne(Message)] /\ sending \in [Conn -> AtMostOne(Message \cup {Ping})]
    BY <2>1 DEF Init
  <2>5. delivered \in [Conn -> Seq(Message)] /\ bus \in Seq(Message) /\ Len(bus) <= BusCap
        /\ log \in Seq([from : Producer, to : Conn \cup User])
    BY <2>2 DEF Init
  <2> QED
    BY <2>3, <2>4, <2>5 DEF Init, TypeOK
<1>6. Managed
  BY DEF Init, Managed
<1>7. Published
  BY <1>2, <1>3, <1>4 DEF Published
<1>8. InOrder
  BY <1>1, <1>2, <1>3, <1>4 DEF Init, InOrder, Precede
<1>9. Complete
  <2>1. DOMAIN log = {}
    BY DEF Init
  <2> QED
    BY <2>1 DEF Complete
<1> QED
  BY <1>5, <1>6, <1>7, <1>8, <1>9 DEF StreamInv

\* Messages are, wherever they are, in the order of their producers, and none for a
\* connection itself is left out.
THEOREM Invariant == Spec => []StreamInv
<1>1. Init => StreamInv
  BY InitFacts
<1>2. StreamInv /\ [Next]_vars => StreamInv'
  BY EveryStep
<1> QED
  BY <1>1, <1>2, PTL DEF Spec

\* Queues never grow past their limits, and every variable keeps its type.
THEOREM TypeCorrect == Spec => []TypeOK
<1>1. StreamInv => TypeOK
  BY DEF StreamInv
<1> QED
  BY <1>1, Invariant, PTL

\* An open manager is registered or about to be closed: whoever takes a connection out of
\* the registry closes its manager now or has it among those he will close.
THEOREM OpenIsRegisteredHolds == Spec => []OpenIsRegistered
<1>1. Init => OpenIsRegistered
  BY DEF Init, OpenIsRegistered
<1>2. ASSUME OpenIsRegistered, TypeOK, [Next]_vars
      PROVE  OpenIsRegistered'
  <2> USE DEF producers, forwarder, conns, managers
  <2>1. status \in [Conn -> {"new", "open", "closed"}]
    BY <1>2 DEF TypeOK
  <2>2. CASE UNCHANGED <<status, registry, closing, phase>>
    BY <1>2, <2>2 DEF OpenIsRegistered
  <2>3. ASSUME NEW c \in Conn, Connect(c)
        PROVE  OpenIsRegistered'
    BY <1>2, <2>1, <2>3 DEF OpenIsRegistered, Connect
  <2>4. ASSUME NEW c \in Conn, CloseUnlessClosed(c)
        PROVE  status'[c] = "closed" /\ \A d \in Conn \ {c} : status'[d] = status[d]
    BY <2>1, <2>4 DEF CloseUnlessClosed, Close
  <2>5. ASSUME NEW S \in SUBSET Conn, RemoveConnections(S)
        PROVE  OpenIsRegistered'
    <3>1. PICK first \in S \cap registry :
            /\ registry' = registry \ S /\ closing' = closing \cup ((S \cap registry) \ {first})
            /\ CloseUnlessClosed(first) /\ phase' = phase
      BY <2>5 DEF RemoveConnections
    <3>2. status'[first] = "closed" /\ \A d \in Conn \ {first} : status'[d] = status[d]
      BY <2>4, <3>1
    <3> QED
      BY <1>2, <3>1, <3>2 DEF OpenIsRegistered
  <2>6. ASSUME NEW c \in Conn, CloseNext(c)
        PROVE  OpenIsRegistered'
    <3>1. status'[c] = "closed" /\ \A d \in Conn \ {c} : status'[d] = status[d]
      BY <2>4, <2>6 DEF CloseNext
    <3> QED
      BY <1>2, <2>6, <3>1 DEF OpenIsRegistered, CloseNext
  <2>7. ASSUME NEW c \in Conn, SendFails(c)
        PROVE  OpenIsRegistered'
    <3>1. status'[c] = "closed" /\ \A d \in Conn \ {c} : status'[d] = status[d]
      BY <2>4, <2>7 DEF SendFails, CloseUnlessClosed
    <3> QED
      BY <1>2, <2>7, <3>1 DEF OpenIsRegistered, SendFails
  <2>8. ASSUME NEW c \in Conn, Disconnect(c)
        PROVE  OpenIsRegistered'
    <3>1. {c} \in SUBSET Conn
      OBVIOUS
    <3> QED
      BY <2>5, <2>8, <3>1 DEF Disconnect
  <2>9. CASE Prune \/ CloseAll
    <3>1. \A us : {c \in Conn : Owner[c] \in us} \in SUBSET Conn
      OBVIOUS
    <3>2. Conn \in SUBSET Conn
      OBVIOUS
    <3> QED
      BY <2>5, <2>9, <3>1, <3>2 DEF Prune, CloseAll
  <2>10. CASE StopPruner \/ StopForwarder \/ StopBus
    BY <1>2, <2>10 DEF OpenIsRegistered, StopPruner, StopForwarder, StopBus
  <2>11. CASE TakeEvent \/ \E p \in Producer : Publish(p) \/ PutOnBus(p)
    BY <2>2, <2>11 DEF TakeEvent, Publish, PutOnBus
  <2>12. ASSUME NEW c \in Conn,
                \/ SkipClosed(c) \/ Send(c) \/ AwaitRoom(c)
                \/ Heartbeat(c) \/ SenderGet(c) \/ Sent(c)
         PROVE  OpenIsRegistered'
    BY <2>2, <2>12 DEF SkipClosed, Send, AwaitRoom, NextTarget, Heartbeat, SenderGet, Sent
  <2>13. CASE UNCHANGED vars
    BY <2>2, <2>13 DEF vars
  <2> QED
    BY <1>2, <2>3, <2>6, <2>7, <2>8, <2>9, <2>10, <2>11, <2>12, <2>13 DEF Next
<1> QED
  BY <1>1, <1>2, TypeCorrect, PTL DEF Spec
-------------------------------------------------------------------------------
(***************************************************************************)
(* The event stream implements Delivery.                                   *)
(***************************************************************************)
\* The message that goes out is the next one of its producer for this connection.
LEMMA Delivering ==
    ASSUME StreamInv, NEW c \in Conn, log' = log, delivered' \in {delivered, Received(c)}
    PROVE  [DeliverySpec!Next]_<<log, delivered>>
<1>1. CASE delivered' = delivered
  BY <1>1
<1>2. CASE delivered' # delivered
  <2>1. TypeOK /\ Managed /\ Published /\ InOrder /\ Complete
    BY DEF StreamInv
  <2>2. PICK m \in Out(c) : delivered' = [delivered EXCEPT ![c] = Append(@, m)]
    BY <1>2, <2>1, ReceivedIs
  <2>3. DeliverySpec!Got(c) = Got(c)
    <3>1. delivered[c] \in Seq(Message) /\ Ping \notin Message
      BY <2>1 DEF TypeOK, Message, Ping
    <3>2. \A i \in DOMAIN delivered[c] : delivered[c][i] # Ping
      BY <3>1
    <3> QED
      BY <3>2 DEF DeliverySpec!Got, Got, Messages
  <2>4. m \in DOMAIN log /\ m \in Nat /\ log[m].to \in {c, Owner[c]} /\ m \in Passed(c)
    <3>1. m \in Passed(c)
      BY DEF Passed
    <3>2. DOMAIN log \subseteq Nat
      BY <2>1 DEF TypeOK
    <3> QED
      BY <2>1, <3>1, <3>2 DEF Published
  <2>5. /\ \A n \in Got(c) : log[n].from = log[m].from => n < m
        /\ \A n \in Wait(c) \cup Coming(c) : log[n].from = log[m].from => m < n
    <3>1. Precede(log, Got(c), Out(c)) /\ Precede(log, Out(c), Wait(c))
          /\ Precede(log, Out(c), Coming(c))
      <4>1. Precede(log, Passed(c), Coming(c)) /\ Precede(log, Got(c), Out(c) \cup Wait(c))
            /\ Precede(log, Out(c), Wait(c)) /\ Out(c) \subseteq Passed(c)
        BY <2>1 DEF InOrder, Passed
      <4> QED
        BY <4>1 DEF Precede
    <3> QED
      BY <3>1 DEF Precede
  <2>6. m \notin Got(c)
    BY <2>4, <2>5
  <2>7. \A n \in Out(c) : n = m
    <3>1. sending[c] \in AtMostOne(Message \cup {Ping})
      BY <2>1 DEF TypeOK
    <3>2. Message \cup {Ping} \in SUBSET Nat
      BY StreamAssumption DEF Message, Ping
    <3> QED
      BY <3>1, <3>2, AtMostOneMessage DEF Out
  <2>8. status[c] # "closed"
    <3>1. sending[c] # <<>>
      BY DEF Out, Messages
    <3> QED
      BY <2>1, <3>1 DEF Managed
  <2>9. ASSUME NEW n \in DOMAIN log, n # m, log[n].from = log[m].from, log[n].to = c, n < m
        PROVE  n \in Got(c)
    <3>1. n \in Nat
      BY <2>1 DEF TypeOK
    <3>2. ~ (m < n)
      BY <2>4, <2>9, <3>1
    <3>3. ~ Cut(c, n)
      <4>1. Precede(log, Passed(c) \cup Current(c), {n}) => m < n
        BY <2>4, <2>9 DEF Precede
      <4> QED
        BY <2>8, <3>2, <4>1 DEF Cut
    <3>4. n \in Passed(c) \cup Coming(c)
      BY <2>1, <2>9, <3>3 DEF Complete
    <3>5. n \notin Wait(c) \cup Coming(c)
      BY <2>5, <2>9, <3>2
    <3> QED
      BY <2>7, <2>9, <3>4, <3>5 DEF Passed
  <2>10. DeliverySpec!Deliver(c)
    <3>1. /\ \A n \in DeliverySpec!Others(m) : n \in Got(c) => n < m
          /\ \A n \in DeliverySpec!Others(m) : log[n].to = c /\ n < m => n \in Got(c)
      BY <2>5, <2>9 DEF DeliverySpec!Others
    <3> QED
      BY <2>2, <2>3, <2>4, <2>6, <3>1 DEF DeliverySpec!Deliver
  <2> QED
    BY <2>10 DEF DeliverySpec!Next
<1> QED
  BY <1>1, <1>2

\* Every step publishes a message, gives a client its next one, or is invisible.
LEMMA StepDelivers ==
    ASSUME StreamInv, [Next]_vars
    PROVE  [DeliverySpec!Next]_<<log, delivered>>
<1> USE DEF producers, forwarder, conns, managers
<1>1. CASE UNCHANGED <<log, delivered>>
  BY <1>1
<1>2. ASSUME NEW p \in Producer, Publish(p)
      PROVE  DeliverySpec!Next
  <2>1. /\ \E to \in Conn \cup User : log' = Append(log, [from |-> p, to |-> to])
        /\ delivered' = delivered
    BY <1>2 DEF Publish
  <2> QED
    BY <2>1 DEF DeliverySpec!Next, DeliverySpec!Publish
<1>3. ASSUME NEW c \in Conn, Sent(c)
      PROVE  [DeliverySpec!Next]_<<log, delivered>>
  BY <1>3, Delivering DEF Sent
<1>4. ASSUME NEW c \in Conn, CloseUnlessClosed(c), log' = log
      PROVE  [DeliverySpec!Next]_<<log, delivered>>
  <2>1. delivered' \in {delivered, Received(c)}
    BY <1>4 DEF CloseUnlessClosed, Close
  <2> QED
    BY <1>4, <2>1, Delivering
<1>5. ASSUME NEW S \in SUBSET Conn, RemoveConnections(S)
      PROVE  [DeliverySpec!Next]_<<log, delivered>>
  <2>1. registry \subseteq Conn
    BY DEF StreamInv, TypeOK
  <2>2. PICK c \in Conn : CloseUnlessClosed(c) /\ log' = log
    BY <1>5, <2>1 DEF RemoveConnections
  <2> QED
    BY <1>4, <2>2
<1>6. ASSUME NEW c \in Conn, CloseNext(c) \/ SendFails(c)
      PROVE  [DeliverySpec!Next]_<<log, delivered>>
  <2>1. CloseUnlessClosed(c) /\ log' = log
    BY <1>6 DEF CloseNext, SendFails, CloseUnlessClosed
  <2> QED
    BY <1>4, <2>1
<1>7. ASSUME NEW c \in Conn, Disconnect(c)
      PROVE  [DeliverySpec!Next]_<<log, delivered>>
  <2>1. {c} \in SUBSET Conn
    OBVIOUS
  <2> QED
    BY <1>5, <1>7, <2>1 DEF Disconnect
<1>8. CASE Prune \/ CloseAll
  <2>1. \A us : {c \in Conn : Owner[c] \in us} \in SUBSET Conn
    OBVIOUS
  <2>2. Conn \in SUBSET Conn
    OBVIOUS
  <2> QED
    BY <1>5, <1>8, <2>1, <2>2 DEF Prune, CloseAll
<1>9. CASE \/ TakeEvent \/ StopPruner \/ StopForwarder \/ StopBus \/ UNCHANGED vars
           \/ \E p \in Producer : PutOnBus(p)
  BY <1>1, <1>9 DEF TakeEvent, StopPruner, StopForwarder, StopBus, PutOnBus, vars
<1>10. ASSUME NEW c \in Conn,
              \/ SkipClosed(c) \/ Send(c) \/ AwaitRoom(c)
              \/ Connect(c) \/ Heartbeat(c) \/ SenderGet(c)
       PROVE  UNCHANGED <<log, delivered>>
  BY <1>10 DEF SkipClosed, Send, AwaitRoom, NextTarget, Connect, Heartbeat, SenderGet
<1> QED
  BY <1>1, <1>2, <1>3, <1>6, <1>7, <1>8, <1>9, <1>10 DEF Next

\* The stream implements Delivery, through full queues, failing sends, connections that
\* come and go and the shutdown: a client gets the messages of each producer in their
\* order, none twice, none that is not for it and none before an earlier one for it.
THEOREM DeliversInOrderHolds == Spec => DeliversInOrder
<1>1. Init => DeliverySpec!Init
  BY DEF Init, DeliverySpec!Init
<1>2. StreamInv /\ [Next]_vars => [DeliverySpec!Next]_<<log, delivered>>
  BY StepDelivers
<1> QED
  BY <1>1, <1>2, Invariant, PTL DEF Spec, DeliversInOrder, DeliverySpec!Spec
===============================================================================
