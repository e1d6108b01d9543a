------------------------------- MODULE EventStream -------------------------------
(***************************************************************************)
(* From publish_websocket_message to the client: the in-memory event bus,  *)
(* the one event forwarder, the registry of WebSocket connections and the  *)
(* manager of each connection with its queue, its sender task and its      *)
(* heartbeat; connections that come and go; and the shutdown of it all.    *)
(*                                                                         *)
(* An event loop runs it: between two suspensions a task runs alone.  A    *)
(* put suspends only while the queue is full, a get while it is empty.     *)
(***************************************************************************)
EXTENDS Naturals, Sequences, SequencesExt

CONSTANTS
    Conn,           \* connection ids, never used again after a disconnect
    User,
    Owner,          \* the user of each connection
    Producer,       \* the agent runs and other tasks that publish
    BusCap,         \* maxsize of the bus (30 000)
    QueueCap,       \* maxsize of a manager's queue (333)
    MaxMessages     \* bound: messages published

ASSUME StreamAssumption ==
    /\ Owner \in [Conn -> User]
    /\ Conn \cap User = {}     \* a message names the one or the other
    /\ BusCap \in Nat \ {0} /\ QueueCap \in Nat \ {0} /\ MaxMessages \in Nat

VARIABLES
    log,        \* auxiliary: every message so far, in the order of the publish calls
    putting,    \* the message a producer is about to put on the bus, if any
    bus,        \* _event_queue: messages by their place in log
    phase,      \* "run", "draining" (no pruner any more), "stopping" (no forwarder
                \* either) or "stopped" (no bus either)
    event,      \* the forwarder's event
    targets,    \* the connections the forwarder has still to send it to
    inPut,      \* is the forwarder waiting in the put of the first one's manager?
    registry,   \* the registered connections
    before,     \* those that were added before a connection: a dict keeps that order
    closing,    \* those a task has taken out of it and will close one by one
    status,     \* of a connection's manager: "new", "open" or "closed" (_is_closed)
    queue,      \* _message_queue
    sending,    \* what the sender task has in send_json, if anything
    delivered   \* auxiliary: the messages the client has got

vars == <<log, putting, bus, phase, event, targets, inPut, registry, before, closing, status,
          queue, sending, delivered>>

producers == <<log, putting>>
forwarder == <<event, targets, inPut>>
conns     == <<registry, before, closing>>
managers  == <<status, queue, sending, delivered>>

Ping    == 0                        \* a heartbeat, in a manager's queue
Message == 1 .. MaxMessages
NoEvent == 0

AtMostOne(S) == {<<>>} \cup {<<x>> : x \in S}

TypeOK ==
    /\ log \in Seq([from : Producer, to : Conn \cup User])
    /\ putting \in [Producer -> AtMostOne(Message)]
    /\ bus \in Seq(Message) /\ Len(bus) <= BusCap
    /\ phase \in {"run", "draining", "stopping", "stopped"}
    /\ event \in Message \cup {NoEvent}
    /\ targets \subseteq Conn
    /\ inPut \in BOOLEAN
    /\ registry \subseteq Conn
    /\ before \in [Conn -> SUBSET Conn]
    /\ closing \subseteq Conn
    /\ status \in [Conn -> {"new", "open", "closed"}]
    /\ queue \in [Conn -> Seq(Message \cup {Ping})]
    /\ \A c \in Conn : Len(queue[c]) <= QueueCap
    /\ sending \in [Conn -> AtMostOne(Message \cup {Ping})]
    /\ delivered \in [Conn -> Seq(Message)]

Init ==
    /\ log = <<>>
    /\ putting = [p \in Producer |-> <<>>]
    /\ bus = <<>>
    /\ phase = "run"
    /\ event = NoEvent
    /\ targets = {}
    /\ inPut = FALSE
    /\ registry = {}
    /\ before = [c \in Conn |-> {}]
    /\ closing = {}
    /\ status = [c \in Conn |-> "new"]
    /\ queue = [c \in Conn |-> <<>>]
    /\ sending = [c \in Conn |-> <<>>]
    /\ delivered = [c \in Conn |-> <<>>]
-------------------------------------------------------------------------------
(***************************************************************************)
(* Producers.  A message is for one connection, which the endpoint has     *)
(* registered before it lets anyone publish to it, or for all connections  *)
(* of a user.  A producer awaits each put, so it has one message at a      *)
(* time; which of several waiting ones is put first is open.               *)
(***************************************************************************)
Publish(p) ==
    /\ phase # "stopped"
    /\ putting[p] = <<>>
    /\ Len(log) < MaxMessages
    /\ \E to \in {c \in Conn : status[c] # "new"} \cup User :
        log' = Append(log, [from |-> p, to |-> to])
    /\ putting' = [putting EXCEPT ![p] = <<Len(log) + 1>>]
    /\ UNCHANGED <<bus, phase, forwarder, conns, managers>>

\* Faulty variant: the bus has no limit.
PutOnBusFault(p) ==
    /\ putting[p] # <<>>
    /\ phase # "stopped"
    /\ bus' = bus \o putting[p]
    /\ putting' = [putting EXCEPT ![p] = <<>>]
    /\ UNCHANGED <<log, phase, forwarder, conns, managers>>

PutOnBus(p) ==
    /\ putting[p] # <<>>
    /\ phase # "stopped"
    /\ Len(bus) < BusCap
    /\ bus' = bus \o putting[p]
    /\ putting' = [putting EXCEPT ![p] = <<>>]
    /\ UNCHANGED <<log, phase, forwarder, conns, managers>>
-------------------------------------------------------------------------------
(***************************************************************************)
(* The forwarder.  The registry is read under its lock, the messages are   *)
(* sent outside of it.                                                     *)
(***************************************************************************)
\* Faulty variant: the connection id is not looked at.
TargetsFault(m) == {c \in registry : Owner[c] = log[m].to}

\* send_connection and send_user: whom a message is for, as of now.
Targets(m) == {c \in registry : c = log[m].to \/ Owner[c] = log[m].to}

TakeEvent ==
    /\ phase \in {"run", "draining"}
    /\ targets = {}
    /\ bus # <<>>
    /\ event' = Head(bus)
    /\ targets' = Targets(Head(bus))
    /\ bus' = Tail(bus)
    /\ UNCHANGED <<producers, phase, inPut, conns, managers>>

\* The connection whose manager is sent the event next.
IsFirst(c) == c \in targets /\ (targets \ {c}) \cap before[c] = {}

NextTarget(c) ==
    /\ targets' = targets \ {c}
    /\ inPut' = FALSE
    /\ UNCHANGED <<producers, bus, phase, event, conns>>

\* Faulty variant: a message that finds the queue full is dropped.
SkipClosedFault(c) ==
    /\ IsFirst(c)
    /\ ~inPut
    /\ status[c] = "closed" \/ Len(queue[c]) >= QueueCap
    /\ NextTarget(c)
    /\ UNCHANGED managers

\* send_message to a closed manager returns at once.
SkipClosed(c) ==
    /\ IsFirst(c)
    /\ ~inPut
    /\ status[c] = "closed"
    /\ NextTarget(c)
    /\ UNCHANGED managers

\* The put into the manager's queue, at once or after a wait.  A wait does not
\* end because the manager is closed meanwhile.
Send(c) ==
    /\ IsFirst(c)
    /\ inPut \/ status[c] # "closed"
    /\ Len(queue[c]) < QueueCap
    /\ queue' = [queue EXCEPT ![c] = Append(@, event)]
    /\ NextTarget(c)
    /\ UNCHANGED <<status, sending, delivered>>

AwaitRoom(c) ==
    /\ IsFirst(c)
    /\ ~inPut
    /\ status[c] # "closed"
    /\ Len(queue[c]) >= QueueCap
    /\ inPut' = TRUE
    /\ UNCHANGED <<producers, bus, phase, event, targets, conns, managers>>
-------------------------------------------------------------------------------
(***************************************************************************)
(* A connection: its manager's tasks start, then it is registered.         *)
(***************************************************************************)
Connect(c) ==
    /\ phase = "run"
    /\ status[c] = "new"
    /\ status' = [status EXCEPT ![c] = "open"]
    /\ registry' = registry \cup {c}
    /\ before' = [before EXCEPT ![c] = {d \in Conn : status[d] # "new"}]
    /\ UNCHANGED <<producers, bus, phase, forwarder, closing, queue, sending, delivered>>

\* The heartbeat task puts a ping like any other message.  How often is left
\* open; bound: one ping in the queue.
Heartbeat(c) ==
    /\ status[c] = "open"
    /\ Len(queue[c]) < QueueCap
    /\ ~Contains(queue[c], Ping)
    /\ queue' = [queue EXCEPT ![c] = Append(@, Ping)]
    /\ UNCHANGED <<producers, bus, phase, forwarder, conns, status, sending, delivered>>

SenderGet(c) ==
    /\ status[c] = "open"
    /\ sending[c] = <<>>
    /\ queue[c] # <<>>
    /\ sending' = [sending EXCEPT ![c] = <<Head(queue[c])>>]
    /\ queue' = [queue EXCEPT ![c] = Tail(@)]
    /\ UNCHANGED <<producers, bus, phase, forwarder, conns, status, delivered>>

\* What the client has got when send_json has written what is in `sending`.
Received(c) ==
    IF sending[c] \in {<<>>, <<Ping>>} THEN delivered
    ELSE [delivered EXCEPT ![c] = @ \o sending[c]]

Sent(c) ==
    /\ sending[c] # <<>>
    /\ delivered' = Received(c)
    /\ sending' = [sending EXCEPT ![c] = <<>>]
    /\ UNCHANGED <<producers, bus, phase, forwarder, conns, status, queue>>

\* close: the tasks are cancelled where they are, which may be after send_json
\* has written its message; the queue stays as it is, without a consumer.
Close(c) ==
    /\ status[c] = "open"
    /\ status' = [status EXCEPT ![c] = "closed"]
    /\ delivered' \in {delivered, Received(c)}
    /\ sending' = [sending EXCEPT ![c] = <<>>]
    /\ UNCHANGED queue

CloseUnlessClosed(c) == Close(c) \/ (status[c] = "closed" /\ UNCHANGED managers)

\* send_json fails: the sender closes its manager, which stays registered.
SendFails(c) ==
    /\ sending[c] # <<>>
    /\ Close(c)
    /\ UNCHANGED <<producers, bus, phase, forwarder, conns>>
-------------------------------------------------------------------------------
(***************************************************************************)
(* The registry forgets all the connections to remove under its lock; then *)
(* their managers are closed one after the other.  The first close starts  *)
(* at once, each of the others when the one before has closed its socket.  *)
(***************************************************************************)
\* Faulty variant: the first close ends the loop.
RemoveConnectionsFault(S) ==
    \E first \in S \cap registry :
        /\ registry' = registry \ S
        /\ CloseUnlessClosed(first)
        /\ UNCHANGED <<producers, bus, phase, forwarder, before, closing>>

RemoveConnections(S) ==
    \E first \in S \cap registry :
        /\ registry' = registry \ S
        /\ closing' = closing \cup ((S \cap registry) \ {first})
        /\ CloseUnlessClosed(first)
        /\ UNCHANGED <<producers, bus, phase, forwarder, before>>

CloseNext(c) ==
    /\ c \in closing
    /\ closing' = closing \ {c}
    /\ CloseUnlessClosed(c)
    /\ UNCHANGED <<producers, bus, phase, forwarder, registry, before>>

\* Faulty variant: the connection is forgotten and its manager left open.
DisconnectFault(c) ==
    /\ c \in registry
    /\ registry' = registry \ {c}
    /\ UNCHANGED <<producers, bus, phase, forwarder, before, closing, managers>>

\* The endpoint of c ends.
Disconnect(c) == RemoveConnections({c})

\* The one user data pruner removes the connections of inactive users.
Prune ==
    /\ phase = "run"
    /\ closing = {}
    /\ \E us \in SUBSET User : RemoveConnections({c \in Conn : Owner[c] \in us})
-------------------------------------------------------------------------------
(***************************************************************************)
(* shutdown cancels the pruner, wherever it is, then the forwarder, puts a *)
(* sentinel on the bus and closes the connections that are registered.     *)
(***************************************************************************)
StopPruner ==
    /\ phase = "run"
    /\ phase' = "draining"
    /\ closing' = {}
    /\ UNCHANGED <<producers, bus, forwarder, registry, before, managers>>

StopForwarder ==
    /\ phase = "draining"
    /\ phase' = "stopping"
    /\ event' = NoEvent
    /\ targets' = {}
    /\ inPut' = FALSE
    /\ UNCHANGED <<producers, bus, conns, managers>>

StopBus ==
    /\ phase = "stopping"
    /\ Len(bus) < BusCap
    /\ phase' = "stopped"
    /\ UNCHANGED <<producers, bus, forwarder, conns, managers>>

CloseAll ==
    /\ phase = "stopped"
    /\ RemoveConnections(Conn)

Next ==
    \/ \E p \in Producer : Publish(p) \/ PutOnBus(p)
    \/ TakeEvent
    \/ \E c \in Conn :
        \/ SkipClosed(c) \/ Send(c) \/ AwaitRoom(c)
        \/ Connect(c) \/ Heartbeat(c) \/ SenderGet(c) \/ Sent(c)
        \/ SendFails(c) \/ Disconnect(c) \/ CloseNext(c)
    \/ Prune \/ StopPruner \/ StopForwarder \/ StopBus \/ CloseAll

Spec == Init /\ [][Next]_vars

(***************************************************************************)
(* The forwarder, the senders and a shutdown under way are scheduled, a    *)
(* producer gets its turn when the bus has room, and send_json ends, by a  *)
(* client that reads or by an error.  A queue wakes its waiting puts in    *)
(* order, so that a heartbeat every 30 seconds cannot keep the forwarder   *)
(* out of it for ever (strong fairness of Send).  Nothing says that anyone *)
(* publishes, connects or disconnects, or that a heartbeat is due.         *)
(***************************************************************************)
FairSpec ==
    /\ Spec
    /\ \A p \in Producer : WF_vars(PutOnBus(p))
    /\ WF_vars(TakeEvent \/ \E c \in Conn : SkipClosed(c)) /\ SF_vars(\E c \in Conn : Send(c))
    /\ \A c \in Conn : WF_vars(SenderGet(c)) /\ WF_vars(Sent(c) \/ SendFails(c))
    /\ \A c \in Conn : WF_vars(CloseNext(c))
    /\ WF_vars(StopForwarder \/ StopBus \/ CloseAll)
-------------------------------------------------------------------------------
DeliverySpec == INSTANCE Delivery WITH
    Conn <- Conn, User <- User, Owner <- Owner, Producer <- Producer,
    log <- log, delivered <- delivered

(***************************************************************************)
(* Whatever waits where, and whoever comes, goes or fails, the stream      *)
(* implements Delivery: a client gets the messages of each producer in the *)
(* order they were published, none twice, none that is not for it, and     *)
(* none before an earlier one for its connection.                          *)
(***************************************************************************)
DeliversInOrder == DeliverySpec!Spec

(***************************************************************************)
(* While the system runs, an open manager is registered, so that everyone  *)
(* who has to close it finds it, or a task that removed it is about to.    *)
(***************************************************************************)
OpenIsRegistered ==
    \A c \in Conn :
        status[c] = "open" /\ phase = "run" => c \in registry \cup closing

\* The forwarder waits for room in the queue of a manager whose sender is gone.
Stuck ==
    \E c \in Conn :
        IsFirst(c) /\ inPut /\ status[c] = "closed" /\ Len(queue[c]) >= QueueCap

(***************************************************************************)
(* A message for an open connection is delivered, unless the connection    *)
(* closes first or the system shuts down - or the forwarder is stuck.      *)
(***************************************************************************)
DeliveredUnlessStuck ==
    \A c \in Conn, m \in Message :
        m \in DOMAIN log /\ log[m].to = c /\ status[c] = "open"
            ~> \/ Contains(delivered[c], m)
               \/ status[c] # "open" \/ phase # "run" \/ Stuck

\* What streaming.md says: "Backpressure is not handled globally.  It is scoped
\* per connection."  So a message for an open connection does not depend on what
\* becomes of the others.
BackpressureIsPerConnection ==
    \A c \in Conn, m \in Message :
        m \in DOMAIN log /\ log[m].to = c /\ status[c] = "open"
            ~> \/ Contains(delivered[c], m)
               \/ status[c] # "open" \/ phase # "run"

\* Whoever is registered when the bus has stopped is closed by the shutdown.
ClosedAtShutdown ==
    \A c \in Conn : phase = "stopped" /\ c \in registry ~> status[c] = "closed"
===============================================================================
