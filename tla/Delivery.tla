-------------------------------- MODULE Delivery --------------------------------
(***************************************************************************)
(* What publishing a message promises: an abstract specification, without  *)
(* the bus, the forwarder and the queues, that EventStream implements.     *)
(* Each message is for one connection or for all connections of a user,    *)
(* and a connection gets                                                   *)
(*   - only messages that have been published, and are for it;             *)
(*   - the messages of each producer in the order of publication, none     *)
(*     twice;                                                              *)
(*   - and of those for the connection itself, the token chunks of an      *)
(*     answer, every one before any later message of their producer.       *)
(* Messages at the end may be missing: a connection can be lost.           *)
(***************************************************************************)
EXTENDS Naturals, Sequences

CONSTANTS Conn, User, Owner, Producer

VARIABLES
    log,        \* the messages published so far
    delivered   \* what the client of each connection has got

Init ==
    /\ log = <<>>
    /\ delivered = [c \in Conn |-> <<>>]

Publish ==
    /\ \E p \in Producer, to \in Conn \cup User : log' = Append(log, [from |-> p, to |-> to])
    /\ UNCHANGED delivered

Got(c) == {delivered[c][i] : i \in DOMAIN delivered[c]}

\* The other messages of the producer of m.
Others(m) == {n \in DOMAIN log \ {m} : log[n].from = log[m].from}

Deliver(c) ==
    /\ \E m \in DOMAIN log \ Got(c) :
        /\ log[m].to \in {c, Owner[c]}
        /\ \A n \in Others(m) : n \in Got(c) => n < m
        /\ \A n \in Others(m) : log[n].to = c /\ n < m => n \in Got(c)
        /\ delivered' = [delivered EXCEPT ![c] = Append(@, m)]
    /\ UNCHANGED log

Next == Publish \/ \E c \in Conn : Deliver(c)

Spec == Init /\ [][Next]_<<log, delivered>>
===============================================================================
