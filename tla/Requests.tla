-------------------------------- MODULE Requests --------------------------------
(***************************************************************************)
(* What a request passes before it is served: block checks, rate limits    *)
(* and guards, over HTTP and on the chat WebSocket with its loop, in a     *)
(* process that starts up and shuts down around them.  The requests of one *)
(* client: they share its IP address, its token and its user.  A request   *)
(* is the sequence of the steps it still has to make, one await each.      *)
(* When an observer blocks, UserObserver and its siblings say; here it may *)
(* at every call that counts something.                                    *)
(***************************************************************************)
EXTENDS Lifecycle, FiniteSets, Functions

CONSTANTS
    Request,        \* request handlers that can run at the same time
    Connection,     \* connection ids
    NoConnection,
    MaxConnections, \* MAX_WS_CONNECTIONS_PER_IP and MAX_WS_CONNECTIONS_PER_USER
    MaxMessages,    \* max_rate of AGENT_MESSAGING, for a user
    MaxBlocked      \* bound: identities blocked at a time

Identity == {"ip", "token", "user"}

ASSUME RequestsAssumption ==
    /\ IsFiniteSet(Request)
    /\ NoConnection \notin Connection
    /\ MaxConnections \in [{"ip", "user"} -> Nat \ {0}]
    /\ {MaxMessages, MaxBlocked} \subseteq Nat

VARIABLES
    request,    \* per handler: what it serves, and the steps left
    blocked,    \* the identities a block is in force for
    active,     \* active_ws_connections of the IP and of the user
    refused,    \* auxiliary: connections of chats that ended before their loop
    level,      \* how full the AGENT_MESSAGING limiter of the user is
    pruned,     \* it has been pruned while it was in use
    excess      \* auxiliary: how full one would be that let every message in

requests == <<request, blocked, active, refused, level, pruned, excess>>
vars     == <<lifecycle, requests>>

Kinds   == {"refresh", "access", "claim", "data", "chat"}
Step    == ({"check", "guard"} \X Identity) \cup ({"enter", "leave"} \X {"ip", "user"})
             \cup ({"register", "slot", "receive", "answer", "respond"} \X {"-"})
Limit   == MaxMessages + Cardinality(Request)

\* Auxiliary: barred, the identities it carries that have been blocked since it came,
\* and uncounted, those whose connections were forgotten while it had one.
None == [kind |-> "none", todo |-> <<>>, connection |-> NoConnection,
         barred |-> {}, uncounted |-> {}]

TypeOK ==
    /\ LifecycleTypeOK
    /\ request \in [Request -> [kind : Kinds \cup {"none"}, todo : Seq(Step),
                                connection : Connection \cup {NoConnection},
                                barred : SUBSET blocked, uncounted : SUBSET {"ip", "user"}]]
    /\ \A r \in Request : (request[r].kind = "none") = (request[r].todo = <<>>)
    /\ blocked \subseteq Identity
    /\ active \in [{"ip", "user"} -> SUBSET Connection]
    /\ refused \subseteq Connection
    /\ level \in 0 .. MaxMessages
    /\ pruned \in BOOLEAN
    /\ excess \in 0 .. Limit + 1

Init ==
    /\ LifecycleInit
    /\ request = [r \in Request |-> None]
    /\ blocked = {}
    /\ active = [k \in {"ip", "user"} |-> {}]
    /\ refused = {}
    /\ level = 0
    /\ pruned = FALSE
    /\ excess = 0
-------------------------------------------------------------------------------
(***************************************************************************)
(* The steps of each kind of request: its dependencies, then the handler.  *)
(* A token may have no user yet.                                           *)
(***************************************************************************)
Check(k) == <<"check", k>>
Guard(k) == <<"guard", k>>
Enter(k) == <<"enter", k>>
Leave(k) == <<"leave", k>>
Do(op)   == <<op, "-">>

\* require_access_and_rate_limit on require_access_header, and their siblings.
Dependencies(scoped) ==
    <<Check("ip"), Check("token")>> \o (IF scoped THEN <<Check("user")>> ELSE <<>>)

\* Faulty variant: the user of a refresh token is not checked.
PlanOfFault(kind, scoped) ==
    CASE kind = "refresh" -> <<Check("ip"), Guard("ip"), Do("respond")>>
      [] kind = "access"  -> Dependencies(FALSE) \o <<Do("respond")>>
      [] kind = "claim"   -> Dependencies(scoped)
                               \o <<Guard("ip"), Guard("token"), Guard("user"), Do("respond")>>
      [] kind = "data"    -> Dependencies(scoped) \o <<Do("respond")>>
      [] kind = "chat"    -> Dependencies(scoped) \o <<Enter("ip"), Enter("user"), Do("register")>>

PlanOf(kind, scoped) ==
    CASE kind = "refresh" -> <<Check("ip"), Guard("ip"), Do("respond")>>
      [] kind = "access"  -> Dependencies(scoped)
                               \o (IF scoped THEN <<Guard("user")>> ELSE <<>>) \o <<Do("respond")>>
      [] kind = "claim"   -> Dependencies(scoped)
                               \o <<Guard("ip"), Guard("token"), Guard("user"), Do("respond")>>
      [] kind = "data"    -> Dependencies(scoped) \o <<Do("respond")>>
      [] kind = "chat"    -> Dependencies(scoped) \o <<Enter("ip"), Enter("user"), Do("register")>>

Carried(kind, scoped) ==
    IF kind = "refresh" THEN {"ip"}
    ELSE {"ip", "token"} \cup (IF scoped THEN {"user"} ELSE {})

\* Faulty variant: the limiter is left aside in the loop.
LoopFault == <<Do("receive")>>

\* The loop of the chat.
Loop == <<Do("slot"), Do("receive")>>

\* Its end, and the messages in it that are counted.
Finally  == <<Leave("ip"), Leave("user")>>
TooLarge == <<Guard("ip"), Guard("user"), Guard("token")>> \o Finally
Input    == <<Guard("ip"), Guard("user"), Guard("token"), Do("answer")>> \o Loop

IsAt(r, step) == request[r].todo # <<>> /\ Head(request[r].todo) = step

\* In the try block of the chat's handler.
Chatting(r) ==
    /\ request[r].kind = "chat"
    /\ Do("register") \notin Range(request[r].todo)
    /\ Head(request[r].todo) # Leave("ip")
    /\ Head(request[r].todo) # Leave("user")

Become(r, new)   == request' = [request EXCEPT ![r] = new]
Proceed(r, todo) == Become(r, IF todo = <<>> THEN None ELSE [request[r] EXCEPT !.todo = todo])
Advance(r)       == Proceed(r, Tail(request[r].todo))

\* An exception ends the request, and what is in its try block by way of finally.
Raise(r) == Proceed(r, IF Chatting(r) THEN Finally ELSE <<>>)

Block(k) ==
    /\ k \in blocked \/ Cardinality(blocked) < MaxBlocked
    /\ blocked' = blocked \cup {k}

connections == <<active, refused>>
limiters    == <<level, pruned, excess>>
-------------------------------------------------------------------------------
\* A chat without a user gets one of its own, which no other request shares: the
\* chats here have theirs.
Arrive(r, kind, scoped) ==
    /\ phase = "serving"
    /\ request[r] = None
    /\ kind = "chat" => scoped
    /\ kind = "refresh" => ~scoped
    /\ Become(r, [None EXCEPT !.kind = kind, !.todo = PlanOf(kind, scoped),
                              !.barred = blocked \cap Carried(kind, scoped)])
    /\ UNCHANGED <<lifecycle, blocked, connections, limiters>>

\* check_ip_blocked and its siblings count the request, then look for a block.
CheckBlocked(r, k) ==
    /\ IsAt(r, Check(k))
    /\ UNCHANGED blocked \/ Block(k)
    /\ IF k \in blocked' THEN Raise(r) ELSE Advance(r)
    /\ UNCHANGED <<lifecycle, connections, limiters>>

\* The observers' add_* return a block when this very call sets it.
PassGuard(r, k) ==
    /\ IsAt(r, Guard(k))
    /\ \/ Advance(r) /\ UNCHANGED blocked
       \/ Raise(r) /\ Block(k)
    /\ UNCHANGED <<lifecycle, connections, limiters>>

Respond(r) ==
    /\ IsAt(r, Do("respond"))
    /\ Advance(r)
    /\ UNCHANGED <<lifecycle, blocked, connections, limiters>>

Held(r) == {request[r].connection} \ {NoConnection}

\* Whatever else may raise: a limiter without room in time, a token or a body that
\* cannot be verified, a client that leaves, a lost database.
Fail(r) ==
    /\ request[r] # None
    /\ ~IsAt(r, Leave("ip")) /\ ~IsAt(r, Leave("user"))
    /\ Raise(r)
    /\ refused' = refused \cup (IF Chatting(r) THEN {} ELSE Held(r))
    /\ UNCHANGED <<lifecycle, blocked, active, limiters>>
-------------------------------------------------------------------------------
(***************************************************************************)
(* The chat.  Its connection is counted before the try block whose finally *)
(* takes it out again.                                                     *)
(***************************************************************************)
\* connection_id: one that is not in use.
ConnectionOf(r) ==
    IF Held(r) # {} THEN Held(r)
    ELSE Connection \ (active["ip"] \cup active["user"]
                         \cup {request[q].connection : q \in Request})

\* Faulty variant: the limit itself still lets a connection in.
EnterConnectionFault(r, k) ==
    \E c \in ConnectionOf(r) :
        /\ IsAt(r, Enter(k))
        /\ active' = [active EXCEPT ![k] = @ \cup {c}]
        /\ IF Cardinality(active'[k]) > MaxConnections[k] + 1
           THEN Raise(r) /\ Block(k) /\ refused' = refused \cup {c}
           ELSE /\ Become(r, [request[r] EXCEPT !.connection = c, !.todo = Tail(@)])
                /\ UNCHANGED <<blocked, refused>>
        /\ UNCHANGED <<lifecycle, limiters>>

\* add_ws_connection counts the connection, and refuses it if that is one too many.
EnterConnection(r, k) ==
    \E c \in ConnectionOf(r) :
        /\ IsAt(r, Enter(k))
        /\ active' = [active EXCEPT ![k] = @ \cup {c}]
        /\ IF Cardinality(active'[k]) > MaxConnections[k]
           THEN Raise(r) /\ Block(k) /\ refused' = refused \cup {c}
           ELSE /\ Become(r, [request[r] EXCEPT !.connection = c, !.todo = Tail(@)])
                /\ UNCHANGED <<blocked, refused>>
        /\ UNCHANGED <<lifecycle, limiters>>

\* Into the registry; then get_limiter, and the loop begins.
Register(r) ==
    /\ IsAt(r, Do("register"))
    /\ Become(r, [request[r] EXCEPT !.todo = Loop, !.barred = {}])
    /\ UNCHANGED <<lifecycle, blocked, connections, limiters>>

\* Faulty variant: no room is waited for.
TakeSlotFault(r) ==
    /\ IsAt(r, Do("slot"))
    /\ \/ pruned /\ UNCHANGED level
       \/ ~pruned /\ level' = level + 1
    /\ Advance(r)
    /\ UNCHANGED <<lifecycle, blocked, connections, pruned, excess>>

\* The limiter makes room for a message before it is received.
TakeSlot(r) ==
    /\ IsAt(r, Do("slot"))
    /\ \/ pruned /\ UNCHANGED level
       \/ ~pruned /\ level < MaxMessages /\ level' = level + 1
    /\ Advance(r)
    /\ UNCHANGED <<lifecycle, blocked, connections, pruned, excess>>

\* A heartbeat or an input that is too long, a message that is too large, an input.
Receive(r) ==
    /\ IsAt(r, Do("receive"))
    /\ \E next \in {Loop, TooLarge, Input} : Proceed(r, next)
    /\ excess' = IF pruned \/ excess > Limit THEN excess ELSE excess + 1
    /\ UNCHANGED <<lifecycle, blocked, connections, level, pruned>>

\* agent_chat: AgentChat, and UserData for what it stores.
Answer(r) ==
    /\ IsAt(r, Do("answer"))
    /\ Advance(r)
    /\ UNCHANGED <<lifecycle, blocked, connections, limiters>>

\* Faulty variant: a connection that is gone still counts against the user.
LeaveConnectionFault(r, k) ==
    /\ IsAt(r, Leave(k))
    /\ active' = [active EXCEPT !["ip"] = @ \ Held(r)]
    /\ Advance(r)
    /\ UNCHANGED <<lifecycle, blocked, refused, limiters>>

\* remove_ws_connection, and after the user's the registry's removal.
LeaveConnection(r, k) ==
    /\ IsAt(r, Leave(k))
    /\ active' = [active EXCEPT ![k] = @ \ Held(r)]
    /\ Advance(r)
    /\ UNCHANGED <<lifecycle, blocked, refused, limiters>>
-------------------------------------------------------------------------------
(***************************************************************************)
(* What happens around the requests.                                       *)
(***************************************************************************)
\* A block ends.
Unblock(k) ==
    /\ k \in blocked
    /\ blocked' = blocked \ {k}
    /\ request' = [r \in Request |-> [request[r] EXCEPT !.barred = @ \ {k}]]
    /\ UNCHANGED <<lifecycle, connections, limiters>>

\* The observer's cleanup forgets an identity whose latest API request, which its
\* messages on a WebSocket are not, is a week old.
Forget(k) ==
    /\ k \in tasks \ blocked
    /\ active[k] # {}
    /\ active' = [active EXCEPT ![k] = {}]
    /\ refused' = refused \cap (active'["ip"] \cup active'["user"])
    /\ request' = [r \in Request |->
            IF request[r].connection \in active[k]
            THEN [request[r] EXCEPT !.uncounted = @ \cup {k}] ELSE request[r]]
    /\ UNCHANGED <<lifecycle, blocked, limiters>>

\* A limiter that is not in the store any more: the next get_limiter makes one.
DeleteLimiter ==
    /\ pruned' = TRUE
    /\ level' = 0
    /\ excess' = 0

\* LimiterStorePruner drops a limiter that is a week old.  When it is empty and
\* nobody's, the next get_limiter makes the like.  When not, the chats that are open
\* and those to come go by different limiters: what they let in is left open.
Prune ==
    /\ "limiter_store_pruner" \in tasks
    /\ level > 0 \/ \E r \in Request : Chatting(r)
    /\ ~pruned
    /\ DeleteLimiter
    /\ UNCHANGED <<lifecycle, request, blocked, connections>>

\* Time passes, and a limiter leaks.
Leak ==
    /\ level > 0 \/ excess > 0
    /\ level' = IF level > 0 THEN level - 1 ELSE 0
    /\ excess' = IF excess > 0 THEN excess - 1 ELSE 0
    /\ UNCHANGED <<lifecycle, request, blocked, connections, pruned>>

\* The server shuts down once no request is left.
Shut == (\A r \in Request : request[r] = None) /\ BeginShutdown /\ UNCHANGED requests

\* Of the blocks, a restart keeps those the database holds.
RestartAll ==
    /\ Restart
    /\ request' = [r \in Request |-> None]
    /\ blocked' \in SUBSET blocked
    /\ active' = [k \in {"ip", "user"} |-> {}]
    /\ refused' = {}
    /\ level' = 0
    /\ pruned' = FALSE
    /\ excess' = 0

Next ==
    \/ Startstop /\ UNCHANGED requests
    \/ \E r \in Request :
        \/ \E kind \in Kinds, scoped \in BOOLEAN : Arrive(r, kind, scoped)
        \/ \E k \in Identity : CheckBlocked(r, k) \/ PassGuard(r, k)
        \/ \E k \in {"ip", "user"} : EnterConnection(r, k) \/ LeaveConnection(r, k)
        \/ Respond(r) \/ Fail(r)
        \/ Register(r) \/ TakeSlot(r) \/ Receive(r) \/ Answer(r)
    \/ \E k \in Identity : Unblock(k)
    \/ \E k \in {"ip", "user"} : Forget(k)
    \/ Prune \/ Leak
    \/ Shut \/ RestartAll

Spec == Init /\ [][Next]_vars
-------------------------------------------------------------------------------
Serving(r) == Respond(r) \/ Register(r)

(***************************************************************************)
(* Every background task has what it uses, and a request finds the process *)
(* complete with the blocks of all observers loaded, through failing       *)
(* start-ups and shutdowns too.                                            *)
(***************************************************************************)
UsersHaveParts ==
    /\ \A part \in tasks : Uses(part) \subseteq up
    /\ \A r \in Request : request[r] # None => up = Part /\ loaded = Observers

(***************************************************************************)
(* No request is answered over HTTP and no chat is opened for a client     *)
(* whose IP address, token or user has been blocked since the request came,*)
(* by whichever way the request reaches its handler.                       *)
(***************************************************************************)
BlockedAreShutOut ==
    [][\A r \in Request : Serving(r) => request[r].barred = {}]_vars

(***************************************************************************)
(* The chats that are open at the same time for an IP address or a user    *)
(* never exceed its limit, but for those open when the observer's cleanup  *)
(* forgot its connections.                                                 *)
(***************************************************************************)
ConnectionsBounded ==
    \A k \in {"ip", "user"} :
        Cardinality({r \in Request : Chatting(r) /\ k \notin request[r].uncounted})
            <= MaxConnections[k]

(***************************************************************************)
(* A connection that counts against the limit is that of an open chat, or  *)
(* of one that a guard refused: those the finally block does not see.      *)
(***************************************************************************)
CountedAreOpen ==
    \A k \in {"ip", "user"} :
        active[k] \subseteq refused \cup {request[r].connection : r \in Request}

(***************************************************************************)
(* However many connections a user opens and closes, the messages received *)
(* never exceed what one limiter lets through, by more than the one that   *)
(* each open chat has paid for in advance - unless the limiter was pruned  *)
(* while it was in use.                                                    *)
(***************************************************************************)
AllowanceBounded == ~pruned => excess <= Limit

(***************************************************************************)
(* A guard refuses whoever is blocked (the guards' docstrings: "checks if  *)
(* the given IP address or user ID has been flagged ... and raises").      *)
(***************************************************************************)
GuardsRefuseBlocked ==
    [][\A r \in Request, k \in Identity :
          PassGuard(r, k) /\ k \in blocked =>
              request'[r].todo # Tail(request[r].todo)]_vars
===============================================================================
