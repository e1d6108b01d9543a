# A verification development for mwalika-agent

mwalika-agent is a chat service: one Python process, one asyncio event loop, one
replica.  This directory holds TLA+ models of the parts of it whose correctness depends on
order: what interleaves, fails, overflows, times out or restarts.  TLC checks the models on
small instances; TLAPS proves for all instances every safety property that a passing run checks,
among them the refinements of two abstract specifications.  Paths below are relative to `src/`.

`PROJECT.json` lists the components, runs, mutants, hazards, findings and theorems and maps
every definition that models code to its lines.

## 1. The system

| Component | State | Operations | Interacts with |
|---|---|---|---|
| User, IP, token observer (`security/observers/*`) | per entity: usage statistics, counter of this minute, block; a set of entities to push; a write-back queue of 1000 | `is_*_blocked`, `update_latest_*`, `add_*`, `remove_ws_connection`; tasks in the background: write-back worker, statistics push (60 s), cleanup | called by the request dependencies and guards; MongoDB collections of statistics and blocks |
| Event bus and forwarder (`events/*`) | a queue of 30 000 events; one forwarder task | `publish_websocket_message`; start, stop | producers are agent runs and endpoints; the forwarder calls the registry |
| WebSocket registry and managers (`api/websocket/*`) | connections per user; per connection a queue of 333, a sender and a heartbeat task, `_is_closed` | `add_connection`, `remove_*`, `send_user`, `send_connection`, `close_all_connections` | endpoint, forwarder, user data pruner, shutdown |
| Chat endpoint and guards (`api/routes/agent.py`, `api/guards/agent`) | one loop per connection | handshake, guard, register, take a slot, receive, `agent_chat`, clean up | observers, registry, limiter, agent |
| Request dependencies, user routes (`api/dependencies`, `api/routes/users.py`) | none of their own | check blocks, count, limit, issue tokens | observers, limiter store |
| Limiter store and pruner (`security/ratelimit`, `api/maintenance`) | limiters by key, with creation time | `get_limiter`, deletion of those a week old | dependencies, endpoint |
| Agent, sessions, memory (`agent/*`) | sessions (3 per user) and memories in MongoDB | `agent_chat`: session, prompt, tool calls, stream, memory | bus, observers, OpenAI |
| Stream manager (`agent/streaming`) | parser state of one answer | `add_delta`, finalise | agent |
| User data pruner, feedback (`api/maintenance`, `users/*`) | users to prune; prompt state per user | periodic deletion; mark, trigger, submit | MongoDB, registry |
| Lifecycle (`api/lifecycle`, `security/lifecycle.py`) | globals | start and stop of all of the above | all |
| Corpus worker, clients, prompts, utilities | - | offline loading, I/O, text | - |

**What is hard.**  Code between two real suspensions runs alone: an uncontended lock, a
`put` into a queue with room and the observers' locked sections do not suspend.  So the
observers' methods are atomic in memory, and everything hard happens after them: waiting
for a full queue, being overtaken there, giving up after a second, a database write that
fails, a cleanup that deletes records after it left its lock, a stop that leaves the queue
behind.  In the streaming path everything waits on something: producers on the bus, the one
forwarder on a connection's queue, the sender on the client.  A user's chats, deletions and
feedback work on the same records with a read in one database call and a write in a later
one.  A model's answer may be cut into deltas anywhere.  Requests run while the process starts
up, stops and forgets.  Time (days, minutes, block ends, forgiveness) adds boundaries that
differ between the three observers.

**What makes the parts correct.**
Observers: a violator is blocked, now and for long enough; a block is neither lifted nor
shortened early; escalation is not lost; a new day starts from zero.
Persistence: the database never says more than memory decided, says the same unless
something was lost, and a restart keeps what was written.
Streaming: order, no gaps, no duplicates, nobody else's messages; progress for one
connection does not depend on another; nothing left open unregistered.
Answers: what the client sees and what is remembered is the text the model wrote, each
character once and in order.
Requests: nobody is served past a block; connections and messages stay within their limits;
what counts is there; whoever runs finds what it uses.
User data: sessions within their limit; nothing left behind a deletion; prompts spaced.

## 2. The modules

### Blocks and statistics

`Blocks` defines a block (the second until which an entity is blocked), a write-back task
and the `Outcomes` a call may have on a block.

`BlockRegistry` is the abstract specification of an observer: all it promises about blocks.
It `EXTENDS Blocks`, has the clock, the blocks and the tasks of the latest call, and lets a
call have any of the `Outcomes`.

`ObserverOps` holds the steps all observers' locked sections are made of, as functions on a
record `s` of one entity's state (`ResetIfNewDay`, `UnblockIfExpired`, `BlockEntity`,
`CountThisMinute`, ...).  `ObserverState` declares the variables (`stats`, `tracker`,
`blocked`, `emitted`, `now`), says how a section begins and ends, and has the cleanup and the
clock.  `UserObserver`, `IpObserver` and `TokenObserver` are the three classes: one action per
public method, built from these steps in the order the method has them.  Each implements
`BlockRegistry` (`BlocksKept == Registry!Spec`, the refinement mapping being the identity on
`now`, `blocked` and `emitted`).  They differ where the code differs:

| | user | IP | token |
|---|---|---|---|
| a block is lifted at | its end | its end | a second after its end |
| forgiven after | > 3 days | >= 3 days | > 3 days |
| zeroed on a new day | requests, bad requests, input tokens | the same | bad requests, input tokens, claim cookies |
| WebSocket connections | counted | counted | not counted |

`BlockWriteBack` models how blocks reach the database and return: the queue, its worker,
callers that wait, time-outs, failed writes, the database half of the cleanup and the
restart.  What a call does to its block is any of the `Outcomes` of `BlockRegistry`, which is
what ties it to the observers: their runs show that they do nothing else.  The variables are
`blocked` (memory), `db`, `pipe` (the task in the worker's hands, if `writing`, then
`_db_write_back_queue`), `waiting` (what each caller has still to put), `sweeping` (what a
cleanup has still to delete) and the auxiliary `lost`: the entities with a change that was
dropped, failed, erased late or not put in order.  `lost` is set at those events and
cleared by the next change that is queued without a wait; no action reads it.

`StatsPush` models the other thing the user and IP observers keep in the database, the usage
statistics: `toUpdate` (`_users_to_update`), the push under way (`pushed`, `snapshot`), the
cleanup's late deletions (`deleting`), the `records` and the restart.  An entity's
statistics are a version number; `request` is how old its last dated request is.  The auxiliary
`unmarked` holds the entities changed by a check, which marks nothing, or hit by a late
deletion.  Its names (`StatsInit`, `StatsNext`, `StatsTypeOK`, ...) are apart from those of
`BlockWriteBack`, so that one module can prove about both; the two share only the constant
`Entity`, which `Entities` declares.

### Streaming

`Delivery` is the abstract specification of publishing: a log of messages, and for each
connection what its client got.  A connection gets a message that is for it, in the order of
its producer, and a message for the connection itself only after all earlier ones.

`EventStream` models the path from `publish_websocket_message` to the client, with
connections that come and go and the shutdown: `putting` and `log` (producers), `bus`,
`event`/`targets`/`inPut` (where the forwarder is), `registry` and `before` (who of the
registered came earlier: `targets` is the set of connections the forwarder has still to send to,
taken in that order, `IsFirst`), `closing` (the connections a
removal has taken out of the registry and not yet closed), and per connection `status`,
`queue`, `sending` and `delivered`.  Connections are removed by their endpoint (`Disconnect`), by
the user data pruner (`Prune`) and by the shutdown, which goes through the values of `phase` in the
order of `api/lifecycle/config.py`.  A removal closes the managers in any order, one at a time;
in the code the order is that of the registry.  The model lets connections be open when the
shutdown begins, since nothing in the repository says that the server has ended them.  It
implements `Delivery` (`DeliversInOrder`): `log` and `delivered` are those of `Delivery`, a publish
call is `Publish`, a `send_json` that ends well is `Deliver`, and every other step stutters.

`StreamManager` is the parser of an answer as a pure function `AddDelta(s, delta)` on the
manager's record, with the four cases of `add_delta` as operators.  A character is its place in
the text and its kind: an opening brace, a line feed, or other.  A line parses iff it is one
brace and then other text; more would be about JSON, not about the manager.  `AgentChat` is
`agent_chat` around it: the events of the response stream in any order they can come, tool
calls, recursion (`CallAgain`) with a manager each, the messages `sent` and the `memory` inserted.  The
auxiliary `text` is what the model wrote, `begin` where this recursion's text begins, and `cuts` which
of three things happened that lose text: a buffer overflow, a delta that goes on after the
line of a block (or after prose and a whole block at once), prose in earlier deltas before a
delta with prose and a brace.  The properties compare `sent` and `memory` with a definition over
the whole text (`InBlock`, `Prose`, `GoodBlocks`).

### Requests

`Lifecycle` models start-up and shutdown as plans, one await a step: the globals that are `up`,
those of them whose background `tasks` run, the observers that have `loaded` their blocks, with
every step that can fail.  It has no specification of its own: `Requests` composes it with the
requests.

`Requests` models what a request passes until it is served.  A request is the list of the steps it
has still to make (`todo`), one await each, and `PlanOf` has the list for each kind: its
dependencies' block checks, its guards, its handler; a chat continues with `Loop`, and with
`Finally` whatever ends it.  `CheckBlocked` counts a request and looks for a block; `PassGuard` is an
observer's `add_*`, which only knows a block that it sets.  When an observer blocks is what the
observer modules say; here it may whenever it counts.  `active` is `active_ws_connections` of the
IP and of the user, `level` the limiter for chat messages.  Auxiliary: `refused` (the connections
of chats that ended before their loop), `excess` (the level of a limiter that lets everything in), and of a
request `barred` (its identities that have been blocked since it came) and `uncounted` (whose
connections were forgotten under it).

Abstractions of `Requests`: the requests are those of one client, which share address, token and
user; a chat with a token without user gets a user that no other request has, so chats come with
one.  The limiters of dependencies and routes and every verification that can refuse are one
action, `Fail`.  When a limiter is pruned while it is in use, chats that hold the old one and
those that get a new one go by different levels; the model then leaves open what they let in
(`pruned`), and `AllowanceBounded` says nothing.  The server is taken to end the handlers before
it ends the lifespan (`Shut`), which is what uvicorn does.  `StopBus` always ends here; that it
may not is part of `EventStream`.

`UserData` models the records of a user: `sessions` (how many documents an id has: all have the
same owner, and which of them is deleted makes no difference), `memories`, the user record with its prompt
state (`users`), and who works on them at the same time: the `chat` of each connection, the
deletion of a session, the form, the `pruner`.  Every step is one database call with the code up to
the next one, and every call may fail.  Whom the pruner takes for inactive is anyone: it goes by
times of which one may be old while the user is here.  The prompt state is `due` or `waiting`;
counts and lengths of delays are left out.  Clients use their own session ids.  Auxiliary: a
memory is `missed` if its deletion failed or its chat ran on after the deletion of its session; a
user is `asked` until the delay is over, and `lost` if a chat then wrote a state it had read before
the state changed.

### Conventions

The `MC*` modules give TLC values for the constants.  Definitions whose name ends in `Fault` are
faulty variants of the definition that follows them; each is listed in `PROJECT.json` as a
mutant that makes one property fail.

Left out everywhere: texts, reasons, identifiers' form, logging, and `blocked_at`.  A
DELETE task is a task whose block is `NoBlock`.  A missing entry of a map is the entry a first
call would create, with day 0.

## 3. The runs

| Run | Asks | Answer |
|---|---|---|
| `user`, `ip`, `token` | Whatever the sequence of calls, clock steps and cleanups: is who is over a limit blocked (`OverLimitIsBlocked`)?  Is the escalation level kept (`EscalationKept`, of user and IP)?  Does a user's day start from zero (`DayStartsFromZero`)?  Does the observer implement `BlockRegistry` (`BlocksKept`)? | yes |
| `write_back` | Can the database overstate a block (`NeverOverblocks`)?  Without a loss, do tasks and records agree with memory (`InSync`)?  What does a restart keep (`WrittenBlocksSurvive`)?  Does a block reach the database (`BlockReachesDb`)? | never; yes; what was written and not lost; yes once writes stop failing |
| `stats` | Is a change of the statistics stored or on its way (`ChangesArePending`), and does it arrive (`ChangesReachDb`)?  The type invariant is `StatsTypeOK`. | yes, if it was marked and not deleted late |
| `stream` | Does the stream implement `Delivery` (`DeliversInOrder`)?  Can a disconnect or a shutdown miss an open manager (`OpenIsRegistered`)? | yes; no |
| `stream_live` | Is a message for an open connection delivered (`DeliveredUnlessStuck`)?  Does the shutdown close who is registered (`ClosedAtShutdown`)? | yes, unless the forwarder is stuck; yes, once the bus has stopped |
| `stream_stuck` | Is backpressure scoped per connection, as `docs/api/features/streaming.md` says? | no: see below |
| `answer` | However the text is cut: is anything sent (`ShownOnceInOrder`) or remembered (`RememberedOnceInOrder`) twice or out of order?  Is everything sent (`ShownExactly`) and remembered (`RememberedExactly`)?  The type invariant is `AnswerTypeOK`. | no; yes, but for the three cuts |
| `chats` | How many sessions can a user have (`SessionsBounded`)?  Is a memory left without session (`NoOrphans`)?  Is a user asked again too soon (`PromptsSpaced`)? | fewer than the limit and the connections together; only by a failure or a chat that ran; only if a stale state was written |
| `requests` | Does whoever runs find what it uses (`UsersHaveParts`)?  Is a blocked client served (`BlockedAreShutOut`)?  Are open chats bounded (`ConnectionsBounded`), and those that count open (`CountedAreOpen`)?  Does reconnecting give more messages (`AllowanceBounded`)? | yes; no; yes; but for those refused; no |
| `blocked` | Do the guards refuse whoever is blocked, as their docstrings say? | no: only who they block |

`OverLimitIsBlocked` speaks of the counters that a new day resets and whose block lasts a
day, and of the counter of the minute.  It does not speak of the token and cookie
generation counters (blocked for an hour at first, never reset), nor of refresh tokens'
requests.  `user` has blocks of 1, 3 and 5 seconds with days of 3 seconds and minutes of 1,
so that blocks end within a day, at its end and beyond.

`BlockedAreShutOut` speaks of requests over HTTP and of the opening of a chat, and of blocks set
since the request came; a chat that is open goes on, which is what `blocked` shows.

**Findings.**  Two runs expect a violation.  `stream_stuck`: the forwarder awaits `Queue.put` on a
full manager queue; if that connection closes meanwhile, `close()` cancels the sender, nobody takes
from the queue any more, and no message is forwarded to anyone until the process restarts; the
bus fills up, and on a full bus the shutdown hangs.  `blocked`: a guard lets a client pass that is
already blocked, so a block does not end an open chat.  The other disagreements between what
the repository says and what the code does were found while modelling and are listed in
`PROJECT.json` without a run: daily counters that are never reset, blocks lost over a restart,
statistics kept for ever, refused connections that count for ever, a message limit whose warning
is never sent, text an answer loses, sessions past the limit, memories that outlive their
session, a mark for the feedback prompt that has no effect, among others.

**Bounds.**  `MaxTime` is the last second; `MaxOffences` bounds the blocks per entity in the
observers (`Bound`): three for the user, so that all levels of a block come up; two for the IP
and one for each token, which keeps those instances small (one call may add two).  Limits are 1
or 2, so that a few calls pass them.  One user, one IP suffice, since a locked section works on
one entity, and only the cleanup on several; `token` has one of each type because they share
maps.  `write_back` has two entities, since entities share the queue, two callers, since they
overtake each other, and a queue of one, so that it is full and a list of two tasks does not
fit.  `stats` has two entities, since a bulk write fails between two records, and four changes
(`MaxChanges`): one to push and one meanwhile, before and after a return.  `stream` has two
connections of one user plus a user with none, two producers and queues of one; two messages
suffice for an order and a gap.  The liveness runs have one producer and no second user, and no
symmetry.  Bound of `EventStream`: one ping in a queue.

`answer` has five characters (`MaxText`) in deltas of up to three (`MaxDelta`), a buffer of two
(`MaxBuffer`), three output items (`MaxItems`) and one recursion: a block needs three characters, so
that there is room for a whole block with prose before and after it, in one delta or in several, for
an overflow and the delta that finds it, and for a tool call between two texts.  `chats` has two
chats, one user, two session ids and room for one session: two chats suffice to pass the limit and to
overwrite each other; a session can have one deletion at a time.  `requests` has two requests, one
connection too many, one message and one identity blocked at a time (`MaxBlocked`): two
requests suffice for one that blocks while another is on its way, for a chat that opens while another
closes, and for two that share the limiter.

**Deadlock** is checked in all runs except three kinds: in `EventStream`, where after a shutdown
nothing is left to do and a shutdown on a full bus really hangs; in `AgentChat`, where an answer
ends; and in `UserData`, whose environment may be done.

**Fairness.**  Only in `BlockWriteBack`, `StatsPush` and `EventStream`.  The event loop runs
every task that can go on: weak fairness of the worker's, the periodic push's and the senders'
steps, of the forwarder's and the producers', of the closes a removal has still to make, and of
a shutdown under way.  Every database operation and `send_json` ends, with success or an error.
`Send` has strong fairness because a queue wakes its waiting puts in order, so that the
heartbeat cannot keep the forwarder out for ever.  No fairness for calls, the clock, connects,
disconnects, time-outs, cleanups, restarts or failures. `BlockReachesDb` and `ChangesReachDb`
assume in their statements that writes fail only finitely often.

## 4. The proofs

The theorems hold for every value of the constants that satisfies the named assumptions.  The
conjuncts of the inductive invariants were also checked by TLC, on the instance of the module's
run.

| Module | Proves | By the inductive invariant |
|---|---|---|
| `Persistence_proofs` | `BlockWriteBack`: `TypeOK`, `NeverOverblocks`, `InSync`, `WrittenBlocksSurvive`; `StatsPush`: `StatsTypeOK`, `ChangesArePending` | `Safe`, `Synced`; `StatsInv` |
| `ObserverState_proofs` | lemmas on the steps of `ObserverOps`, the cleanup and the clock that the next three share | |
| `UserObserver_proofs`, `IpObserver_proofs`, `TokenObserver_proofs` | `TypeOK`, `OverLimitIsBlocked`, `EscalationKept`, for the user `DayStartsFromZero`; each implements `BlockRegistry` (`BlocksKept`) | `TypeOK` and `CoveredInv` |
| `EventStream_proofs` | `TypeOK`, `OpenIsRegistered`; the stream implements `Delivery` (`DeliversInOrder`) | `StreamInv` |
| `Requests_proofs` | `TypeOK`, `UsersHaveParts`, `BlockedAreShutOut`, `CountedAreOpen`, `ConnectionsBounded`, `AllowanceBounded` | `Orderly`, `Connected`, `PaidFor` |
| `Agent_proofs` | `UserData`: `TypeOK`, `SessionsBounded`, `NoOrphans`, `PromptsSpaced`; `AgentChat`: `AnswerTypeOK`, `ShownOnceInOrder`, `RememberedOnceInOrder`, `ShownExactly`, `RememberedExactly` | `Sound` with `Room`, `RunningHasSession`, `AskedAndDueIsLost`; `AnswerInv`, `ExactInv` |

**Blocks in the database.**  `NeverOverblocks` speaks of all tasks under way and not only of the
database, which makes it inductive with `TypeOK`: a write stores a task, a put moves one, a call
only ever extends or ends its entity's block, and time only weakens the claim.  `Synced` adds
`WaitersAreLost` - whoever has a task in the hands of a waiting call is `lost` - since otherwise
a late put could append an old block behind a newer one.  `WrittenBlocksSurvive`, an action
property, follows by cases on whether the interrupted write reached the database.  The
arithmetic of how many tasks fit is in `HandOverFacts`, the cases of a call in `OutcomeFacts`.

**Statistics in the database.**  `ChangesArePending` is not inductive by itself: a push under way
may hold an old version, and storing it would hide that memory has gone on.  `LateIsMarked`
says that such an entity is marked again.

**Observers.**  That a counter is over its limit only with a block is not inductive either: a
block set for a day must still last when the same day's counter is read, and a lift in between
resets nothing.  `CoveredInv` says of each entity until when its block lasts if a counter of the
day is over its limit (the day's end), if the minute's is (its end), and that an entity
without a day has zeros.  One lemma per step of `ObserverOps` says how it changes what is covered;
a method's proof composes them in the method's order.  The cleanup forgets only entities whose
blocks have ended (`ForgetKeeps`), which is what makes its steps steps of `BlockRegistry`.  The
same lemmas say that a section's outcome on the block is one of the `Outcomes`, so that each
observer's step is a `Call`, `Idle` or `Tick` of the registry.  `EscalationKept` of the token
observer is stated in `TokenObserver_proofs` and in no run.

**The stream.**  Where the messages for a connection are is a chain: it has got some, one may be
going out, some wait in its queue, one is at the forwarder, some are on the bus, and some
producers are putting one there.  `InOrder` says that, producer by producer, what is further
along was published earlier; `Published`, that it is in the log and for this connection;
`Complete`, that a message for the connection itself is somewhere in the chain unless the
connection was cut off before it (`Cut`: closed, or out of the registry, with nothing later having
passed); `Managed`, what a new or closed connection and a stopped forwarder cannot have.  Of each
delivery the invariant gives the guard of `Delivery`'s action.  `OpenIsRegistered` needs only
`TypeOK`.

**Requests.**  `Orderly` says what the rest of a request's plan looks like (`Shaped`): checks come
before what they protect, a slot before each message, leaving last, and every identity blocked
since the request came has still to be checked (`Regular`) - whence `BlockedAreShutOut`.  Of the process it
says how far its own plan has come (`Staged`: what is up is what has been started and not yet
stopped; parts start after, and stop before, what they use) and that nobody is served outside the
serving phase (`Quiet`) - whence `UsersHaveParts`.  `Connected` adds that connections are one
request's each, that a counted connection is of an open chat or was refused, and that a chat that
entered found room: the sets counted in it change by one element at a time, which is where
`RequestsAssumption` needs finitely many requests.  `PaidFor` weighs messages served against slots
held: each open chat holds at most the one in advance.

**User data.**  Each claim relates a read to a later write, and the invariant says what is still true
of the read: a chat that has counted the sessions and not yet inserted is counted with the documents
(`Room`); a chat about to insert memories has a document of its session or has been marked by
the deletion that took it (`RunningHasSession`); a user who was asked and is due all the same is
`lost` (`AskedAndDueIsLost`).

**Answers: once and in order.**  The model's text is numbered (`Numbered`), so a place says which
character it is.  The buffer is always the end of the text (`Stretch`); what comes before it is
settled (`Settled`): decided once and for all.  `Standing` adds that while a block is parsed the
buffer begins with a brace and there is no current message, that otherwise the buffer is empty,
and that the content items and the current message are a `Chain`: pieces that rise, one after the
other, from this depth's begin to the settled place.  `ShownSettled` says the like of what
was sent.  A delta only moves the settled place on, and what it sends or saves lies between the old
place and the new one (`Answered`, `DeltaOrder`); a chain goes on with a piece beyond its end
(`ChainAppend`, `ChainGrow`).  `NumbersFollow` keeps the manager's counter equal to the number of
responses of its depth, a cardinality that grows by one with each.  `AddDeltaEffect` reduces
the parser to one list of cases, of which every later lemma is a proof by cases.

**Answers: nothing missing.**  `ShownExactly` compares the sent places with a definition over the whole
text, and would be an induction over the text if it were proved from that definition.
It is proved from the steps instead: `Exact` says that sent are the prose and the blocks that
parse up to the settled place, that no block goes on there (`Fresh`) and that the buffer has no
line feed.  The lemmas `ProseOn`, `BlockGoesOn` and `BlockEnds` say how prose and blocks up to one place
extend to a later one, if there is prose in between, or a block that goes on, or one that ends;
`CutFacts` says that these are all there is if neither of the two cuts happened.  What is in
the buffer is neither prose nor a complete block (`OpenFacts`), whence the claim about all of the
text.  `Kept` adds for `RememberedExactly` that the places sent are those of the content items and the
current message; at the end `Finish` appends the buffer, the open block, and `Strip` takes only
line feeds away (`StripPlaces`).  An answer that is done keeps both claims, as no step changes it.

**Assumptions.**  Limits and capacities are natural numbers, positive where the code needs them so.
Beyond that: the clock's bound reaches the first day's end (`CalendarAssumption`), the counts of
input tokens have a largest (`UserAssumption`; the code refuses longer inputs), blocks for daily limits
last a day (as configured), connection ids are no user ids (`StreamAssumption`; a message names
one or the other), requests and connections are finitely many.

**Only model-checked.**  Liveness (`BlockReachesDb`, `ChangesReachDb`, `DeliveredUnlessStuck`,
`ClosedAtShutdown`) and everything with ENABLED, which is out of the reach of TLAPS.  The two runs
that expect a violation.

## 5. Not modelled, and the plan

Modelled first: the blocks and statistics, since the system's protection rests on them, then the
stream, since every answer passes through it, then the requests, answers, user data and the
lifecycle around them.  What is left is `Requests` with several clients behind one IP address, and
with more than one limiter, if TLC's reach allows.

Not modelled, and why: JWT (calls into a library), prompts, retrieval and observability (text and
I/O without state of their own), the corpus worker (a script run by hand, apart from the service),
the database and model clients but for their start and close.  Within modelled parts: the
language preference, session names, the times of last activity and the delays of prompts, which
only say who is inactive or due; the limiters of the dependencies, which only refuse.
