-------------------------------- MODULE StatsPush --------------------------------
(***************************************************************************)
(* How the user and the IP observer get their usage statistics into the    *)
(* database, and out of it: the set of entities to update, the periodic    *)
(* push of a snapshot by one bulk write, its failure, the cleanup that     *)
(* forgets entities and then deletes their records, and a restart.  Both   *)
(* observers do it alike.                                                  *)
(*                                                                         *)
(* The statistics of an entity are a version: each change of any entity's  *)
(* statistics is a new one, higher than all before.  The names are apart   *)
(* from those of BlockWriteBack, so that one module can speak of both.     *)
(***************************************************************************)
EXTENDS Naturals, FiniteSets, Entities

CONSTANT MaxChanges     \* bound: changes of statistics

ASSUME StatsAssumption == MaxChanges \in Nat

VARIABLES
    changes,    \* the latest version
    stats,      \* _user_stats or _ip_usage_stats
    request,    \* last_api_request_at: "never", "recent" or "old" (past the retention)
    toUpdate,   \* _users_to_update, _ips_to_update
    pushed,     \* the entities of the push under way
    snapshot,   \* what it has still to write
    deleting,   \* the entities whose records a cleanup has still to delete
    records,    \* the records in USER_USAGE_STATS or IP_USAGE_STATS
    unmarked    \* auxiliary: entities whose record is out of date without being
                \* in toUpdate, by a change that marks nothing or a late deletion

statsVars == <<changes, stats, request, toUpdate, pushed, snapshot, deleting, records, unmarked>>
push == <<pushed, snapshot>>

None    == 0
Version == 0 .. MaxChanges

StatsTypeOK ==
    /\ changes \in Version
    /\ stats \in [Entity -> Version]
    /\ request \in [Entity -> {"never", "recent", "old"}]
    /\ toUpdate \subseteq Entity
    /\ pushed \subseteq Entity
    /\ snapshot \in [Entity -> Version]
    /\ \A e \in Entity : snapshot[e] # None => e \in pushed
    /\ deleting \subseteq Entity
    /\ records \in [Entity -> Version]
    /\ unmarked \subseteq Entity

Nothing == [e \in Entity |-> None]

StatsInit ==
    /\ changes = 0
    /\ stats = Nothing
    /\ request = [e \in Entity |-> "never"]
    /\ toUpdate = {}
    /\ pushed = {}
    /\ snapshot = Nothing
    /\ deleting = {}
    /\ records = Nothing
    /\ unmarked = {}
-------------------------------------------------------------------------------
Change(e) ==
    /\ changes < MaxChanges
    /\ changes' = changes + 1
    /\ stats' = [stats EXCEPT ![e] = changes + 1]

\* An update of the statistics.  Only update_latest_request dates it; the others
\* (WebSocket connections, input tokens, bad requests, ...) do not.
Update(e) ==
    /\ Change(e)
    /\ request' \in {request, [request EXCEPT ![e] = "recent"]}
    /\ toUpdate' = toUpdate \cup {e}
    /\ unmarked' = unmarked \ {e}
    /\ UNCHANGED <<push, deleting, records>>

\* is_user_blocked and is_ip_blocked reset the statistics on a new day, and do
\* not mark that.
ResetInCheck(e) ==
    /\ stats[e] # None
    /\ Change(e)
    /\ unmarked' = IF e \in toUpdate THEN unmarked ELSE unmarked \cup {e}
    /\ UNCHANGED <<request, toUpdate, push, deleting, records>>

\* Time passes: the last request is now older than the retention time.
Age(e) ==
    /\ request[e] = "recent"
    /\ request' = [request EXCEPT ![e] = "old"]
    /\ UNCHANGED <<changes, stats, toUpdate, push, deleting, records, unmarked>>
-------------------------------------------------------------------------------
(***************************************************************************)
(* _push_stats_to_db: snapshot and update set under the lock, and without  *)
(* suspending on to the bulk write, which stores record after record.      *)
(* There is one push at a time.                                            *)
(***************************************************************************)
\* Faulty variant: the push waits until enough entities have to be updated.
StartPushFault ==
    /\ pushed = {} /\ Cardinality(toUpdate) > 1
    /\ pushed' = toUpdate
    /\ snapshot' = [e \in Entity |-> IF e \in toUpdate THEN stats[e] ELSE None]
    /\ toUpdate' = {}
    /\ UNCHANGED <<changes, stats, request, deleting, records, unmarked>>

StartPush ==
    /\ pushed = {} /\ toUpdate # {}
    /\ pushed' = toUpdate
    /\ snapshot' = [e \in Entity |-> IF e \in toUpdate THEN stats[e] ELSE None]
    /\ toUpdate' = {}
    /\ UNCHANGED <<changes, stats, request, deleting, records, unmarked>>

\* Faulty variant: a stored record clears the mark that an update set meanwhile.
StoreFault(e) ==
    /\ snapshot[e] # None
    /\ records' = [records EXCEPT ![e] = snapshot[e]]
    /\ snapshot' = [snapshot EXCEPT ![e] = None]
    /\ toUpdate' = toUpdate \ {e}
    /\ UNCHANGED <<changes, stats, request, pushed, deleting, unmarked>>

Store(e) ==
    /\ snapshot[e] # None
    /\ records' = [records EXCEPT ![e] = snapshot[e]]
    /\ snapshot' = [snapshot EXCEPT ![e] = None]
    /\ UNCHANGED <<changes, stats, request, toUpdate, pushed, deleting, unmarked>>

PushDone ==
    /\ pushed # {} /\ snapshot = Nothing
    /\ pushed' = {}
    /\ UNCHANGED <<changes, stats, request, toUpdate, snapshot, deleting, records, unmarked>>

\* Faulty variant: what could not be written stays for the next push.
PushFailsFault ==
    /\ pushed # {}
    /\ toUpdate' = toUpdate \cup pushed
    /\ pushed' = {}
    /\ UNCHANGED <<changes, stats, request, snapshot, deleting, records, unmarked>>

\* Some records may be stored; all the entities are pushed again.
PushFails ==
    /\ pushed # {}
    /\ toUpdate' = toUpdate \cup pushed
    /\ pushed' = {}
    /\ snapshot' = Nothing
    /\ UNCHANGED <<changes, stats, request, deleting, records, unmarked>>
-------------------------------------------------------------------------------
(***************************************************************************)
(* _cleanup forgets entities with an old last request (some of them: those *)
(* with a block stay) and then deletes their records, in batches and with- *)
(* out the lock.  Neither the update set nor a push under way is touched.  *)
(***************************************************************************)
Forgettable(e) == stats[e] # None /\ request[e] = "old"

Forget ==
    \E F \in SUBSET {e \in Entity : Forgettable(e)} :
        /\ deleting = {} /\ F # {}
        /\ stats' = [e \in Entity |-> IF e \in F THEN None ELSE stats[e]]
        /\ request' = [e \in Entity |-> IF e \in F THEN "never" ELSE request[e]]
        /\ deleting' = F
        /\ unmarked' = unmarked \ F
        /\ UNCHANGED <<changes, toUpdate, push, records>>

\* A record that an entity has got since it was forgotten is deleted too.
DeleteBatch ==
    \E batch \in SUBSET deleting :
        /\ batch # {}
        /\ records' = [e \in Entity |-> IF e \in batch THEN None ELSE records[e]]
        /\ deleting' = deleting \ batch
        /\ unmarked' = unmarked \cup
            {e \in batch : stats[e] # None /\ e \notin toUpdate /\ snapshot[e] # stats[e]}
        /\ UNCHANGED <<changes, stats, request, toUpdate, push>>

DeleteFails ==
    /\ deleting # {}
    /\ deleting' = {}
    /\ UNCHANGED <<changes, stats, request, toUpdate, push, records, unmarked>>

\* stop cancels the push and the cleanup where they are; start loads no statistics.
StatsRestart ==
    /\ stats' = Nothing
    /\ request' = [e \in Entity |-> "never"]
    /\ toUpdate' = {}
    /\ pushed' = {}
    /\ snapshot' = Nothing
    /\ deleting' = {}
    /\ unmarked' = {}
    /\ UNCHANGED <<changes, records>>

StatsNext ==
    \/ \E e \in Entity : Update(e) \/ ResetInCheck(e) \/ Age(e) \/ Store(e)
    \/ StartPush \/ PushDone \/ PushFails
    \/ Forget \/ DeleteBatch \/ DeleteFails
    \/ StatsRestart

StatsSpec == StatsInit /\ [][StatsNext]_statsVars

\* The two background tasks are scheduled and their database operations end.
FairStatsSpec ==
    /\ StatsSpec
    /\ WF_statsVars(StartPush)
    /\ WF_statsVars(PushDone \/ PushFails \/ \E e \in Entity : Store(e))
    /\ WF_statsVars(DeleteBatch \/ DeleteFails)
-------------------------------------------------------------------------------
(***************************************************************************)
(* A record that differs from the statistics in memory is on its way: the  *)
(* entity is marked, or the push under way holds its latest statistics -   *)
(* whatever fails half-way, is deleted late or is forgotten and returns.   *)
(***************************************************************************)
ChangesArePending ==
    \A e \in Entity \ unmarked :
        stats[e] # None /\ records[e] # stats[e] => e \in toUpdate \/ snapshot[e] = stats[e]

\* Once pushes have stopped failing, marked statistics are stored, unless they
\* change first.
ChangesReachDb ==
    <>[][~PushFails]_statsVars =>
        \A e \in Entity, v \in 1 .. MaxChanges :
            stats[e] = v ~> records[e] = v \/ stats[e] # v \/ e \in unmarked
===============================================================================
