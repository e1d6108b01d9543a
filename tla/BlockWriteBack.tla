----------------------------- MODULE BlockWriteBack -----------------------------
(***************************************************************************)
(* How a block gets from an observer's memory to the BLOCKED_ENTITIES      *)
(* collection and back: the write-back queue and its worker, the calls     *)
(* that wait for room in the queue, the database half of the cleanup, and  *)
(* a restart, which loads the blocks the database holds.  The three        *)
(* observers have the same pipeline.  What a call does to its entity's     *)
(* block is any of BlockRegistry's Outcomes, which each observer is        *)
(* checked to implement.                                                   *)
(***************************************************************************)
EXTENDS Blocks

CONSTANTS
    Caller,     \* calls into the observer that may be under way at once
    QueueCap    \* maxsize of _db_write_back_queue (1000)

ASSUME WriteBackAssumption == QueueCap \in Nat \ {0}

VARIABLES
    now,        \* get_timestamp_s()
    blocked,    \* the observer's map of blocks, in memory
    db,         \* the collection's records of this observer's entities
    pipe,       \* the task being written, if any, then the queue
    writing,    \* does the worker have the first task of pipe out of the queue?
    waiting,    \* the tasks a caller has not yet put, the first one timing out
    sweeping,   \* the entities whose records a cleanup is still deleting
    lost        \* auxiliary: entities of which a change has not been, and may
                \* never be, stored in the order it was made

vars == <<now, blocked, db, pipe, writing, waiting, sweeping, lost>>

Queued == IF writing THEN Len(pipe) - 1 ELSE Len(pipe)
Full   == Queued >= QueueCap

\* Is there a task of e in p?
Mentions(p, e) == \E i \in DOMAIN p : p[i].id = e

TypeOK ==
    /\ now \in 0 .. MaxTime
    /\ blocked \in [Entity -> Block]
    /\ db \in [Entity -> Block]
    /\ pipe \in Seq(Task)
    /\ writing \in BOOLEAN
    /\ waiting \in [Caller -> Seq(Task)]
    /\ sweeping \in SUBSET Entity
    /\ lost \in SUBSET Entity
    /\ Queued \in 0 .. QueueCap

Init ==
    /\ now \in 0 .. MaxTime
    /\ db \in [Entity -> Block]
    /\ blocked = db
    /\ pipe = <<>>
    /\ writing = FALSE
    /\ waiting = [c \in Caller |-> <<>>]
    /\ sweeping = {}
    /\ lost = {}
-------------------------------------------------------------------------------
Tick ==
    /\ now' \in (now + 1) .. MaxTime
    /\ UNCHANGED <<blocked, db, pipe, writing, waiting, sweeping, lost>>

(***************************************************************************)
(* A public method: the locked section changes the block, then, without    *)
(* suspending, _wait_for_db_task_queue puts the tasks one by one as long   *)
(* as the queue has room.  A put into a full queue makes the call wait.    *)
(* The call need not queue behind the calls that wait already.             *)
(***************************************************************************)
Room == QueueCap - Queued

\* The tasks that can be put now, and those that cannot.
Handed(tasks) == SubSeq(tasks, 1, IF Len(tasks) <= Room THEN Len(tasks) ELSE Room)
Held(tasks)   == SubSeq(tasks, Len(Handed(tasks)) + 1, Len(tasks))

HandOver(c, tasks) ==
    /\ pipe' = pipe \o Handed(tasks)
    /\ waiting' = [waiting EXCEPT ![c] = Held(tasks)]

\* A change whose tasks are all in the queue makes up for what went wrong with
\* earlier ones, unless a call with an earlier one still waits.
LostAfter(e, tasks) ==
    IF Held(tasks) # <<>> THEN lost \cup {e}
    ELSE IF tasks # <<>> /\ \A d \in Caller : ~Mentions(waiting[d], e)
    THEN lost \ {e}
    ELSE lost

\* Faulty variant: only the first of a call's tasks is handed over.
CallFault(c, e) ==
    /\ waiting[c] = <<>>
    /\ \E o \in Outcomes(e, blocked[e], now) :
        LET first == IF o.tasks = <<>> THEN <<>> ELSE <<Head(o.tasks)>>
        IN  /\ blocked' = [blocked EXCEPT ![e] = o.until]
            /\ HandOver(c, first)
            /\ lost' = LostAfter(e, first)
    /\ UNCHANGED <<now, db, writing, sweeping>>

Call(c, e) ==
    /\ waiting[c] = <<>>
    /\ \E o \in Outcomes(e, blocked[e], now) :
        /\ blocked' = [blocked EXCEPT ![e] = o.until]
        /\ HandOver(c, o.tasks)
        /\ lost' = LostAfter(e, o.tasks)
    /\ UNCHANGED <<now, db, writing, sweeping>>

\* A waiting call goes on once there is room; in which order the waiting calls
\* do so is open, since one that is overtaken waits anew at the end.
Put(c) ==
    /\ waiting[c] # <<>>
    /\ ~Full
    /\ HandOver(c, waiting[c])
    /\ UNCHANGED <<now, blocked, db, writing, sweeping, lost>>

\* After a second the call gives up, on this task and the ones after it.
TimeOut(c) ==
    /\ waiting[c] # <<>>
    /\ waiting' = [waiting EXCEPT ![c] = <<>>]
    /\ UNCHANGED <<now, blocked, db, pipe, writing, sweeping, lost>>
-------------------------------------------------------------------------------
(***************************************************************************)
(* The worker _process_db_write_back_tasks.  It waits for a first task;    *)
(* after each write it takes the next one at once, if there is one.        *)
(***************************************************************************)
\* Faulty variant: the worker leaves the last task in the queue.
GetFault ==
    /\ ~writing /\ Len(pipe) > 1
    /\ writing' = TRUE
    /\ UNCHANGED <<now, blocked, db, pipe, waiting, sweeping, lost>>

Get ==
    /\ ~writing /\ pipe # <<>>
    /\ writing' = TRUE
    /\ UNCHANGED <<now, blocked, db, pipe, waiting, sweeping, lost>>

\* Faulty variant: after the last task the worker thinks it has another one.
NextTaskFault ==
    /\ pipe' = Tail(pipe)
    /\ writing' = TRUE

NextTask ==
    /\ pipe' = Tail(pipe)
    /\ writing' = (Tail(pipe) # <<>>)

Stored(task) == [db EXCEPT ![task.id] = task.until]

\* Faulty variant: the exception of a write is taken for success.
WriteDoneFault ==
    /\ writing
    /\ db' \in {db, Stored(Head(pipe))}
    /\ NextTask
    /\ UNCHANGED <<now, blocked, waiting, sweeping, lost>>

WriteDone ==
    /\ writing
    /\ db' = Stored(Head(pipe))
    /\ NextTask
    /\ UNCHANGED <<now, blocked, waiting, sweeping, lost>>

\* An exception of the database is logged and the task is gone.
WriteFails ==
    /\ writing
    /\ NextTask
    /\ lost' = IF Mentions(Tail(pipe), Head(pipe).id) THEN lost
               ELSE lost \cup {Head(pipe).id}
    /\ UNCHANGED <<now, blocked, db, waiting, sweeping>>
-------------------------------------------------------------------------------
(***************************************************************************)
(* A cleanup picks unblocked entities under the lock (their age is not     *)
(* modelled here) and deletes their records in batches outside of it,      *)
(* without another look at the blocks.                                     *)
(***************************************************************************)
Sweep ==
    /\ sweeping = {}
    /\ sweeping' \in SUBSET {e \in Entity : blocked[e] = NoBlock}
    /\ sweeping' # {}
    /\ UNCHANGED <<now, blocked, db, pipe, writing, waiting, lost>>

SweepBatch ==
    \E batch \in SUBSET sweeping :
        /\ batch # {}
        /\ db' = [e \in Entity |-> IF e \in batch THEN NoBlock ELSE db[e]]
        /\ sweeping' = sweeping \ batch
        /\ lost' = lost \cup {e \in batch : blocked[e] # NoBlock /\ ~Mentions(pipe, e)}
        /\ UNCHANGED <<now, blocked, pipe, writing, waiting>>

\* The first failing batch ends the cleanup.
SweepFails ==
    /\ sweeping # {}
    /\ sweeping' = {}
    /\ UNCHANGED <<now, blocked, db, pipe, writing, waiting, lost>>

(***************************************************************************)
(* stop cancels the worker and the cleanup where they are and leaves the   *)
(* queue to be collected; a crash does the same.  The write under way may  *)
(* or may not reach the database.  start loads every record there is.      *)
(***************************************************************************)
Restart ==
    /\ db' \in {db} \cup (IF writing THEN {Stored(Head(pipe))} ELSE {})
    /\ blocked' = db'
    /\ pipe' = <<>>
    /\ writing' = FALSE
    /\ waiting' = [c \in Caller |-> <<>>]
    /\ sweeping' = {}
    /\ lost' = {}
    /\ UNCHANGED now

Next ==
    \/ Tick
    \/ \E c \in Caller : Put(c) \/ TimeOut(c) \/ \E e \in Entity : Call(c, e)
    \/ Get \/ WriteDone \/ WriteFails
    \/ Sweep \/ SweepBatch \/ SweepFails
    \/ Restart

Spec == Init /\ [][Next]_vars

\* The worker is scheduled and every database operation ends, one way or other.
FairSpec == Spec /\ WF_vars(Get) /\ WF_vars(WriteDone \/ WriteFails)
-------------------------------------------------------------------------------
\* Every block of e in tasks p that is still to end ends no later than the one
\* in memory.
Within(p, e) ==
    \A i \in DOMAIN p :
        p[i].id = e /\ p[i].until > now => p[i].until <= blocked[e]

(***************************************************************************)
(* Neither the database nor any task on its way there holds a block that   *)
(* outlasts the one in memory, whatever is reordered, dropped, retried by  *)
(* a later call, erased or interrupted: a restart never blocks anyone for  *)
(* longer than the observer had decided.                                   *)
(***************************************************************************)
NeverOverblocks ==
    \A e \in Entity :
        /\ db[e] > now => db[e] <= blocked[e]
        /\ Within(pipe, e)
        /\ \A c \in Caller : Within(waiting[c], e)

UpToDate(e) ==
    /\ ~Mentions(pipe, e) => db[e] = blocked[e]
    /\ \A i \in DOMAIN pipe :
        /\ pipe[i].id = e
        /\ \A j \in DOMAIN pipe : j > i => pipe[j].id # e
        => pipe[i].until = blocked[e]

(***************************************************************************)
(* As long as no call had to wait, no write failed and no cleanup erased   *)
(* it too late, the latest task of an entity on its way to the database,   *)
(* or else its record there, is its block in memory; and the next change   *)
(* after a loss restores that.                                             *)
(***************************************************************************)
InSync == \A e \in Entity \ lost : UpToDate(e)

\* A restart keeps the blocks that were not lost and have been written.
WrittenBlocksSurvive ==
    [][Restart => \A e \in Entity \ lost : ~Mentions(pipe, e) => blocked'[e] = blocked[e]]_vars

\* Once the database has stopped failing, a block that is not lost is stored,
\* unless it changes first.
BlockReachesDb ==
    <>[][~WriteFails]_vars =>
        \A e \in Entity, u \in Until :
            blocked[e] = u ~> db[e] = u \/ blocked[e] # u \/ e \in lost
===============================================================================
