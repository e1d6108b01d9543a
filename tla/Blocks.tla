-------------------------------- MODULE Blocks --------------------------------
(***************************************************************************)
(* What the three security observers (user, IP, token) have in common      *)
(* about a block: a block is the second until which an entity stays        *)
(* blocked, and every change of a block is also told to the database by a  *)
(* write-back task.  Reason and blocked_at are for people and left out.    *)
(***************************************************************************)
EXTENDS Naturals, Sequences, Entities

CONSTANTS
    MaxTime,    \* bound: the last second the clock reaches
    MaxBlock    \* the longest block, in seconds

ASSUME BlocksAssumption ==
    /\ MaxTime \in Nat
    /\ MaxBlock \in Nat \ {0}

NoBlock == 0
Until   == 1 .. (MaxTime + MaxBlock)
Block   == Until \cup {NoBlock}

(***************************************************************************)
(* A DbWriteBackTask.  PUSH_BLOCKED_ENTITY carries a copy of the block;    *)
(* DELETE_BLOCKED_ENTITY is the task with until = NoBlock.  Either way the *)
(* task's effect on the database is to store its until.                    *)
(***************************************************************************)
Task == [id : Entity, until : Block]

PushTask(e, until) == [id |-> e, until |-> until]
DeleteTask(e)      == [id |-> e, until |-> NoBlock]

(***************************************************************************)
(* What one call about e may do to its block b at time t, and the tasks it *)
(* hands to the write-back queue.  An expired block may be lifted; a       *)
(* violation sets a block that ends in the future and not before the       *)
(* present one.  A call may do both, in that order.                        *)
(***************************************************************************)
Lifts(e, b, t) == IF b # NoBlock /\ b <= t THEN {<<>>, <<DeleteTask(e)>>} ELSE {<<>>}

Kept(b) == {[until |-> b, tasks |-> <<>>]}

Lifted(e, b, t) ==
    {[until |-> NoBlock, tasks |-> ts] : ts \in Lifts(e, b, t) \ {<<>>}}

\* Faulty variant: a new block may cut the present one short.
ImposedFault(e, b, t) ==
    {[until |-> u, tasks |-> Append(ts, PushTask(e, u))] :
        u \in {x \in Until : x > t}, ts \in Lifts(e, b, t)}

Imposed(e, b, t) ==
    {[until |-> u, tasks |-> Append(ts, PushTask(e, u))] :
        u \in {x \in Until : x > t /\ x >= b}, ts \in Lifts(e, b, t)}

Outcomes(e, b, t) == Kept(b) \cup Lifted(e, b, t) \cup Imposed(e, b, t)
===============================================================================
