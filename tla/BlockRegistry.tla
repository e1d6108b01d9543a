----------------------------- MODULE BlockRegistry -----------------------------
(***************************************************************************)
(* What an observer promises about blocks, whatever it counts: a block in  *)
(* force is neither lifted nor shortened before its time, and the tasks a  *)
(* call hands over tell the database exactly what the call did in memory.  *)
(* The observers implement this specification (BlockRegistry is a PROPERTY *)
(* of their runs), and BlockWriteBack builds on the same Outcomes.         *)
(***************************************************************************)
EXTENDS Blocks

VARIABLES
    now,        \* get_timestamp_s()
    blocked,    \* _blocked_users, _blocked_ips or _blocked_tokens
    emitted     \* the write-back tasks of the latest call

vars == <<now, blocked, emitted>>

TypeOK ==
    /\ now \in 0 .. MaxTime
    /\ blocked \in [Entity -> Block]
    /\ emitted \in Seq(Task)

Init ==
    /\ now \in 0 .. MaxTime
    /\ blocked \in [Entity -> Block]     \* what the database held at start
    /\ emitted = <<>>

Tick ==
    /\ now' \in (now + 1) .. MaxTime
    /\ UNCHANGED <<blocked, emitted>>

Call(e) ==
    \E o \in Outcomes(e, blocked[e], now) :
        /\ blocked' = [blocked EXCEPT ![e] = o.until]
        /\ emitted' = o.tasks
        /\ UNCHANGED now

\* Background work (cleanup) that hands no task over and touches no block.
Idle ==
    /\ emitted' = <<>>
    /\ UNCHANGED <<now, blocked>>

Next == Tick \/ Idle \/ \E e \in Entity : Call(e)

Spec == Init /\ [][Next]_vars
===============================================================================
