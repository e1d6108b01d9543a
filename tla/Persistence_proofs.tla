-------------------------- MODULE Persistence_proofs --------------------------
(***************************************************************************)
(* Proofs about what the observers keep in the database: their blocks, for *)
(* any sets of entities and calls, any capacity of the queue and any       *)
(* length of time (BlockWriteBack), and at the end their usage statistics, *)
(* for any entities and number of changes (StatsPush).                     *)
(***************************************************************************)
EXTENDS BlockWriteBack, StatsPush, TLAPS

(***************************************************************************)
(* What one call does to its entity's block, and what it tells of it.      *)
(***************************************************************************)
LEMMA OutcomeFacts ==
    ASSUME NEW e \in Entity, NEW b \in Block, NEW t \in Nat,
           NEW o \in Outcomes(e, b, t)
    PROVE  /\ o.until \in Block
           /\ o.tasks \in Seq(Task)
           /\ \A i \in DOMAIN o.tasks : o.tasks[i].id = e
           /\ \A i \in DOMAIN o.tasks :
                o.tasks[i].until > t => o.tasks[i].until <= o.until
           /\ o.tasks = <<>> => o.until = b
           /\ o.tasks # <<>> => o.tasks[Len(o.tasks)].until = o.until
           /\ b > t => o.until >= b
<1>1. ASSUME NEW ts \in Lifts(e, b, t)
      PROVE  /\ ts \in Seq(Task) /\ Len(ts) \in {0, 1}
             /\ \A i \in DOMAIN ts : ts[i].id = e /\ ts[i].until = NoBlock
             /\ ts # <<>> => b <= t
             /\ ts # <<>> => Len(ts) = 1
  <2>1. CASE ts = <<>>
    BY <2>1
  <2>2. CASE ts = <<DeleteTask(e)>> /\ b <= t
    <3>1. /\ DeleteTask(e) \in Task
          /\ DeleteTask(e).id = e /\ DeleteTask(e).until = NoBlock
      BY DEF DeleteTask, Task, Block, NoBlock
    <3>2. Len(ts) = 1 /\ ts[1] = DeleteTask(e) /\ DOMAIN ts = {1}
      BY <2>2
    <3>3. ts \in Seq(Task)
      BY <2>2, <3>1
    <3> QED
      BY <2>2, <3>1, <3>2, <3>3
  <2> QED
    BY <1>1, <2>1, <2>2 DEF Lifts
<1>2. CASE o \in Kept(b)
  <2>1. o.until = b /\ o.tasks = <<>>
    BY <1>2 DEF Kept
  <2>2. o.tasks \in Seq(Task) /\ DOMAIN o.tasks = {}
    BY <2>1
  <2>3. b > t => o.until >= b
    BY <2>1, BlocksAssumption DEF Block, NoBlock, Until
  <2> QED
    BY <2>1, <2>2, <2>3
<1>3. CASE o \in Lifted(e, b, t)
  <2>1. PICK ts \in Lifts(e, b, t) \ {<<>>} : o = [until |-> NoBlock, tasks |-> ts]
    BY <1>3 DEF Lifted
  <2> QED
    BY <1>1, <2>1, BlocksAssumption DEF Block, NoBlock, Until
<1>4. CASE o \in Imposed(e, b, t)
  <2>1. PICK u \in Until, ts \in Lifts(e, b, t) :
            /\ u > t /\ u >= b
            /\ o = [until |-> u, tasks |-> Append(ts, PushTask(e, u))]
    BY <1>4 DEF Imposed
  <2>2. PushTask(e, u) \in Task /\ PushTask(e, u).id = e /\ PushTask(e, u).until = u
    BY DEF PushTask, Task, Block
  <2>3. /\ o.tasks \in Seq(Task)
        /\ Len(o.tasks) = Len(ts) + 1
        /\ o.tasks[Len(ts) + 1] = PushTask(e, u)
        /\ \A i \in DOMAIN o.tasks : i = Len(ts) + 1 \/ (i \in DOMAIN ts /\ o.tasks[i] = ts[i])
    BY <1>1, <2>1, <2>2
  <2> QED
    BY <1>1, <2>1, <2>2, <2>3, BlocksAssumption DEF Block, NoBlock, Until
<1> QED
  BY <1>2, <1>3, <1>4 DEF Outcomes

(***************************************************************************)
(* Handing over splits the tasks: a prefix is put, the rest is held back,  *)
(* and what is put fits.                                                   *)
(***************************************************************************)
LEMMA HandOverFacts ==
    ASSUME TypeOK, NEW tasks \in Seq(Task)
    PROVE  LET k == Len(Handed(tasks))
           IN  /\ Handed(tasks) \in Seq(Task) /\ Held(tasks) \in Seq(Task)
               /\ k \in 0 .. Len(tasks) /\ k <= Room
               /\ \A i \in DOMAIN Handed(tasks) : i \in DOMAIN tasks /\ Handed(tasks)[i] = tasks[i]
               /\ \A i \in DOMAIN Held(tasks) : i + k \in DOMAIN tasks /\ Held(tasks)[i] = tasks[i + k]
               /\ Held(tasks) = <<>> => k = Len(tasks)
               /\ Room \in Nat
<1>1. Room \in Nat
  BY WriteBackAssumption DEF TypeOK, Room, Queued
<1> DEFINE n == IF Len(tasks) <= Room THEN Len(tasks) ELSE Room
<1>2. n \in 0 .. Len(tasks) /\ n <= Room
  BY <1>1
<1>3. /\ Handed(tasks) = SubSeq(tasks, 1, n)
      /\ Len(Handed(tasks)) = n
      /\ Handed(tasks) \in Seq(Task)
      /\ \A i \in DOMAIN Handed(tasks) : i \in DOMAIN tasks /\ Handed(tasks)[i] = tasks[i]
  BY <1>2 DEF Handed
<1> HIDE DEF n
<1>4. /\ Held(tasks) = SubSeq(tasks, n + 1, Len(tasks))
      /\ Len(Held(tasks)) = Len(tasks) - n
      /\ Held(tasks) \in Seq(Task)
      /\ \A i \in DOMAIN Held(tasks) : i + n \in DOMAIN tasks /\ Held(tasks)[i] = tasks[i + n]
  BY <1>2, <1>3 DEF Held
<1>5. Held(tasks) = <<>> => n = Len(tasks)
  <2>1. Held(tasks) = <<>> => Len(Held(tasks)) = 0
    OBVIOUS
  <2> QED
    BY <1>2, <1>4, <2>1
<1> QED
  BY <1>1, <1>2, <1>3, <1>4, <1>5

(***************************************************************************)
(* Type correctness, with the queue never longer than its maxsize.         *)
(***************************************************************************)
LEMMA NoTasks == <<>> \in Seq(Task) /\ Len(<<>>) = 0
  OBVIOUS

\* Initially nothing is queued.
LEMMA TypeInit == Init => TypeOK
<1> SUFFICES ASSUME Init PROVE TypeOK
  OBVIOUS
<1>1. pipe \in Seq(Task) /\ Len(pipe) = 0 /\ writing = FALSE
  BY NoTasks DEF Init
<1>2. waiting \in [Caller -> Seq(Task)]
  BY NoTasks DEF Init
<1>3. Queued \in 0 .. QueueCap
  BY <1>1, WriteBackAssumption DEF Queued
<1> QED
  BY <1>1, <1>2, <1>3 DEF Init, TypeOK

\* What is put and what has still to be put are tasks.
LEMMA HandOverType ==
    ASSUME TypeOK, NEW tasks \in Seq(Task), NEW c \in Caller,
           HandOver(c, tasks), UNCHANGED writing
    PROVE  /\ pipe' \in Seq(Task)
           /\ waiting' \in [Caller -> Seq(Task)]
           /\ Queued' \in 0 .. QueueCap
<1> USE HandOverFacts
<1>1. pipe' \in Seq(Task) /\ Len(pipe') = Len(pipe) + Len(Handed(tasks))
  BY DEF HandOver, TypeOK
<1>2. waiting' \in [Caller -> Seq(Task)]
  BY DEF HandOver, TypeOK
<1>3. Len(pipe) \in Nat /\ Len(Handed(tasks)) \in Nat /\ Len(Handed(tasks)) <= QueueCap - Queued
  BY DEF TypeOK, Room
<1>4. Queued' \in 0 .. QueueCap
  BY <1>1, <1>3, WriteBackAssumption DEF TypeOK, Queued
<1> QED
  BY <1>1, <1>2, <1>4

\* Every step keeps the types and the bound of the queue.
LEMMA TypeNext == TypeOK /\ [Next]_vars => TypeOK'
<1> SUFFICES ASSUME TypeOK, [Next]_vars PROVE TypeOK'
  OBVIOUS
<1>1. CASE Tick
  BY <1>1, BlocksAssumption DEF Tick, TypeOK, Queued
<1>2. ASSUME NEW c \in Caller, Put(c) PROVE TypeOK'
  <2>1. waiting[c] \in Seq(Task)
    BY DEF TypeOK
  <2> QED
    BY <1>2, <2>1, HandOverType DEF Put, TypeOK
<1>3. ASSUME NEW c \in Caller, TimeOut(c) PROVE TypeOK'
  BY <1>3 DEF TimeOut, TypeOK, Queued
<1>4. ASSUME NEW c \in Caller, NEW e \in Entity, Call(c, e) PROVE TypeOK'
  <2>1. blocked[e] \in Block /\ now \in Nat
    BY DEF TypeOK
  <2>2. PICK o \in Outcomes(e, blocked[e], now) :
            /\ blocked' = [blocked EXCEPT ![e] = o.until]
            /\ HandOver(c, o.tasks)
            /\ lost' = LostAfter(e, o.tasks)
    BY <1>4 DEF Call
  <2>3. o.until \in Block /\ o.tasks \in Seq(Task)
    BY <2>1, OutcomeFacts
  <2>4. lost' \in SUBSET Entity
    BY <2>2 DEF LostAfter, TypeOK
  <2>5. UNCHANGED <<now, db, writing, sweeping>>
    BY <1>4 DEF Call
  <2>6. blocked' \in [Entity -> Block]
    BY <2>2, <2>3 DEF TypeOK
  <2> QED
    BY <2>2, <2>3, <2>4, <2>5, <2>6, HandOverType DEF TypeOK
<1>5. CASE Get
  BY <1>5, WriteBackAssumption DEF Get, TypeOK, Queued
<1>6. ASSUME NextTask, writing
      PROVE  pipe' \in Seq(Task) /\ writing' \in BOOLEAN /\ Queued' \in 0 .. QueueCap
  <2>1. pipe \in Seq(Task) /\ Len(pipe) \in 1 .. QueueCap + 1 /\ pipe # <<>>
    BY <1>6, NoTasks, WriteBackAssumption DEF TypeOK, Queued
  <2>2. pipe' \in Seq(Task) /\ Len(pipe') = Len(pipe) - 1
    BY <1>6, <2>1 DEF NextTask
  <2>3. writing' = (Len(pipe') # 0)
    BY <1>6, <2>2 DEF NextTask
  <2>4. CASE Len(pipe') = 0
    <3>1. writing' = FALSE
      BY <2>3, <2>4
    <3>2. Queued' = 0
      BY <2>4, <3>1 DEF Queued
    <3>3. 0 \in 0 .. QueueCap
      BY WriteBackAssumption
    <3> QED
      BY <2>2, <3>1, <3>2, <3>3
  <2>5. CASE Len(pipe') # 0
    <3>1. writing' = TRUE
      BY <2>3, <2>5
    <3> QED
      BY <2>1, <2>2, <2>5, <3>1, WriteBackAssumption DEF Queued
  <2> QED
    BY <2>4, <2>5
<1>7. writing => Head(pipe) \in Task
  BY DEF TypeOK, Queued
<1>8. CASE WriteDone
  <2>1. db' \in [Entity -> Block]
    BY <1>7, <1>8 DEF WriteDone, Stored, Task, TypeOK
  <2> QED
    BY <1>6, <1>8, <2>1 DEF WriteDone, TypeOK
<1>9. CASE WriteFails
  <2>1. lost' \in SUBSET Entity
    BY <1>7, <1>9 DEF WriteFails, Task, TypeOK
  <2> QED
    BY <1>6, <1>9, <2>1 DEF WriteFails, TypeOK
<1>10. CASE Sweep
  BY <1>10 DEF Sweep, TypeOK, Queued
<1>11. CASE SweepBatch
  BY <1>11 DEF SweepBatch, TypeOK, Queued, Block
<1>12. CASE SweepFails
  BY <1>12 DEF SweepFails, TypeOK, Queued
<1>13. CASE Restart
  <2>1. db' \in [Entity -> Block]
    <3>1. writing => Stored(Head(pipe)) \in [Entity -> Block]
      BY <1>7 DEF Stored, Task, TypeOK
    <3> QED
      BY <1>13, <3>1 DEF Restart, TypeOK
  <2>2. pipe' = <<>> /\ writing' = FALSE /\ waiting' = [c \in Caller |-> <<>>]
    BY <1>13 DEF Restart
  <2>3. pipe' \in Seq(Task) /\ Queued' \in 0 .. QueueCap
    BY <2>2, NoTasks, WriteBackAssumption DEF Queued
  <2>4. waiting' \in [Caller -> Seq(Task)]
    BY <2>2, NoTasks
  <2> QED
    BY <1>13, <2>1, <2>2, <2>3, <2>4 DEF Restart, TypeOK
<1>14. CASE UNCHANGED vars
  BY <1>14 DEF vars, TypeOK, Queued
<1> QED
  BY <1>1, <1>2, <1>3, <1>4, <1>5, <1>8, <1>9, <1>10, <1>11, <1>12, <1>13, <1>14 DEF Next

\* Every variable keeps its type and the queue its bound.
THEOREM TypeCorrect == Spec => []TypeOK
<1>1. Init => TypeOK
  BY TypeInit
<1>2. TypeOK /\ [Next]_vars => TypeOK'
  BY TypeNext
<1> QED
  BY <1>1, <1>2, PTL DEF Spec
-------------------------------------------------------------------------------
(***************************************************************************)
(* Where the tasks in the pipe and with the callers come from.             *)
(***************************************************************************)
LEMMA HandOverTasks ==
    ASSUME TypeOK, NEW tasks \in Seq(Task), NEW c \in Caller, HandOver(c, tasks)
    PROVE  /\ Len(pipe') = Len(pipe) + Len(Handed(tasks))
           /\ \A i \in DOMAIN pipe : i \in DOMAIN pipe' /\ pipe'[i] = pipe[i]
           /\ \A i \in DOMAIN pipe' \ DOMAIN pipe :
                /\ i - Len(pipe) \in DOMAIN tasks
                /\ pipe'[i] = tasks[i - Len(pipe)]
           /\ waiting' = [waiting EXCEPT ![c] = Held(tasks)]
           /\ \A i \in DOMAIN Held(tasks) : \E j \in DOMAIN tasks : Held(tasks)[i] = tasks[j]
<1>1. /\ Handed(tasks) \in Seq(Task)
      /\ \A i \in DOMAIN Handed(tasks) : i \in DOMAIN tasks /\ Handed(tasks)[i] = tasks[i]
      /\ \A i \in DOMAIN Held(tasks) : \E j \in DOMAIN tasks : Held(tasks)[i] = tasks[j]
  BY HandOverFacts
<1>2. pipe' = pipe \o Handed(tasks) /\ pipe \in Seq(Task)
  BY DEF HandOver, TypeOK
<1>3. /\ Len(pipe') = Len(pipe) + Len(Handed(tasks))
      /\ \A i \in DOMAIN pipe : i \in DOMAIN pipe' /\ pipe'[i] = pipe[i]
      /\ \A i \in DOMAIN pipe' \ DOMAIN pipe :
            i - Len(pipe) \in DOMAIN Handed(tasks) /\ pipe'[i] = Handed(tasks)[i - Len(pipe)]
  BY <1>1, <1>2
<1> QED
  BY <1>1, <1>3 DEF HandOver

\* What the worker takes next was in the queue, and the rest moves up.
LEMMA NextTaskTasks ==
    ASSUME TypeOK, writing, NextTask
    PROVE  /\ 1 \in DOMAIN pipe /\ Head(pipe) = pipe[1] /\ pipe[1] \in Task
           /\ \A i \in DOMAIN pipe' : i + 1 \in DOMAIN pipe /\ pipe'[i] = pipe[i + 1]
           /\ \A i \in DOMAIN pipe : i > 1 => i - 1 \in DOMAIN pipe' /\ pipe'[i - 1] = pipe[i]
<1>1. pipe \in Seq(Task) /\ Len(pipe) \in Nat /\ Len(pipe) >= 1
  BY WriteBackAssumption DEF TypeOK, Queued
<1>2. pipe # <<>>
  BY <1>1, NoTasks
<1>3. pipe' = Tail(pipe)
  BY DEF NextTask
<1> QED
  BY <1>1, <1>2, <1>3
-------------------------------------------------------------------------------
(***************************************************************************)
(* The database, the queue and the waiting calls hold no block that        *)
(* outlasts the one in memory.                                             *)
(***************************************************************************)
Safe == TypeOK /\ NeverOverblocks

\* A call never lets a block in force end earlier, and tells of the block it left.
LEMMA SafeCall ==
    ASSUME Safe, NEW c \in Caller, NEW e \in Entity, Call(c, e)
    PROVE  NeverOverblocks'
<1>1. blocked[e] \in Block /\ now \in Nat /\ blocked \in [Entity -> Block]
  BY DEF Safe, TypeOK
<1>2. PICK o \in Outcomes(e, blocked[e], now) :
          /\ blocked' = [blocked EXCEPT ![e] = o.until]
          /\ HandOver(c, o.tasks)
  BY DEF Call
<1>3. /\ o.until \in Block
      /\ o.tasks \in Seq(Task)
      /\ \A i \in DOMAIN o.tasks : o.tasks[i].id = e
      /\ \A i \in DOMAIN o.tasks : o.tasks[i].until > now => o.tasks[i].until <= o.until
      /\ blocked[e] > now => o.until >= blocked[e]
  BY <1>1, OutcomeFacts
<1>4. UNCHANGED <<now, db>>
  BY DEF Call
<1> SUFFICES ASSUME NEW x \in Entity
             PROVE  /\ db'[x] > now' => db'[x] <= blocked'[x]
                    /\ Within(pipe, x)'
                    /\ \A d \in Caller : Within(waiting[d], x)'
  BY DEF NeverOverblocks
<1>5. blocked[x] \in Nat /\ blocked'[x] \in Nat /\ db[x] \in Nat
  BY <1>1, <1>2, <1>3, BlocksAssumption DEF Safe, TypeOK, Block, Until, NoBlock
<1>6. blocked[x] > now => blocked'[x] >= blocked[x]
  BY <1>1, <1>2, <1>3, <1>5
<1>7. /\ db[x] > now => db[x] <= blocked[x]
      /\ Within(pipe, x)
      /\ \A d \in Caller : Within(waiting[d], x)
  BY DEF Safe, NeverOverblocks
<1>8. \A j \in DOMAIN o.tasks :
          o.tasks[j].id = x /\ o.tasks[j].until > now => o.tasks[j].until <= blocked'[x]
  BY <1>1, <1>2, <1>3
<1>9. /\ \A i \in DOMAIN pipe : i \in DOMAIN pipe' /\ pipe'[i] = pipe[i]
      /\ \A i \in DOMAIN pipe' \ DOMAIN pipe :
            /\ i - Len(pipe) \in DOMAIN o.tasks
            /\ pipe'[i] = o.tasks[i - Len(pipe)]
      /\ waiting' = [waiting EXCEPT ![c] = Held(o.tasks)]
      /\ \A i \in DOMAIN Held(o.tasks) : \E j \in DOMAIN o.tasks : Held(o.tasks)[i] = o.tasks[j]
  BY <1>2, <1>3, HandOverTasks DEF Safe
<1>10. ASSUME NEW p \in Seq(Task), Within(p, x), NEW i \in DOMAIN p,
              p[i].id = x, p[i].until > now
       PROVE  p[i].until <= blocked'[x]
  <2>1. p[i].until \in Nat
    <3>1. p[i] \in Task
      BY <1>10
    <3> QED
      BY <3>1, BlocksAssumption DEF Task, Block, Until, NoBlock
  <2>2. p[i].until <= blocked[x]
    BY <1>10 DEF Within
  <2> QED
    BY <1>1, <1>5, <1>6, <1>10, <2>1, <2>2
<1>11. db'[x] > now' => db'[x] <= blocked'[x]
  BY <1>1, <1>4, <1>5, <1>6, <1>7
<1>12. Within(pipe, x)'
  <2> SUFFICES ASSUME NEW i \in DOMAIN pipe', pipe'[i].id = x, pipe'[i].until > now
               PROVE  pipe'[i].until <= blocked'[x]
    BY <1>4 DEF Within
  <2>1. CASE i \in DOMAIN pipe
    BY <1>7, <1>9, <1>10, <2>1 DEF Safe, TypeOK
  <2>2. CASE i \notin DOMAIN pipe
    BY <1>8, <1>9, <2>2
  <2> QED
    BY <2>1, <2>2
<1>13. ASSUME NEW d \in Caller PROVE Within(waiting[d], x)'
  <2> SUFFICES ASSUME NEW i \in DOMAIN waiting'[d],
                      waiting'[d][i].id = x, waiting'[d][i].until > now
               PROVE  waiting'[d][i].until <= blocked'[x]
    BY <1>4 DEF Within
  <2>1. CASE d = c
    BY <1>8, <1>9, <2>1 DEF Safe, TypeOK
  <2>2. CASE d # c
    <3>1. waiting'[d] = waiting[d] /\ waiting[d] \in Seq(Task)
      BY <1>9, <2>2 DEF Safe, TypeOK
    <3> QED
      BY <1>7, <1>10, <3>1
  <2> QED
    BY <2>1, <2>2
<1> QED
  BY <1>11, <1>12, <1>13

\* No step lets the database or a task outlast memory.
LEMMA SafeNext == Safe /\ [Next]_vars => NeverOverblocks'
<1> SUFFICES ASSUME Safe, [Next]_vars PROVE NeverOverblocks'
  OBVIOUS
<1> USE DEF Safe
<1>1. /\ now \in Nat /\ blocked \in [Entity -> Block] /\ db \in [Entity -> Block]
      /\ pipe \in Seq(Task) /\ waiting \in [Caller -> Seq(Task)]
  BY DEF TypeOK
<1>2. /\ now' \in Nat /\ pipe' \in Seq(Task) /\ waiting' \in [Caller -> Seq(Task)]
      /\ blocked' \in [Entity -> Block]
  BY TypeNext DEF TypeOK
<1>3. \A b \in Block : b \in Nat
  BY BlocksAssumption DEF Block, Until, NoBlock
<1>4. \A x \in Entity : /\ db[x] > now => db[x] <= blocked[x]
                        /\ Within(pipe, x)
                        /\ \A c \in Caller : Within(waiting[c], x)
  BY DEF NeverOverblocks
<1>5. CASE Tick
  <2>1. now' > now /\ UNCHANGED <<blocked, db, pipe, waiting>>
    BY <1>1, <1>5, BlocksAssumption DEF Tick, TypeOK
  <2>2. ASSUME NEW p \in Seq(Task), NEW x \in Entity, Within(p, x), NEW i \in DOMAIN p,
              p[i].id = x, p[i].until > now'
        PROVE  p[i].until <= blocked[x]
    <3>1. p[i].until \in Nat
      <4>1. p[i] \in Task
        BY <2>2
      <4> QED
        BY <1>3, <4>1 DEF Task
    <3> QED
      BY <1>1, <1>2, <2>1, <2>2, <3>1 DEF Within
  <2>3. ASSUME NEW x \in Entity
        PROVE  Within(pipe, x)' /\ \A c \in Caller : Within(waiting[c], x)'
    BY <1>1, <1>4, <2>1, <2>2 DEF Within
  <2>4. ASSUME NEW x \in Entity PROVE db'[x] > now' => db'[x] <= blocked'[x]
    BY <1>1, <1>2, <1>3, <1>4, <2>1
  <2> QED
    BY <2>3, <2>4 DEF NeverOverblocks
<1>6. ASSUME NEW c \in Caller, Put(c) PROVE NeverOverblocks'
  <2>1. waiting[c] \in Seq(Task) /\ HandOver(c, waiting[c]) /\ UNCHANGED <<now, blocked, db>>
    BY <1>1, <1>6 DEF Put
  <2>2. /\ \A i \in DOMAIN pipe : i \in DOMAIN pipe' /\ pipe'[i] = pipe[i]
        /\ \A i \in DOMAIN pipe' \ DOMAIN pipe :
              /\ i - Len(pipe) \in DOMAIN waiting[c]
              /\ pipe'[i] = waiting[c][i - Len(pipe)]
        /\ waiting' = [waiting EXCEPT ![c] = Held(waiting[c])]
        /\ \A i \in DOMAIN Held(waiting[c]) :
              \E j \in DOMAIN waiting[c] : Held(waiting[c])[i] = waiting[c][j]
    BY <2>1, HandOverTasks
  <2>3. ASSUME NEW x \in Entity PROVE Within(pipe, x)'
    <3> SUFFICES ASSUME NEW i \in DOMAIN pipe', pipe'[i].id = x, pipe'[i].until > now
                 PROVE  pipe'[i].until <= blocked[x]
      BY <2>1 DEF Within
    <3>1. CASE i \in DOMAIN pipe
      BY <1>4, <2>2, <3>1 DEF Within
    <3>2. CASE i \notin DOMAIN pipe
      BY <1>4, <2>2, <3>2 DEF Within
    <3> QED
      BY <3>1, <3>2
  <2>4. ASSUME NEW x \in Entity, NEW d \in Caller PROVE Within(waiting[d], x)'
    <3>1. \A i \in DOMAIN waiting'[d] : \E j \in DOMAIN waiting[d] : waiting'[d][i] = waiting[d][j]
      BY <1>1, <2>2
    <3> QED
      BY <1>4, <2>1, <3>1 DEF Within
  <2> QED
    BY <1>4, <2>1, <2>3, <2>4 DEF NeverOverblocks
<1>7. ASSUME NEW c \in Caller, TimeOut(c) PROVE NeverOverblocks'
  <2>1. ASSUME NEW x \in Entity, NEW d \in Caller PROVE Within(waiting[d], x)'
    <3>1. CASE d = c
      <4>1. waiting'[d] = <<>>
        BY <1>1, <1>7, <3>1 DEF TimeOut
      <4> QED
        BY <4>1 DEF Within
    <3>2. CASE d # c
      BY <1>1, <1>4, <1>7, <3>2 DEF TimeOut, Within
    <3> QED
      BY <3>1, <3>2
  <2> QED
    BY <1>4, <1>7, <2>1 DEF TimeOut, NeverOverblocks, Within
<1>8. ASSUME NEW c \in Caller, NEW e \in Entity, Call(c, e) PROVE NeverOverblocks'
  BY <1>8, SafeCall
<1>9. CASE Get \/ Sweep \/ SweepFails \/ UNCHANGED vars
  <2>1. UNCHANGED <<now, blocked, db, pipe, waiting>>
    BY <1>9 DEF Get, Sweep, SweepFails, vars
  <2> QED
    BY <1>4, <2>1 DEF NeverOverblocks, Within
<1>10. ASSUME NextTask, writing, UNCHANGED <<now, blocked>>, NEW x \in Entity
       PROVE  Within(pipe, x)'
  BY <1>4, <1>10, NextTaskTasks DEF Within
<1>11. CASE WriteDone
  <2>1. /\ writing /\ NextTask /\ UNCHANGED <<now, blocked, waiting>>
        /\ db' = [db EXCEPT ![pipe[1].id] = pipe[1].until]
    BY <1>11, NextTaskTasks DEF WriteDone, Stored
  <2>2. ASSUME NEW x \in Entity PROVE db'[x] > now => db'[x] <= blocked[x]
    BY <1>1, <1>4, <2>1, NextTaskTasks DEF Within
  <2> QED
    BY <1>4, <1>10, <2>1, <2>2 DEF NeverOverblocks, Within
<1>12. CASE WriteFails
  BY <1>4, <1>10, <1>12 DEF WriteFails, NeverOverblocks, Within
<1>13. CASE SweepBatch
  <2>1. UNCHANGED <<now, blocked, pipe, waiting>>
    BY <1>13 DEF SweepBatch
  <2>2. ASSUME NEW x \in Entity PROVE db'[x] > now => db'[x] <= blocked[x]
    BY <1>1, <1>4, <1>13 DEF SweepBatch, NoBlock
  <2> QED
    BY <1>4, <2>1, <2>2 DEF NeverOverblocks, Within
<1>14. CASE Restart
  <2>1. blocked' = db' /\ pipe' = <<>> /\ waiting' = [c \in Caller |-> <<>>]
    BY <1>14 DEF Restart
  <2>2. ASSUME NEW x \in Entity PROVE db'[x] <= blocked'[x]
    BY <1>2, <1>3, <2>1
  <2>3. ASSUME NEW x \in Entity PROVE Within(pipe, x)'
    BY <2>1 DEF Within
  <2>4. ASSUME NEW x \in Entity, NEW c \in Caller PROVE Within(waiting[c], x)'
    BY <2>1 DEF Within
  <2> QED
    BY <2>2, <2>3, <2>4 DEF NeverOverblocks
<1> QED
  BY <1>5, <1>6, <1>7, <1>8, <1>9, <1>11, <1>12, <1>13, <1>14 DEF Next

(***************************************************************************)
(* Whatever is reordered, dropped, erased or interrupted, nothing on its   *)
(* way to the database, and nothing in it, outlasts the block in memory.   *)
(***************************************************************************)
THEOREM NeverOverblocksHolds == Spec => []NeverOverblocks
<1>1. Init => Safe
  <2> SUFFICES ASSUME Init PROVE Safe
    OBVIOUS
  <2>1. ASSUME NEW x \in Entity PROVE db[x] <= blocked[x]
    BY BlocksAssumption DEF Init, Block, Until, NoBlock
  <2>2. ASSUME NEW x \in Entity
        PROVE  Within(pipe, x) /\ \A c \in Caller : Within(waiting[c], x)
    BY DEF Init, Within
  <2> QED
    BY <2>1, <2>2, TypeInit DEF Safe, NeverOverblocks
<1>2. Safe /\ [Next]_vars => Safe'
  BY TypeNext, SafeNext DEF Safe
<1>3. Safe => NeverOverblocks
  BY DEF Safe
<1> QED
  BY <1>1, <1>2, <1>3, PTL DEF Spec
-------------------------------------------------------------------------------
(***************************************************************************)
(* Memory and database agree on every entity that is not lost.  The        *)
(* strengthening: a call waits only with tasks of lost entities, so that a *)
(* late put cannot overwrite anything that counts.                         *)
(***************************************************************************)
WaitersAreLost == \A c \in Caller, e \in Entity : Mentions(waiting[c], e) => e \in lost

Synced == TypeOK /\ InSync /\ WaitersAreLost

\* Handing over the tasks of other entities does not touch x.
LEMMA ForeignTasks ==
    ASSUME TypeOK, NEW tasks \in Seq(Task), NEW c \in Caller, HandOver(c, tasks),
           NEW x \in Entity, \A i \in DOMAIN tasks : tasks[i].id # x,
           UpToDate(x), db'[x] = db[x], blocked'[x] = blocked[x]
    PROVE  UpToDate(x)'
<1>1. /\ \A i \in DOMAIN pipe : i \in DOMAIN pipe' /\ pipe'[i] = pipe[i]
      /\ \A i \in DOMAIN pipe' \ DOMAIN pipe :
            /\ i - Len(pipe) \in DOMAIN tasks
            /\ pipe'[i] = tasks[i - Len(pipe)]
  BY HandOverTasks
<1>2. \A i \in DOMAIN pipe' : pipe'[i].id = x => i \in DOMAIN pipe
  BY <1>1
<1>3. Mentions(pipe', x) <=> Mentions(pipe, x)
  BY <1>1, <1>2 DEF Mentions
<1>4. ASSUME NEW i \in DOMAIN pipe', pipe'[i].id = x,
             \A j \in DOMAIN pipe' : j > i => pipe'[j].id # x
      PROVE  pipe'[i].until = blocked'[x]
  <2>1. i \in DOMAIN pipe /\ pipe[i].id = x /\ \A j \in DOMAIN pipe : j > i => pipe[j].id # x
    BY <1>1, <1>2, <1>4
  <2> QED
    BY <1>1, <2>1 DEF UpToDate
<1> QED
  BY <1>3, <1>4 DEF UpToDate

\* The first task leaves the pipe, and is stored unless a later one follows.
LEMMA NextTaskSynced ==
    ASSUME Synced, writing, NextTask, UNCHANGED blocked, NEW x \in Entity,
           UpToDate(x),
           \/ db'[x] = IF pipe[1].id = x THEN pipe[1].until ELSE db[x]
           \/ db'[x] = db[x] /\ (pipe[1].id = x => Mentions(pipe', x))
    PROVE  UpToDate(x)'
<1>1. /\ 1 \in DOMAIN pipe
      /\ \A i \in DOMAIN pipe' : i + 1 \in DOMAIN pipe /\ pipe'[i] = pipe[i + 1]
      /\ \A i \in DOMAIN pipe : i > 1 => i - 1 \in DOMAIN pipe' /\ pipe'[i - 1] = pipe[i]
  BY NextTaskTasks DEF Synced
<1>2. DOMAIN pipe \subseteq Nat /\ DOMAIN pipe' \subseteq Nat /\ \A i \in DOMAIN pipe : i >= 1
  <2>1. pipe \in Seq(Task) /\ pipe # <<>> /\ pipe' = Tail(pipe)
    BY <1>1, NoTasks DEF Synced, TypeOK, NextTask
  <2>2. pipe' \in Seq(Task)
    BY <2>1
  <2> QED
    BY <2>1, <2>2
<1>3. ~Mentions(pipe', x) => \A i \in DOMAIN pipe : i > 1 => pipe[i].id # x
  BY <1>1 DEF Mentions
<1>4. ~Mentions(pipe', x) => db'[x] = blocked'[x]
  <2> SUFFICES ASSUME ~Mentions(pipe', x) PROVE db'[x] = blocked'[x]
    OBVIOUS
  <2>1. CASE pipe[1].id = x
    BY <1>1, <1>3, <2>1 DEF UpToDate
  <2>2. CASE pipe[1].id # x
    <3>1. ~Mentions(pipe, x)
      BY <1>2, <1>3, <2>2 DEF Mentions
    <3> QED
      BY <2>2, <3>1 DEF UpToDate
  <2> QED
    BY <2>1, <2>2
<1>5. ASSUME NEW i \in DOMAIN pipe', pipe'[i].id = x,
             \A j \in DOMAIN pipe' : j > i => pipe'[j].id # x
      PROVE  pipe'[i].until = blocked'[x]
  <2>1. i + 1 \in DOMAIN pipe /\ pipe[i + 1] = pipe'[i]
    BY <1>1
  <2>2. \A j \in DOMAIN pipe : j > i + 1 => pipe[j].id # x
    BY <1>1, <1>2, <1>5
  <2> QED
    BY <1>5, <2>1, <2>2 DEF UpToDate
<1> QED
  BY <1>4, <1>5 DEF UpToDate

\* A change whose tasks are all in the queue is the latest one there.
LEMMA SyncedCall ==
    ASSUME Synced, NEW c \in Caller, NEW e \in Entity, Call(c, e)
    PROVE  InSync' /\ WaitersAreLost'
<1>1. /\ blocked[e] \in Block /\ now \in Nat /\ blocked \in [Entity -> Block]
      /\ pipe \in Seq(Task) /\ waiting \in [Caller -> Seq(Task)]
  BY DEF Synced, TypeOK
<1>2. PICK o \in Outcomes(e, blocked[e], now) :
          /\ blocked' = [blocked EXCEPT ![e] = o.until]
          /\ HandOver(c, o.tasks)
          /\ lost' = LostAfter(e, o.tasks)
  BY DEF Call
<1>3. /\ o.tasks \in Seq(Task)
      /\ \A i \in DOMAIN o.tasks : o.tasks[i].id = e
      /\ o.tasks = <<>> => o.until = blocked[e]
      /\ o.tasks # <<>> => o.tasks[Len(o.tasks)].until = o.until
  BY <1>1, OutcomeFacts
<1>4. UNCHANGED db
  BY DEF Call
<1>5. /\ Len(pipe') = Len(pipe) + Len(Handed(o.tasks))
      /\ \A i \in DOMAIN pipe : i \in DOMAIN pipe' /\ pipe'[i] = pipe[i]
      /\ \A i \in DOMAIN pipe' \ DOMAIN pipe :
            /\ i - Len(pipe) \in DOMAIN o.tasks
            /\ pipe'[i] = o.tasks[i - Len(pipe)]
      /\ waiting' = [waiting EXCEPT ![c] = Held(o.tasks)]
      /\ \A i \in DOMAIN Held(o.tasks) : \E j \in DOMAIN o.tasks : Held(o.tasks)[i] = o.tasks[j]
  BY <1>2, <1>3, HandOverTasks DEF Synced
<1>6. pipe' \in Seq(Task)
  <2>1. Next
    BY DEF Next
  <2> QED
    BY <2>1, TypeNext DEF Synced, TypeOK
<1>7. \A x \in Entity : x # e => (x \in lost' <=> x \in lost)
  BY <1>2 DEF LostAfter
<1>8. ASSUME NEW x \in Entity \ lost', x # e PROVE UpToDate(x)'
  <2>1. UpToDate(x)
    BY <1>7, <1>8 DEF Synced, InSync
  <2>2. \A i \in DOMAIN o.tasks : o.tasks[i].id # x
    BY <1>3, <1>8
  <2>3. blocked'[x] = blocked[x] /\ db'[x] = db[x]
    BY <1>1, <1>2, <1>4, <1>8
  <2> QED
    BY <1>2, <1>3, <2>1, <2>2, <2>3, ForeignTasks DEF Synced
<1>9. ASSUME e \notin lost' PROVE UpToDate(e)'
  <2>1. Held(o.tasks) = <<>>
    BY <1>2, <1>9 DEF LostAfter
  <2>2. Len(Handed(o.tasks)) = Len(o.tasks)
    BY <1>3, <2>1, HandOverFacts DEF Synced
  <2>3. blocked'[e] = o.until
    BY <1>1, <1>2
  <2>4. CASE o.tasks = <<>>
    <3>1. e \notin lost
      BY <1>2, <1>9, <2>1, <2>4 DEF LostAfter
    <3>2. UpToDate(e)
      BY <3>1 DEF Synced, InSync
    <3>3. DOMAIN o.tasks = {}
      BY <2>4
    <3>4. blocked'[e] = blocked[e] /\ db'[e] = db[e]
      BY <1>3, <1>4, <2>3, <2>4
    <3> QED
      BY <1>2, <1>3, <3>2, <3>3, <3>4, ForeignTasks DEF Synced
  <2>5. CASE o.tasks # <<>>
    <3> DEFINE last == Len(pipe')
    <3>1. Len(o.tasks) \in Nat /\ Len(o.tasks) > 0 /\ Len(pipe) \in Nat
      BY <1>1, <1>3, <2>5
    <3>2. last = Len(pipe) + Len(o.tasks)
      BY <1>5, <2>2
    <3>3. last \in DOMAIN pipe' /\ last \notin DOMAIN pipe
      BY <1>1, <1>6, <3>1, <3>2
    <3>4. pipe'[last] = o.tasks[Len(o.tasks)]
      BY <1>5, <3>1, <3>2, <3>3
    <3>5. pipe'[last].id = e /\ pipe'[last].until = blocked'[e]
      BY <1>3, <2>3, <2>5, <3>1, <3>4
    <3>6. \A i \in DOMAIN pipe' : i = last \/ last > i
      BY <1>6
    <3> HIDE DEF last
    <3>7. Mentions(pipe', e)
      BY <3>3, <3>5 DEF Mentions
    <3> QED
      BY <3>3, <3>5, <3>6, <3>7 DEF UpToDate
  <2> QED
    BY <2>4, <2>5
<1>10. WaitersAreLost'
  <2> SUFFICES ASSUME NEW d \in Caller, NEW x \in Entity, Mentions(waiting'[d], x)
               PROVE  x \in lost'
    BY DEF WaitersAreLost
  <2>1. CASE d = c
    <3>1. waiting'[d] = Held(o.tasks)
      BY <1>1, <1>5, <2>1
    <3>2. x = e
      BY <1>3, <1>5, <3>1 DEF Mentions
    <3>3. Held(o.tasks) # <<>>
      BY <3>1 DEF Mentions
    <3> QED
      BY <1>2, <3>2, <3>3 DEF LostAfter
  <2>2. CASE d # c
    <3>1. waiting'[d] = waiting[d]
      BY <1>1, <1>5, <2>2
    <3>2. Mentions(waiting[d], x)
      BY <3>1
    <3>3. x \in lost
      BY <3>2 DEF Synced, WaitersAreLost
    <3> QED
      BY <1>2, <3>2, <3>3 DEF LostAfter
  <2> QED
    BY <2>1, <2>2
<1> QED
  BY <1>8, <1>9, <1>10 DEF InSync

\* No step lets the latest task and memory differ, unless the entity is lost.
LEMMA SyncedNext == Synced /\ [Next]_vars => InSync' /\ WaitersAreLost'
<1> SUFFICES ASSUME Synced, [Next]_vars PROVE InSync' /\ WaitersAreLost'
  OBVIOUS
<1>1. TypeOK /\ TypeOK' /\ InSync /\ WaitersAreLost
  BY TypeNext DEF Synced
<1>2. ASSUME UNCHANGED <<blocked, db, pipe, lost>> PROVE InSync'
  BY <1>1, <1>2 DEF InSync, UpToDate, Mentions
<1>3. ASSUME UNCHANGED waiting, lost \subseteq lost' PROVE WaitersAreLost'
  BY <1>1, <1>3 DEF WaitersAreLost, Mentions
<1>4. CASE Tick \/ Get \/ Sweep \/ SweepFails \/ UNCHANGED vars
  <2>1. UNCHANGED <<blocked, db, pipe, waiting, lost>>
    BY <1>4 DEF Tick, Get, Sweep, SweepFails, vars
  <2> QED
    BY <1>2, <1>3, <2>1
<1>5. ASSUME NEW c \in Caller, Put(c) PROVE InSync' /\ WaitersAreLost'
  <2>1. waiting[c] \in Seq(Task) /\ HandOver(c, waiting[c]) /\ UNCHANGED <<blocked, db, lost>>
    BY <1>1, <1>5 DEF Put, TypeOK
  <2>2. ASSUME NEW x \in Entity \ lost PROVE UpToDate(x)'
    <3>1. \A i \in DOMAIN waiting[c] : waiting[c][i].id # x
      BY <1>1, <2>2 DEF WaitersAreLost, Mentions
    <3>2. UpToDate(x) /\ db'[x] = db[x] /\ blocked'[x] = blocked[x]
      BY <1>1, <2>1, <2>2 DEF InSync
    <3> QED
      BY <1>1, <2>1, <3>1, <3>2, ForeignTasks
  <2>3. /\ waiting' = [waiting EXCEPT ![c] = Held(waiting[c])]
        /\ \A i \in DOMAIN Held(waiting[c]) :
              \E j \in DOMAIN waiting[c] : Held(waiting[c])[i] = waiting[c][j]
    BY <1>1, <2>1, HandOverTasks
  <2>4. ASSUME NEW d \in Caller, NEW x \in Entity, Mentions(waiting'[d], x)
        PROVE  x \in lost'
    <3>1. Mentions(waiting[d], x)
      BY <1>1, <2>3, <2>4 DEF Mentions, TypeOK
    <3> QED
      BY <1>1, <2>1, <3>1 DEF WaitersAreLost
  <2> QED
    BY <2>1, <2>2, <2>4 DEF InSync, WaitersAreLost
<1>6. ASSUME NEW c \in Caller, TimeOut(c) PROVE InSync' /\ WaitersAreLost'
  <2>1. waiting' = [waiting EXCEPT ![c] = <<>>] /\ UNCHANGED <<blocked, db, pipe, lost>>
    BY <1>6 DEF TimeOut
  <2>2. ASSUME NEW d \in Caller, NEW x \in Entity, Mentions(waiting'[d], x)
        PROVE  x \in lost'
    <3>1. Mentions(waiting[d], x)
      BY <1>1, <2>1, <2>2 DEF Mentions, TypeOK
    <3> QED
      BY <1>1, <2>1, <3>1 DEF WaitersAreLost
  <2> QED
    BY <1>2, <2>1, <2>2 DEF WaitersAreLost
<1>7. ASSUME NEW c \in Caller, NEW e \in Entity, Call(c, e) PROVE InSync' /\ WaitersAreLost'
  BY <1>7, SyncedCall
<1>8. CASE WriteDone
  <2>1. /\ writing /\ NextTask /\ UNCHANGED <<blocked, waiting, lost>>
        /\ db' = [db EXCEPT ![pipe[1].id] = pipe[1].until]
    BY <1>1, <1>8, NextTaskTasks DEF WriteDone, Stored
  <2>2. ASSUME NEW x \in Entity
        PROVE  db'[x] = IF pipe[1].id = x THEN pipe[1].until ELSE db[x]
    BY <1>1, <2>1 DEF TypeOK
  <2>3. InSync'
    BY <1>1, <2>1, <2>2, NextTaskSynced DEF InSync
  <2> QED
    BY <1>3, <2>1, <2>3
<1>9. CASE WriteFails
  <2>1. /\ writing /\ NextTask /\ UNCHANGED <<blocked, db, waiting>>
        /\ pipe' = Tail(pipe)
        /\ lost' = IF Mentions(pipe', pipe[1].id) THEN lost ELSE lost \cup {pipe[1].id}
    BY <1>1, <1>9, NextTaskTasks DEF WriteFails, NextTask
  <2>2. ASSUME NEW x \in Entity \ lost' PROVE UpToDate(x)'
    <3>1. UpToDate(x) /\ (pipe[1].id = x => Mentions(pipe', x))
      BY <1>1, <2>1, <2>2 DEF InSync
    <3> QED
      BY <2>1, <3>1, NextTaskSynced
  <2>3. InSync'
    BY <2>2 DEF InSync
  <2> QED
    BY <1>3, <2>1, <2>3
<1>10. CASE SweepBatch
  <2>1. PICK batch \in SUBSET sweeping :
            /\ db' = [x \in Entity |-> IF x \in batch THEN NoBlock ELSE db[x]]
            /\ lost' = lost \cup {x \in batch : blocked[x] # NoBlock /\ ~Mentions(pipe, x)}
            /\ UNCHANGED <<blocked, pipe, waiting>>
    BY <1>10 DEF SweepBatch
  <2>2. ASSUME NEW x \in Entity \ lost' PROVE UpToDate(x)'
    <3>1. UpToDate(x)
      BY <1>1, <2>1, <2>2 DEF InSync
    <3>2. ~Mentions(pipe, x) => db'[x] = blocked[x]
      BY <2>1, <2>2, <3>1 DEF UpToDate
    <3> QED
      BY <2>1, <3>1, <3>2 DEF UpToDate, Mentions
  <2>3. InSync'
    BY <2>2 DEF InSync
  <2> QED
    BY <1>3, <2>1, <2>3
<1>11. CASE Restart
  <2>1. blocked' = db' /\ pipe' = <<>> /\ waiting' = [c \in Caller |-> <<>>]
    BY <1>11 DEF Restart
  <2>2. \A x \in Entity : UpToDate(x)'
    BY <2>1 DEF UpToDate
  <2>3. \A c \in Caller, x \in Entity : ~Mentions(waiting'[c], x)
    BY <2>1 DEF Mentions
  <2> QED
    BY <2>2, <2>3 DEF InSync, WaitersAreLost
<1> QED
  BY <1>4, <1>5, <1>6, <1>7, <1>8, <1>9, <1>10, <1>11 DEF Next

\* The invariant of InSync.
LEMMA SyncedInvariant == Spec => []Synced
<1>1. Init => Synced
  <2> SUFFICES ASSUME Init PROVE Synced
    OBVIOUS
  <2>1. \A x \in Entity : UpToDate(x)
    BY DEF Init, UpToDate
  <2>2. \A c \in Caller, x \in Entity : ~Mentions(waiting[c], x)
    BY DEF Init, Mentions
  <2> QED
    BY <2>1, <2>2, TypeInit DEF Synced, InSync, WaitersAreLost
<1>2. Synced /\ [Next]_vars => Synced'
  BY TypeNext, SyncedNext DEF Synced
<1> QED
  BY <1>1, <1>2, PTL DEF Spec

(***************************************************************************)
(* The latest task of an entity that is not lost, or else its record in    *)
(* the database, is its block in memory.                                   *)
(***************************************************************************)
THEOREM InSyncHolds == Spec => []InSync
<1>1. Synced => InSync
  BY DEF Synced
<1> QED
  BY <1>1, SyncedInvariant, PTL

(***************************************************************************)
(* A restart gives an entity that is not lost, and of which nothing is on  *)
(* its way to the database, the block it had, even in the middle of the    *)
(* write of another entity's block.                                        *)
(***************************************************************************)
THEOREM WrittenBlocksSurviveHolds == Spec => WrittenBlocksSurvive
<1>1. ASSUME Synced, Restart, NEW x \in Entity \ lost, ~Mentions(pipe, x)
      PROVE  blocked'[x] = blocked[x]
  <2>1. db[x] = blocked[x] /\ db \in [Entity -> Block]
    BY <1>1 DEF Synced, InSync, UpToDate, TypeOK
  <2>2. CASE db' = db
    BY <1>1, <2>1, <2>2 DEF Restart
  <2>3. CASE writing /\ db' = Stored(Head(pipe))
    <3>1. 1 \in DOMAIN pipe /\ Head(pipe) = pipe[1]
      BY <1>1, <2>3, NoTasks, WriteBackAssumption DEF Synced, TypeOK, Queued
    <3>2. Head(pipe).id # x
      BY <1>1, <3>1 DEF Mentions
    <3>3. db'[x] = db[x]
      BY <2>1, <2>3, <3>2 DEF Stored
    <3> QED
      BY <1>1, <2>1, <3>3 DEF Restart
  <2> QED
    BY <1>1, <2>2, <2>3 DEF Restart
<1>2. Synced =>
        [Restart => \A e \in Entity \ lost : ~Mentions(pipe, e) => blocked'[e] = blocked[e]]_vars
  BY <1>1
<1> QED
  BY <1>2, SyncedInvariant, PTL DEF WrittenBlocksSurvive, Spec

(***************************************************************************)
(* The statistics, beside the blocks and independent of them.  Their       *)
(* records are another collection.                                         *)
(***************************************************************************)
\* What is stored late never hides a later change: whoever has an old version in the push
\* under way is marked again.
LateIsMarked ==
    \A e \in Entity \ unmarked :
        /\ snapshot[e] # None /\ stats[e] # None
        /\ snapshot[e] # stats[e]
        => e \in toUpdate

StatsInv == StatsTypeOK /\ ChangesArePending /\ LateIsMarked

\* Initially there is nothing to write.
LEMMA StatsStart == StatsInit => StatsInv
  BY StatsAssumption DEF StatsInit, StatsInv, StatsTypeOK, ChangesArePending, LateIsMarked,
         Version, Nothing, None

\* An entity leaves the update set with its latest version in the push's hands, or is put
\* back when the push fails; late deletions and unmarked changes are noted.
LEMMA StatsStep ==
    ASSUME StatsInv, [StatsNext]_statsVars
    PROVE  StatsInv'
<1> USE DEF push, None
<1>0. /\ changes \in Version
      /\ stats \in [Entity -> Version]
      /\ request \in [Entity -> {"never", "recent", "old"}]
      /\ toUpdate \subseteq Entity
      /\ pushed \subseteq Entity
      /\ snapshot \in [Entity -> Version]
      /\ \A e \in Entity : snapshot[e] # 0 => e \in pushed
      /\ deleting \subseteq Entity
      /\ records \in [Entity -> Version]
      /\ unmarked \subseteq Entity
  BY DEF StatsInv, StatsTypeOK
<1>1. \A e \in Entity \ unmarked :
        /\ stats[e] # 0 /\ records[e] # stats[e] => e \in toUpdate \/ snapshot[e] = stats[e]
        /\ snapshot[e] # 0 /\ stats[e] # 0 /\ snapshot[e] # stats[e] => e \in toUpdate
  BY DEF StatsInv, ChangesArePending, LateIsMarked
<1>2. Version = 0 .. MaxChanges /\ 0 \in Version
  BY StatsAssumption DEF Version
<1>3. Nothing \in [Entity -> Version] /\ \A e \in Entity : Nothing[e] = 0
  BY <1>2 DEF Nothing
<1>4. ASSUME /\ changes' \in Version
             /\ stats' \in [Entity -> Version]
             /\ request' \in [Entity -> {"never", "recent", "old"}]
             /\ toUpdate' \subseteq Entity
             /\ pushed' \subseteq Entity
             /\ snapshot' \in [Entity -> Version]
             /\ \A e \in Entity : snapshot'[e] # 0 => e \in pushed'
             /\ deleting' \subseteq Entity
             /\ records' \in [Entity -> Version]
             /\ unmarked' \subseteq Entity,
             \A e \in Entity \ unmarked' :
                /\ stats'[e] # 0 /\ records'[e] # stats'[e]
                        => e \in toUpdate' \/ snapshot'[e] = stats'[e]
                /\ snapshot'[e] # 0 /\ stats'[e] # 0 /\ snapshot'[e] # stats'[e] => e \in toUpdate'
      PROVE  StatsInv'
  BY <1>4 DEF StatsInv, StatsTypeOK, ChangesArePending, LateIsMarked
<1>5. ASSUME NEW e \in Entity, Change(e)
      PROVE  /\ changes' \in Version /\ stats' \in [Entity -> Version]
             /\ \A d \in Entity \ {e} : stats'[d] = stats[d]
  <2>1. changes' \in Version
    BY <1>0, <1>2, <1>5, StatsAssumption DEF Change
  <2> QED
    BY <1>0, <1>5, <2>1 DEF Change
<1>6. ASSUME NEW e \in Entity, Update(e)
      PROVE  StatsInv'
  <2>1. request' \in [Entity -> {"never", "recent", "old"}]
    BY <1>0, <1>6 DEF Update
  <2>2. toUpdate' = toUpdate \cup {e} /\ unmarked' = unmarked \ {e}
        /\ UNCHANGED <<pushed, snapshot, deleting, records>> /\ Change(e)
    BY <1>6 DEF Update
  <2> QED
    BY <1>0, <1>1, <1>4, <1>5, <2>1, <2>2
<1>7. ASSUME NEW e \in Entity, ResetInCheck(e)
      PROVE  StatsInv'
  BY <1>0, <1>1, <1>4, <1>5, <1>7 DEF ResetInCheck
<1>8. ASSUME NEW e \in Entity, Age(e)
      PROVE  StatsInv'
  BY <1>0, <1>1, <1>4, <1>8 DEF Age
<1>9. ASSUME NEW e \in Entity, Store(e)
      PROVE  StatsInv'
  BY <1>0, <1>1, <1>2, <1>4, <1>9 DEF Store
<1>10. ASSUME StartPush
       PROVE  StatsInv'
  <2>1. snapshot' \in [Entity -> Version]
    BY <1>0, <1>2, <1>10 DEF StartPush
  <2>2. \A e \in Entity : snapshot[e] = 0
    BY <1>0, <1>10 DEF StartPush
  <2> QED
    BY <1>0, <1>1, <1>4, <1>10, <2>1, <2>2 DEF StartPush
<1>11. ASSUME PushDone
       PROVE  StatsInv'
  BY <1>0, <1>1, <1>3, <1>4, <1>11 DEF PushDone
<1>12. ASSUME PushFails
       PROVE  StatsInv'
  BY <1>0, <1>1, <1>3, <1>4, <1>12 DEF PushFails
<1>13. ASSUME Forget
       PROVE  StatsInv'
  <2>1. PICK F \in SUBSET Entity :
            /\ stats' = [e \in Entity |-> IF e \in F THEN 0 ELSE stats[e]]
            /\ request' = [e \in Entity |-> IF e \in F THEN "never" ELSE request[e]]
            /\ deleting' = F
            /\ unmarked' = unmarked \ F
            /\ UNCHANGED <<changes, toUpdate, pushed, snapshot, records>>
    BY <1>13 DEF Forget
  <2>2. stats' \in [Entity -> Version] /\ request' \in [Entity -> {"never", "recent", "old"}]
    BY <1>0, <1>2, <2>1
  <2> QED
    BY <1>0, <1>1, <1>4, <2>1, <2>2
<1>14. ASSUME DeleteBatch
       PROVE  StatsInv'
  <2>1. PICK batch \in SUBSET deleting :
            /\ records' = [e \in Entity |-> IF e \in batch THEN 0 ELSE records[e]]
            /\ deleting' = deleting \ batch
            /\ unmarked' = unmarked \cup
                {e \in batch : stats[e] # 0 /\ e \notin toUpdate /\ snapshot[e] # stats[e]}
            /\ UNCHANGED <<changes, stats, request, toUpdate, pushed, snapshot>>
    BY <1>14 DEF DeleteBatch
  <2>2. records' \in [Entity -> Version] /\ unmarked' \subseteq Entity
    BY <1>0, <1>2, <2>1
  <2> QED
    BY <1>0, <1>1, <1>4, <2>1, <2>2
<1>15. ASSUME DeleteFails
       PROVE  StatsInv'
  BY <1>0, <1>1, <1>4, <1>15 DEF DeleteFails
<1>16. ASSUME StatsRestart
       PROVE  StatsInv'
  <2>1. request' \in [Entity -> {"never", "recent", "old"}]
    BY <1>16 DEF StatsRestart
  <2> QED
    BY <1>0, <1>3, <1>4, <1>16, <2>1 DEF StatsRestart
<1>17. CASE UNCHANGED statsVars
  BY <1>0, <1>1, <1>4, <1>17 DEF statsVars
<1> QED
  BY <1>6, <1>7, <1>8, <1>9, <1>10, <1>11, <1>12, <1>13, <1>14, <1>15, <1>16, <1>17
     DEF StatsNext

\* The invariant of the statistics' push.
LEMMA StatsAlways ==
    StatsSpec => []StatsInv
<1>1. StatsInit => StatsInv
  BY StatsStart
<1>2. StatsInv /\ [StatsNext]_statsVars => StatsInv'
  BY StatsStep
<1> QED
  BY <1>1, <1>2, PTL DEF StatsSpec

\* Type correctness of the push of statistics: what a push has still to write is of those
\* it has taken.
THEOREM StatsTypeCorrect ==
    StatsSpec => []StatsTypeOK
<1>1. StatsInv => StatsTypeOK
  BY DEF StatsInv
<1> QED
  BY <1>1, StatsAlways, PTL

(***************************************************************************)
(* A record out of date is on its way to be replaced, whatever fails half- *)
(* way, is forgotten and returns, or is restarted.                         *)
(***************************************************************************)
THEOREM ChangesArePendingHolds ==
    StatsSpec => []ChangesArePending
<1>1. StatsInv => ChangesArePending
  BY DEF StatsInv
<1> QED
  BY <1>1, StatsAlways, PTL

===============================================================================
