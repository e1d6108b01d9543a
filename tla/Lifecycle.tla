------------------------------- MODULE Lifecycle --------------------------------
(***************************************************************************)
(* Start-up and shutdown of the API process: the global instances, the     *)
(* background tasks some of them run, and what these tasks use.  Plans are *)
(* sequences of steps, each with one await at most.                        *)
(***************************************************************************)
EXTENDS Naturals, Sequences

VARIABLES
    phase,      \* of the process
    plan,       \* the steps of startup or shutdown that are left
    up,         \* the globals that are not None
    tasks,      \* those of them whose background tasks run
    loaded      \* the observers that have loaded the blocks

lifecycle == <<phase, plan, up, tasks, loaded>>

Observers == {"ip", "token", "user"}
Pruners   == {"limiter_store_pruner", "user_data_pruner"}
Clients   == {"mongodb", "qdrant", "openai"}
Part      == Observers \cup Pruners \cup Clients \cup {"registry", "bus", "forwarder"}

\* The parts that run background tasks, and what these use.
Background == Observers \cup Pruners \cup {"forwarder"}

Uses(part) ==
    CASE part \in Observers -> {"mongodb"}
      [] part = "forwarder" -> {"bus", "registry"}
      [] part = "user_data_pruner" -> {"mongodb", "registry"}
      [] OTHER -> {}

Startup == <<
    <<"start", "mongodb">>, <<"start", "qdrant">>, <<"start", "openai">>,
    <<"start", "registry">>, <<"start", "bus">>, <<"start", "forwarder">>,
    <<"start", "ip">>, <<"load", "ip">>, <<"start", "token">>, <<"load", "token">>,
    <<"start", "user">>, <<"load", "user">>,
    <<"start", "limiter_store_pruner">>, <<"start", "user_data_pruner">> >>

\* Faulty variant: the clients are closed before those who use them.
ShutdownFault == <<
    <<"stop", "limiter_store_pruner">>, <<"stop", "user_data_pruner">>,
    <<"stop", "openai">>, <<"stop", "qdrant">>, <<"stop", "mongodb">>,
    <<"stop", "ip">>, <<"stop", "token">>, <<"stop", "user">>,
    <<"stop", "forwarder">>, <<"stop", "bus">>, <<"stop", "registry">> >>

Shutdown == <<
    <<"stop", "limiter_store_pruner">>, <<"stop", "user_data_pruner">>,
    <<"stop", "ip">>, <<"stop", "token">>, <<"stop", "user">>,
    <<"stop", "forwarder">>, <<"stop", "bus">>, <<"stop", "registry">>,
    <<"stop", "openai">>, <<"stop", "qdrant">>, <<"stop", "mongodb">> >>

LifecycleTypeOK ==
    /\ phase \in {"starting", "serving", "stopping", "ended", "failed"}
    /\ plan \in Seq({"start", "load", "stop"} \X Part)
    /\ Len(plan) <= Len(Startup)
    /\ up \subseteq Part
    /\ tasks \subseteq up \cap Background
    /\ loaded \subseteq Observers

LifecycleInit ==
    /\ phase = "starting"
    /\ plan = Startup
    /\ up = {}
    /\ tasks = {}
    /\ loaded = {}
-------------------------------------------------------------------------------
IsNext(op, part) == plan # <<>> /\ Head(plan) = <<op, part>>

\* The global is set, and its tasks are created.
Start(part) ==
    /\ IsNext("start", part)
    /\ plan' = Tail(plan)
    /\ up' = up \cup {part}
    /\ tasks' = tasks \cup ({part} \cap Background)
    /\ UNCHANGED <<phase, loaded>>

\* An observer's start ends with the load of the blocks, its tasks running.
Load(part) ==
    /\ IsNext("load", part)
    /\ plan' = Tail(plan)
    /\ loaded' = loaded \cup {part}
    /\ UNCHANGED <<phase, up, tasks>>

\* The end of a startup or shutdown in which something raises: whatever comes
\* after it in the plan is left as it is.
Break ==
    /\ phase' = "failed"
    /\ plan' = <<>>
    /\ UNCHANGED loaded

\* A client is not configured or cannot be made.
ClientFails(part) ==
    /\ IsNext("start", part)
    /\ part \in Clients
    /\ Break
    /\ UNCHANGED <<up, tasks>>

\* MongoDB cannot be reached.  Its global has been set by then.
ConnectFails ==
    /\ IsNext("start", "mongodb")
    /\ up' = up \cup {"mongodb"}
    /\ Break
    /\ UNCHANGED tasks

\* The database does not answer the load of an observer, whose tasks run.
LoadFails(part) ==
    /\ IsNext("load", part)
    /\ Break
    /\ UNCHANGED <<up, tasks>>

Serve ==
    /\ phase = "starting"
    /\ plan = <<>>
    /\ phase' = "serving"
    /\ UNCHANGED <<plan, up, tasks, loaded>>

\* The server ends the lifespan.
BeginShutdown ==
    /\ phase = "serving"
    /\ phase' = "stopping"
    /\ plan' = Shutdown
    /\ UNCHANGED <<up, tasks, loaded>>

\* The tasks of the part are cancelled and awaited, and its global is None.
\* That of the bus may never happen: its sentinel waits for room (EventStream).
Stop(part) ==
    /\ IsNext("stop", part)
    /\ plan' = Tail(plan)
    /\ up' = up \ {part}
    /\ tasks' = tasks \ {part}
    /\ loaded' = loaded \ {part}
    /\ UNCHANGED phase

\* A client does not close, and keeps its global.  (Failures of the observers'
\* stops are logged, and change nothing.)
CloseFails(part) ==
    /\ IsNext("stop", part)
    /\ part \in Clients
    /\ Break
    /\ UNCHANGED <<up, tasks>>

\* A pruner's stop raises; its global is None all the same.
StopPrunerFails(part) ==
    /\ IsNext("stop", part)
    /\ part \in Pruners
    /\ up' = up \ {part}
    /\ tasks' = tasks \ {part}
    /\ Break

End ==
    /\ phase = "stopping"
    /\ plan = <<>>
    /\ phase' = "ended"
    /\ UNCHANGED <<plan, up, tasks, loaded>>

\* The process ends, or is killed at any point, and another one is started.
Restart ==
    /\ phase' = "starting"
    /\ plan' = Startup
    /\ up' = {}
    /\ tasks' = {}
    /\ loaded' = {}

\* What serves nobody.
Startstop ==
    \/ \E part \in Part :
        \/ Start(part) \/ Load(part) \/ ClientFails(part) \/ LoadFails(part)
        \/ Stop(part) \/ CloseFails(part) \/ StopPrunerFails(part)
    \/ ConnectFails
    \/ Serve
    \/ End
===============================================================================
