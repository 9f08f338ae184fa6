------------------------------ MODULE MCProgress ------------------------------
(* What must eventually happen: small instances, under their fairness, of    *)
(* the modules that promise progress, side by side; "part" says which one a  *)
(* behaviour is of.                                                          *)
EXTENDS Naturals, TLC

CONSTANTS g1, w1, w2, t1, t2, p1, p2, NotSeen, Gone, NoTask, NoGateway, NoProposal

VARIABLES
    part,
    \* Cluster
    phase, conns, link, callbacks, health, active, visited, ping, outages, excuse,
    \* Warden
    wardenClock, beating, seen, round, handling, requests, receiving, running, tracked,
    retryAfter, doubtful, restarts, wardenUp,
    \* ParallelRouter
    mode, asyncCallback, caller, next, open, results, errors, load, inbox,
    readyMsgs, resultMsgs, errorMsgs, onResult, onError, dropped, calls, vanished,
    recounted, failures, churn,
    \* EventPipeline
    online, published, stream, acked, fetched, rows, buffer, summaries, announced,
    received, refused, faults,
    \* TaskProjection
    locked, poolSize, events, stored, taskRows, at, dag, free, lock, archived,
    misfiled,
    \* Profiler
    profile, chatBuffer, task, stopped, chatReceived, givenUp,
    \* ReflectionQueue
    proposals, memories, audit, job, hour, acted, queueFaults, clean,
    \* GatewayBoot
    hasTask, stage, context, mesh, lane, laneLocked, heart, stops, closing,
    cancelling, cancel, ended

clusterVars == <<phase, conns, link, callbacks, health, active, visited, ping,
                 outages, excuse>>
wardenVars == <<wardenClock, beating, seen, round, handling, requests, receiving,
                running, tracked, retryAfter, doubtful, restarts, wardenUp>>
routerVars == <<mode, asyncCallback, caller, next, open, results, errors, load,
                readyMsgs, inbox, resultMsgs, errorMsgs, onResult, onError, dropped,
                calls, vanished, recounted, failures, churn>>
pipelineVars == <<online, published, stream, acked, fetched, rows, buffer,
                  summaries, announced, received, refused, faults>>
projectionVars == <<locked, poolSize, events, stored, taskRows, at, dag, free,
                    lock, archived, misfiled>>
profilerVars == <<profile, chatBuffer, task, stopped, chatReceived, givenUp>>
queueVars == <<proposals, memories, audit, job, hour, acted, queueFaults, clean>>
bootVars == <<hasTask, stage, context, mesh, lane, laneLocked, heart, stops, closing,
              cancelling, cancel, ended>>

C == INSTANCE Cluster WITH MaxOutages <- 2

W == INSTANCE Warden
     WITH Watched <- {g1}, MaxContainers <- 1, HeartbeatTTL <- 1, Cooldown <- 1,
          MaxClock <- 3, MaxRestarts <- 1, MaxRuns <- 2

R == INSTANCE ParallelRouter
     WITH BatchSize <- 3, PoolWorker <- {w1, w2}, Capacity <- w1 :> 1 @@ w2 :> 2,
          CanRun <- <<{w1, w2}, {w1, w2}, {w2}>>, InitialBatch <- 1,
          MaxErrors <- 1, MaxChurn <- 2, MaxLost <- 1

Streamed == {"s1", "bad"}
P == INSTANCE EventPipeline
     WITH TaskEvent <- {"t1", "t2"}, StreamEvent <- Streamed,
          Malformed <- {"bad"}, FetchBatch <- 2, MaxBuffered <- 2, MaxFaults <- 2

\* Two callers, over a pool of two connections and one of three.
MCPublished ==
    [type : {"task_drafted", "audit_rejected", "task_completed"}, task : {t1, t2},
     gateway : {"g"}, named : {NoGateway}]
J == INSTANCE TaskProjection
     WITH Task <- {t1, t2}, TaskGateway <- {"g"}, ParentOf <- t1 :> t2 @@ t2 :> NoTask,
          Projector <- {"p", "q"}, PoolSizes <- {2, 3}, MaxLog <- 2,
          Published <- MCPublished, rows <- taskRows

\* Two pods, a buffer of one message and a profile of two.
I == INSTANCE Profiler
     WITH Pod <- {"a", "b"}, Message <- {"m1", "m2", "m3", "m4"},
          Protected <- {"m2", "m3"}, MaxBuffer <- 1, ProfileLimit <- 2,
          MaxCasRetries <- 2, buffer <- chatBuffer, received <- chatReceived

\* Two proposals, one worker that may fail or die twice.
Q == INSTANCE ReflectionQueue
     WITH Proposal <- {p1, p2}, Worker <- {"w"}, Window <- 1, MaxTime <- 2,
          MaxActions <- 1, MaxFaults <- 2, clock <- hour, faults <- queueFaults

\* A gateway that gets two signals.
G == INSTANCE GatewayBoot WITH MaxSignals <- 2, locked <- laneLocked

ProgressInit ==
    /\ part \in {"cluster", "warden", "router", "pipeline", "projection",
                 "profiler", "queue", "boot"}
    /\ C!ClusterInit /\ W!WardenInit /\ R!RouterInit /\ P!PipelineInit /\ J!Init /\ I!ProfilerInit
    /\ Q!Init /\ G!BootInit
    /\ part # "router" => mode = "parallel" /\ asyncCallback = FALSE
    /\ part # "boot" => hasTask = FALSE
    /\ part # "projection" => locked = FALSE /\ poolSize = 2

ProgressNext ==
    /\ \/ part = "cluster" /\ C!ClusterNext
            /\ UNCHANGED <<wardenVars, routerVars, pipelineVars, projectionVars,
                           profilerVars, queueVars, bootVars>>
       \/ part = "warden" /\ W!WardenNext
            /\ UNCHANGED <<clusterVars, routerVars, pipelineVars, projectionVars,
                           profilerVars, queueVars, bootVars>>
       \/ part = "router" /\ R!RouterNext
            /\ UNCHANGED <<clusterVars, wardenVars, pipelineVars, projectionVars,
                           profilerVars, queueVars, bootVars>>
       \/ part = "pipeline" /\ P!PipelineNext
            /\ UNCHANGED <<clusterVars, wardenVars, routerVars, projectionVars,
                           profilerVars, queueVars, bootVars>>
       \/ part = "projection" /\ J!Next
            /\ UNCHANGED <<clusterVars, wardenVars, routerVars, pipelineVars,
                           profilerVars, queueVars, bootVars>>
       \/ part = "profiler" /\ I!ProfilerNext
            /\ UNCHANGED <<clusterVars, wardenVars, routerVars, pipelineVars,
                           projectionVars, queueVars, bootVars>>
       \/ part = "queue" /\ Q!Next
            /\ UNCHANGED <<clusterVars, wardenVars, routerVars, pipelineVars,
                           projectionVars, profilerVars, bootVars>>
       \/ part = "boot" /\ G!BootNext
            /\ UNCHANGED <<clusterVars, wardenVars, routerVars, pipelineVars,
                           projectionVars, profilerVars, queueVars>>
    /\ UNCHANGED part

\* The fairness each module states, for the part that runs; for a single worker
\* of the queue, and one event that is not malformed, a weaker one.
ProgressFairness ==
    /\ WF_clusterVars(part = "cluster" /\ C!Monitor)
    /\ WF_wardenVars(part = "warden" /\ W!WardenTick)
    /\ WF_wardenVars(part = "warden" /\ W!Watchdog)
    /\ WF_routerVars(part = "router" /\ R!Router)
    /\ WF_routerVars(part = "router"
          /\ \E w \in {w1, w2}, t \in 1 .. 3 : R!LeaveWorker(w, t))
    /\ WF_pipelineVars(part = "pipeline" /\ ~online /\ P!LinkChanges)
    /\ WF_pipelineVars(part = "pipeline" /\ \E e \in Streamed : P!ProcessEvent(e))
    /\ SF_pipelineVars(part = "pipeline"
          /\ \E es \in SUBSET Streamed : "s1" \in es /\ P!Fetch(es))
    /\ \A p \in {"p", "q"} :
         SF_projectionVars(part = "projection" /\ at[p] # "idle" /\ J!Step(p))
    /\ \A p \in {"a", "b"} : WF_profilerVars(part = "profiler" /\ I!Work(p))
    /\ WF_queueVars(part = "queue" /\ Q!Tick)
    /\ WF_queueVars(part = "queue" /\ Q!Work("w"))
    /\ WF_queueVars(part = "queue" /\ Q!ProcessTimeouts("w"))
    /\ WF_bootVars(part = "boot" /\ G!Main) /\ WF_bootVars(part = "boot" /\ G!DrainEnds)
    /\ \A s \in 1 .. 2 : WF_bootVars(part = "boot" /\ G!Handler(s))

ProgressSpec ==
    /\ ProgressInit
    /\ [][ProgressNext]_<<part, clusterVars, wardenVars, routerVars, pipelineVars,
                          projectionVars, profilerVars, queueVars, bootVars>>
    /\ ProgressFairness

-----------------------------------------------------------------------------
\* Traffic comes back to a local node that stays healthy and quick (cluster.py,
\* _health_monitor).
LocalPreferred == C!LocalPreferred

\* A gateway that died leaves the liveness table, or the Warden itself stops
\* (warden_runtime.py, _heartbeat_watchdog).
DeadForgotten == W!DeadForgotten

\* A batch is completed unless a subtask was dropped or lost, or failed in a mode
\* that waits for results (parallel_worker_router.py, spawn_parallel_batch).
Settles == R!Settles

\* Every valid event of the stream is acknowledged in the end (projector.py,
\* run).
StreamDrains == P!StreamDrains

\* A projection that has begun ends, if the pool has a connection more than
\* there are callers (hardening.py, project_with_lock).
ProjectionFinishes == J!ProjectionFinishes

\* Under the advisory lock the tasks table never goes back to an older state of
\* the events, and the events of a task are archived while it is unfinished only
\* if its row lagged behind its events (hardening.py, project_with_lock and
\* archive_old_events).
ProjectionSafe ==
    /\ J!RowsNeverRegress
    /\ [](part = "projection" => J!ProjectionTypeOK /\ J!ArchivedWhenFinished)

\* No chat message is lost unnoticed, and when the chat goes quiet the buffers
\* are emptied (implicit_profiler.py, the debounce of _on_message;
\* Profiler!MessagesAccounted lists how a message is given up).
ChatProfiled ==
    /\ [](part = "profiler" => I!ProfilerTypeOK /\ I!MessagesAccounted)
    /\ I!QuietFlushes

\* Every proposal is decided in the end, if only by the timeout, although
\* handlers fail and processes die (api.py, process_reflection_timeouts).
EventuallyDecided == Q!EventuallyDecided

\* A signal ends a gateway without a task, and a second one ends any gateway
\* once the handler of the first has called sys.exit (boot.py, main;
\* hardening.py, install_signal_handlers).
GatewayEnds ==
    /\ [](part = "boot" => G!BootTypeOK)
    /\ G!StandbyOrSecondSignalEnds

=============================================================================
