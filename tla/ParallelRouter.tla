---------------------------- MODULE ParallelRouter ----------------------------
(* The router of parallel subtasks: the worker pool, one batch with its     *)
(* results and errors, the three ways of dispatching it, and the            *)
(* subscriptions for the workers' announcements and answers.  Each handles  *)
(* one message at a time; they, the dispatching call and the health monitor *)
(* interleave where they await.  All messages go over core NATS, at most    *)
(* once: what is lost is neither sent nor dispatched again.  Batches share  *)
(* nothing but the pool, so one batch is modelled.                          *)
EXTENDS Integers, FiniteSets

CONSTANTS
    BatchSize,      \* the batch has the subtasks 1 .. BatchSize
    PoolWorker,
    Capacity,       \* max_concurrent_tasks of each worker
    CanRun,         \* the workers with the capabilities and memory of a subtask
    InitialBatch,   \* subtasks adaptive dispatch starts with
    MaxErrors,      \* bound: errors the workers report
    MaxChurn,       \* bound: announcements and removals of workers
    MaxLost,        \* bound: subtasks lost on their way to a worker and back
    Gone            \* load of a worker not registered, or not ready for work

VARIABLES
    mode,           \* execution_mode of the batch
    asyncCallback,  \* whether the completion callback is a coroutine
    caller,         \* spawn_parallel_batch: "idle", "running" or "returned"
    next,           \* the subtask it dispatches next
    open,           \* the batch is in _active_batches
    results, errors,        \* _batch_results and _batch_errors of the batch
    load,           \* current_task_count of the registered workers
    readyMsgs,      \* announcements on their way to the router
    inbox,          \* subtasks published to each worker and not answered
    resultMsgs, errorMsgs,  \* answers on their way to the router
    onResult,       \* result subscription: "idle" or "calling"
    onError,        \* error subscription: also the subtask it will retry
    dropped,        \* history: subtasks no worker was found for
    calls,          \* history: what each call of the callback was given
    vanished,       \* history: subtasks not published, or lost with their answer
    recounted,      \* history: workers whose announced count was behind
    failures, churn \* how often the bounded steps were taken

routerVars == <<mode, asyncCallback, caller, next, open, results, errors, load,
                readyMsgs, inbox, resultMsgs, errorMsgs, onResult, onError,
                dropped, calls, vanished, recounted, failures, churn>>

Subtask == 1 .. BatchSize
Mode == {"parallel", "sequential", "adaptive"}
WorkerAnswer == [task : Subtask, worker : PoolWorker]
Announcement == [worker : PoolWorker, count : (0 .. BatchSize) \cup {Gone}]

RouterTypeOK ==
    /\ mode \in Mode /\ asyncCallback \in BOOLEAN
    /\ caller \in {"idle", "running", "returned"} /\ next \in 1 .. BatchSize + 1
    /\ open \in BOOLEAN
    /\ results \subseteq Subtask /\ errors \subseteq Subtask
    /\ \A w \in PoolWorker : load[w] = Gone \/ load[w] \in Int
    /\ readyMsgs \subseteq Announcement
    /\ inbox \in [PoolWorker -> SUBSET Subtask]
    /\ resultMsgs \subseteq WorkerAnswer
    /\ errorMsgs \subseteq [task : Subtask, worker : PoolWorker, retry : BOOLEAN]
    /\ onResult \in {"idle", "calling"}
    /\ onError.at \in {"idle", "calling", "sleeping"}
    /\ calls \in SUBSET [results : SUBSET Subtask, errors : SUBSET Subtask,
                        by : {"result", "error"}]

RouterInit ==
    /\ mode \in Mode /\ asyncCallback \in BOOLEAN
    /\ caller = "idle" /\ next = 1
    /\ open = FALSE /\ results = {} /\ errors = {}
    /\ load = [w \in PoolWorker |-> Gone]
    /\ inbox = [w \in PoolWorker |-> {}]
    /\ resultMsgs = {} /\ errorMsgs = {}
    /\ onResult = "idle" /\ onError = [at |-> "idle", task |-> 0]
    /\ readyMsgs = {} /\ dropped = {} /\ calls = {} /\ vanished = {} /\ recounted = {}
    /\ failures = 0 /\ churn = 0

----------------------------------------------------------------------------
(* The pool.                                                                *)

\* A worker announces itself with its own count of the work that has reached
\* it, or as not ready, which no dispatch looks at until it announces itself
\* again.
WorkerReady(w, count) ==
    /\ churn < MaxChurn
    /\ churn' = churn + 1
    /\ count \in 0 .. Cardinality(inbox[w]) \cup {Gone}
    /\ readyMsgs' = readyMsgs \cup {[worker |-> w, count |-> count]}
    /\ UNCHANGED <<mode, asyncCallback, caller, next, open, results, errors,
                   load, inbox, resultMsgs, errorMsgs, onResult, onError,
                   dropped, calls, vanished, recounted, failures>>

\* What worker w has been given and the router has not been told the end of.
OfWorker(S, w) == {m \in S : m.worker = w}
Backlog(w) == Cardinality(inbox[w]) + Cardinality(OfWorker(resultMsgs, w))
              + Cardinality(OfWorker(errorMsgs, w))

\* The count is taken as it was sent, whatever was dispatched and answered
\* in between.
HandleReady(m) ==
    /\ m \in readyMsgs
    /\ readyMsgs' = readyMsgs \ {m}
    /\ load' = [load EXCEPT ![m.worker] = m.count]
    /\ recounted' = IF m.count # Gone /\ m.count < Backlog(m.worker)
                    THEN recounted \cup {m.worker} ELSE recounted
    /\ UNCHANGED <<mode, asyncCallback, caller, next, open, results, errors,
                   inbox, resultMsgs, errorMsgs, onResult, onError, dropped,
                   calls, vanished, failures, churn>>

\* The monitor removes a worker whose heartbeats stayed out; a heartbeat
\* that comes later does not bring it back.
RemoveStale(w) ==
    /\ churn < MaxChurn /\ load[w] # Gone
    /\ churn' = churn + 1
    /\ load' = [load EXCEPT ![w] = Gone]
    /\ UNCHANGED <<mode, asyncCallback, caller, next, open, results, errors,
                   readyMsgs, inbox, resultMsgs, errorMsgs, onResult, onError,
                   dropped, calls, vanished, recounted, failures>>

\* Mutant: a worker that is full is still a candidate.
HasRoomOrFull(w) == load[w] # Gone /\ load[w] <= Capacity[w]

HasRoom(w) == load[w] # Gone /\ load[w] < Capacity[w]

Candidates(t) == {w \in CanRun[t] : HasRoom(w)}

\* _find_best_worker: a candidate with the least relative load.
BestFor(t, w) ==
    /\ w \in Candidates(t)
    /\ \A v \in Candidates(t) : load[w] * Capacity[v] <= load[v] * Capacity[w]

\* _dispatch_subtask: without a candidate the subtask is not queued; when the
\* publication raises, the count of the worker has been raised already.
Dispatch(t, raises) ==
    \/ /\ Candidates(t) = {} /\ ~raises
       /\ dropped' = dropped \cup {t}
       /\ UNCHANGED <<load, inbox, vanished>>
    \/ \E w \in PoolWorker :
         /\ BestFor(t, w)
         /\ load' = [load EXCEPT ![w] = @ + 1]
         /\ \/ /\ ~raises
               /\ inbox' = [inbox EXCEPT ![w] = @ \cup {t}]
               /\ UNCHANGED vanished
            \/ /\ raises /\ Cardinality(vanished) < MaxLost
               /\ vanished' = vanished \cup {t}
               /\ UNCHANGED inbox
         /\ UNCHANGED dropped

----------------------------------------------------------------------------
(* spawn_parallel_batch.                                                    *)
SpawnBatch ==
    /\ caller = "idle"
    /\ caller' = "running" /\ open' = TRUE
    /\ results' = {} /\ errors' = {}
    /\ UNCHANGED <<mode, asyncCallback, next, load, readyMsgs, inbox,
                   resultMsgs, errorMsgs, onResult, onError, dropped, calls,
                   vanished, recounted, failures, churn>>

\* What the waits of the call see: nothing once the batch was cleaned up.
Visible == IF open THEN results ELSE {}

MayDispatch(t) ==
    CASE mode = "parallel" -> TRUE
      [] mode = "sequential" -> t = 1 \/ t - 1 \in Visible
      [] mode = "adaptive" -> t <= InitialBatch
                                \/ Cardinality(Visible) >= t - InitialBatch

\* The subtasks gathered in parallel mode go on when the publication of one
\* raises; the other modes end with it.
DispatchNext ==
    /\ caller = "running" /\ next <= BatchSize /\ MayDispatch(next)
    /\ \E raises \in BOOLEAN :
         /\ Dispatch(next, raises)
         /\ IF raises /\ mode # "parallel"
            THEN caller' = "returned" /\ UNCHANGED next
            ELSE next' = next + 1 /\ UNCHANGED caller
    /\ UNCHANGED <<mode, asyncCallback, open, results, errors, readyMsgs,
                   resultMsgs, errorMsgs, onResult, onError, calls, recounted,
                   failures, churn>>

SpawnReturns ==
    /\ caller = "running" /\ next = BatchSize + 1
    /\ mode = "sequential" => BatchSize \in Visible
    /\ caller' = "returned"
    /\ UNCHANGED <<mode, asyncCallback, next, open, results, errors, load,
                   readyMsgs, inbox, resultMsgs, errorMsgs, onResult, onError,
                   dropped, calls, vanished, recounted, failures, churn>>

----------------------------------------------------------------------------
(* The workers, which every subtask leaves with one answer or none.         *)
WorkerSucceeds(w, t) ==
    /\ t \in inbox[w]
    /\ inbox' = [inbox EXCEPT ![w] = @ \ {t}]
    /\ resultMsgs' = resultMsgs \cup {[task |-> t, worker |-> w]}
    /\ UNCHANGED <<mode, asyncCallback, caller, next, open, results, errors,
                   load, readyMsgs, errorMsgs, onResult, onError, dropped,
                   calls, vanished, recounted, failures, churn>>

WorkerFails(w, t, retry) ==
    /\ t \in inbox[w] /\ failures < MaxErrors
    /\ failures' = failures + 1
    /\ inbox' = [inbox EXCEPT ![w] = @ \ {t}]
    /\ errorMsgs' = errorMsgs \cup {[task |-> t, worker |-> w, retry |-> retry]}
    /\ UNCHANGED <<mode, asyncCallback, caller, next, open, results, errors,
                   load, readyMsgs, resultMsgs, onResult, onError, dropped,
                   calls, vanished, recounted, churn>>

\* The subtask does not reach the worker, the worker dies with it, or its
\* answer does not reach the router.
LoseTask(w, t) ==
    /\ t \in inbox[w] /\ Cardinality(vanished) < MaxLost
    /\ inbox' = [inbox EXCEPT ![w] = @ \ {t}]
    /\ vanished' = vanished \cup {t}
    /\ UNCHANGED <<mode, asyncCallback, caller, next, open, results, errors,
                   load, readyMsgs, resultMsgs, errorMsgs, onResult, onError,
                   dropped, calls, recounted, failures, churn>>

LeaveWorker(w, t) ==
    \/ WorkerSucceeds(w, t)
    \/ \E retry \in BOOLEAN : WorkerFails(w, t, retry)
    \/ LoseTask(w, t)

----------------------------------------------------------------------------
(* The answers.  An answer for a batch that is gone is ignored; one from a  *)
(* registered worker lowers its load.                                       *)
Unload(w) == load' = [load EXCEPT ![w] = IF @ = Gone THEN @ ELSE @ - 1]

\* Mutant: the batch counts as complete one answer too soon.
CompleteOneShort(r, e) == Cardinality(r) + Cardinality(e) >= BatchSize - 1

Complete(r, e) == Cardinality(r) + Cardinality(e) >= BatchSize

\* Mutant: the finished batch stays registered.
CleanupForgotten == UNCHANGED <<open, results, errors>>

\* The deletions that end _check_batch_completion; the second time they
\* raise and the handler's except clause logs it.
Cleanup ==
    /\ open' = FALSE
    /\ results' = {} /\ errors' = {}

\* _check_batch_completion up to the callback: a coroutine is awaited, a
\* plain function is called and the batch cleaned up at once.
CheckBatch(r, e, by) ==
    IF ~Complete(r, e)
    THEN /\ results' = r /\ errors' = e
         /\ UNCHANGED <<open, calls>>
    ELSE /\ calls' = calls \cup {[results |-> r, errors |-> e, by |-> by]}
         /\ IF asyncCallback
            THEN results' = r /\ errors' = e /\ UNCHANGED open
            ELSE Cleanup

HandleResult(m) ==
    /\ onResult = "idle" /\ m \in resultMsgs
    /\ resultMsgs' = resultMsgs \ {m}
    /\ IF open
       THEN /\ Unload(m.worker)
            /\ CheckBatch(results \cup {m.task}, errors, "result")
            /\ onResult' = IF calls' # calls /\ asyncCallback
                           THEN "calling" ELSE "idle"
       ELSE UNCHANGED <<load, open, results, errors, calls, onResult>>
    /\ UNCHANGED <<mode, asyncCallback, caller, next, readyMsgs, inbox,
                   errorMsgs, onError, dropped, vanished, recounted, failures,
                   churn>>

\* Mutant: an error that is not retried does not lead to the completion test.
HandleErrorOnly(m) ==
    /\ onError.at = "idle" /\ m \in errorMsgs
    /\ errorMsgs' = errorMsgs \ {m}
    /\ IF open
       THEN /\ Unload(m.worker)
            /\ errors' = errors \cup {m.task}
            /\ onError' = [at |-> IF m.retry THEN "sleeping" ELSE "idle",
                           task |-> m.task]
       ELSE UNCHANGED <<load, errors, onError>>
    /\ UNCHANGED <<mode, asyncCallback, caller, next, open, results,
                   readyMsgs, inbox, resultMsgs, onResult, dropped, calls,
                   vanished, recounted, failures, churn>>

HandleError(m) ==
    /\ onError.at = "idle" /\ m \in errorMsgs
    /\ errorMsgs' = errorMsgs \ {m}
    /\ IF ~open
       THEN UNCHANGED <<load, open, results, errors, calls, onError>>
       ELSE /\ Unload(m.worker)
            /\ \/ /\ m.retry
                  /\ errors' = errors \cup {m.task}
                  /\ onError' = [at |-> "sleeping", task |-> m.task]
                  /\ UNCHANGED <<open, results, calls>>
               \/ /\ ~m.retry
                  /\ CheckBatch(results, errors \cup {m.task}, "error")
                  /\ onError' = [at |-> IF calls' # calls /\ asyncCallback
                                        THEN "calling" ELSE "idle",
                                 task |-> m.task]
    /\ UNCHANGED <<mode, asyncCallback, caller, next, readyMsgs, inbox,
                   resultMsgs, onResult, dropped, vanished, recounted, failures,
                   churn>>

\* After the delay the subtask is dispatched again, whether or not its batch
\* is still there; the handler swallows a publication that raises.
Retry ==
    /\ onError.at = "sleeping"
    /\ \E raises \in BOOLEAN : Dispatch(onError.task, raises)
    /\ onError' = [onError EXCEPT !.at = "idle"]
    /\ UNCHANGED <<mode, asyncCallback, caller, next, open, results, errors,
                   readyMsgs, resultMsgs, errorMsgs, onResult, calls,
                   recounted, failures, churn>>

CallbackReturns ==
    /\ \/ onResult = "calling" /\ onResult' = "idle" /\ UNCHANGED onError
       \/ onError.at = "calling" /\ onError' = [onError EXCEPT !.at = "idle"]
            /\ UNCHANGED onResult
    /\ Cleanup
    /\ UNCHANGED <<mode, asyncCallback, caller, next, load, readyMsgs, inbox,
                   resultMsgs, errorMsgs, dropped, calls, vanished, recounted,
                   failures, churn>>

Router ==
    \/ SpawnBatch
    \/ DispatchNext
    \/ SpawnReturns
    \/ \E m \in readyMsgs : HandleReady(m)
    \/ \E m \in resultMsgs : HandleResult(m)
    \/ \E m \in errorMsgs : HandleError(m)
    \/ Retry
    \/ CallbackReturns

RouterNext ==
    \/ \E w \in PoolWorker, count \in 0 .. BatchSize \cup {Gone} : WorkerReady(w, count)
    \/ \E w \in PoolWorker : RemoveStale(w)
    \/ Router
    \/ \E w \in PoolWorker, t \in Subtask : LeaveWorker(w, t)

\* The router's tasks go on, and a subtask does not stay with a worker for
\* ever: it is answered, or lost, which nothing makes good.
RouterFairness ==
    /\ WF_routerVars(Router)
    /\ WF_routerVars(\E w \in PoolWorker, t \in Subtask : LeaveWorker(w, t))

RouterSpec == RouterInit /\ [][RouterNext]_routerVars /\ RouterFairness

----------------------------------------------------------------------------
\* The callback is given a batch with an unanswered subtask only if another
\* one is counted both as a result and as an error, which is what a retry
\* that succeeds leaves behind (_check_batch_completion adds the two counts).
EarlyOnlyAfterRetry ==
    \A c \in calls : c.results \cup c.errors = Subtask \/ c.results \cap c.errors # {}

\* A plain callback is called once for the batch.  A coroutine is awaited
\* before the batch is deregistered, and the other subscription may call it
\* again meanwhile, but neither subscription calls it twice
\* (_check_batch_completion).
CalledOncePerSubscription ==
    /\ Cardinality(calls) <= 2
    /\ ~asyncCallback => Cardinality(calls) <= 1
    /\ \A c, d \in calls : c.by = d.by => c = d

\* A worker is never given more than it can take, unless it announced a count
\* behind what the router had given it when the announcement was handled: the
\* subtasks dispatched meanwhile, and the answers under way, are then counted
\* off a load that never held them (_handle_worker_ready, _find_best_worker).
NoOverload ==
    \A w \in PoolWorker \ recounted : Cardinality(inbox[w]) <= Capacity[w]

\* A batch completes early only after a retry, its callback is called once per
\* subscription, and no worker is overloaded (parallel_worker_router.py).
RouterSafe ==
    RouterTypeOK /\ EarlyOnlyAfterRetry /\ CalledOncePerSubscription /\ NoOverload

\* A batch is completed, unless a subtask was dropped for want of a worker or
\* lost with its answer, for which the code has neither a timeout nor another
\* dispatch, or a failed subtask holds up the dispatch of the later ones
\* (spawn_parallel_batch waits for results only).
Settles ==
    (caller = "running")
        ~> (calls # {} \/ dropped # {} \/ vanished # {}
              \/ (mode # "parallel" /\ errors # {}))

=============================================================================
