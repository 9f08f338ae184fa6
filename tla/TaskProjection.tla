----------------------------- MODULE TaskProjection -----------------------------
(* The materialised tasks table: projectors that replay the events table    *)
(* and write the result, with or without the advisory lock of               *)
(* project_with_lock, over one connection pool, and the archiving of the    *)
(* events of finished tasks.                                                *)
EXTENDS TaskEvents, FiniteSets

CONSTANTS
    Projector,      \* concurrent calls of materialize_tasks
    PoolSizes,      \* sizes of the connection pool the run covers
    Published,      \* the events the run uses
    MaxLog          \* bound: events stored

VARIABLES
    locked,         \* the calls go through project_with_lock
    poolSize,       \* max_size of the pool
    events,         \* the events table
    stored,         \* events stored so far
    rows,           \* the tasks table: what materialize_tasks writes
    at,             \* where each projector is
    dag,            \* what it has projected
    free,           \* idle connections of the pool
    lock,           \* holder of the advisory lock, or "none"
    archived,       \* history: tasks with archived events
    misfiled        \* history: tasks archived unfinished though their row was current

projectionVars == <<locked, poolSize, events, stored, rows, at, dag, free, lock,
                    archived, misfiled>>

Row(node) == [status |-> node.status, gateway |-> node.gateway,
              spent |-> node.spent]

Stage == {"idle", "locking", "reading", "writing", "releasing"}

ProjectionTypeOK ==
    /\ locked \in BOOLEAN /\ poolSize \in PoolSizes
    /\ events \in Seq(Event) /\ stored \in 0 .. MaxLog
    /\ \A t \in Task : rows[t].status \in Status
    /\ at \in [Projector -> Stage]
    /\ free \in 0 .. poolSize
    /\ lock \in Projector \cup {"none"}
    /\ archived \subseteq Task /\ misfiled \subseteq Task

Init ==
    /\ locked \in BOOLEAN /\ poolSize \in PoolSizes
    /\ events = <<>> /\ stored = 0
    /\ rows = [t \in Task |-> Row(Unknown)]
    /\ at = [p \in Projector |-> "idle"]
    /\ dag = [p \in Projector |-> NoNodes]
    /\ free = poolSize /\ lock = "none"
    /\ archived = {} /\ misfiled = {}

\* An event is stored, in the place its timestamp gives it; the row of its task
\* exists, because the replay joins the events with the tasks table.
StoreEvent(e, place) ==
    /\ stored < MaxLog
    /\ stored' = stored + 1
    /\ events' = Stored(events, e, place)
    /\ UNCHANGED <<locked, poolSize, rows, at, dag, free, lock, archived, misfiled>>

\* project_with_lock takes a connection for its own transaction and keeps it.
BeginLocked(p) ==
    /\ locked /\ at[p] = "idle" /\ free > 0
    /\ free' = free - 1
    /\ at' = [at EXCEPT ![p] = "locking"]
    /\ UNCHANGED <<locked, poolSize, events, stored, rows, dag, lock, archived, misfiled>>

\* Mutant: the lock is asked for and not waited for.
TakeLockRegardless(p) ==
    /\ at[p] = "locking"
    /\ lock' = p
    /\ at' = [at EXCEPT ![p] = "reading"]
    /\ UNCHANGED <<locked, poolSize, events, stored, rows, dag, free, archived, misfiled>>

TakeLock(p) ==
    /\ at[p] = "locking" /\ lock = "none"
    /\ lock' = p
    /\ at' = [at EXCEPT ![p] = "reading"]
    /\ UNCHANGED <<locked, poolSize, events, stored, rows, dag, free, archived, misfiled>>

\* project_task_dag reads over a connection of its own, which it gives back.
ReadEvents(p) ==
    /\ at[p] = IF locked THEN "reading" ELSE "idle"
    /\ free > 0
    /\ dag' = [dag EXCEPT ![p] = Project(events)]
    /\ at' = [at EXCEPT ![p] = "writing"]
    /\ UNCHANGED <<locked, poolSize, events, stored, rows, free, lock, archived, misfiled>>

\* The upserts of materialize_tasks, one transaction over another connection:
\* the rows of the tasks in the projection, the others stay as they are.
WriteRows(p) ==
    /\ at[p] = "writing" /\ free > 0
    /\ rows' = [t \in Task |-> IF dag[p][t].known THEN Row(dag[p][t]) ELSE rows[t]]
    /\ at' = [at EXCEPT ![p] = IF locked THEN "releasing" ELSE "idle"]
    /\ dag' = [dag EXCEPT ![p] = NoNodes]
    /\ UNCHANGED <<locked, poolSize, events, stored, free, lock, archived, misfiled>>

\* Mutant: the outer connection is not given back.
ReleaseLeaksConnection(p) ==
    /\ at[p] = "releasing"
    /\ lock' = "none"
    /\ at' = [at EXCEPT ![p] = "idle"]
    /\ UNCHANGED <<locked, poolSize, events, stored, rows, dag, free, archived, misfiled>>

\* The outer transaction ends: lock and connection are given back.
Release(p) ==
    /\ at[p] = "releasing"
    /\ lock' = "none"
    /\ free' = free + 1
    /\ at' = [at EXCEPT ![p] = "idle"]
    /\ UNCHANGED <<locked, poolSize, events, stored, rows, dag, archived, misfiled>>

Finished == {"completed", "cancelled", "failed"}

\* Mutant: the archiving does not look at the status.
OldTasksAny == Task

\* The tasks whose row says that they are finished.
OldTasks == {t \in Task : rows[t].status \in Finished}

\* archive_old_events: the events of the tasks that finished long ago.
Archive ==
    /\ free > 0
    /\ \E ts \in SUBSET OldTasks : LET now == Project(events) IN
         /\ \E i \in DOMAIN events : events[i].task \in ts
         /\ events' = SelectSeq(events, LAMBDA e : e.task \notin ts)
         /\ archived' = archived \cup ts
         /\ misfiled' = misfiled \cup
              {t \in ts : /\ rows[t] = Row(now[t])
                          /\ now[t].status \notin Finished}
    /\ UNCHANGED <<locked, poolSize, stored, rows, at, dag, free, lock>>

Step(p) ==
    \/ BeginLocked(p)
    \/ TakeLock(p)
    \/ ReadEvents(p)
    \/ WriteRows(p)
    \/ Release(p)

Next ==
    \/ \E e \in Published, place \in 1 .. Len(events) + 1 : StoreEvent(e, place)
    \/ \E p \in Projector : Step(p)
    \/ Archive

\* The pool and the advisory lock serve their waiters in turn.
Fairness == \A p \in Projector : SF_projectionVars(at[p] # "idle" /\ Step(p))

Spec == Init /\ [][Next]_projectionVars /\ Fairness

----------------------------------------------------------------------------
\* Under the advisory lock the table never goes back to an older state of
\* the events: what a row says was spent does not shrink, unless events of
\* the task were archived (project_with_lock around materialize_tasks).
RowsNeverRegress ==
    [][locked => \A t \in Task \ archived : rows'[t].spent >= rows[t].spent]_projectionVars

\* A call that has begun ends, when the pool has a connection more than there
\* are callers: each keeps one while it waits for the lock, and the one that
\* has the lock needs another (project_with_lock passes the pool on).
ProjectionFinishes ==
    \A p \in Projector :
        (poolSize > Cardinality(Projector) \/ ~locked) /\ at[p] # "idle"
            ~> at[p] = "idle"

\* The events of a task are archived while it is unfinished only if its row
\* lagged behind its events (archive_old_events trusts tasks.status).
ArchivedWhenFinished == misfiled = {}

=============================================================================
