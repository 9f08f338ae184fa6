------------------------------ MODULE LaneLock ------------------------------
(***************************************************************************)
(* The lane lock of memu/lane_lock.py: a semantic mutex per resource lane, *)
(* kept in the NATS KV bucket RESOURCE_LANES, with fencing tokens in the   *)
(* bucket FENCING_TOKENS.  An "execution" is one LaneLockedExecution: a    *)
(* gateway that runs one task under its lanes, with a heartbeat task of    *)
(* its own.  Orphan detectors run beside them.                             *)
(*                                                                         *)
(* Every await on NATS is one step, so the steps of executions, heartbeats *)
(* and detectors interleave as they do in the deployed system.  Time is    *)
(* kept as ages that saturate just past the TTL: nothing in the code tells *)
(* apart two ages beyond it.                                               *)
(***************************************************************************)
EXTENDS Integers, Sequences

CONSTANTS
    Exec,           \* the LaneLockedExecution objects
    Lane,           \* keys of the two KV buckets
    Task,           \* task ids
    Detector,       \* running instances of orphan_detector_loop
    GatewayOf,      \* [Exec -> gateway ids]: gateway_id
    TaskOf,         \* [Exec -> Task]: task.task_id
    ResourceLanes,  \* [Task -> Seq(Lane)]: task.resource_lanes
    TaskLane,       \* [Task -> Lane]: the synthetic lane "task:<id>"
    TTL,            \* LANE_TTL_S, in ticks
    MaxFailures,    \* MAX_FAILURES, the bound of TaskNode.is_poison_pill
    MaxRuns,        \* bound: [Exec -> Nat], how often each is entered
    NoLock, NoLane

ASSUME TTLAssumption == TTL \in Nat \ {0}
ASSUME MaxAssumption == MaxFailures \in Nat \ {0} /\ MaxRuns \in [Exec -> Nat]
ASSUME TaskAssumption ==
    /\ TaskOf \in [Exec -> Task]
    /\ ResourceLanes \in [Task -> Seq(Lane)]
    /\ TaskLane \in [Task -> Lane]
ASSUME NullAssumption == NoLane \notin Lane

VARIABLES
    lanes_kv,       \* RESOURCE_LANES: the lock of each lane, or NoLock
    fencing_kv,     \* FENCING_TOKENS: the last token put, 0 if there is none
    pc,             \* where an execution is
    pos,            \* the lane (or the held lock) its loop is at
    token,          \* new_token, read but not yet put
    elapsed,        \* time since _acquire_lane read the clock
    acquired_locks, \* the locks the execution believes it holds
    hb,             \* where its heartbeat task is
    hbpos,          \* the held lock the heartbeat is at
    raised,         \* __aexit__ runs with an exception
    runs,           \* how often the execution was entered
    failure_count,  \* task.failure_count of the execution's TaskNode
    failedRuns,     \* history: runs that ended in an exception
    dlq,            \* the task was published to the dead letter queue
    det,            \* the stale lane a detector is about to delete
    lapsed          \* history: some lease outlived its TTL

kvVars   == <<lanes_kv, fencing_kv, lapsed>>
hbVars   == <<hb, hbpos>>
failVars == <<failure_count, failedRuns, dlq>>
vars == <<lanes_kv, fencing_kv, pc, pos, token, elapsed, acquired_locks, hb,
          hbpos, raised, runs, failure_count, failedRuns, dlq, det, lapsed>>

-----------------------------------------------------------------------------
Age == 0 .. TTL + 1

Older(a) == IF a > TTL THEN a ELSE a + 1

\* The KV payload.  "owner" stands for the gateway_id and task_id it names,
\* "age" is now - acquired_at, "kvage" the age of the KV entry itself.
Lock == [owner : Exec, fencing_token : Nat, age : Age, kvage : Age]
HeldLock == [lane : Lane, fencing_token : Nat]

ASSUME NoLockAssumption == NoLock \notin Lock

Acquiring == {"read", "reclaim", "fence", "create", "put"}
Executing == {"running", "validate", "commit"}
Releasing == {"relread", "reldel"}
Active    == Acquiring \cup Executing \cup Releasing
Control   == Active \cup {"idle", "refused", "crashed"}

LanesOf(e) ==
    LET lanes == ResourceLanes[TaskOf[e]]
    IN IF lanes = <<>> THEN <<TaskLane[TaskOf[e]]>> ELSE lanes

SameClaim(e, f) == GatewayOf[e] = GatewayOf[f] /\ TaskOf[e] = TaskOf[f]

Current(e) == LanesOf(e)[pos[e]]
HeldAt(e, i) == acquired_locks[e][i]

\* Mutant: an off-by-one in the staleness test.
StaleOneEarly(lock) == lock.age >= TTL

Stale(lock) == lock.age > TTL

Lapsing(kv) == \E l \in Lane : /\ kv[l] # NoLock
                               /\ kv[l].age > TTL \/ kv[l].kvage >= TTL

\* Every write of the lanes bucket also keeps the history of lapsed leases.
SetLane(l, lock) ==
    /\ lanes_kv' = [lanes_kv EXCEPT ![l] = lock]
    /\ lapsed' = (lapsed \/ Lapsing(lanes_kv'))

Goto(e, where) == pc' = [pc EXCEPT ![e] = where]

Init ==
    /\ lanes_kv = [l \in Lane |-> NoLock]
    /\ fencing_kv = [l \in Lane |-> 0]
    /\ pc = [e \in Exec |-> "idle"]
    /\ pos = [e \in Exec |-> 1]
    /\ token = [e \in Exec |-> 0]
    /\ elapsed = [e \in Exec |-> 0]
    /\ acquired_locks = [e \in Exec |-> <<>>]
    /\ hb = [e \in Exec |-> "off"]
    /\ hbpos = [e \in Exec |-> 1]
    /\ raised = [e \in Exec |-> FALSE]
    /\ runs = [e \in Exec |-> 0]
    /\ failure_count = [e \in Exec |-> 0]
    /\ failedRuns = [e \in Exec |-> 0]
    /\ dlq = [e \in Exec |-> FALSE]
    /\ det = [d \in Detector |-> NoLane]
    /\ lapsed = FALSE

-----------------------------------------------------------------------------
(* Acquisition: __aenter__, _acquire_all_lanes, _acquire_lane               *)

\* "async with" is entered, for the first time or again by the retry loop of
\* the caller (boot.py, _run_smoke_task).
Enter(e) ==
    /\ pc[e] \in {"idle", "refused"}
    /\ runs[e] < MaxRuns[e]
    /\ runs' = [runs EXCEPT ![e] = @ + 1]
    /\ pos' = [pos EXCEPT ![e] = 1]
    /\ Goto(e, "read")
    /\ UNCHANGED <<kvVars, token, elapsed, acquired_locks, hbVars, raised,
                   failVars, det>>

\* An exception leaves __aenter__: __aexit__ is not called, so the lanes
\* acquired so far stay locked in the bucket, without a heartbeat.
Refuse(e) ==
    /\ Goto(e, "refused")
    /\ acquired_locks' = [acquired_locks EXCEPT ![e] = <<>>]

\* The clock is read and the lock fetched.  A lock of the same claim or a
\* fresh lock of a peer raises; a stale one is reclaimed; a get that raises
\* counts as an absent lock.
AcquireRead(e) ==
    /\ pc[e] = "read"
    /\ LET lock == lanes_kv[Current(e)] IN
       \/ /\ Goto(e, "fence")    \* no lock, or _get_lock_state failed
          /\ UNCHANGED acquired_locks
       \/ /\ lock # NoLock
          /\ ~SameClaim(e, lock.owner) /\ Stale(lock)
          /\ Goto(e, "reclaim")
          /\ UNCHANGED acquired_locks
       \/ /\ lock # NoLock
          /\ SameClaim(e, lock.owner) \/ ~Stale(lock)
          /\ Refuse(e)
    /\ elapsed' = [elapsed EXCEPT ![e] = 0]
    /\ UNCHANGED <<kvVars, pos, token, hbVars, raised, runs, failVars, det>>

\* The delete is unconditional: it removes whatever the lane holds by now.
AcquireReclaim(e) ==
    /\ pc[e] = "reclaim"
    /\ SetLane(Current(e), NoLock)
    /\ Goto(e, "fence")
    /\ UNCHANGED <<fencing_kv, pos, token, elapsed, acquired_locks, hbVars,
                   raised, runs, failVars, det>>

\* A get that raises, for whatever reason, starts the tokens again at 1.
AcquireFence(e) ==
    /\ pc[e] = "fence"
    /\ \E read \in {fencing_kv[Current(e)], 0} :
          token' = [token EXCEPT ![e] = read + 1]
    /\ Goto(e, "create")
    /\ UNCHANGED <<kvVars, pos, elapsed, acquired_locks, hbVars, raised, runs,
                   failVars, det>>

\* KeyValue.create succeeds only on an absent key; acquired_at is the clock
\* read at the start of _acquire_lane.
AcquireCreate(e) ==
    /\ pc[e] = "create"
    /\ LET l == Current(e) IN
       \/ /\ lanes_kv[l] = NoLock
          /\ SetLane(l, [owner |-> e, fencing_token |-> token[e],
                         age |-> elapsed[e], kvage |-> 0])
          /\ Goto(e, "put")
          /\ UNCHANGED acquired_locks
       \/ /\ lanes_kv[l] # NoLock
          /\ Refuse(e)
          /\ UNCHANGED <<lanes_kv, lapsed>>
    /\ elapsed' = [elapsed EXCEPT ![e] = 0]
    /\ UNCHANGED <<fencing_kv, pos, token, hbVars, raised, runs, failVars, det>>

\* The token is put, the lock joins acquired_locks, and the loop goes on to
\* the next lane; after the last one the heartbeat starts and the body runs.
\* If LANE_ACQUIRED cannot be published, the acquisition fails after the put.
AcquirePut(e) ==
    /\ pc[e] = "put"
    /\ fencing_kv' = [fencing_kv EXCEPT ![Current(e)] = token[e]]
    /\ LET last == pos[e] = Len(LanesOf(e)) IN
       \/ /\ acquired_locks' = [acquired_locks EXCEPT ![e] =
                Append(@, [lane |-> Current(e), fencing_token |-> token[e]])]
          /\ Goto(e, IF last THEN "running" ELSE "read")
          /\ pos' = [pos EXCEPT ![e] = IF last THEN 1 ELSE @ + 1]
          /\ hb' = [hb EXCEPT ![e] = IF last THEN "sleep" ELSE @]
       \/ /\ Refuse(e)
          /\ UNCHANGED <<pos, hb>>
    /\ token' = [token EXCEPT ![e] = 0]
    /\ UNCHANGED <<lanes_kv, lapsed, elapsed, hbpos, raised, runs, failVars,
                   det>>

\* Any other exception of a NATS call while the lanes are being acquired.
AcquireAbort(e) ==
    /\ pc[e] \in Acquiring
    /\ Refuse(e)
    /\ token' = [token EXCEPT ![e] = 0]
    /\ elapsed' = [elapsed EXCEPT ![e] = 0]
    /\ UNCHANGED <<kvVars, pos, hbVars, raised, runs, failVars, det>>

-----------------------------------------------------------------------------
(* Heartbeat: _heartbeat_loop, _renew_lane_lock                             *)

Wake(e) ==
    /\ hb[e] = "sleep"
    /\ hb' = [hb EXCEPT ![e] = "read"]
    /\ hbpos' = [hbpos EXCEPT ![e] = 1]
    /\ UNCHANGED <<kvVars, pc, pos, token, elapsed, acquired_locks, raised,
                   runs, failVars, det>>

\* A lost lock or a foreign token raises FencingTokenError, which the loop
\* only logs: it sleeps again, and the rest of the locks are not renewed.
RenewRead(e) ==
    /\ hb[e] = "read" /\ hbpos[e] <= Len(acquired_locks[e])
    /\ LET held == HeldAt(e, hbpos[e])
           lock == lanes_kv[held.lane]
       IN \/ /\ lock # NoLock /\ lock.fencing_token = held.fencing_token
             /\ hb' = [hb EXCEPT ![e] = "put"]
          \/ hb' = [hb EXCEPT ![e] = "sleep"]  \* lost, foreign, or get failed
    /\ UNCHANGED <<kvVars, pc, pos, token, elapsed, acquired_locks, hbpos,
                   raised, runs, failVars, det>>

\* The put is unconditional too, and names the execution as the owner.  If
\* it raises, the loop sleeps again.
RenewPut(e) ==
    /\ hb[e] = "put" /\ hbpos[e] <= Len(acquired_locks[e])
    /\ LET held == HeldAt(e, hbpos[e])
           last == hbpos[e] = Len(acquired_locks[e])
       IN \/ /\ SetLane(held.lane, [owner |-> e, age |-> 0, kvage |-> 0,
                                    fencing_token |-> held.fencing_token])
             /\ hb' = [hb EXCEPT ![e] = IF last THEN "sleep" ELSE "read"]
             /\ hbpos' = [hbpos EXCEPT ![e] = IF last THEN 1 ELSE @ + 1]
          \/ /\ hb' = [hb EXCEPT ![e] = "sleep"]
             /\ UNCHANGED <<lanes_kv, lapsed, hbpos>>
    /\ UNCHANGED <<fencing_kv, pc, pos, token, elapsed, acquired_locks, raised,
                   runs, failVars, det>>

-----------------------------------------------------------------------------
(* The body: run, and __aexit__ with _release_all_lanes                     *)

\* Mutant: the cancellation does not stop a renewal that has begun.
LeaveRenewing(e, withError) ==
    /\ raised' = [raised EXCEPT ![e] = withError]
    /\ hb' = [hb EXCEPT ![e] = IF @ = "put" THEN @ ELSE "off"]
    /\ UNCHANGED hbpos
    /\ pos' = [pos EXCEPT ![e] = 1]
    /\ Goto(e, "relread")

\* __aexit__ cancels the heartbeat before anything else.
Leave(e, withError) ==
    /\ raised' = [raised EXCEPT ![e] = withError]
    /\ hb' = [hb EXCEPT ![e] = "off"]
    /\ hbpos' = [hbpos EXCEPT ![e] = 1]
    /\ pos' = [pos EXCEPT ![e] = 1]
    /\ Goto(e, "relread")

\* Mutant: an off-by-one in is_poison_pill.
HandleFailureEarly(e) ==
    /\ failure_count' = [failure_count EXCEPT ![e] = @ + 1]
    /\ \E published \in BOOLEAN :
          dlq' = [dlq EXCEPT ![e] =
                    @ \/ (published /\ failure_count'[e] + 1 >= MaxFailures)]

\* _handle_failure: count, then escalate a poison pill, if the events can be
\* published.
HandleFailure(e) ==
    /\ failure_count' = [failure_count EXCEPT ![e] = @ + 1]
    /\ \E published \in BOOLEAN :
          dlq' = [dlq EXCEPT ![e] =
                    @ \/ (published /\ failure_count'[e] >= MaxFailures)]

AgentReturns(e) ==
    /\ pc[e] = "running"
    /\ Goto(e, "validate")
    /\ UNCHANGED <<kvVars, pos, token, elapsed, acquired_locks, hbVars, raised,
                   runs, failVars, det>>

\* The agent function, a get of the validation or the publication of the
\* result raises: run() handles the failure and re-raises.
AgentRaises(e) ==
    /\ pc[e] \in Executing
    /\ HandleFailure(e)
    /\ failedRuns' = [failedRuns EXCEPT ![e] = @ + 1]
    /\ Leave(e, TRUE)
    /\ UNCHANGED <<kvVars, token, elapsed, acquired_locks, runs, det>>

\* The current token of one held lane is compared with the lock's token.
Validate(e) ==
    /\ pc[e] = "validate"
    /\ LET held == HeldAt(e, pos[e]) IN
       \/ /\ fencing_kv[held.lane] = held.fencing_token
          /\ pos[e] < Len(acquired_locks[e])
          /\ pos' = [pos EXCEPT ![e] = @ + 1]
          /\ UNCHANGED <<pc, hbVars, raised, failedRuns>>
       \/ /\ fencing_kv[held.lane] = held.fencing_token
          /\ pos[e] = Len(acquired_locks[e])
          /\ Goto(e, "commit")
          /\ UNCHANGED <<pos, hbVars, raised, failedRuns>>
       \/ /\ fencing_kv[held.lane] # held.fencing_token
          /\ failedRuns' = [failedRuns EXCEPT ![e] = @ + 1]
          /\ Leave(e, TRUE)
    /\ UNCHANGED <<kvVars, token, elapsed, acquired_locks, runs,
                   failure_count, dlq, det>>

\* TASK_COMPLETED is published and run() returns.
Complete(e) ==
    /\ pc[e] = "commit"
    /\ Leave(e, FALSE)
    /\ UNCHANGED <<kvVars, token, elapsed, acquired_locks, runs, failVars, det>>

\* The end of __aexit__: an exception is handled (again) and suppressed.
Exited(e) ==
    /\ Goto(e, "idle")
    /\ acquired_locks' = [acquired_locks EXCEPT ![e] = <<>>]
    /\ raised' = [raised EXCEPT ![e] = FALSE]
    /\ pos' = [pos EXCEPT ![e] = 1]
    /\ IF raised[e] THEN HandleFailure(e) ELSE UNCHANGED <<failure_count, dlq>>

NextRelease(e) ==
    IF pos[e] = Len(acquired_locks[e])
    THEN Exited(e)
    ELSE /\ pos' = [pos EXCEPT ![e] = @ + 1]
         /\ Goto(e, "relread")
         /\ UNCHANGED <<acquired_locks, raised, failure_count, dlq>>

OwnLock(e, lock, held) ==
    /\ lock # NoLock
    /\ SameClaim(e, lock.owner)
    /\ lock.fencing_token = held.fencing_token

ReleaseRead(e) ==
    /\ pc[e] = "relread"
    /\ LET held == HeldAt(e, pos[e]) IN
       \/ /\ OwnLock(e, lanes_kv[held.lane], held)
          /\ Goto(e, "reldel")
          /\ UNCHANGED <<pos, acquired_locks, raised, failure_count, dlq>>
       \/ NextRelease(e)         \* gone, stolen, or the get failed
    /\ UNCHANGED <<kvVars, token, elapsed, hbVars, runs, failedRuns, det>>

ReleaseDelete(e) ==
    /\ pc[e] = "reldel"
    /\ \/ SetLane(HeldAt(e, pos[e]).lane, NoLock)
       \/ UNCHANGED <<lanes_kv, lapsed>>       \* the delete failed
    /\ NextRelease(e)
    /\ UNCHANGED <<fencing_kv, token, elapsed, hbVars, runs, failedRuns, det>>

\* The gateway process dies: body and heartbeat stop where they are.
Crash(e) ==
    /\ pc[e] \in Active
    /\ Goto(e, "crashed")
    /\ hb' = [hb EXCEPT ![e] = "off"]
    /\ hbpos' = [hbpos EXCEPT ![e] = 1]
    /\ pos' = [pos EXCEPT ![e] = 1]
    /\ token' = [token EXCEPT ![e] = 0]
    /\ elapsed' = [elapsed EXCEPT ![e] = 0]
    /\ raised' = [raised EXCEPT ![e] = FALSE]
    /\ acquired_locks' = [acquired_locks EXCEPT ![e] = <<>>]
    /\ UNCHANGED <<kvVars, runs, failVars, det>>

-----------------------------------------------------------------------------
(* The surroundings: orphan_detector_loop, the bucket's TTL, the clock      *)

\* One lane of a scan: a stale lock is reported as TASK_ORPHANED ...
DetectStale(d, l) ==
    /\ det[d] = NoLane
    /\ lanes_kv[l] # NoLock /\ Stale(lanes_kv[l])
    /\ det' = [det EXCEPT ![d] = l]
    /\ UNCHANGED <<kvVars, pc, pos, token, elapsed, acquired_locks, hbVars,
                   raised, runs, failVars>>

\* ... and the lane is deleted, whatever it holds by now, if the calls succeed.
DetectDelete(d) ==
    /\ det[d] # NoLane
    /\ \/ SetLane(det[d], NoLock)
       \/ UNCHANGED <<lanes_kv, lapsed>>
    /\ det' = [det EXCEPT ![d] = NoLane]
    /\ UNCHANGED <<fencing_kv, pc, pos, token, elapsed, acquired_locks, hbVars,
                   raised, runs, failVars>>

\* Mutant: the bucket is created without a ttl.
KVExpireNever(l) == FALSE /\ UNCHANGED vars /\ l \in Lane

\* NATS drops an entry that was not written for the bucket's ttl.
KVExpire(l) ==
    /\ lanes_kv[l] # NoLock
    /\ lanes_kv[l].kvage >= TTL
    /\ SetLane(l, NoLock)
    /\ UNCHANGED <<fencing_kv, pc, pos, token, elapsed, acquired_locks, hbVars,
                   raised, runs, failVars, det>>

Tick ==
    /\ lanes_kv' = [l \in Lane |->
          IF lanes_kv[l] = NoLock THEN NoLock
          ELSE [lanes_kv[l] EXCEPT !.age = Older(@), !.kvage = Older(@)]]
    /\ lapsed' = (lapsed \/ Lapsing(lanes_kv'))
    /\ elapsed' = [e \in Exec |->
          IF pc[e] \in {"reclaim", "fence", "create"}
          THEN Older(elapsed[e]) ELSE elapsed[e]]
    /\ UNCHANGED <<fencing_kv, pc, pos, token, acquired_locks, hbVars, raised,
                   runs, failVars, det>>

-----------------------------------------------------------------------------
AcquireStep(e) == \/ AcquireRead(e) \/ AcquireReclaim(e) \/ AcquireFence(e)
                  \/ AcquireCreate(e) \/ AcquirePut(e)

BodyStep(e) == \/ AgentReturns(e) \/ AgentRaises(e) \/ Validate(e)
               \/ Complete(e) \/ ReleaseRead(e) \/ ReleaseDelete(e)

HeartbeatStep(e) == Wake(e) \/ RenewRead(e) \/ RenewPut(e)

Next ==
    \/ \E e \in Exec : \/ Enter(e) \/ AcquireStep(e) \/ AcquireAbort(e)
                       \/ HeartbeatStep(e) \/ BodyStep(e) \/ Crash(e)
    \/ \E d \in Detector : DetectDelete(d) \/ \E l \in Lane : DetectStale(d, l)
    \/ \E l \in Lane : KVExpire(l)
    \/ Tick

Spec == Init /\ [][Next]_vars

\* The clock advances and NATS applies the bucket's ttl; nothing is assumed
\* of the gateways, which may stop anywhere.
FairSpec == Spec /\ WF_vars(Tick) /\ \A l \in Lane : WF_vars(KVExpire(l))

-----------------------------------------------------------------------------
(* Properties                                                               *)

\* Locks, tokens and what an execution holds have the shape that lane_lock.py
\* writes, and ages stay within what the staleness tests tell apart.
TypeOK ==
    /\ lanes_kv \in [Lane -> Lock \cup {NoLock}]
    /\ fencing_kv \in [Lane -> Nat]
    /\ pc \in [Exec -> Control]
    /\ pos \in [Exec -> Nat \ {0}]
    /\ token \in [Exec -> Nat]
    /\ elapsed \in [Exec -> Age]
    /\ acquired_locks \in [Exec -> Seq(HeldLock)]
    /\ hb \in [Exec -> {"off", "sleep", "read", "put"}]
    /\ hbpos \in [Exec -> Nat \ {0}]
    /\ raised \in [Exec -> BOOLEAN]
    /\ runs \in [Exec -> Nat]
    /\ failure_count \in [Exec -> Nat]
    /\ failedRuns \in [Exec -> Nat]
    /\ dlq \in [Exec -> BOOLEAN]
    /\ det \in [Detector -> Lane \cup {NoLane}]
    /\ lapsed \in BOOLEAN

\* Execution e holds lane l under the current fencing token.
Accepts(e, l) ==
    \E i \in 1 .. Len(acquired_locks[e]) :
        acquired_locks[e][i] = [lane |-> l, fencing_token |-> fencing_kv[l]]

\* As long as no lease has outlived its TTL, a lane that an execution holds
\* (before it starts releasing) is locked in its name and under its token,
\* and that token is the current fencing token: in particular no two
\* executions hold one lane.  This is what the create of _acquire_lane, the
\* read-then-put of the heartbeat and the read-then-delete of the release are
\* for, with every interleaving of them.
ExclusiveUntilLapse ==
    ~lapsed =>
        \A e \in Exec : pc[e] \in Acquiring \cup Executing =>
            \A i \in 1 .. Len(acquired_locks[e]) :
                LET held == acquired_locks[e][i]
                    lock == lanes_kv[held.lane]
                IN /\ lock # NoLock
                   /\ lock.owner = e
                   /\ lock.fencing_token = held.fencing_token
                   /\ fencing_kv[held.lane] = held.fencing_token

\* A lane comes to be locked in the name of an execution only while that
\* execution is acquiring or executing: no heartbeat brings back a lock
\* after __aexit__ has begun, after a failed acquisition or after a crash,
\* whatever has lapsed in between.
NoZombieRenewal ==
    [][\A l \in Lane, e \in Exec :
          /\ lanes_kv'[l] # NoLock /\ lanes_kv'[l].owner = e
          /\ lanes_kv[l] = NoLock \/ lanes_kv[l].owner # e
          => pc[e] \in Acquiring \cup Executing]_vars

\* One failing run never sends a task to the dead letter queue: the counter
\* and the escalation of _handle_failure, called from run() and again from
\* __aexit__, allow it after the second failing run at the earliest.
NoEscalationOnFirstFailure == \A e \in Exec : dlq[e] => failedRuns[e] >= 2

\* The lock of an execution that crashed or gave up while acquiring (with
\* the lanes it had already taken) does not stay for ever.
AbandonedLaneFreed ==
    \A l \in Lane, e \in Exec :
        /\ lanes_kv[l] # NoLock /\ lanes_kv[l].owner = e
        /\ pc[e] \in {"crashed", "refused"}
        ~> \/ lanes_kv[l] = NoLock \/ lanes_kv[l].owner # e
           \/ pc[e] \notin {"crashed", "refused"}

-----------------------------------------------------------------------------
(* A claim of the code's comments that the code does not keep               *)

\* "Validate fencing token before committing ... Split-brain prevented" (run):
\* of two executions that run under one lane, at most one holds the token
\* that the validation accepts.
SplitBrainPrevented ==
    \A e, f \in Exec : e # f /\ pc[e] \in Executing /\ pc[f] \in Executing =>
        \A l \in Lane :
            ~(Accepts(e, l) /\ Accepts(f, l))

=============================================================================
