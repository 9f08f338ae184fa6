-------------------------- MODULE LaneLock_proofs --------------------------
(***************************************************************************)
(* Proofs about LaneLock, for any executions, lanes, orphan detectors and  *)
(* ttl: until a lease outlives its ttl the lane lock is exclusive under    *)
(* every interleaving of acquisitions, heartbeats and releases; a          *)
(* heartbeat never brings back a lock that was given up; a task is not     *)
(* sent to the dead letter queue by its first failing run.  Last, MeshRPC, *)
(* for any gateways and calls: no answer in time is missed, and an answer  *)
(* to another request is taken only where the code lets the two mix.       *)
(***************************************************************************)
EXTENDS LaneLock, MeshRPC, SequenceTheorems, TLAPS

-----------------------------------------------------------------------------
(* The inductive invariant                                                  *)

\* Where an execution is says what it has recorded, how far its loops are,
\* and that a heartbeat runs only beside a body.
ShapeOf(e) ==
    /\ pc[e] \in {"idle", "refused", "crashed"} => acquired_locks[e] = <<>>
    /\ pc[e] \in Acquiring => /\ pos[e] <= Len(LanesOf(e))
                              /\ Len(acquired_locks[e]) + 1 = pos[e]
    /\ pc[e] \in Executing \cup Releasing => pos[e] <= Len(acquired_locks[e])
    /\ pc[e] = "running" => pos[e] = 1
    /\ hb[e] # "off" => pc[e] \in Executing
    /\ raised[e] => pc[e] \in Releasing
Shape == \A e \in Exec : ShapeOf(e)

\* A reclaim, a detector's delete and the expiry of a bucket entry happen only
\* after a lease outlived its ttl, and the history knows it.
LapseKnown ==
    /\ Lapsing(lanes_kv) => lapsed
    /\ \A e \in Exec : pc[e] = "reclaim" => lapsed
    /\ \A d \in Detector : det[d] # NoLane => lapsed

\* The i-th lock of execution e is in the bucket, in its name and under its
\* token, which is the current one.
Holds(e, i) ==
    LET held == acquired_locks[e][i]
        lock == lanes_kv[held.lane]
    IN /\ lock # NoLock
       /\ lock.owner = e
       /\ lock.fencing_token = held.fencing_token
       /\ fencing_kv[held.lane] = held.fencing_token

\* The locks that execution e has not yet come to in _release_all_lanes.
Unreleased(e) == {i \in 1 .. Len(acquired_locks[e]) :
                     pc[e] \in Releasing => pos[e] <= i}

\* An execution holds every lane it has taken and not yet released; it has
\* taken each lane once; and between its create and its put of the token
\* nobody else touches the lane.
Locked ==
    ~lapsed =>
        \A e \in Exec :
            /\ \A i \in Unreleased(e) : Holds(e, i)
            /\ \A i, j \in 1 .. Len(acquired_locks[e]) :
                  acquired_locks[e][i].lane = acquired_locks[e][j].lane => i = j
            /\ pc[e] = "put" =>
                  /\ lanes_kv[Current(e)] # NoLock
                  /\ lanes_kv[Current(e)].owner = e
                  /\ lanes_kv[Current(e)].fencing_token = token[e]
                  /\ \A i \in 1 .. Len(acquired_locks[e]) :
                        acquired_locks[e][i].lane # Current(e)

\* Every failing run is counted at most twice, by run() and by __aexit__, and
\* only a counter at its limit sends the task to the dead letter queue.
CountedOf(e) ==
    /\ failure_count[e] <= 2 * failedRuns[e]
    /\ raised[e] => failure_count[e] + 1 <= 2 * failedRuns[e]
    /\ dlq[e] => MaxFailures <= 2 * failedRuns[e]
Counted == \A e \in Exec : CountedOf(e)

IInv == /\ TypeOK
        /\ Shape
        /\ LapseKnown
        /\ Locked
        /\ Counted

-----------------------------------------------------------------------------
(* Type correctness                                                         *)

\* A variable that keeps its value or is updated at one point keeps its type.
LEMMA UpdateType ==
    ASSUME NEW A, NEW B, NEW f \in [A -> B], NEW g, NEW x \in A,
           g = f \/ \E v \in B : g = [f EXCEPT ![x] = v]
    PROVE  g \in [A -> B]
<1>1. CASE g = f
  BY <1>1
<1>2. ASSUME NEW v \in B, g = [f EXCEPT ![x] = v] PROVE g \in [A -> B]
  BY <1>2
<1> QED
  BY <1>1, <1>2

\* An execution has at least one lane: the synthetic one if it declares none.
LEMMA LanesType ==
    ASSUME NEW e \in Exec
    PROVE  LanesOf(e) \in Seq(Lane) /\ 1 <= Len(LanesOf(e)) /\ Len(LanesOf(e)) \in Nat
<1>1. ResourceLanes[TaskOf[e]] \in Seq(Lane) /\ TaskLane[TaskOf[e]] \in Lane
  BY TaskAssumption
<1>2. CASE ResourceLanes[TaskOf[e]] = <<>>
  BY <1>1, <1>2 DEF LanesOf
<1>3. CASE ResourceLanes[TaskOf[e]] # <<>>
  BY <1>1, <1>3 DEF LanesOf
<1> QED
  BY <1>2, <1>3

\* The lane an acquisition is at exists.
LEMMA CurrentType ==
    ASSUME TypeOK, Shape, NEW e \in Exec, pc[e] \in Acquiring
    PROVE  Current(e) \in Lane
<1>1. pos[e] \in 1 .. Len(LanesOf(e))
  BY LanesType DEF TypeOK, Shape, ShapeOf
<1> QED
  BY <1>1, LanesType DEF Current

LEMMA HeldType ==
    ASSUME TypeOK, NEW e \in Exec, NEW i \in 1 .. Len(acquired_locks[e])
    PROVE  /\ acquired_locks[e][i] \in HeldLock
           /\ acquired_locks[e][i].lane \in Lane
           /\ acquired_locks[e][i].fencing_token \in Nat
<1>1. acquired_locks[e] \in Seq(HeldLock)
  BY DEF TypeOK
<1>2. acquired_locks[e][i] \in HeldLock
  BY <1>1
<1> QED
  BY <1>2 DEF HeldLock

\* Ages saturate: they never leave the range the staleness tests tell apart.
LEMMA OlderType ==
    ASSUME NEW a \in Age
    PROVE  Older(a) \in Age
BY TTLAssumption DEF Older, Age

LEMMA SetLaneType ==
    ASSUME TypeOK, NEW l \in Lane, NEW lock \in Lock \cup {NoLock}, SetLane(l, lock)
    PROVE  lanes_kv' \in [Lane -> Lock \cup {NoLock}] /\ lapsed' \in BOOLEAN
<1>1. lanes_kv' \in [Lane -> Lock \cup {NoLock}]
  BY DEF SetLane, TypeOK
<1>2. lapsed' \in BOOLEAN
  BY Zenon DEF SetLane, TypeOK
<1> QED
  BY <1>1, <1>2

LEMMA TypeInit == Init => TypeOK
<1> SUFFICES ASSUME Init PROVE TypeOK
  OBVIOUS
<1>1. 0 \in Age
  BY TTLAssumption DEF Age
<1>2. lapsed \in BOOLEAN /\ raised \in [Exec -> BOOLEAN] /\ dlq \in [Exec -> BOOLEAN]
  BY Zenon DEF Init
<1>3. acquired_locks \in [Exec -> Seq(HeldLock)]
  BY DEF Init
<1> QED
  BY <1>1, <1>2, <1>3 DEF Init, TypeOK, Control

\* What the failure counter and the dead letter flag become.
LEMMA FailureType ==
    ASSUME TypeOK, NEW e \in Exec, HandleFailure(e)
    PROVE  failure_count' \in [Exec -> Nat] /\ dlq' \in [Exec -> BOOLEAN]
<1>1. failure_count' \in [Exec -> Nat]
  BY DEF HandleFailure, TypeOK
<1>2. dlq' \in [Exec -> BOOLEAN]
  <2>1. PICK published \in BOOLEAN :
           dlq' = [dlq EXCEPT ![e] =
                     dlq[e] \/ (published /\ failure_count'[e] >= MaxFailures)]
    BY DEF HandleFailure
  <2> QED
    BY <2>1, Zenon DEF TypeOK
<1> QED
  BY <1>1, <1>2

\* What the end of a release step leaves behind.
LEMMA NextReleaseType ==
    ASSUME TypeOK, NEW e \in Exec, NextRelease(e)
    PROVE  /\ pc' \in [Exec -> Control]
           /\ pos' \in [Exec -> Nat \ {0}]
           /\ acquired_locks' \in [Exec -> Seq(HeldLock)]
           /\ raised' \in [Exec -> BOOLEAN]
           /\ failure_count' \in [Exec -> Nat]
           /\ dlq' \in [Exec -> BOOLEAN]
<1> USE DEF Control, Active, Releasing, Goto
<1>1. CASE pos[e] = Len(acquired_locks[e])
  <2>1. Exited(e)
    BY <1>1 DEF NextRelease
  <2>2. failure_count' \in [Exec -> Nat] /\ dlq' \in [Exec -> BOOLEAN]
    BY <2>1, FailureType DEF Exited, TypeOK
  <2>3. <<>> \in Seq(HeldLock)
    OBVIOUS
  <2>4. raised' \in [Exec -> BOOLEAN]
    BY <2>1, Zenon DEF Exited, TypeOK
  <2>5. /\ pc' = [pc EXCEPT ![e] = "idle"]
        /\ pos' = [pos EXCEPT ![e] = 1]
        /\ acquired_locks' = [acquired_locks EXCEPT ![e] = <<>>]
    BY <2>1 DEF Exited
  <2>6. pc' \in [Exec -> Control] /\ pos' \in [Exec -> Nat \ {0}]
    BY <2>5 DEF TypeOK
  <2>7. acquired_locks' \in [Exec -> Seq(HeldLock)]
    BY <2>3, <2>5 DEF TypeOK
  <2> QED
    BY <2>2, <2>4, <2>6, <2>7
<1>2. CASE pos[e] # Len(acquired_locks[e])
  <2>1. /\ pos' = [pos EXCEPT ![e] = pos[e] + 1]
        /\ pc' = [pc EXCEPT ![e] = "relread"]
        /\ UNCHANGED <<acquired_locks, raised, failure_count, dlq>>
    BY <1>2 DEF NextRelease
  <2>2. pos' \in [Exec -> Nat \ {0}] /\ pc' \in [Exec -> Control]
    BY <2>1 DEF TypeOK
  <2> QED
    BY <2>1, <2>2 DEF TypeOK
<1> QED
  BY <1>1, <1>2

\* Acquisition keeps the types.
LEMMA TypeAcquire ==
    ASSUME TypeOK, Shape, NEW e \in Exec,
           Enter(e) \/ AcquireStep(e) \/ AcquireAbort(e)
    PROVE  TypeOK'
<1> USE DEF Control, Active, Acquiring, Executing, Goto
<1>0. 0 \in Age /\ <<>> \in Seq(HeldLock)
  BY TTLAssumption DEF Age
<1>1. CASE Enter(e)
  BY <1>1 DEF TypeOK, Enter, kvVars, hbVars, failVars
<1>2. CASE AcquireRead(e)
  <2>1. /\ pc' \in [Exec -> Control]
        /\ acquired_locks' \in [Exec -> Seq(HeldLock)]
    <3>1. /\ \E where \in Control : pc' = [pc EXCEPT ![e] = where]
          /\ \/ acquired_locks' = [acquired_locks EXCEPT ![e] = <<>>]
             \/ acquired_locks' = acquired_locks
      BY <1>2 DEF AcquireRead, Refuse
    <3>2. pc \in [Exec -> Control] /\ acquired_locks \in [Exec -> Seq(HeldLock)]
      BY DEF TypeOK
    <3> HIDE DEF Control
    <3> QED
      BY <1>0, <3>1, <3>2, UpdateType
  <2> QED
    BY <1>0, <1>2, <2>1 DEF TypeOK, AcquireRead, kvVars, hbVars, failVars
<1>3. CASE AcquireReclaim(e)
  <2>1. SetLane(Current(e), NoLock) /\ Current(e) \in Lane
    BY <1>3, CurrentType DEF AcquireReclaim
  <2>2. lanes_kv' \in [Lane -> Lock \cup {NoLock}] /\ lapsed' \in BOOLEAN
    BY <2>1, SetLaneType
  <2> QED
    BY <1>3, <2>2 DEF TypeOK, AcquireReclaim, hbVars, failVars
<1>4. CASE AcquireFence(e)
  <2>1. Current(e) \in Lane
    BY <1>4, CurrentType DEF AcquireFence
  <2>2. fencing_kv[Current(e)] \in Nat
    BY <2>1 DEF TypeOK
  <2>3. token' \in [Exec -> Nat]
    BY <1>4, <2>2 DEF TypeOK, AcquireFence
  <2> QED
    BY <1>4, <2>3 DEF TypeOK, AcquireFence, kvVars, hbVars, failVars
<1>5. CASE AcquireCreate(e)
  <2> DEFINE lock == [owner |-> e, fencing_token |-> token[e],
                      age |-> elapsed[e], kvage |-> 0]
  <2>1. Current(e) \in Lane /\ lock \in Lock
    BY <1>0, <1>5, CurrentType DEF AcquireCreate, TypeOK, Lock
  <2>2. lanes_kv' \in [Lane -> Lock \cup {NoLock}] /\ lapsed' \in BOOLEAN
    <3>1. SetLane(Current(e), lock) \/ UNCHANGED <<lanes_kv, lapsed>>
      BY <1>5 DEF AcquireCreate
    <3> HIDE DEF lock
    <3>2. CASE SetLane(Current(e), lock)
      BY <2>1, <3>2, SetLaneType
    <3> QED
      BY <3>1, <3>2 DEF TypeOK
  <2>3. /\ pc' \in [Exec -> Control]
        /\ acquired_locks' \in [Exec -> Seq(HeldLock)]
    <3>1. /\ \E where \in Control : pc' = [pc EXCEPT ![e] = where]
          /\ \/ acquired_locks' = [acquired_locks EXCEPT ![e] = <<>>]
             \/ acquired_locks' = acquired_locks
      BY <1>5 DEF AcquireCreate, Refuse
    <3>2. pc \in [Exec -> Control] /\ acquired_locks \in [Exec -> Seq(HeldLock)]
      BY DEF TypeOK
    <3> HIDE DEF Control
    <3> QED
      BY <1>0, <3>1, <3>2, UpdateType
  <2> QED
    BY <1>0, <1>5, <2>2, <2>3 DEF TypeOK, AcquireCreate, hbVars, failVars
<1>6. CASE AcquirePut(e)
  <2>1. Current(e) \in Lane /\ token[e] \in Nat
    BY <1>6, CurrentType DEF AcquirePut, TypeOK
  <2>2. [lane |-> Current(e), fencing_token |-> token[e]] \in HeldLock
    BY <2>1 DEF HeldLock
  <2>3. /\ acquired_locks' \in [Exec -> Seq(HeldLock)]
        /\ pc' \in [Exec -> Control]
        /\ pos' \in [Exec -> Nat \ {0}]
        /\ hb' \in [Exec -> {"off", "sleep", "read", "put"}]
    <3>1. CASE Refuse(e) /\ UNCHANGED <<pos, hb>>
      BY <1>0, <3>1 DEF TypeOK, Refuse
    <3>2. CASE ~(Refuse(e) /\ UNCHANGED <<pos, hb>>)
      <4> DEFINE held == [lane |-> Current(e), fencing_token |-> token[e]]
                 last == pos[e] = Len(LanesOf(e))
      <4>1. /\ acquired_locks' = [acquired_locks EXCEPT ![e] =
                                      Append(acquired_locks[e], held)]
            /\ pc' = [pc EXCEPT ![e] = IF last THEN "running" ELSE "read"]
            /\ pos' = [pos EXCEPT ![e] = IF last THEN 1 ELSE pos[e] + 1]
            /\ hb' = [hb EXCEPT ![e] = IF last THEN "sleep" ELSE hb[e]]
        BY <1>6, <3>2 DEF AcquirePut
      <4>2. held \in HeldLock
        BY <2>2
      <4> HIDE DEF held, last
      <4>3. Append(acquired_locks[e], held) \in Seq(HeldLock)
        BY <4>2 DEF TypeOK
      <4> QED
        BY <4>1, <4>3 DEF TypeOK
    <3> QED
      BY <3>1, <3>2
  <2> QED
    BY <1>6, <2>1, <2>3 DEF TypeOK, AcquirePut, failVars
<1>7. CASE AcquireAbort(e)
  BY <1>0, <1>7 DEF TypeOK, AcquireAbort, Refuse, kvVars, hbVars, failVars
<1> QED
  BY <1>1, <1>2, <1>3, <1>4, <1>5, <1>6, <1>7 DEF AcquireStep

\* Heartbeats, bodies and releases keep the types.
LEMMA TypeBody ==
    ASSUME TypeOK, Shape, NEW e \in Exec,
           HeartbeatStep(e) \/ BodyStep(e) \/ Crash(e)
    PROVE  TypeOK'
<1> USE DEF Control, Active, Executing, Releasing, Goto
<1>0. 0 \in Age /\ <<>> \in Seq(HeldLock)
  BY TTLAssumption DEF Age
<1>1. CASE Wake(e)
  BY <1>1 DEF TypeOK, Wake, kvVars, failVars
<1>2. CASE RenewRead(e)
  BY <1>2 DEF TypeOK, RenewRead, kvVars, failVars
<1>3. CASE RenewPut(e)
  <2> DEFINE held == HeldAt(e, hbpos[e])
             lock == [owner |-> e, age |-> 0, kvage |-> 0,
                      fencing_token |-> held.fencing_token]
  <2>1. held.lane \in Lane /\ held.fencing_token \in Nat
    <3>1. hbpos[e] \in 1 .. Len(acquired_locks[e])
      BY <1>3 DEF RenewPut, TypeOK
    <3> QED
      BY <3>1, HeldType DEF HeldAt
  <2>2. lock \in Lock
    BY <1>0, <2>1 DEF Lock
  <2>3. SetLane(held.lane, lock) \/ UNCHANGED <<lanes_kv, lapsed>>
    BY <1>3 DEF RenewPut
  <2>4. lanes_kv' \in [Lane -> Lock \cup {NoLock}] /\ lapsed' \in BOOLEAN
    <3> HIDE DEF held, lock
    <3>1. CASE SetLane(held.lane, lock)
      BY <2>1, <2>2, <3>1, SetLaneType
    <3> QED
      BY <2>3, <3>1 DEF TypeOK
  <2>5. /\ hb' \in [Exec -> {"off", "sleep", "read", "put"}]
        /\ hbpos' \in [Exec -> Nat \ {0}]
    <3>1. /\ \E where \in {"sleep", "read"} : hb' = [hb EXCEPT ![e] = where]
          /\ \/ \E n \in {1, hbpos[e] + 1} : hbpos' = [hbpos EXCEPT ![e] = n]
             \/ hbpos' = hbpos
      BY <1>3 DEF RenewPut
    <3>2. /\ hb \in [Exec -> {"off", "sleep", "read", "put"}]
          /\ hbpos \in [Exec -> Nat \ {0}] /\ hbpos[e] + 1 \in Nat \ {0}
      BY DEF TypeOK
    <3> QED
      BY <3>1, <3>2, UpdateType
  <2> QED
    BY <1>3, <2>4, <2>5 DEF TypeOK, RenewPut, failVars
<1>4. CASE AgentReturns(e)
  BY <1>4 DEF TypeOK, AgentReturns, kvVars, hbVars, failVars
<1>5. CASE AgentRaises(e)
  <2>1. failure_count' \in [Exec -> Nat] /\ dlq' \in [Exec -> BOOLEAN]
    BY <1>5, FailureType DEF AgentRaises
  <2>2. raised' \in [Exec -> BOOLEAN]
    BY <1>5, Zenon DEF AgentRaises, Leave, TypeOK
  <2> QED
    BY <1>5, <2>1, <2>2 DEF TypeOK, AgentRaises, Leave, kvVars
<1>6. CASE Validate(e)
  <2>1. raised' \in [Exec -> BOOLEAN]
    <3>1. raised' = [raised EXCEPT ![e] = TRUE] \/ raised' = raised
      BY <1>6 DEF Validate, Leave
    <3> QED
      BY <3>1, Zenon DEF TypeOK
  <2>2. CASE Leave(e, TRUE) /\ failedRuns' = [failedRuns EXCEPT ![e] = failedRuns[e] + 1]
    BY <1>6, <2>1, <2>2 DEF TypeOK, Validate, Leave, kvVars
  <2>3. CASE ~(Leave(e, TRUE) /\ failedRuns' = [failedRuns EXCEPT ![e] = failedRuns[e] + 1])
    <3>1. /\ pos' = [pos EXCEPT ![e] = pos[e] + 1] \/ pos' = pos
          /\ pc' = [pc EXCEPT ![e] = "commit"] \/ pc' = pc
          /\ UNCHANGED <<hbVars, raised, failedRuns>>
      BY <1>6, <2>3 DEF Validate
    <3>2. pos' \in [Exec -> Nat \ {0}] /\ pc' \in [Exec -> Control]
      <4>1. /\ pc \in [Exec -> Control] /\ "commit" \in Control
            /\ pos \in [Exec -> Nat \ {0}] /\ pos[e] + 1 \in Nat \ {0}
        BY DEF TypeOK
      <4> HIDE DEF Control
      <4> QED
        BY <3>1, <4>1, UpdateType
    <3> QED
      BY <1>6, <3>1, <3>2 DEF TypeOK, Validate, hbVars, kvVars
  <2> QED
    BY <2>2, <2>3
<1>7. CASE Complete(e)
  BY <1>7 DEF TypeOK, Complete, Leave, kvVars, failVars
<1>8. CASE ReleaseRead(e)
  <2>1. CASE NextRelease(e)
    BY <1>8, <2>1, NextReleaseType DEF TypeOK, ReleaseRead, kvVars, hbVars
  <2>2. CASE ~NextRelease(e)
    BY <1>8, <2>2 DEF TypeOK, ReleaseRead, kvVars, hbVars
  <2> QED
    BY <2>1, <2>2
<1>9. CASE ReleaseDelete(e)
  <2>1. HeldAt(e, pos[e]).lane \in Lane
    <3>1. pos[e] \in 1 .. Len(acquired_locks[e])
      BY <1>9 DEF ReleaseDelete, Shape, ShapeOf, TypeOK
    <3> QED
      BY <3>1, HeldType DEF HeldAt
  <2>2. lanes_kv' \in [Lane -> Lock \cup {NoLock}] /\ lapsed' \in BOOLEAN
    <3>1. CASE SetLane(HeldAt(e, pos[e]).lane, NoLock)
      BY <2>1, <3>1, SetLaneType
    <3> QED
      BY <1>9, <3>1 DEF ReleaseDelete, TypeOK
  <2> QED
    BY <1>9, <2>2, NextReleaseType DEF TypeOK, ReleaseDelete, hbVars
<1>10. CASE Crash(e)
  BY <1>0, <1>10 DEF TypeOK, Crash, kvVars, failVars
<1> QED
  BY <1>1, <1>2, <1>3, <1>4, <1>5, <1>6, <1>7, <1>8, <1>9, <1>10
  DEF HeartbeatStep, BodyStep

\* Type correctness is inductive, given the shape of the loops.
LEMMA TypeStep == TypeOK /\ Shape /\ [Next]_vars => TypeOK'
<1> SUFFICES ASSUME TypeOK, Shape, [Next]_vars PROVE TypeOK'
  OBVIOUS
<1>1. ASSUME NEW d \in Detector, NEW l \in Lane, DetectStale(d, l) PROVE TypeOK'
  BY <1>1 DEF TypeOK, DetectStale, kvVars, hbVars, failVars
<1>2. ASSUME NEW d \in Detector, DetectDelete(d) PROVE TypeOK'
  <2>1. lanes_kv' \in [Lane -> Lock \cup {NoLock}] /\ lapsed' \in BOOLEAN
    <3>1. CASE SetLane(det[d], NoLock)
      <4>1. det[d] \in Lane
        BY <1>2 DEF DetectDelete, TypeOK
      <4> QED
        BY <3>1, <4>1, SetLaneType
    <3> QED
      BY <1>2, <3>1 DEF DetectDelete, TypeOK
  <2> QED
    BY <1>2, <2>1 DEF TypeOK, DetectDelete, hbVars, failVars
<1>3. ASSUME NEW l \in Lane, KVExpire(l) PROVE TypeOK'
  <2>1. lanes_kv' \in [Lane -> Lock \cup {NoLock}] /\ lapsed' \in BOOLEAN
    BY <1>3, SetLaneType DEF KVExpire
  <2> QED
    BY <1>3, <2>1 DEF TypeOK, KVExpire, hbVars, failVars
<1>4. CASE Tick
  <2>1. ASSUME NEW l \in Lane, lanes_kv[l] # NoLock
        PROVE  [lanes_kv[l] EXCEPT !.age = Older(@), !.kvage = Older(@)] \in Lock
    <3>1. lanes_kv[l] \in Lock
      BY <2>1 DEF TypeOK
    <3>2. Older(lanes_kv[l].age) \in Age /\ Older(lanes_kv[l].kvage) \in Age
      BY <3>1, OlderType DEF Lock
    <3> QED
      BY <3>1, <3>2 DEF Lock
  <2>2. lanes_kv' \in [Lane -> Lock \cup {NoLock}]
    BY <1>4, <2>1 DEF Tick
  <2>3. lapsed' \in BOOLEAN
    BY <1>4, Zenon DEF Tick, TypeOK
  <2>4. elapsed' \in [Exec -> Age]
    BY <1>4, OlderType DEF Tick, TypeOK
  <2> QED
    BY <1>4, <2>2, <2>3, <2>4 DEF TypeOK, Tick, hbVars, failVars
<1>5. CASE UNCHANGED vars
  BY <1>5 DEF TypeOK, vars
<1> QED
  BY <1>1, <1>2, <1>3, <1>4, <1>5, TypeAcquire, TypeBody DEF Next

-----------------------------------------------------------------------------
(* The loops                                                                *)

\* The steps of an execution, its heartbeat included, leave the others alone.
ExecStep(e) == \/ Enter(e) \/ AcquireStep(e) \/ AcquireAbort(e)
               \/ HeartbeatStep(e) \/ BodyStep(e) \/ Crash(e)
Elsewhere(e) ==
    \A f \in Exec \ {e} :
        /\ pc'[f] = pc[f] /\ pos'[f] = pos[f] /\ token'[f] = token[f]
        /\ acquired_locks'[f] = acquired_locks[f]
        /\ hb'[f] = hb[f] /\ raised'[f] = raised[f]
        /\ failure_count'[f] = failure_count[f]
        /\ failedRuns'[f] = failedRuns[f] /\ dlq'[f] = dlq[f]

LEMMA OthersUntouched ==
    ASSUME TypeOK, NEW e \in Exec, ExecStep(e)
    PROVE  Elsewhere(e) /\ det' = det
<1> USE DEF Elsewhere, Goto, kvVars, hbVars, failVars
<1>0. ASSUME NextRelease(e)
      PROVE  \A f \in Exec \ {e} :
                /\ pc'[f] = pc[f] /\ pos'[f] = pos[f]
                /\ acquired_locks'[f] = acquired_locks[f]
                /\ raised'[f] = raised[f]
                /\ failure_count'[f] = failure_count[f] /\ dlq'[f] = dlq[f]
  BY <1>0 DEF TypeOK, NextRelease, Exited, HandleFailure
<1>1. CASE Enter(e) \/ AcquireAbort(e) \/ Crash(e)
  BY <1>1 DEF TypeOK, Enter, AcquireAbort, Crash, Refuse
<1>2. CASE AcquireStep(e)
  <2>1. CASE AcquireRead(e) \/ AcquireReclaim(e) \/ AcquireFence(e)
    BY <2>1 DEF TypeOK, AcquireRead, AcquireReclaim, AcquireFence, Refuse
  <2>2. CASE AcquireCreate(e)
    BY <2>2 DEF TypeOK, AcquireCreate, Refuse
  <2>3. CASE AcquirePut(e)
    BY <2>3 DEF TypeOK, AcquirePut, Refuse
  <2> QED
    BY <1>2, <2>1, <2>2, <2>3 DEF AcquireStep
<1>3. CASE HeartbeatStep(e)
  BY <1>3 DEF TypeOK, HeartbeatStep, Wake, RenewRead, RenewPut
<1>4. CASE BodyStep(e)
  <2>1. CASE AgentReturns(e) \/ Complete(e)
    BY <2>1 DEF TypeOK, AgentReturns, Complete, Leave
  <2>2. CASE AgentRaises(e)
    BY <2>2 DEF TypeOK, AgentRaises, HandleFailure, Leave
  <2>3. CASE Validate(e)
    BY <2>3 DEF TypeOK, Validate, Leave
  <2>4. CASE ReleaseRead(e)
    <3>1. CASE NextRelease(e)
      BY <1>0, <2>4, <3>1 DEF ReleaseRead
    <3>2. CASE ~NextRelease(e)
      BY <2>4, <3>2 DEF TypeOK, ReleaseRead
    <3> QED
      BY <3>1, <3>2
  <2>5. CASE ReleaseDelete(e)
    BY <1>0, <2>5 DEF ReleaseDelete
  <2> QED
    BY <1>4, <2>1, <2>2, <2>3, <2>4, <2>5 DEF BodyStep
<1> QED
  BY <1>1, <1>2, <1>3, <1>4 DEF ExecStep

\* What is left of an execution after a turn of _release_all_lanes.
LEMMA NextReleaseShape ==
    ASSUME TypeOK, Shape, NEW e \in Exec, pc[e] \in Releasing, NextRelease(e), hb' = hb
    PROVE  ShapeOf(e)'
<1>0. /\ pos[e] \in Nat \ {0} /\ Len(acquired_locks[e]) \in Nat
      /\ pos[e] <= Len(acquired_locks[e]) /\ hb[e] = "off"
  <2>1. ShapeOf(e)
    BY DEF Shape
  <2>2. pos[e] <= Len(acquired_locks[e]) /\ hb[e] = "off"
    BY <2>1 DEF ShapeOf, Releasing, Executing
  <2> QED
    BY <2>2 DEF TypeOK
<1>1. CASE pos[e] = Len(acquired_locks[e])
  <2>1. /\ pc'[e] = "idle" /\ acquired_locks'[e] = <<>> /\ ~raised'[e]
    BY <1>1 DEF NextRelease, Exited, Goto, TypeOK
  <2> QED
    BY <1>0, <2>1 DEF ShapeOf, Acquiring, Executing, Releasing
<1>2. CASE pos[e] # Len(acquired_locks[e])
  <2>1. /\ pc'[e] = "relread" /\ acquired_locks'[e] = acquired_locks[e]
        /\ pos'[e] = pos[e] + 1
    BY <1>2 DEF NextRelease, Goto, TypeOK
  <2> QED
    BY <1>0, <1>2, <2>1 DEF ShapeOf, Acquiring, Executing, Releasing
<1> QED
  BY <1>1, <1>2

\* The loops stay inside the lanes and the locks they run over.
LEMMA ShapeStep == TypeOK /\ Shape /\ [Next]_vars => Shape'
<1> SUFFICES ASSUME TypeOK, Shape, [Next]_vars PROVE Shape'
  OBVIOUS
<1>1. ASSUME NEW e \in Exec, ExecStep(e) PROVE Shape'
  <2>0. /\ pos[e] \in Nat \ {0} /\ Len(acquired_locks[e]) \in Nat
        /\ acquired_locks[e] \in Seq(HeldLock)
        /\ Len(LanesOf(e)) \in Nat /\ 1 <= Len(LanesOf(e)) /\ ShapeOf(e)
    BY LanesType DEF TypeOK, Shape
  <2>1. SUFFICES ShapeOf(e)'
    <3>1. ASSUME NEW f \in Exec \ {e} PROVE ShapeOf(f)'
      BY <1>1, OthersUntouched DEF Elsewhere, Shape, ShapeOf
    <3> QED
      BY <3>1 DEF Shape
  <2>2. CASE Enter(e)
    <3>1. /\ pc[e] \in {"idle", "refused"} /\ pc'[e] = "read" /\ pos'[e] = 1
          /\ UNCHANGED <<acquired_locks, hb, raised>>
      BY <2>2 DEF Enter, Goto, hbVars, TypeOK
    <3> QED
      BY <2>0, <3>1 DEF ShapeOf, Acquiring, Executing, Releasing
  <2>3. CASE AcquireAbort(e)
    <3>1. /\ pc[e] \in Acquiring /\ pc'[e] = "refused" /\ acquired_locks'[e] = <<>>
          /\ UNCHANGED <<hb, raised>>
      BY <2>3 DEF AcquireAbort, Refuse, Goto, hbVars, TypeOK
    <3> QED
      BY <2>0, <3>1 DEF ShapeOf, Acquiring, Executing, Releasing
  <2>4. CASE Crash(e)
    <3>1. /\ pc'[e] = "crashed" /\ acquired_locks'[e] = <<>>
          /\ hb'[e] = "off" /\ ~raised'[e]
      BY <2>4 DEF Crash, Goto, TypeOK
    <3> QED
      BY <3>1 DEF ShapeOf, Acquiring, Executing, Releasing
  <2>5. CASE AcquireRead(e) \/ AcquireReclaim(e) \/ AcquireFence(e) \/ AcquireCreate(e)
    <3>1. /\ pc[e] \in Acquiring /\ UNCHANGED <<pos, hb, raised>>
          /\ \/ pc'[e] \in Acquiring /\ acquired_locks' = acquired_locks
             \/ pc'[e] = "refused" /\ acquired_locks'[e] = <<>>
      BY <2>5 DEF AcquireRead, AcquireReclaim, AcquireFence, AcquireCreate, Refuse,
                  Goto, hbVars, TypeOK, Acquiring
    <3> QED
      BY <2>0, <3>1 DEF ShapeOf, Acquiring, Executing, Releasing
  <2>6. CASE AcquirePut(e)
    <3>1. pc[e] = "put" /\ UNCHANGED raised
      BY <2>6 DEF AcquirePut
    <3>2. CASE Refuse(e) /\ UNCHANGED <<pos, hb>>
      <4>1. pc'[e] = "refused" /\ acquired_locks'[e] = <<>> /\ UNCHANGED hb
        BY <3>2 DEF Refuse, Goto, TypeOK
      <4> QED
        BY <2>0, <3>1, <4>1 DEF ShapeOf, Acquiring, Executing, Releasing
    <3>3. CASE ~(Refuse(e) /\ UNCHANGED <<pos, hb>>)
      <4> DEFINE held == [lane |-> Current(e), fencing_token |-> token[e]]
      <4>1. acquired_locks' = [acquired_locks EXCEPT ![e] =
                                  Append(acquired_locks[e], held)]
        BY <2>6, <3>3 DEF AcquirePut
      <4>2. Len(acquired_locks'[e]) = Len(acquired_locks[e]) + 1
        <5> HIDE DEF held
        <5> QED BY <2>0, <4>1 DEF TypeOK
      <4>3. pos[e] <= Len(LanesOf(e)) /\ Len(acquired_locks[e]) + 1 = pos[e]
        BY <2>0, <3>1 DEF ShapeOf, Acquiring
      <4>4. CASE pos[e] = Len(LanesOf(e))
        <5>1. pc'[e] = "running" /\ pos'[e] = 1 /\ hb'[e] = "sleep"
          BY <2>6, <3>3, <4>4 DEF AcquirePut, Goto, TypeOK
        <5> QED
          BY <2>0, <3>1, <4>2, <4>3, <5>1 DEF ShapeOf, Acquiring, Executing, Releasing
      <4>5. CASE pos[e] # Len(LanesOf(e))
        <5>1. pc'[e] = "read" /\ pos'[e] = pos[e] + 1 /\ hb'[e] = hb[e]
          BY <2>6, <3>3, <4>5 DEF AcquirePut, Goto, TypeOK
        <5> QED
          BY <2>0, <3>1, <4>2, <4>3, <4>5, <5>1
          DEF ShapeOf, Acquiring, Executing, Releasing
      <4> QED
        BY <4>4, <4>5
    <3> QED
      BY <3>2, <3>3
  <2>7. CASE HeartbeatStep(e)
    <3>1. /\ hb[e] # "off"
          /\ UNCHANGED <<pc, pos, acquired_locks, raised>>
      BY <2>7 DEF HeartbeatStep, Wake, RenewRead, RenewPut
    <3> QED
      BY <2>0, <3>1 DEF ShapeOf
  <2>8. CASE AgentReturns(e)
    <3>1. /\ pc[e] = "running" /\ pc'[e] = "validate"
          /\ UNCHANGED <<pos, acquired_locks, hb, raised>>
      BY <2>8 DEF AgentReturns, Goto, hbVars, TypeOK
    <3> QED
      BY <2>0, <3>1 DEF ShapeOf, Acquiring, Executing, Releasing
  <2>9. ASSUME pc[e] \in Executing, NEW b \in BOOLEAN, Leave(e, b),
               UNCHANGED acquired_locks
        PROVE  ShapeOf(e)'
    <3>1. /\ pc'[e] = "relread" /\ pos'[e] = 1 /\ hb'[e] = "off"
      BY <2>9 DEF Leave, Goto, TypeOK
    <3> QED
      BY <2>0, <2>9, <3>1 DEF ShapeOf, Acquiring, Executing, Releasing
  <2>10. CASE AgentRaises(e) \/ Complete(e)
    BY <2>9, <2>10 DEF AgentRaises, Complete, Executing
  <2>11. CASE Validate(e)
    <3>1. pc[e] = "validate" /\ UNCHANGED acquired_locks
      BY <2>11 DEF Validate
    <3>2. CASE Leave(e, TRUE)
      BY <2>9, <3>1, <3>2 DEF Executing
    <3>3. CASE ~Leave(e, TRUE)
      <4>1. /\ \/ pos[e] < Len(acquired_locks[e]) /\ pos'[e] = pos[e] + 1 /\ pc' = pc
               \/ pos' = pos /\ pc'[e] = "commit"
            /\ UNCHANGED <<hb, raised>>
        BY <2>11, <3>3 DEF Validate, hbVars, Goto, TypeOK
      <4> QED
        BY <2>0, <3>1, <4>1 DEF ShapeOf, Acquiring, Executing, Releasing
    <3> QED
      BY <3>2, <3>3
  <2>12. CASE ReleaseRead(e)
    <3>1. pc[e] = "relread" /\ hb' = hb
      BY <2>12 DEF ReleaseRead, hbVars
    <3>2. CASE NextRelease(e)
      BY <3>1, <3>2, NextReleaseShape DEF Releasing
    <3>3. CASE ~NextRelease(e)
      <4>1. pc'[e] = "reldel" /\ UNCHANGED <<pos, acquired_locks, raised>>
        BY <2>12, <3>3 DEF ReleaseRead, Goto, TypeOK
      <4> QED
        BY <2>0, <3>1, <4>1 DEF ShapeOf, Acquiring, Executing, Releasing
    <3> QED
      BY <3>2, <3>3
  <2>13. CASE ReleaseDelete(e)
    BY <2>13, NextReleaseShape DEF ReleaseDelete, hbVars, Releasing
  <2> QED
    BY <1>1, <2>2, <2>3, <2>4, <2>5, <2>6, <2>7, <2>8, <2>10, <2>11, <2>12, <2>13
    DEF ExecStep, AcquireStep, BodyStep
<1>2. ASSUME UNCHANGED <<pc, pos, acquired_locks, hb, raised>> PROVE Shape'
  BY <1>2 DEF Shape, ShapeOf
<1>3. ASSUME NEW d \in Detector, DetectDelete(d) \/ \E l \in Lane : DetectStale(d, l)
      PROVE  Shape'
  BY <1>2, <1>3 DEF DetectDelete, DetectStale, hbVars
<1>4. ASSUME NEW l \in Lane, KVExpire(l) PROVE Shape'
  BY <1>2, <1>4 DEF KVExpire, hbVars
<1>5. CASE Tick \/ UNCHANGED vars
  BY <1>2, <1>5 DEF Tick, vars, hbVars
<1> QED
  BY <1>1, <1>3, <1>4, <1>5 DEF Next, ExecStep

-----------------------------------------------------------------------------
(* Lapsed leases                                                            *)

\* A lapse is remembered, and every write of the bucket looks for one.
LEMMA LapseStep == TypeOK /\ Shape /\ LapseKnown /\ [Next]_vars => LapseKnown'
<1> SUFFICES ASSUME TypeOK, Shape, LapseKnown, [Next]_vars PROVE LapseKnown'
  OBVIOUS
<1>1. (lapsed => lapsed') /\ (Lapsing(lanes_kv') => lapsed')
  <2>1. ASSUME NEW l, NEW lock, SetLane(l, lock)
        PROVE  (lapsed => lapsed') /\ (Lapsing(lanes_kv') => lapsed')
    BY <2>1 DEF SetLane
  <2>2. ASSUME UNCHANGED <<lanes_kv, lapsed>>
        PROVE  (lapsed => lapsed') /\ (Lapsing(lanes_kv') => lapsed')
    BY <2>2 DEF LapseKnown
  <2>3. ASSUME NEW e \in Exec, ExecStep(e)
        PROVE  (\E l, lock : SetLane(l, lock)) \/ UNCHANGED <<lanes_kv, lapsed>>
    <3>1. CASE Enter(e) \/ AcquireAbort(e) \/ Crash(e)
      BY <3>1 DEF Enter, AcquireAbort, Crash, kvVars
    <3>2. CASE AcquireStep(e)
      BY <3>2 DEF AcquireStep, AcquireRead, AcquireReclaim, AcquireFence,
                  AcquireCreate, AcquirePut, kvVars
    <3>3. CASE HeartbeatStep(e)
      BY <3>3 DEF HeartbeatStep, Wake, RenewRead, RenewPut, kvVars
    <3>4. CASE BodyStep(e)
      BY <3>4 DEF BodyStep, AgentReturns, AgentRaises, Validate, Complete,
                  ReleaseRead, ReleaseDelete, kvVars
    <3> QED
      BY <2>3, <3>1, <3>2, <3>3, <3>4 DEF ExecStep
  <2>4. ASSUME NEW d \in Detector, DetectDelete(d) \/ \E l \in Lane : DetectStale(d, l)
        PROVE  (\E l, lock : SetLane(l, lock)) \/ UNCHANGED <<lanes_kv, lapsed>>
    BY <2>4 DEF DetectDelete, DetectStale, kvVars
  <2>5. ASSUME NEW l \in Lane, KVExpire(l) PROVE SetLane(l, NoLock)
    BY <2>5 DEF KVExpire
  <2>6. CASE Tick
    BY <2>6 DEF Tick
  <2>7. CASE UNCHANGED vars
    BY <2>2, <2>7 DEF vars
  <2> QED
    BY <2>1, <2>2, <2>3, <2>4, <2>5, <2>6, <2>7 DEF Next, ExecStep
<1>2. ASSUME NEW l \in Lane, lanes_kv[l] # NoLock, Stale(lanes_kv[l]) PROVE lapsed
  BY <1>2 DEF LapseKnown, Lapsing, Stale
<1>3. ASSUME NEW e \in Exec, pc'[e] = "reclaim" PROVE lapsed'
  <2>1. CASE pc[e] = "reclaim"
    BY <1>1, <2>1 DEF LapseKnown
  <2>2. CASE pc[e] # "reclaim"
    <3>1. AcquireRead(e)
      <4>1. ASSUME NEW f \in Exec \ {e}, ExecStep(f) PROVE FALSE
        BY <1>3, <2>2, <4>1, OthersUntouched DEF Elsewhere
      <4>2. ASSUME ExecStep(e), ~AcquireRead(e) PROVE FALSE
        <5>1. CASE Enter(e) \/ AcquireAbort(e) \/ Crash(e)
          BY <1>3, <5>1 DEF Enter, AcquireAbort, Crash, Refuse, Goto, TypeOK
        <5>2. CASE AcquireStep(e)
          BY <1>3, <4>2, <5>2 DEF AcquireStep, AcquireReclaim, AcquireFence,
             AcquireCreate, AcquirePut, Refuse, Goto, TypeOK
        <5>3. CASE HeartbeatStep(e)
          BY <1>3, <2>2, <5>3 DEF HeartbeatStep, Wake, RenewRead, RenewPut
        <5>4. CASE AgentReturns(e) \/ AgentRaises(e) \/ Complete(e)
          BY <1>3, <5>4 DEF AgentReturns, AgentRaises, Complete, Leave, Goto, TypeOK
        <5>5. CASE Validate(e)
          BY <1>3, <2>2, <5>5 DEF Validate, Leave, Goto, TypeOK
        <5>6. CASE ReleaseRead(e) \/ ReleaseDelete(e)
          BY <1>3, <5>6 DEF ReleaseRead, ReleaseDelete, NextRelease, Exited, Goto, TypeOK
        <5> QED
          BY <4>2, <5>1, <5>2, <5>3, <5>4, <5>5, <5>6 DEF ExecStep, BodyStep
      <4>3. ~UNCHANGED pc
        BY <1>3, <2>2
      <4> QED
        BY <4>1, <4>2, <4>3 DEF Next, ExecStep, DetectDelete, DetectStale, KVExpire,
           Tick, vars
    <3>2. Current(e) \in Lane
      BY <3>1, CurrentType DEF AcquireRead, Acquiring
    <3>3. lanes_kv[Current(e)] # NoLock /\ Stale(lanes_kv[Current(e)])
      BY <1>3, <3>1 DEF AcquireRead, Refuse, Goto, TypeOK
    <3> QED
      BY <1>1, <1>2, <3>2, <3>3
  <2> QED
    BY <2>1, <2>2
<1>4. ASSUME NEW d \in Detector, det'[d] # NoLane PROVE lapsed'
  <2>1. CASE det[d] # NoLane
    BY <1>1, <2>1 DEF LapseKnown
  <2>2. CASE det[d] = NoLane
    <3>1. ASSUME NEW e \in Exec, ExecStep(e) PROVE FALSE
      BY <1>4, <2>2, <3>1, OthersUntouched
    <3>2. ASSUME NEW c \in Detector, DetectDelete(c) PROVE FALSE
      BY <1>4, <2>2, <3>2 DEF DetectDelete, TypeOK
    <3>3. ASSUME NEW c \in Detector, NEW l \in Lane, DetectStale(c, l) PROVE lapsed
      BY <1>2, <3>3 DEF DetectStale
    <3>4. ~UNCHANGED det
      BY <1>4, <2>2
    <3> QED
      BY <1>1, <3>1, <3>2, <3>3, <3>4 DEF Next, ExecStep, KVExpire, Tick, vars
  <2> QED
    BY <2>1, <2>2
<1> QED
  BY <1>1, <1>3, <1>4 DEF LapseKnown

-----------------------------------------------------------------------------
(* Exclusion                                                                *)

\* A step that leaves the owner and the token of every lock alone.
SameLocks ==
    /\ fencing_kv' = fencing_kv
    /\ \A l \in Lane : lanes_kv[l] # NoLock =>
          /\ lanes_kv'[l] # NoLock /\ lanes_kv'[l].owner = lanes_kv[l].owner
          /\ lanes_kv'[l].fencing_token = lanes_kv[l].fencing_token

\* A step in which an execution keeps what it has taken, or forgets all of it.
KeepsOrForgets(e) ==
    /\ \/ acquired_locks'[e] = <<>>
       \/ /\ acquired_locks'[e] = acquired_locks[e]
          /\ pc[e] \in Releasing => pc'[e] \in Releasing /\ pos[e] <= pos'[e]
    /\ pc'[e] = "put" => pc[e] = "put" /\ pos'[e] = pos[e] /\ token'[e] = token[e]

LEMMA ElsewhereKept ==
    ASSUME TypeOK, NEW e \in Exec, Elsewhere(e), KeepsOrForgets(e)
    PROVE  \A f \in Exec : KeepsOrForgets(f)
<1>1. \A f \in Exec : pos[f] \in Nat
  BY DEF TypeOK
<1> QED
  BY <1>1 DEF Elsewhere, KeepsOrForgets

\* Such steps keep the exclusion.
LEMMA LockedFrame ==
    ASSUME TypeOK, TypeOK', Shape, Locked, ~lapsed, SameLocks,
           \A e \in Exec : KeepsOrForgets(e)
    PROVE  Locked'
<1> USE DEF SameLocks, KeepsOrForgets
<1> SUFFICES ASSUME NEW e \in Exec
             PROVE  /\ \A i \in Unreleased(e)' : Holds(e, i)'
                    /\ \A i, j \in 1 .. Len(acquired_locks'[e]) :
                          acquired_locks'[e][i].lane = acquired_locks'[e][j].lane => i = j
                    /\ pc'[e] = "put" =>
                          /\ lanes_kv'[Current(e)'] # NoLock
                          /\ lanes_kv'[Current(e)'].owner = e
                          /\ lanes_kv'[Current(e)'].fencing_token = token'[e]
                          /\ \A i \in 1 .. Len(acquired_locks'[e]) :
                                acquired_locks'[e][i].lane # Current(e)'
  BY DEF Locked
<1>1. \A i \in Unreleased(e)' : Holds(e, i)'
  <2> SUFFICES ASSUME NEW i \in Unreleased(e)' PROVE Holds(e, i)'
    OBVIOUS
  <2>1. i \in 1 .. Len(acquired_locks'[e]) /\ acquired_locks'[e] = acquired_locks[e]
    BY DEF Unreleased
  <2>2. pc[e] \in Releasing => pc'[e] \in Releasing /\ pos[e] <= pos'[e]
    BY <2>1
  <2>3. pos[e] \in Nat /\ (pc'[e] \in Releasing => pos'[e] <= i) /\ i \in Nat
    BY <2>1 DEF Unreleased, TypeOK
  <2>4. i \in Unreleased(e)
    <3>1. CASE pc[e] \notin Releasing
      BY <2>1, <3>1 DEF Unreleased
    <3>2. CASE pc[e] \in Releasing
      <4>1. pos[e] <= pos'[e] /\ pos'[e] <= i
        BY <2>2, <2>3, <3>2
      <4>2. pos'[e] \in Nat
        BY DEF TypeOK
      <4> QED
        BY <2>1, <2>3, <4>1, <4>2 DEF Unreleased
    <3> QED
      BY <3>1, <3>2
  <2>5. Holds(e, i) /\ acquired_locks[e][i].lane \in Lane
    BY <2>1, <2>4, HeldType DEF Locked
  <2> QED
    BY <2>1, <2>5 DEF Holds
<1>2. \A i, j \in 1 .. Len(acquired_locks'[e]) :
         acquired_locks'[e][i].lane = acquired_locks'[e][j].lane => i = j
  BY DEF Locked
<1>3. ASSUME pc'[e] = "put"
      PROVE  /\ lanes_kv'[Current(e)'] # NoLock
             /\ lanes_kv'[Current(e)'].owner = e
             /\ lanes_kv'[Current(e)'].fencing_token = token'[e]
             /\ \A i \in 1 .. Len(acquired_locks'[e]) :
                   acquired_locks'[e][i].lane # Current(e)'
  <2>1. pc[e] = "put" /\ token'[e] = token[e] /\ Current(e)' = Current(e)
    BY <1>3 DEF Current
  <2>2. Current(e) \in Lane
    BY <2>1, CurrentType DEF Acquiring
  <2> QED
    BY <2>1, <2>2 DEF Locked
<1> QED
  BY <1>1, <1>2, <1>3

\* _acquire_lane: the create takes a lane that nobody holds, and the put of the
\* token touches the fence of a lane that only this execution holds.
LEMMA LockedAcquire ==
    ASSUME TypeOK, TypeOK', Shape, Locked, ~lapsed, NEW e \in Exec,
           AcquireCreate(e) \/ AcquirePut(e)
    PROVE  Locked'
<1>0. /\ lanes_kv \in [Lane -> Lock \cup {NoLock}] /\ fencing_kv \in [Lane -> Nat]
      /\ pc[e] \in Acquiring /\ Current(e) \in Lane /\ pc[e] \notin Releasing
      /\ Elsewhere(e)
  <2>1. pc[e] \in {"create", "put"}
    BY DEF AcquireCreate, AcquirePut
  <2>2. ExecStep(e)
    BY DEF ExecStep, AcquireStep
  <2> QED
    BY <2>1, <2>2, OthersUntouched, CurrentType DEF TypeOK, Acquiring, Releasing
<1> DEFINE l == Current(e)
\* What the others have taken, and what e had taken before, is elsewhere.
<1>1. CASE AcquireCreate(e) /\ lanes_kv[l] # NoLock
  <2>1. /\ UNCHANGED <<lanes_kv, fencing_kv>>
        /\ pc'[e] = "refused" /\ acquired_locks'[e] = <<>>
    BY <1>1 DEF AcquireCreate, Refuse, Goto, TypeOK
  <2>2. SameLocks /\ KeepsOrForgets(e)
    BY <2>1 DEF SameLocks, KeepsOrForgets
  <2> QED
    BY <1>0, <2>2, ElsewhereKept, LockedFrame
<1>2. CASE AcquireCreate(e) /\ lanes_kv[l] = NoLock
  <2> DEFINE lock == [owner |-> e, fencing_token |-> token[e],
                      age |-> elapsed[e], kvage |-> 0]
  <2>1. /\ lanes_kv' = [lanes_kv EXCEPT ![l] = lock]
        /\ fencing_kv' = fencing_kv /\ pc'[e] = "put"
        /\ UNCHANGED <<acquired_locks, pos, token>>
    BY <1>2 DEF AcquireCreate, SetLane, Goto, TypeOK
  <2>2. lock \in Lock /\ lock.owner = e /\ lock.fencing_token = token[e]
    <3>1. 0 \in Age
      BY TTLAssumption DEF Age
    <3> QED
      BY <3>1 DEF Lock, TypeOK
  <2> HIDE DEF lock
  <2>3. lanes_kv'[l] = lock /\ lock # NoLock
    BY <1>0, <2>1, <2>2, NoLockAssumption
  <2>4. ASSUME NEW f \in Exec, NEW i \in Unreleased(f)
        PROVE  acquired_locks[f][i].lane # l /\ Holds(f, i)'
    <3>1. Holds(f, i) /\ acquired_locks[f][i].lane \in Lane
      BY HeldType DEF Locked, Unreleased
    <3>2. acquired_locks[f][i].lane # l
      BY <1>2, <3>1 DEF Holds
    <3> QED
      BY <1>0, <2>1, <3>1, <3>2 DEF Holds
  <2>5. \A f \in Exec : pc'[f] \in Releasing <=> pc[f] \in Releasing
    BY <1>0, <2>1 DEF Elsewhere, Releasing
  <2>6. \A f \in Exec : Unreleased(f)' = Unreleased(f)
    BY <2>1, <2>5 DEF Unreleased
  <2>7. ASSUME NEW f \in Exec, pc'[f] = "put"
        PROVE  /\ lanes_kv'[Current(f)'] # NoLock
               /\ lanes_kv'[Current(f)'].owner = f
               /\ lanes_kv'[Current(f)'].fencing_token = token'[f]
               /\ \A i \in 1 .. Len(acquired_locks'[f]) :
                     acquired_locks'[f][i].lane # Current(f)'
    <3>1. Current(f)' = Current(f)
      BY <2>1 DEF Current
    <3>2. CASE f = e
      <4>1. \A i \in 1 .. Len(acquired_locks[e]) : i \in Unreleased(e)
        BY <1>0 DEF Unreleased
      <4> QED
        BY <2>1, <2>2, <2>3, <2>4, <3>1, <3>2, <4>1
    <3>3. CASE f # e
      <4>1. pc[f] = "put" /\ Current(f) \in Lane
        BY <1>0, <2>7, <3>3, CurrentType DEF Elsewhere, Acquiring
      <4>2. Current(f) # l
        BY <1>2, <4>1 DEF Locked
      <4> QED
        BY <1>0, <2>1, <3>1, <4>1, <4>2 DEF Locked
    <3> QED
      BY <3>2, <3>3
  <2> QED
    BY <2>1, <2>4, <2>6, <2>7 DEF Locked
<1>3. CASE AcquirePut(e)
  <2>1. /\ pc[e] = "put" /\ fencing_kv' = [fencing_kv EXCEPT ![l] = token[e]]
        /\ lanes_kv' = lanes_kv
    BY <1>3 DEF AcquirePut
  <2>2. /\ lanes_kv[l] # NoLock /\ lanes_kv[l].owner = e
        /\ lanes_kv[l].fencing_token = token[e]
        /\ \A i \in 1 .. Len(acquired_locks[e]) : acquired_locks[e][i].lane # l
    BY <2>1 DEF Locked
  <2>3. ASSUME NEW f \in Exec, NEW i \in Unreleased(f), acquired_locks[f][i].lane = l
        PROVE  FALSE
    <3>1. Holds(f, i) /\ i \in 1 .. Len(acquired_locks[f])
      BY DEF Locked, Unreleased
    <3> QED
      BY <2>2, <2>3, <3>1 DEF Holds
  <2>4. ASSUME NEW f \in Exec, NEW i \in Unreleased(f),
               acquired_locks'[f][i] = acquired_locks[f][i]
        PROVE  Holds(f, i)'
    <3>1. Holds(f, i) /\ acquired_locks[f][i].lane \in Lane
      BY HeldType DEF Locked, Unreleased
    <3> QED
      BY <1>0, <2>1, <2>3, <2>4, <3>1 DEF Holds
  <2>5. ASSUME NEW f \in Exec \ {e}
        PROVE  /\ \A i \in Unreleased(f)' : Holds(f, i)'
               /\ \A i, j \in 1 .. Len(acquired_locks'[f]) :
                     acquired_locks'[f][i].lane = acquired_locks'[f][j].lane => i = j
               /\ pc'[f] = "put" =>
                     /\ lanes_kv'[Current(f)'] # NoLock
                     /\ lanes_kv'[Current(f)'].owner = f
                     /\ lanes_kv'[Current(f)'].fencing_token = token'[f]
                     /\ \A i \in 1 .. Len(acquired_locks'[f]) :
                           acquired_locks'[f][i].lane # Current(f)'
    <3>1. /\ pc'[f] = pc[f] /\ pos'[f] = pos[f] /\ token'[f] = token[f]
          /\ acquired_locks'[f] = acquired_locks[f]
      BY <1>0 DEF Elsewhere
    <3>2. Unreleased(f)' = Unreleased(f) /\ Current(f)' = Current(f)
      BY <3>1 DEF Unreleased, Current
    <3> QED
      BY <2>1, <2>4, <3>1, <3>2 DEF Locked
  <2>6. CASE acquired_locks'[e] = <<>> /\ pc'[e] # "put"
    BY <2>5, <2>6 DEF Locked, Unreleased
  <2>7. CASE ~(acquired_locks'[e] = <<>> /\ pc'[e] # "put")
    <3> DEFINE held == [lane |-> l, fencing_token |-> token[e]]
               n == Len(acquired_locks[e])
    <3>1. /\ acquired_locks' = [acquired_locks EXCEPT ![e] =
                                    Append(acquired_locks[e], held)]
          /\ pc'[e] \in {"running", "read"}
      BY <1>3, <2>7 DEF AcquirePut, Refuse, Goto, TypeOK
    <3>2. n \in Nat /\ acquired_locks[e] \in Seq(HeldLock)
      BY DEF TypeOK
    <3>3. /\ Len(acquired_locks'[e]) = n + 1
          /\ acquired_locks'[e][n + 1] = held
          /\ \A i \in 1 .. n : acquired_locks'[e][i] = acquired_locks[e][i]
      <4>1. acquired_locks'[e] = Append(acquired_locks[e], held)
        BY <3>1 DEF TypeOK
      <4> HIDE DEF held
      <4> QED
        BY <3>2, <4>1
    <3>4. \A i \in 1 .. n : i \in Unreleased(e)
      BY <1>0 DEF Unreleased
    <3>5. ASSUME NEW i \in Unreleased(e)' PROVE Holds(e, i)'
      <4>1. CASE i \in 1 .. n
        BY <2>4, <3>3, <3>4, <4>1
      <4>2. CASE i = n + 1
        BY <1>0, <2>1, <2>2, <3>3, <4>2 DEF Holds
      <4> QED
        BY <3>2, <3>3, <4>1, <4>2 DEF Unreleased
    <3>6. \A i, j \in 1 .. n + 1 :
             acquired_locks'[e][i].lane = acquired_locks'[e][j].lane => i = j
      <4>1. \A i \in 1 .. n + 1 : i = n + 1 \/ i \in 1 .. n
        BY <3>2
      <4>2. \A i \in 1 .. n : acquired_locks'[e][i].lane # held.lane
        BY <2>2, <3>3
      <4>3. \A i, j \in 1 .. n :
               acquired_locks'[e][i].lane = acquired_locks'[e][j].lane => i = j
        BY <3>3 DEF Locked
      <4> HIDE DEF n, held
      <4> QED
        BY <3>3, <4>1, <4>2, <4>3
    <3>7. pc'[e] # "put"
      BY <3>1
    <3> QED
      BY <2>5, <3>3, <3>5, <3>6, <3>7 DEF Locked
  <2> QED
    BY <2>6, <2>7
<1> QED
  BY <1>1, <1>2, <1>3

\* A turn of _release_all_lanes frees the lane of its own lock and no other.
LEMMA LockedRelease ==
    ASSUME TypeOK, TypeOK', Shape, Locked, ~lapsed, NEW e \in Exec, ReleaseDelete(e)
    PROVE  Locked'
<1>1. /\ pc[e] = "reldel" /\ fencing_kv' = fencing_kv /\ token' = token
      /\ NextRelease(e) /\ Elsewhere(e)
  <2>1. ExecStep(e)
    BY DEF ExecStep, BodyStep
  <2> QED
    BY <2>1, OthersUntouched DEF ReleaseDelete
<1>2. /\ pos[e] \in 1 .. Len(acquired_locks[e])
      /\ acquired_locks[e][pos[e]].lane \in Lane
  <2>1. pos[e] \in 1 .. Len(acquired_locks[e])
    BY <1>1 DEF Shape, ShapeOf, Releasing, TypeOK
  <2> QED
    BY <2>1, HeldType
\* After the turn e has no locks left, or goes on with the next one.
<1>3. \/ acquired_locks'[e] = <<>> /\ pc'[e] = "idle"
      \/ /\ acquired_locks'[e] = acquired_locks[e]
         /\ pc'[e] = "relread" /\ pos'[e] = pos[e] + 1
  BY <1>1 DEF NextRelease, Exited, Goto, TypeOK
<1>4. CASE lanes_kv' = lanes_kv
  <2>1. SameLocks /\ KeepsOrForgets(e)
    BY <1>1, <1>2, <1>3, <1>4 DEF SameLocks, KeepsOrForgets, Releasing
  <2> QED
    BY <1>1, <2>1, ElsewhereKept, LockedFrame
<1>5. CASE lanes_kv' # lanes_kv
  <2> DEFINE l == acquired_locks[e][pos[e]].lane
  <2>1. lanes_kv' = [lanes_kv EXCEPT ![l] = NoLock]
    BY <1>5 DEF ReleaseDelete, SetLane, HeldAt
  <2>2. pos[e] \in Unreleased(e)
    BY <1>2 DEF Unreleased
  <2>3. lanes_kv[l] # NoLock /\ lanes_kv[l].owner = e
    BY <2>2 DEF Locked, Holds
  <2>4. ASSUME NEW f \in Exec, NEW i \in Unreleased(f),
               acquired_locks[f][i].lane # l, acquired_locks'[f] = acquired_locks[f]
        PROVE  Holds(f, i)'
    <3>1. Holds(f, i) /\ acquired_locks[f][i].lane \in Lane
      BY HeldType DEF Locked, Unreleased
    <3> QED
      BY <1>1, <2>1, <2>4, <3>1 DEF Holds, TypeOK
  <2>5. ASSUME NEW f \in Exec \ {e}
        PROVE  /\ \A i \in Unreleased(f)' : Holds(f, i)'
               /\ \A i, j \in 1 .. Len(acquired_locks'[f]) :
                     acquired_locks'[f][i].lane = acquired_locks'[f][j].lane => i = j
               /\ pc'[f] = "put" =>
                     /\ lanes_kv'[Current(f)'] # NoLock
                     /\ lanes_kv'[Current(f)'].owner = f
                     /\ lanes_kv'[Current(f)'].fencing_token = token'[f]
                     /\ \A i \in 1 .. Len(acquired_locks'[f]) :
                           acquired_locks'[f][i].lane # Current(f)'
    <3>1. /\ pc'[f] = pc[f] /\ pos'[f] = pos[f] /\ token'[f] = token[f]
          /\ acquired_locks'[f] = acquired_locks[f]
      BY <1>1 DEF Elsewhere
    <3>2. Unreleased(f)' = Unreleased(f) /\ Current(f)' = Current(f)
      BY <3>1 DEF Unreleased, Current
    <3>3. ASSUME NEW i \in Unreleased(f) PROVE Holds(f, i)'
      <4>1. acquired_locks[f][i].lane # l
        BY <2>3 DEF Locked, Holds
      <4> QED
        BY <2>4, <3>1, <4>1
    <3>4. ASSUME pc[f] = "put" PROVE Current(f) \in Lane /\ Current(f) # l
      BY <2>3, <3>4, CurrentType DEF Locked, Acquiring
    <3>5. pc[f] = "put" => lanes_kv'[Current(f)] = lanes_kv[Current(f)]
      BY <2>1, <3>4 DEF TypeOK
    <3> QED
      BY <3>1, <3>2, <3>3, <3>5 DEF Locked
  <2>6. CASE acquired_locks'[e] = <<>> /\ pc'[e] = "idle"
    BY <2>5, <2>6 DEF Locked, Unreleased
  <2>7. CASE /\ acquired_locks'[e] = acquired_locks[e]
             /\ pc'[e] = "relread" /\ pos'[e] = pos[e] + 1
    <3>1. ASSUME NEW i \in Unreleased(e)' PROVE Holds(e, i)'
      <4>1. i \in 1 .. Len(acquired_locks[e]) /\ pos[e] + 1 <= i
        BY <2>7 DEF Unreleased, Releasing
      <4>2. i # pos[e] /\ pos[e] <= i
        BY <1>2, <4>1
      <4>3. i \in Unreleased(e) /\ acquired_locks[e][i].lane # l
        BY <1>2, <4>1, <4>2 DEF Unreleased, Locked
      <4> QED
        BY <2>4, <2>7, <4>3
    <3> QED
      BY <2>5, <2>7, <3>1 DEF Locked
  <2> QED
    BY <1>3, <2>6, <2>7
<1> QED
  BY <1>4, <1>5

\* Exclusion is inductive until a lease lapses: a reclaim, a detector's delete
\* or an expiry cannot happen before, a renewal puts what is there already,
\* and every other step keeps the locks.
LEMMA LockedStep ==
    TypeOK /\ Shape /\ LapseKnown /\ Locked /\ [Next]_vars => Locked'
<1> SUFFICES ASSUME TypeOK, Shape, LapseKnown, Locked, [Next]_vars, ~lapsed'
             PROVE  Locked'
  BY DEF Locked
<1>0. TypeOK' /\ LapseKnown'
  BY TypeStep, LapseStep
<1>00. ~lapsed
  <2>1. ASSUME NEW l, NEW lock, SetLane(l, lock), lapsed PROVE FALSE
    BY <2>1 DEF SetLane
  <2>2. ASSUME UNCHANGED lapsed, lapsed PROVE FALSE
    BY <2>2
  <2>3. ASSUME NEW e \in Exec, ExecStep(e), lapsed PROVE FALSE
    <3>1. CASE Enter(e) \/ AcquireAbort(e) \/ Crash(e)
      BY <2>3, <3>1 DEF Enter, AcquireAbort, Crash, kvVars
    <3>2. CASE AcquireStep(e)
      BY <2>1, <2>3, <3>2 DEF AcquireStep, AcquireRead, AcquireReclaim, AcquireFence,
                  AcquireCreate, AcquirePut, kvVars
    <3>3. CASE HeartbeatStep(e)
      BY <2>1, <2>3, <3>3 DEF HeartbeatStep, Wake, RenewRead, RenewPut, kvVars
    <3>4. CASE BodyStep(e)
      BY <2>1, <2>3, <3>4 DEF BodyStep, AgentReturns, AgentRaises, Validate, Complete,
                  ReleaseRead, ReleaseDelete, kvVars
    <3> QED
      BY <2>3, <3>1, <3>2, <3>3, <3>4 DEF ExecStep
  <2> QED
    BY <2>1, <2>3 DEF Next, ExecStep, DetectDelete, DetectStale, KVExpire, Tick, vars,
       kvVars
<1>1. ASSUME NEW e \in Exec, ExecStep(e) PROVE Locked'
  <2>0. Elsewhere(e) /\ pos[e] \in Nat
    BY <1>1, OthersUntouched DEF TypeOK
  <2>1. ASSUME SameLocks, KeepsOrForgets(e) PROVE Locked'
    BY <1>0, <1>00, <2>0, <2>1, ElsewhereKept, LockedFrame
  <2>2. ASSUME UNCHANGED <<lanes_kv, fencing_kv>> PROVE SameLocks
    BY <2>2 DEF SameLocks
  <2>3. CASE Enter(e) \/ AcquireAbort(e) \/ Crash(e) \/ AcquireRead(e) \/ AcquireFence(e)
    <3>1. UNCHANGED <<lanes_kv, fencing_kv>>
      BY <2>3 DEF Enter, AcquireAbort, Crash, AcquireRead, AcquireFence, kvVars
    <3>2. KeepsOrForgets(e)
      BY <2>3 DEF Enter, AcquireAbort, Crash, AcquireRead, AcquireFence, Refuse, Goto,
                  TypeOK, KeepsOrForgets, Releasing
    <3> QED
      BY <2>1, <2>2, <3>1, <3>2
  <2>4. CASE AcquireReclaim(e)
    BY <1>00, <2>4 DEF AcquireReclaim, LapseKnown
  <2>5. CASE AcquireCreate(e) \/ AcquirePut(e)
    BY <1>0, <1>00, <2>5, LockedAcquire
  <2>6. CASE HeartbeatStep(e)
    <3>1. KeepsOrForgets(e) /\ fencing_kv' = fencing_kv
      BY <2>0, <2>6 DEF HeartbeatStep, Wake, RenewRead, RenewPut, KeepsOrForgets, kvVars
    <3>2. CASE lanes_kv' = lanes_kv
      BY <2>1, <2>2, <3>1, <3>2
    <3>3. CASE lanes_kv' # lanes_kv
      <4> DEFINE held == acquired_locks[e][hbpos[e]]
                 lock == [owner |-> e, age |-> 0, kvage |-> 0,
                          fencing_token |-> held.fencing_token]
      <4>1. /\ hb[e] = "put" /\ hbpos[e] <= Len(acquired_locks[e])
            /\ lanes_kv' = [lanes_kv EXCEPT ![held.lane] = lock]
        BY <2>6, <3>3 DEF HeartbeatStep, Wake, RenewRead, RenewPut, kvVars, HeldAt, SetLane
      <4>2. hbpos[e] \in 1 .. Len(acquired_locks[e]) /\ pc[e] \notin Releasing
        <5>1. ShapeOf(e) /\ hbpos[e] \in Nat \ {0} /\ Len(acquired_locks[e]) \in Nat
          BY DEF TypeOK, Shape
        <5>2. pc[e] \in Executing
          BY <4>1, <5>1 DEF ShapeOf
        <5> QED
          BY <4>1, <5>1, <5>2 DEF Executing, Releasing
      <4>3. Holds(e, hbpos[e]) /\ held.lane \in Lane
        BY <1>00, <4>2, HeldType DEF Locked, Unreleased
      <4>4. lock.owner = e /\ lock.fencing_token = held.fencing_token
        OBVIOUS
      <4>5. lanes_kv[held.lane].owner = e
            /\ lanes_kv[held.lane].fencing_token = held.fencing_token
        BY <4>3 DEF Holds
      <4>6. lock \in Lock
        <5>1. 0 \in Age /\ held.fencing_token \in Nat
          BY <4>2, HeldType, TTLAssumption DEF Age
        <5> QED
          BY <5>1 DEF Lock
      <4> HIDE DEF lock, held
      <4>7. SameLocks
        BY <3>1, <4>1, <4>3, <4>4, <4>5, <4>6, NoLockAssumption DEF SameLocks, TypeOK
      <4> QED
        BY <2>1, <3>1, <4>7
    <3> QED
      BY <3>2, <3>3
  <2>7. CASE AgentReturns(e) \/ AgentRaises(e) \/ Complete(e) \/ Validate(e)
    <3>1. /\ pc[e] \in Executing /\ pc'[e] # "put"
          /\ UNCHANGED <<lanes_kv, fencing_kv, acquired_locks>>
      <4>1. CASE AgentReturns(e) \/ AgentRaises(e) \/ Complete(e)
        BY <4>1 DEF AgentReturns, AgentRaises, Complete, Leave, Goto, TypeOK,
                    Executing, kvVars
      <4>2. CASE Validate(e)
        BY <4>2 DEF Validate, Leave, Goto, TypeOK, Executing, kvVars
      <4> QED
        BY <2>7, <4>1, <4>2
    <3>2. KeepsOrForgets(e)
      BY <3>1 DEF KeepsOrForgets, Executing, Releasing
    <3> QED
      BY <2>1, <2>2, <3>1, <3>2
  <2>8. CASE ReleaseRead(e)
    <3>1. UNCHANGED <<lanes_kv, fencing_kv>>
      BY <2>8 DEF ReleaseRead, kvVars
    <3>2. KeepsOrForgets(e)
      <4>1. CASE NextRelease(e)
        BY <2>0, <4>1 DEF NextRelease, Exited, Goto, TypeOK, KeepsOrForgets, Releasing
      <4>2. CASE ~NextRelease(e)
        BY <2>0, <2>8, <4>2 DEF ReleaseRead, Goto, TypeOK, KeepsOrForgets, Releasing
      <4> QED
        BY <4>1, <4>2
    <3> QED
      BY <2>1, <2>2, <3>1, <3>2
  <2>9. CASE ReleaseDelete(e)
    BY <1>0, <1>00, <2>9, LockedRelease
  <2> QED
    BY <1>1, <2>3, <2>4, <2>5, <2>6, <2>7, <2>8, <2>9 DEF ExecStep, AcquireStep, BodyStep
<1>2. ASSUME UNCHANGED <<pc, pos, token, acquired_locks>>, SameLocks PROVE Locked'
  <2>1. \A e \in Exec : KeepsOrForgets(e)
    <3>1. \A e \in Exec : pos[e] \in Nat
      BY DEF TypeOK
    <3> QED
      BY <1>2, <3>1 DEF KeepsOrForgets
  <2> QED
    BY <1>0, <1>00, <1>2, <2>1, LockedFrame
<1>3. ASSUME NEW d \in Detector, NEW l \in Lane, DetectStale(d, l) PROVE Locked'
  BY <1>2, <1>3 DEF DetectStale, SameLocks, kvVars
<1>4. ASSUME NEW d \in Detector, DetectDelete(d) PROVE FALSE
  BY <1>00, <1>4 DEF DetectDelete, LapseKnown
<1>5. ASSUME NEW l \in Lane, KVExpire(l) PROVE FALSE
  BY <1>00, <1>5 DEF KVExpire, LapseKnown, Lapsing
<1>6. CASE Tick
  <2>1. SameLocks
    <3>1. ASSUME NEW l \in Lane, lanes_kv[l] # NoLock
          PROVE  /\ lanes_kv'[l] # NoLock /\ lanes_kv'[l].owner = lanes_kv[l].owner
                 /\ lanes_kv'[l].fencing_token = lanes_kv[l].fencing_token
      <4>1. lanes_kv[l] \in Lock
        BY <3>1 DEF TypeOK
      <4>2. lanes_kv'[l] = [lanes_kv[l] EXCEPT !.age = Older(@), !.kvage = Older(@)]
        BY <1>6, <3>1 DEF Tick
      <4>3. Older(lanes_kv[l].age) \in Age /\ Older(lanes_kv[l].kvage) \in Age
        BY <4>1, OlderType DEF Lock
      <4> QED
        BY <4>1, <4>2, <4>3, NoLockAssumption DEF Lock
    <3> QED
      BY <1>6, <3>1 DEF SameLocks, Tick
  <2> QED
    BY <1>2, <1>6, <2>1 DEF Tick
<1>7. CASE UNCHANGED vars
  BY <1>2, <1>7 DEF vars, SameLocks
<1> QED
  BY <1>1, <1>3, <1>4, <1>5, <1>6, <1>7 DEF Next, ExecStep

-----------------------------------------------------------------------------
(* Failures                                                                 *)

\* _handle_failure counts one, and escalates only at the limit.
LEMMA FailureCounted ==
    ASSUME TypeOK, NEW e \in Exec, HandleFailure(e)
    PROVE  /\ failure_count'[e] = failure_count[e] + 1
           /\ dlq'[e] => dlq[e] \/ failure_count'[e] >= MaxFailures
<1>1. failure_count'[e] = failure_count[e] + 1
  BY DEF HandleFailure, TypeOK
<1>2. PICK published \in BOOLEAN :
         dlq' = [dlq EXCEPT ![e] =
                   dlq[e] \/ (published /\ failure_count'[e] >= MaxFailures)]
  BY DEF HandleFailure
<1>3. dlq'[e] = (dlq[e] \/ (published /\ failure_count'[e] >= MaxFailures))
  BY <1>2, Zenon DEF TypeOK
<1> QED
  BY <1>1, <1>3

\* A failing run is counted by run() and again by __aexit__, and not a third
\* time.
LEMMA CountedStep == TypeOK /\ Shape /\ Counted /\ [Next]_vars => Counted'
<1> SUFFICES ASSUME TypeOK, Shape, Counted, [Next]_vars PROVE Counted'
  OBVIOUS
<1>1. ASSUME NEW e \in Exec, ExecStep(e) PROVE Counted'
  <2>0. /\ failure_count[e] \in Nat /\ failedRuns[e] \in Nat /\ MaxFailures \in Nat
        /\ CountedOf(e)
    BY MaxAssumption DEF TypeOK, Counted
  <2>1. SUFFICES CountedOf(e)'
    <3>1. ASSUME NEW f \in Exec \ {e} PROVE CountedOf(f)'
      BY <1>1, OthersUntouched DEF Elsewhere, Counted, CountedOf
    <3> QED
      BY <3>1 DEF Counted
  <2>2. ASSUME UNCHANGED failVars, ~raised'[e] \/ raised' = raised PROVE CountedOf(e)'
    BY <2>0, <2>2 DEF failVars, CountedOf
  <2>3. CASE \/ Enter(e) \/ AcquireStep(e) \/ AcquireAbort(e) \/ HeartbeatStep(e)
             \/ AgentReturns(e)
    BY <2>2, <2>3 DEF Enter, AcquireStep, AcquireRead, AcquireReclaim, AcquireFence,
       AcquireCreate, AcquirePut, AcquireAbort, HeartbeatStep, Wake, RenewRead, RenewPut,
       AgentReturns
  <2>4. CASE Complete(e) \/ Crash(e)
    BY <2>2, <2>4 DEF Complete, Leave, Crash, TypeOK
  <2>5. ASSUME pc[e] \in Executing PROVE ~raised[e]
    BY <2>5 DEF Shape, ShapeOf, Executing, Releasing
  <2>6. CASE AgentRaises(e)
    <3>1. failedRuns'[e] = failedRuns[e] + 1 /\ HandleFailure(e)
      BY <2>6 DEF AgentRaises, TypeOK
    <3>2. /\ failure_count'[e] = failure_count[e] + 1
          /\ dlq'[e] => dlq[e] \/ failure_count'[e] >= MaxFailures
      BY <3>1, FailureCounted
    <3> QED
      BY <2>0, <3>1, <3>2 DEF CountedOf
  <2>7. CASE Validate(e)
    <3>1. \/ UNCHANGED <<raised, failedRuns, failure_count, dlq>>
          \/ failedRuns'[e] = failedRuns[e] + 1 /\ UNCHANGED <<failure_count, dlq>>
      BY <2>7 DEF Validate, TypeOK
    <3>2. CASE UNCHANGED <<raised, failedRuns, failure_count, dlq>>
      BY <2>2, <3>2 DEF failVars
    <3>3. CASE failedRuns'[e] = failedRuns[e] + 1 /\ UNCHANGED <<failure_count, dlq>>
      BY <2>0, <3>3 DEF CountedOf
    <3> QED
      BY <3>1, <3>2, <3>3
  <2>8. CASE ReleaseRead(e) \/ ReleaseDelete(e)
    <3>1. failedRuns' = failedRuns
      BY <2>8 DEF ReleaseRead, ReleaseDelete
    <3>2. CASE UNCHANGED <<raised, failure_count, dlq>>
      BY <2>2, <3>1, <3>2 DEF failVars
    <3>3. CASE ~UNCHANGED <<raised, failure_count, dlq>>
      <4>1. Exited(e)
        BY <2>8, <3>3 DEF ReleaseRead, ReleaseDelete, NextRelease
      <4>2. ~raised'[e]
        BY <4>1 DEF Exited, TypeOK
      <4>3. CASE raised[e]
        <5>1. /\ failure_count'[e] = failure_count[e] + 1
              /\ dlq'[e] => dlq[e] \/ failure_count'[e] >= MaxFailures
          BY <4>1, <4>3, FailureCounted DEF Exited
        <5> QED
          BY <2>0, <3>1, <4>2, <4>3, <5>1 DEF CountedOf
      <4>4. CASE ~raised[e]
        BY <2>2, <3>1, <4>1, <4>2, <4>4 DEF Exited, failVars
      <4> QED
        BY <4>3, <4>4
    <3> QED
      BY <3>2, <3>3
  <2> QED
    BY <1>1, <2>3, <2>4, <2>6, <2>7, <2>8 DEF ExecStep, BodyStep
<1>2. ASSUME UNCHANGED <<raised, failVars>> PROVE Counted'
  BY <1>2 DEF Counted, CountedOf, failVars
<1> QED
  BY <1>1, <1>2 DEF Next, ExecStep, DetectDelete, DetectStale, KVExpire, Tick, vars, failVars

-----------------------------------------------------------------------------
(* The theorems                                                             *)

LEMMA IInvInit == Init => IInv
<1> SUFFICES ASSUME Init PROVE IInv
  OBVIOUS
<1>1. Shape
  BY DEF Init, Shape, ShapeOf, Acquiring, Executing, Releasing
<1>2. LapseKnown
  BY DEF Init, LapseKnown, Lapsing
<1>3. Locked
  <2>1. \A e \in Exec : Len(acquired_locks[e]) = 0 /\ pc[e] = "idle"
    BY DEF Init
  <2>2. \A i : i \notin 1 .. 0
    OBVIOUS
  <2> QED
    BY <2>1, <2>2 DEF Locked, Unreleased
<1>4. Counted
  <2>1. ASSUME NEW e \in Exec
        PROVE  CountedOf(e)
    <3>1. ~raised[e] /\ ~dlq[e]
      BY Zenon DEF Init
    <3>2. failure_count[e] = 0 /\ failedRuns[e] = 0
      BY DEF Init
    <3>3. 0 <= 2 * 0
      OBVIOUS
    <3> QED
      BY <3>1, <3>2, <3>3, Zenon DEF CountedOf
  <2> QED
    BY <2>1 DEF Counted
<1> QED
  BY <1>1, <1>2, <1>3, <1>4, TypeInit DEF IInv

LEMMA IInvStep == IInv /\ [Next]_vars => IInv'
BY TypeStep, ShapeStep, LapseStep, LockedStep, CountedStep DEF IInv

LEMMA InductiveInvariant == Spec => []IInv
BY IInvInit, IInvStep, PTL DEF Spec

LEMMA LockedExclusive == IInv => ExclusiveUntilLapse
<1> SUFFICES ASSUME IInv, ~lapsed, NEW e \in Exec, pc[e] \in Acquiring \cup Executing,
                    NEW i \in 1 .. Len(acquired_locks[e])
             PROVE  Holds(e, i)
  BY DEF ExclusiveUntilLapse, Holds
<1>1. i \in Unreleased(e)
  BY DEF Unreleased, Acquiring, Executing, Releasing
<1> QED
  BY <1>1 DEF IInv, Locked

\* Lanes, tokens and executions keep the shape lane_lock.py gives them, and
\* ages stay within what its staleness tests tell apart.
THEOREM TypeCorrect == Spec => []TypeOK
BY InductiveInvariant, PTL DEF IInv

\* For any executions over any overlapping lanes, and any number of orphan
\* detectors: as long as no lease has outlived its ttl, every lane an
\* execution has taken is locked in its name, under its token, which is the
\* current fencing token (_acquire_lane, _renew_lane_lock, _release_all_lanes).
THEOREM LanesExclusive == Spec => []ExclusiveUntilLapse
BY InductiveInvariant, LockedExclusive, PTL

\* With MAX_FAILURES = 3 (or more) one failing run never escalates, though
\* run() and __aexit__ both call _handle_failure.
THEOREM FirstFailureRetried ==
    ASSUME MaxFailures >= 3
    PROVE  Spec => []NoEscalationOnFirstFailure
<1>1. IInv => NoEscalationOnFirstFailure
  <2> SUFFICES ASSUME IInv, NEW e \in Exec, dlq[e] PROVE failedRuns[e] >= 2
    BY DEF NoEscalationOnFirstFailure
  <2>1. MaxFailures <= 2 * failedRuns[e]
    BY DEF IInv, Counted, CountedOf
  <2>2. failedRuns[e] \in Nat /\ MaxFailures \in Nat
    BY MaxAssumption DEF IInv, TypeOK
  <2> QED
    BY <2>1, <2>2
<1> QED
  BY <1>1, InductiveInvariant, PTL

\* A lane comes to be locked in the name of an execution only while that
\* execution acquires or executes: neither a heartbeat after __aexit__ nor one
\* of a crashed gateway brings a lock back.
THEOREM NoLockComesBack == Spec => NoZombieRenewal
<1> DEFINE Back == \A l \in Lane, e \in Exec :
                      /\ lanes_kv'[l] # NoLock /\ lanes_kv'[l].owner = e
                      /\ lanes_kv[l] = NoLock \/ lanes_kv[l].owner # e
                      => pc[e] \in Acquiring \cup Executing
<1>1. IInv /\ [Next]_vars => [Back]_vars
  <2> SUFFICES ASSUME IInv, Next, NEW l \in Lane, NEW e \in Exec,
                      lanes_kv'[l] # NoLock, lanes_kv'[l].owner = e,
                      lanes_kv[l] = NoLock \/ lanes_kv[l].owner # e
               PROVE  pc[e] \in Acquiring \cup Executing
    OBVIOUS
  <2>0. /\ lanes_kv \in [Lane -> Lock \cup {NoLock}]
        /\ lanes_kv'[l] # lanes_kv[l]
    BY DEF IInv, TypeOK
  <2>1. ASSUME NEW m, SetLane(m, NoLock) PROVE FALSE
    BY <2>0, <2>1 DEF SetLane
  <2>2. ASSUME NEW f \in Exec, ExecStep(f) PROVE pc[e] \in Acquiring \cup Executing
    <3>1. CASE AcquireCreate(f)
      <4>1. pc[f] = "create" /\ f = e
        BY <2>0, <3>1 DEF AcquireCreate, SetLane
      <4> QED
        BY <4>1 DEF Acquiring
    <3>2. CASE RenewPut(f)
      <4>1. hb[f] = "put" /\ f = e
        BY <2>0, <3>2 DEF RenewPut, SetLane
      <4> QED
        BY <4>1 DEF IInv, Shape, ShapeOf
    <3>3. CASE ~AcquireCreate(f) /\ ~RenewPut(f)
      <4>1. CASE Enter(f) \/ AcquireAbort(f) \/ Crash(f)
        BY <2>0, <4>1 DEF Enter, AcquireAbort, Crash, kvVars
      <4>2. CASE AcquireStep(f) \/ HeartbeatStep(f)
        BY <2>0, <2>1, <3>3, <4>2 DEF AcquireStep, AcquireRead, AcquireReclaim,
           AcquireFence, AcquirePut, HeartbeatStep, Wake, RenewRead, kvVars
      <4>3. CASE BodyStep(f)
        BY <2>0, <2>1, <4>3 DEF BodyStep, AgentReturns, AgentRaises, Validate, Complete,
           ReleaseRead, ReleaseDelete, kvVars
      <4> QED
        BY <2>2, <4>1, <4>2, <4>3 DEF ExecStep
    <3> QED
      BY <3>1, <3>2, <3>3
  <2>3. CASE Tick
    <3>1. lanes_kv[l] # NoLock /\ lanes_kv[l] \in Lock
      BY <2>0, <2>3 DEF Tick
    <3>2. lanes_kv'[l] = [lanes_kv[l] EXCEPT !.age = Older(@), !.kvage = Older(@)]
      BY <2>3, <3>1 DEF Tick
    <3>3. lanes_kv'[l].owner = lanes_kv[l].owner
      BY <3>1, <3>2 DEF Lock
    <3> QED
      BY <3>1, <3>3
  <2> QED
    BY <2>0, <2>1, <2>2, <2>3 DEF Next, ExecStep, DetectDelete, DetectStale, KVExpire, kvVars
<1> QED
  BY <1>1, InductiveInvariant, PTL DEF Spec, NoZombieRenewal

-----------------------------------------------------------------------------
(* The mesh RPC                                                             *)

\* Answer d may reach call c without a call being at fault.
Explained(c, d) ==
    \/ d = c
    \/ /\ CallGateway[d] = CallGateway[c]
       /\ <<c, d>> \in together \/ <<d, c>> \in together \/ d \in late

\* Two calls of one gateway that are subscribed have met.
Met ==
    \A c, d \in Call :
        c # d /\ Subscribed(c) /\ Subscribed(d) /\ CallGateway[c] = CallGateway[d]
            => <<c, d>> \in together \/ <<d, c>> \in together

MailExplained ==
    \A c \in Call : \A i \in 1 .. Len(mail[c]) : Explained(c, mail[c][i].to)

\* A request is answered after its call has subscribed, so that the answer is
\* in the mail for as long as the call waits.
AnswerWaits ==
    \A c \in Call :
        /\ rpc[c] \in {"new", "subscribed"} => answers[c] = 0
        /\ rpc[c] = "waiting" /\ answers[c] > 0 => mail[c] # <<>>

RPCInv == RPCSafe /\ Met /\ MailExplained /\ AnswerWaits

LEMMA RPCInvInit ==
    ASSUME MaxAnswers \in Nat, RPCInit PROVE RPCInv
<1>1. 0 \in 0 .. MaxAnswers /\ <<>> \in Seq(Message) /\ Len(<<>>) = 0
  OBVIOUS
<1>2. RPCTypeOK
  BY <1>1 DEF RPCInit, RPCTypeOK, Stage
<1>3. MixedOnlyIfSharedOrLate /\ NoAnswerMissed
  BY DEF RPCInit, MixedOnlyIfSharedOrLate, NoAnswerMissed
<1>4. Met /\ AnswerWaits
  BY DEF RPCInit, Met, AnswerWaits, Subscribed
<1>5. MailExplained
  BY <1>1 DEF RPCInit, MailExplained
<1> QED
  BY <1>2, <1>3, <1>4, <1>5 DEF RPCInv, RPCSafe

LEMMA ExplainedKept ==
    ASSUME NEW c, NEW d, Explained(c, d), together \subseteq together', late \subseteq late'
    PROVE  Explained(c, d)'
  BY DEF Explained

LEMMA SubscribeStep ==
    ASSUME RPCInv, NEW c \in Call, Subscribe(c) PROVE RPCInv'
<1> DEFINE with == {<<c, d>> : d \in {e \in Call : Subscribed(e) /\ CallGateway[e] = CallGateway[c]}}
<1>1. /\ rpc[c] = "new" /\ rpc' = [rpc EXCEPT ![c] = "subscribed"]
      /\ together' = together \cup with /\ UNCHANGED <<mail, got, answers, missed, late>>
      /\ RPCTypeOK
  BY DEF Subscribe, RPCInv, RPCSafe
<1>2. /\ rpc' \in [Call -> Stage] /\ rpc'[c] = "subscribed"
      /\ \A d \in Call \ {c} : rpc'[d] = rpc[d]
  BY <1>1 DEF RPCTypeOK, Stage
<1>3. with \subseteq Call \X Call
  OBVIOUS
<1>4. RPCTypeOK'
  BY <1>1, <1>2, <1>3 DEF RPCTypeOK
<1>5. together \subseteq together' /\ late \subseteq late'
  BY <1>1
<1>6. MixedOnlyIfSharedOrLate' /\ NoAnswerMissed'
  BY <1>1, <1>5 DEF RPCInv, RPCSafe, MixedOnlyIfSharedOrLate, NoAnswerMissed
<1>7. MailExplained'
  BY <1>1, <1>5, ExplainedKept DEF RPCInv, MailExplained
<1>8. AnswerWaits'
  BY <1>1, <1>2 DEF RPCInv, AnswerWaits
<1>9. Met'
  <2> SUFFICES ASSUME NEW a \in Call, NEW b \in Call, a # b, Subscribed(a)', Subscribed(b)',
                      CallGateway[a] = CallGateway[b]
               PROVE  <<a, b>> \in together' \/ <<b, a>> \in together'
    BY DEF Met
  <2>1. CASE a = c
    <3>1. Subscribed(b)
      BY <1>2, <2>1 DEF Subscribed
    <3>2. <<a, b>> \in with
      BY <2>1, <3>1
    <3> QED
      BY <1>1, <3>2
  <2>2. CASE b = c
    <3>1. Subscribed(a)
      BY <1>2, <2>2 DEF Subscribed
    <3>2. <<b, a>> \in with
      BY <2>2, <3>1
    <3> QED
      BY <1>1, <3>2
  <2>3. CASE a # c /\ b # c
    <3>1. Subscribed(a) /\ Subscribed(b)
      BY <1>2, <2>3 DEF Subscribed
    <3> QED
      BY <1>5, <3>1 DEF RPCInv, Met
  <2> QED
    BY <2>1, <2>2, <2>3
<1> QED
  BY <1>4, <1>6, <1>7, <1>8, <1>9 DEF RPCInv, RPCSafe

LEMMA PublishStep ==
    ASSUME RPCInv, NEW c \in Call, Publish(c) PROVE RPCInv'
<1>1. /\ rpc[c] = "subscribed" /\ rpc' = [rpc EXCEPT ![c] = "waiting"]
      /\ UNCHANGED <<mail, got, answers, missed, together, late>>
      /\ RPCTypeOK
  BY DEF Publish, RPCInv, RPCSafe
<1>2. /\ rpc' \in [Call -> Stage] /\ rpc'[c] = "waiting"
      /\ \A d \in Call \ {c} : rpc'[d] = rpc[d]
  BY <1>1 DEF RPCTypeOK, Stage
<1>3. RPCTypeOK'
  BY <1>1, <1>2 DEF RPCTypeOK
<1>4. MixedOnlyIfSharedOrLate' /\ NoAnswerMissed'
  BY <1>1 DEF RPCInv, RPCSafe, MixedOnlyIfSharedOrLate, NoAnswerMissed
<1>5. MailExplained'
  BY <1>1, ExplainedKept DEF RPCInv, MailExplained
<1>6. AnswerWaits'
  BY <1>1, <1>2 DEF RPCInv, AnswerWaits
<1>7. \A d \in Call : Subscribed(d)' => Subscribed(d)
  BY <1>1, <1>2 DEF Subscribed
<1>8. Met'
  BY <1>1, <1>7 DEF RPCInv, Met
<1> QED
  BY <1>3, <1>4, <1>5, <1>6, <1>8 DEF RPCInv, RPCSafe

\* An answer goes to calls that have met its own, or comes late.
LEMMA RespondStep ==
    ASSUME MaxAnswers \in Nat, RPCInv, NEW c \in Call, NEW success \in BOOLEAN,
           Respond(c, success)
    PROVE  RPCInv'
<1> DEFINE m == [to |-> c, success |-> success]
<1>1. /\ rpc[c] \notin {"new", "subscribed"} /\ answers[c] < MaxAnswers
      /\ answers' = [answers EXCEPT ![c] = answers[c] + 1]
      /\ mail' = [d \in Call |-> IF Hears(c, d) THEN Append(mail[d], m) ELSE mail[d]]
      /\ late' = IF rpc[c] = "waiting" THEN late ELSE late \cup {c}
      /\ UNCHANGED <<rpc, got, missed, together>> /\ RPCTypeOK
  BY DEF Respond, RPCInv, RPCSafe
<1>2. m \in Message /\ m.to = c
  BY DEF Message
<1> HIDE DEF m
<1>3. \A d \in Call : /\ mail[d] \in Seq(Message) /\ Append(mail[d], m) \in Seq(Message)
                      /\ Len(Append(mail[d], m)) = Len(mail[d]) + 1
                      /\ Len(mail[d]) \in Nat
                      /\ \A i \in 1 .. Len(mail[d]) : Append(mail[d], m)[i] = mail[d][i]
                      /\ Append(mail[d], m)[Len(mail[d]) + 1] = m
                      /\ Append(mail[d], m) # <<>>
  BY <1>1, <1>2, AppendProperties DEF RPCTypeOK
<1>4. mail' \in [Call -> Seq(Message)] /\
      \A d \in Call : mail'[d] = IF Hears(c, d) THEN Append(mail[d], m) ELSE mail[d]
  BY <1>1, <1>3
<1>5. answers' \in [Call -> 0 .. MaxAnswers] /\ \A d \in Call \ {c} : answers'[d] = answers[d]
  <2>1. answers \in [Call -> 0 .. MaxAnswers] /\ answers[c] \in 0 .. MaxAnswers
    BY <1>1 DEF RPCTypeOK
  <2>2. answers[c] + 1 \in 0 .. MaxAnswers
    BY <1>1, <2>1
  <2> QED
    BY <1>1, <2>1, <2>2
<1>6. late' \subseteq Call /\ late \subseteq late' /\ together \subseteq together'
      /\ (rpc[c] # "waiting" => c \in late')
  BY <1>1 DEF RPCTypeOK
<1>7. RPCTypeOK'
  BY <1>1, <1>4, <1>5, <1>6 DEF RPCTypeOK
<1>8. MixedOnlyIfSharedOrLate' /\ NoAnswerMissed'
  BY <1>1, <1>6 DEF RPCInv, RPCSafe, MixedOnlyIfSharedOrLate, NoAnswerMissed
<1>9. Met'
  <2>1. \A d \in Call : Subscribed(d)' <=> Subscribed(d)
    BY <1>1 DEF Subscribed
  <2> QED
    BY <1>1, <2>1 DEF RPCInv, Met
<1>10. ASSUME NEW d \in Call, Hears(c, d) PROVE Explained(d, c)'
  <2>1. CASE rpc[c] = "waiting"
    <3>1. Subscribed(c) /\ Subscribed(d) /\ CallGateway[d] = CallGateway[c]
      BY <1>10, <2>1 DEF Subscribed, Hears
    <3> QED
      BY <1>6, <3>1 DEF RPCInv, Met, Explained
  <2>2. CASE rpc[c] # "waiting"
    BY <1>6, <1>10, <2>2 DEF Hears, Explained
  <2> QED
    BY <2>1, <2>2
<1>11. MailExplained'
  <2> SUFFICES ASSUME NEW d \in Call, NEW i \in 1 .. Len(mail'[d]), NEW x, x = mail'[d][i].to
               PROVE  Explained(d, x)'
    BY DEF MailExplained, Explained
  <2>1. CASE ~Hears(c, d)
    <3>1. mail'[d] = mail[d]
      BY <1>4, <2>1
    <3>2. Explained(d, x)
      BY <3>1 DEF RPCInv, MailExplained
    <3> QED
      BY <1>6, <3>2, ExplainedKept
  <2>2. CASE Hears(c, d) /\ i = Len(mail[d]) + 1
    <3>1. x = c
      BY <1>2, <1>3, <1>4, <2>2
    <3> QED
      BY <1>10, <2>2, <3>1
  <2>3. CASE Hears(c, d) /\ i # Len(mail[d]) + 1
    <3>1. i \in 1 .. Len(mail[d])
      <4>1. Len(mail'[d]) = Len(mail[d]) + 1 /\ Len(mail[d]) \in Nat
        BY <1>3, <1>4, <2>3
      <4> QED
        BY <2>3, <4>1
    <3>2. mail'[d][i] = mail[d][i]
      BY <1>3, <1>4, <2>3, <3>1
    <3>3. Explained(d, x)
      BY <3>1, <3>2 DEF RPCInv, MailExplained
    <3> QED
      BY <1>6, <3>3, ExplainedKept
  <2> QED
    BY <2>1, <2>2, <2>3
<1>12. AnswerWaits'
  <2> SUFFICES ASSUME NEW d \in Call
               PROVE  /\ rpc[d] \in {"new", "subscribed"} => answers'[d] = 0
                      /\ rpc[d] = "waiting" /\ answers'[d] > 0 => mail'[d] # <<>>
    BY <1>1 DEF AnswerWaits
  <2>1. CASE d = c
    <3>1. rpc[d] = "waiting" => Hears(c, d)
      BY <2>1 DEF Hears, Subscribed
    <3> QED
      BY <1>1, <1>3, <1>4, <2>1, <3>1
  <2>2. CASE d # c
    <3>1. answers'[d] = answers[d] /\ (mail[d] # <<>> => mail'[d] # <<>>)
      BY <1>3, <1>4, <1>5, <2>2
    <3> QED
      BY <3>1 DEF RPCInv, AnswerWaits
  <2> QED
    BY <2>1, <2>2
<1> QED
  BY <1>7, <1>8, <1>9, <1>11, <1>12 DEF RPCInv, RPCSafe

\* The end of a call, with an answer or without.
LEMMA EndStep ==
    ASSUME RPCInv, NEW c \in Call, Receive(c) \/ Timeout(c) PROVE RPCInv'
<1>1. PICK stage \in {"returned", "raised", "timeout"} :
      /\ rpc[c] = "waiting" /\ rpc' = [rpc EXCEPT ![c] = stage]
      /\ UNCHANGED <<answers, together, late>> /\ RPCTypeOK
  BY DEF Receive, Timeout, RPCInv, RPCSafe
<1>2. /\ rpc' \in [Call -> Stage] /\ rpc'[c] = stage
      /\ \A d \in Call \ {c} : rpc'[d] = rpc[d]
  BY <1>1 DEF RPCTypeOK, Stage
<1>3. \/ /\ mail[c] # <<>> /\ got' = [got EXCEPT ![c] = {Head(mail[c]).to}]
         /\ mail' = [mail EXCEPT ![c] = <<>>] /\ missed' = missed
      \/ /\ mail' = mail /\ got' = got /\ mail[c] = <<>>
         /\ missed' = IF answers[c] > 0 THEN missed \cup {c} ELSE missed
  BY DEF Receive, Timeout
<1>4. /\ mail' \in [Call -> Seq(Message)] /\ mail'[c] = <<>>
      /\ \A d \in Call \ {c} : mail'[d] = mail[d]
  <2>1. mail \in [Call -> Seq(Message)] /\ <<>> \in Seq(Message)
    BY <1>1 DEF RPCTypeOK
  <2>2. CASE mail' = mail /\ mail[c] = <<>>
    BY <2>1, <2>2
  <2>3. CASE mail' = [mail EXCEPT ![c] = <<>>]
    BY <2>1, <2>3
  <2> QED
    BY <1>3, <2>2, <2>3
<1>5. NoAnswerMissed'
  <2>1. mail[c] = <<>> => ~(answers[c] > 0)
    BY <1>1 DEF RPCInv, AnswerWaits
  <2> QED
    BY <1>3, <2>1 DEF RPCInv, RPCSafe, NoAnswerMissed
<1>6. ASSUME mail[c] # <<>> PROVE Head(mail[c]).to \in Call /\ Explained(c, Head(mail[c]).to)
  <2>1. mail[c] \in Seq(Message)
    BY <1>1 DEF RPCTypeOK
  <2>2. Head(mail[c]) = mail[c][1] /\ 1 \in 1 .. Len(mail[c]) /\ mail[c][1] \in Message
    BY <1>6, <2>1
  <2> QED
    BY <2>2 DEF Message, RPCInv, MailExplained
<1>7. got' \in [Call -> SUBSET Call] /\ \A d \in Call \ {c} : got'[d] = got[d]
  <2>1. got \in [Call -> SUBSET Call]
    BY <1>1 DEF RPCTypeOK
  <2>2. CASE got' = got
    BY <2>1, <2>2
  <2>3. CASE mail[c] # <<>> /\ got' = [got EXCEPT ![c] = {Head(mail[c]).to}]
    BY <1>6, <2>1, <2>3
  <2> QED
    BY <1>3, <2>2, <2>3
<1>8. RPCTypeOK'
  BY <1>1, <1>2, <1>4, <1>5, <1>7 DEF RPCTypeOK, NoAnswerMissed
<1>9. MixedOnlyIfSharedOrLate'
  <2> SUFFICES ASSUME NEW b \in Call, NEW d \in got'[b] \ {b}
               PROVE  /\ CallGateway[d] = CallGateway[b]
                      /\ <<b, d>> \in together \/ <<d, b>> \in together \/ d \in late
    BY <1>1 DEF MixedOnlyIfSharedOrLate
  <2>1. CASE got'[b] = got[b]
    BY <2>1 DEF RPCInv, RPCSafe, MixedOnlyIfSharedOrLate
  <2>2. CASE got'[b] # got[b]
    <3>1. b = c /\ mail[c] # <<>> /\ got'[c] = {Head(mail[c]).to}
      BY <1>1, <1>3, <1>7, <2>2 DEF RPCTypeOK
    <3> QED
      BY <1>6, <3>1 DEF Explained
  <2> QED
    BY <2>1, <2>2
<1>10. \A d \in Call : Subscribed(d)' => Subscribed(d)
  BY <1>2, <1>1 DEF Subscribed
<1>11. Met'
  BY <1>1, <1>10 DEF RPCInv, Met
<1>12. MailExplained'
  <2> SUFFICES ASSUME NEW d \in Call, NEW i \in 1 .. Len(mail'[d]), NEW x, x = mail'[d][i].to
               PROVE  Explained(d, x)'
    BY DEF MailExplained, Explained
  <2>1. d # c
    BY <1>4
  <2>2. mail'[d] = mail[d]
    BY <1>4, <2>1
  <2>3. Explained(d, x)
    BY <2>2 DEF RPCInv, MailExplained
  <2> QED
    BY <1>1, <2>3, ExplainedKept
<1>13. AnswerWaits'
  BY <1>1, <1>2, <1>4 DEF RPCInv, AnswerWaits
<1> QED
  BY <1>5, <1>8, <1>9, <1>11, <1>12, <1>13 DEF RPCInv, RPCSafe

LEMMA RPCInvStep ==
    ASSUME MaxAnswers \in Nat, RPCInv, [RPCNext]_rpcVars PROVE RPCInv'
<1>1. CASE UNCHANGED rpcVars
  <2>1. RPCSafe' /\ AnswerWaits'
    BY <1>1 DEF RPCInv, RPCSafe, RPCTypeOK, MixedOnlyIfSharedOrLate, NoAnswerMissed,
       AnswerWaits, rpcVars
  <2>2. Met' /\ MailExplained'
    BY <1>1 DEF RPCInv, Met, MailExplained, Explained, Subscribed, rpcVars
  <2> QED
    BY <2>1, <2>2 DEF RPCInv
<1>2. CASE RPCNext
  BY <1>2, SubscribeStep, PublishStep, RespondStep, EndStep DEF RPCNext
<1> QED
  BY <1>1, <1>2

\* Whoever answers the mesh RPCs, late, twice or in another order: a call that
\* was answered while it waited does not time out, and it takes the answer to
\* another request only if the two calls of its gateway overlapped or that
\* answer came after its own call had ended (request_rpc).
THEOREM RPCAnswersExplained ==
    ASSUME MaxAnswers \in Nat PROVE RPCSpec => []RPCSafe
<1>1. RPCInv => RPCSafe
  BY DEF RPCInv
<1> QED
  BY <1>1, RPCInvInit, RPCInvStep, PTL DEF RPCSpec

=============================================================================
