----------------------- MODULE ReflectionQueue_proofs -----------------------
(***************************************************************************)
(* Proofs about ReflectionQueue, for any number of proposals and of        *)
(* requests in progress: an accepted proposal names a memory written for   *)
(* it, nothing is integrated by timeout inside its window, and proposals   *)
(* whose handlers neither overlapped nor failed have tables that agree.    *)
(***************************************************************************)
EXTENDS ReflectionQueue, FiniteSetTheorems, SequenceTheorems, TLAPS

-----------------------------------------------------------------------------
(* The inductive invariant                                                  *)

\* The table of proposals is finite, and a memory is always of a proposal in
\* it.
Rooted ==
    /\ IsFiniteSet(Existing)
    /\ \A i \in 1 .. Len(memories) : memories[i].proposal \in Existing

\* What a handler has read: proposals that exist, each once, more than one
\* only in the timeout loop, and there only expired ones.
Reads(w) ==
    /\ job[w].todo # <<>>
    /\ \A i \in 1 .. Len(job[w].todo) :
          /\ job[w].todo[i] \in Existing
          /\ job[w].decision = "timeout_accept" =>
                proposals[job[w].todo[i]].expires_at <= clock
    /\ \A i, j \in 1 .. Len(job[w].todo) : job[w].todo[i] = job[w].todo[j] => i = j
    /\ job[w].decision # "timeout_accept" => Len(job[w].todo) = 1

\* The memory a handler supersedes is one of its proposal, and only a late
\* edit supersedes.
Supersedes(w) ==
    /\ job[w].late # 0 => /\ job[w].decision = "edit"
                          /\ memories[job[w].late].proposal = Subject(w)
    /\ job[w].late = 0 => job[w].phase # "invalidate"

\* The review status of the memory a decision writes.
Reviewed(w) ==
    IF job[w].decision = "timeout_accept" THEN "accepted_by_timeout" ELSE "accepted"

\* The memory a handler has written is there when it updates the proposal.
Written(w) ==
    /\ job[w].decision = "inspect" => job[w].phase = "log"
    /\ job[w].decision = "deny" => job[w].phase \in {"update", "log"}
    /\ job[w].phase \in {"invalidate", "update"} /\ job[w].decision # "deny" =>
          /\ job[w].mem # 0
          /\ memories[job[w].mem].proposal = Subject(w)
          /\ memories[job[w].mem].review_status = Reviewed(w)

Handlers == \A w \in Worker : Busy(w) => Reads(w) /\ Supersedes(w) /\ Written(w)

\* How far a handler has brought the tables of the proposal it is at, if
\* nobody interferes.
Settled(p) == TablesAgree(p) /\ Recorded(p)

Progress(w) ==
    LET p == Subject(w)
        live == LiveMemories(p)
        late == job[w].late
        mem == job[w].mem
    IN /\ late # 0 /\ job[w].phase # "log" =>
             /\ proposals[p].status \in Accepted /\ proposals[p].memory_id = late
             /\ Recorded(p)
       /\ job[w].phase = "write" =>
             /\ Settled(p)
             /\ late = 0 => proposals[p].status = "pending"
       /\ job[w].phase = "invalidate" => live = {late, mem} /\ late # mem
       /\ job[w].phase = "update" =>
             IF job[w].decision = "deny" THEN live = {}
             ELSE live = {mem} /\ late # mem
       /\ job[w].phase = "log" =>
             /\ TablesAgree(p)
             /\ job[w].decision = "inspect" => Recorded(p)

\* The share of a handler in the tables of a proposal it is to work on.
Share(w, p) == IF Subject(w) = p THEN Progress(w)
               ELSE Settled(p) /\ proposals[p].status = "pending"

\* A proposal that is clean has one handler at most, which has brought its
\* tables as far as its phase says; the tables are settled before and after.
UndisturbedAt(p) ==
    clean[p] =>
        /\ \A v, w \in Worker : About(v, p) /\ About(w, p) => v = w
        /\ Quiet(p) => Settled(p)
        /\ \A w \in Worker : About(w, p) => Share(w, p)

Undisturbed == \A p \in Existing : UndisturbedAt(p)

IInv == /\ TypeOK
        /\ Rooted
        /\ Handlers
        /\ AcceptedHasMemory
        /\ WindowRespected
        /\ Undisturbed

-----------------------------------------------------------------------------
(* The steps of a handler                                                   *)

\* A variable that keeps its value or is updated at one point keeps its type.
LEMMA UpdateType ==
    ASSUME NEW A, NEW B, NEW f \in [A -> B], NEW g, NEW x \in A,
           g = f \/ \E v \in B : g = [f EXCEPT ![x] = v]
    PROVE  g \in [A -> B]
<1>1. CASE g = f
  BY <1>1
<1>2. ASSUME NEW v \in B, g = [f EXCEPT ![x] = v] PROVE g \in [A -> B]
  BY <1>2
<1> QED
  BY <1>1, <1>2

\* A handler in one of its phases is busy with a job.
LEMMA BusyType ==
    ASSUME TypeOK, NEW w \in Worker,
           Busy(w) \/ job[w].phase \in {"write", "invalidate", "update", "log"}
    PROVE  /\ Busy(w) /\ job[w] \in Job
           /\ job[w].decision \in Decision /\ job[w].todo \in Seq(Proposal)
           /\ job[w].late \in Nat /\ job[w].late <= Len(memories)
           /\ job[w].mem \in Nat /\ job[w].mem <= Len(memories)
           /\ job[w].phase \in {"write", "invalidate", "update", "log"}
<1>1. job[w] \in Job \cup {Idle} /\ {job[w].late, job[w].mem} \subseteq 0 .. Len(memories)
  BY DEF TypeOK
<1>2. Idle.phase = "none"
  BY DEF Idle
<1>3. job[w] # Idle
  BY <1>2 DEF Busy
<1> QED
  BY <1>1, <1>3 DEF Busy, Job

\* A memory that is there has the shape the INSERT gave it.
LEMMA MemoryType ==
    ASSUME TypeOK, NEW i \in 1 .. Len(memories)
    PROVE  /\ memories[i] \in Memory /\ memories[i].proposal \in Proposal
           /\ memories[i].valid \in BOOLEAN /\ memories[i].review_status \in Accepted
<1>1. memories \in Seq(Memory)
  BY DEF TypeOK
<1>2. memories[i] \in Memory
  BY <1>1
<1> QED
  BY <1>2 DEF Memory

LEMMA RowType ==
    ASSUME TypeOK, NEW p \in Existing
    PROVE  /\ p \in Proposal /\ proposals[p] \in Row
           /\ proposals[p].status \in Status /\ proposals[p].memory_id \in Nat
           /\ proposals[p].expires_at \in Nat
           /\ proposals[p].memory_id <= Len(memories)
<1>1. p \in Proposal /\ proposals[p] \in Row /\ proposals[p].memory_id <= Len(memories)
  BY DEF TypeOK, Existing
<1> QED
  BY <1>1 DEF Row

\* The proposal a handler is at exists.
LEMMA SubjectExists ==
    ASSUME TypeOK, Handlers, NEW w \in Worker, Busy(w)
    PROVE  /\ Subject(w) \in Existing /\ Subject(w) = job[w].todo[1]
           /\ 1 \in 1 .. Len(job[w].todo) /\ Len(job[w].todo) \in Nat /\ About(w, Subject(w))
<1>1. job[w].todo \in Seq(Proposal)
  BY BusyType
<1>2. job[w].todo # <<>>
  BY DEF Handlers, Reads
<1>3. 1 \in 1 .. Len(job[w].todo) /\ Subject(w) = job[w].todo[1] /\ Len(job[w].todo) \in Nat
  BY <1>1, <1>2 DEF Subject
<1> QED
  BY <1>3 DEF Handlers, Reads, About

\* The INSERT of a memory.
LEMMA Wrote ==
    ASSUME TypeOK, Handlers, NEW w \in Worker, WriteMemory(w)
    PROVE  LET n == Len(memories) + 1
           IN /\ Busy(w) /\ n \in Nat /\ n \notin 1 .. Len(memories)
              /\ memories' \in Seq(Memory) /\ Len(memories') = n
              /\ \A i \in 1 .. Len(memories) : memories'[i] = memories[i]
              /\ memories'[n].proposal = Subject(w) /\ memories'[n].valid
              /\ memories'[n].review_status = Reviewed(w)
              /\ job' \in [Worker -> Job \cup {Idle}]
              /\ job'[w].decision = job[w].decision /\ job'[w].todo = job[w].todo
              /\ job'[w].late = job[w].late /\ job'[w].mem = n
              /\ job'[w].phase = IF job[w].late # 0 THEN "invalidate" ELSE "update"
              /\ \A v \in Worker \ {w} : job'[v] = job[v]
<1> DEFINE n == Len(memories) + 1
           row == [proposal |-> Subject(w), valid |-> TRUE, review_status |-> Reviewed(w)]
           phase == IF job[w].late # 0 THEN "invalidate" ELSE "update"
           next == [job[w] EXCEPT !.mem = n, !.phase = phase]
<1>1. Busy(w) /\ job[w] \in Job
  BY BusyType DEF WriteMemory
<1>2. memories \in Seq(Memory) /\ Len(memories) \in Nat /\ n \in Nat
  BY DEF TypeOK
<1>3. row \in Memory
  <2>1. Subject(w) \in Proposal
    BY <1>1, SubjectExists DEF Existing
  <2> QED
    BY <2>1 DEF Memory, Accepted, Reviewed
<1>4. memories' = Append(memories, row)
  BY DEF WriteMemory, Reviewed
<1>5. row.proposal = Subject(w) /\ row.valid /\ row.review_status = Reviewed(w)
  OBVIOUS
<1>6. /\ memories' \in Seq(Memory) /\ Len(memories') = n /\ memories'[n] = row
      /\ \A i \in 1 .. Len(memories) : memories'[i] = memories[i]
  <2> HIDE DEF row
  <2> QED BY <1>2, <1>3, <1>4
<1>7. phase \in {"write", "invalidate", "update", "log"}
  OBVIOUS
<1>8. job' = [job EXCEPT ![w] = next]
  BY DEF WriteMemory
<1>9. /\ next \in Job /\ next.decision = job[w].decision /\ next.todo = job[w].todo
      /\ next.late = job[w].late /\ next.mem = n /\ next.phase = phase
  <2> HIDE DEF phase, n
  <2> QED BY <1>1, <1>2, <1>7 DEF Job
<1>10. /\ job' \in [Worker -> Job \cup {Idle}] /\ job'[w] = next
       /\ \A v \in Worker \ {w} : job'[v] = job[v]
  <2> HIDE DEF next
  <2> QED BY <1>8, <1>9 DEF TypeOK
<1> HIDE DEF next, row
<1> QED
  BY <1>1, <1>2, <1>5, <1>6, <1>9, <1>10

\* The UPDATE of the memory a late edit supersedes.
LEMMA Invalidated ==
    ASSUME TypeOK, Handlers, NEW w \in Worker, Invalidate(w)
    PROVE  /\ Busy(w) /\ job[w].late \in 1 .. Len(memories)
           /\ memories' \in Seq(Memory) /\ Len(memories') = Len(memories)
           /\ \A i \in 1 .. Len(memories) :
                 /\ memories'[i].proposal = memories[i].proposal
                 /\ memories'[i].review_status = memories[i].review_status
                 /\ memories'[i].valid <=> memories[i].valid /\ i # job[w].late
           /\ job' \in [Worker -> Job \cup {Idle}]
           /\ job'[w].decision = job[w].decision /\ job'[w].todo = job[w].todo
           /\ job'[w].late = job[w].late /\ job'[w].mem = job[w].mem
           /\ job'[w].phase = "update"
           /\ \A v \in Worker \ {w} : job'[v] = job[v]
<1> DEFINE next == [job[w] EXCEPT !.phase = "update"]
           gone == [memories[job[w].late] EXCEPT !.valid = FALSE]
<1>1. /\ Busy(w) /\ job[w] \in Job /\ job[w].late \in Nat
      /\ job[w].late <= Len(memories)
  BY BusyType DEF Invalidate
<1>2. memories \in Seq(Memory) /\ Len(memories) \in Nat
  BY DEF TypeOK
<1>3. job[w].late \in 1 .. Len(memories)
  BY <1>1, <1>2 DEF Handlers, Supersedes, Invalidate
<1>4. memories' = [memories EXCEPT ![job[w].late] = gone]
  BY DEF Invalidate
<1>5. /\ gone \in Memory /\ gone.valid = FALSE
      /\ gone.proposal = memories[job[w].late].proposal
      /\ gone.review_status = memories[job[w].late].review_status
  BY <1>3, MemoryType DEF Memory
<1>6. /\ memories' \in Seq(Memory) /\ Len(memories') = Len(memories)
      /\ memories'[job[w].late] = gone
      /\ \A i \in 1 .. Len(memories) : i # job[w].late => memories'[i] = memories[i]
  <2> HIDE DEF gone
  <2> QED BY <1>2, <1>3, <1>4, <1>5
<1>7. job' = [job EXCEPT ![w] = next]
  BY DEF Invalidate
<1>8. /\ next \in Job /\ next.decision = job[w].decision /\ next.todo = job[w].todo
      /\ next.late = job[w].late /\ next.mem = job[w].mem /\ next.phase = "update"
  BY <1>1 DEF Job
<1>9. /\ job' \in [Worker -> Job \cup {Idle}] /\ job'[w] = next
      /\ \A v \in Worker \ {w} : job'[v] = job[v]
  <2> HIDE DEF next
  <2> QED BY <1>7, <1>8 DEF TypeOK
<1> HIDE DEF next, gone
<1> QED
  BY <1>1, <1>3, <1>5, <1>6, <1>8, <1>9

\* The status a decision leads to is one of the table's, and tells the review
\* status of the memory it wrote.
LEMMA NewStatusType ==
    ASSUME TypeOK, Handlers, NEW w \in Worker, Busy(w), job[w].phase = "update"
    PROVE  /\ NewStatus(w) \in Status
           /\ NewStatus(w) # "pending"
           /\ job[w].decision = "deny" => NewStatus(w) = "rejected"
           /\ job[w].late # 0 => NewStatus(w) = "superseded"
           /\ job[w].late = 0 /\ job[w].decision # "deny" => NewStatus(w) = Reviewed(w)
<1>1. /\ job[w].late # 0 => job[w].decision = "edit"
      /\ job[w].decision # "inspect" /\ job[w].decision \in Decision
  BY BusyType DEF Handlers, Supersedes, Written
<1>2. CASE job[w].decision = "deny"
  BY <1>1, <1>2 DEF NewStatus, Status, Reviewed
<1>3. CASE job[w].decision = "timeout_accept"
  BY <1>1, <1>3 DEF NewStatus, Status, Reviewed, Accepted
<1>4. CASE job[w].decision \notin {"deny", "timeout_accept"} /\ job[w].late # 0
  BY <1>1, <1>4 DEF NewStatus, Status, Reviewed
<1>5. CASE job[w].decision \notin {"deny", "timeout_accept"} /\ job[w].late = 0
  BY <1>1, <1>5 DEF NewStatus, Status, Reviewed, Accepted
<1> QED
  BY <1>2, <1>3, <1>4, <1>5

\* The UPDATE of the proposal.
LEMMA Updated ==
    ASSUME TypeOK, Handlers, NEW w \in Worker, UpdateProposal(w)
    PROVE  LET p == Subject(w)
           IN /\ Busy(w) /\ p \in Existing
              /\ proposals' \in [Proposal -> Row \cup {NoProposal}]
              /\ \A q \in Proposal \ {p} : proposals'[q] = proposals[q]
              /\ proposals'[p] # NoProposal
              /\ proposals'[p].status = NewStatus(w)
              /\ proposals'[p].expires_at = proposals[p].expires_at
              /\ proposals'[p].memory_id = IF NewStatus(w) \in Accepted THEN job[w].mem
                                           ELSE proposals[p].memory_id
              /\ job' \in [Worker -> Job \cup {Idle}]
              /\ job'[w].decision = job[w].decision /\ job'[w].todo = job[w].todo
              /\ job'[w].late = job[w].late /\ job'[w].mem = job[w].mem
              /\ job'[w].phase = "log"
              /\ \A v \in Worker \ {w} : job'[v] = job[v]
<1> DEFINE p == Subject(w)
           mid == IF NewStatus(w) \in Accepted THEN job[w].mem ELSE proposals[p].memory_id
           row == [proposals[p] EXCEPT !.status = NewStatus(w), !.memory_id = mid]
           next == [job[w] EXCEPT !.phase = "log"]
<1>1. /\ Busy(w) /\ job[w] \in Job /\ job[w].mem \in Nat /\ job[w].phase = "update"
  BY BusyType DEF UpdateProposal
<1>2. p \in Existing /\ p \in Proposal /\ proposals[p] \in Row /\ proposals[p].memory_id \in Nat
  BY <1>1, SubjectExists, RowType
<1>3. NewStatus(w) \in Status
  BY <1>1, NewStatusType
<1>4. mid \in Nat
  BY <1>1, <1>2
<1>5. /\ row \in Row /\ row.status = NewStatus(w) /\ row.memory_id = mid
      /\ row.expires_at = proposals[p].expires_at
  <2> HIDE DEF mid, p
  <2> QED BY <1>2, <1>3, <1>4 DEF Row
<1>6. proposals' = [proposals EXCEPT ![p] = row]
  BY DEF UpdateProposal
<1>7. /\ proposals' \in [Proposal -> Row \cup {NoProposal}] /\ proposals'[p] = row
      /\ \A q \in Proposal \ {p} : proposals'[q] = proposals[q]
  <2> HIDE DEF row, p
  <2> QED BY <1>2, <1>5, <1>6 DEF TypeOK
<1>8. row # NoProposal
  BY <1>5, NullAssumption
<1>9. job' = [job EXCEPT ![w] = next]
  BY DEF UpdateProposal
<1>10. /\ next \in Job /\ next.decision = job[w].decision /\ next.todo = job[w].todo
       /\ next.late = job[w].late /\ next.mem = job[w].mem /\ next.phase = "log"
  BY <1>1 DEF Job
<1>11. /\ job' \in [Worker -> Job \cup {Idle}] /\ job'[w] = next
       /\ \A v \in Worker \ {w} : job'[v] = job[v]
  <2> HIDE DEF next
  <2> QED BY <1>9, <1>10 DEF TypeOK
<1> HIDE DEF row, next
<1> QED
  BY <1>1, <1>2, <1>5, <1>7, <1>8, <1>10, <1>11

\* After one proposal: the handler is through, or the timeout loop is at the
\* next row.
LEMMA Advanced ==
    ASSUME TypeOK, Handlers, NEW w \in Worker, Busy(w), NextRow(w)
    PROVE  /\ job' \in [Worker -> Job \cup {Idle}]
           /\ \A v \in Worker \ {w} : job'[v] = job[v]
           /\ \/ job'[w] = Idle /\ Len(job[w].todo) = 1
              \/ /\ job[w].decision = "timeout_accept" /\ 1 < Len(job[w].todo)
                 /\ job'[w] \in Job /\ job'[w].decision = job[w].decision
                 /\ job'[w].todo = Tail(job[w].todo)
                 /\ job'[w].late = job[w].late /\ job'[w].mem = 0
                 /\ job'[w].phase = "write"
<1>1. job[w] \in Job /\ job[w].todo \in Seq(Proposal)
  BY BusyType
<1>2. job[w].todo # <<>> /\ (job[w].decision # "timeout_accept" => Len(job[w].todo) = 1)
  BY DEF Handlers, Reads
<1>3. CASE Len(job[w].todo) = 1
  <2>1. job' = [job EXCEPT ![w] = Idle]
    BY <1>3 DEF NextRow
  <2> QED
    BY <1>3, <2>1 DEF TypeOK
<1>4. CASE Len(job[w].todo) # 1
  <2> DEFINE next == [job[w] EXCEPT !.todo = Tail(job[w].todo), !.phase = "write", !.mem = 0]
  <2>1. job' = [job EXCEPT ![w] = next]
    BY <1>4 DEF NextRow
  <2>2. Tail(job[w].todo) \in Seq(Proposal) /\ 1 < Len(job[w].todo)
    <3>1. Len(job[w].todo) \in Nat /\ Len(job[w].todo) # 0
      BY <1>1, <1>2
    <3>2. \A n \in Nat : n # 0 /\ n # 1 => 1 < n
      OBVIOUS
    <3>3. Tail(job[w].todo) \in Seq(Proposal)
      BY <1>1, <1>2, HeadTailProperties
    <3> QED
      BY <1>4, <3>1, <3>2, <3>3, Zenon
  <2>3. /\ next \in Job /\ next.decision = job[w].decision /\ next.todo = Tail(job[w].todo)
        /\ next.late = job[w].late /\ next.mem = 0 /\ next.phase = "write"
    BY <1>1, <2>2 DEF Job
  <2>4. /\ job' \in [Worker -> Job \cup {Idle}] /\ job'[w] = next
        /\ \A v \in Worker \ {w} : job'[v] = job[v]
    <3> HIDE DEF next
    <3> QED BY <2>1, <2>3 DEF TypeOK
  <2> HIDE DEF next
  <2> QED
    BY <1>2, <1>4, <2>2, <2>3, <2>4
<1> QED
  BY <1>3, <1>4

\* The INSERT of a proposal.
LEMMA Created ==
    ASSUME TypeOK, NEW p \in Proposal, CreateProposal(p)
    PROVE  /\ p \notin Existing /\ Existing' = Existing \cup {p}
           /\ proposals' \in [Proposal -> Row \cup {NoProposal}]
           /\ \A q \in Proposal \ {p} : proposals'[q] = proposals[q]
           /\ proposals'[p].status = "pending" /\ proposals'[p].memory_id = 0
<1> DEFINE row == [status |-> "pending", memory_id |-> 0, expires_at |-> clock + Window]
<1>1. row \in Row /\ row.status = "pending" /\ row.memory_id = 0
  BY WindowAssumption DEF TypeOK, Row, Status
<1>2. proposals' = [proposals EXCEPT ![p] = row] /\ p \notin Existing
  BY DEF CreateProposal, Existing
<1> HIDE DEF row
<1>3. /\ proposals' \in [Proposal -> Row \cup {NoProposal}] /\ proposals'[p] = row
      /\ \A q \in Proposal \ {p} : proposals'[q] = proposals[q]
  BY <1>1, <1>2 DEF TypeOK
<1>4. row # NoProposal
  BY <1>1, NullAssumption
<1> QED
  BY <1>1, <1>2, <1>3, <1>4 DEF Existing

\* The SELECT of a review action.
LEMMA Taken ==
    ASSUME TypeOK, NEW w \in Worker, NEW d \in Decision \ {"timeout_accept"},
           NEW p \in Proposal, TakeAction(w, d, p)
    PROVE  /\ ~Busy(w) /\ p \in Existing /\ Allowed(d, proposals[p].status)
           /\ job' \in [Worker -> Job \cup {Idle}] /\ job'[w] \in Job
           /\ job'[w].decision = d /\ job'[w].todo = <<p>> /\ job'[w].mem = 0
           /\ job'[w].phase = FirstPhase(d)
           /\ job'[w].late = IF d = "edit" /\ proposals[p].status \in Accepted
                             THEN proposals[p].memory_id ELSE 0
           /\ \A v \in Worker \ {w} : job'[v] = job[v]
<1> DEFINE late == IF d = "edit" /\ proposals[p].status \in Accepted
                   THEN proposals[p].memory_id ELSE 0
           next == [decision |-> d, todo |-> <<p>>, mem |-> 0,
                    phase |-> FirstPhase(d), late |-> late]
<1>1. ~Busy(w) /\ p \in Existing /\ Allowed(d, proposals[p].status)
  BY DEF TakeAction
<1>2. late \in Nat
  BY <1>1, RowType
<1>3. FirstPhase(d) \in {"write", "invalidate", "update", "log"}
  BY DEF FirstPhase, Decision
<1>4. <<p>> \in Seq(Proposal)
  OBVIOUS
<1>5. job' = [job EXCEPT ![w] = next]
  BY DEF TakeAction
<1>6. /\ next \in Job /\ next.decision = d /\ next.todo = <<p>> /\ next.mem = 0
      /\ next.phase = FirstPhase(d) /\ next.late = late
  <2> HIDE DEF late
  <2> QED BY <1>2, <1>3, <1>4 DEF Job
<1> HIDE DEF next
<1>7. /\ job' \in [Worker -> Job \cup {Idle}] /\ job'[w] = next
      /\ \A v \in Worker \ {w} : job'[v] = job[v]
  BY <1>5, <1>6 DEF TypeOK
<1> QED
  BY <1>1, <1>6, <1>7

\* The SELECT of the timeout loop: each expired row once.
LEMMA Swept ==
    ASSUME TypeOK, Rooted, NEW w \in Worker, ProcessTimeouts(w)
    PROVE  /\ ~Busy(w)
           /\ job' \in [Worker -> Job \cup {Idle}] /\ job'[w] \in Job
           /\ job'[w].decision = "timeout_accept" /\ job'[w].mem = 0
           /\ job'[w].phase = "write" /\ job'[w].late = 0 /\ job'[w].todo # <<>>
           /\ \A i \in 1 .. Len(job'[w].todo) :
                 job'[w].todo[i] \in Existing /\ Expired(job'[w].todo[i])
           /\ \A i, j \in 1 .. Len(job'[w].todo) :
                 job'[w].todo[i] = job'[w].todo[j] => i = j
           /\ Touch(w, {p \in Existing : Expired(p)})
           /\ \A v \in Worker \ {w} : job'[v] = job[v]
<1> DEFINE due == {p \in Existing : Expired(p)}
<1>1. ~Busy(w) /\ due # {} /\ Touch(w, due)
  BY DEF ProcessTimeouts
<1>2. PICK rows \in Orders(due) :
         job' = [job EXCEPT ![w] = [decision |-> "timeout_accept", todo |-> rows,
                                    mem |-> 0, phase |-> "write", late |-> 0]]
  BY DEF ProcessTimeouts
<1>3. Cardinality(due) \in Nat /\ Cardinality(due) # 0
  <2>1. IsFiniteSet(due)
    BY FS_Subset DEF Rooted
  <2> QED
    BY <2>1, <1>1, FS_CardinalityType, FS_EmptySet
<1> DEFINE n == Cardinality(due)
           next == [decision |-> "timeout_accept", todo |-> rows, mem |-> 0,
                    phase |-> "write", late |-> 0]
<1>4. /\ rows \in [1 .. n -> due]
      /\ \A i, j \in 1 .. n : rows[i] = rows[j] => i = j
  BY <1>2 DEF Orders
<1>5. \A i \in 1 .. n : rows[i] \in due
  <2> HIDE DEF due, n
  <2> QED BY <1>4
<1>6. due \subseteq Proposal
  BY DEF Existing
<1>7. rows \in Seq(Proposal) /\ Len(rows) = n /\ rows # <<>>
  <2> HIDE DEF due
  <2>1. rows \in Seq(due) /\ Len(rows) = n
    BY <1>3, <1>4
  <2>2. rows \in Seq(Proposal)
    BY <2>1, <1>6
  <2> QED
    BY <2>1, <2>2, <1>3
<1>8. /\ next \in Job /\ next.decision = "timeout_accept" /\ next.todo = rows
      /\ next.mem = 0 /\ next.phase = "write" /\ next.late = 0
  BY <1>7 DEF Job, Decision
<1> HIDE DEF next, n
<1>9. /\ job' \in [Worker -> Job \cup {Idle}] /\ job'[w] = next
      /\ \A v \in Worker \ {w} : job'[v] = job[v]
  BY <1>2, <1>8 DEF TypeOK, next
<1> QED
  BY <1>1, <1>4, <1>5, <1>7, <1>8, <1>9

-----------------------------------------------------------------------------
(* Types                                                                    *)

LEMMA TypeInit ==
    Init => TypeOK
<1> SUFFICES ASSUME Init PROVE TypeOK
  OBVIOUS
<1>1. Existing = {} /\ proposals \in [Proposal -> Row \cup {NoProposal}]
  BY DEF Init, Existing
<1>2. memories \in Seq(Memory) /\ Len(memories) = 0
  BY DEF Init
<1>3. \A w \in Worker : job[w].late = 0 /\ job[w].mem = 0
  BY DEF Init, Idle
<1>4. job \in [Worker -> Job \cup {Idle}] /\ audit \in [Proposal -> SUBSET Decision]
  BY DEF Init
<1>5. clean \in [Proposal -> BOOLEAN]
  BY Zenon DEF Init
<1> QED
  BY <1>1, <1>2, <1>3, <1>4, <1>5 DEF Init, TypeOK

\* The history variable stays a function to the Booleans.
LEMMA CleanType ==
    ASSUME TypeOK, Next PROVE clean' \in [Proposal -> BOOLEAN]
<1>1. clean \in [Proposal -> BOOLEAN]
  BY DEF TypeOK
<1>2. ASSUME NEW w, NEW ps, Touch(w, ps) PROVE clean' \in [Proposal -> BOOLEAN]
  BY <1>2, Zenon DEF Touch
<1>3. ASSUME NEW p, clean' = [clean EXCEPT ![p] = FALSE]
      PROVE  clean' \in [Proposal -> BOOLEAN]
  BY <1>1, <1>3
<1>4. \/ clean' = clean
      \/ \E w, ps : Touch(w, ps)
      \/ \E p : clean' = [clean EXCEPT ![p] = FALSE]
  BY Zenon DEF Next, CreateProposal, TakeAction, ProcessTimeouts, Work, WriteMemory,
         Invalidate, UpdateProposal, LogAction, Fail, Die, Tick
<1> QED
  BY <1>1, <1>2, <1>3, <1>4, Zenon

\* The rest of the type invariant, from what a step does to the tables and
\* to the jobs.
LEMMA TypeFrom ==
    ASSUME TypeOK, Next,
           proposals' \in [Proposal -> Row \cup {NoProposal}],
           \A p \in Existing' : proposals'[p].memory_id <= Len(memories'),
           memories' \in Seq(Memory), audit' \in [Proposal -> SUBSET Decision],
           job' \in [Worker -> Job \cup {Idle}],
           \A w \in Worker : {job'[w].late, job'[w].mem} \subseteq 0 .. Len(memories'),
           {clock, acted, faults}' \subseteq Nat
    PROVE  TypeOK'
<1>1. clean' \in [Proposal -> BOOLEAN]
  BY CleanType
<1> QED
  BY <1>1 DEF TypeOK

LEMMA TypeStep ==
    ASSUME TypeOK, Rooted, Handlers, Next PROVE TypeOK'
<1>1. /\ proposals \in [Proposal -> Row \cup {NoProposal}]
      /\ memories \in Seq(Memory) /\ audit \in [Proposal -> SUBSET Decision]
      /\ job \in [Worker -> Job \cup {Idle}] /\ Len(memories) \in Nat
      /\ clock \in Nat /\ acted \in Nat /\ faults \in Nat
  BY DEF TypeOK
<1>2. \A p \in Existing : proposals[p].memory_id \in Nat /\ proposals[p].memory_id <= Len(memories)
  BY RowType
<1>3. \A w \in Worker : {job[w].late, job[w].mem} \subseteq 0 .. Len(memories)
  BY DEF TypeOK
<1>4. ASSUME NEW p \in Proposal, CreateProposal(p) PROVE TypeOK'
  <2>1. UNCHANGED <<memories, audit, job, clock, acted, faults>>
    BY <1>4 DEF CreateProposal
  <2>2. \A q \in Existing' : proposals'[q].memory_id <= Len(memories')
    BY <1>1, <1>2, <1>4, <2>1, Created DEF Existing
  <2> QED
    BY <1>1, <1>3, <1>4, <2>1, <2>2, Created, TypeFrom DEF Existing
<1>5. ASSUME NEW w \in Worker, NEW d \in Decision \ {"timeout_accept"}, NEW p \in Proposal,
             TakeAction(w, d, p)
      PROVE  TypeOK'
  <2>1. UNCHANGED <<proposals, memories, audit, clock, faults>> /\ acted' \in Nat
    BY <1>1, <1>5 DEF TakeAction
  <2>2. job'[w].late \in 0 .. Len(memories) /\ job'[w].mem \in 0 .. Len(memories)
    <3>1. p \in Existing /\ job'[w].late \in {proposals[p].memory_id, 0} /\ job'[w].mem = 0
      BY <1>5, Taken
    <3> QED
      BY <1>1, <1>2, <3>1
  <2>3. \A v \in Worker : {job'[v].late, job'[v].mem} \subseteq 0 .. Len(memories)
    BY <1>3, <1>5, <2>2, Taken
  <2> QED
    BY <1>1, <1>2, <1>5, <2>1, <2>3, Taken, TypeFrom DEF Existing
<1>6. ASSUME NEW w \in Worker, ProcessTimeouts(w) PROVE TypeOK'
  <2>1. UNCHANGED <<proposals, memories, audit, clock, acted, faults>>
    BY <1>6 DEF ProcessTimeouts
  <2>2. job'[w].late \in 0 .. Len(memories) /\ job'[w].mem \in 0 .. Len(memories)
    <3>1. job'[w].late = 0 /\ job'[w].mem = 0
      BY <1>6, Swept
    <3> QED
      BY <1>1, <3>1
  <2>3. \A v \in Worker : {job'[v].late, job'[v].mem} \subseteq 0 .. Len(memories)
    BY <1>3, <1>6, <2>2, Swept
  <2> QED
    BY <1>1, <1>2, <1>6, <2>1, <2>3, Swept, TypeFrom DEF Existing
<1>7. ASSUME NEW w \in Worker, WriteMemory(w) PROVE TypeOK'
  <2>1. UNCHANGED <<proposals, audit, clock, acted, faults>>
    BY <1>7 DEF WriteMemory
  <2>2. Len(memories') = Len(memories) + 1 /\ memories' \in Seq(Memory)
    BY <1>7, Wrote
  <2>3. job' \in [Worker -> Job \cup {Idle}] /\ \A v \in Worker \ {w} : job'[v] = job[v]
    BY <1>7, Wrote
  <2>4. job'[w].late = job[w].late /\ job'[w].mem = Len(memories) + 1
    BY <1>7, Wrote
  <2>5. \A v \in Worker : {job'[v].late, job'[v].mem} \subseteq 0 .. Len(memories')
    BY <1>1, <1>3, <2>2, <2>3, <2>4
  <2>6. \A q \in Existing' : proposals'[q].memory_id <= Len(memories')
    BY <1>1, <1>2, <2>1, <2>2 DEF Existing
  <2> QED
    BY <1>1, <2>1, <2>2, <2>3, <2>5, <2>6, TypeFrom
<1>8. ASSUME NEW w \in Worker, Invalidate(w) PROVE TypeOK'
  <2>1. UNCHANGED <<proposals, audit, clock, acted, faults>>
    BY <1>8 DEF Invalidate
  <2>2. Len(memories') = Len(memories) /\ memories' \in Seq(Memory)
    BY <1>8, Invalidated
  <2>3. job' \in [Worker -> Job \cup {Idle}] /\ \A v \in Worker \ {w} : job'[v] = job[v]
    BY <1>8, Invalidated
  <2>4. job'[w].late = job[w].late /\ job'[w].mem = job[w].mem
    BY <1>8, Invalidated
  <2>5. \A v \in Worker : {job'[v].late, job'[v].mem} \subseteq 0 .. Len(memories')
    BY <1>3, <2>2, <2>3, <2>4
  <2> QED
    BY <1>1, <1>2, <2>1, <2>2, <2>3, <2>5, TypeFrom DEF Existing
<1>9. ASSUME NEW w \in Worker, UpdateProposal(w) PROVE TypeOK'
  <2>1. UNCHANGED <<memories, audit, clock, acted, faults>>
    BY <1>9 DEF UpdateProposal
  <2> DEFINE p == Subject(w)
  <2>2. /\ proposals' \in [Proposal -> Row \cup {NoProposal}]
        /\ \A q \in Proposal \ {p} : proposals'[q] = proposals[q]
        /\ p \in Existing
    BY <1>9, Updated
  <2>3. /\ job' \in [Worker -> Job \cup {Idle}] /\ \A v \in Worker \ {w} : job'[v] = job[v]
        /\ job'[w].late = job[w].late /\ job'[w].mem = job[w].mem
    BY <1>9, Updated
  <2>4. proposals'[p].memory_id \in {job[w].mem, proposals[p].memory_id}
    BY <1>9, Updated
  <2>5. \A v \in Worker : {job'[v].late, job'[v].mem} \subseteq 0 .. Len(memories')
    BY <1>3, <2>1, <2>3
  <2>6. \A q \in Existing' : proposals'[q].memory_id <= Len(memories')
    <3> HIDE DEF p
    <3> QED BY <1>1, <1>2, <1>3, <2>1, <2>2, <2>4 DEF Existing
  <2> QED
    BY <1>1, <2>1, <2>2, <2>3, <2>5, <2>6, TypeFrom
<1>10. ASSUME NEW w \in Worker, Busy(w), NextRow(w), audit' \in [Proposal -> SUBSET Decision],
              faults' \in Nat, UNCHANGED <<proposals, memories, clock, acted>>
       PROVE  TypeOK'
  <2>1. job' \in [Worker -> Job \cup {Idle}] /\ \A v \in Worker \ {w} : job'[v] = job[v]
    BY <1>10, Advanced
  <2>2. job'[w].mem = 0 /\ job'[w].late \in {job[w].late, 0}
    BY <1>10, Advanced DEF Idle
  <2>3. \A v \in Worker : {job'[v].late, job'[v].mem} \subseteq 0 .. Len(memories')
    BY <1>1, <1>3, <1>10, <2>1, <2>2
  <2> QED
    BY <1>1, <1>2, <1>10, <2>1, <2>3, TypeFrom DEF Existing
<1>11. ASSUME NEW w \in Worker, LogAction(w) PROVE TypeOK'
  <2>1. Busy(w) /\ job[w].decision \in Decision
    BY <1>11, BusyType DEF LogAction
  <2>2. Subject(w) \in Proposal
    BY <2>1, SubjectExists DEF Existing
  <2>3. audit' \in [Proposal -> SUBSET Decision]
    BY <1>1, <1>11, <2>1, <2>2 DEF LogAction
  <2> QED
    BY <1>1, <1>10, <1>11, <2>1, <2>3 DEF LogAction
<1>12. ASSUME NEW w \in Worker, Fail(w) PROVE TypeOK'
  BY <1>1, <1>10, <1>12 DEF Fail
<1>13. ASSUME NEW w \in Worker, Die(w) PROVE TypeOK'
  <2>1. /\ UNCHANGED <<proposals, memories, audit, clock, acted>> /\ faults' \in Nat
        /\ job' = [job EXCEPT ![w] = Idle]
    BY <1>1, <1>13 DEF Die
  <2>2. job' \in [Worker -> Job \cup {Idle}] /\ job'[w] = Idle
        /\ \A v \in Worker \ {w} : job'[v] = job[v]
    BY <1>1, <2>1
  <2>3. Idle.late = 0 /\ Idle.mem = 0
    BY DEF Idle
  <2>4. \A v \in Worker : {job'[v].late, job'[v].mem} \subseteq 0 .. Len(memories')
    BY <1>1, <1>3, <2>1, <2>2, <2>3
  <2> QED
    BY <1>1, <1>2, <2>1, <2>2, <2>4, TypeFrom DEF Existing
<1>14. CASE Tick
  BY <1>1, <1>2, <1>3, <1>14, TypeFrom DEF Tick, Existing
<1> QED
  BY <1>4, <1>5, <1>6, <1>7, <1>8, <1>9, <1>11, <1>12, <1>13, <1>14 DEF Next, Work

-----------------------------------------------------------------------------
(* What no step takes back                                                  *)

\* Proposals and memories are never deleted, what a memory is of and the end
\* of a window never change, and time goes forward.
LEMMA Grown ==
    ASSUME TypeOK, Rooted, Handlers, Next
    PROVE  /\ Existing \subseteq Existing'
           /\ \A p \in Existing : proposals'[p].expires_at = proposals[p].expires_at
           /\ Len(memories) \in Nat /\ Len(memories') \in Nat
           /\ Len(memories) <= Len(memories')
           /\ \A i \in 1 .. Len(memories) :
                 /\ memories'[i].proposal = memories[i].proposal
                 /\ memories'[i].review_status = memories[i].review_status
           /\ clock \in Nat /\ clock' \in Nat /\ clock <= clock'
<1>1. Len(memories) \in Nat /\ Len(memories') \in Nat
  BY TypeStep DEF TypeOK
<1>2. clock \in Nat /\ clock' \in Nat /\ clock <= clock'
  <2>1. clock \in Nat
    BY DEF TypeOK
  <2>2. clock' = clock \/ clock' = clock + 1
    BY DEF Next, CreateProposal, TakeAction, ProcessTimeouts, Work, WriteMemory,
           Invalidate, UpdateProposal, LogAction, Fail, Die, Tick
  <2> QED
    BY <2>1, <2>2
<1>3. /\ Existing \subseteq Existing'
      /\ \A p \in Existing : proposals'[p].expires_at = proposals[p].expires_at
  <2>1. CASE UNCHANGED proposals
    BY <2>1 DEF Existing
  <2>2. ASSUME NEW p \in Proposal, CreateProposal(p) PROVE <1>3
    BY <2>2, Created DEF Existing
  <2>3. ASSUME NEW w \in Worker, UpdateProposal(w) PROVE <1>3
    <3>1. /\ Subject(w) \in Existing /\ proposals'[Subject(w)] # NoProposal
          /\ proposals'[Subject(w)].expires_at = proposals[Subject(w)].expires_at
          /\ \A q \in Proposal \ {Subject(w)} : proposals'[q] = proposals[q]
      BY <2>3, Updated
    <3> QED
      BY <3>1 DEF Existing
  <2> QED
    BY <2>1, <2>2, <2>3
    DEF Next, TakeAction, ProcessTimeouts, Work, WriteMemory, Invalidate, LogAction,
        Fail, Die, Tick
<1>4. /\ Len(memories) <= Len(memories')
      /\ \A i \in 1 .. Len(memories) :
            /\ memories'[i].proposal = memories[i].proposal
            /\ memories'[i].review_status = memories[i].review_status
  <2>1. CASE UNCHANGED memories
    BY <1>1, <2>1
  <2>2. ASSUME NEW w \in Worker, WriteMemory(w) PROVE <1>4
    <3>1. /\ Len(memories') = Len(memories) + 1
          /\ \A i \in 1 .. Len(memories) : memories'[i] = memories[i]
      BY <2>2, Wrote
    <3> QED
      BY <1>1, <3>1
  <2>3. ASSUME NEW w \in Worker, Invalidate(w) PROVE <1>4
    BY <1>1, <2>3, Invalidated
  <2> QED
    BY <2>1, <2>2, <2>3
    DEF Next, CreateProposal, TakeAction, ProcessTimeouts, Work, UpdateProposal, LogAction,
        Fail, Die, Tick
<1> QED
  BY <1>1, <1>2, <1>3, <1>4

LEMMA RootedStep ==
    ASSUME TypeOK, Rooted, Handlers, Next PROVE Rooted'
<1>1. IsFiniteSet(Existing')
  <2>1. CASE UNCHANGED proposals
    BY <2>1 DEF Rooted, Existing
  <2>2. ASSUME NEW p \in Proposal, CreateProposal(p) PROVE IsFiniteSet(Existing')
    BY <2>2, Created, FS_AddElement DEF Rooted
  <2>3. ASSUME NEW w \in Worker, UpdateProposal(w) PROVE IsFiniteSet(Existing')
    <3>1. /\ Subject(w) \in Existing /\ proposals'[Subject(w)] # NoProposal
          /\ \A q \in Proposal \ {Subject(w)} : proposals'[q] = proposals[q]
      BY <2>3, Updated
    <3>2. Existing' = Existing
      BY <3>1 DEF Existing
    <3> QED
      BY <3>2 DEF Rooted
  <2> QED
    BY <2>1, <2>2, <2>3
    DEF Next, TakeAction, ProcessTimeouts, Work, WriteMemory, Invalidate, LogAction,
        Fail, Die, Tick
<1>2. \A i \in 1 .. Len(memories') : memories'[i].proposal \in Existing'
  <2>1. CASE UNCHANGED memories
    BY <2>1, Grown DEF Rooted
  <2>2. ASSUME NEW w \in Worker, WriteMemory(w) PROVE <1>2
    <3>1. /\ Len(memories') = Len(memories) + 1 /\ Busy(w) /\ Len(memories) \in Nat
          /\ memories'[Len(memories) + 1].proposal = Subject(w)
          /\ \A i \in 1 .. Len(memories) : memories'[i] = memories[i]
      BY <2>2, Wrote, Grown
    <3>2. Subject(w) \in Existing'
      BY <3>1, SubjectExists, Grown
    <3>3. \A i \in 1 .. Len(memories) : memories[i].proposal \in Existing'
      BY Grown DEF Rooted
    <3>4. \A i \in 1 .. Len(memories') : i \in 1 .. Len(memories) \/ i = Len(memories) + 1
      BY <3>1
    <3> QED
      BY <3>1, <3>2, <3>3, <3>4
  <2>3. ASSUME NEW w \in Worker, Invalidate(w) PROVE <1>2
    <3>1. Len(memories') = Len(memories)
      BY <2>3, Invalidated
    <3> QED
      BY <3>1, Grown DEF Rooted
  <2> QED
    BY <2>1, <2>2, <2>3
    DEF Next, CreateProposal, TakeAction, ProcessTimeouts, Work, UpdateProposal, LogAction,
        Fail, Die, Tick
<1> QED
  BY <1>1, <1>2 DEF Rooted

-----------------------------------------------------------------------------
(* Handlers                                                                 *)

Handler(w) == Busy(w) => Reads(w) /\ Supersedes(w) /\ Written(w)

\* A handler that does nothing is not disturbed by the others' steps.
LEMMA Waiting ==
    ASSUME TypeOK, Rooted, Handlers, Next, NEW w \in Worker, job'[w] = job[w]
    PROVE  Handler(w)'
<1> SUFFICES ASSUME Busy(w) PROVE Reads(w)' /\ Supersedes(w)' /\ Written(w)'
  BY DEF Handler, Busy
<1>1. Reads(w) /\ Supersedes(w) /\ Written(w)
  BY DEF Handlers
<1>2. Subject(w)' = Subject(w) /\ Reviewed(w)' = Reviewed(w)
  BY DEF Subject, Reviewed
<1>3. Reads(w)'
  <2>1. ASSUME NEW i \in 1 .. Len(job[w].todo)
        PROVE  /\ job[w].todo[i] \in Existing'
               /\ job[w].decision = "timeout_accept" =>
                     proposals'[job[w].todo[i]].expires_at <= clock'
    <3>1. /\ job[w].todo[i] \in Existing
          /\ job[w].decision = "timeout_accept" =>
                proposals[job[w].todo[i]].expires_at <= clock
      BY <1>1 DEF Reads
    <3>2. proposals[job[w].todo[i]].expires_at \in Nat
      BY <3>1, RowType
    <3> QED
      BY <3>1, <3>2, Grown
  <2> QED
    BY <1>1, <2>1 DEF Reads
<1>4. job[w].late # 0 => job[w].late \in 1 .. Len(memories)
  BY Grown, BusyType
<1>5. job[w].mem # 0 => job[w].mem \in 1 .. Len(memories)
  BY Grown, BusyType
<1>6. Supersedes(w)'
  BY <1>1, <1>2, <1>4, Grown DEF Supersedes
<1>7. Written(w)'
  BY <1>1, <1>2, <1>5, Grown DEF Written
<1> QED
  BY <1>3, <1>6, <1>7

\* The rows that are left after the first.
LEMMA RestOf ==
    ASSUME NEW s \in Seq(Proposal), 1 < Len(s)
    PROVE  /\ Tail(s) # <<>> /\ Len(Tail(s)) = Len(s) - 1
           /\ \A i \in 1 .. Len(Tail(s)) : i + 1 \in 1 .. Len(s) /\ Tail(s)[i] = s[i + 1]
           /\ \A i \in 1 .. Len(s) : i # 1 =>
                 i - 1 \in 1 .. Len(Tail(s)) /\ Tail(s)[i - 1] = s[i]
<1>1. Len(s) \in Nat /\ s # <<>>
  OBVIOUS
<1>2. /\ Len(Tail(s)) = Len(s) - 1
      /\ \A i \in 1 .. Len(Tail(s)) : Tail(s)[i] = s[i + 1]
  BY <1>1, HeadTailProperties
<1>3. Len(<<>>) = 0
  OBVIOUS
<1> DEFINE n == Len(s)
           m == Len(Tail(s))
<1>4. n \in Nat /\ 1 < n /\ m = n - 1
  BY <1>1, <1>2
<1>5. Tail(s) # <<>>
  <2>1. m # 0
    <3> HIDE DEF n, m
    <3> QED BY <1>4
  <2> QED
    BY <1>3, <2>1
<1>6. /\ \A i \in 1 .. m : i + 1 \in 1 .. n
      /\ \A i \in 1 .. n : i # 1 => i - 1 \in 1 .. m /\ (i - 1) + 1 = i
  <2> HIDE DEF n, m
  <2> QED BY <1>4
<1>7. \A i \in 1 .. n : i # 1 => Tail(s)[i - 1] = s[i]
  <2> SUFFICES ASSUME NEW i \in 1 .. n, i # 1 PROVE Tail(s)[i - 1] = s[i]
    OBVIOUS
  <2>1. i - 1 \in 1 .. m /\ (i - 1) + 1 = i
    BY <1>6
  <2>2. Tail(s)[i - 1] = s[(i - 1) + 1]
    BY <1>2, <2>1, Zenon
  <2> QED
    BY <2>1, <2>2, Zenon
<1> QED
  BY <1>2, <1>5, <1>6, <1>7, Zenon

LEMMA HandlersStep ==
    ASSUME TypeOK, Rooted, Handlers, AcceptedHasMemory, Next PROVE Handlers'
<1> SUFFICES ASSUME NEW v \in Worker PROVE Handler(v)'
  BY DEF Handlers, Handler
<1>1. CASE job'[v] = job[v]
  BY <1>1, Waiting
<1>2. CASE job'[v] = Idle
  BY <1>2 DEF Handler, Busy
<1>3. ASSUME NEW d \in Decision \ {"timeout_accept"}, NEW p \in Proposal, TakeAction(v, d, p)
      PROVE  Handler(v)'
  <2>1. /\ p \in Existing /\ Allowed(d, proposals[p].status)
        /\ job'[v].decision = d /\ job'[v].todo = <<p>>
        /\ job'[v].phase = FirstPhase(d) /\ job'[v].mem = 0
        /\ job'[v].late = IF d = "edit" /\ proposals[p].status \in Accepted
                          THEN proposals[p].memory_id ELSE 0
    BY <1>3, Taken
  <2>2. Subject(v)' = p /\ Len(job'[v].todo) = 1 /\ job'[v].todo # <<>>
        /\ \A i \in 1 .. Len(job'[v].todo) : i = 1 /\ job'[v].todo[i] = p
    BY <2>1 DEF Subject
  <2>3. UNCHANGED <<proposals, memories>>
    BY <1>3 DEF TakeAction
  <2>4. Reads(v)'
    BY <2>1, <2>2, <2>3 DEF Reads, Existing
  <2>5. job'[v].phase # "invalidate"
    BY <2>1 DEF FirstPhase
  <2>6. job'[v].late # 0 =>
           /\ d = "edit" /\ proposals[p].status \in Accepted
           /\ job'[v].late = proposals[p].memory_id
    BY <2>1
  <2>7. Supersedes(v)'
    BY <2>1, <2>2, <2>3, <2>5, <2>6 DEF Supersedes, AcceptedHasMemory
  <2>8. Written(v)'
    BY <2>1, <2>5 DEF Written, FirstPhase
  <2> QED
    BY <2>4, <2>7, <2>8 DEF Handler
<1>4. CASE ProcessTimeouts(v)
  <2>1. /\ job'[v].decision = "timeout_accept" /\ job'[v].phase = "write"
        /\ job'[v].late = 0 /\ job'[v].todo # <<>>
        /\ \A i \in 1 .. Len(job'[v].todo) :
              job'[v].todo[i] \in Existing /\ Expired(job'[v].todo[i])
        /\ \A i, j \in 1 .. Len(job'[v].todo) : job'[v].todo[i] = job'[v].todo[j] => i = j
    BY <1>4, Swept
  <2>2. UNCHANGED <<proposals, memories, clock>> /\ Existing' = Existing
    BY <1>4 DEF ProcessTimeouts, Existing
  <2>3. Reads(v)'
    BY <2>1, <2>2 DEF Reads, Expired
  <2> QED
    BY <2>1, <2>3 DEF Handler, Supersedes, Written
<1>5. ASSUME Busy(v), job'[v].decision = job[v].decision, job'[v].todo = job[v].todo,
             UNCHANGED clock
      PROVE  Reads(v)' /\ Subject(v)' = Subject(v) /\ Reviewed(v)' = Reviewed(v)
  <2>1. Reads(v)
    BY <1>5 DEF Handlers
  <2>2. \A i \in 1 .. Len(job[v].todo) : job[v].todo[i] \in Existing
    BY <2>1 DEF Reads
  <2>3. \A i \in 1 .. Len(job[v].todo) :
           /\ job[v].todo[i] \in Existing'
           /\ proposals'[job[v].todo[i]].expires_at = proposals[job[v].todo[i]].expires_at
    BY <2>2, Grown
  <2>4. Reads(v)'
    BY <1>5, <2>1, <2>3 DEF Reads
  <2> QED
    BY <1>5, <2>4 DEF Subject, Reviewed
<1>6. CASE WriteMemory(v)
  <2> DEFINE n == Len(memories) + 1
  <2>1. /\ Busy(v) /\ n \in Nat /\ n # 0 /\ Len(memories') = n
        /\ \A i \in 1 .. Len(memories) : memories'[i] = memories[i]
        /\ memories'[n].proposal = Subject(v) /\ memories'[n].review_status = Reviewed(v)
    BY <1>6, Wrote, Grown
  <2>2. /\ job'[v].decision = job[v].decision /\ job'[v].todo = job[v].todo
        /\ job'[v].late = job[v].late /\ job'[v].mem = n
        /\ job'[v].phase = IF job[v].late # 0 THEN "invalidate" ELSE "update"
    BY <1>6, Wrote
  <2>3. Reads(v)' /\ Subject(v)' = Subject(v) /\ Reviewed(v)' = Reviewed(v)
    BY <1>5, <1>6, <2>1, <2>2 DEF WriteMemory
  <2>4. Supersedes(v) /\ Written(v) /\ job[v].phase = "write"
    BY <1>6, <2>1 DEF Handlers, WriteMemory
  <2>5. job[v].late # 0 => job[v].late \in 1 .. Len(memories)
    BY <2>1, BusyType, Grown
  <2> HIDE DEF n
  <2>6. Supersedes(v)'
    BY <2>1, <2>2, <2>3, <2>4, <2>5 DEF Supersedes
  <2>7. Written(v)'
    BY <2>1, <2>2, <2>3, <2>4 DEF Written
  <2> QED
    BY <2>3, <2>6, <2>7 DEF Handler
<1>7. CASE Invalidate(v)
  <2>1. /\ Busy(v) /\ job[v].late \in 1 .. Len(memories)
        /\ job'[v].decision = job[v].decision /\ job'[v].todo = job[v].todo
        /\ job'[v].late = job[v].late /\ job'[v].mem = job[v].mem
        /\ job'[v].phase = "update"
    BY <1>7, Invalidated
  <2>2. Reads(v)' /\ Subject(v)' = Subject(v) /\ Reviewed(v)' = Reviewed(v)
    BY <1>5, <1>7, <2>1 DEF Invalidate
  <2>3. Supersedes(v) /\ Written(v) /\ job[v].phase = "invalidate"
    BY <1>7, <2>1 DEF Handlers, Invalidate
  <2>4. job[v].decision # "deny" => job[v].mem \in 1 .. Len(memories)
    BY <2>1, <2>3, BusyType, Grown DEF Written
  <2>5. Supersedes(v)'
    BY <2>1, <2>2, <2>3, Grown DEF Supersedes
  <2>6. Written(v)'
    BY <2>1, <2>2, <2>3, <2>4, Grown DEF Written
  <2> QED
    BY <2>2, <2>5, <2>6 DEF Handler
<1>8. CASE UpdateProposal(v)
  <2>1. /\ Busy(v) /\ UNCHANGED memories
        /\ job'[v].decision = job[v].decision /\ job'[v].todo = job[v].todo
        /\ job'[v].late = job[v].late /\ job'[v].phase = "log"
    BY <1>8, Updated DEF UpdateProposal
  <2>2. Reads(v)' /\ Subject(v)' = Subject(v)
    BY <1>5, <1>8, <2>1 DEF UpdateProposal
  <2>3. Supersedes(v) /\ Written(v)
    BY <2>1 DEF Handlers
  <2> QED
    BY <2>1, <2>2, <2>3 DEF Handler, Supersedes, Written
<1>9. ASSUME Busy(v), NextRow(v), UNCHANGED <<proposals, memories, clock>>
      PROVE  Handler(v)'
  <2>1. CASE job'[v] = Idle
    BY <1>2, <2>1
  <2>2. CASE job'[v] # Idle
    <3>1. /\ job[v].decision = "timeout_accept" /\ job'[v].decision = job[v].decision
          /\ job'[v].todo = Tail(job[v].todo) /\ 1 < Len(job[v].todo)
          /\ job'[v].late = job[v].late /\ job'[v].phase = "write"
      BY <1>9, <2>2, Advanced
    <3>2. job[v].todo \in Seq(Proposal) /\ Reads(v) /\ Supersedes(v)
      BY <1>9, BusyType DEF Handlers
    <3>3. /\ Len(job'[v].todo) = Len(job[v].todo) - 1 /\ job'[v].todo # <<>>
          /\ \A i \in 1 .. Len(job'[v].todo) :
                i + 1 \in 1 .. Len(job[v].todo) /\ job'[v].todo[i] = job[v].todo[i + 1]
      BY <3>1, <3>2, RestOf
    <3>4. \A i \in 1 .. Len(job'[v].todo) :
             job'[v].todo[i] \in Existing /\ proposals[job'[v].todo[i]].expires_at <= clock
      BY <3>1, <3>2, <3>3 DEF Reads
    <3>5. \A i, j \in 1 .. Len(job'[v].todo) : job'[v].todo[i] = job'[v].todo[j] => i = j
      BY <3>2, <3>3 DEF Reads
    <3>6. Reads(v)'
      BY <1>9, <3>1, <3>3, <3>4, <3>5 DEF Reads, Existing
    <3>7. job'[v].late = 0
      BY <3>1, <3>2 DEF Supersedes
    <3> QED
      BY <3>1, <3>6, <3>7 DEF Handler, Supersedes, Written
  <2> QED
    BY <2>1, <2>2
<1>10. CASE LogAction(v)
  BY <1>9, <1>10, BusyType DEF LogAction
<1>11. CASE Fail(v)
  BY <1>9, <1>11 DEF Fail
<1>12. CASE Die(v)
  BY <1>2, <1>12 DEF Die, TypeOK
<1>13. \/ job'[v] = job[v]
       \/ \E d \in Decision \ {"timeout_accept"}, p \in Proposal : TakeAction(v, d, p)
       \/ ProcessTimeouts(v) \/ WriteMemory(v) \/ Invalidate(v) \/ UpdateProposal(v)
       \/ LogAction(v) \/ Fail(v) \/ Die(v)
  <2>1. \A w \in Worker : w # v =>
           /\ \A d \in Decision \ {"timeout_accept"}, p \in Proposal :
                 TakeAction(w, d, p) => job'[v] = job[v]
           /\ ProcessTimeouts(w) => job'[v] = job[v]
           /\ Work(w) \/ Fail(w) => job'[v] = job[v]
           /\ Die(w) => job'[v] = job[v]
    <3> SUFFICES ASSUME NEW w \in Worker, w # v
                 PROVE  /\ \A d \in Decision \ {"timeout_accept"}, p \in Proposal :
                              TakeAction(w, d, p) => job'[v] = job[v]
                        /\ ProcessTimeouts(w) => job'[v] = job[v]
                        /\ Work(w) \/ Fail(w) => job'[v] = job[v]
                        /\ Die(w) => job'[v] = job[v]
      OBVIOUS
    <3>1. \A d \in Decision \ {"timeout_accept"}, p \in Proposal :
             TakeAction(w, d, p) => job'[v] = job[v]
      BY Taken
    <3>2. ProcessTimeouts(w) => job'[v] = job[v]
      BY Swept
    <3>3. /\ WriteMemory(w) => job'[v] = job[v]
          /\ Invalidate(w) => job'[v] = job[v]
          /\ UpdateProposal(w) => job'[v] = job[v]
      BY Wrote, Invalidated, Updated
    <3>4. LogAction(w) => job'[v] = job[v]
      BY Advanced, BusyType DEF LogAction
    <3>5. Fail(w) => job'[v] = job[v]
      BY Advanced DEF Fail
    <3>6. Die(w) => job'[v] = job[v]
      BY DEF Die, TypeOK
    <3> QED
      BY <3>1, <3>2, <3>3, <3>4, <3>5, <3>6 DEF Work
  <2>2. \A p \in Proposal : CreateProposal(p) => job'[v] = job[v]
    BY DEF CreateProposal
  <2>3. Tick => job'[v] = job[v]
    BY DEF Tick
  <2> QED
    BY <2>1, <2>2, <2>3, Zenon DEF Next, Work
<1> QED
  BY <1>1, <1>3, <1>4, <1>6, <1>7, <1>8, <1>10, <1>11, <1>12, <1>13

-----------------------------------------------------------------------------
(* Accepted proposals and the review window                                 *)

LEMMA AcceptedStep ==
    ASSUME TypeOK, Rooted, Handlers, AcceptedHasMemory, Next PROVE AcceptedHasMemory'
<1> SUFFICES ASSUME NEW p \in Existing', proposals'[p].status \in Accepted
             PROVE  /\ proposals'[p].memory_id # 0
                    /\ memories'[proposals'[p].memory_id].proposal = p
                    /\ memories'[proposals'[p].memory_id].review_status = proposals'[p].status
  BY DEF AcceptedHasMemory
<1>1. p \in Proposal
  BY DEF Existing
<1>2. CASE p \in Existing /\ proposals'[p] = proposals[p]
  <2>1. proposals[p].memory_id \in 1 .. Len(memories)
    BY <1>2, RowType, Grown DEF AcceptedHasMemory
  <2> QED
    BY <1>2, <2>1, Grown DEF AcceptedHasMemory
<1>3. ASSUME NEW w \in Worker, UpdateProposal(w), p = Subject(w)
      PROVE  /\ proposals'[p].memory_id # 0
             /\ memories'[proposals'[p].memory_id].proposal = p
             /\ memories'[proposals'[p].memory_id].review_status = proposals'[p].status
  <2>1. /\ Busy(w) /\ proposals'[p].status = NewStatus(w) /\ job[w].phase = "update"
        /\ UNCHANGED memories
    BY <1>3, Updated DEF UpdateProposal
  <2>2. proposals'[p].memory_id = job[w].mem
    BY <1>3, <2>1, Updated
  <2>3. /\ job[w].decision = "deny" => NewStatus(w) = "rejected"
        /\ job[w].late # 0 => NewStatus(w) = "superseded"
        /\ job[w].late = 0 /\ job[w].decision # "deny" => NewStatus(w) = Reviewed(w)
    BY <2>1, NewStatusType
  <2>4. job[w].decision # "deny" /\ NewStatus(w) = Reviewed(w)
    BY <2>1, <2>3 DEF Accepted
  <2>5. Written(w)
    BY <2>1 DEF Handlers
  <2> QED
    BY <1>3, <2>1, <2>2, <2>4, <2>5 DEF Written
<1>4. ASSUME NEW w \in Worker, UpdateProposal(w), p # Subject(w)
      PROVE  p \in Existing /\ proposals'[p] = proposals[p]
  <2>1. proposals'[p] = proposals[p]
    BY <1>1, <1>4, Updated
  <2> QED
    BY <1>1, <2>1 DEF Existing
<1>5. ASSUME NEW q \in Proposal, CreateProposal(q)
      PROVE  p \in Existing /\ proposals'[p] = proposals[p]
  <2>1. p # q
    BY <1>5, Created DEF Accepted
  <2> QED
    BY <1>1, <1>5, <2>1, Created
<1>6. CASE UNCHANGED proposals
  BY <1>2, <1>6 DEF Existing
<1> QED
  BY <1>2, <1>3, <1>4, <1>5, <1>6
  DEF Next, TakeAction, ProcessTimeouts, Work, WriteMemory, Invalidate, LogAction,
      Fail, Die, Tick

LEMMA WindowStep ==
    ASSUME TypeOK, Rooted, Handlers, WindowRespected, Next PROVE WindowRespected'
<1> SUFFICES ASSUME NEW i \in 1 .. Len(memories'),
                    memories'[i].review_status = "accepted_by_timeout"
             PROVE  proposals'[memories'[i].proposal].expires_at <= clock'
  BY DEF WindowRespected
<1>1. ASSUME NEW p \in Existing, proposals[p].expires_at <= clock
      PROVE  proposals'[p].expires_at <= clock'
  <2>1. proposals[p].expires_at \in Nat
    BY RowType
  <2> QED
    BY <1>1, <2>1, Grown
<1>2. CASE i \in 1 .. Len(memories)
  <2>1. /\ memories'[i].proposal = memories[i].proposal
        /\ memories[i].review_status = "accepted_by_timeout"
    BY <1>2, Grown
  <2>2. memories[i].proposal \in Existing /\ proposals[memories[i].proposal].expires_at <= clock
    BY <1>2, <2>1 DEF Rooted, WindowRespected
  <2> QED
    BY <1>1, <2>1, <2>2
<1>3. ASSUME NEW w \in Worker, WriteMemory(w), i \notin 1 .. Len(memories)
      PROVE  proposals'[memories'[i].proposal].expires_at <= clock'
  <2>1. Busy(w) /\ Len(memories') = Len(memories) + 1 /\ Len(memories) \in Nat
    BY <1>3, Wrote, Grown
  <2>2. i = Len(memories) + 1
    BY <1>3, <2>1
  <2>3. memories'[i].proposal = Subject(w) /\ memories'[i].review_status = Reviewed(w)
    BY <1>3, <2>2, Wrote
  <2>4. job[w].decision = "timeout_accept"
    BY <2>3 DEF Reviewed
  <2>5. /\ Subject(w) \in Existing /\ Subject(w) = job[w].todo[1]
        /\ 1 \in 1 .. Len(job[w].todo)
    BY <2>1, SubjectExists
  <2>6. proposals[Subject(w)].expires_at <= clock
    BY <2>1, <2>4, <2>5 DEF Handlers, Reads
  <2> QED
    BY <1>1, <2>3, <2>5, <2>6
<1>4. ASSUME NEW w \in Worker, Invalidate(w) PROVE i \in 1 .. Len(memories)
  BY <1>4, Invalidated
<1>5. CASE UNCHANGED memories
  BY <1>2, <1>5
<1> QED
  BY <1>2, <1>3, <1>4, <1>5
  DEF Next, CreateProposal, TakeAction, ProcessTimeouts, Work, UpdateProposal, LogAction,
      Fail, Die, Tick

-----------------------------------------------------------------------------
(* Proposals nobody disturbed                                               *)

\* The tables of a proposal are settled as before where its rows and its
\* valid memories are what they were.
SameTables(p) ==
    /\ proposals'[p] = proposals[p] /\ audit'[p] = audit[p]
    /\ LiveMemories(p)' = LiveMemories(p)

LEMMA SettledKept ==
    ASSUME NEW p, SameTables(p)
    PROVE  /\ TablesAgree(p)' <=> TablesAgree(p)
           /\ Recorded(p)' <=> Recorded(p)
           /\ Settled(p)' <=> Settled(p)
<1>1. TablesAgree(p)' <=> TablesAgree(p)
  BY DEF SameTables, TablesAgree, Accepted
<1>2. Recorded(p)' <=> Recorded(p)
  BY DEF SameTables, Recorded
<1> QED
  BY <1>1, <1>2 DEF Settled

\* What a handler v that is not at p may do without disturbing p: nothing; or
\* what does not concern p; or leave p, which it has not come to, for later,
\* come to it, or give it up.
Aside(v, p) ==
    \/ job'[v] = job[v]
    \/ ~About(v, p) /\ ~About(v, p)'
    \/ /\ About(v, p) /\ Subject(v) # p
       /\ \/ Subject(v)' # p
          \/ job'[v].phase = "write" /\ job'[v].late = 0
          \/ ~About(v, p)'

LEMMA Apart ==
    ASSUME NEW p \in Existing, UndisturbedAt(p), SameTables(p), clean'[p] => clean[p],
           \A v \in Worker : Aside(v, p)
    PROVE  UndisturbedAt(p)'
<1> SUFFICES ASSUME clean'[p]
             PROVE  /\ \A v, w \in Worker : About(v, p)' /\ About(w, p)' => v = w
                    /\ Quiet(p)' => Settled(p)'
                    /\ \A w \in Worker : About(w, p)' => Share(w, p)'
  BY DEF UndisturbedAt
<1>1. /\ \A v, w \in Worker : About(v, p) /\ About(w, p) => v = w
      /\ Quiet(p) => Settled(p)
      /\ \A w \in Worker : About(w, p) => Share(w, p)
  BY DEF UndisturbedAt
<1>2. ASSUME NEW v \in Worker, About(v, p)' PROVE About(v, p)
  <2>1. job'[v] = job[v] => (About(v, p)' <=> About(v, p))
    BY DEF About
  <2> QED
    BY <1>2, <2>1 DEF Aside
<1>3. /\ TablesAgree(p)' <=> TablesAgree(p)
      /\ Recorded(p)' <=> Recorded(p)
      /\ Settled(p)' <=> Settled(p)
  BY SettledKept
<1>4. Quiet(p)' => Settled(p)'
  <2>1. CASE Quiet(p)
    BY <1>1, <1>3, <2>1
  <2>2. ASSUME NEW v \in Worker, About(v, p), ~About(v, p)' PROVE Settled(p)'
    <3>1. job'[v] # job[v]
      BY <2>2 DEF About
    <3>2. Subject(v) # p
      BY <2>2, <3>1 DEF Aside
    <3> QED
      BY <1>1, <1>3, <2>2, <3>2 DEF Share
  <2> QED
    BY <2>1, <2>2 DEF Quiet
<1>5. ASSUME NEW w \in Worker, About(w, p)' PROVE Share(w, p)'
  <2>1. Share(w, p)
    BY <1>1, <1>2, <1>5
  <2>2. CASE job'[w] = job[w]
    <3>1. Subject(w)' = Subject(w)
      BY <2>2 DEF Subject
    <3>2. CASE Subject(w) = p
      <4>1. Progress(w)
        BY <2>1, <3>2 DEF Share
      <4>2. Progress(w)'
        BY <1>3, <2>2, <3>1, <3>2, <4>1 DEF Progress, SameTables, Accepted
      <4> QED
        BY <3>1, <3>2, <4>2 DEF Share
    <3>3. CASE Subject(w) # p
      BY <1>3, <2>1, <3>1, <3>3 DEF Share, SameTables
    <3> QED
      BY <3>2, <3>3
  <2>3. CASE job'[w] # job[w]
    <3>1. Subject(w) # p /\ (Subject(w)' # p \/ (job'[w].phase = "write" /\ job'[w].late = 0))
      BY <1>2, <1>5, <2>3 DEF Aside
    <3>2. Settled(p)' /\ proposals'[p].status = "pending"
      BY <1>3, <2>1, <3>1 DEF Share, SameTables
    <3>3. CASE Subject(w)' # p
      BY <3>2, <3>3 DEF Share
    <3>4. CASE Subject(w)' = p
      <4>1. Progress(w)'
        BY <3>1, <3>2, <3>4 DEF Progress
      <4> QED
        BY <3>4, <4>1 DEF Share
    <3> QED
      BY <3>3, <3>4
  <2> QED
    BY <2>2, <2>3
<1> QED
  BY <1>1, <1>2, <1>4, <1>5

\* A handler's own step on the proposal it is at.
LEMMA Own ==
    ASSUME NEW w \in Worker, NEW p \in Existing, p = Subject(w), About(w, p),
           UndisturbedAt(p), clean'[p] => clean[p],
           \A v \in Worker \ {w} : job'[v] = job[v], job'[w].todo = job[w].todo,
           clean[p] /\ Progress(w) => Progress(w)'
    PROVE  UndisturbedAt(p)'
<1> SUFFICES ASSUME clean'[p]
             PROVE  /\ \A v, u \in Worker : About(v, p)' /\ About(u, p)' => v = u
                    /\ Quiet(p)' => Settled(p)'
                    /\ \A v \in Worker : About(v, p)' => Share(v, p)'
  BY DEF UndisturbedAt
<1>1. /\ \A v, u \in Worker : About(v, p) /\ About(u, p) => v = u
      /\ Share(w, p)
  BY DEF UndisturbedAt
<1>2. \A v \in Worker : About(v, p)' <=> About(v, p)
  BY DEF About
<1>3. Subject(w)' = p
  BY DEF Subject
<1>4. Progress(w)'
  BY <1>1 DEF Share
<1>5. Share(w, p)'
  BY <1>3, <1>4 DEF Share
<1>6. ~Quiet(p)'
  BY <1>2 DEF Quiet
<1> QED
  BY <1>1, <1>2, <1>5, <1>6

\* The valid memories of a proposal, after an INSERT and after the UPDATE of
\* the superseded one.
LEMMA LiveWrote ==
    ASSUME TypeOK, Handlers, NEW w \in Worker, WriteMemory(w), NEW p
    PROVE  LiveMemories(p)' = IF p = Subject(w) THEN LiveMemories(p) \cup {Len(memories) + 1}
                              ELSE LiveMemories(p)
<1> DEFINE n == Len(memories) + 1
<1>1. /\ Len(memories') = n /\ n \notin 1 .. Len(memories) /\ n \in Nat
      /\ \A i \in 1 .. Len(memories) : memories'[i] = memories[i]
      /\ memories'[n].proposal = Subject(w) /\ memories'[n].valid
  BY Wrote
<1>2. Len(memories) \in Nat
  BY DEF TypeOK
<1>3. 1 .. n = (1 .. Len(memories)) \cup {n}
  BY <1>2
<1> HIDE DEF n
<1>4. \A i : i \in LiveMemories(p)' <=>
               \/ i \in LiveMemories(p)
               \/ i = n /\ p = Subject(w)
  BY <1>1, <1>3 DEF LiveMemories
<1> QED
  BY <1>4 DEF n

LEMMA LiveInvalidated ==
    ASSUME TypeOK, Handlers, NEW w \in Worker, Invalidate(w), NEW p
    PROVE  LiveMemories(p)' = IF p = Subject(w) THEN LiveMemories(p) \ {job[w].late}
                              ELSE LiveMemories(p)
<1>1. /\ Busy(w) /\ job[w].late \in 1 .. Len(memories) /\ Len(memories') = Len(memories)
      /\ \A i \in 1 .. Len(memories) :
            /\ memories'[i].proposal = memories[i].proposal
            /\ memories'[i].valid <=> memories[i].valid /\ i # job[w].late
  BY Invalidated
<1>2. Len(memories) \in Nat
  BY DEF TypeOK
<1>3. job[w].late # 0
  BY <1>1, <1>2
<1>4. memories[job[w].late].proposal = Subject(w)
  BY <1>1, <1>3 DEF Handlers, Supersedes
<1>5. \A i : i \in LiveMemories(p)' <=> i \in LiveMemories(p) /\ i # job[w].late
  BY <1>1 DEF LiveMemories
<1>6. p # Subject(w) => job[w].late \notin LiveMemories(p)
  BY <1>4 DEF LiveMemories
<1> QED
  BY <1>5, <1>6

\* The rows a handler is left with are the ones it was about, but for the one
\* it is through with.
LEMMA LeftOver ==
    ASSUME TypeOK, Handlers, NEW w \in Worker, Busy(w), NextRow(w), NEW p
    PROVE  /\ About(w, p)' <=> About(w, p) /\ p # Subject(w)
           /\ About(w, p)' => job'[w].phase = "write" /\ job'[w].late = 0
<1>1. /\ job[w].todo \in Seq(Proposal) /\ Subject(w) = job[w].todo[1]
      /\ 1 \in 1 .. Len(job[w].todo)
      /\ \A i, j \in 1 .. Len(job[w].todo) : job[w].todo[i] = job[w].todo[j] => i = j
      /\ job[w].late # 0 => job[w].decision = "edit"
  BY BusyType, SubjectExists DEF Handlers, Reads, Supersedes
<1>2. CASE job'[w] = Idle /\ Len(job[w].todo) = 1
  <2>1. Len(job'[w].todo) = 0
    BY <1>2 DEF Idle
  <2>2. ~About(w, p)'
    BY <2>1 DEF About
  <2>3. About(w, p) => p = Subject(w)
    BY <1>1, <1>2 DEF About
  <2> QED
    BY <2>2, <2>3
<1>3. CASE /\ job[w].decision = "timeout_accept" /\ 1 < Len(job[w].todo)
           /\ job'[w].todo = Tail(job[w].todo)
           /\ job'[w].late = job[w].late /\ job'[w].phase = "write"
  <2>1. /\ \A i \in 1 .. Len(job'[w].todo) :
              i + 1 \in 1 .. Len(job[w].todo) /\ job'[w].todo[i] = job[w].todo[i + 1]
        /\ \A i \in 1 .. Len(job[w].todo) : i # 1 =>
              i - 1 \in 1 .. Len(job'[w].todo) /\ job'[w].todo[i - 1] = job[w].todo[i]
    BY <1>1, <1>3, RestOf
  <2>2. About(w, p)' => About(w, p) /\ p # Subject(w)
    <3> SUFFICES ASSUME About(w, p)' PROVE About(w, p) /\ p # Subject(w)
      OBVIOUS
    <3>1. PICK i \in 1 .. Len(job'[w].todo) : job'[w].todo[i] = p
      BY DEF About
    <3>2. i + 1 \in 1 .. Len(job[w].todo) /\ job[w].todo[i + 1] = p /\ i + 1 # 1
      BY <2>1, <3>1
    <3> QED
      BY <1>1, <3>2 DEF About
  <2>3. About(w, p) /\ p # Subject(w) => About(w, p)'
    <3> SUFFICES ASSUME About(w, p), p # Subject(w) PROVE About(w, p)'
      OBVIOUS
    <3>1. PICK i \in 1 .. Len(job[w].todo) : job[w].todo[i] = p
      BY DEF About
    <3>2. i - 1 \in 1 .. Len(job'[w].todo) /\ job'[w].todo[i - 1] = p
      BY <1>1, <2>1, <3>1
    <3> QED
      BY <3>2 DEF About
  <2>4. job'[w].late = 0
    BY <1>1, <1>3
  <2> QED
    BY <1>3, <2>2, <2>3, <2>4
<1> QED
  BY <1>2, <1>3, Advanced

\* One that begins with a proposal nobody else is at finds it settled.
LEMMA Begun ==
    ASSUME TypeOK, NEW w \in Worker, ~Busy(w), NEW p \in Existing, UndisturbedAt(p), NEW ps,
           p \in ps, Touch(w, ps), clean'[p], SameTables(p),
           \A v \in Worker \ {w} : job'[v] = job[v], About(w, p)',
           Settled(p) => Share(w, p)'
    PROVE  UndisturbedAt(p)' /\ Settled(p)
<1>1. clean[p] /\ ~Overlapping(w, p)
  BY RowType DEF Touch
<1>2. \A v \in Worker \ {w} : ~About(v, p) /\ ~About(v, p)'
  BY <1>1 DEF Overlapping, About
<1>3. ~About(w, p)
  BY DEF Busy, Idle, About
<1>4. Settled(p)
  BY <1>1, <1>2, <1>3 DEF Quiet, UndisturbedAt
<1>5. ~Quiet(p)'
  BY DEF Quiet
<1> QED
  BY <1>2, <1>4, <1>5 DEF UndisturbedAt

LEMMA UndisturbedStep ==
    ASSUME TypeOK, Rooted, Handlers, AcceptedHasMemory, Undisturbed, Next
    PROVE  Undisturbed'
<1> SUFFICES ASSUME NEW p \in Existing' PROVE UndisturbedAt(p)'
  BY DEF Undisturbed
<1>1. p \in Proposal
  BY DEF Existing
<1>2. p \in Existing => UndisturbedAt(p)
  BY DEF Undisturbed
<1>3. ASSUME NEW q \in Proposal, CreateProposal(q) PROVE UndisturbedAt(p)'
  <2>1. UNCHANGED <<memories, audit, job, clean>>
    BY <1>3 DEF CreateProposal
  <2>2. CASE p # q
    <3>1. p \in Existing /\ proposals'[p] = proposals[p]
      BY <1>1, <1>3, <2>2, Created
    <3>2. SameTables(p)
      BY <2>1, <3>1 DEF SameTables, LiveMemories
    <3>3. \A v \in Worker : Aside(v, p)
      BY <2>1 DEF Aside
    <3> QED
      BY <1>2, <2>1, <3>1, <3>2, <3>3, Apart
  <2>3. CASE p = q
    <3>1. p \notin Existing /\ proposals'[p].status = "pending"
      BY <1>3, <2>3, Created
    <3>2. \A w \in Worker : ~About(w, p)'
      <4> SUFFICES ASSUME NEW w \in Worker, About(w, p) PROVE FALSE
        BY <2>1 DEF About
      <4>1. Busy(w)
        BY DEF About, Busy, Idle
      <4> QED
        BY <3>1, <4>1 DEF About, Handlers, Reads
    <3>3. LiveMemories(p)' = {}
      BY <2>1, <3>1 DEF LiveMemories, Rooted
    <3>4. Settled(p)'
      BY <3>1, <3>3 DEF Settled, TablesAgree, Recorded, Accepted
    <3> QED
      BY <3>2, <3>4 DEF UndisturbedAt
  <2> QED
    BY <2>2, <2>3
<1>4. ASSUME NEW w \in Worker, NEW d \in Decision \ {"timeout_accept"}, NEW q \in Proposal,
             TakeAction(w, d, q)
      PROVE  UndisturbedAt(p)'
  <2>1. UNCHANGED <<proposals, memories, audit>> /\ Touch(w, {q})
    BY <1>4 DEF TakeAction
  <2>2. p \in Existing /\ SameTables(p)
    BY <2>1 DEF Existing, SameTables, LiveMemories
  <2>3. /\ ~Busy(w) /\ Allowed(d, proposals[q].status) /\ q \in Existing
        /\ job'[w].decision = d /\ job'[w].todo = <<q>> /\ job'[w].mem = 0
        /\ job'[w].phase = FirstPhase(d)
        /\ job'[w].late = IF d = "edit" /\ proposals[q].status \in Accepted
                          THEN proposals[q].memory_id ELSE 0
        /\ \A v \in Worker \ {w} : job'[v] = job[v]
    BY <1>4, Taken
  <2>4. Subject(w)' = q /\ (About(w, p)' <=> p = q)
    <3>1. Len(<<q>>) = 1 /\ <<q>>[1] = q /\ Head(<<q>>) = q
      OBVIOUS
    <3> QED
      BY <2>3, <3>1 DEF Subject, About
  <2>5. CASE p # q
    <3>1. ~About(w, p)
      BY <2>3 DEF About, Busy, Idle
    <3>2. \A v \in Worker : Aside(v, p)
      BY <2>3, <2>4, <2>5, <3>1 DEF Aside
    <3>3. clean'[p] => clean[p]
      BY <1>1, <2>1 DEF Touch
    <3> QED
      BY <1>2, <2>2, <3>2, <3>3, Apart
  <2>6. CASE p = q /\ clean'[p]
    <3>1. ASSUME Settled(p) PROVE Progress(w)'
      <4>1. TablesAgree(p)' /\ Recorded(p)' /\ Settled(p)'
        BY <2>2, <3>1, SettledKept DEF Settled
      <4>2. Subject(w)' = p /\ proposals'[p] = proposals[p]
        BY <2>1, <2>4, <2>6
      <4>3. proposals[p].status = "pending" => LiveMemories(p)' = {}
        BY <2>2, <3>1 DEF Settled, TablesAgree, SameTables
      <4>4. CASE d \in {"inspect", "deny"}
        <5>1. job'[w].late = 0
          BY <2>3, <4>4
        <5>2. CASE d = "inspect"
          <6>1. job'[w].phase = "log"
            BY <2>3, <5>2 DEF FirstPhase
          <6> QED
            BY <4>1, <4>2, <5>1, <6>1 DEF Progress
        <5>3. CASE d = "deny"
          <6>1. job'[w].phase = "update" /\ job'[w].decision = "deny"
            BY <2>3, <5>3 DEF FirstPhase
          <6>2. proposals[p].status = "pending"
            BY <2>3, <2>6, <5>3 DEF Allowed
          <6> QED
            BY <4>2, <4>3, <5>1, <6>1, <6>2 DEF Progress
        <5> QED
          BY <4>4, <5>2, <5>3
      <4>5. CASE d \in {"approve", "edit"}
        <5>1. job'[w].phase = "write"
          BY <2>3, <4>5 DEF FirstPhase
        <5>2. proposals[p].status = "pending" \/ (d = "edit" /\ proposals[p].status \in Accepted)
          BY <2>3, <2>6, <4>5 DEF Allowed
        <5>3. CASE d = "edit" /\ proposals[p].status \in Accepted
          <6>1. job'[w].late = proposals[p].memory_id /\ proposals[p].memory_id # 0
            BY <2>2, <2>3, <2>6, <5>3 DEF AcceptedHasMemory
          <6> QED
            BY <4>1, <4>2, <5>1, <5>3, <6>1 DEF Progress
        <5>4. CASE ~(d = "edit" /\ proposals[p].status \in Accepted)
          <6>1. job'[w].late = 0
            BY <2>3, <2>6, <5>4
          <6> QED
            BY <4>1, <4>2, <5>1, <5>2, <5>4, <6>1 DEF Progress
        <5> QED
          BY <5>3, <5>4
      <4> QED
        BY <4>4, <4>5 DEF Decision
    <3>2. Settled(p) => Share(w, p)'
      BY <2>4, <2>6, <3>1 DEF Share
    <3>3. About(w, p)' /\ p \in {q}
      BY <2>4, <2>6
    <3> QED
      BY <1>2, <2>1, <2>2, <2>3, <2>6, <3>2, <3>3, Begun
  <2> QED
    BY <2>5, <2>6 DEF UndisturbedAt
<1>5. ASSUME NEW w \in Worker, ProcessTimeouts(w) PROVE UndisturbedAt(p)'
  <2>1. UNCHANGED <<proposals, memories, audit>>
    BY <1>5 DEF ProcessTimeouts
  <2>2. p \in Existing /\ SameTables(p)
    BY <2>1 DEF Existing, SameTables, LiveMemories
  <2>3. /\ ~Busy(w) /\ job'[w].phase = "write" /\ job'[w].late = 0
        /\ \A i \in 1 .. Len(job'[w].todo) : Expired(job'[w].todo[i])
        /\ \A v \in Worker \ {w} : job'[v] = job[v]
    BY <1>5, Swept
  <2>4. Touch(w, {r \in Existing : Expired(r)})
    BY <1>5, Swept
  <2>5. CASE ~About(w, p)'
    <3>1. ~About(w, p)
      BY <2>3 DEF About, Busy, Idle
    <3>2. \A v \in Worker : Aside(v, p)
      BY <2>3, <2>5, <3>1 DEF Aside
    <3>3. clean'[p] => clean[p]
      BY <1>1, <2>4 DEF Touch
    <3> QED
      BY <1>2, <2>2, <3>2, <3>3, Apart
  <2>6. CASE About(w, p)' /\ clean'[p]
    <3>1. Expired(p)
      BY <2>3, <2>6 DEF About
    <3>2. proposals'[p].status = "pending"
      BY <2>1, <3>1 DEF Expired
    <3>3. ASSUME Settled(p) PROVE Share(w, p)'
      <4>1. Settled(p)'
        BY <2>2, <3>3, SettledKept
      <4>2. Subject(w)' = p => Progress(w)'
        BY <2>3, <3>2, <4>1 DEF Progress
      <4> QED
        BY <3>2, <4>1, <4>2 DEF Share
    <3>4. p \in {r \in Existing : Expired(r)}
      BY <2>2, <3>1
    <3> QED
      BY <1>2, <2>2, <2>3, <2>4, <2>6, <3>3, <3>4, Begun
  <2> QED
    BY <2>5, <2>6 DEF UndisturbedAt
<1>6. ASSUME NEW w \in Worker, WriteMemory(w) PROVE UndisturbedAt(p)'
  <2> DEFINE n == Len(memories) + 1
  <2>1. UNCHANGED <<proposals, audit, clean>> /\ p \in Existing /\ job[w].phase = "write"
    BY <1>6 DEF WriteMemory, Existing
  <2>2. /\ Busy(w) /\ n \in Nat /\ job'[w].decision = job[w].decision
        /\ job'[w].todo = job[w].todo /\ job'[w].late = job[w].late /\ job'[w].mem = n
        /\ job'[w].phase = IF job[w].late # 0 THEN "invalidate" ELSE "update"
        /\ \A v \in Worker \ {w} : job'[v] = job[v]
    BY <1>6, Wrote
  <2>3. Subject(w)' = Subject(w)
    BY <2>2 DEF Subject
  <2>4. CASE p # Subject(w)
    <3>1. SameTables(p)
      BY <1>6, <2>1, <2>4, LiveWrote DEF SameTables
    <3>2. \A v \in Worker : Aside(v, p)
      BY <2>2, <2>3, <2>4 DEF Aside, About
    <3> QED
      BY <1>2, <2>1, <3>1, <3>2, Apart
  <2>5. CASE p = Subject(w)
    <3>1. About(w, p)
      BY <2>2, <2>5, SubjectExists
    <3>2. ASSUME Progress(w) PROVE Progress(w)'
      <4>1. /\ TablesAgree(p) /\ Recorded(p)
            /\ job[w].late = 0 => proposals[p].status = "pending"
            /\ job[w].late # 0 => proposals[p].status \in Accepted /\ proposals[p].memory_id = job[w].late
        BY <2>1, <2>5, <3>2 DEF Progress, Settled
      <4>2. LiveMemories(p)' = LiveMemories(p) \cup {n}
        BY <1>6, <2>5, LiveWrote
      <4>3. job[w].late # n /\ n # 0
        <5>1. job[w].late \in Nat /\ job[w].late <= Len(memories) /\ Len(memories) \in Nat
          BY <2>2, BusyType, Grown
        <5> QED
          BY <5>1
      <4>4. job[w].decision # "deny"
        BY <2>1, <2>2 DEF Handlers, Written
      <4>5. Subject(w)' = p /\ proposals'[p] = proposals[p]
        BY <2>1, <2>3, <2>5
      <4>6. Recorded(p)'
        BY <2>1, <4>1 DEF Recorded
      <4> HIDE DEF n
      <4>7. CASE job[w].late # 0
        <5>1. LiveMemories(p)' = {job[w].late, n}
          BY <4>1, <4>2, <4>7 DEF TablesAgree
        <5> QED
          BY <2>2, <4>1, <4>3, <4>5, <4>6, <4>7, <5>1 DEF Progress
      <4>8. CASE job[w].late = 0
        <5>1. LiveMemories(p)' = {n}
          BY <4>1, <4>2, <4>8 DEF TablesAgree
        <5> QED
          BY <2>2, <4>3, <4>4, <4>5, <4>8, <5>1 DEF Progress
      <4> QED
        BY <4>7, <4>8
    <3> QED
      BY <1>2, <2>1, <2>2, <2>5, <3>1, <3>2, Own
  <2> QED
    BY <2>4, <2>5
<1>7. ASSUME NEW w \in Worker, Invalidate(w) PROVE UndisturbedAt(p)'
  <2>1. UNCHANGED <<proposals, audit, clean>> /\ p \in Existing /\ job[w].phase = "invalidate"
    BY <1>7 DEF Invalidate, Existing
  <2>2. /\ Busy(w) /\ job'[w].decision = job[w].decision
        /\ job'[w].todo = job[w].todo /\ job'[w].late = job[w].late
        /\ job'[w].mem = job[w].mem /\ job'[w].phase = "update"
        /\ \A v \in Worker \ {w} : job'[v] = job[v]
    BY <1>7, Invalidated
  <2>3. Subject(w)' = Subject(w)
    BY <2>2 DEF Subject
  <2>4. CASE p # Subject(w)
    <3>1. SameTables(p)
      BY <1>7, <2>1, <2>4, LiveInvalidated DEF SameTables
    <3>2. \A v \in Worker : Aside(v, p)
      BY <2>2, <2>3, <2>4 DEF Aside, About
    <3> QED
      BY <1>2, <2>1, <3>1, <3>2, Apart
  <2>5. CASE p = Subject(w)
    <3>1. About(w, p)
      BY <2>2, <2>5, SubjectExists
    <3>2. ASSUME Progress(w) PROVE Progress(w)'
      <4>1. job[w].late # 0 /\ job[w].decision # "deny"
        BY <2>1, <2>2 DEF Handlers, Supersedes
      <4>2. /\ LiveMemories(p) = {job[w].late, job[w].mem} /\ job[w].late # job[w].mem
            /\ proposals[p].status \in Accepted /\ proposals[p].memory_id = job[w].late
            /\ Recorded(p)
        BY <2>1, <2>5, <3>2, <4>1 DEF Progress
      <4>3. LiveMemories(p)' = {job[w].mem}
        BY <1>7, <2>5, <4>2, LiveInvalidated
      <4>4. Recorded(p)'
        BY <2>1, <4>2 DEF Recorded
      <4> QED
        BY <2>1, <2>2, <2>3, <2>5, <4>1, <4>2, <4>3, <4>4 DEF Progress
    <3> QED
      BY <1>2, <2>1, <2>2, <2>5, <3>1, <3>2, Own
  <2> QED
    BY <2>4, <2>5
<1>8. ASSUME NEW w \in Worker, UpdateProposal(w) PROVE UndisturbedAt(p)'
  <2>1. UNCHANGED <<memories, audit, clean>> /\ job[w].phase = "update"
    BY <1>8 DEF UpdateProposal
  <2>2. /\ Busy(w) /\ Subject(w) \in Existing /\ job'[w].decision = job[w].decision
        /\ job'[w].todo = job[w].todo /\ job'[w].late = job[w].late
        /\ job'[w].mem = job[w].mem /\ job'[w].phase = "log"
        /\ \A v \in Worker \ {w} : job'[v] = job[v]
    BY <1>8, Updated
  <2>3. Subject(w)' = Subject(w) /\ LiveMemories(p)' = LiveMemories(p)
    BY <2>1, <2>2 DEF Subject, LiveMemories
  <2>4. CASE p # Subject(w)
    <3>1. proposals'[p] = proposals[p]
      BY <1>1, <1>8, <2>4, Updated
    <3>2. SameTables(p) /\ p \in Existing
      BY <2>1, <2>3, <3>1 DEF SameTables, Existing
    <3>3. \A v \in Worker : Aside(v, p)
      BY <2>2, <2>3, <2>4 DEF Aside, About
    <3> QED
      BY <1>2, <2>1, <3>2, <3>3, Apart
  <2>5. CASE p = Subject(w)
    <3>1. About(w, p) /\ p \in Existing
      BY <2>2, <2>5, SubjectExists
    <3>2. /\ proposals'[p].status = NewStatus(w)
          /\ proposals'[p].memory_id = IF NewStatus(w) \in Accepted THEN job[w].mem
                                       ELSE proposals[p].memory_id
      BY <1>8, <2>5, Updated
    <3>3. /\ job[w].decision = "deny" => NewStatus(w) = "rejected"
          /\ job[w].late # 0 => NewStatus(w) = "superseded"
          /\ job[w].late = 0 /\ job[w].decision # "deny" => NewStatus(w) = Reviewed(w)
      BY <2>1, <2>2, NewStatusType
    <3>4. /\ job[w].decision # "inspect"
          /\ job[w].late # 0 => job[w].decision = "edit"
      BY <2>1, <2>2 DEF Handlers, Supersedes, Written
    <3>5. ASSUME Progress(w) PROVE TablesAgree(p)'
      <4>1. CASE job[w].decision = "deny"
        <5>1. LiveMemories(p) = {}
          BY <2>1, <2>5, <3>5, <4>1 DEF Progress
        <5> QED
          BY <2>3, <3>2, <3>3, <4>1, <5>1 DEF TablesAgree, Accepted
      <4>2. CASE job[w].late # 0
        <5>1. /\ LiveMemories(p) = {job[w].mem} /\ job[w].late # job[w].mem
              /\ proposals[p].memory_id = job[w].late
          BY <2>1, <2>5, <3>4, <3>5, <4>2 DEF Progress
        <5>2. proposals'[p].status = "superseded" /\ proposals'[p].memory_id = job[w].late
          BY <3>2, <3>3, <4>2, <5>1 DEF Accepted
        <5>3. Cardinality({job[w].mem}) = 1
          BY FS_Singleton
        <5> QED
          BY <2>3, <5>1, <5>2, <5>3 DEF TablesAgree, Accepted
      <4>3. CASE job[w].decision # "deny" /\ job[w].late = 0
        <5>1. LiveMemories(p) = {job[w].mem}
          BY <2>1, <2>5, <3>5, <4>3 DEF Progress
        <5>2. proposals'[p].status \in Accepted /\ proposals'[p].memory_id = job[w].mem
          BY <3>2, <3>3, <4>3 DEF Accepted, Reviewed
        <5> QED
          BY <2>3, <5>1, <5>2 DEF TablesAgree, Accepted
      <4> QED
        BY <4>1, <4>2, <4>3
    <3>6. ASSUME Progress(w) PROVE Progress(w)'
      BY <2>2, <2>3, <2>5, <3>4, <3>5, <3>6 DEF Progress
    <3> QED
      BY <1>2, <2>1, <2>2, <2>5, <3>1, <3>6, Own
  <2> QED
    BY <2>4, <2>5
<1>9. ASSUME NEW w \in Worker, Busy(w), NextRow(w), UNCHANGED <<proposals, memories>>,
             audit'[p] = audit[p], clean'[p] => clean[p], p # Subject(w)
      PROVE  UndisturbedAt(p)'
  <2>1. p \in Existing /\ SameTables(p)
    BY <1>9 DEF Existing, SameTables, LiveMemories
  <2>2. \A v \in Worker \ {w} : job'[v] = job[v]
    BY <1>9, Advanced
  <2>3. Aside(w, p)
    BY <1>9, LeftOver DEF Aside
  <2>4. \A v \in Worker : Aside(v, p)
    BY <2>2, <2>3 DEF Aside
  <2> QED
    BY <1>2, <1>9, <2>1, <2>4, Apart
<1>10. ASSUME NEW w \in Worker, LogAction(w) PROVE UndisturbedAt(p)'
  <2>1. /\ UNCHANGED <<proposals, memories, clean>> /\ NextRow(w) /\ Busy(w)
        /\ audit' = [audit EXCEPT ![Subject(w)] = @ \cup {job[w].decision}]
        /\ job[w].phase = "log"
    BY <1>10, BusyType DEF LogAction
  <2>2. CASE p # Subject(w)
    <3>1. audit'[p] = audit[p]
      BY <1>1, <2>1, <2>2 DEF TypeOK
    <3> QED
      BY <1>9, <2>1, <2>2, <3>1
  <2>3. CASE p = Subject(w) /\ clean'[p]
    <3>1. /\ \A v \in Worker : About(v, p) => v = w
          /\ Progress(w) /\ About(w, p)
      BY <2>1, <2>3, <1>2, SubjectExists DEF UndisturbedAt, Share
    <3>2. TablesAgree(p) /\ (job[w].decision = "inspect" => Recorded(p))
      BY <2>1, <2>3, <3>1 DEF Progress
    <3>3. audit'[p] = audit[p] \cup {job[w].decision}
      BY <1>1, <2>1, <2>3 DEF TypeOK
    <3>4. LiveMemories(p)' = LiveMemories(p) /\ proposals'[p] = proposals[p]
      BY <2>1 DEF LiveMemories
    <3>5. TablesAgree(p)'
      BY <3>2, <3>4 DEF TablesAgree, Accepted
    <3>6. Recorded(p)'
      BY <3>2, <3>3, <3>4 DEF Recorded
    <3>7. \A v \in Worker : ~About(v, p)'
      <4>1. ~About(w, p)'
        BY <2>1, <2>3, LeftOver
      <4>2. \A v \in Worker \ {w} : job'[v] = job[v]
        BY <2>1, Advanced
      <4> QED
        BY <3>1, <4>1, <4>2 DEF About
    <3> QED
      BY <3>5, <3>6, <3>7 DEF UndisturbedAt, Settled
  <2> QED
    BY <2>2, <2>3 DEF UndisturbedAt
<1>11. ASSUME NEW w \in Worker, Fail(w) PROVE UndisturbedAt(p)'
  <2>1. /\ UNCHANGED <<proposals, memories, audit>> /\ NextRow(w) /\ Busy(w)
        /\ clean' = [clean EXCEPT ![Subject(w)] = FALSE]
    BY <1>11 DEF Fail
  <2>2. CASE p # Subject(w)
    <3>1. clean'[p] = clean[p]
      BY <1>1, <2>1, <2>2 DEF TypeOK
    <3> QED
      BY <1>9, <2>1, <2>2, <3>1
  <2>3. CASE p = Subject(w)
    <3>1. ~clean'[p]
      BY <1>1, <2>1, <2>3 DEF TypeOK
    <3> QED
      BY <3>1 DEF UndisturbedAt
  <2> QED
    BY <2>2, <2>3
<1>12. ASSUME NEW w \in Worker, Die(w) PROVE UndisturbedAt(p)'
  <2>1. /\ UNCHANGED <<proposals, memories, audit>> /\ Busy(w)
        /\ clean' = [clean EXCEPT ![Subject(w)] = FALSE]
        /\ job' = [job EXCEPT ![w] = Idle]
    BY <1>12 DEF Die
  <2>2. CASE p # Subject(w)
    <3>1. clean'[p] = clean[p]
      BY <1>1, <2>1, <2>2 DEF TypeOK
    <3>2. p \in Existing /\ SameTables(p)
      BY <2>1 DEF Existing, SameTables, LiveMemories
    <3>3. job'[w] = Idle /\ \A v \in Worker \ {w} : job'[v] = job[v]
      BY <2>1 DEF TypeOK
    <3>4. ~About(w, p)'
      BY <3>3 DEF About, Idle
    <3>5. \A v \in Worker : Aside(v, p)
      BY <2>2, <3>3, <3>4 DEF Aside
    <3> QED
      BY <1>2, <3>1, <3>2, <3>5, Apart
  <2>3. CASE p = Subject(w)
    <3>1. ~clean'[p]
      BY <1>1, <2>1, <2>3 DEF TypeOK
    <3> QED
      BY <3>1 DEF UndisturbedAt
  <2> QED
    BY <2>2, <2>3
<1>13. CASE Tick
  <2>1. UNCHANGED <<proposals, memories, audit, job, clean>>
    BY <1>13 DEF Tick
  <2>2. p \in Existing /\ SameTables(p)
    BY <2>1 DEF Existing, SameTables, LiveMemories
  <2>3. \A v \in Worker : Aside(v, p)
    BY <2>1 DEF Aside
  <2> QED
    BY <1>2, <2>1, <2>2, <2>3, Apart
<1> QED
  BY <1>3, <1>4, <1>5, <1>6, <1>7, <1>8, <1>10, <1>11, <1>12, <1>13 DEF Next, Work

-----------------------------------------------------------------------------
(* The theorems                                                             *)

LEMMA IInvInit ==
    Init => IInv
<1> SUFFICES ASSUME Init PROVE IInv
  OBVIOUS
<1>1. TypeOK
  BY TypeInit
<1>2. Existing = {} /\ Len(memories) = 0
  BY DEF Init, Existing
<1>3. Rooted
  BY <1>2, FS_EmptySet DEF Rooted
<1>4. Handlers
  BY DEF Init, Handlers, Busy
<1> QED
  BY <1>1, <1>2, <1>3, <1>4 DEF IInv, AcceptedHasMemory, WindowRespected, Undisturbed

LEMMA IInvStep ==
    ASSUME IInv, [Next]_vars PROVE IInv'
<1>1. CASE Next
  BY <1>1, TypeStep, RootedStep, HandlersStep, AcceptedStep, WindowStep, UndisturbedStep
  DEF IInv
<1>2. CASE UNCHANGED vars
  <2> USE <1>2 DEF vars
  <2>1. TypeOK'
    BY DEF IInv, TypeOK, Existing
  <2>2. Rooted'
    BY DEF IInv, Rooted, Existing
  <2>3. Handlers'
    BY DEF IInv, Handlers, Busy, Reads, Supersedes, Written, Reviewed, Subject, Existing
  <2>4. AcceptedHasMemory' /\ WindowRespected'
    BY DEF IInv, AcceptedHasMemory, WindowRespected, Existing
  <2>5. Undisturbed'
    <3> SUFFICES ASSUME NEW p \in Existing PROVE UndisturbedAt(p)'
      BY DEF Undisturbed, Existing
    <3>1. SameTables(p) /\ \A v \in Worker : Aside(v, p)
      BY DEF SameTables, LiveMemories, Aside
    <3> QED
      BY <3>1, Apart DEF IInv, Undisturbed
  <2> QED
    BY <2>1, <2>2, <2>3, <2>4, <2>5 DEF IInv
<1> QED
  BY <1>1, <1>2

\* The invariant is inductive.
LEMMA InductiveInvariant ==
    Spec => []IInv
<1>1. IInv /\ [Next]_vars => IInv'
  BY IInvStep
<1> QED
  BY IInvInit, <1>1, PTL DEF Spec

\* The tables, the handlers and the clock keep their types, and every
\* memory_id names a memory that was written (api.py, the reflection tables).
THEOREM TypeCorrect ==
    Spec => []TypeOK
<1>1. IInv => TypeOK
  BY DEF IInv
<1> QED
  BY InductiveInvariant, <1>1, PTL

\* However the handlers of api.py overlap, fail half-way or die: an accepted
\* proposal names a memory written for it, with the review status it was
\* accepted under.
THEOREM AcceptedNamesItsMemory ==
    Spec => []AcceptedHasMemory
<1>1. IInv => AcceptedHasMemory
  BY DEF IInv
<1> QED
  BY InductiveInvariant, <1>1, PTL

\* process_reflection_timeouts integrates nothing whose review window is
\* still open.
THEOREM WindowKept ==
    Spec => []WindowRespected
<1>1. IInv => WindowRespected
  BY DEF IInv
<1> QED
  BY InductiveInvariant, <1>1, PTL

\* A proposal whose handlers neither overlapped nor failed has, once they are
\* through, the one valid memory its status calls for, and its decision is on
\* record.
THEOREM UndisturbedTablesAgree ==
    Spec => []OneLiveMemory
<1>1. IInv => OneLiveMemory
  BY DEF IInv, Undisturbed, UndisturbedAt, Settled, OneLiveMemory
<1> QED
  BY InductiveInvariant, <1>1, PTL

=============================================================================
