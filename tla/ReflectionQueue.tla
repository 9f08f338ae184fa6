-------------------------- MODULE ReflectionQueue --------------------------
(***************************************************************************)
(* The Reflection Review Queue of memu/api.py (and reflection.py): a       *)
(* proposal waits in a review window for approve, deny or edit, is         *)
(* integrated when the window has closed, and may be edited again later.   *)
(*                                                                         *)
(* The handlers read the proposal once and then write memory, proposal and *)
(* audit trail with statements of their own: tenant_connection opens no    *)
(* transaction, so every statement commits by itself, the handlers         *)
(* interleave between statements, and one that fails leaves what it did.   *)
(***************************************************************************)
EXTENDS Integers, Sequences, FiniteSets

CONSTANTS
    Proposal,   \* proposal ids
    Worker,     \* requests that can be in progress at a time
    Window,     \* REFLECTION_REVIEW_WINDOW_HOURS, in ticks
    MaxTime,    \* bound: the last instant; proposals are created early
                \* enough for their window to close by then
    MaxActions, \* bound: review actions taken
    MaxFaults,  \* bound: handlers that fail half-way
    NoProposal

ASSUME WindowAssumption == Window \in Nat
ASSUME BoundAssumption ==
    MaxTime \in Nat /\ MaxActions \in Nat /\ MaxFaults \in Nat

VARIABLES
    proposals,  \* table reflection_proposals
    memories,   \* the Learning Memory written by the queue; ids are positions
    audit,      \* table reflection_actions: the decisions, by proposal
    job,        \* what each worker does
    clock,
    acted,      \* number of review actions so far
    faults,     \* number of failed handlers so far
    clean       \* history: no two handlers of the proposal overlapped, and
                \* none failed half-way

vars == <<proposals, memories, audit, job, clock, acted, faults, clean>>

Accepted == {"accepted", "accepted_by_timeout"}
Status == {"pending", "rejected", "superseded"} \cup Accepted
Decision == {"approve", "deny", "edit", "inspect", "timeout_accept"}

Row == [status : Status, memory_id : Nat, expires_at : Nat]
Memory == [proposal : Proposal, valid : BOOLEAN, review_status : Accepted]

ASSUME NullAssumption == NoProposal \notin Row

\* A job works through "todo", the proposals it has read, head first.
\* "late" is the memory a late edit supersedes, "mem" the one it has written;
\* 0 stands for none.
Idle == [decision |-> "none", todo |-> <<>>, phase |-> "none",
         late |-> 0, mem |-> 0]
Job == [decision : Decision, todo : Seq(Proposal), late : Nat, mem : Nat,
        phase : {"write", "invalidate", "update", "log"}]

-----------------------------------------------------------------------------
Busy(w) == job[w] # Idle
Subject(w) == Head(job[w].todo)
About(w, p) == \E i \in 1 .. Len(job[w].todo) : job[w].todo[i] = p

Overlapping(w, p) == \E v \in Worker \ {w} : About(v, p)

\* The proposals of "ps" that another handler is working on are not clean.
Touch(w, ps) ==
    clean' = [p \in Proposal |->
                 clean[p] /\ ~(p \in ps /\ Overlapping(w, p))]

Existing == {p \in Proposal : proposals[p] # NoProposal}

Init ==
    /\ proposals = [p \in Proposal |-> NoProposal]
    /\ memories = <<>>
    /\ audit = [p \in Proposal |-> {}]
    /\ job = [w \in Worker |-> Idle]
    /\ clock = 0
    /\ acted = 0
    /\ faults = 0
    /\ clean = [p \in Proposal |-> TRUE]

-----------------------------------------------------------------------------
\* create_reflection_proposal; compute_proposal_expiry
CreateProposal(p) ==
    /\ proposals[p] = NoProposal
    /\ clock + Window <= MaxTime
    /\ proposals' = [proposals EXCEPT ![p] =
          [status |-> "pending", memory_id |-> 0,
           expires_at |-> clock + Window]]
    /\ UNCHANGED <<memories, audit, job, clock, acted, faults, clean>>

\* The first statement of a decision, by what the handler has read.
FirstPhase(decision) ==
    CASE decision = "inspect" -> "log"
      [] decision = "deny"    -> "update"
      [] OTHER                -> "write"

\* The status each decision requires; anything else is answered with 409.
Allowed(decision, status) ==
    \/ decision = "inspect"
    \/ decision \in {"approve", "deny", "edit"} /\ status = "pending"
    \/ decision = "edit" /\ status \in Accepted

\* take_reflection_action: the SELECT and the checks.
TakeAction(w, decision, p) ==
    /\ ~Busy(w) /\ p \in Existing /\ acted < MaxActions
    /\ Allowed(decision, proposals[p].status)
    /\ job' = [job EXCEPT ![w] =
          [decision |-> decision, todo |-> <<p>>, mem |-> 0,
           phase |-> FirstPhase(decision),
           late |-> IF decision = "edit" /\ proposals[p].status \in Accepted
                    THEN proposals[p].memory_id ELSE 0]]
    /\ acted' = acted + 1
    /\ Touch(w, {p})
    /\ UNCHANGED <<proposals, memories, audit, clock, faults>>

\* Mutant: what a failed attempt has written a memory for is left out.
ExpiredFresh(p) ==
    /\ proposals[p].status = "pending" /\ proposals[p].expires_at <= clock
    /\ \A i \in 1 .. Len(memories) : memories[i].proposal # p

\* Mutant: the open proposals, expired or not.
ExpiredAny(p) == proposals[p].status = "pending"

Expired(p) == proposals[p].status = "pending" /\ proposals[p].expires_at <= clock

\* The orders in which "ORDER BY expires_at ASC" may return a set.
Orders(ps) ==
    {s \in [1 .. Cardinality(ps) -> ps] :
        /\ \A i, j \in 1 .. Cardinality(ps) : s[i] = s[j] => i = j
        /\ \A i, j \in 1 .. Cardinality(ps) : i < j =>
              proposals[s[i]].expires_at <= proposals[s[j]].expires_at}

\* process_reflection_timeouts: the SELECT of the expired rows.
ProcessTimeouts(w) ==
    LET due == {p \in Existing : Expired(p)} IN
    /\ ~Busy(w) /\ due # {}
    /\ \E rows \in Orders(due) :
          job' = [job EXCEPT ![w] =
             [decision |-> "timeout_accept", todo |-> rows, mem |-> 0,
              phase |-> "write", late |-> 0]]
    /\ Touch(w, due)
    /\ UNCHANGED <<proposals, memories, audit, clock, acted, faults>>

\* _write_accepted_learning_memory: the INSERT.
WriteMemory(w) ==
    /\ job[w].phase = "write"
    /\ memories' = Append(memories,
          [proposal |-> Subject(w), valid |-> TRUE,
           review_status |-> IF job[w].decision = "timeout_accept"
                             THEN "accepted_by_timeout" ELSE "accepted"])
    /\ job' = [job EXCEPT ![w].mem = Len(memories) + 1,
                          ![w].phase = IF job[w].late # 0 THEN "invalidate"
                                       ELSE "update"]
    /\ UNCHANGED <<proposals, audit, clock, acted, faults, clean>>

\* Mutant: the superseded memory stays valid.
InvalidateNot(w) ==
    /\ job[w].phase = "invalidate"
    /\ job' = [job EXCEPT ![w].phase = "update"]
    /\ UNCHANGED <<proposals, memories, audit, clock, acted, faults, clean>>

\* ... and the UPDATE of the memory that is superseded.
Invalidate(w) ==
    /\ job[w].phase = "invalidate"
    /\ memories' = [memories EXCEPT ![job[w].late].valid = FALSE]
    /\ job' = [job EXCEPT ![w].phase = "update"]
    /\ UNCHANGED <<proposals, audit, clock, acted, faults, clean>>

\* The status a decision leads to.
NewStatus(w) ==
    CASE job[w].decision = "deny"           -> "rejected"
      [] job[w].decision = "timeout_accept" -> "accepted_by_timeout"
      [] job[w].late # 0                    -> "superseded"
      [] OTHER                              -> "accepted"

\* Mutant: the memory is not recorded with the status.
UpdateProposalOnly(w) ==
    /\ job[w].phase = "update"
    /\ proposals' = [proposals EXCEPT ![Subject(w)].status = NewStatus(w)]
    /\ job' = [job EXCEPT ![w].phase = "log"]
    /\ UNCHANGED <<memories, audit, clock, acted, faults, clean>>

\* The UPDATE of the proposal, WHERE proposal_id only.  memory_id is set by
\* acceptances, and neither by deny nor by a late edit.
UpdateProposal(w) ==
    /\ job[w].phase = "update"
    /\ proposals' = [proposals EXCEPT
          ![Subject(w)].status = NewStatus(w),
          ![Subject(w)].memory_id = IF NewStatus(w) \in Accepted
                                    THEN job[w].mem ELSE @]
    /\ job' = [job EXCEPT ![w].phase = "log"]
    /\ UNCHANGED <<memories, audit, clock, acted, faults, clean>>

\* After one proposal: the next row of the timeout loop, or the end.
NextRow(w) ==
    job' = [job EXCEPT ![w] =
       IF Len(job[w].todo) = 1 THEN Idle
       ELSE [job[w] EXCEPT !.todo = Tail(job[w].todo), !.phase = "write", !.mem = 0]]

\* The INSERT into reflection_actions.
LogAction(w) ==
    /\ job[w].phase = "log"
    /\ audit' = [audit EXCEPT ![Subject(w)] = @ \cup {job[w].decision}]
    /\ NextRow(w)
    /\ UNCHANGED <<proposals, memories, clock, acted, faults, clean>>

\* A statement fails.  An action ends there with an error; the timeout loop
\* catches it and goes on with the next row.
Fail(w) ==
    /\ Busy(w) /\ faults < MaxFaults
    /\ faults' = faults + 1
    /\ clean' = [clean EXCEPT ![Subject(w)] = FALSE]
    /\ NextRow(w)
    /\ UNCHANGED <<proposals, memories, audit, clock, acted>>

\* The process dies: the job is gone, whatever it still had to do.
Die(w) ==
    /\ Busy(w) /\ faults < MaxFaults
    /\ faults' = faults + 1
    /\ clean' = [clean EXCEPT ![Subject(w)] = FALSE]
    /\ job' = [job EXCEPT ![w] = Idle]
    /\ UNCHANGED <<proposals, memories, audit, clock, acted>>

Tick ==
    /\ clock < MaxTime
    /\ clock' = clock + 1
    /\ UNCHANGED <<proposals, memories, audit, job, acted, faults, clean>>

-----------------------------------------------------------------------------
Work(w) == WriteMemory(w) \/ Invalidate(w) \/ UpdateProposal(w) \/ LogAction(w)

Next ==
    \/ \E p \in Proposal : CreateProposal(p)
    \/ \E w \in Worker, d \in Decision \ {"timeout_accept"}, p \in Proposal :
          TakeAction(w, d, p)
    \/ \E w \in Worker : ProcessTimeouts(w) \/ Work(w) \/ Fail(w) \/ Die(w)
    \/ Tick

Spec == Init /\ [][Next]_vars

\* Requests in progress go on, time passes, and process-timeouts is called
\* again and again (docs/OPENCLAW_INTEGRATION.md: "run on schedule").
FairSpec ==
    /\ Spec
    /\ WF_vars(Tick)
    /\ \A w \in Worker : WF_vars(Work(w)) /\ SF_vars(ProcessTimeouts(w))

-----------------------------------------------------------------------------
(* Properties                                                               *)

\* Proposals, memories, the action log and the handlers have their shape, and
\* every memory_id names a memory that exists.
TypeOK ==
    /\ proposals \in [Proposal -> Row \cup {NoProposal}]
    /\ \A p \in Existing : proposals[p].memory_id <= Len(memories)
    /\ memories \in Seq(Memory)
    /\ audit \in [Proposal -> SUBSET Decision]
    /\ job \in [Worker -> Job \cup {Idle}]
    /\ \A w \in Worker : {job[w].late, job[w].mem} \subseteq 0 .. Len(memories)
    /\ {clock, acted, faults} \subseteq Nat
    /\ clean \in [Proposal -> BOOLEAN]

LiveMemories(p) ==
    {i \in 1 .. Len(memories) : memories[i].proposal = p /\ memories[i].valid}

Quiet(p) == \A w \in Worker : ~About(w, p)

\* The memories agree with the status: a pending or rejected proposal has no
\* valid Learning Memory, an accepted one that of its memory_id, a superseded
\* one exactly one, and not that of its memory_id.
TablesAgree(p) ==
    /\ proposals[p].status \in {"pending", "rejected"} => LiveMemories(p) = {}
    /\ proposals[p].status \in Accepted =>
          LiveMemories(p) = {proposals[p].memory_id}
    /\ proposals[p].status = "superseded" =>
          /\ Cardinality(LiveMemories(p)) = 1
          /\ proposals[p].memory_id \notin LiveMemories(p)

\* What was decided is on record in reflection_actions.
Recorded(p) == proposals[p].status # "pending" => audit[p] \ {"inspect"} # {}

\* Where no two handlers of a proposal overlapped and none failed, the tables
\* agree, and the decision is on record, once the handlers are through.
OneLiveMemory ==
    \A p \in Existing : clean[p] /\ Quiet(p) => TablesAgree(p) /\ Recorded(p)

\* Whatever overlaps or fails: an accepted proposal names a memory that was
\* written for it, with the review status it was accepted under.
AcceptedHasMemory ==
    \A p \in Existing : proposals[p].status \in Accepted =>
        /\ proposals[p].memory_id # 0
        /\ memories[proposals[p].memory_id].proposal = p
        /\ memories[proposals[p].memory_id].review_status = proposals[p].status

\* Nothing is integrated by timeout while its review window is open.
WindowRespected ==
    \A i \in 1 .. Len(memories) :
        memories[i].review_status = "accepted_by_timeout" =>
            proposals[memories[i].proposal].expires_at <= clock

\* Every proposal is decided in the end, if only by the timeout, although
\* handlers fail and processes die.
EventuallyDecided ==
    \A p \in Proposal :
        p \in Existing ~> p \in Existing /\ proposals[p].status # "pending"

-----------------------------------------------------------------------------
(* A claim of the docs that the code does not keep                          *)

\* "deny - rejects the proposal; no memory is written" (take_reflection_action)
DeniedWithoutMemory ==
    \A p \in Existing : proposals[p].status = "rejected" /\ Quiet(p) =>
        LiveMemories(p) = {}

=============================================================================
