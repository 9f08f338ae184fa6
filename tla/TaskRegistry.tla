---------------------------- MODULE TaskRegistry ----------------------------
(***************************************************************************)
(* The task registry: table backlog, written by the /tasks endpoints of    *)
(* memu/api.py and by the scripts task_registry_scanner,                   *)
(* task_refiner_agent, task_completion_reviewer and task_project_manager.  *)
(*                                                                         *)
(* Each script runs its statements one by one on its own connection, so    *)
(* what it read may be stale when it writes.  The events they publish are  *)
(* not modelled here.                                                      *)
(***************************************************************************)
EXTENDS Naturals, Sequences, FiniteSets

CONSTANTS Source,      \* source_ref of a marker in a scanned file
          NoSource,    \* a scanner between two sources
          Risky,       \* \subseteq Source: risk_score above 80
          Vague,       \* \subseteq Source: fails refine_candidate of the scanner
          Poor,        \* \subseteq Source: text fails the refiner
          Scanner,     \* processes running the scanner
          Reviewer,    \* processes running a review
          Patches,     \* \subseteq TaskUpdate: the PATCHes that agents send
          MaxTasks,    \* bound on rows
          MaxReviews   \* bound on reviews

VARIABLES backlog,    \* the rows, in order of insertion
          scanning,   \* [Scanner -> the source found absent, or NoSource]
          refining,   \* the rows the refiner fetched and has yet to write
          reviewing,  \* [Reviewer -> the row read and the decision, or Rest]
          reviews,
          verdict,    \* history: the last decision on each row; a PATCH of its
                      \* status counts as one
          reworks,    \* history: how often each row was sent back
          raced,      \* history: sources two scanners inserted side by side
          clobbered   \* history: rows written from a stale read

registryVars == <<backlog, scanning, refining, reviewing, reviews, verdict, reworks,
          raced, clobbered>>

Rest == [row |-> 0, how |-> "none", retry |-> 0, decision |-> "none"]
Decision == {"approve", "block", "rework"}

\* The enums of models.py, and what a PATCH sets of the two; backlog_status_check
\* allows every status.
TaskStatus == {"pending", "claimed", "in_progress", "done", "blocked", "cancelled"}
TaskReviewStatus == {"pending_review", "passed", "needs_input", "blocked", "completed"}
TaskUpdate == [status : TaskStatus \cup {"unset"},
               review : TaskReviewStatus \cup {"unset"}]

ASSUME PatchAssumption == Patches \subseteq TaskUpdate

RegistryInit ==
    /\ backlog = <<>>
    /\ scanning = [s \in Scanner |-> NoSource]
    /\ refining = {}
    /\ reviewing = [r \in Reviewer |-> Rest]
    /\ reviews = 0
    /\ verdict = <<>> /\ reworks = <<>>
    /\ raced = {} /\ clobbered = {}

TaskRow == 1..Len(backlog)

---------------------------------------------------------------------------
(* New rows. *)

\* determine_status and build_refine_status; run_scanner overrides the review
\* and the refinement of a candidate that it finds vague, not its status.
ScannedRow(src) ==
    [source |-> src, scanned |-> TRUE, retry |-> 0,
     status |-> IF src \in Risky THEN "blocked" ELSE "pending",
     review |-> IF src \in Risky \cup Vague THEN "needs_input" ELSE "pending_review",
     refine |-> IF src \in Risky \cup Vague THEN "needs_revision" ELSE "pending"]

InsertTask(row) ==
    /\ Len(backlog) < MaxTasks
    /\ backlog' = Append(backlog, row)
    /\ verdict' = Append(verdict, "none")
    /\ reworks' = Append(reworks, 0)

\* create_task: no look-up, the column defaults.
CreateTask(src) ==
    /\ InsertTask([source |-> src, scanned |-> FALSE, retry |-> 0,
               status |-> "pending", review |-> "pending_review",
               refine |-> "pending"])
    /\ UNCHANGED <<scanning, refining, reviewing, reviews, raced, clobbered>>

\* Mutant: only finished tasks are looked at.
ExistsOnlyDone(src) ==
    \E t \in TaskRow : backlog[t].source = src /\ backlog[t].status = "done"

\* SELECT ... WHERE source_ref = $1 OR source_fingerprint = $2.
ExistingRef(src) == \E t \in TaskRow : backlog[t].source = src

\* create_or_update_task, the look-up: a source that has a row is skipped.
ScanLookup(s, src) ==
    /\ scanning[s] = NoSource
    /\ ~ExistingRef(src)
    /\ scanning' = [scanning EXCEPT ![s] = src]
    /\ UNCHANGED <<backlog, refining, reviewing, reviews, verdict, reworks,
                   raced, clobbered>>

\* ... and the insert; no constraint makes source_ref unique.
ScanInsert(s) ==
    /\ scanning[s] # NoSource
    /\ InsertTask(ScannedRow(scanning[s]))
    /\ scanning' = [scanning EXCEPT ![s] = NoSource]
    /\ raced' = raced \cup {scanning[t] : t \in {u \in Scanner \ {s} :
                                                   scanning[u] = scanning[s]}}
    /\ UNCHANGED <<refining, reviewing, reviews, clobbered>>

---------------------------------------------------------------------------
(* refine_pending_tasks. *)

\* WHERE refine_status = 'pending'; the status is not asked for.
RefineCandidates == {t \in TaskRow : backlog[t].refine = "pending"}

RefineFetch ==
    /\ refining = {} /\ RefineCandidates # {}
    /\ refining' = RefineCandidates
    /\ UNCHANGED <<backlog, scanning, reviewing, reviews, verdict, reworks,
                   raced, clobbered>>

\* One row of the batch: approved, or sent back to pending.
RefineWrite(t) ==
    /\ t \in refining
    /\ refining' = refining \ {t}
    /\ LET poor == backlog[t].source \in Poor IN
       /\ backlog' = [backlog EXCEPT ![t] =
            IF poor
            THEN [@ EXCEPT !.refine = "needs_revision", !.review = "needs_input",
                           !.status = "pending", !.retry = backlog[t].retry + 1]
            ELSE [@ EXCEPT !.refine = "approved"]]
       /\ reworks' = IF poor THEN [reworks EXCEPT ![t] = @ + 1] ELSE reworks
       /\ clobbered' = IF poor /\ backlog[t].refine # "pending"
                       THEN clobbered \cup {t} ELSE clobbered
    /\ UNCHANGED <<scanning, reviewing, reviews, verdict, raced>>

---------------------------------------------------------------------------
(* Reviews: POST /tasks/{id}/review, and review_completion. *)

\* SELECT * FROM backlog WHERE id: the row is read without a lock.
ReviewRead(r, t, how, d) ==
    /\ reviewing[r] = Rest
    /\ reviews < MaxReviews
    /\ how = "completion" => d # "block"
    /\ reviewing' = [reviewing EXCEPT ![r] =
          [row |-> t, how |-> how, retry |-> backlog[t].retry, decision |-> d]]
    /\ reviews' = reviews + 1
    /\ UNCHANGED <<backlog, scanning, refining, verdict, reworks, raced,
                   clobbered>>

\* Mutant: an approval clears the count of retries.
RetryOfReviewClears(v, old) ==
    IF v.decision = "approve" THEN 0 ELSE old + 1

\* retry_count: the endpoint writes the value it read, or one more; the
\* script increments in the database.
RetryOfReview(v, old) ==
    LET base == IF v.how = "endpoint" THEN v.retry ELSE old IN
    IF v.decision = "rework" THEN base + 1 ELSE base

\* Mutant: an approval leaves refine_status to the refiner.
RefineOfReviewKeeps(v, old) ==
    IF v.how = "endpoint" /\ v.decision # "approve" THEN "needs_revision" ELSE old

\* refine_status: the script leaves it alone.
RefineOfReview(v, old) ==
    IF v.how = "completion" THEN old
    ELSE IF v.decision = "approve" THEN "approved" ELSE "needs_revision"

ReviewWrite(r) ==
    LET v == reviewing[r]
        t == v.row
    IN /\ v # Rest
       /\ backlog' = [backlog EXCEPT
            ![t].status = CASE v.decision = "approve" -> "done"
                            [] v.decision = "block"   -> "blocked"
                            [] OTHER                  -> "pending",
            ![t].review = CASE v.decision = "approve" -> "passed"
                            [] v.decision = "block"   -> "blocked"
                            [] OTHER                  -> "needs_input",
            ![t].refine = RefineOfReview(v, @),
            ![t].retry  = RetryOfReview(v, @)]
       /\ verdict' = [verdict EXCEPT ![t] =
            IF v.how = "completion" /\ v.decision = "approve"
            THEN "completed" ELSE v.decision]
       /\ reworks' = IF v.decision = "rework"
                     THEN [reworks EXCEPT ![t] = @ + 1] ELSE reworks
       /\ clobbered' = IF v.how = "endpoint" /\ backlog[t].retry # v.retry
                       THEN clobbered \cup {t} ELSE clobbered
       /\ reviewing' = [reviewing EXCEPT ![r] = Rest]
       /\ UNCHANGED <<scanning, refining, reviews, raced>>

Patched(old, new) == IF new = "unset" THEN old ELSE new

\* PATCH /tasks/{id}: whatever the row is, it gets the status and the review
\* status that the request names; refinement and retries are not among them.
UpdateTask(t, p) ==
    /\ backlog' = [backlog EXCEPT ![t].status = Patched(@, p.status),
                                  ![t].review = Patched(@, p.review)]
    /\ verdict' = IF p.status = "unset" THEN verdict
                  ELSE [verdict EXCEPT ![t] = "patched"]
    /\ UNCHANGED <<scanning, refining, reviewing, reviews, reworks, raced,
                   clobbered>>

\* process_planning_queue: its last statement sets status 'delegated', which
\* backlog_status_check refuses, so the transaction with the sub-tasks is
\* rolled back and the run ends.
PlanTask(t) ==
    /\ backlog[t].status = "pending" /\ backlog[t].refine = "needs_revision"
    /\ UNCHANGED registryVars

RegistryNext ==
    \/ \E src \in Source : CreateTask(src)
    \/ \E s \in Scanner : ScanInsert(s) \/ \E src \in Source : ScanLookup(s, src)
    \/ RefineFetch
    \/ \E t \in TaskRow : RefineWrite(t) \/ PlanTask(t) \/ \E p \in Patches : UpdateTask(t, p)
    \/ \E r \in Reviewer : ReviewWrite(r)
    \/ \E r \in Reviewer, t \in TaskRow, how \in {"endpoint", "completion"},
          d \in Decision : ReviewRead(r, t, how, d)

RegistrySpec == RegistryInit /\ [][RegistryNext]_registryVars

---------------------------------------------------------------------------
(* Properties. *)

\* Type correctness.
RegistryTypeOK ==
    /\ backlog \in Seq([source : Source, scanned : BOOLEAN,
                        retry : Nat,
                        status : TaskStatus, review : TaskReviewStatus,
                        refine : {"pending", "approved", "needs_revision"}])
    /\ Len(backlog) <= MaxTasks
    /\ refining \subseteq TaskRow

\* The scanner makes a second row for a source only when another scanner
\* had looked the source up before the first row was there.
OneRowPerSource ==
    \A t, u \in TaskRow :
        (t < u /\ backlog[t].source = backlog[u].source /\ backlog[u].scanned
            /\ backlog[t].scanned)
        => backlog[u].source \in raced

\* As long as the last decision on a task is the approval of the endpoint, and
\* no PATCH of its status has come since, the task is done and neither scanner,
\* refiner, planner nor a PATCH of something else reopens it, unless the refiner
\* had fetched it before the approval and writes its verdict after it.
ApprovedStaysDone ==
    \A t \in TaskRow :
        verdict[t] = "approve" => backlog[t].status = "done" \/ t \in clobbered

\* retry_count says how often the task was sent back, but for the reviews that
\* wrote a count they had read before another writer raised it.
RetriesCounted ==
    \A t \in TaskRow : /\ backlog[t].retry <= reworks[t]
                       /\ t \notin clobbered => backlog[t].retry = reworks[t]

\* Every safety property of the registry.
RegistrySafe ==
    RegistryTypeOK /\ OneRowPerSource /\ ApprovedStaysDone /\ RetriesCounted

=============================================================================
