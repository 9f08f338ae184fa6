----------------------------- MODULE TaskBoard -----------------------------
(***************************************************************************)
(* The Notion task board: agents' pollers claim pages                      *)
(* (memu/notion_poller.py), and a group of workers applies task events to  *)
(* the pages (memu/nats_worker.py), both through memu/notion_bridge.py.    *)
(*                                                                         *)
(* The pages are external: a page is one record that a PATCH overwrites.   *)
(* A request whose answer does not come is sent again, whether it had its  *)
(* effect or not, and raises in the end.  The workers subscribe over core  *)
(* NATS, as a queue group: an event goes to one worker, once at most, and  *)
(* one that is not acknowledged does not come back (ack and nak have no    *)
(* effect, num_delivered stays 1, nothing goes to the dead letter topic).  *)
(***************************************************************************)
EXTENDS Naturals, FiniteSets

CONSTANTS Page, Poller, Worker,
          TaskMessage,      \* task events
          KindOf,           \* [TaskMessage -> {"started", "completed", "failed"}]
          PageOf,           \* [TaskMessage -> Page]
          AgentOf,          \* [TaskMessage -> Poller]
          WithoutIds,       \* messages without task_id or agent_id
          NoNotes,          \* events with empty notes or an empty error
          AnyAgent,         \* Assigned Agent = Any
          MaxBoardFaults    \* bound on events and answers lost, requests that fail

VARIABLES page,       \* [Page -> status, assigned agent, notes]
          listed,     \* [Poller -> pages of its query still to claim]
          pending,    \* [Poller -> SUBSET Page], NotionPoller._pending
          inflight,   \* [TaskMessage -> "sent" | "taken" | "handled" | "lost"]
          job,        \* [Worker -> the message in hand, the notes read]
          memories,   \* completion notes written to memU
          boardFaults,
          stale,      \* history: pages claimed after they left Backlog
          overlapped  \* history: messages whose notes a peer overwrote

boardVars == <<page, listed, pending, inflight, job, memories, boardFaults,
               stale, overlapped>>

NoJob == [at |-> "none", msg |-> {}, read |-> {}]

BoardInit ==
    /\ page = [p \in Page |-> [status |-> "Backlog", agent |-> AnyAgent,
                               notes |-> {}]]
    /\ listed = [q \in Poller |-> {}]
    /\ pending = [q \in Poller |-> {}]
    /\ inflight = [m \in TaskMessage |-> "sent"]
    /\ job = [w \in Worker |-> NoJob]
    /\ memories = {} /\ boardFaults = 0
    /\ stale = {} /\ overlapped = {}

BoardFault == boardFaults < MaxBoardFaults /\ boardFaults' = boardFaults + 1

\* The answer of a request that had its effect; without it the request is sent
\* again.
AnswerComes(came) == IF came THEN UNCHANGED boardFaults ELSE BoardFault

---------------------------------------------------------------------------
(* NotionBridge and NotionPoller. *)

\* poll_tasks: pages in Backlog, assigned to the agent or to Any.
PollTasks(q) ==
    /\ listed[q] = {}
    /\ listed' = [listed EXCEPT ![q] =
          {p \in Page : page[p].status = "Backlog"
                        /\ page[p].agent \in {AnyAgent, q}}]
    /\ UNCHANGED <<page, pending, inflight, job, memories, boardFaults, stale,
                   overlapped>>

\* Mutant: the claim assigns the page and leaves its status.
ClaimedLeavesStatus(p, a) == [page EXCEPT ![p].agent = AnyAgent]

\* claim_task: the page is overwritten, whatever its status has become.
Claimed(p, a) == [page EXCEPT ![p].status = "In Progress", ![p].agent = a]

MarkStale(p) == stale' = IF page[p].status = "Backlog" THEN stale
                         ELSE stale \cup {p}

\* run_once claims the next page of the list, unless it is pending.
PollerClaim(q, p, came) ==
    /\ p \in listed[q] \ pending[q]
    /\ page' = Claimed(p, q)
    /\ MarkStale(p)
    /\ AnswerComes(came)
    /\ IF came
       THEN /\ listed' = [listed EXCEPT ![q] = @ \ {p}]
            /\ pending' = [pending EXCEPT ![q] = @ \cup {p}]
       ELSE UNCHANGED <<listed, pending>>
    /\ UNCHANGED <<inflight, job, memories, overlapped>>

PollerSkips(q, p) ==
    /\ p \in listed[q] \cap pending[q]
    /\ listed' = [listed EXCEPT ![q] = @ \ {p}]
    /\ UNCHANGED <<page, pending, inflight, job, memories, boardFaults, stale,
                   overlapped>>

\* A failed claim ends run_once: the rest of the list is dropped.
PollerFails(q) ==
    /\ listed[q] # {} /\ BoardFault
    /\ listed' = [listed EXCEPT ![q] = {}]
    /\ UNCHANGED <<page, pending, inflight, job, memories, stale, overlapped>>

\* mark_claimed: the agent has taken the task over.
MarkClaimed(q, p) ==
    /\ p \in pending[q]
    /\ pending' = [pending EXCEPT ![q] = @ \ {p}]
    /\ UNCHANGED <<page, listed, inflight, job, memories, boardFaults, stale,
                   overlapped>>

---------------------------------------------------------------------------
(* nats_worker: message_handler and process_msg. *)

EndJob(w, m, as) ==
    /\ inflight' = [inflight EXCEPT ![m] = as]
    /\ job' = [job EXCEPT ![w] = NoJob]

\* An event does not reach the group.
LoseMessage(m) ==
    /\ inflight[m] = "sent" /\ BoardFault
    /\ inflight' = [inflight EXCEPT ![m] = "lost"]
    /\ UNCHANGED <<page, listed, pending, job, memories, stale, overlapped>>

\* A delivery; a message without ids is refused (nak).
TakeMessage(w, m) ==
    /\ job[w] = NoJob /\ inflight[m] = "sent"
    /\ IF m \in WithoutIds
       THEN EndJob(w, m, "lost")
       ELSE /\ inflight' = [inflight EXCEPT ![m] = "taken"]
            /\ job' = [job EXCEPT ![w] = [at |-> "start", msg |-> {m},
                                          read |-> {}]]
    /\ UNCHANGED <<page, listed, pending, memories, boardFaults, stale,
                   overlapped>>

Handles(w, m, at) == job[w].at = at /\ m \in job[w].msg

\* swarm.task.started: claim_task.
OnStarted(w, m, came) ==
    /\ Handles(w, m, "start") /\ KindOf[m] = "started"
    /\ page' = Claimed(PageOf[m], AgentOf[m])
    /\ MarkStale(PageOf[m])
    /\ AnswerComes(came)
    /\ IF came THEN EndJob(w, m, "handled") ELSE UNCHANGED <<job, inflight>>
    /\ UNCHANGED <<listed, pending, memories, overlapped>>

\* ValueError of complete_task or block_task ("notes are required").
OnNoNotes(w, m) ==
    /\ Handles(w, m, "start") /\ KindOf[m] # "started" /\ m \in NoNotes
    /\ EndJob(w, m, "lost")
    /\ UNCHANGED <<page, listed, pending, memories, boardFaults, stale,
                   overlapped>>

\* _get_task: the notes are read.
GetTask(w, m) ==
    /\ Handles(w, m, "start") /\ KindOf[m] # "started" /\ m \notin NoNotes
    /\ job' = [job EXCEPT ![w] = [@ EXCEPT !.at = "read",
                                           !.read = page[PageOf[m]].notes]]
    /\ UNCHANGED <<page, listed, pending, inflight, memories, boardFaults,
                   stale, overlapped>>

\* Mutant: the new note replaces the notes there are.
MergeNotesReplaces(old, m) == {m}

MergeNotes(old, m) == old \cup {m}

\* The PATCH of complete_task or block_task, from the notes read before.
PatchPage(w, m, came) ==
    /\ Handles(w, m, "read")
    /\ LET p == PageOf[m] IN
       /\ page' = [page EXCEPT
            ![p].status = IF KindOf[m] = "completed" THEN "Done" ELSE "Blocked",
            ![p].notes = MergeNotes(job[w].read, m)]
       /\ overlapped' = overlapped \cup (page[p].notes \ (job[w].read \cup {m}))
    /\ AnswerComes(came)
    /\ \/ ~came /\ UNCHANGED <<job, inflight>>
       \/ /\ came /\ KindOf[m] = "completed"
          /\ job' = [job EXCEPT ![w].at = "patched"] /\ UNCHANGED inflight
       \/ came /\ KindOf[m] # "completed" /\ EndJob(w, m, "handled")
    /\ UNCHANGED <<listed, pending, memories, stale>>

\* Mutant: the completion is written to memory before the page is patched.
WriteMemoryFirst(w, m, came) ==
    /\ Handles(w, m, "read") \/ Handles(w, m, "patched")
    /\ memories' = memories \cup {m}
    /\ AnswerComes(came)
    /\ IF came THEN EndJob(w, m, "handled") ELSE UNCHANGED <<job, inflight>>
    /\ UNCHANGED <<page, listed, pending, stale, overlapped>>

\* _write_memory_safely: the POST.
WriteMemory(w, m, came) ==
    /\ Handles(w, m, "patched")
    /\ memories' = memories \cup {m}
    /\ AnswerComes(came)
    /\ IF came THEN EndJob(w, m, "handled") ELSE UNCHANGED <<job, inflight>>
    /\ UNCHANGED <<page, listed, pending, stale, overlapped>>

\* A POST refused with a 401 is logged, and the event counts as handled.
MemoryRefused(w, m) ==
    /\ Handles(w, m, "patched") /\ BoardFault
    /\ EndJob(w, m, "handled")
    /\ UNCHANGED <<page, listed, pending, memories, stale, overlapped>>

\* A request fails after its retries, and the handler logs it; or the worker
\* dies and another takes its place.
RequestFails(w, m) ==
    /\ m \in job[w].msg /\ BoardFault
    /\ EndJob(w, m, "lost")
    /\ UNCHANGED <<page, listed, pending, memories, stale, overlapped>>

HandleEvent(w, m) ==
    \/ OnNoNotes(w, m) \/ GetTask(w, m) \/ MemoryRefused(w, m) \/ RequestFails(w, m)
    \/ \E came \in BOOLEAN :
          OnStarted(w, m, came) \/ PatchPage(w, m, came) \/ WriteMemory(w, m, came)

BoardNext ==
    \/ \E q \in Poller : PollTasks(q) \/ PollerFails(q)
    \/ \E q \in Poller, p \in Page :
         \/ PollerSkips(q, p) \/ MarkClaimed(q, p)
         \/ \E came \in BOOLEAN : PollerClaim(q, p, came)
    \/ \E m \in TaskMessage : LoseMessage(m)
    \/ \E w \in Worker, m \in TaskMessage : TakeMessage(w, m) \/ HandleEvent(w, m)

BoardSpec == BoardInit /\ [][BoardNext]_boardVars

---------------------------------------------------------------------------
(* Properties. *)

\* Type correctness.
BoardTypeOK ==
    /\ \A p \in Page : /\ page[p].status \in {"Backlog", "In Progress", "Done",
                                              "Blocked"}
                       /\ page[p].agent \in Poller \cup {AnyAgent}
                       /\ page[p].notes \subseteq TaskMessage
    /\ inflight \in [TaskMessage -> {"sent", "taken", "handled", "lost"}]
    /\ boardFaults <= MaxBoardFaults

\* Two pollers hold one page only when the page was claimed after it had left
\* Backlog, from a list fetched before or by a request sent again.
ClaimedOnce ==
    \A p \in Page : Cardinality({q \in Poller : p \in pending[q]}) <= 1
                    \/ p \in stale

\* The note of a completion or a failure that was handled is on its page,
\* unless a worker had read the page before the note was there.
NotesKept ==
    \A m \in TaskMessage :
        (inflight[m] = "handled" /\ KindOf[m] # "started")
        => m \in page[PageOf[m]].notes \/ m \in overlapped

\* A page an event finished stays finished, unless it was claimed afterwards.
FinishedStays ==
    \A m \in TaskMessage :
        (inflight[m] = "handled" /\ KindOf[m] # "started")
        => page[PageOf[m]].status \in {"Done", "Blocked"} \/ PageOf[m] \in stale

\* What is remembered of a completion is on the board: wherever the handling
\* stopped, its page has the note and is finished, as far as nobody claimed or
\* overwrote it (complete_task patches the page before it writes the memory).
MemoriesOnBoard ==
    \A m \in memories :
        /\ m \in page[PageOf[m]].notes \/ m \in overlapped
        /\ page[PageOf[m]].status \in {"Done", "Blocked"} \/ PageOf[m] \in stale

\* Every safety property of the board.
BoardSafe ==
    BoardTypeOK /\ ClaimedOnce /\ NotesKept /\ FinishedStays /\ MemoriesOnBoard
=============================================================================
