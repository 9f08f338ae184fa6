------------------------------ MODULE TaskEvents ------------------------------
(* Swarm events and the two projections of them into tasks: the replay of   *)
(* the events table (projection.py) and the ledger the bridge keeps event   *)
(* by event (bridge_ledger.py).  Every event costs one unit of compute.     *)
(* The replay orders the events by their timestamps, the bridge gets them   *)
(* as they arrive; they name the gateway of a granted lease differently.    *)
EXTENDS Naturals, SequencesExt

CONSTANTS
    Task,
    TaskGateway,    \* the gateways that publish events and that they name
    ParentOf,       \* parent_task_id in the draft of a task, or NoTask
    NoTask,
    NoGateway

\* A parent_task_id is the id of a task; NoTask stands for none.
ASSUME TaskNames == ParentOf \in [Task -> Task \cup {NoTask}] /\ NoTask \notin Task

EventType ==
    {"task_drafted", "bid_submitted", "lease_granted", "task_claimed",
     "task_completed", "task_failed", "task_cancelled", "task_amended",
     "audit_proposed", "audit_accepted", "audit_rejected", "lease_expired",
     "circuit_breaker", "system_halt"}

\* gateway is the publisher, named the gateway_id of the payload, if it has one.
Event == [type : EventType, task : Task, gateway : TaskGateway,
          named : TaskGateway \cup {NoGateway}]

Status == {"pending", "bidding", "claimed", "executing", "completed", "failed",
           "cancelled", "audit_pending", "halted"}

\* A task is known once an event names it, drafted or not.
Unknown == [known |-> FALSE, status |-> "pending", gateway |-> NoGateway,
            parent |-> NoTask, spent |-> 0, children |-> {}]

\* The status an event leaves its task in.
StatusAfter(type, status) ==
    CASE type \in {"task_drafted", "audit_rejected", "lease_expired"} -> "pending"
      [] type = "bid_submitted" -> "bidding"
      [] type = "lease_granted" -> "claimed"
      [] type = "task_claimed" -> "executing"
      [] type \in {"task_completed", "audit_accepted"} -> "completed"
      [] type \in {"task_failed", "circuit_breaker"} -> "failed"
      [] type = "task_cancelled" -> "cancelled"
      [] type = "audit_proposed" -> "audit_pending"
      [] OTHER -> status

\* payload.get("gateway_id", <the publisher>)
Named(e) == IF e.named = NoGateway THEN e.gateway ELSE e.named

\* Who has the task afterwards; the projections differ in whom a lease and a
\* claim are for.
GatewayAfter(type, holder, gateway) ==
    CASE type \in {"lease_granted", "task_claimed"} -> holder
      [] type \in {"audit_rejected", "lease_expired"} -> NoGateway
      [] OTHER -> gateway

\* The match statement, but for the holder of a lease.
ApplyTo(node, e, holder) ==
    [node EXCEPT !.known = TRUE,
                 !.spent = @ + 1,
                 !.status = StatusAfter(e.type, @),
                 !.gateway = GatewayAfter(e.type, holder, @),
                 !.parent = IF e.type = "task_drafted" THEN ParentOf[e.task] ELSE @]

\* The replay takes a lease to be for the gateway that published the event.
ReplayEvent(node, e) ==
    ApplyTo(node, e, IF e.type = "lease_granted" THEN e.gateway ELSE Named(e))

\* The ledger takes it to be for the gateway that the payload names.
LedgerEvent(node, e) == ApplyTo(node, e, Named(e))

\* Task t is entered among the children of its parent, if that is known.
LinkTo(nodes, t) ==
    LET p == nodes[t].parent
    IN  IF p # NoTask /\ nodes[p].known
        THEN [nodes EXCEPT ![p].children = @ \cup {t}] ELSE nodes

NoNodes == [t \in Task |-> Unknown]

\* An event is stored with a timestamp of its publisher, and may come to stand
\* before events that were stored earlier.
Stored(events, e, position) == InsertAt(events, position, e)

\* The tasks after the first n events, for every n.
Replay(log) ==
    LET after[n \in 0 .. Len(log)] ==
            IF n = 0 THEN NoNodes
            ELSE [after[n - 1] EXCEPT ![log[n].task] = ReplayEvent(@, log[n])]
    IN  after

\* project_task_dag: replay, and a second pass that links the children, also
\* those of parents that came to be known later.
Project(log) ==
    LET replayed == Replay(log)[Len(log)]
    IN  [t \in Task |->
           [replayed[t] EXCEPT !.children = IF replayed[t].known
              THEN {c \in Task : replayed[c].parent = t} ELSE {}]]

\* Mutant: the ledger keeps the gateway of a rejected or expired task.
ProcessTaskEventKeepsGateway(tasks, e) ==
    LET applied == [tasks EXCEPT ![e.task] =
                      [LedgerEvent(@, e) EXCEPT !.gateway =
                         IF e.type \in {"lease_granted", "task_claimed"}
                         THEN Named(e) ELSE tasks[e.task].gateway]]
    IN  LinkTo(applied, e.task)

\* Mutant: the ledger does not resolve the parent after the match statement.
ProcessTaskEventUnlinked(tasks, e) ==
    LET applied == [tasks EXCEPT ![e.task] = LedgerEvent(@, e)]
    IN  IF e.type = "task_drafted" THEN LinkTo(applied, e.task) ELSE applied

\* BridgeLedger.process_event: one event; a halt also stops every executing
\* task, and only the task of the event is linked to its parent.
ProcessTaskEvent(tasks, e) ==
    LET applied == [tasks EXCEPT ![e.task] = LedgerEvent(@, e)]
        halted == IF e.type # "system_halt" THEN applied
                  ELSE [t \in Task |->
                          IF applied[t].status = "executing"
                          THEN [applied[t] EXCEPT !.status = "halted"]
                          ELSE applied[t]]
    IN  LinkTo(halted, e.task)

=============================================================================
