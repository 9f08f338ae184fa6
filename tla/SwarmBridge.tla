------------------------------ MODULE SwarmBridge ------------------------------
(* The WebSocket bridge: its NATS subscription, the ledger it projects the  *)
(* events into, and the clients it sends them to.  The endpoint that adds   *)
(* and removes clients runs while the bridge awaits a send.  The            *)
(* subscription is one of core NATS: an event may not arrive.               *)
EXTENDS TaskEvents, FiniteSets

CONSTANTS
    Client,
    Published,      \* the events the run uses
    MaxLog          \* bound: events published

ASSUME PublishedEvents == Published \subseteq Event

VARIABLES
    table,          \* all events, in the order of their timestamps
    log,            \* those that reached the bridge, in the order they did
    queue,          \* events the bridge's subscription has not handled
    ledger,         \* the projected tasks
    clients,        \* connected_clients
    sending,        \* the clients the current event has yet to go to
    sizeAtStart,    \* their number when the loop over them began
    failed,         \* clients whose send failed
    bridge,         \* "reading", "sending" or "backoff"
    lost,           \* history: tasks with an event the bridge did not get
    belated,        \* history: tasks with an event older than one published before
    halted          \* history: a system_halt was published

bridgeVars == <<table, log, queue, ledger, clients, sending, sizeAtStart, failed,
                bridge, lost, belated, halted>>

BridgeTypeOK ==
    /\ table \in Seq(Event) /\ log \in Seq(Event) /\ queue \in Seq(Event)
    /\ clients \subseteq Client /\ sending \subseteq Client
    /\ failed \subseteq Client
    /\ bridge \in {"reading", "sending", "backoff"}
    /\ \A t \in Task : ledger[t].status \in Status
    /\ lost \subseteq Task /\ belated \subseteq Task /\ halted \in BOOLEAN

BridgeInit ==
    /\ table = <<>> /\ log = <<>> /\ queue = <<>>
    /\ ledger = NoNodes
    /\ clients = {} /\ sending = {} /\ sizeAtStart = 0 /\ failed = {}
    /\ bridge = "reading"
    /\ lost = {} /\ belated = {} /\ halted = FALSE

\* A gateway publishes an event, which is stored in its place and reaches the
\* bridge or does not.  While the bridge backs off its old subscription is
\* still there, but nobody reads it any more.
PublishEvent(e, place, arrives) ==
    /\ Len(table) < MaxLog
    /\ table' = Stored(table, e, place)
    /\ belated' = IF \E i \in place .. Len(table) : table[i].task = e.task
               THEN belated \cup {e.task} ELSE belated
    /\ halted' = (halted \/ e.type = "system_halt")
    /\ IF arrives /\ bridge # "backoff"
       THEN log' = Append(log, e) /\ queue' = Append(queue, e) /\ UNCHANGED lost
       ELSE lost' = lost \cup {e.task} /\ UNCHANGED <<log, queue>>
    /\ UNCHANGED <<ledger, clients, sending, sizeAtStart, failed, bridge>>

ClientConnects(c) ==
    /\ c \notin clients
    /\ clients' = clients \cup {c}
    /\ UNCHANGED <<table, log, queue, ledger, sending, sizeAtStart, failed, bridge,
                   lost, belated, halted>>

ClientDisconnects(c) ==
    /\ c \in clients
    /\ clients' = clients \ {c}
    /\ UNCHANGED <<table, log, queue, ledger, sending, sizeAtStart, failed, bridge,
                   lost, belated, halted>>

\* The next message: projected first, then sent to whoever is connected.
ProjectEvent ==
    /\ bridge = "reading" /\ queue # <<>>
    /\ ledger' = ProcessTaskEvent(ledger, Head(queue))
    /\ queue' = Tail(queue)
    /\ sending' = clients /\ sizeAtStart' = Cardinality(clients)
    /\ failed' = {}
    /\ bridge' = IF clients = {} THEN "reading" ELSE "sending"
    /\ UNCHANGED <<table, log, clients, lost, belated, halted>>

SizeChanged == Cardinality(clients) # sizeAtStart

\* The send to one client returns or raises, and the loop goes on.
SendTo(c) ==
    /\ bridge = "sending" /\ ~SizeChanged /\ c \in sending
    /\ sending' = sending \ {c}
    /\ failed' \in {failed, failed \cup {c}}
    /\ UNCHANGED <<table, log, queue, ledger, clients, sizeAtStart, bridge,
                   lost, belated, halted>>

\* After the loop the clients that failed are dropped.
EndSends ==
    /\ bridge = "sending" /\ ~SizeChanged /\ sending = {}
    /\ clients' = clients \ failed
    /\ bridge' = "reading"
    /\ UNCHANGED <<table, log, queue, ledger, sending, sizeAtStart, failed,
                   lost, belated, halted>>

\* Mutant: the events waiting in the old subscription are thought delivered.
IterationFailsForgets ==
    /\ bridge = "sending" /\ SizeChanged
    /\ bridge' = "backoff"
    /\ queue' = <<>> /\ sending' = {}
    /\ UNCHANGED <<table, log, ledger, clients, sizeAtStart, failed,
                   lost, belated, halted>>

\* A client came or went during the loop: Python refuses to go on with a set
\* that changed its size, and the exception leaves the message loop.
IterationFails ==
    /\ bridge = "sending" /\ SizeChanged
    /\ bridge' = "backoff"
    /\ lost' = lost \cup {queue[i].task : i \in DOMAIN queue}
    /\ queue' = <<>> /\ sending' = {}
    /\ UNCHANGED <<table, log, ledger, clients, sizeAtStart, failed,
                   belated, halted>>

\* Two seconds later the bridge subscribes anew.
Resubscribe ==
    /\ bridge = "backoff"
    /\ bridge' = "reading"
    /\ UNCHANGED <<table, log, queue, ledger, clients, sending, sizeAtStart, failed,
                   lost, belated, halted>>

Bridge ==
    \/ ProjectEvent
    \/ \E c \in Client : SendTo(c)
    \/ EndSends
    \/ IterationFails
    \/ Resubscribe

BridgeNext ==
    \/ \E e \in Published, place \in 1 .. Len(table) + 1, arrives \in BOOLEAN :
          PublishEvent(e, place, arrives)
    \/ \E c \in Client : ClientConnects(c)
    \/ \E c \in Client : ClientDisconnects(c)
    \/ Bridge

BridgeSpec == BridgeInit /\ [][BridgeNext]_bridgeVars

----------------------------------------------------------------------------
Replayed == Project(table)

\* The tasks of which the bridge got a lease for another gateway than the one
\* that published it: the replay takes it to be for the publisher.
Diverted ==
    {t \in Task : \E i \in DOMAIN log :
        log[i].task = t /\ log[i].type = "lease_granted" /\ log[i].gateway # Named(log[i])}

\* What the bridge shows of a task is what a replay of all events gives, as
\* soon as it has handled them, unless it missed an event of the task: cost
\* and children whatever the order, the status unless an event of the task
\* had an older timestamp than one before it or a halt was published, which
\* the replay ignores, and the gateway unless, besides, a lease was for another
\* gateway than its publisher (BridgeLedger.process_event against
\* project_task_dag).
LedgerAgrees ==
    queue = <<>> => \A t \in Task \ lost :
        /\ ledger[t].spent = Replayed[t].spent
        /\ ledger[t].children \subseteq Replayed[t].children
        /\ t \notin belated /\ ~halted => ledger[t].status = Replayed[t].status
        /\ t \notin belated \cup Diverted => ledger[t].gateway = Replayed[t].gateway

\* A child that the replay links and the bridge does not was drafted before
\* its parent was known, and no event of its own has come since: only the
\* task of an event is linked (the second pass of process_event).
UnlinkedOnlyIfEarly ==
    queue = <<>> /\ lost = {} => \A t \in Task :
        \A c \in Replayed[t].children \ ledger[t].children :
            \A i, j \in DOMAIN log : log[i].task = c /\ log[j].task = t => i < j

\* Every safety property of the bridge: its ledger agrees with a replay of the
\* events, but for tasks with lost events or events out of order, leases for
\* others, and children drafted before their parents (ws_bridge.py and
\* bridge_ledger.py against projection.py).
BridgeSafe == BridgeTypeOK /\ LedgerAgrees /\ UnlinkedOnlyIfEarly

=============================================================================
