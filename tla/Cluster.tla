------------------------------- MODULE Cluster -------------------------------
(* The NATS cluster manager: two client connections, the node calls are     *)
(* routed to, the callbacks of the clients and the health monitor.  One     *)
(* asyncio loop runs it all, so a step ends where the code awaits.          *)
EXTENDS Naturals, Sequences

CONSTANTS
    MaxOutages      \* bound: how often a link goes down

VARIABLES
    phase,          \* "new", "open" or "closed"
    conns,          \* _connections and _jetstreams: the nodes connected at start
    link,           \* is_connected of each client
    callbacks,      \* the client callbacks each client has yet to run
    health,         \* NodeHealth: connected, and whether the last ping was slow
    active,         \* _active_node
    visited,        \* the nodes the monitor's round is done with
    ping,           \* the monitor's flush: no node, or a node and its stage
    outages,        \* links gone down so far
    excuse          \* history: how the active node came to be a dead one

clusterVars == <<phase, conns, link, callbacks, health, active, visited, ping,
                 outages, excuse>>

Node == {"local", "railway"}
Idle == [node |-> "none", stage |-> "idle"]

Other(n) == IF n = "local" THEN "railway" ELSE "local"

ClusterTypeOK ==
    /\ phase \in {"new", "open", "closed"}
    /\ conns \subseteq Node
    /\ link \in [Node -> BOOLEAN]
    /\ callbacks \in [Node -> Seq({"down", "up"})]
    /\ health \in [Node -> [connected : BOOLEAN, slow : BOOLEAN]]
    /\ active \in Node
    /\ visited \subseteq conns
    /\ ping \in {Idle} \cup [node : Node, stage : {"flush", "pong"}]
    /\ outages \in 0 .. MaxOutages
    /\ excuse \in {"none", "failover refused", "stale health"}

ClusterInit ==
    /\ phase = "new"
    /\ conns = {}
    /\ link = [n \in Node |-> FALSE]
    /\ callbacks = [n \in Node |-> <<>>]
    /\ health = [n \in Node |-> [connected |-> FALSE, slow |-> FALSE]]
    /\ active = "local"
    /\ visited = {}
    /\ ping = Idle
    /\ outages = 0
    /\ excuse = "none"

\* Both connects run under one gather; the call fails when none succeeds.
\* A node without a URL is one whose connect never succeeds.
Connect ==
    /\ phase = "new"
    /\ \E up \in (SUBSET Node) \ {{}} :
         /\ conns' = up
         /\ link' = [n \in Node |-> n \in up]
         /\ health' = [n \in Node |-> [health[n] EXCEPT !.connected = n \in up]]
         /\ active' = IF "local" \in up THEN "local" ELSE "railway"
    /\ phase' = "open"
    /\ UNCHANGED <<callbacks, visited, ping, outages, excuse>>

\* The client notices that its server is gone; it runs the callback later.
LoseLink(n) ==
    /\ phase = "open"
    /\ link[n] /\ outages < MaxOutages
    /\ link' = [link EXCEPT ![n] = FALSE]
    /\ callbacks' = [callbacks EXCEPT ![n] = Append(@, "down")]
    /\ outages' = outages + 1
    /\ UNCHANGED <<phase, conns, health, active, visited, ping, excuse>>

\* The client reconnects after its disconnected callback has returned.
RegainLink(n) ==
    /\ phase = "open"
    /\ n \in conns /\ ~link[n] /\ callbacks[n] = <<>>
    /\ link' = [link EXCEPT ![n] = TRUE]
    /\ callbacks' = [callbacks EXCEPT ![n] = Append(@, "up")]
    /\ excuse' = IF n = active THEN "none" ELSE excuse
    /\ UNCHANGED <<phase, conns, health, active, visited, ping, outages>>

\* Mutant: the callback records the outage and does not fail over.
OnDisconnectOnlyRecords(n) ==
    /\ callbacks[n] # <<>> /\ Head(callbacks[n]) = "down"
    /\ callbacks' = [callbacks EXCEPT ![n] = Tail(@)]
    /\ health' = [health EXCEPT ![n].connected = FALSE]
    /\ UNCHANGED <<phase, conns, link, active, visited, ping, outages, excuse>>

\* on_disconnect with _failover, which trusts the recorded health of the
\* other node and, when that is bad, leaves the active node as it is.
OnDisconnect(n) ==
    /\ callbacks[n] # <<>> /\ Head(callbacks[n]) = "down"
    /\ callbacks' = [callbacks EXCEPT ![n] = Tail(@)]
    /\ health' = [health EXCEPT ![n].connected = FALSE]
    /\ active' = IF active = n /\ health'[Other(n)].connected
                 THEN Other(n) ELSE active
    /\ excuse' = IF active # n THEN excuse
                 ELSE IF active' = n THEN "failover refused"
                 ELSE IF link[Other(n)] THEN "none" ELSE "stale health"
    /\ UNCHANGED <<phase, conns, link, visited, ping, outages>>

OnReconnect(n) ==
    /\ callbacks[n] # <<>> /\ Head(callbacks[n]) = "up"
    /\ callbacks' = [callbacks EXCEPT ![n] = Tail(@)]
    /\ health' = [health EXCEPT ![n].connected = TRUE]
    /\ UNCHANGED <<phase, conns, link, active, visited, ping, outages, excuse>>

\* A caller asks for the active connection and gets the other node's when
\* this one is dead; with both dead it gets a ConnectionError.
UseConnection ==
    /\ phase = "open"
    /\ ~link[active] /\ link[Other(active)]
    /\ active' = Other(active)
    /\ excuse' = "none"
    /\ UNCHANGED <<phase, conns, link, callbacks, health, visited, ping, outages>>

\* A caller asks for a JetStream context: the active node's, connected or
\* not, and the other node's only if the active one never connected.  After
\* Connect the active node always has one, so the call changes nothing.
JetStreamNode == IF active \in conns THEN active ELSE Other(active)

\* The monitor reaches a connection: a client that is not connected is
\* recorded as such, the others are flushed.
MonitorNode(n) ==
    /\ phase = "open" /\ ping = Idle /\ n \in conns \ visited
    /\ IF link[n]
       THEN /\ ping' = [node |-> n, stage |-> "flush"]
            /\ UNCHANGED <<health, visited>>
       ELSE /\ health' = [health EXCEPT ![n].connected = FALSE]
            /\ visited' = visited \cup {n}
            /\ UNCHANGED ping
    /\ UNCHANGED <<phase, conns, link, callbacks, active, outages, excuse>>

\* The pong has arrived; the monitor's task is not scheduled yet.
MonitorPong ==
    /\ phase = "open" /\ ping.stage = "flush" /\ link[ping.node]
    /\ ping' = [ping EXCEPT !.stage = "pong"]
    /\ UNCHANGED <<phase, conns, link, callbacks, health, active, visited,
                   outages, excuse>>

MonitorRecord(slow) ==
    /\ phase = "open" /\ ping.stage = "pong"
    /\ health' = [health EXCEPT ![ping.node] = [connected |-> TRUE, slow |-> slow]]
    /\ visited' = visited \cup {ping.node}
    /\ ping' = Idle
    /\ UNCHANGED <<phase, conns, link, callbacks, active, outages, excuse>>

MonitorFlushFails ==
    /\ phase = "open" /\ ping.stage = "flush"
    /\ health' = [health EXCEPT ![ping.node].connected = FALSE]
    /\ visited' = visited \cup {ping.node}
    /\ ping' = Idle
    /\ UNCHANGED <<phase, conns, link, callbacks, active, outages, excuse>>

\* Mutant: the round ends without looking for a recovered local node.
MonitorSwitchOnlyEnds ==
    /\ phase = "open" /\ visited = conns
    /\ visited' = {}
    /\ UNCHANGED <<phase, conns, link, callbacks, health, active, ping, outages,
                   excuse>>

\* The end of a round: back to the local node if it is up and quick.
MonitorSwitch ==
    /\ phase = "open" /\ visited = conns
    /\ visited' = {}
    /\ active' = IF health["local"].connected /\ ~health["local"].slow
                 THEN "local" ELSE active
    /\ excuse' = IF active' = active THEN excuse
                 ELSE IF link["local"] THEN "none" ELSE "stale health"
    /\ UNCHANGED <<phase, conns, link, callbacks, health, ping, outages>>

\* close cancels the monitor and closes both clients, whose disconnected
\* callbacks still run.
Close ==
    /\ phase = "open"
    /\ phase' = "closed"
    /\ link' = [n \in Node |-> FALSE]
    /\ callbacks' = [n \in Node |-> IF n \in conns /\ link[n]
                                    THEN Append(callbacks[n], "down")
                                    ELSE callbacks[n]]
    /\ ping' = Idle
    /\ UNCHANGED <<conns, health, active, visited, outages, excuse>>

Monitor ==
    \/ \E n \in Node : MonitorNode(n)
    \/ MonitorPong
    \/ \E slow \in BOOLEAN : MonitorRecord(slow)
    \/ MonitorFlushFails
    \/ MonitorSwitch

ClusterNext ==
    \/ Connect
    \/ \E n \in Node : LoseLink(n)
    \/ \E n \in Node : RegainLink(n)
    \/ \E n \in Node : OnDisconnect(n)
    \/ \E n \in Node : OnReconnect(n)
    \/ UseConnection
    \/ Monitor
    \/ Close

\* The monitor is a task of a running loop: it goes on with its rounds.
ClusterFairness == WF_clusterVars(Monitor)

ClusterSpec == ClusterInit /\ [][ClusterNext]_clusterVars /\ ClusterFairness

----------------------------------------------------------------------------
\* A caller of the jetstream property gets the context of a dead node while
\* the other one is connected only when _failover was refused, because the
\* recorded health of the other node was bad, or when it or the monitor
\* switched on a recorded health older than the outage; in every other case
\* the disconnected callback has moved the traffic (cluster.py).
StrandedOnlyWithExcuse ==
    phase = "open" /\ link[Other(JetStreamNode)] /\ callbacks[JetStreamNode] = <<>>
        => link[JetStreamNode] \/ excuse # "none"

\* The state has its shape, and a caller is stranded only with an excuse
\* (cluster.py).
ClusterSafe == ClusterTypeOK /\ StrandedOnlyWithExcuse

\* Traffic comes back: when the local node stays healthy and quick, the
\* manager settles on it (the auto-recovery of _health_monitor).
LocalPreferred ==
    <>[](phase = "open" /\ link["local"] /\ health["local"].connected
            /\ ~health["local"].slow)
        => <>[](active = "local")

=============================================================================
