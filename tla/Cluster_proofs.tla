--------------------------- MODULE Cluster_proofs ---------------------------
(***************************************************************************)
(* Proofs about Cluster, for any number of outages: traffic stays on a     *)
(* dead node while the other one is connected only after a refused         *)
(* failover or a switch on a stale health record.  And about EventPipeline,*)
(* which works over those links, for any streams of events: nothing that   *)
(* was acknowledged is lost unless it was refused.  And about              *)
(* ParallelRouter, which gives work to the swarm, for any batch and pool.  *)
(***************************************************************************)
EXTENDS Cluster, EventPipeline, ParallelRouter, SequenceTheorems, FiniteSetTheorems,
        TLAPS

-----------------------------------------------------------------------------
(* The inductive invariant                                                  *)

\* Only nodes that were connected at the start have a link, a health record
\* that is good, callbacks to run or a ping under way; the active node is one
\* of them.
Rooted ==
    /\ \A n \in Node : n \notin conns =>
          /\ ~link[n] /\ ~health[n].connected /\ callbacks[n] = <<>>
          /\ ping.node # n
    /\ IF phase = "new" THEN conns = {} ELSE active \in conns

\* The last callback a client has to run is the one for the loss of its link.
PendingDown(n) ==
    callbacks[n] # <<>> /\ callbacks[n][Len(callbacks[n])] = "down"

\* Where the active node is dead and nothing excuses it, the callback that
\* will move the traffic is still to run.
FailoverToCome ==
    phase = "open" => link[active] \/ excuse # "none" \/ PendingDown(active)

IInv == ClusterTypeOK /\ Rooted /\ FailoverToCome

-----------------------------------------------------------------------------
\* The callbacks of a client, after one was added or run.
LEMMA Added ==
    ASSUME NEW s \in Seq({"down", "up"}), NEW e \in {"down", "up"}
    PROVE  /\ Append(s, e) \in Seq({"down", "up"}) /\ Append(s, e) # <<>>
           /\ Append(s, e)[Len(Append(s, e))] = e
  OBVIOUS

LEMMA Ran ==
    ASSUME NEW s \in Seq({"down", "up"}), s # <<>>
    PROVE  /\ Tail(s) \in Seq({"down", "up"})
           /\ s[Len(s)] = "down" /\ Head(s) = "up" =>
                 Tail(s) # <<>> /\ Tail(s)[Len(Tail(s))] = "down"
<1>1. /\ Tail(s) \in Seq({"down", "up"}) /\ Len(Tail(s)) = Len(s) - 1
      /\ \A i \in 1 .. Len(Tail(s)) : Tail(s)[i] = s[i + 1]
  BY HeadTailProperties
<1>2. Len(s) \in Nat /\ Len(s) # 0 /\ Head(s) = s[1]
  OBVIOUS
<1>3. ASSUME s[Len(s)] = "down", Head(s) = "up"
      PROVE  Tail(s) # <<>> /\ Tail(s)[Len(Tail(s))] = "down"
  <2> DEFINE n == Len(s)
             m == Len(Tail(s))
  <2>1. n # 1
    BY <1>2, <1>3
  <2>2. m \in 1 .. m /\ m + 1 = n /\ m # 0
    <3>1. n \in Nat /\ n # 0 /\ m = n - 1
      BY <1>1, <1>2
    <3> HIDE DEF n, m
    <3> QED BY <2>1, <3>1
  <2>3. Tail(s)[m] = s[m + 1]
    BY <1>1, <2>2, Zenon
  <2>4. Len(<<>>) = 0
    OBVIOUS
  <2> QED
    BY <1>3, <2>2, <2>3, <2>4, Zenon
<1> QED
  BY <1>1, <1>3

-----------------------------------------------------------------------------
LEMMA IInvInit ==
    ASSUME MaxOutages \in Nat PROVE ClusterInit => IInv
<1> SUFFICES ASSUME ClusterInit PROVE IInv
  OBVIOUS
<1> USE DEF ClusterInit, Node, Idle
<1>1. link \in [Node -> BOOLEAN] /\ health \in [Node -> [connected : BOOLEAN, slow : BOOLEAN]]
  OBVIOUS
<1>2. callbacks \in [Node -> Seq({"down", "up"})]
  OBVIOUS
<1>3. ClusterTypeOK
  BY <1>1, <1>2 DEF ClusterTypeOK
<1> QED
  BY <1>3 DEF IInv, Rooted, FailoverToCome

\* A ping that is under way is one of a connected node.
LEMMA PingType ==
    ASSUME ClusterTypeOK, Rooted, ping.stage \in {"flush", "pong"}
    PROVE  /\ ping.node \in Node /\ ping.node \in conns
           /\ [ping EXCEPT !.stage = "pong"] = [node |-> ping.node, stage |-> "pong"]
<1>1. ping \in [node : Node, stage : {"flush", "pong"}]
  <2>1. Idle.stage = "idle"
    BY DEF Idle
  <2>2. ping \in {Idle} \cup [node : Node, stage : {"flush", "pong"}]
    BY DEF ClusterTypeOK
  <2> QED
    BY <2>1, <2>2
<1> QED
  BY <1>1 DEF Rooted

\* Recording a node as connected or not keeps the type of the health table.
LEMMA HealthType ==
    ASSUME ClusterTypeOK, NEW n \in Node, NEW b \in BOOLEAN, NEW slow \in BOOLEAN
    PROVE  /\ [health EXCEPT ![n].connected = b] \in
                  [Node -> [connected : BOOLEAN, slow : BOOLEAN]]
           /\ [health EXCEPT ![n] = [connected |-> b, slow |-> slow]] \in
                  [Node -> [connected : BOOLEAN, slow : BOOLEAN]]
  BY DEF ClusterTypeOK

LEMMA TypeStep ==
    ASSUME MaxOutages \in Nat, IInv, ClusterNext PROVE ClusterTypeOK'
<1>0. ClusterTypeOK /\ Rooted
  BY DEF IInv
<1>1. CASE Connect
  <2>1. PICK up \in (SUBSET Node) \ {{}} :
           /\ conns' = up /\ link' = [n \in Node |-> n \in up]
           /\ health' = [n \in Node |-> [health[n] EXCEPT !.connected = n \in up]]
           /\ active' = IF "local" \in up THEN "local" ELSE "railway"
    BY <1>1 DEF Connect
  <2>2. link' \in [Node -> BOOLEAN]
    <3>1. link' = [n \in Node |-> n \in up]
      BY <2>1
    <3>2. \A n \in Node : (n \in up) \in BOOLEAN
      OBVIOUS
    <3> QED
      BY <3>1, <3>2, Zenon
  <2>3. health' \in [Node -> [connected : BOOLEAN, slow : BOOLEAN]]
    <3> SUFFICES ASSUME NEW n \in Node
                 PROVE  [health[n] EXCEPT !.connected = n \in up] \in
                            [connected : BOOLEAN, slow : BOOLEAN]
      BY <2>1
    <3>1. health[n] \in [connected : BOOLEAN, slow : BOOLEAN]
      BY <1>0 DEF ClusterTypeOK
    <3>2. ASSUME NEW b \in BOOLEAN
          PROVE  [health[n] EXCEPT !.connected = b] \in [connected : BOOLEAN, slow : BOOLEAN]
      BY <3>1
    <3>3. (n \in up) \in BOOLEAN
      OBVIOUS
    <3> QED
      BY <3>2, <3>3, Zenon
  <2>4. conns' \subseteq Node /\ active' \in Node /\ visited' \subseteq conns'
    <3>1. visited = {} /\ visited' = visited
      BY <1>0, <1>1 DEF Connect, ClusterTypeOK, Rooted
    <3> QED
      BY <2>1, <3>1 DEF Node
  <2> QED
    BY <1>0, <1>1, <2>2, <2>3, <2>4 DEF Connect, ClusterTypeOK
<1>2. ASSUME NEW n \in Node, LoseLink(n) PROVE ClusterTypeOK'
  <2>1. callbacks[n] \in Seq({"down", "up"})
    BY <1>0 DEF ClusterTypeOK
  <2>2. callbacks' \in [Node -> Seq({"down", "up"})]
    BY <1>0, <1>2, <2>1, Added DEF LoseLink, ClusterTypeOK
  <2>3. link' \in [Node -> BOOLEAN]
    BY <1>0, <1>2 DEF LoseLink, ClusterTypeOK
  <2> QED
    <3>1. outages' \in 0 .. MaxOutages
      <4>1. outages \in 0 .. MaxOutages /\ outages < MaxOutages /\ outages' = outages + 1
        BY <1>0, <1>2 DEF LoseLink, ClusterTypeOK
      <4> QED
        BY <4>1
    <3> QED
      BY <1>0, <1>2, <2>2, <2>3, <3>1 DEF LoseLink, ClusterTypeOK
<1>3. ASSUME NEW n \in Node, RegainLink(n) PROVE ClusterTypeOK'
  <2>1. callbacks[n] \in Seq({"down", "up"})
    BY <1>0 DEF ClusterTypeOK
  <2>2. callbacks' \in [Node -> Seq({"down", "up"})]
    BY <1>0, <1>3, <2>1, Added DEF RegainLink, ClusterTypeOK
  <2>3. link' \in [Node -> BOOLEAN]
    BY <1>0, <1>3 DEF RegainLink, ClusterTypeOK
  <2> QED
    BY <1>0, <1>3, <2>2, <2>3 DEF RegainLink, ClusterTypeOK
<1>4. ASSUME NEW n \in Node, OnDisconnect(n) PROVE ClusterTypeOK'
  <2>1. health' \in [Node -> [connected : BOOLEAN, slow : BOOLEAN]]
    BY <1>0, <1>4, HealthType DEF OnDisconnect
  <2>2. callbacks' \in [Node -> Seq({"down", "up"})]
    <3>1. Tail(callbacks[n]) \in Seq({"down", "up"})
      BY <1>0, <1>4, Ran DEF OnDisconnect, ClusterTypeOK
    <3> QED
      BY <1>0, <1>4, <3>1 DEF OnDisconnect, ClusterTypeOK
  <2>3. active' \in Node /\ excuse' \in {"none", "failover refused", "stale health"}
    BY <1>0, <1>4 DEF OnDisconnect, Other, Node, ClusterTypeOK
  <2> QED
    BY <1>0, <1>4, <2>1, <2>2, <2>3 DEF OnDisconnect, ClusterTypeOK
<1>5. ASSUME NEW n \in Node, OnReconnect(n) PROVE ClusterTypeOK'
  <2>1. health' \in [Node -> [connected : BOOLEAN, slow : BOOLEAN]]
    BY <1>0, <1>5, HealthType DEF OnReconnect
  <2>2. callbacks' \in [Node -> Seq({"down", "up"})]
    <3>1. Tail(callbacks[n]) \in Seq({"down", "up"})
      BY <1>0, <1>5, Ran DEF OnReconnect, ClusterTypeOK
    <3> QED
      BY <1>0, <1>5, <3>1 DEF OnReconnect, ClusterTypeOK
  <2> QED
    BY <1>0, <1>5, <2>1, <2>2 DEF OnReconnect, ClusterTypeOK
<1>6. CASE UseConnection
  BY <1>0, <1>6 DEF UseConnection, Other, Node, ClusterTypeOK
<1>7. ASSUME NEW n \in Node, MonitorNode(n) PROVE ClusterTypeOK'
  <2>1. CASE link[n]
    <3>1. /\ ping' = [node |-> n, stage |-> "flush"]
          /\ UNCHANGED <<phase, conns, link, callbacks, health, active, visited, outages,
                         excuse>>
      BY <1>7, <2>1 DEF MonitorNode
    <3>2. ping' \in [node : Node, stage : {"flush", "pong"}]
      BY <3>1
    <3> QED
      BY <1>0, <3>1, <3>2 DEF ClusterTypeOK
  <2>2. CASE ~link[n]
    <3>1. health' \in [Node -> [connected : BOOLEAN, slow : BOOLEAN]]
      <4>1. health' = [health EXCEPT ![n].connected = FALSE]
        BY <1>7, <2>2 DEF MonitorNode
      <4> QED
        BY <1>0, <4>1, HealthType
    <3>2. visited' \subseteq conns
      BY <1>0, <1>7, <2>2 DEF MonitorNode, ClusterTypeOK
    <3> QED
      BY <1>0, <1>7, <2>2, <3>1, <3>2 DEF MonitorNode, ClusterTypeOK
  <2> QED
    BY <2>1, <2>2
<1>8. CASE MonitorPong
  <2>1. ping' \in [node : Node, stage : {"flush", "pong"}]
    BY <1>0, <1>8, PingType DEF MonitorPong
  <2> QED
    BY <1>0, <1>8, <2>1 DEF MonitorPong, ClusterTypeOK
<1>9. ASSUME NEW slow \in BOOLEAN, MonitorRecord(slow) PROVE ClusterTypeOK'
  <2>1. ping.node \in Node /\ ping.node \in conns
    BY <1>0, <1>9, PingType DEF MonitorRecord
  <2>2. health' \in [Node -> [connected : BOOLEAN, slow : BOOLEAN]]
    BY <1>0, <1>9, <2>1, HealthType DEF MonitorRecord
  <2> QED
    BY <1>0, <1>9, <2>1, <2>2 DEF MonitorRecord, ClusterTypeOK
<1>10. CASE MonitorFlushFails
  <2>1. ping.node \in Node /\ ping.node \in conns
    BY <1>0, <1>10, PingType DEF MonitorFlushFails
  <2>2. health' \in [Node -> [connected : BOOLEAN, slow : BOOLEAN]]
    BY <1>0, <1>10, <2>1, HealthType DEF MonitorFlushFails
  <2> QED
    BY <1>0, <1>10, <2>1, <2>2 DEF MonitorFlushFails, ClusterTypeOK
<1>11. CASE MonitorSwitch
  <2>1. active' \in Node /\ excuse' \in {"none", "failover refused", "stale health"}
    BY <1>0, <1>11 DEF MonitorSwitch, Node, ClusterTypeOK
  <2> QED
    BY <1>0, <1>11, <2>1 DEF MonitorSwitch, ClusterTypeOK
<1>12. CASE Close
  BY <1>0, <1>12, Added DEF Close, ClusterTypeOK
<1> QED
  BY <1>1, <1>2, <1>3, <1>4, <1>5, <1>6, <1>7, <1>8, <1>9, <1>10, <1>11, <1>12
  DEF ClusterNext, Monitor

LEMMA RootedStep ==
    ASSUME MaxOutages \in Nat, IInv, ClusterNext PROVE Rooted'
<1>0. ClusterTypeOK /\ Rooted
  BY DEF IInv
<1>1. CASE Connect
  <2>1. PICK up \in (SUBSET Node) \ {{}} :
           /\ conns' = up /\ link' = [n \in Node |-> n \in up]
           /\ health' = [n \in Node |-> [health[n] EXCEPT !.connected = n \in up]]
           /\ active' = IF "local" \in up THEN "local" ELSE "railway"
    BY <1>1 DEF Connect
  <2>2. active' \in conns'
    BY <2>1 DEF Node
  <2>3. \A n \in Node : n \notin conns' =>
           ~link'[n] /\ ~health'[n].connected /\ callbacks'[n] = <<>> /\ ping'.node # n
    <3> SUFFICES ASSUME NEW n \in Node, n \notin up
                 PROVE  ~link'[n] /\ ~health'[n].connected /\ callbacks'[n] = <<>>
                        /\ ping'.node # n
      BY <2>1
    <3>1. callbacks[n] = <<>> /\ ping.node # n
      BY <1>0, <1>1 DEF Connect, Rooted
    <3>2. health[n] \in [connected : BOOLEAN, slow : BOOLEAN]
      BY <1>0 DEF ClusterTypeOK
    <3>3. health'[n] = [health[n] EXCEPT !.connected = n \in up] /\ ~link'[n]
      BY <2>1
    <3>4. ~health'[n].connected
      <4>1. ASSUME NEW b PROVE [health[n] EXCEPT !.connected = b].connected = b
        BY <3>2
      <4>2. health'[n].connected = (n \in up)
        BY <3>3, <4>1, Zenon
      <4> QED
        BY <4>2, Zenon
    <3> QED
      BY <1>1, <3>1, <3>3, <3>4 DEF Connect
  <2>4. phase' = "open"
    BY <1>1 DEF Connect
  <2> QED
    BY <2>2, <2>3, <2>4 DEF Rooted
<1>2. ASSUME NEW n \in Node, LoseLink(n) PROVE Rooted'
  BY <1>0, <1>2 DEF LoseLink, ClusterTypeOK, Rooted
<1>3. ASSUME NEW n \in Node, RegainLink(n) PROVE Rooted'
  BY <1>0, <1>3 DEF RegainLink, ClusterTypeOK, Rooted
<1>4. ASSUME NEW n \in Node, OnDisconnect(n) PROVE Rooted'
  <2>1. n \in conns
    BY <1>0, <1>4 DEF OnDisconnect, Rooted
  <2>2. \A m \in Node : m # n => callbacks'[m] = callbacks[m] /\ health'[m] = health[m]
    BY <1>0, <1>4 DEF OnDisconnect, ClusterTypeOK
  <2>3. Other(n) \in Node /\ Other(n) # n
    BY DEF Other, Node
  <2>4. active' = active \/ (active' = Other(n) /\ health[Other(n)].connected)
    BY <1>4, <2>2, <2>3 DEF OnDisconnect
  <2>5. phase' # "new" => active' \in conns
    BY <1>0, <1>4, <2>3, <2>4 DEF OnDisconnect, Rooted
  <2> QED
    BY <1>0, <1>4, <2>1, <2>2, <2>5 DEF OnDisconnect, Rooted
<1>5. ASSUME NEW n \in Node, OnReconnect(n) PROVE Rooted'
  <2>1. n \in conns
    BY <1>0, <1>5 DEF OnReconnect, Rooted
  <2>2. \A m \in Node : m # n => callbacks'[m] = callbacks[m] /\ health'[m] = health[m]
    BY <1>0, <1>5 DEF OnReconnect, ClusterTypeOK
  <2> QED
    BY <1>0, <1>5, <2>1, <2>2 DEF OnReconnect, Rooted
<1>6. CASE UseConnection
  <2>1. Other(active) \in Node
    BY DEF Other, Node
  <2> QED
    BY <1>0, <1>6, <2>1 DEF UseConnection, Rooted
<1>7. ASSUME NEW n \in Node, MonitorNode(n) PROVE Rooted'
  <2>1. CASE link[n]
    BY <1>0, <1>7, <2>1 DEF MonitorNode, Rooted
  <2>2. CASE ~link[n]
    <3>1. \A m \in Node : m # n => health'[m] = health[m]
      BY <1>0, <1>7, <2>2 DEF MonitorNode, ClusterTypeOK
    <3> QED
      BY <1>0, <1>7, <2>2, <3>1 DEF MonitorNode, Rooted
  <2> QED
    BY <2>1, <2>2
<1>8. CASE MonitorPong
  BY <1>0, <1>8, PingType DEF MonitorPong, Rooted
<1>9. ASSUME NEW slow \in BOOLEAN, MonitorRecord(slow) PROVE Rooted'
  <2>1. ping.node \in Node /\ ping.node \in conns
    BY <1>0, <1>9, PingType DEF MonitorRecord
  <2> QED
    BY <1>0, <1>9, <2>1 DEF MonitorRecord, ClusterTypeOK, Rooted, Idle, Node
<1>10. CASE MonitorFlushFails
  <2>1. ping.node \in Node /\ ping.node \in conns
    BY <1>0, <1>10, PingType DEF MonitorFlushFails
  <2> QED
    BY <1>0, <1>10, <2>1 DEF MonitorFlushFails, ClusterTypeOK, Rooted, Idle, Node
<1>11. CASE MonitorSwitch
  BY <1>0, <1>11 DEF MonitorSwitch, Rooted, Node
<1>12. CASE Close
  BY <1>0, <1>12 DEF Close, Rooted, Node, Idle
<1> QED
  BY <1>1, <1>2, <1>3, <1>4, <1>5, <1>6, <1>7, <1>8, <1>9, <1>10, <1>11, <1>12
  DEF ClusterNext, Monitor

LEMMA FailoverStep ==
    ASSUME MaxOutages \in Nat, IInv, ClusterNext PROVE FailoverToCome'
<1>0. ClusterTypeOK /\ Rooted /\ FailoverToCome
  BY DEF IInv
<1>1. CASE Connect
  BY <1>0, <1>1 DEF Connect, FailoverToCome, Node
<1>2. ASSUME NEW n \in Node, LoseLink(n) PROVE FailoverToCome'
  <2>1. callbacks[n] \in Seq({"down", "up"})
    BY <1>0 DEF ClusterTypeOK
  <2>2. PendingDown(n)'
    BY <1>0, <1>2, <2>1, Added DEF LoseLink, PendingDown, ClusterTypeOK
  <2>3. \A m \in Node : m # n => link'[m] = link[m] /\ callbacks'[m] = callbacks[m]
    BY <1>0, <1>2 DEF LoseLink, ClusterTypeOK
  <2>4. active \in Node /\ UNCHANGED <<phase, active, excuse>>
    BY <1>0, <1>2 DEF LoseLink, ClusterTypeOK
  <2> QED
    BY <1>0, <2>2, <2>3, <2>4 DEF FailoverToCome, PendingDown
<1>3. ASSUME NEW n \in Node, RegainLink(n) PROVE FailoverToCome'
  <2>1. link'[n]
    BY <1>0, <1>3 DEF RegainLink, ClusterTypeOK
  <2>2. \A m \in Node : m # n => link'[m] = link[m] /\ callbacks'[m] = callbacks[m]
    BY <1>0, <1>3 DEF RegainLink, ClusterTypeOK
  <2>3. active \in Node /\ UNCHANGED <<phase, active>> /\ (active # n => excuse' = excuse)
    BY <1>0, <1>3 DEF RegainLink, ClusterTypeOK
  <2> QED
    BY <1>0, <2>1, <2>2, <2>3 DEF FailoverToCome, PendingDown
<1>4. ASSUME NEW n \in Node, OnDisconnect(n) PROVE FailoverToCome'
  <2>1. active \in Node /\ UNCHANGED <<phase, link>>
    BY <1>0, <1>4 DEF OnDisconnect, ClusterTypeOK
  <2>2. CASE active # n
    <3>1. active' = active /\ excuse' = excuse /\ callbacks'[active] = callbacks[active]
      BY <1>0, <1>4, <2>1, <2>2 DEF OnDisconnect, ClusterTypeOK
    <3> QED
      BY <1>0, <2>1, <3>1 DEF FailoverToCome, PendingDown
  <2>3. CASE active = n
    <3>1. CASE active' = n
      BY <1>4, <2>3, <3>1 DEF OnDisconnect, FailoverToCome
    <3>2. CASE active' # n
      BY <1>4, <2>1, <2>3, <3>2 DEF OnDisconnect, FailoverToCome
    <3> QED
      BY <3>1, <3>2
  <2> QED
    BY <2>2, <2>3
<1>5. ASSUME NEW n \in Node, OnReconnect(n) PROVE FailoverToCome'
  <2>1. active \in Node /\ UNCHANGED <<phase, link, active, excuse>>
    BY <1>0, <1>5 DEF OnReconnect, ClusterTypeOK
  <2>2. /\ callbacks'[n] = Tail(callbacks[n]) /\ callbacks[n] \in Seq({"down", "up"})
        /\ callbacks[n] # <<>> /\ Head(callbacks[n]) = "up"
        /\ \A m \in Node : m # n => callbacks'[m] = callbacks[m]
    BY <1>0, <1>5 DEF OnReconnect, ClusterTypeOK
  <2>3. PendingDown(n) => PendingDown(n)'
    BY <2>2, Ran DEF PendingDown
  <2>4. PendingDown(active) => PendingDown(active)'
    BY <2>1, <2>2, <2>3 DEF PendingDown
  <2> QED
    BY <1>0, <2>1, <2>4 DEF FailoverToCome
<1>6. CASE UseConnection
  BY <1>6 DEF UseConnection, FailoverToCome
<1>7. CASE MonitorSwitch
  <2>1. CASE active' = active
    BY <1>0, <1>7, <2>1 DEF MonitorSwitch, FailoverToCome, PendingDown
  <2>2. CASE active' # active
    BY <1>7, <2>2 DEF MonitorSwitch, FailoverToCome
  <2> QED
    BY <2>1, <2>2
<1>8. CASE Close
  BY <1>8 DEF Close, FailoverToCome
<1>9. CASE UNCHANGED <<phase, link, callbacks, active, excuse>>
  BY <1>0, <1>9 DEF FailoverToCome, PendingDown
<1> QED
  BY <1>1, <1>2, <1>3, <1>4, <1>5, <1>6, <1>7, <1>8, <1>9
  DEF ClusterNext, Monitor, MonitorNode, MonitorPong, MonitorRecord, MonitorFlushFails

LEMMA IInvStep ==
    ASSUME MaxOutages \in Nat PROVE IInv /\ [ClusterNext]_clusterVars => IInv'
<1>1. ASSUME IInv, ClusterNext PROVE IInv'
  BY <1>1, TypeStep, RootedStep, FailoverStep DEF IInv
<1>2. ASSUME IInv, UNCHANGED clusterVars PROVE IInv'
  BY <1>2 DEF clusterVars, IInv, ClusterTypeOK, Rooted, FailoverToCome, PendingDown
<1> QED
  BY <1>1, <1>2

\* The traffic goes to a node that was connected, so the node whose JetStream
\* context a caller gets is the active one.
LEMMA SafeIfInvariant ==
    IInv => ClusterSafe
<1> SUFFICES ASSUME IInv, phase = "open", callbacks[JetStreamNode] = <<>>
             PROVE  link[JetStreamNode] \/ excuse # "none"
  BY DEF IInv, ClusterSafe, StrandedOnlyWithExcuse
<1>1. JetStreamNode = active
  BY DEF IInv, Rooted, JetStreamNode
<1> QED
  BY <1>1 DEF IInv, FailoverToCome, PendingDown

\* However outages, callbacks, monitor rounds and callers interleave in
\* cluster.py: the state keeps its shape, and a caller gets the JetStream
\* context of a dead node while the other one is connected only after a
\* refused failover or a switch on a stale health record.
THEOREM TrafficFollowsTheLinks ==
    ASSUME MaxOutages \in Nat PROVE ClusterSpec => []ClusterSafe
<1>1. ClusterInit => IInv
  BY IInvInit
<1>2. IInv /\ [ClusterNext]_clusterVars => IInv'
  BY IInvStep
<1>3. IInv => ClusterSafe
  BY SafeIfInvariant
<1> QED
  BY <1>1, <1>2, <1>3, PTL DEF ClusterSpec

-----------------------------------------------------------------------------
(* EventPipeline.  That summaries share no events as long as nothing failed *)
(* needs to know that the buffer shares none with them either, and that     *)
(* what is buffered or summarised was published, so that the next event is  *)
(* none of it.                                                              *)

OnlyPublished ==
    /\ Elements(buffer) \subseteq published
    /\ \A i \in DOMAIN summaries : summaries[i] \subseteq published

BufferFresh ==
    faults = 0 => \A i \in DOMAIN summaries : summaries[i] \cap Elements(buffer) = {}

PipelineInv ==
    PipelineTypeOK /\ ProjectedOrRefused /\ SummariesSound /\ OnlyPublished /\ BufferFresh

projectorVars == <<stream, acked, fetched, rows, refused>>
orchestratorVars == <<published, buffer, summaries, announced, received>>

LEMMA AppendElements ==
    ASSUME NEW S, NEW s \in Seq(S), NEW e \in S
    PROVE  /\ Append(s, e) \in Seq(S) /\ Elements(Append(s, e)) = Elements(s) \cup {e}
           /\ DOMAIN Append(s, e) = DOMAIN s \cup {Len(s) + 1}
           /\ Len(s) + 1 \notin DOMAIN s /\ Append(s, e)[Len(s) + 1] = e
           /\ \A i \in DOMAIN s : Append(s, e)[i] = s[i]
<1>1. /\ Append(s, e) \in Seq(S) /\ Len(s) \in Nat /\ DOMAIN s = 1 .. Len(s)
      /\ Len(Append(s, e)) = Len(s) + 1
      /\ DOMAIN Append(s, e) = 1 .. Len(s) + 1
      /\ \A i \in 1 .. Len(s) : Append(s, e)[i] = s[i]
      /\ Append(s, e)[Len(s) + 1] = e
  BY AppendProperties, LenProperties
<1>2. DOMAIN Append(s, e) = DOMAIN s \cup {Len(s) + 1} /\ Len(s) + 1 \notin DOMAIN s
  BY <1>1
<1>3. Elements(Append(s, e)) = Elements(s) \cup {e}
  BY <1>1, <1>2 DEF Elements
<1> QED
  BY <1>1, <1>2, <1>3

LEMMA ElementsInSet ==
    ASSUME NEW S, NEW s \in Seq(S) PROVE Elements(s) \subseteq S
  BY ElementOfSeq, LenProperties DEF Elements

\* The orchestrator and the projector share nothing but the count of faults.
LEMMA OrchestratorKept ==
    ASSUME PipelineInv, MaxFaults \in Nat, UNCHANGED orchestratorVars, faults' \in Nat, faults' >= faults
    PROVE  SummariesSound' /\ OnlyPublished' /\ BufferFresh'
<1>1. faults \in Nat
  BY DEF PipelineInv, PipelineTypeOK
<1> QED
  BY <1>1 DEF PipelineInv, SummariesSound, OnlyPublished, BufferFresh, orchestratorVars

LEMMA LinkStep ==
    ASSUME PipelineInv, MaxFaults \in Nat, LinkChanges
    PROVE  PipelineInv'
<1>1. /\ UNCHANGED orchestratorVars /\ UNCHANGED projectorVars
      /\ online' \in BOOLEAN
  BY DEF LinkChanges, orchestratorVars, projectorVars, PipelineInv, PipelineTypeOK
<1>2. faults' \in 0 .. MaxFaults /\ faults' >= faults
  BY DEF LinkChanges, Fault, PipelineInv, PipelineTypeOK
<1>3. PipelineTypeOK' /\ ProjectedOrRefused'
  BY <1>1, <1>2 DEF PipelineInv, PipelineTypeOK, ProjectedOrRefused, orchestratorVars,
     projectorVars
<1> QED
  BY <1>1, <1>2, <1>3, OrchestratorKept DEF PipelineInv

LEMMA StreamStep ==
    ASSUME PipelineInv, MaxFaults \in Nat, NEW e \in StreamEvent, PublishStream(e)
    PROVE  PipelineInv'
<1>1. /\ published' = published \cup {e}
      /\ stream' = IF online THEN Append(stream, e) ELSE stream
      /\ UNCHANGED <<online, acked, fetched, rows, buffer, summaries, announced,
                     received, refused, faults>>
  BY DEF PublishStream
<1>2. stream' \in Seq(StreamEvent) /\ Elements(stream) \subseteq Elements(stream')
  BY <1>1, AppendElements DEF PipelineInv, PipelineTypeOK
<1>3. PipelineTypeOK'
  BY <1>1, <1>2 DEF PipelineInv, PipelineTypeOK
<1>4. ProjectedOrRefused' /\ SummariesSound' /\ OnlyPublished' /\ BufferFresh'
  BY <1>1 DEF PipelineInv, ProjectedOrRefused, SummariesSound, OnlyPublished, BufferFresh
<1> QED
  BY <1>3, <1>4 DEF PipelineInv

LEMMA TaskStep ==
    ASSUME PipelineInv, MaxFaults \in Nat, NEW e \in TaskEvent, PublishTask(e)
    PROVE  PipelineInv'
<1>1. PICK buf : buf = Append(buffer, e)
  OBVIOUS
<1>2. /\ UNCHANGED projectorVars /\ online' = online
      /\ e \notin published /\ published' = published \cup {e}
      /\ received' = IF online THEN received \cup {e} ELSE received
  BY DEF PublishTask, projectorVars
<1>3. /\ buf \in Seq(TaskEvent) /\ Elements(buf) = Elements(buffer) \cup {e}
      /\ Elements(buf) \subseteq TaskEvent /\ Elements(buffer) \subseteq TaskEvent
  BY <1>1, AppendElements, ElementsInSet DEF PipelineInv, PipelineTypeOK
<1>4. ASSUME faults' \in 0 .. MaxFaults, announced' \subseteq TaskEvent,
             buffer' \in Seq(TaskEvent), summaries' \in Seq(SUBSET TaskEvent),
             SummariesSound', OnlyPublished', BufferFresh'
      PROVE  PipelineInv'
  <2>1. PipelineTypeOK'
    BY <1>2, <1>4 DEF PipelineInv, PipelineTypeOK, projectorVars
  <2>2. ProjectedOrRefused'
    BY <1>2 DEF PipelineInv, ProjectedOrRefused, projectorVars
  <2> QED
    BY <1>4, <2>1, <2>2 DEF PipelineInv
<1>5. CASE UNCHANGED <<summaries, announced, faults>> /\ buffer' = IF online THEN buf ELSE buffer
  <2>1. buffer' \in Seq(TaskEvent)
    BY <1>3, <1>5 DEF PipelineInv, PipelineTypeOK
  <2>2. /\ Elements(buffer') = IF online THEN Elements(buffer) \cup {e} ELSE Elements(buffer)
    BY <1>3, <1>5
  <2>3. \A i \in DOMAIN summaries : e \notin summaries[i]
    BY <1>2 DEF PipelineInv, OnlyPublished
  <2>4. SummariesSound'
    BY <1>2, <1>5, <2>2 DEF PipelineInv, SummariesSound
  <2>5. OnlyPublished'
    BY <1>2, <1>5, <2>2 DEF PipelineInv, OnlyPublished
  <2>6. BufferFresh'
    BY <1>5, <2>2, <2>3 DEF PipelineInv, BufferFresh
  <2> QED
    BY <1>4, <1>5, <2>1, <2>4, <2>5, <2>6 DEF PipelineInv, PipelineTypeOK
<1>6. CASE online /\ SummarizeTask(buf)
  <2>1. PICK last : last = Len(summaries) + 1
    OBVIOUS
  <2>2. /\ summaries' \in Seq(SUBSET TaskEvent) /\ DOMAIN summaries' = DOMAIN summaries \cup {last}
        /\ last \notin DOMAIN summaries /\ summaries'[last] = Elements(buf)
        /\ \A i \in DOMAIN summaries : summaries'[i] = summaries[i]
    <3>1. summaries' = Append(summaries, Elements(buf))
      BY <1>6 DEF SummarizeTask
    <3> QED
      BY <1>3, <2>1, <3>1, AppendElements DEF PipelineInv, PipelineTypeOK
  <2>3. \/ /\ announced' = announced \cup Elements(buf)
           /\ buffer' = <<>> /\ faults' = faults
        \/ Fault /\ buffer' = buf /\ announced' = announced
    BY <1>6 DEF SummarizeTask
  <2>4. /\ buffer' \in Seq(TaskEvent) /\ announced' \subseteq TaskEvent
        /\ faults' \in 0 .. MaxFaults
    <3>1. <<>> \in Seq(TaskEvent)
      OBVIOUS
    <3>2. buffer' \in Seq(TaskEvent)
      BY <1>3, <2>3, <3>1
    <3>3. announced' \subseteq TaskEvent
      BY <1>3, <2>3 DEF PipelineInv, PipelineTypeOK
    <3>4. faults' \in 0 .. MaxFaults
      BY <2>3 DEF Fault, PipelineInv, PipelineTypeOK
    <3> QED
      BY <3>2, <3>3, <3>4
  <2>5. /\ Elements(buffer') \cup announced' = Elements(buffer) \cup {e} \cup announced
        /\ Elements(buffer') \subseteq Elements(buf)
    <3>1. Elements(<<>>) = {}
      BY DEF Elements
    <3> QED
      BY <1>3, <2>3, <3>1
  <2>6. OnlyPublished'
    BY <1>2, <1>3, <2>2, <2>5 DEF PipelineInv, OnlyPublished
  <2>7. faults' = 0 => faults = 0 /\ buffer' = <<>>
    BY <2>3 DEF Fault, PipelineInv, PipelineTypeOK
  <2>8. BufferFresh'
    <3>1. Elements(<<>>) = {}
      BY DEF Elements
    <3> QED
      BY <2>7, <3>1 DEF BufferFresh
  <2>9. SummariesSound'
    <3>1. \A i \in DOMAIN summaries : e \notin summaries[i]
      BY <1>2 DEF PipelineInv, OnlyPublished
    <3>2. faults' = 0 => \A i \in DOMAIN summaries : summaries[i] \cap Elements(buf) = {}
      BY <1>3, <2>7, <3>1 DEF PipelineInv, BufferFresh
    <3>3. faults' = 0 => \A i, j \in DOMAIN summaries : i # j => summaries[i] \cap summaries[j] = {}
      BY <2>7 DEF PipelineInv, SummariesSound
    <3>4. faults' = 0 => \A i, j \in DOMAIN summaries' : i # j => summaries'[i] \cap summaries'[j] = {}
      BY <2>2, <3>2, <3>3
    <3>5. received' = Elements(buffer') \cup announced'
      BY <1>2, <1>6, <2>5 DEF PipelineInv, SummariesSound
    <3> QED
      BY <3>4, <3>5 DEF SummariesSound
  <2> QED
    BY <1>4, <2>2, <2>4, <2>6, <2>8, <2>9
<1> QED
  BY <1>1, <1>5, <1>6 DEF PublishTask

LEMMA FetchStep ==
    ASSUME PipelineInv, MaxFaults \in Nat, NEW es, Fetch(es)
    PROVE  PipelineInv'
<1>1. /\ UNCHANGED <<online, published, stream, acked, rows, buffer, summaries,
                     announced, received, refused, faults>>
      /\ fetched' \subseteq Elements(stream)
  BY DEF Fetch
<1>2. PipelineTypeOK' /\ ProjectedOrRefused'
  BY <1>1 DEF PipelineInv, PipelineTypeOK, ProjectedOrRefused
<1>3. faults \in Nat
  BY DEF PipelineInv, PipelineTypeOK
<1> QED
  BY <1>1, <1>2, <1>3, OrchestratorKept DEF PipelineInv, orchestratorVars

LEMMA ProjectorStep ==
    ASSUME PipelineInv, MaxFaults \in Nat, NEW e \in StreamEvent,
           ProcessEvent(e) \/ ProjectorDies(e)
    PROVE  PipelineInv'
<1>1. /\ UNCHANGED <<online, stream>> /\ UNCHANGED orchestratorVars
      /\ fetched' \subseteq fetched
  BY DEF ProcessEvent, ProjectorDies, orchestratorVars
<1>2. faults' \in 0 .. MaxFaults /\ faults' >= faults
  BY DEF ProcessEvent, ProjectorDies, PostMemory, Fault, PipelineInv, PipelineTypeOK
<1>3. /\ rows' = rows \/ rows' = [rows EXCEPT ![e] = @ + 1]
      /\ refused' = refused \/ refused' = refused \cup {e}
      /\ acked' = acked \/ (acked' = acked \cup {e} /\ PostMemory(e))
  BY DEF ProcessEvent, ProjectorDies, PostMemory, Acknowledge
<1>4. rows' \in [StreamEvent -> Nat] /\ \A f \in StreamEvent : rows'[f] >= rows[f]
  <2>1. rows \in [StreamEvent -> Nat] /\ \A f \in StreamEvent : rows[f] \in Nat
    BY DEF PipelineInv, PipelineTypeOK
  <2>2. CASE rows' = rows
    BY <2>1, <2>2
  <2>3. CASE rows' = [rows EXCEPT ![e] = @ + 1]
    BY <2>1, <2>3
  <2> QED
    BY <1>3, <2>2, <2>3
<1>5. PostMemory(e) => rows'[e] > 0 \/ e \in refused'
  BY DEF PostMemory, PipelineInv, PipelineTypeOK
<1>6. ProjectedOrRefused'
  BY <1>3, <1>4, <1>5 DEF PipelineInv, PipelineTypeOK, ProjectedOrRefused
<1>7. PipelineTypeOK'
  BY <1>1, <1>2, <1>3, <1>4 DEF PipelineInv, PipelineTypeOK, orchestratorVars
<1> QED
  BY <1>1, <1>2, <1>6, <1>7, OrchestratorKept DEF PipelineInv

\* Whatever connections, requests and processes fail, and however often messages
\* are delivered again: an acknowledged event of swarm.events has its memory row
\* or its request was refused, and what the orchestrator received is buffered or
\* in a published summary (run of projector.py, _summarize_task).
THEOREM PipelineKept ==
    ASSUME MaxFaults \in Nat PROVE PipelineSpec => []PipelineSafe
<1>1. PipelineInit => PipelineInv
  <2> SUFFICES ASSUME PipelineInit PROVE PipelineInv
    OBVIOUS
  <2>1. Elements(<<>>) = {} /\ DOMAIN <<>> = {}
    BY DEF Elements
  <2>2. PipelineTypeOK
    BY <2>1 DEF PipelineInit, PipelineTypeOK
  <2>3. ProjectedOrRefused /\ SummariesSound /\ OnlyPublished /\ BufferFresh
    BY <2>1 DEF PipelineInit, ProjectedOrRefused, SummariesSound, OnlyPublished, BufferFresh
  <2> QED
    BY <2>2, <2>3 DEF PipelineInv
<1>2. PipelineInv /\ [PipelineNext]_pipelineVars => PipelineInv'
  <2> SUFFICES ASSUME PipelineInv, [PipelineNext]_pipelineVars PROVE PipelineInv'
    OBVIOUS
  <2>1. CASE UNCHANGED pipelineVars
    BY <2>1 DEF pipelineVars, PipelineInv, PipelineTypeOK, ProjectedOrRefused,
       SummariesSound, OnlyPublished, BufferFresh
  <2>2. CASE PipelineNext
    BY <2>2, LinkStep, StreamStep, TaskStep, FetchStep, ProjectorStep DEF PipelineNext
  <2> QED
    BY <2>1, <2>2
<1>3. PipelineInv => PipelineSafe
  BY DEF PipelineInv, PipelineSafe
<1> QED
  BY <1>1, <1>2, <1>3, PTL DEF PipelineSpec

-----------------------------------------------------------------------------
(* The worker router                                                        *)

\* A batch of some size, workers with capacities, and Gone is no load.
Pool ==
    /\ BatchSize \in Nat /\ Capacity \in [PoolWorker -> Nat] /\ Gone \notin Int

RouterTyped ==
    /\ RouterTypeOK
    /\ load \in [PoolWorker -> Int \cup {Gone}]
    /\ onError \in [at : {"idle", "calling", "sleeping"}, task : 0 .. BatchSize]
    /\ onError.at = "sleeping" => onError.task \in Subtask
    /\ IsFiniteSet(resultMsgs) /\ IsFiniteSet(errorMsgs)

\* The count of a worker is never behind what it has; it may be ahead, because
\* answers for a batch that is gone do not lower it.
Loaded ==
    \A w \in PoolWorker \ recounted :
        /\ Cardinality(inbox[w]) <= Capacity[w]
        /\ load[w] # Gone => Backlog(w) <= load[w]

\* After a call of the callback the batch is gone, or the subscription still
\* waits for it.
CalledBack ==
    /\ caller = "idle" => ~open /\ calls = {}
    /\ \A c \in calls : open => /\ asyncCallback
                                /\ c.by = "result" => onResult = "calling"
                                /\ c.by = "error" => onError.at = "calling"
    /\ \A c, d \in calls : c.by = d.by \/ ~asyncCallback => c = d

RouterInv == RouterTyped /\ Loaded /\ CalledBack /\ EarlyOnlyAfterRetry

-----------------------------------------------------------------------------
\* The tasks of a worker are finitely many.
LEMMA FiniteTasks ==
    ASSUME Pool, NEW S, S \subseteq Subtask
    PROVE  IsFiniteSet(S) /\ Cardinality(S) \in Nat
<1>1. IsFiniteSet(Subtask)
  BY FS_Interval DEF Subtask, Pool
<1>2. IsFiniteSet(S)
  BY <1>1, FS_Subset
<1> QED
  BY <1>2, FS_CardinalityType

\* An answer more or less counts for its worker only.
LEMMA OneAnswer ==
    ASSUME NEW S, IsFiniteSet(S), NEW m, NEW w
    PROVE  /\ Cardinality(OfWorker(S, w)) \in Nat
           /\ Cardinality(OfWorker(S \cup {m}, w)) \in Nat
           /\ Cardinality(OfWorker(S \ {m}, w)) \in Nat
           /\ m.worker = w =>
                Cardinality(OfWorker(S \cup {m}, w)) <= Cardinality(OfWorker(S, w)) + 1
           /\ m.worker # w => OfWorker(S \cup {m}, w) = OfWorker(S, w)
           /\ m \in S /\ m.worker = w =>
                Cardinality(OfWorker(S \ {m}, w)) = Cardinality(OfWorker(S, w)) - 1
           /\ m \notin S \/ m.worker # w => OfWorker(S \ {m}, w) = OfWorker(S, w)
<1>1. IsFiniteSet(OfWorker(S, w))
  BY FS_Subset DEF OfWorker
<1>2. Cardinality(OfWorker(S, w)) \in Nat
  BY <1>1, FS_CardinalityType
<1>3. /\ IsFiniteSet(OfWorker(S, w) \cup {m}) /\ IsFiniteSet(OfWorker(S, w) \ {m})
      /\ Cardinality(OfWorker(S, w) \cup {m})
           = IF m \in OfWorker(S, w) THEN Cardinality(OfWorker(S, w))
             ELSE Cardinality(OfWorker(S, w)) + 1
      /\ Cardinality(OfWorker(S, w) \ {m})
           = IF m \in OfWorker(S, w) THEN Cardinality(OfWorker(S, w)) - 1
             ELSE Cardinality(OfWorker(S, w))
  BY <1>1, FS_AddElement, FS_RemoveElement
<1>4. Cardinality(OfWorker(S, w) \ {m}) \in Nat
  BY <1>3, FS_CardinalityType
<1>5. /\ OfWorker(S \cup {m}, w)
           = IF m.worker = w THEN OfWorker(S, w) \cup {m} ELSE OfWorker(S, w)
      /\ OfWorker(S \ {m}, w) = OfWorker(S, w) \ {m}
      /\ m \in OfWorker(S, w) <=> m \in S /\ m.worker = w
  BY DEF OfWorker
<1>6. CASE m.worker = w
  <2>1. Cardinality(OfWorker(S, w) \cup {m}) \in Nat
    BY <1>3, FS_CardinalityType
  <2>2. Cardinality(OfWorker(S, w) \cup {m}) <= Cardinality(OfWorker(S, w)) + 1
    BY <1>2, <1>3
  <2>3. m \in S => Cardinality(OfWorker(S, w) \ {m}) = Cardinality(OfWorker(S, w)) - 1
    BY <1>3, <1>5, <1>6
  <2>4. m \notin S => OfWorker(S, w) \ {m} = OfWorker(S, w)
    BY <1>5
  <2> QED
    BY <1>2, <1>4, <1>5, <1>6, <2>1, <2>2, <2>3, <2>4
<1>7. CASE m.worker # w
  <2>1. OfWorker(S, w) \ {m} = OfWorker(S, w)
    BY <1>5, <1>7
  <2> QED
    BY <1>2, <1>5, <1>7, <2>1
<1> QED
  BY <1>6, <1>7

\* A set of tasks with one more or one less.
LEMMA OneTask ==
    ASSUME Pool, NEW S, S \subseteq Subtask, NEW t \in Subtask
    PROVE  /\ Cardinality(S) \in Nat
           /\ Cardinality(S \cup {t}) \in Nat
           /\ Cardinality(S \cup {t}) <= Cardinality(S) + 1
           /\ Cardinality(S \ {t}) \in Nat
           /\ Cardinality(S \ {t}) = Cardinality(S) - (IF t \in S THEN 1 ELSE 0)
<1>1. /\ IsFiniteSet(S) /\ Cardinality(S) \in Nat
      /\ Cardinality(S \cup {t}) \in Nat /\ Cardinality(S \ {t}) \in Nat
  BY FiniteTasks
<1>2. Cardinality(S \cup {t}) = IF t \in S THEN Cardinality(S) ELSE Cardinality(S) + 1
  BY <1>1, FS_AddElement
<1>3. Cardinality(S \ {t}) = IF t \in S THEN Cardinality(S) - 1 ELSE Cardinality(S)
  BY <1>1, FS_RemoveElement
<1> QED
  BY <1>1, <1>2, <1>3

-----------------------------------------------------------------------------
\* A worker announces itself.
LEMMA ReadySent ==
    ASSUME Pool, RouterInv, NEW w \in PoolWorker, NEW count \in 0 .. BatchSize \cup {Gone},
           WorkerReady(w, count)
    PROVE  RouterInv'
<1>1. /\ UNCHANGED <<mode, asyncCallback, caller, next, open, results, errors, load, inbox,
                     resultMsgs, errorMsgs, onResult, onError, calls, recounted>>
      /\ readyMsgs' = readyMsgs \cup {[worker |-> w, count |-> count]}
      /\ RouterTyped /\ Loaded /\ CalledBack /\ EarlyOnlyAfterRetry
  BY DEF WorkerReady, RouterInv
<1>2. readyMsgs' \subseteq Announcement
  BY <1>1 DEF RouterTyped, RouterTypeOK, Announcement
<1>3. RouterTyped'
  BY <1>1, <1>2 DEF RouterTyped, RouterTypeOK, Subtask, WorkerAnswer
<1>4. Loaded' /\ CalledBack' /\ EarlyOnlyAfterRetry'
  BY <1>1 DEF Loaded, Backlog, CalledBack, EarlyOnlyAfterRetry, Subtask
<1> QED
  BY <1>3, <1>4 DEF RouterInv

\* A worker joins or leaves.
LEMMA PoolChanges ==
    ASSUME Pool, RouterInv,
           (\E m \in readyMsgs : HandleReady(m)) \/ (\E w \in PoolWorker : RemoveStale(w))
    PROVE  RouterInv'
<1>1. /\ UNCHANGED <<mode, asyncCallback, caller, next, open, results, errors, inbox,
                     resultMsgs, errorMsgs, onResult, onError, dropped, calls>>
      /\ RouterTyped /\ Loaded /\ CalledBack /\ EarlyOnlyAfterRetry
      /\ recounted \subseteq recounted'
  BY DEF HandleReady, RemoveStale, RouterInv
<1>2. PICK w \in PoolWorker :
        /\ \A v \in PoolWorker : v # w => load'[v] = load[v]
        /\ \/ load'[w] = Gone
           \/ /\ load'[w] \in 0 .. BatchSize
              /\ load'[w] < Backlog(w) => w \in recounted'
        /\ load' \in [PoolWorker -> Int \cup {Gone}]
        /\ readyMsgs' \subseteq readyMsgs
  <2>1. ASSUME NEW m \in readyMsgs, HandleReady(m)
        PROVE  \E w \in PoolWorker :
                  /\ \A v \in PoolWorker : v # w => load'[v] = load[v]
                  /\ \/ load'[w] = Gone
                     \/ /\ load'[w] \in 0 .. BatchSize
                        /\ load'[w] < Backlog(w) => w \in recounted'
                  /\ load' \in [PoolWorker -> Int \cup {Gone}]
                  /\ readyMsgs' \subseteq readyMsgs
    <3>1. m.worker \in PoolWorker /\ m.count \in 0 .. BatchSize \cup {Gone}
      BY <1>1 DEF RouterTyped, RouterTypeOK, Announcement
    <3>2. /\ load' = [load EXCEPT ![m.worker] = m.count]
          /\ readyMsgs' \subseteq readyMsgs
          /\ m.count # Gone /\ m.count < Backlog(m.worker) => m.worker \in recounted'
      BY <2>1 DEF HandleReady
    <3>3. 0 .. BatchSize \subseteq Int /\ Gone \notin 0 .. BatchSize
      BY DEF Pool
    <3>4. /\ load' \in [PoolWorker -> Int \cup {Gone}] /\ load'[m.worker] = m.count
          /\ \A v \in PoolWorker : v # m.worker => load'[v] = load[v]
      BY <3>1, <3>2, <3>3, <1>1 DEF RouterTyped
    <3> QED
      BY <3>1, <3>2, <3>3, <3>4
  <2>2. ASSUME NEW w \in PoolWorker, RemoveStale(w)
        PROVE  /\ \A v \in PoolWorker : v # w => load'[v] = load[v]
               /\ load'[w] = Gone
               /\ load' \in [PoolWorker -> Int \cup {Gone}]
               /\ readyMsgs' \subseteq readyMsgs
    BY <2>2, <1>1 DEF RemoveStale, RouterTyped
  <2> QED
    BY <2>1, <2>2
<1>3. readyMsgs' \subseteq Announcement
  BY <1>1, <1>2 DEF RouterTyped, RouterTypeOK
<1>4. RouterTyped'
  BY <1>1, <1>2, <1>3 DEF RouterTyped, RouterTypeOK, Subtask, WorkerAnswer
<1>5. CalledBack' /\ EarlyOnlyAfterRetry'
  BY <1>1 DEF CalledBack, EarlyOnlyAfterRetry, Subtask
<1>6. ASSUME NEW v \in PoolWorker, v \notin recounted'
      PROVE  (Cardinality(inbox[v]) <= Capacity[v] /\ (load[v] # Gone => Backlog(v) <= load[v]))'
  <2>1. /\ v \notin recounted /\ Cardinality(inbox[v]) <= Capacity[v]
        /\ load[v] # Gone => Backlog(v) <= load[v]
    BY <1>6, <1>1 DEF Loaded
  <2>2. Backlog(v)' = Backlog(v)
    BY <1>1 DEF Backlog
  <2>3. Backlog(v) \in Nat
    <3>1. /\ Cardinality(inbox[v]) \in Nat
          /\ Cardinality(OfWorker(resultMsgs, v)) \in Nat
          /\ Cardinality(OfWorker(errorMsgs, v)) \in Nat
      BY <1>1, FiniteTasks, OneAnswer DEF RouterTyped, RouterTypeOK
    <3> QED
      BY <3>1 DEF Backlog
  <2>4. CASE v # w
    BY <2>4, <2>1, <2>2, <1>1, <1>2
  <2>5. CASE v = w
    <3>1. load'[v] # Gone => load'[v] \in Nat /\ ~(load'[v] < Backlog(v))
      BY <2>5, <1>2, <1>6 DEF Pool
    <3> QED
      BY <3>1, <2>1, <2>2, <2>3, <1>1
  <2> QED
    BY <2>4, <2>5
<1>7. Loaded'
  BY <1>6 DEF Loaded
<1> QED
  BY <1>4, <1>5, <1>7 DEF RouterInv

\* A subtask goes to a worker with room, or to none.
LEMMA DispatchKeepsLoads ==
    ASSUME Pool, RouterInv, NEW t \in Subtask, NEW raises \in BOOLEAN, Dispatch(t, raises),
           UNCHANGED <<resultMsgs, errorMsgs, recounted>>
    PROVE  /\ inbox' \in [PoolWorker -> SUBSET Subtask]
           /\ load' \in [PoolWorker -> Int \cup {Gone}]
           /\ Loaded'
<1>1. RouterTyped /\ Loaded
  BY DEF RouterInv
<1>2. CASE UNCHANGED <<load, inbox>>
  BY <1>1, <1>2 DEF RouterTyped, RouterTypeOK, Loaded, Backlog
<1>3. ASSUME NEW w \in PoolWorker, BestFor(t, w), load' = [load EXCEPT ![w] = @ + 1],
             inbox' = [inbox EXCEPT ![w] = @ \cup {t}] \/ UNCHANGED inbox
      PROVE  /\ inbox' \in [PoolWorker -> SUBSET Subtask]
             /\ load' \in [PoolWorker -> Int \cup {Gone}] /\ Loaded'
  <2>1. load[w] # Gone /\ load[w] \in Int /\ load[w] < Capacity[w]
    BY <1>3, <1>1 DEF BestFor, Candidates, HasRoom, RouterTyped
  <2>2. /\ inbox' \in [PoolWorker -> SUBSET Subtask]
        /\ load' \in [PoolWorker -> Int \cup {Gone}]
        /\ load'[w] = load[w] + 1 /\ inbox'[w] \in {inbox[w], inbox[w] \cup {t}}
    BY <1>3, <1>1, <2>1 DEF RouterTyped, RouterTypeOK
  <2>3. ASSUME NEW v \in PoolWorker, v \notin recounted
        PROVE  (Cardinality(inbox[v]) <= Capacity[v]
                /\ (load[v] # Gone => Backlog(v) <= load[v]))'
    <3>1. CASE v # w
      <4>1. inbox'[v] = inbox[v] /\ load'[v] = load[v] /\ Backlog(v)' = Backlog(v)
        BY <3>1, <1>3, <1>1 DEF RouterTyped, RouterTypeOK, Backlog
      <4> QED
        BY <4>1, <2>3, <1>1 DEF Loaded
    <3>2. CASE v = w
      <4>1. Cardinality(inbox[w]) \in Nat /\ Cardinality(inbox'[w]) \in Nat
            /\ Cardinality(inbox'[w]) <= Cardinality(inbox[w]) + 1
        <5>1. inbox[w] \subseteq Subtask
          BY <1>1 DEF RouterTyped, RouterTypeOK
        <5>2. /\ Cardinality(inbox[w]) \in Nat /\ Cardinality(inbox[w] \cup {t}) \in Nat
              /\ Cardinality(inbox[w] \cup {t}) <= Cardinality(inbox[w]) + 1
          BY <5>1, OneTask
        <5>3. CASE inbox'[w] = inbox[w]
          BY <5>2, <5>3
        <5>4. CASE inbox'[w] = inbox[w] \cup {t}
          BY <5>2, <5>4
        <5> QED
          BY <2>2, <5>3, <5>4
      <4>2. Cardinality(OfWorker(resultMsgs, w)) \in Nat /\ Cardinality(OfWorker(errorMsgs, w)) \in Nat
        BY <1>1, OneAnswer DEF RouterTyped
      <4>3. Backlog(w) <= load[w]
        BY <2>1, <2>3, <3>2, <1>1 DEF Loaded
      <4>4. Backlog(w)' = Cardinality(inbox'[w]) + Cardinality(OfWorker(resultMsgs, w))
                          + Cardinality(OfWorker(errorMsgs, w))
        BY DEF Backlog
      <4>5. Capacity[w] \in Nat
        BY DEF Pool
      <4>6. Backlog(w) = Cardinality(inbox[w]) + Cardinality(OfWorker(resultMsgs, w))
                         + Cardinality(OfWorker(errorMsgs, w))
        BY DEF Backlog
      <4>7. /\ Cardinality(inbox'[w]) <= Capacity[w]
            /\ Backlog(w)' <= load'[w]
        BY <4>1, <4>2, <4>3, <4>4, <4>5, <4>6, <2>1, <2>2
      <4> QED
        BY <4>7, <3>2
    <3> QED
      BY <3>1, <3>2
  <2>4. Loaded'
    BY <2>3 DEF Loaded
  <2> QED
    BY <2>2, <2>4
<1> QED
  BY <1>2, <1>3 DEF Dispatch

LEMMA DispatchStep ==
    ASSUME Pool, RouterInv, DispatchNext \/ Retry
    PROVE  RouterInv'
<1>1. /\ UNCHANGED <<mode, asyncCallback, open, results, errors, readyMsgs, resultMsgs,
                     errorMsgs, onResult, calls, recounted>>
      /\ RouterTyped /\ CalledBack /\ EarlyOnlyAfterRetry
  BY DEF DispatchNext, Retry, RouterInv
<1>2. PICK t \in Subtask, raises \in BOOLEAN : Dispatch(t, raises)
  <2>1. CASE DispatchNext
    BY <2>1, <1>1 DEF DispatchNext, RouterTyped, RouterTypeOK, Subtask, Pool
  <2>2. CASE Retry
    BY <2>2, <1>1 DEF Retry, RouterTyped
  <2> QED
    BY <2>1, <2>2
<1>3. /\ inbox' \in [PoolWorker -> SUBSET Subtask]
      /\ load' \in [PoolWorker -> Int \cup {Gone}] /\ Loaded'
  BY <1>1, <1>2, DispatchKeepsLoads
<1>4. /\ next' \in 1 .. BatchSize + 1
      /\ caller' = caller \/ (caller = "running" /\ caller' = "returned")
      /\ onError' \in [at : {"idle", "calling", "sleeping"}, task : 0 .. BatchSize]
      /\ onError' = onError \/ (onError.at = "sleeping" /\ onError'.at = "idle")
  BY <1>1 DEF DispatchNext, Retry, RouterTyped, RouterTypeOK, Pool
<1>5. RouterTyped'
  BY <1>1, <1>3, <1>4 DEF RouterTyped, RouterTypeOK, Subtask, WorkerAnswer
<1>6. CalledBack' /\ EarlyOnlyAfterRetry'
  BY <1>1, <1>4 DEF CalledBack, EarlyOnlyAfterRetry, Subtask
<1> QED
  BY <1>3, <1>5, <1>6 DEF RouterInv

-----------------------------------------------------------------------------
\* What leaves a worker's inbox is on its way to the router, or lost.
LEMMA AnswerGiven ==
    ASSUME Pool, RouterInv, NEW w \in PoolWorker, NEW t \in Subtask,
           LeaveWorker(w, t)
    PROVE  RouterInv'
<1>1. /\ UNCHANGED <<mode, asyncCallback, caller, next, open, results, errors, load,
                     readyMsgs, onResult, onError, dropped, calls, recounted>>
      /\ t \in inbox[w] /\ inbox' = [inbox EXCEPT ![w] = @ \ {t}]
      /\ RouterTyped /\ Loaded /\ CalledBack /\ EarlyOnlyAfterRetry
  BY DEF LeaveWorker, WorkerSucceeds, WorkerFails, LoseTask, RouterInv
<1>2. PICK m : /\ m.worker = w
               /\ \/ UNCHANGED <<resultMsgs, errorMsgs>>
                  \/ /\ resultMsgs' = resultMsgs \cup {m} /\ UNCHANGED errorMsgs
                     /\ m \in WorkerAnswer
                  \/ /\ errorMsgs' = errorMsgs \cup {m} /\ UNCHANGED resultMsgs
                     /\ m \in [task : Subtask, worker : PoolWorker, retry : BOOLEAN]
  <2>1. CASE WorkerSucceeds(w, t)
    <3>1. [task |-> t, worker |-> w] \in WorkerAnswer
      BY DEF WorkerAnswer
    <3> QED
      BY <2>1, <3>1 DEF WorkerSucceeds
  <2>2. ASSUME NEW retry \in BOOLEAN, WorkerFails(w, t, retry)
        PROVE  \E m : /\ m.worker = w
                      /\ errorMsgs' = errorMsgs \cup {m} /\ UNCHANGED resultMsgs
                      /\ m \in [task : Subtask, worker : PoolWorker, retry : BOOLEAN]
    <3> DEFINE n == [task |-> t, worker |-> w, retry |-> retry]
    <3>1. n.worker = w /\ n \in [task : Subtask, worker : PoolWorker, retry : BOOLEAN]
      OBVIOUS
    <3>2. errorMsgs' = errorMsgs \cup {n} /\ UNCHANGED resultMsgs
      BY <2>2 DEF WorkerFails
    <3> HIDE DEF n
    <3> QED
      BY <3>1, <3>2
  <2>3. CASE LoseTask(w, t)
    <3> DEFINE n == [worker |-> w]
    <3>1. n.worker = w
      OBVIOUS
    <3> HIDE DEF n
    <3> QED
      BY <2>3, <3>1 DEF LoseTask
  <2> QED
    BY <2>1, <2>2, <2>3 DEF LeaveWorker
<1>3. IsFiniteSet(resultMsgs)' /\ IsFiniteSet(errorMsgs)'
  BY <1>1, <1>2, FS_AddElement DEF RouterTyped
<1>4. /\ inbox' \in [PoolWorker -> SUBSET Subtask] /\ inbox'[w] = inbox[w] \ {t}
      /\ \A v \in PoolWorker : v # w => inbox'[v] = inbox[v]
  BY <1>1 DEF RouterTyped, RouterTypeOK
<1>5. RouterTypeOK'
  BY <1>1, <1>2, <1>4 DEF RouterTyped, RouterTypeOK, Subtask, WorkerAnswer
<1>6. RouterTyped'
  BY <1>1, <1>3, <1>5 DEF RouterTyped, Subtask
<1>7. CalledBack' /\ EarlyOnlyAfterRetry'
  BY <1>1 DEF CalledBack, EarlyOnlyAfterRetry, Subtask
<1>8. ASSUME NEW v \in PoolWorker, v \notin recounted
      PROVE  (Cardinality(inbox[v]) <= Capacity[v] /\ (load[v] # Gone => Backlog(v) <= load[v]))'
  <2>1. Cardinality(inbox[v]) <= Capacity[v] /\ (load[v] # Gone => Backlog(v) <= load[v])
    BY <1>8, <1>1 DEF Loaded
  <2>2. /\ Cardinality(OfWorker(resultMsgs, v)) \in Nat /\ Cardinality(OfWorker(errorMsgs, v)) \in Nat
        /\ Cardinality(OfWorker(resultMsgs', v)) \in Nat /\ Cardinality(OfWorker(errorMsgs', v)) \in Nat
    BY <1>1, <1>3, OneAnswer DEF RouterTyped
  <2>3. /\ Backlog(v) = Cardinality(inbox[v]) + Cardinality(OfWorker(resultMsgs, v))
                        + Cardinality(OfWorker(errorMsgs, v))
        /\ Backlog(v)' = Cardinality(inbox'[v]) + Cardinality(OfWorker(resultMsgs', v))
                         + Cardinality(OfWorker(errorMsgs', v))
    BY DEF Backlog
  <2>4. CASE v # w
    <3>1. OfWorker(resultMsgs', v) = OfWorker(resultMsgs, v)
          /\ OfWorker(errorMsgs', v) = OfWorker(errorMsgs, v)
      <4>1. m.worker # v
        BY <1>2, <2>4
      <4>2. /\ OfWorker(resultMsgs \cup {m}, v) = OfWorker(resultMsgs, v)
            /\ OfWorker(errorMsgs \cup {m}, v) = OfWorker(errorMsgs, v)
        BY <4>1 DEF OfWorker
      <4> QED
        BY <4>2, <1>2
    <3>2. inbox'[v] = inbox[v] /\ load' = load
      BY <1>1, <1>4, <2>4
    <3>3. Backlog(v)' = Backlog(v)
      BY <2>3, <3>1, <3>2
    <3> QED
      BY <2>1, <3>2, <3>3
  <2>5. CASE v = w
    <3>1. /\ Cardinality(inbox[w]) \in Nat /\ Cardinality(inbox'[w]) \in Nat
          /\ Cardinality(inbox'[w]) = Cardinality(inbox[w]) - 1
      <4>1. inbox[w] \subseteq Subtask
        BY <1>1 DEF RouterTyped, RouterTypeOK
      <4> QED
        BY <4>1, <1>1, <1>4, OneTask
    <3>2. \/ /\ Cardinality(OfWorker(resultMsgs', w)) <= Cardinality(OfWorker(resultMsgs, w)) + 1
             /\ UNCHANGED errorMsgs
          \/ /\ Cardinality(OfWorker(errorMsgs', w)) <= Cardinality(OfWorker(errorMsgs, w)) + 1
             /\ UNCHANGED resultMsgs
          \/ UNCHANGED <<resultMsgs, errorMsgs>>
      <4>1. CASE resultMsgs' = resultMsgs \cup {m} /\ UNCHANGED errorMsgs
        BY <4>1, <1>1, <1>2, OneAnswer DEF RouterTyped
      <4>2. CASE errorMsgs' = errorMsgs \cup {m} /\ UNCHANGED resultMsgs
        BY <4>2, <1>1, <1>2, OneAnswer DEF RouterTyped
      <4> QED
        BY <4>1, <4>2, <1>2
    <3>3. Backlog(v)' <= Backlog(v) /\ Cardinality(inbox'[w]) <= Cardinality(inbox[w])
          /\ Backlog(v) \in Nat /\ Backlog(v)' \in Nat
      BY <3>1, <3>2, <2>2, <2>3, <2>5
    <3>4. load[w] \in Int \cup {Gone} /\ Capacity[w] \in Nat
      BY <1>1 DEF RouterTyped, Pool
    <3> QED
      BY <3>1, <3>3, <3>4, <2>1, <2>5, <1>1
  <2> QED
    BY <2>4, <2>5
<1>9. Loaded'
  BY <1>8, <1>1 DEF Loaded
<1> QED
  BY <1>6, <1>7, <1>9 DEF RouterInv

\* An answer is handled: the load of its worker falls by one, if at all.
LEMMA AnswerTaken ==
    ASSUME Pool, RouterInv, NEW m, m.worker \in PoolWorker,
           \/ m \in resultMsgs /\ resultMsgs' = resultMsgs \ {m} /\ UNCHANGED errorMsgs
           \/ m \in errorMsgs /\ errorMsgs' = errorMsgs \ {m} /\ UNCHANGED resultMsgs,
           Unload(m.worker) \/ UNCHANGED load, UNCHANGED <<inbox, recounted>>
    PROVE  /\ IsFiniteSet(resultMsgs)' /\ IsFiniteSet(errorMsgs)'
           /\ load' \in [PoolWorker -> Int \cup {Gone}]
           /\ Loaded'
<1>1. RouterTyped /\ Loaded
  BY DEF RouterInv
<1>2. IsFiniteSet(resultMsgs)' /\ IsFiniteSet(errorMsgs)'
  BY <1>1, FS_RemoveElement DEF RouterTyped
<1>3. /\ load' \in [PoolWorker -> Int \cup {Gone}]
      /\ \A v \in PoolWorker : \/ load'[v] = load[v]
                               \/ load[v] # Gone /\ v = m.worker /\ load'[v] = load[v] - 1
  BY <1>1 DEF Unload, RouterTyped
<1>4. ASSUME NEW v \in PoolWorker, v \notin recounted
      PROVE  (Cardinality(inbox[v]) <= Capacity[v] /\ (load[v] # Gone => Backlog(v) <= load[v]))'
  <2>1. Cardinality(inbox[v]) <= Capacity[v] /\ (load[v] # Gone => Backlog(v) <= load[v])
    BY <1>4, <1>1 DEF Loaded
  <2>2. /\ Cardinality(OfWorker(resultMsgs, v)) \in Nat /\ Cardinality(OfWorker(errorMsgs, v)) \in Nat
        /\ Cardinality(OfWorker(resultMsgs', v)) \in Nat /\ Cardinality(OfWorker(errorMsgs', v)) \in Nat
    BY <1>1, <1>2, OneAnswer DEF RouterTyped
  <2>3. /\ Backlog(v) = Cardinality(inbox[v]) + Cardinality(OfWorker(resultMsgs, v))
                        + Cardinality(OfWorker(errorMsgs, v))
        /\ Backlog(v)' = Cardinality(inbox[v]) + Cardinality(OfWorker(resultMsgs', v))
                         + Cardinality(OfWorker(errorMsgs', v))
    BY DEF Backlog
  <2>4. CASE v # m.worker
    <3>1. OfWorker(resultMsgs', v) = OfWorker(resultMsgs, v)
          /\ OfWorker(errorMsgs', v) = OfWorker(errorMsgs, v)
      BY <1>1, <2>4, OneAnswer DEF RouterTyped
    <3> QED
      BY <3>1, <1>3, <2>1, <2>3, <2>4
  <2>5. CASE v = m.worker
    <3>1. Cardinality(inbox[v]) \in Nat
      BY <1>1, FiniteTasks DEF RouterTyped, RouterTypeOK
    <3>2. \/ /\ Cardinality(OfWorker(resultMsgs', v)) = Cardinality(OfWorker(resultMsgs, v)) - 1
             /\ UNCHANGED errorMsgs
          \/ /\ Cardinality(OfWorker(errorMsgs', v)) = Cardinality(OfWorker(errorMsgs, v)) - 1
             /\ UNCHANGED resultMsgs
      <4>1. CASE m \in resultMsgs /\ resultMsgs' = resultMsgs \ {m} /\ UNCHANGED errorMsgs
        BY <4>1, <1>1, <2>5, OneAnswer DEF RouterTyped
      <4>2. CASE m \in errorMsgs /\ errorMsgs' = errorMsgs \ {m} /\ UNCHANGED resultMsgs
        BY <4>2, <1>1, <2>5, OneAnswer DEF RouterTyped
      <4> QED
        BY <4>1, <4>2
    <3>3. Backlog(v)' = Backlog(v) - 1 /\ Backlog(v) \in Nat
      BY <3>1, <3>2, <2>2, <2>3
    <3>4. load[v] \in Int \cup {Gone}
      BY <1>1 DEF RouterTyped
    <3> QED
      BY <3>3, <3>4, <2>1, <1>3
  <2> QED
    BY <2>4, <2>5
<1> QED
  BY <1>2, <1>3, <1>4 DEF Loaded

-----------------------------------------------------------------------------
\* Two counts that add up to the batch are of all its subtasks if no subtask
\* is counted twice.
LEMMA AllAnswered ==
    ASSUME Pool, NEW r, r \subseteq Subtask, NEW e, e \subseteq Subtask, Complete(r, e)
    PROVE  r \cup e = Subtask \/ r \cap e # {}
<1> SUFFICES ASSUME r \cap e = {} PROVE r \cup e = Subtask
  OBVIOUS
<1>1. /\ IsFiniteSet(r) /\ Cardinality(r) \in Nat
      /\ IsFiniteSet(e) /\ Cardinality(e) \in Nat
      /\ IsFiniteSet(r \cup e) /\ Cardinality(r \cup e) \in Nat
      /\ IsFiniteSet(Subtask)
  BY FiniteTasks
<1>2. Cardinality(r \cup e) = Cardinality(r) + Cardinality(e) - Cardinality(r \cap e)
  BY <1>1, FS_Union
<1>3. Cardinality(r \cap e) = 0
  BY FS_EmptySet
<1>4. Cardinality(Subtask) = BatchSize
  BY FS_Interval DEF Subtask, Pool
<1>5. Cardinality(r \cup e) <= Cardinality(Subtask)
      /\ (Cardinality(Subtask) = Cardinality(r \cup e) => Subtask = r \cup e)
  <2>1. r \cup e \in SUBSET Subtask
    OBVIOUS
  <2> QED
    BY <1>1, <2>1, FS_Subset
<1> QED
  BY <1>1, <1>2, <1>3, <1>4, <1>5 DEF Complete, Pool

\* The completion test of one subscription, which is not in a call.
LEMMA Checked ==
    ASSUME Pool, RouterInv, open, NEW r, r \subseteq Subtask, NEW e, e \subseteq Subtask,
           NEW by \in {"result", "error"}, CheckBatch(r, e, by),
           by = "result" => /\ onResult = "idle"
                            /\ onResult' = IF calls' # calls /\ asyncCallback
                                           THEN "calling" ELSE "idle"
                            /\ UNCHANGED onError,
           by = "error" => /\ onError.at = "idle"
                           /\ onError'.at = IF calls' # calls /\ asyncCallback
                                            THEN "calling" ELSE "idle"
                           /\ UNCHANGED onResult,
           UNCHANGED <<asyncCallback, caller>>
    PROVE  /\ open' \in BOOLEAN /\ results' \subseteq Subtask /\ errors' \subseteq Subtask
           /\ calls' \in SUBSET [results : SUBSET Subtask, errors : SUBSET Subtask,
                                 by : {"result", "error"}]
           /\ CalledBack' /\ EarlyOnlyAfterRetry'
<1>1. RouterTyped /\ CalledBack /\ EarlyOnlyAfterRetry /\ caller # "idle"
  BY DEF RouterInv, CalledBack
<1>2. /\ open \in BOOLEAN /\ asyncCallback \in BOOLEAN
      /\ calls \in SUBSET [results : SUBSET Subtask, errors : SUBSET Subtask,
                           by : {"result", "error"}]
  BY <1>1 DEF RouterTyped, RouterTypeOK
<1>3. CASE ~Complete(r, e)
  <2>1. results' = r /\ errors' = e /\ UNCHANGED <<open, calls>>
    BY <1>3 DEF CheckBatch
  <2>2. \A c \in calls : /\ c.by = "result" => onResult' = "calling"
                         /\ c.by = "error" => onError'.at = "calling"
    BY <1>1, <2>1 DEF CalledBack
  <2>3. CalledBack'
    BY <1>1, <2>1, <2>2 DEF CalledBack
  <2>4. EarlyOnlyAfterRetry'
    BY <1>1, <2>1 DEF EarlyOnlyAfterRetry, Subtask
  <2> QED
    BY <1>2, <2>1, <2>3, <2>4
<1>4. CASE Complete(r, e)
  <2> DEFINE call == [results |-> r, errors |-> e, by |-> by]
  <2>1. /\ calls' = calls \cup {call}
        /\ \/ asyncCallback /\ results' = r /\ errors' = e /\ UNCHANGED open
           \/ ~asyncCallback /\ open' = FALSE /\ results' = {} /\ errors' = {}
    BY <1>4, <1>2 DEF CheckBatch, Cleanup
  <2>2. /\ call \in [results : SUBSET Subtask, errors : SUBSET Subtask, by : {"result", "error"}]
        /\ call.by = by /\ call.results = r /\ call.errors = e
    OBVIOUS
  <2> HIDE DEF call
  <2>3. \A c \in calls : asyncCallback /\ c.by # by
    BY <1>1 DEF CalledBack
  <2>4. calls' # calls
    BY <2>1, <2>2, <2>3
  <2>5. \A c \in calls' : open' => /\ asyncCallback'
                                   /\ c.by = "result" => onResult' = "calling"
                                   /\ c.by = "error" => onError'.at = "calling"
    BY <1>1, <2>1, <2>2, <2>3, <2>4 DEF CalledBack
  <2>6. \A c, d \in calls' : c.by = d.by \/ ~asyncCallback' => c = d
    BY <1>1, <2>1, <2>2, <2>3 DEF CalledBack
  <2>7. CalledBack'
    BY <1>1, <2>5, <2>6 DEF CalledBack
  <2>8. r \cup e = Subtask \/ r \cap e # {}
    BY <1>4, AllAnswered
  <2>9. EarlyOnlyAfterRetry'
    BY <1>1, <2>1, <2>2, <2>8 DEF EarlyOnlyAfterRetry, Subtask
  <2> QED
    BY <1>2, <2>1, <2>2, <2>7, <2>9
<1> QED
  BY <1>3, <1>4

LEMMA HandleResultStep ==
    ASSUME Pool, RouterInv, NEW m \in resultMsgs, HandleResult(m)
    PROVE  RouterInv'
<1>1. /\ UNCHANGED <<mode, asyncCallback, caller, next, readyMsgs, inbox, errorMsgs,
                     onError, dropped, recounted>>
      /\ onResult = "idle" /\ resultMsgs' = resultMsgs \ {m}
      /\ RouterTyped /\ CalledBack /\ EarlyOnlyAfterRetry
  BY DEF HandleResult, RouterInv
<1>2. m.worker \in PoolWorker /\ m.task \in Subtask
  BY <1>1 DEF RouterTyped, RouterTypeOK, WorkerAnswer
<1>3. Unload(m.worker) \/ UNCHANGED load
  BY DEF HandleResult
<1>4. /\ IsFiniteSet(resultMsgs)' /\ IsFiniteSet(errorMsgs)'
      /\ load' \in [PoolWorker -> Int \cup {Gone}] /\ Loaded'
  BY <1>1, <1>2, <1>3, AnswerTaken
<1>5. /\ open' \in BOOLEAN /\ results' \subseteq Subtask /\ errors' \subseteq Subtask
      /\ calls' \in SUBSET [results : SUBSET Subtask, errors : SUBSET Subtask,
                            by : {"result", "error"}]
      /\ CalledBack' /\ EarlyOnlyAfterRetry' /\ onResult' \in {"idle", "calling"}
  <2>1. CASE open
    <3>1. /\ CheckBatch(results \cup {m.task}, errors, "result")
          /\ onResult' = IF calls' # calls /\ asyncCallback THEN "calling" ELSE "idle"
      BY <2>1 DEF HandleResult
    <3>2. results \cup {m.task} \subseteq Subtask /\ errors \subseteq Subtask
      BY <1>1, <1>2 DEF RouterTyped, RouterTypeOK
    <3> QED
      BY <2>1, <3>1, <3>2, <1>1, Checked
  <2>2. CASE ~open
    <3>1. UNCHANGED <<open, results, errors, calls, onResult>>
      BY <2>2 DEF HandleResult
    <3>2. CalledBack' /\ EarlyOnlyAfterRetry'
      BY <1>1, <2>2, <3>1 DEF CalledBack, EarlyOnlyAfterRetry, Subtask
    <3> QED
      BY <1>1, <3>1, <3>2 DEF RouterTyped, RouterTypeOK
  <2> QED
    BY <2>1, <2>2
<1>6. RouterTyped'
  BY <1>1, <1>4, <1>5 DEF RouterTyped, RouterTypeOK, Subtask, WorkerAnswer
<1> QED
  BY <1>4, <1>5, <1>6 DEF RouterInv

LEMMA HandleErrorStep ==
    ASSUME Pool, RouterInv, NEW m \in errorMsgs, HandleError(m)
    PROVE  RouterInv'
<1>1. /\ UNCHANGED <<mode, asyncCallback, caller, next, readyMsgs, inbox, resultMsgs,
                     onResult, dropped, recounted>>
      /\ onError.at = "idle" /\ errorMsgs' = errorMsgs \ {m}
      /\ RouterTyped /\ CalledBack /\ EarlyOnlyAfterRetry
  BY DEF HandleError, RouterInv
<1>2. m.worker \in PoolWorker /\ m.task \in Subtask
  BY <1>1 DEF RouterTyped, RouterTypeOK
<1>3. Unload(m.worker) \/ UNCHANGED load
  BY DEF HandleError
<1>4. /\ IsFiniteSet(resultMsgs)' /\ IsFiniteSet(errorMsgs)'
      /\ load' \in [PoolWorker -> Int \cup {Gone}] /\ Loaded'
  BY <1>1, <1>2, <1>3, AnswerTaken
<1>5. /\ open' \in BOOLEAN /\ results' \subseteq Subtask /\ errors' \subseteq Subtask
      /\ calls' \in SUBSET [results : SUBSET Subtask, errors : SUBSET Subtask,
                            by : {"result", "error"}]
      /\ CalledBack' /\ EarlyOnlyAfterRetry'
      /\ onError' \in [at : {"idle", "calling", "sleeping"}, task : 0 .. BatchSize]
      /\ onError'.at = "sleeping" => onError'.task \in Subtask
  <2>1. CASE open /\ m.retry
    <3>1. /\ errors' = errors \cup {m.task} /\ UNCHANGED <<open, results, calls>>
          /\ onError' = [at |-> "sleeping", task |-> m.task]
      BY <2>1 DEF HandleError
    <3>2. m.task \in 0 .. BatchSize
      BY <1>2 DEF Subtask, Pool
    <3>3. CalledBack' /\ EarlyOnlyAfterRetry'
      BY <1>1, <3>1 DEF CalledBack, EarlyOnlyAfterRetry, Subtask
    <3> QED
      BY <1>1, <1>2, <3>1, <3>2, <3>3 DEF RouterTyped, RouterTypeOK
  <2>2. CASE open /\ ~m.retry
    <3>1. /\ CheckBatch(results, errors \cup {m.task}, "error")
          /\ onError' = [at |-> IF calls' # calls /\ asyncCallback THEN "calling" ELSE "idle",
                         task |-> m.task]
      BY <2>2 DEF HandleError
    <3>2. results \subseteq Subtask /\ errors \cup {m.task} \subseteq Subtask
      BY <1>1, <1>2 DEF RouterTyped, RouterTypeOK
    <3>3. m.task \in 0 .. BatchSize
      BY <1>2 DEF Subtask, Pool
    <3>4. onError'.at = IF calls' # calls /\ asyncCallback THEN "calling" ELSE "idle"
      BY <3>1
    <3>5. onError' \in [at : {"idle", "calling", "sleeping"}, task : 0 .. BatchSize]
      BY <3>1, <3>3
    <3>6. /\ open' \in BOOLEAN /\ results' \subseteq Subtask /\ errors' \subseteq Subtask
          /\ calls' \in SUBSET [results : SUBSET Subtask, errors : SUBSET Subtask,
                                by : {"result", "error"}]
          /\ CalledBack' /\ EarlyOnlyAfterRetry'
      BY <2>2, <3>1, <3>2, <3>4, <1>1, Checked
    <3> QED
      BY <3>4, <3>5, <3>6
  <2>3. CASE ~open
    <3>1. UNCHANGED <<open, results, errors, calls, onError>>
      BY <2>3 DEF HandleError
    <3>2. CalledBack' /\ EarlyOnlyAfterRetry'
      BY <1>1, <2>3, <3>1 DEF CalledBack, EarlyOnlyAfterRetry, Subtask
    <3> QED
      BY <1>1, <3>1, <3>2 DEF RouterTyped, RouterTypeOK
  <2> QED
    BY <2>1, <2>2, <2>3
<1>6. RouterTyped'
  BY <1>1, <1>4, <1>5 DEF RouterTyped, RouterTypeOK, Subtask, WorkerAnswer
<1> QED
  BY <1>4, <1>5, <1>6 DEF RouterInv

LEMMA BatchStep ==
    ASSUME Pool, RouterInv, SpawnBatch \/ SpawnReturns \/ CallbackReturns
    PROVE  RouterInv'
<1>1. /\ UNCHANGED <<mode, asyncCallback, next, load, readyMsgs, inbox, resultMsgs, errorMsgs,
                     dropped, calls, recounted>>
      /\ RouterTyped /\ Loaded /\ CalledBack /\ EarlyOnlyAfterRetry
  BY DEF SpawnBatch, SpawnReturns, CallbackReturns, RouterInv
<1>2. RouterTyped'
  <2>1. /\ caller' \in {"idle", "running", "returned"} /\ open' \in BOOLEAN
        /\ results' \subseteq Subtask /\ errors' \subseteq Subtask
        /\ onResult' \in {"idle", "calling"}
        /\ onError' \in [at : {"idle", "calling", "sleeping"}, task : 0 .. BatchSize]
        /\ onError'.at = "sleeping" => onError' = onError
    BY <1>1 DEF SpawnBatch, SpawnReturns, CallbackReturns, Cleanup, RouterTyped, RouterTypeOK
  <2> QED
    BY <1>1, <2>1 DEF RouterTyped, RouterTypeOK, Subtask, WorkerAnswer
<1>3. Loaded'
  BY <1>1 DEF Loaded, Backlog
<1>4. CalledBack'
  BY <1>1 DEF CalledBack, SpawnBatch, SpawnReturns, CallbackReturns, Cleanup
<1>5. EarlyOnlyAfterRetry'
  BY <1>1 DEF EarlyOnlyAfterRetry, Subtask
<1> QED
  BY <1>2, <1>3, <1>4, <1>5 DEF RouterInv

-----------------------------------------------------------------------------
LEMMA InvMeansRouterSafe ==
    ASSUME Pool, RouterInv
    PROVE  RouterSafe
<1>1. RouterTyped /\ Loaded /\ CalledBack /\ EarlyOnlyAfterRetry
  BY DEF RouterInv
<1>2. NoOverload
  BY <1>1 DEF Loaded, NoOverload
<1>3. \A c \in calls : c.by = "result" \/ c.by = "error"
  BY <1>1 DEF RouterTyped, RouterTypeOK
<1>4. calls = {} \/ (\E c \in calls : calls = {c}) \/ (\E c, d \in calls : calls = {c, d})
  BY <1>1, <1>3 DEF CalledBack
<1>5. \A c, d : /\ Cardinality({}) = 0 /\ Cardinality({c}) = 1 /\ Cardinality({c, d}) <= 2
  <2>1. ASSUME NEW c, NEW d
        PROVE  Cardinality({}) = 0 /\ Cardinality({c}) = 1 /\ Cardinality({c, d}) <= 2
    <3>1. IsFiniteSet({c}) /\ Cardinality({c}) = 1 /\ Cardinality({}) = 0
      BY FS_Singleton, FS_EmptySet
    <3>2. Cardinality({c} \cup {d}) = IF d \in {c} THEN Cardinality({c}) ELSE Cardinality({c}) + 1
      BY <3>1, FS_AddElement
    <3>3. {c} \cup {d} = {c, d}
      OBVIOUS
    <3> QED
      BY <3>1, <3>2, <3>3
  <2> QED
    BY <2>1
<1>6. Cardinality(calls) <= 2
  <2>1. CASE calls = {}
    BY <2>1, <1>5
  <2>2. ASSUME NEW c \in calls, calls = {c} PROVE Cardinality(calls) <= 2
    <3>1. Cardinality({c}) = 1
      BY <1>5
    <3> QED
      BY <2>2, <3>1
  <2>3. ASSUME NEW c \in calls, NEW d \in calls, calls = {c, d}
        PROVE  Cardinality(calls) <= 2
    <3>1. Cardinality({c, d}) <= 2
      BY <1>5
    <3> QED
      BY <2>3, <3>1
  <2> QED
    BY <1>4, <2>1, <2>2, <2>3
<1>7. ~asyncCallback => Cardinality(calls) <= 1
  <2>1. ~asyncCallback => calls = {} \/ \E c \in calls : calls = {c}
    BY <1>1 DEF CalledBack
  <2>2. calls = {} => Cardinality(calls) <= 1
    BY <1>5
  <2>3. ASSUME NEW c \in calls, calls = {c} PROVE Cardinality(calls) <= 1
    BY <2>3, <1>5
  <2> QED
    BY <2>1, <2>2, <2>3
<1>8. CalledOncePerSubscription
  BY <1>1, <1>6, <1>7 DEF CalledOncePerSubscription, CalledBack
<1> QED
  BY <1>1, <1>2, <1>8 DEF RouterSafe, RouterTyped

\* The completion callback of a batch (parallel_worker_router.py,
\* _check_batch_completion, _find_best_worker), for any batch and workers: it
\* is called early only after a retry, once per subscription, and no worker is
\* given more than it can take unless it announced a count behind what it had.
THEOREM BatchesComplete ==
    ASSUME Pool
    PROVE  RouterSpec => []RouterSafe
<1>1. RouterInit => RouterInv
  <2> SUFFICES ASSUME RouterInit PROVE RouterInv
    OBVIOUS
  <2>1. IsFiniteSet({}) /\ Cardinality({}) = 0
    BY FS_EmptySet
  <2>2. RouterTyped
    <3>1. next \in 1 .. BatchSize + 1 /\ 0 \in 0 .. BatchSize
      BY DEF RouterInit, Pool
    <3>2. RouterTypeOK
      BY <3>1 DEF RouterInit, RouterTypeOK, Mode
    <3> QED
      BY <2>1, <3>1, <3>2 DEF RouterInit, RouterTyped
  <2>3. Loaded
    BY <2>1 DEF RouterInit, Loaded, Pool
  <2>4. CalledBack /\ EarlyOnlyAfterRetry
    BY DEF RouterInit, CalledBack, EarlyOnlyAfterRetry
  <2> QED
    BY <2>2, <2>3, <2>4 DEF RouterInv
<1>2. RouterInv /\ [RouterNext]_routerVars => RouterInv'
  <2> SUFFICES ASSUME RouterInv, [RouterNext]_routerVars PROVE RouterInv'
    OBVIOUS
  <2>1. ASSUME NEW w \in PoolWorker, NEW count \in 0 .. BatchSize \cup {Gone},
               WorkerReady(w, count)
        PROVE  RouterInv'
    BY <2>1, ReadySent
  <2>2. CASE DispatchNext \/ Retry
    BY <2>2, DispatchStep
  <2>3. CASE SpawnBatch \/ SpawnReturns \/ CallbackReturns
    BY <2>3, BatchStep
  <2>4. ASSUME NEW m \in resultMsgs, HandleResult(m) PROVE RouterInv'
    BY <2>4, HandleResultStep
  <2>5. ASSUME NEW m \in errorMsgs, HandleError(m) PROVE RouterInv'
    BY <2>5, HandleErrorStep
  <2>6. ASSUME NEW w \in PoolWorker, NEW t \in Subtask, LeaveWorker(w, t)
        PROVE  RouterInv'
    BY <2>6, AnswerGiven
  <2>7. CASE UNCHANGED routerVars
    BY <2>7 DEF routerVars, RouterInv, RouterTyped, RouterTypeOK, Loaded, Backlog,
                CalledBack, EarlyOnlyAfterRetry, Subtask, WorkerAnswer
  <2>8. CASE (\E m \in readyMsgs : HandleReady(m)) \/ (\E w \in PoolWorker : RemoveStale(w))
    BY <2>8, PoolChanges
  <2> QED
    BY <2>1, <2>2, <2>3, <2>4, <2>5, <2>6, <2>7, <2>8 DEF RouterNext, Router
<1>3. RouterInv => RouterSafe
  BY InvMeansRouterSafe
<1> QED
  BY <1>1, <1>2, <1>3, PTL DEF RouterSpec

=============================================================================
