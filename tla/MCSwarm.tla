------------------------------- MODULE MCSwarm -------------------------------
(* Small instances of the services that keep the swarm going, side by side; *)
(* "part" says which one a behaviour is of.                                 *)
EXTENDS GatewayLease, Cluster, Warden, ParallelRouter, EventPipeline, MeshRPC,
        SwarmBridge, TaskBoard, ApiClient, TLC

\* h1 and h2 are interchangeable actors: handlers of the leases, gateways of the
\* Warden, clients of the bridge, workers of the board.
CONSTANTS g1, g2, k1, h1, h2, w1, w2, t1, t2

VARIABLE part

Symmetry == Permutations({h1, h2})

\* Two gateways that compete for one lease, with lifetimes of their own.
MCTTLOf == g1 :> 1 @@ g2 :> 2

\* Three subtasks, the last of which only the larger of two workers can run.
MCCapacity == w1 :> 1 @@ w2 :> 2
MCCanRun == <<{w1, w2}, {w1, w2}, {w2}>>

\* A task and its subtask.
MCParentOf == t1 :> t2 @@ t2 :> NoTask

\* Drafts of both, a lease for its publisher and one for another gateway, a
\* claim, a rejected audit and a halt.
MCPublished ==
    [type : {"task_drafted"}, task : {t1, t2}, gateway : {"g"}, named : {NoGateway}]
    \cup [type : {"lease_granted"}, task : {t1}, gateway : {"g"}, named : {NoGateway, "h"}]
    \cup [type : {"task_claimed", "audit_rejected", "system_halt"}, task : {t1},
          gateway : {"h"}, named : {NoGateway}]

\* Drafts and claims that are stored in the order of their timestamps.
InOrder ==
    \/ table' = table
    \/ \E e \in Published : /\ e.type \in {"task_drafted", "task_claimed"}
                            /\ table' = Append(table, e)

\* Errors, and announcements and removals of workers, reach their bounds apart.
NotBothFull == failures' + churn' < MaxErrors + MaxChurn

\* An event of each kind, one without notes and one without ids, all of one page.
MCKindOf == [s |-> "started", c |-> "completed", n |-> "completed",
             f |-> "failed", b |-> "started"]
MCPageOf == [m \in DOMAIN MCKindOf |-> "p"]
MCAgentOf == [m \in DOMAIN MCKindOf |-> "x"]

\* Two calls of one gateway and one of another.
MCCallGateway == "c" :> g1 @@ "d" :> g1 @@ "e" :> g2

\* Only the router's variables have several initial values.
SwarmInit ==
    /\ part \in {"cluster", "warden", "router", "pipeline", "bridge", "broadcast",
                 "board", "leases", "rpc", "client"}
    /\ ClusterInit /\ WardenInit /\ RouterInit /\ PipelineInit /\ BridgeInit /\ BoardInit
    /\ Init /\ RPCInit /\ ClientInit
    /\ part # "router" => mode = "parallel" /\ asyncCallback = FALSE

SwarmNext ==
    /\ \/ part = "cluster" /\ ClusterNext
            /\ UNCHANGED <<wardenVars, routerVars, pipelineVars, bridgeVars,
                           boardVars, vars, rpcVars, clientVars>>
       \/ part = "warden" /\ WardenNext
            /\ UNCHANGED <<clusterVars, routerVars, pipelineVars, bridgeVars,
                           boardVars, vars, rpcVars, clientVars>>
       \/ part = "router" /\ RouterNext /\ NotBothFull
            /\ UNCHANGED <<clusterVars, wardenVars, pipelineVars, bridgeVars,
                           boardVars, vars, rpcVars, clientVars>>
       \/ part = "pipeline" /\ PipelineNext
            /\ UNCHANGED <<clusterVars, wardenVars, routerVars, bridgeVars,
                           boardVars, vars, rpcVars, clientVars>>
       \/ part = "bridge" /\ BridgeNext /\ clients' = {}
            /\ UNCHANGED <<clusterVars, wardenVars, routerVars, pipelineVars,
                           boardVars, vars, rpcVars, clientVars>>
       \/ part = "broadcast" /\ BridgeNext /\ InOrder
            /\ UNCHANGED <<clusterVars, wardenVars, routerVars, pipelineVars,
                           boardVars, vars, rpcVars, clientVars>>
       \/ part = "board" /\ BoardNext
            /\ UNCHANGED <<clusterVars, wardenVars, routerVars, pipelineVars,
                           bridgeVars, vars, rpcVars, clientVars>>
       \/ part = "leases" /\ Next
            /\ UNCHANGED <<clusterVars, wardenVars, routerVars, pipelineVars,
                           bridgeVars, boardVars, rpcVars, clientVars>>
       \/ part = "rpc" /\ RPCNext
            /\ UNCHANGED <<clusterVars, wardenVars, routerVars, pipelineVars,
                           bridgeVars, boardVars, vars, clientVars>>
       \/ part = "client" /\ ClientNext
            /\ UNCHANGED <<clusterVars, wardenVars, routerVars, pipelineVars,
                           bridgeVars, boardVars, vars, rpcVars>>
    /\ UNCHANGED part

SwarmSpec ==
    SwarmInit /\ [][SwarmNext]_<<part, clusterVars, wardenVars, routerVars,
                                 pipelineVars, bridgeVars, boardVars, vars,
                                 rpcVars, clientVars>>

=============================================================================
