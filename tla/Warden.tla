-------------------------------- MODULE Warden --------------------------------
(* The Warden runtime: the liveness table filled by heartbeats, the         *)
(* watchdog that handles expired gateways, the receiver of respawn requests *)
(* and the docker containers the two spawn.  The three loops share one      *)
(* event loop; they interleave where one of them awaits.                    *)
EXTENDS Naturals, FiniteSets

CONSTANTS
    Watched,        \* gateway ids
    MaxContainers,  \* WARDEN_MAX_CONTAINERS
    HeartbeatTTL,   \* WARDEN_HEARTBEAT_TTL, in ticks
    Cooldown,       \* WARDEN_RESPAWN_COOLDOWN_S, in ticks
    MaxClock,       \* bound: the clock
    MaxRestarts,    \* bound: restarts of the Warden
    MaxRuns,        \* bound: containers of one gateway at one time
    NotSeen         \* no entry in the liveness table

VARIABLES
    wardenClock,
    beating,        \* gateways that are up and send heartbeats
    seen,           \* liveness: last_seen of each gateway, or NotSeen
    round,          \* watchdog: expired candidates of this scan, its time
    handling,       \* watchdog: the gateway it handles and how far
    requests,       \* swarm.warden.respawn messages not received yet
    receiving,      \* receiver: the request whose policy check is awaited
    running,        \* how many replacement containers each gateway has
    tracked,        \* active_containers
    retryAfter,     \* _respawn_retry_after
    doubtful,       \* history: gateways whose containers could not be listed
    restarts,       \* restarts of the Warden so far
    wardenUp        \* the Warden's process runs

wardenVars == <<wardenClock, beating, seen, round, handling, requests,
                receiving, running, tracked, retryAfter, doubtful,
                restarts, wardenUp>>

Nobody == [gateway |-> "none", stage |-> "idle", since |-> 0]
Handled == [gateway : Watched, stage : {"orphaned", "advised", "policy"},
            since : 0 .. MaxClock]
NoRound == [left |-> {}, now |-> 0]

WardenTypeOK ==
    /\ wardenClock \in 0 .. MaxClock
    /\ beating \subseteq Watched
    /\ seen \in [Watched -> {NotSeen} \cup 0 .. MaxClock]
    /\ round \in [left : SUBSET Watched, now : 0 .. MaxClock]
    /\ handling \in {Nobody} \cup Handled
    /\ handling # Nobody => handling.gateway \in round.left
    /\ requests \subseteq Watched
    /\ receiving = "none" \/ receiving \in Watched
    /\ running \in [Watched -> 0 .. MaxRuns]
    /\ tracked \subseteq Watched
    /\ retryAfter \in [Watched -> 0 .. MaxClock + Cooldown]
    /\ doubtful \subseteq Watched
    /\ restarts \in 0 .. MaxRestarts
    /\ wardenUp \in BOOLEAN

WardenInit ==
    /\ wardenClock = 0
    /\ beating = Watched
    /\ seen = [g \in Watched |-> NotSeen]
    /\ round = NoRound /\ handling = Nobody
    /\ requests = {} /\ receiving = "none"
    /\ running = [g \in Watched |-> 0] /\ tracked = {}
    /\ retryAfter = [g \in Watched |-> 0]
    /\ doubtful = {}
    /\ restarts = 0 /\ wardenUp = TRUE

----------------------------------------------------------------------------
(* The gateways, the coordinators and the clock.                            *)

WardenTick ==
    /\ wardenClock < MaxClock
    /\ wardenClock' = wardenClock + 1
    /\ UNCHANGED <<beating, seen, round, handling, requests, receiving,
                   running, tracked, retryAfter, doubtful, restarts, wardenUp>>

GatewayDies(g) ==
    /\ beating' = beating \ {g}
    /\ g \in beating
    /\ UNCHANGED <<wardenClock, seen, round, handling, requests, receiving,
                   running, tracked, retryAfter, doubtful, restarts, wardenUp>>

\* Another gateway asks for the replacement of one that is gone.
AskRespawn(g) ==
    /\ g \notin beating
    /\ requests' = requests \cup {g}
    /\ UNCHANGED <<wardenClock, beating, seen, round, handling, receiving,
                   running, tracked, retryAfter, doubtful, restarts, wardenUp>>

ContainerExits(g) ==
    /\ running[g] > 0
    /\ running' = [running EXCEPT ![g] = @ - 1]
    /\ UNCHANGED <<wardenClock, beating, seen, round, handling, requests,
                   receiving, tracked, retryAfter, doubtful, restarts, wardenUp>>

----------------------------------------------------------------------------
(* _heartbeat_receiver with _on_heartbeat or _on_event_heartbeat: the entry *)
(* is made or touched.  A heartbeat nobody receives changes nothing, so     *)
(* sending one is not a step of its own.                                    *)
OnHeartbeat(g) ==
    /\ wardenUp /\ g \in beating
    /\ seen' = [seen EXCEPT ![g] = wardenClock]
    /\ UNCHANGED <<wardenClock, beating, round, handling, requests, receiving,
                   running, tracked, retryAfter, doubtful, restarts, wardenUp>>

----------------------------------------------------------------------------
(* The watchdog.  It copies the table, then takes one gateway after the     *)
(* other, comparing each one's last_seen of that moment with the time the   *)
(* scan began.                                                              *)
Scan ==
    /\ wardenUp /\ round.left = {} /\ handling = Nobody
    /\ round' = [left |-> {g \in Watched : seen[g] # NotSeen}, now |-> wardenClock]
    /\ round'.left # {}
    /\ UNCHANGED <<wardenClock, beating, seen, handling, requests, receiving,
                   running, tracked, retryAfter, doubtful, restarts, wardenUp>>

\* Mutant: an age of exactly the TTL counts as expired.
ExpiredAtTTL(g) == round.now >= seen[g] + HeartbeatTTL

Expired(g) == round.now > seen[g] + HeartbeatTTL

SkipFresh(g) ==
    /\ wardenUp /\ handling = Nobody /\ g \in round.left /\ ~Expired(g)
    /\ round' = [round EXCEPT !.left = @ \ {g}]
    /\ UNCHANGED <<wardenClock, beating, seen, handling, requests, receiving,
                   running, tracked, retryAfter, doubtful, restarts, wardenUp>>

\* _handle_expired_gateway up to the awaited publish of TASK_ORPHANED.
HandleExpired(g) ==
    /\ wardenUp /\ handling = Nobody /\ g \in round.left /\ Expired(g)
    /\ handling' = [gateway |-> g, stage |-> "orphaned", since |-> seen[g]]
    /\ UNCHANGED <<wardenClock, beating, seen, round, requests, receiving,
                   running, tracked, retryAfter, doubtful, restarts, wardenUp>>

\* The suicide advisory is published.
SendSuicide ==
    /\ wardenUp /\ handling.stage = "orphaned"
    /\ handling' = [handling EXCEPT !.stage = "advised"]
    /\ UNCHANGED <<wardenClock, beating, seen, round, requests, receiving,
                   running, tracked, retryAfter, doubtful, restarts, wardenUp>>

\* _request_respawn, if the gateway had a task and _can_spawn agrees (nothing
\* is ever in flight across an await), then the awaited policy check of the
\* spawn.
RequestRespawn ==
    /\ wardenUp /\ handling.stage = "advised"
    /\ \/ UNCHANGED requests
       \/ /\ wardenClock >= retryAfter[handling.gateway]
          /\ requests' = requests \cup {handling.gateway}
    /\ handling' = [handling EXCEPT !.stage = "policy"]
    /\ UNCHANGED <<wardenClock, beating, seen, round, receiving, running,
                   tracked, retryAfter, doubtful, restarts, wardenUp>>

\* Mutant: the containers that exist are not looked for.
SpawnWithoutScan(g) ==
    \/ UNCHANGED <<running, tracked, retryAfter, doubtful>>
    \/ /\ Cardinality(tracked) < MaxContainers /\ wardenClock >= retryAfter[g]
       /\ running[g] < MaxRuns
       /\ running' = [running EXCEPT ![g] = @ + 1]
       /\ tracked' = tracked \cup {g}
       /\ retryAfter' = [retryAfter EXCEPT ![g] = 0]
       /\ UNCHANGED doubtful

\* Mutant: the cap is not enforced.
SpawnWithoutCap(g) ==
    \/ UNCHANGED <<running, tracked, retryAfter, doubtful>>
    \/ /\ wardenClock >= retryAfter[g] /\ running[g] = 0
       /\ running[g] < MaxRuns
       /\ running' = [running EXCEPT ![g] = @ + 1]
       /\ tracked' = tracked \cup {g}
       /\ retryAfter' = [retryAfter EXCEPT ![g] = 0]
       /\ UNCHANGED doubtful

\* _spawn_gateway_container after the policy's answer, with _respawn_lock,
\* in one go: nothing in it awaits.  The policy or the missing docker SDK
\* refuses it; so do the cap on tracked gateways, the cooldown and a
\* container that exists for the gateway, unless the listing fails.
SpawnContainer(g) ==
    \/ UNCHANGED <<running, tracked, retryAfter, doubtful>>
    \/ /\ Cardinality(tracked) < MaxContainers /\ wardenClock >= retryAfter[g]
       /\ \E listed \in BOOLEAN :
            /\ listed => running[g] = 0
            /\ doubtful' = IF listed THEN doubtful ELSE doubtful \cup {g}
       /\ \/ /\ running[g] < MaxRuns
             /\ running' = [running EXCEPT ![g] = @ + 1]
             /\ tracked' = tracked \cup {g}
             /\ retryAfter' = [retryAfter EXCEPT ![g] = 0]
          \/ /\ retryAfter' = [retryAfter EXCEPT ![g] = wardenClock + Cooldown]
             /\ UNCHANGED <<running, tracked>>

\* Mutant: the handled gateway stays in the table.
FinishExpiredKeepsEntry ==
    /\ wardenUp /\ handling.stage = "policy"
    /\ SpawnContainer(handling.gateway)
    /\ round' = [round EXCEPT !.left = @ \ {handling.gateway}]
    /\ handling' = Nobody
    /\ UNCHANGED <<wardenClock, beating, seen, requests, receiving,
                   restarts, wardenUp>>

\* The spawn, and the deletion of the entry whatever it holds by now.
FinishExpired ==
    /\ wardenUp /\ handling.stage = "policy"
    /\ SpawnContainer(handling.gateway)
    /\ seen' = [seen EXCEPT ![handling.gateway] = NotSeen]
    /\ round' = [round EXCEPT !.left = @ \ {handling.gateway}]
    /\ handling' = Nobody
    /\ UNCHANGED <<wardenClock, beating, requests, receiving, restarts, wardenUp>>

----------------------------------------------------------------------------
(* The receiver of respawn requests, one request at a time.                 *)
ReceiveRespawn(g) ==
    /\ wardenUp /\ receiving = "none" /\ g \in requests
    /\ requests' = requests \ {g}
    /\ receiving' = g
    /\ UNCHANGED <<wardenClock, beating, seen, round, handling, running,
                   tracked, retryAfter, doubtful, restarts, wardenUp>>

FinishRespawn ==
    /\ wardenUp /\ receiving # "none"
    /\ SpawnContainer(receiving)
    /\ receiving' = "none"
    /\ UNCHANGED <<wardenClock, beating, seen, round, handling, requests,
                   restarts, wardenUp>>

\* Nothing in the watchdog catches a failing publish or an invalid task id:
\* the exception ends run and with it the process.
WatchdogFails ==
    /\ wardenUp /\ handling.stage \in {"orphaned", "advised"}
    /\ wardenUp' = FALSE
    /\ UNCHANGED <<wardenClock, beating, seen, round, handling, requests,
                   receiving, running, tracked, retryAfter, doubtful,
                   restarts>>

\* The process is started again, its tables empty; core NATS has dropped the
\* messages it had not read, the containers run on.
WardenRestart ==
    /\ ~wardenUp /\ restarts < MaxRestarts
    /\ wardenUp' = TRUE /\ restarts' = restarts + 1
    /\ requests' = {} /\ receiving' = "none"
    /\ seen' = [g \in Watched |-> NotSeen]
    /\ round' = NoRound /\ handling' = Nobody
    /\ tracked' = {}
    /\ retryAfter' = [g \in Watched |-> 0]
    /\ UNCHANGED <<wardenClock, beating, running, doubtful>>

Watchdog ==
    \/ Scan
    \/ \E g \in Watched : SkipFresh(g)
    \/ \E g \in Watched : HandleExpired(g)
    \/ SendSuicide
    \/ RequestRespawn
    \/ FinishExpired

WardenNext ==
    \/ WardenTick
    \/ \E g \in Watched : GatewayDies(g)
    \/ \E g \in Watched : AskRespawn(g)
    \/ \E g \in Watched : ContainerExits(g)
    \/ \E g \in Watched : OnHeartbeat(g)
    \/ Watchdog
    \/ \E g \in Watched : ReceiveRespawn(g)
    \/ FinishRespawn
    \/ WatchdogFails
    \/ WardenRestart

\* The watchdog is a loop of a running process, and the clock goes on.
WardenFairness ==
    /\ WF_wardenVars(WardenTick)
    /\ WF_wardenVars(Watchdog)

WardenSpec == WardenInit /\ [][WardenNext]_wardenVars /\ WardenFairness

----------------------------------------------------------------------------
\* The watchdog and a respawn request for one gateway never start two
\* replacements for it, as long as the existing containers can be listed
\* (_respawn_lock, called without an await between test and start).
OneReplacement ==
    \A g \in Watched \ doubtful :
        running[g] <= 1

\* Gateways with a replacement that runs.
Replaced == {g \in Watched : running[g] > 0}

\* The fork-bomb blocker bounds what one life of the Warden starts: no more
\* gateways have replacements than the cap allows for each life, though a life
\* knows nothing of what the earlier ones started (len(active_containers) in
\* _spawn_gateway_container).
CapPerLife == Cardinality(Replaced) <= MaxContainers * (restarts + 1)

\* A gateway is told to terminate only after it was silent for longer than
\* the TTL, however long the watchdog was busy with others since its scan
\* began (_heartbeat_watchdog reads the clock once per scan).
OnlySilentHandled ==
    handling # Nobody => wardenClock > handling.since + HeartbeatTTL

\* What the Warden promises in every state: the three above.
WardenSafe ==
    WardenTypeOK /\ OneReplacement /\ CapPerLife /\ OnlySilentHandled

\* A gateway that died is taken out of the liveness table, or the Warden
\* itself stops (_heartbeat_watchdog).
DeadForgotten ==
    \A g \in Watched :
        (/\ g \notin beating /\ seen[g] # NotSeen
         /\ seen[g] + HeartbeatTTL < MaxClock)
            ~> (seen[g] = NotSeen \/ ~wardenUp)

=============================================================================
