---------------------------- MODULE Warden_proofs ----------------------------
(***************************************************************************)
(* Proofs about Warden, for any finite set of gateways and any settings:   *)
(* one replacement per gateway, the cap on what each life of the Warden    *)
(* starts, and no gateway handled that was heard of within the TTL.  Then  *)
(* about the two clients of other services: ApiClient, whose breaker lets  *)
(* few requests through while it is open, and TaskBoard, which keeps its   *)
(* claims, notes and memories; and about GatewayLease, whose ownership is  *)
(* exclusive among gateways that await their answers.                      *)
(***************************************************************************)
EXTENDS Warden, GatewayLease, ApiClient, TaskBoard, FiniteSetTheorems, TLAPS

\* The settings are natural numbers, and no time is the mark
\* of a gateway without an entry.
Settings ==
    /\ IsFiniteSet(Watched) /\ NotSeen \notin Nat
    /\ MaxContainers \in Nat /\ HeartbeatTTL \in Nat /\ Cooldown \in Nat
    /\ MaxClock \in Nat /\ MaxRestarts \in Nat /\ MaxRuns \in Nat

-----------------------------------------------------------------------------
(* The inductive invariant                                                  *)

\* What is left of a scan was in the table when it began and still is.
Scanned ==
    /\ \A g \in round.left : seen[g] # NotSeen
    /\ round.now <= wardenClock

CapHeld == Cardinality(tracked) <= MaxContainers

\* The replacements this life knows nothing of are those of earlier ones.
Survivors == Cardinality(Replaced \ tracked) <= MaxContainers * restarts

IInv == /\ WardenTypeOK
        /\ Scanned
        /\ OnlySilentHandled
        /\ OneReplacement
        /\ CapHeld
        /\ Survivors

-----------------------------------------------------------------------------
(* Containers                                                               *)

LEMMA FiniteGateways ==
    ASSUME Settings, NEW S, S \subseteq Watched
    PROVE  IsFiniteSet(S) /\ Cardinality(S) \in Nat
<1>1. IsFiniteSet(S)
  BY FS_Subset DEF Settings
<1> QED
  BY <1>1, FS_CardinalityType

LEMMA FewerGateways ==
    ASSUME Settings, NEW S, S \subseteq Watched, NEW T, T \subseteq S
    PROVE  Cardinality(T) <= Cardinality(S)
<1>1. IsFiniteSet(S)
  BY FiniteGateways
<1> QED
  BY <1>1, FS_Subset

\* The cap of this life and those of the earlier ones make the cap of all.
LEMMA CapsAdd ==
    ASSUME Settings, WardenTypeOK, CapHeld, Survivors
    PROVE  CapPerLife
<1> DEFINE S == Replaced \ tracked
<1>1. S \subseteq Watched /\ tracked \subseteq Watched /\ Replaced \subseteq S \cup tracked
  BY DEF Replaced, WardenTypeOK
<1>2. /\ IsFiniteSet(S) /\ Cardinality(S) \in Nat
      /\ IsFiniteSet(tracked) /\ Cardinality(tracked) \in Nat
      /\ Cardinality(S \cap tracked) \in Nat
      /\ Cardinality(Replaced) \in Nat /\ Cardinality(S \cup tracked) \in Nat
  <2>1. S \cap tracked \subseteq Watched /\ Replaced \subseteq Watched
        /\ S \cup tracked \subseteq Watched
    BY <1>1 DEF Replaced
  <2> HIDE DEF S
  <2> QED BY <1>1, <2>1, FiniteGateways
<1>3. Cardinality(S \cup tracked) =
         Cardinality(S) + Cardinality(tracked) - Cardinality(S \cap tracked)
  BY <1>2, FS_Union
<1>4. Cardinality(Replaced) <= Cardinality(S \cup tracked)
  BY <1>1, FewerGateways
<1>5. Cardinality(S) <= MaxContainers * restarts /\ Cardinality(tracked) <= MaxContainers
  BY DEF Survivors, CapHeld
<1>6. restarts \in Nat /\ MaxContainers \in Nat
  BY DEF WardenTypeOK, Settings
<1>7. MaxContainers * (restarts + 1) = MaxContainers * restarts + MaxContainers
      /\ MaxContainers * restarts \in Nat
  BY <1>6
<1> HIDE DEF S
<1> QED
  BY <1>2, <1>3, <1>4, <1>5, <1>6, <1>7 DEF CapPerLife

\* A spawn, or its refusal, keeps the cap, starts nothing this life does not
\* know of, and starts no second container where the first is listed.
LEMMA SpawnEffect ==
    ASSUME Settings, IInv, NEW g \in Watched, SpawnContainer(g)
    PROVE  /\ running' \in [Watched -> 0 .. MaxRuns] /\ tracked' \subseteq Watched
           /\ retryAfter' \in [Watched -> 0 .. MaxClock + Cooldown]
           /\ doubtful' \subseteq Watched
           /\ OneReplacement' /\ CapHeld'
           /\ Replaced' \ tracked' \subseteq Replaced \ tracked
<1>1. /\ running \in [Watched -> 0 .. MaxRuns] /\ tracked \subseteq Watched
      /\ retryAfter \in [Watched -> 0 .. MaxClock + Cooldown] /\ doubtful \subseteq Watched
      /\ wardenClock \in 0 .. MaxClock /\ MaxClock \in Nat /\ Cooldown \in Nat /\ MaxRuns \in Nat
      /\ MaxContainers \in Nat
  BY DEF IInv, WardenTypeOK, Settings
<1>2. CASE UNCHANGED <<running, tracked, retryAfter, doubtful>>
  BY <1>1, <1>2 DEF IInv, OneReplacement, CapHeld, Replaced
<1>3. ASSUME Cardinality(tracked) < MaxContainers, NEW answers \in BOOLEAN,
             answers => running[g] = 0,
             doubtful' = IF answers THEN doubtful ELSE doubtful \cup {g}
      PROVE  /\ doubtful' \subseteq Watched /\ doubtful \subseteq doubtful'
             /\ g \notin doubtful' => running[g] = 0
  BY <1>1, <1>3
<1>4. ASSUME Cardinality(tracked) < MaxContainers, doubtful' \subseteq Watched,
             doubtful \subseteq doubtful', g \notin doubtful' => running[g] = 0,
             running[g] < MaxRuns, running' = [running EXCEPT ![g] = running[g] + 1],
             tracked' = tracked \cup {g}, retryAfter' = [retryAfter EXCEPT ![g] = 0]
      PROVE  /\ running' \in [Watched -> 0 .. MaxRuns] /\ tracked' \subseteq Watched
             /\ retryAfter' \in [Watched -> 0 .. MaxClock + Cooldown]
             /\ OneReplacement' /\ CapHeld'
             /\ Replaced' \ tracked' \subseteq Replaced \ tracked
  <2>1. running[g] \in Nat /\ running[g] + 1 \in 0 .. MaxRuns /\ 0 \in 0 .. MaxClock + Cooldown
    BY <1>1, <1>4
  <2>2. running' \in [Watched -> 0 .. MaxRuns]
        /\ retryAfter' \in [Watched -> 0 .. MaxClock + Cooldown]
    BY <1>1, <1>4, <2>1
  <2>3. running'[g] = running[g] + 1 /\ \A h \in Watched \ {g} : running'[h] = running[h]
    BY <1>1, <1>4
  <2>4. OneReplacement'
    <3> SUFFICES ASSUME NEW h \in Watched \ doubtful' PROVE running'[h] <= 1
      BY DEF OneReplacement
    <3>1. CASE h = g
      BY <1>4, <2>3, <3>1
    <3>2. CASE h # g
      BY <1>4, <2>3, <3>2 DEF IInv, OneReplacement
    <3> QED
      BY <3>1, <3>2
  <2>5. CapHeld'
    <3>1. IsFiniteSet(tracked) /\ Cardinality(tracked) \in Nat
      BY <1>1, FiniteGateways
    <3>2. Cardinality(tracked \cup {g}) =
             IF g \in tracked THEN Cardinality(tracked) ELSE Cardinality(tracked) + 1
      BY <3>1, FS_AddElement
    <3>3. Cardinality(tracked') <= MaxContainers
      BY <1>1, <1>4, <3>1, <3>2
    <3> QED
      BY <3>3 DEF CapHeld
  <2>6. Replaced' \ tracked' \subseteq Replaced \ tracked
    BY <1>4, <2>3 DEF Replaced
  <2> QED
    BY <1>1, <1>4, <2>2, <2>4, <2>5, <2>6
<1>5. ASSUME doubtful' \subseteq Watched, doubtful \subseteq doubtful',
             retryAfter' = [retryAfter EXCEPT ![g] = wardenClock + Cooldown],
             UNCHANGED <<running, tracked>>
      PROVE  /\ running' \in [Watched -> 0 .. MaxRuns] /\ tracked' \subseteq Watched
             /\ retryAfter' \in [Watched -> 0 .. MaxClock + Cooldown]
             /\ OneReplacement' /\ CapHeld'
             /\ Replaced' \ tracked' \subseteq Replaced \ tracked
  <2>1. wardenClock + Cooldown \in 0 .. MaxClock + Cooldown
    BY <1>1
  <2> QED
    BY <1>1, <1>5, <2>1 DEF IInv, OneReplacement, CapHeld, Replaced
<1>6. CASE ~UNCHANGED <<running, tracked, retryAfter, doubtful>>
  <2>1. /\ Cardinality(tracked) < MaxContainers
        /\ \E answers \in BOOLEAN :
             /\ answers => running[g] = 0
             /\ doubtful' = IF answers THEN doubtful ELSE doubtful \cup {g}
        /\ \/ /\ running[g] < MaxRuns /\ running' = [running EXCEPT ![g] = running[g] + 1]
              /\ tracked' = tracked \cup {g} /\ retryAfter' = [retryAfter EXCEPT ![g] = 0]
           \/ /\ retryAfter' = [retryAfter EXCEPT ![g] = wardenClock + Cooldown]
              /\ UNCHANGED <<running, tracked>>
    BY <1>6 DEF SpawnContainer
  <2>2. /\ doubtful' \subseteq Watched /\ doubtful \subseteq doubtful'
        /\ g \notin doubtful' => running[g] = 0
    BY <1>3, <2>1
  <2> QED
    BY <1>4, <1>5, <2>1, <2>2
<1> QED
  BY <1>2, <1>6

\* No replacement unknown to this life is started.
LEMMA SurvivorsKept ==
    ASSUME Settings, IInv, Replaced' \ tracked' \subseteq Replaced \ tracked,
           restarts' = restarts, tracked' \subseteq Watched
    PROVE  Survivors'
<1>1. Replaced \ tracked \subseteq Watched /\ Replaced' \ tracked' \subseteq Watched
  BY DEF Replaced
<1>2. Cardinality(Replaced' \ tracked') <= Cardinality(Replaced \ tracked)
  BY <1>1, FewerGateways
<1>3. Cardinality(Replaced' \ tracked') \in Nat /\ Cardinality(Replaced \ tracked) \in Nat
  BY <1>1, FiniteGateways
<1>4. Cardinality(Replaced \ tracked) <= MaxContainers * restarts
  BY DEF IInv, Survivors
<1>5. MaxContainers * restarts \in Nat
  BY DEF IInv, WardenTypeOK, Settings
<1> QED
  BY <1>2, <1>3, <1>4, <1>5 DEF Survivors

-----------------------------------------------------------------------------
(* Steps                                                                    *)

\* A step that leaves the containers and the table of the Warden alone.
LEMMA Apart ==
    ASSUME IInv, UNCHANGED <<running, tracked, doubtful, restarts>>
    PROVE  OneReplacement' /\ CapHeld' /\ Survivors'
  BY DEF IInv, OneReplacement, CapHeld, Survivors, Replaced

LEMMA IInvInit ==
    ASSUME Settings, WardenInit PROVE IInv
<1>1. /\ 0 \in 0 .. MaxClock /\ 0 \in 0 .. MaxRuns /\ 0 \in 0 .. MaxClock + Cooldown
      /\ 0 \in 0 .. MaxRestarts
  BY DEF Settings
<1>2. WardenTypeOK
  BY <1>1 DEF WardenInit, WardenTypeOK, NoRound
<1>3. Scanned /\ OnlySilentHandled /\ OneReplacement
  BY DEF WardenInit, Scanned, OnlySilentHandled, OneReplacement, NoRound
<1>4. tracked = {} /\ Replaced \ tracked = {} /\ restarts = 0
  BY DEF WardenInit, Replaced
<1>5. Cardinality({}) = 0 /\ MaxContainers \in Nat /\ MaxContainers * 0 = 0
  BY FS_EmptySet DEF Settings
<1>6. CapHeld /\ Survivors
  BY <1>4, <1>5 DEF CapHeld, Survivors
<1> QED
  BY <1>2, <1>3, <1>6 DEF IInv

LEMMA EnvironmentStep ==
    ASSUME Settings, IInv,
           \/ WardenTick
           \/ \E g \in Watched : GatewayDies(g) \/ AskRespawn(g) \/ OnHeartbeat(g)
           \/ \E g \in Watched : ReceiveRespawn(g)
           \/ WatchdogFails
    PROVE  IInv'
<1>1. UNCHANGED <<round, handling, running, tracked, retryAfter, doubtful, restarts>>
  BY DEF WardenTick, GatewayDies, AskRespawn, OnHeartbeat, ReceiveRespawn, WatchdogFails
<1>2. wardenClock' \in 0 .. MaxClock /\ wardenClock <= wardenClock' /\ wardenClock \in Nat
  <2>1. wardenClock \in 0 .. MaxClock /\ MaxClock \in Nat
    BY DEF IInv, WardenTypeOK, Settings
  <2>2. wardenClock' = wardenClock \/ (wardenClock < MaxClock /\ wardenClock' = wardenClock + 1)
    BY DEF WardenTick, GatewayDies, AskRespawn, OnHeartbeat, ReceiveRespawn, WatchdogFails
  <2> QED
    BY <2>1, <2>2
<1>3. /\ seen' \in [Watched -> {NotSeen} \cup 0 .. MaxClock]
      /\ \A g \in Watched : seen[g] # NotSeen => seen'[g] # NotSeen
  <2>1. seen' = seen \/ \E g \in Watched : seen' = [seen EXCEPT ![g] = wardenClock]
    BY DEF WardenTick, GatewayDies, AskRespawn, OnHeartbeat, ReceiveRespawn, WatchdogFails
  <2>2. seen \in [Watched -> {NotSeen} \cup 0 .. MaxClock] /\ wardenClock \in 0 .. MaxClock
    BY DEF IInv, WardenTypeOK
  <2>3. wardenClock # NotSeen
    BY <1>2 DEF Settings
  <2> QED
    BY <2>1, <2>2, <2>3
<1>4. /\ beating' \subseteq Watched /\ requests' \subseteq Watched
      /\ receiving' = "none" \/ receiving' \in Watched
  BY DEF IInv, WardenTypeOK, WardenTick, GatewayDies, AskRespawn, OnHeartbeat, ReceiveRespawn,
         WatchdogFails
<1>5. wardenUp' \in BOOLEAN
  BY DEF IInv, WardenTypeOK, WardenTick, GatewayDies, AskRespawn, OnHeartbeat, ReceiveRespawn,
         WatchdogFails
<1>6. WardenTypeOK'
  BY <1>1, <1>2, <1>3, <1>4, <1>5 DEF IInv, WardenTypeOK
<1>7. Scanned'
  <2>1. round.left \subseteq Watched /\ round.now \in Nat
    BY DEF IInv, WardenTypeOK
  <2>2. round.now <= wardenClock'
    BY <1>2, <2>1 DEF IInv, Scanned
  <2> QED
    BY <1>1, <1>3, <2>1, <2>2 DEF IInv, Scanned
<1>8. OnlySilentHandled'
  <2> SUFFICES ASSUME handling # Nobody PROVE wardenClock' > handling.since + HeartbeatTTL
    BY <1>1 DEF OnlySilentHandled
  <2>1. handling.since \in Nat /\ HeartbeatTTL \in Nat
    BY DEF IInv, WardenTypeOK, Handled, Settings
  <2>2. wardenClock > handling.since + HeartbeatTTL
    BY DEF IInv, OnlySilentHandled
  <2> QED
    BY <1>2, <2>1, <2>2
<1> QED
  BY <1>1, <1>6, <1>7, <1>8, Apart DEF IInv

LEMMA ExitStep ==
    ASSUME Settings, IInv, NEW g \in Watched, ContainerExits(g) PROVE IInv'
<1>1. /\ running[g] > 0 /\ running' = [running EXCEPT ![g] = running[g] - 1]
      /\ UNCHANGED <<wardenClock, beating, seen, round, handling, requests,
                     receiving, tracked, retryAfter, doubtful, restarts, wardenUp>>
  BY DEF ContainerExits
<1>2. running \in [Watched -> 0 .. MaxRuns] /\ running[g] \in 0 .. MaxRuns /\ MaxRuns \in Nat
  BY DEF IInv, WardenTypeOK, Settings
<1>3. running[g] - 1 \in 0 .. MaxRuns /\ running[g] - 1 <= running[g]
  BY <1>1, <1>2
<1>4. /\ running' \in [Watched -> 0 .. MaxRuns] /\ running'[g] = running[g] - 1
      /\ \A h \in Watched \ {g} : running'[h] = running[h]
  BY <1>1, <1>2, <1>3
<1>5. WardenTypeOK'
  BY <1>1, <1>4 DEF IInv, WardenTypeOK
<1>6. Scanned' /\ OnlySilentHandled' /\ CapHeld'
  BY <1>1 DEF IInv, Scanned, OnlySilentHandled, CapHeld
<1>7. OneReplacement'
  <2> SUFFICES ASSUME NEW h \in Watched \ doubtful PROVE running'[h] <= 1
    BY <1>1 DEF OneReplacement
  <2>1. running[h] <= 1
    BY DEF IInv, OneReplacement
  <2> QED
    BY <1>2, <1>4, <2>1
<1>8. Replaced' \ tracked' \subseteq Replaced \ tracked
  BY <1>1, <1>4 DEF Replaced
<1>9. Survivors'
  BY <1>1, <1>8, SurvivorsKept DEF IInv, WardenTypeOK
<1> QED
  BY <1>5, <1>6, <1>7, <1>9 DEF IInv

\* The steps of the watchdog before the spawn.
LEMMA ScanStep ==
    ASSUME Settings, IInv, Scan PROVE IInv'
<1>1. /\ round' = [left |-> {g \in Watched : seen[g] # NotSeen}, now |-> wardenClock]
      /\ handling = Nobody
      /\ UNCHANGED <<wardenClock, beating, seen, handling, requests, receiving,
                     running, tracked, retryAfter, doubtful, restarts, wardenUp>>
  BY DEF Scan
<1>2. wardenClock \in 0 .. MaxClock /\ wardenClock \in Nat
  BY DEF IInv, WardenTypeOK, Settings
<1>3. WardenTypeOK'
  BY <1>1, <1>2 DEF IInv, WardenTypeOK
<1>4. Scanned' /\ OnlySilentHandled'
  BY <1>1, <1>2 DEF IInv, Scanned, OnlySilentHandled
<1> QED
  BY <1>1, <1>3, <1>4, Apart DEF IInv

LEMMA SkipStep ==
    ASSUME Settings, IInv, NEW g \in Watched, SkipFresh(g) PROVE IInv'
<1>1. round \in [left : SUBSET Watched, now : 0 .. MaxClock]
  BY DEF IInv, WardenTypeOK
<1>2. /\ round' = [left |-> round.left \ {g}, now |-> round.now] /\ handling = Nobody
      /\ UNCHANGED <<wardenClock, beating, seen, handling, requests, receiving,
                     running, tracked, retryAfter, doubtful, restarts, wardenUp>>
  BY <1>1 DEF SkipFresh
<1>3. WardenTypeOK'
  BY <1>1, <1>2 DEF IInv, WardenTypeOK
<1>4. Scanned' /\ OnlySilentHandled'
  BY <1>1, <1>2 DEF IInv, Scanned, OnlySilentHandled
<1> QED
  BY <1>2, <1>3, <1>4, Apart DEF IInv

\* The scan's time is past, so a gateway expired by it is silent for longer
\* than the TTL now.
LEMMA HandleStep ==
    ASSUME Settings, IInv, NEW g \in Watched, HandleExpired(g) PROVE IInv'
<1>1. /\ g \in round.left /\ round.now > seen[g] + HeartbeatTTL
      /\ handling' = [gateway |-> g, stage |-> "orphaned", since |-> seen[g]]
      /\ UNCHANGED <<wardenClock, beating, seen, round, requests, receiving,
                     running, tracked, retryAfter, doubtful, restarts, wardenUp>>
  BY DEF HandleExpired, Expired
<1>2. /\ seen[g] \in 0 .. MaxClock /\ wardenClock \in Nat /\ round.now \in Nat
      /\ round.now <= wardenClock /\ HeartbeatTTL \in Nat
  BY <1>1 DEF IInv, WardenTypeOK, Scanned, Settings
<1>3. handling' \in Handled /\ handling'.gateway = g /\ handling'.since = seen[g]
  BY <1>1, <1>2 DEF Handled
<1>4. WardenTypeOK'
  BY <1>1, <1>3 DEF IInv, WardenTypeOK
<1>5. Scanned'
  BY <1>1 DEF IInv, Scanned
<1>6. wardenClock' > handling'.since + HeartbeatTTL
  <2>1. seen[g] \in Nat
    BY <1>2
  <2> QED
    BY <1>1, <1>2, <1>3, <2>1
<1> QED
  BY <1>1, <1>4, <1>5, <1>6, Apart DEF IInv, OnlySilentHandled

LEMMA AdviseStep ==
    ASSUME Settings, IInv, SendSuicide \/ RequestRespawn PROVE IInv'
<1>1. PICK stage \in {"advised", "policy"} :
      /\ handling.stage \in {"orphaned", "advised"}
      /\ handling' = [handling EXCEPT !.stage = stage]
      /\ requests' = requests \/ requests' = requests \cup {handling.gateway}
      /\ UNCHANGED <<wardenClock, beating, seen, round, receiving,
                     running, tracked, retryAfter, doubtful, restarts, wardenUp>>
  BY DEF SendSuicide, RequestRespawn
<1>2. handling \in Handled
  BY <1>1 DEF IInv, WardenTypeOK, Nobody
<1>3. /\ handling' \in Handled /\ handling'.gateway = handling.gateway
      /\ handling'.since = handling.since /\ handling.gateway \in Watched
  BY <1>1, <1>2 DEF Handled
<1>4. handling # Nobody
  BY <1>1 DEF Nobody
<1>5. WardenTypeOK'
  BY <1>1, <1>3, <1>4 DEF IInv, WardenTypeOK
<1>6. Scanned' /\ OnlySilentHandled'
  BY <1>1, <1>3, <1>4 DEF IInv, Scanned, OnlySilentHandled
<1> QED
  BY <1>1, <1>5, <1>6, Apart DEF IInv

LEMMA FinishStep ==
    ASSUME Settings, IInv, FinishExpired PROVE IInv'
<1> DEFINE g == handling.gateway
<1>1. /\ handling.stage = "policy" /\ SpawnContainer(g) /\ handling' = Nobody
      /\ seen' = [seen EXCEPT ![g] = NotSeen]
      /\ UNCHANGED <<wardenClock, beating, requests, receiving, restarts, wardenUp>>
  BY DEF FinishExpired
<1>2. g \in Watched
  BY <1>1 DEF IInv, WardenTypeOK, Nobody, Handled
<1>3. round' = [left |-> round.left \ {g}, now |-> round.now]
      /\ round \in [left : SUBSET Watched, now : 0 .. MaxClock]
  BY DEF FinishExpired, IInv, WardenTypeOK
<1> HIDE DEF g
<1>4. /\ running' \in [Watched -> 0 .. MaxRuns] /\ tracked' \subseteq Watched
      /\ retryAfter' \in [Watched -> 0 .. MaxClock + Cooldown]
      /\ doubtful' \subseteq Watched
      /\ OneReplacement' /\ CapHeld'
      /\ Replaced' \ tracked' \subseteq Replaced \ tracked
  BY <1>1, <1>2, SpawnEffect
<1>5. seen' \in [Watched -> {NotSeen} \cup 0 .. MaxClock]
      /\ \A h \in Watched \ {g} : seen'[h] = seen[h]
  BY <1>1, <1>2 DEF IInv, WardenTypeOK
<1>6. WardenTypeOK'
  BY <1>1, <1>3, <1>4, <1>5 DEF IInv, WardenTypeOK
<1>7. Scanned' /\ OnlySilentHandled'
  BY <1>1, <1>3, <1>5 DEF IInv, Scanned, OnlySilentHandled
<1>8. Survivors'
  BY <1>1, <1>4, SurvivorsKept
<1> QED
  BY <1>4, <1>6, <1>7, <1>8 DEF IInv

LEMMA FinishRespawnStep ==
    ASSUME Settings, IInv, FinishRespawn PROVE IInv'
<1>1. /\ receiving # "none" /\ SpawnContainer(receiving) /\ receiving' = "none"
      /\ UNCHANGED <<wardenClock, beating, seen, round, handling, requests, restarts, wardenUp>>
  BY DEF FinishRespawn
<1>2. receiving \in Watched
  BY <1>1 DEF IInv, WardenTypeOK
<1>3. /\ running' \in [Watched -> 0 .. MaxRuns] /\ tracked' \subseteq Watched
      /\ retryAfter' \in [Watched -> 0 .. MaxClock + Cooldown]
      /\ doubtful' \subseteq Watched
      /\ OneReplacement' /\ CapHeld'
      /\ Replaced' \ tracked' \subseteq Replaced \ tracked
  BY <1>1, <1>2, SpawnEffect
<1>4. WardenTypeOK'
  BY <1>1, <1>3 DEF IInv, WardenTypeOK
<1>5. Scanned' /\ OnlySilentHandled'
  BY <1>1 DEF IInv, Scanned, OnlySilentHandled
<1>6. Survivors'
  BY <1>1, <1>3, SurvivorsKept
<1> QED
  BY <1>3, <1>4, <1>5, <1>6 DEF IInv

\* A new life tracks nothing: all that runs is of earlier lives.
LEMMA RestartStep ==
    ASSUME Settings, IInv, WardenRestart PROVE IInv'
<1>1. /\ restarts < MaxRestarts /\ wardenUp' = TRUE /\ restarts' = restarts + 1
      /\ requests' = {} /\ receiving' = "none" /\ seen' = [g \in Watched |-> NotSeen]
      /\ round' = NoRound /\ handling' = Nobody /\ tracked' = {}
      /\ retryAfter' = [g \in Watched |-> 0]
      /\ UNCHANGED <<wardenClock, beating, running, doubtful>>
  BY DEF WardenRestart
<1>2. /\ 0 \in 0 .. MaxClock /\ 0 \in 0 .. MaxClock + Cooldown /\ restarts' \in 0 .. MaxRestarts
      /\ wardenClock \in Nat /\ restarts \in Nat /\ MaxContainers \in Nat
  <2>1. restarts \in 0 .. MaxRestarts /\ wardenClock \in 0 .. MaxClock
    BY DEF IInv, WardenTypeOK
  <2> QED
    BY <1>1, <2>1 DEF Settings
<1>3. WardenTypeOK'
  BY <1>1, <1>2 DEF IInv, WardenTypeOK, NoRound
<1>4. Scanned' /\ OnlySilentHandled' /\ OneReplacement'
  BY <1>1, <1>2 DEF IInv, Scanned, OnlySilentHandled, OneReplacement, NoRound
<1>5. CapHeld'
  BY <1>1, <1>2, FS_EmptySet DEF CapHeld
<1>6. CapPerLife
  BY CapsAdd DEF IInv
<1>7. Replaced' \ tracked' = Replaced
  BY <1>1 DEF Replaced
<1>8. Survivors'
  BY <1>1, <1>6, <1>7 DEF CapPerLife, Survivors
<1> QED
  BY <1>3, <1>4, <1>5, <1>8 DEF IInv

-----------------------------------------------------------------------------
(* The theorems                                                             *)

LEMMA IInvStep ==
    ASSUME Settings, IInv, [WardenNext]_wardenVars PROVE IInv'
<1>1. CASE UNCHANGED wardenVars
  <2>1. WardenTypeOK' /\ Scanned' /\ OnlySilentHandled'
    BY <1>1 DEF IInv, WardenTypeOK, Scanned, OnlySilentHandled, wardenVars
  <2> QED
    BY <1>1, <2>1, Apart DEF IInv, wardenVars
<1>2. CASE Watchdog
  BY <1>2, ScanStep, SkipStep, HandleStep, AdviseStep, FinishStep DEF Watchdog
<1>3. CASE \E g \in Watched : ContainerExits(g)
  BY <1>3, ExitStep
<1>4. CASE FinishRespawn \/ WardenRestart
  BY <1>4, FinishRespawnStep, RestartStep
<1>5. CASE \/ WardenTick
           \/ \E g \in Watched : GatewayDies(g) \/ AskRespawn(g) \/ OnHeartbeat(g)
           \/ \E g \in Watched : ReceiveRespawn(g)
           \/ WatchdogFails
  BY <1>5, EnvironmentStep
<1> QED
  BY <1>1, <1>2, <1>3, <1>4, <1>5 DEF WardenNext

\* However the watchdog, the receiver of respawn requests, the exits of
\* containers and the restarts of the Warden interleave: no gateway whose
\* containers could be listed has two replacements, no more gateways have
\* replacements than the cap allows for the lives so far, and whoever is told
\* to terminate was silent for longer than the TTL.
THEOREM WardenKeepsItsLimits ==
    ASSUME Settings PROVE WardenSpec => []WardenSafe
<1>1. IInv => WardenSafe
  BY CapsAdd DEF IInv, WardenSafe
<1>2. WardenInit => IInv
  BY IInvInit
<1>3. IInv /\ [WardenNext]_wardenVars => IInv'
  BY IInvStep
<1> QED
  BY <1>1, <1>2, <1>3, PTL DEF WardenSpec

-----------------------------------------------------------------------------
(* The API client                                                           *)

\* There is an attempt to make, a failure to count, and time is natural.
Breaker ==
    /\ Attempts \in Nat \ {0} /\ Threshold \in Nat \ {0}
    /\ OpenFor \in Nat /\ LastTime \in Nat

\* The first attempt of a request found the breaker closed; one that sleeps has
\* an attempt left.
Tried(r) ==
    /\ at[r] = "new" => attempt[r] = 0
    /\ at[r] = "sleeping" => attempt[r] < Attempts
    /\ IF attempt[r] = 0 THEN through[r] = 0 ELSE through[r] < attempt[r]
    /\ at[r] \in {"calling", "sleeping"} => attempt[r] # 0

\* The counter of the code counts the failures in a row.
CounterTrue == IF inRow < Threshold THEN failing = inRow ELSE failing >= Threshold

ClientInv ==
    /\ ClientTypeOK /\ OpenWhileFailing /\ CounterTrue
    /\ \A r \in ApiCall : Tried(r)

\* A step of request r that leaves the breaker alone.
LEMMA AttemptStep ==
    ASSUME Breaker, ClientInv, NEW r \in ApiCall,
           UNCHANGED <<time, failing, openUntil, inRow, lastFailure>>,
           NEW to \in {"calling", "blocked"}, at' = [at EXCEPT ![r] = to],
           NEW n \in 0 .. Attempts, attempt' = [attempt EXCEPT ![r] = n],
           NEW k \in 0 .. Attempts, through' = [through EXCEPT ![r] = k],
           IF n = 0 THEN k = 0 ELSE k < n, to = "calling" => n # 0
    PROVE  ClientInv'
<1>1. ClientTypeOK /\ OpenWhileFailing /\ CounterTrue
  BY DEF ClientInv
<1>2. /\ at' \in [ApiCall -> {"new", "calling", "sleeping", "blocked", "answered", "failed"}]
      /\ attempt' \in [ApiCall -> 0 .. Attempts] /\ through' \in [ApiCall -> 0 .. Attempts]
      /\ at'[r] = to /\ attempt'[r] = n /\ through'[r] = k
      /\ \A q \in ApiCall : q # r => at'[q] = at[q] /\ attempt'[q] = attempt[q]
                                     /\ through'[q] = through[q]
  BY <1>1 DEF ClientTypeOK
<1>3. ClientTypeOK'
  BY <1>1, <1>2 DEF ClientTypeOK
<1>4. ASSUME NEW q \in ApiCall PROVE Tried(q)'
  <2>1. CASE q = r
    BY <1>2, <2>1 DEF Tried
  <2>2. CASE q # r
    <3>1. Tried(q)
      BY DEF ClientInv
    <3> QED
      BY <1>2, <2>2, <3>1 DEF Tried
  <2> QED
    BY <2>1, <2>2
<1>5. OpenWhileFailing' /\ CounterTrue'
  BY <1>1 DEF OpenWhileFailing, CounterTrue
<1> QED
  BY <1>3, <1>4, <1>5 DEF ClientInv

\* An attempt of request r ends.
LEMMA AnswerStep ==
    ASSUME Breaker, ClientInv, NEW r \in ApiCall, at[r] = "calling",
           NEW to \in {"sleeping", "answered", "failed"}, at' = [at EXCEPT ![r] = to],
           to = "sleeping" => attempt[r] < Attempts,
           UNCHANGED <<time, attempt, through>>
    PROVE  /\ at' \in [ApiCall -> {"new", "calling", "sleeping", "blocked", "answered", "failed"}]
           /\ \A q \in ApiCall : Tried(q)'
<1>1. ClientTypeOK
  BY DEF ClientInv
<1>2. /\ at' \in [ApiCall -> {"new", "calling", "sleeping", "blocked", "answered", "failed"}]
      /\ at'[r] = to /\ \A q \in ApiCall : q # r => at'[q] = at[q]
  BY <1>1 DEF ClientTypeOK
<1>3. ASSUME NEW q \in ApiCall PROVE Tried(q)'
  <2>1. Tried(q)
    BY DEF ClientInv
  <2>2. CASE q = r
    BY <1>2, <2>1, <2>2 DEF Tried
  <2>3. CASE q # r
    BY <1>2, <2>1, <2>3 DEF Tried
  <2> QED
    BY <2>2, <2>3
<1> QED
  BY <1>2, <1>3

LEMMA ClientStep ==
    ASSUME Breaker, ClientInv, ClientNext PROVE ClientInv'
<1>0. /\ ClientTypeOK /\ OpenWhileFailing /\ CounterTrue
      /\ \A r \in ApiCall : Tried(r)
  BY DEF ClientInv
<1>1. /\ time \in 0 .. LastTime /\ failing \in Nat /\ openUntil \in 0 .. LastTime + OpenFor
      /\ attempt \in [ApiCall -> 0 .. Attempts] /\ through \in [ApiCall -> 0 .. Attempts]
      /\ inRow \in 0 .. Threshold /\ lastFailure \in 0 .. LastTime
      /\ Attempts \in Nat \ {0} /\ Threshold \in Nat \ {0} /\ OpenFor \in Nat /\ LastTime \in Nat
  BY <1>0 DEF ClientTypeOK, Breaker
<1>2. CASE ClientTick
  <2>1. /\ time' \in 0 .. LastTime
        /\ UNCHANGED <<failing, openUntil, at, attempt, inRow, lastFailure, through>>
    BY <1>1, <1>2 DEF ClientTick
  <2>2. ClientTypeOK' /\ OpenWhileFailing' /\ CounterTrue'
    BY <1>0, <2>1 DEF ClientTypeOK, OpenWhileFailing, CounterTrue
  <2>3. \A r \in ApiCall : Tried(r)'
    BY <1>0, <2>1 DEF Tried
  <2> QED
    BY <2>2, <2>3 DEF ClientInv
<1>3. ASSUME NEW r \in ApiCall, CallApi(r), attempt[r] < Attempts, attempt[r] = 0 => ~CircuitOpen,
             UNCHANGED <<time, failing, openUntil, inRow, lastFailure>>
      PROVE  ClientInv'
  <2> DEFINE n == attempt[r] + 1
             k == IF CircuitOpen THEN through[r] + 1 ELSE through[r]
  <2>1. /\ at' = [at EXCEPT ![r] = "calling"] /\ attempt' = [attempt EXCEPT ![r] = n]
        /\ through' = [through EXCEPT ![r] = k]
    BY <1>3 DEF CallApi
  <2>2. attempt[r] \in Nat /\ through[r] \in Nat
    BY <1>1
  <2>3. n \in 0 .. Attempts /\ n # 0 /\ k < n /\ k \in 0 .. Attempts
    BY <1>0, <1>1, <1>3, <2>2 DEF Tried
  <2> HIDE DEF n, k
  <2> QED
    BY <1>3, <2>1, <2>3, AttemptStep
<1>4. ASSUME NEW r \in ApiCall, Start(r) PROVE ClientInv'
  <2>1. attempt[r] = 0 /\ attempt[r] < Attempts /\ through[r] = 0
    BY <1>0, <1>1, <1>4 DEF Start, Tried
  <2>2. CASE ~CircuitOpen
    BY <1>3, <1>4, <2>1, <2>2 DEF Start
  <2>3. CASE CircuitOpen
    <3>1. at' = [at EXCEPT ![r] = "blocked"] /\ UNCHANGED <<attempt, through>>
          /\ UNCHANGED <<time, failing, openUntil, inRow, lastFailure>>
      BY <1>4, <2>3 DEF Start
    <3>2. attempt' = [attempt EXCEPT ![r] = 0] /\ through' = [through EXCEPT ![r] = 0]
      BY <1>1, <2>1, <3>1
    <3>3. 0 \in 0 .. Attempts
      BY <1>1
    <3> QED
      BY <3>1, <3>2, <3>3, AttemptStep
  <2> QED
    BY <2>2, <2>3
<1>5. ASSUME NEW r \in ApiCall, Again(r) PROVE ClientInv'
  BY <1>0, <1>3, <1>5 DEF Again, Tried
<1>6. ASSUME NEW r \in ApiCall, Succeed(r) PROVE ClientInv'
  <2>1. /\ at[r] = "calling" /\ at' = [at EXCEPT ![r] = "answered"]
        /\ failing' = 0 /\ openUntil' = 0 /\ inRow' = 0
        /\ UNCHANGED <<time, attempt, lastFailure, through>>
    BY <1>6 DEF Succeed
  <2>2. /\ at' \in [ApiCall -> {"new", "calling", "sleeping", "blocked", "answered", "failed"}]
        /\ \A q \in ApiCall : Tried(q)'
    BY <2>1, AnswerStep
  <2>3. ClientTypeOK'
    BY <1>1, <2>1, <2>2 DEF ClientTypeOK
  <2>4. OpenWhileFailing' /\ CounterTrue'
    BY <1>1, <2>1 DEF OpenWhileFailing, CounterTrue
  <2> QED
    BY <2>2, <2>3, <2>4 DEF ClientInv
<1>7. ASSUME NEW r \in ApiCall, NEW again \in BOOLEAN, Fail(r, again) PROVE ClientInv'
  <2>1. PICK to \in {"sleeping", "failed"} :
           /\ at' = [at EXCEPT ![r] = to] /\ (to = "sleeping" => attempt[r] < Attempts)
    BY <1>7 DEF Fail
  <2>2. /\ at[r] = "calling"
        /\ failing' = failing + 1
        /\ openUntil' = IF failing' >= Threshold THEN time + OpenFor ELSE openUntil
        /\ inRow' = IF inRow < Threshold THEN inRow + 1 ELSE inRow
        /\ lastFailure' = time
        /\ UNCHANGED <<time, attempt, through>>
    BY <1>7 DEF Fail, RecordFailure
  <2>3. /\ at' \in [ApiCall -> {"new", "calling", "sleeping", "blocked", "answered", "failed"}]
        /\ \A q \in ApiCall : Tried(q)'
    BY <2>1, <2>2, AnswerStep
  <2>4. /\ failing' \in Nat /\ inRow' \in 0 .. Threshold /\ openUntil' \in 0 .. LastTime + OpenFor
        /\ lastFailure' \in 0 .. LastTime
    BY <1>1, <2>2
  <2>5. ClientTypeOK'
    BY <1>1, <2>2, <2>3, <2>4 DEF ClientTypeOK
  <2>6. CounterTrue'
    BY <1>0, <1>1, <2>2 DEF CounterTrue
  <2>7. OpenWhileFailing'
    BY <1>1, <2>2, <2>4, <2>6 DEF CounterTrue, OpenWhileFailing
  <2> QED
    BY <2>3, <2>5, <2>6, <2>7 DEF ClientInv
<1> QED
  BY <1>2, <1>4, <1>5, <1>6, <1>7 DEF ClientNext

\* For any number of concurrent requests, attempts and any threshold: while the
\* breaker of MemUClient is open only requests that began before it opened
\* reach the server, and it is open as long as failures follow one another.
THEOREM BreakerKept ==
    ASSUME Breaker PROVE ClientSpec => []ClientSafe
<1>1. ClientInit => ClientInv
  <2> SUFFICES ASSUME ClientInit PROVE ClientInv
    OBVIOUS
  <2>1. ClientTypeOK
    BY DEF ClientInit, ClientTypeOK, Breaker
  <2>2. OpenWhileFailing /\ CounterTrue
    BY DEF ClientInit, OpenWhileFailing, CounterTrue, Breaker
  <2>3. \A r \in ApiCall : Tried(r)
    BY DEF ClientInit, Tried
  <2> QED
    BY <2>1, <2>2, <2>3 DEF ClientInv
<1>2. ClientInv /\ [ClientNext]_clientVars => ClientInv'
  <2> SUFFICES ASSUME ClientInv, [ClientNext]_clientVars PROVE ClientInv'
    OBVIOUS
  <2>1. CASE ClientNext
    BY <2>1, ClientStep
  <2>2. CASE UNCHANGED clientVars
    BY <2>2 DEF clientVars, ClientInv, ClientTypeOK, OpenWhileFailing, CounterTrue, Tried
  <2> QED
    BY <2>1, <2>2
<1>3. ClientInv => ClientSafe
  <2> SUFFICES ASSUME ClientInv, NEW r \in ApiCall PROVE through[r] < Attempts
    BY DEF ClientInv, ClientSafe, FewThroughOpenCircuit
  <2>1. /\ Attempts \in Nat \ {0} /\ attempt[r] \in 0 .. Attempts /\ through[r] \in 0 .. Attempts
        /\ Tried(r)
    BY DEF ClientInv, ClientTypeOK, Breaker
  <2> QED
    BY <2>1 DEF Tried
<1> QED
  BY <1>1, <1>2, <1>3, PTL DEF ClientSpec

-----------------------------------------------------------------------------
(* The task board                                                           *)

\* What the events name exists.
Events ==
    /\ PageOf \in [TaskMessage -> Page] /\ AgentOf \in [TaskMessage -> Poller]
    /\ MaxBoardFaults \in Nat

PageRecord == [status : {"Backlog", "In Progress", "Done", "Blocked"},
               agent : Poller \cup {AnyAgent}, notes : SUBSET TaskMessage]
Job == [at : {"none", "start", "read", "patched"}, msg : SUBSET TaskMessage,
        read : SUBSET TaskMessage]
Delivery == {"sent", "taken", "handled", "lost"}

BoardTyped ==
    /\ page \in [Page -> PageRecord]
    /\ pending \in [Poller -> SUBSET Page] /\ listed \in [Poller -> SUBSET Page]
    /\ inflight \in [TaskMessage -> Delivery]
    /\ job \in [Worker -> Job]
    /\ memories \subseteq TaskMessage
    /\ boardFaults \in 0 .. MaxBoardFaults

\* A page that somebody has claimed has left the Backlog; one that two have
\* was claimed from a list that was out of date.
Claims ==
    \A p \in Page, q \in Poller : p \in pending[q] =>
        /\ page[p].status # "Backlog"
        /\ \A r \in Poller : p \in pending[r] => q = r \/ p \in stale

\* A worker has one message in hand, which nobody else has.
InHand ==
    \A w \in Worker, m \in TaskMessage : m \in job[w].msg =>
        /\ inflight[m] = "taken" /\ job[w].msg = {m}
        /\ \A v \in Worker : m \in job[v].msg => v = w

\* An event has been applied to its page, for good.
Applied(m) ==
    /\ m \in page[PageOf[m]].notes \/ m \in overlapped
    /\ page[PageOf[m]].status \in {"Done", "Blocked"} \/ PageOf[m] \in stale

\* A completion is applied before it is written to memory and handled.
AppliedFirst ==
    /\ \A w \in Worker, m \in TaskMessage : Handles(w, m, "patched") => Applied(m)
    /\ \A m \in TaskMessage : inflight[m] = "handled" /\ KindOf[m] # "started" => Applied(m)
    /\ \A m \in TaskMessage : m \in memories => Applied(m)

BoardInv == BoardTyped /\ Claims /\ InHand /\ AppliedFirst

-----------------------------------------------------------------------------
\* What a step may do to a page: its notes stay or are known to be overwritten,
\* it does not go back to the Backlog, and it is taken up again only under
\* notice.
PagesMove ==
    /\ page' \in [Page -> PageRecord]
    /\ stale \subseteq stale' /\ overlapped \subseteq overlapped'
    /\ \A p \in Page :
          /\ page[p].notes \subseteq page'[p].notes \cup overlapped'
          /\ page[p].status # "Backlog" => page'[p].status # "Backlog"
          /\ page[p].status \in {"Done", "Blocked"} =>
                page'[p].status \in {"Done", "Blocked"} \/ p \in stale'

\* What a step may remember: what was remembered, or is applied.
MemoriesMove ==
    /\ memories' \subseteq TaskMessage
    /\ \A m \in TaskMessage : m \in memories' => m \in memories \/ Applied(m)'

LEMMA AppliedStays ==
    ASSUME Events, PagesMove, NEW m \in TaskMessage, Applied(m) PROVE Applied(m)'
  BY DEF Events, PagesMove, Applied

LEMMA SamePages ==
    ASSUME BoardTyped, UNCHANGED <<page, stale, overlapped>> PROVE PagesMove
  BY DEF BoardTyped, PagesMove, PageRecord

LEMMA SameMemories ==
    ASSUME BoardTyped, UNCHANGED memories PROVE MemoriesMove
  BY DEF BoardTyped, MemoriesMove

\* A request that is not answered is one fault more.
LEMMA FaultsCounted ==
    ASSUME Events, BoardTyped,
           UNCHANGED boardFaults \/ BoardFault
           \/ \E came \in BOOLEAN : AnswerComes(came)
    PROVE  boardFaults' \in 0 .. MaxBoardFaults
<1>1. boardFaults \in 0 .. MaxBoardFaults /\ MaxBoardFaults \in Nat
  BY DEF BoardTyped, Events
<1>2. UNCHANGED boardFaults \/ BoardFault
  BY DEF AnswerComes
<1> QED
  BY <1>1, <1>2 DEF BoardFault

\* claim_task
LEMMA ClaimMoves ==
    ASSUME BoardTyped, NEW p \in Page, NEW a \in Poller, page' = Claimed(p, a),
           MarkStale(p), UNCHANGED overlapped
    PROVE  PagesMove /\ page'[p].status # "Backlog"
           /\ (p \in stale' \/ page[p].status = "Backlog")
<1> DEFINE rec == [page[p] EXCEPT !.status = "In Progress", !.agent = a]
<1>1. page[p] \in PageRecord /\ page \in [Page -> PageRecord]
  BY DEF BoardTyped
<1>2. page' = [page EXCEPT ![p] = rec]
  BY <1>1 DEF Claimed, PageRecord
<1>3. rec \in PageRecord /\ rec.notes = page[p].notes /\ rec.status = "In Progress"
  BY <1>1 DEF PageRecord
<1>4. /\ page' \in [Page -> PageRecord] /\ page'[p] = rec
      /\ \A r \in Page : r # p => page'[r] = page[r]
  BY <1>1, <1>2, <1>3
<1>5. stale \subseteq stale' /\ (p \in stale' \/ page[p].status = "Backlog")
  BY DEF MarkStale
<1> HIDE DEF rec
<1> QED
  BY <1>3, <1>4, <1>5 DEF PagesMove

\* The PATCH of complete_task or block_task.
LEMMA PatchMoves ==
    ASSUME Events, BoardTyped, NEW w \in Worker, NEW m \in TaskMessage,
           NEW came \in BOOLEAN, PatchPage(w, m, came)
    PROVE  PagesMove /\ Applied(m)' /\ page'[PageOf[m]].status # "Backlog"
<1> DEFINE p == PageOf[m]
           st == IF KindOf[m] = "completed" THEN "Done" ELSE "Blocked"
           rec == [page[p] EXCEPT !.status = st, !.notes = MergeNotes(job[w].read, m)]
<1>1. p \in Page /\ page[p] \in PageRecord /\ page \in [Page -> PageRecord] /\ job[w] \in Job
  BY DEF BoardTyped, Events
<1>2. /\ page' = [page EXCEPT ![p].status = st, ![p].notes = MergeNotes(job[w].read, m)]
      /\ overlapped' = overlapped \cup (page[p].notes \ (job[w].read \cup {m}))
      /\ UNCHANGED stale
  BY DEF PatchPage
<1>3. page' = [page EXCEPT ![p] = rec]
  BY <1>1, <1>2 DEF PageRecord
<1>4. /\ rec \in PageRecord /\ rec.notes = job[w].read \cup {m} /\ rec.status \in {"Done", "Blocked"}
      /\ page[p].notes \subseteq TaskMessage
  BY <1>1 DEF PageRecord, Job, MergeNotes
<1>5. /\ page' \in [Page -> PageRecord] /\ page'[p] = rec
      /\ \A r \in Page : r # p => page'[r] = page[r]
  BY <1>1, <1>3, <1>4
<1>6. page[p].notes \subseteq rec.notes \cup overlapped'
  BY <1>2, <1>4
<1>7. PageOf[m] = p
  OBVIOUS
<1> HIDE DEF rec, p, st
<1>8. PagesMove
  BY <1>1, <1>2, <1>4, <1>5, <1>6 DEF PagesMove
<1> QED
  BY <1>4, <1>5, <1>7, <1>8 DEF Applied

\* A step of worker w on message m: what is left to show after it.
LEMMA WorkerStep ==
    ASSUME Events, BoardInv, PagesMove, MemoriesMove,
           NEW w \in Worker, NEW m \in TaskMessage,
           UNCHANGED <<pending, listed>>, boardFaults' \in 0 .. MaxBoardFaults,
           NEW j \in Job, job' = [job EXCEPT ![w] = j],
           NEW to \in Delivery, inflight' = [inflight EXCEPT ![m] = to],
           job[w].msg \subseteq {m}, m \notin job[w].msg => inflight[m] # "taken",
           \/ to = "taken" /\ j.msg = {m}
           \/ to # "taken" /\ j.msg = {},
           j.at = "patched" \/ (to = "handled" /\ KindOf[m] # "started") => Applied(m)'
    PROVE  BoardInv'
<1>1. BoardTyped /\ Claims /\ InHand /\ AppliedFirst
  BY DEF BoardInv
<1>2. /\ job' \in [Worker -> Job] /\ job'[w] = j /\ \A v \in Worker : v # w => job'[v] = job[v]
      /\ inflight' \in [TaskMessage -> Delivery] /\ inflight'[m] = to
      /\ \A n \in TaskMessage : n # m => inflight'[n] = inflight[n]
  BY <1>1 DEF BoardTyped
<1>3. BoardTyped'
  BY <1>1, <1>2 DEF BoardTyped, PagesMove, MemoriesMove
<1>4. Claims'
  BY <1>1 DEF Claims, PagesMove
\* Only worker w can have message m.
<1>5. \A v \in Worker : v # w => m \notin job[v].msg
  BY <1>1 DEF InHand
<1>6. InHand'
  BY <1>1, <1>2, <1>5 DEF InHand
<1>7. ASSUME NEW n \in TaskMessage, n \in memories' PROVE Applied(n)'
  BY <1>1, <1>7, AppliedStays DEF AppliedFirst, MemoriesMove
<1>8. ASSUME NEW v \in Worker, NEW n \in TaskMessage, Handles(v, n, "patched")'
      PROVE  Applied(n)'
  <2>1. job'[v].at = "patched" /\ n \in job'[v].msg
    BY <1>8 DEF Handles
  <2>2. CASE v = w
    BY <1>2, <2>1, <2>2
  <2>3. CASE v # w
    BY <1>1, <1>2, <2>1, <2>3, AppliedStays DEF AppliedFirst, Handles
  <2> QED
    BY <2>2, <2>3
<1>9. ASSUME NEW n \in TaskMessage, inflight'[n] = "handled", KindOf[n] # "started"
      PROVE  Applied(n)'
  <2>1. CASE n = m
    BY <1>2, <1>9, <2>1
  <2>2. CASE n # m
    BY <1>1, <1>2, <1>9, <2>2, AppliedStays DEF AppliedFirst
  <2> QED
    BY <2>1, <2>2
<1> QED
  BY <1>3, <1>4, <1>6, <1>7, <1>8, <1>9 DEF BoardInv, AppliedFirst

\* A step after which every worker has what it had: one of a poller, the loss
\* of an event on its way, a request whose answer does not come.
LEMMA JobsStay ==
    ASSUME Events, BoardInv, PagesMove, MemoriesMove, UNCHANGED job,
           inflight' \in [TaskMessage -> Delivery],
           \A m \in TaskMessage : inflight'[m] # inflight[m] =>
               inflight[m] = "sent" /\ inflight'[m] = "lost",
           boardFaults' \in 0 .. MaxBoardFaults,
           listed' \in [Poller -> SUBSET Page], pending' \in [Poller -> SUBSET Page],
           Claims'
    PROVE  BoardInv'
<1>1. BoardTyped /\ Claims /\ InHand /\ AppliedFirst
  BY DEF BoardInv
<1>2. BoardTyped'
  BY <1>1 DEF BoardTyped, PagesMove, MemoriesMove
<1>3. InHand'
  BY <1>1 DEF InHand
<1>4. AppliedFirst'
  BY <1>1, AppliedStays DEF AppliedFirst, Handles, MemoriesMove
<1> QED
  BY <1>2, <1>3, <1>4 DEF BoardInv

\* A request of a worker that was not answered, whatever it did to the pages.
LEMMA Unanswered ==
    ASSUME Events, BoardInv, PagesMove, MemoriesMove,
           UNCHANGED <<job, inflight, listed, pending>>,
           boardFaults' \in 0 .. MaxBoardFaults
    PROVE  BoardInv'
<1>1. BoardTyped /\ Claims
  BY DEF BoardInv
<1>2. Claims'
  BY <1>1 DEF Claims, PagesMove
<1> QED
  BY <1>1, <1>2, JobsStay DEF BoardTyped

\* A worker is done with its message.
LEMMA JobEnds ==
    ASSUME Events, BoardInv, PagesMove, MemoriesMove,
           NEW w \in Worker, NEW m \in TaskMessage,
           m \in job[w].msg, NEW to \in {"handled", "lost"}, EndJob(w, m, to),
           UNCHANGED <<pending, listed>>, boardFaults' \in 0 .. MaxBoardFaults,
           to = "handled" /\ KindOf[m] # "started" => Applied(m)'
    PROVE  BoardInv'
<1>1. inflight' = [inflight EXCEPT ![m] = to] /\ job' = [job EXCEPT ![w] = NoJob]
  BY DEF EndJob
<1>2. NoJob \in Job /\ NoJob.msg = {} /\ NoJob.at # "patched"
  BY DEF NoJob, Job
<1>3. job[w].msg = {m} /\ to # "taken" /\ to \in Delivery
  BY DEF BoardInv, InHand, Delivery
<1> QED
  BY <1>1, <1>2, <1>3, WorkerStep

-----------------------------------------------------------------------------
\* The steps of the pollers.
LEMMA PollerSteps ==
    ASSUME Events, BoardInv, NEW q \in Poller,
           \/ PollTasks(q) \/ PollerFails(q)
           \/ \E p \in Page :
                 \/ PollerSkips(q, p) \/ MarkClaimed(q, p)
                 \/ \E came \in BOOLEAN : PollerClaim(q, p, came)
    PROVE  BoardInv'
<1>1. BoardTyped /\ Claims /\ inflight \in [TaskMessage -> Delivery]
  BY DEF BoardInv, BoardTyped
<1>2. pending \in [Poller -> SUBSET Page] /\ listed \in [Poller -> SUBSET Page]
  BY <1>1 DEF BoardTyped
<1>3. CASE PollTasks(q)
  <2>1. UNCHANGED <<inflight, job, pending, memories, boardFaults, page, stale, overlapped>>
    BY <1>3 DEF PollTasks
  <2>2. listed' \in [Poller -> SUBSET Page] /\ Claims'
    BY <1>1, <1>2, <1>3, <2>1 DEF PollTasks, Claims
  <2> QED
    BY <1>1, <1>2, <2>1, <2>2, SamePages, SameMemories, FaultsCounted, JobsStay
<1>4. CASE PollerFails(q)
  <2>1. UNCHANGED <<inflight, job, pending, memories, page, stale, overlapped>> /\ BoardFault
    BY <1>4 DEF PollerFails
  <2>2. listed' \in [Poller -> SUBSET Page] /\ Claims'
    BY <1>1, <1>2, <1>4, <2>1 DEF PollerFails, Claims
  <2> QED
    BY <1>1, <1>2, <2>1, <2>2, SamePages, SameMemories, FaultsCounted, JobsStay
<1>5. ASSUME NEW p \in Page, PollerSkips(q, p) PROVE BoardInv'
  <2>1. UNCHANGED <<inflight, job, pending, memories, boardFaults, page, stale, overlapped>>
    BY <1>5 DEF PollerSkips
  <2>2. listed' \in [Poller -> SUBSET Page] /\ Claims'
    BY <1>1, <1>2, <1>5, <2>1 DEF PollerSkips, Claims
  <2> QED
    BY <1>1, <1>2, <2>1, <2>2, SamePages, SameMemories, FaultsCounted, JobsStay
<1>6. ASSUME NEW p \in Page, MarkClaimed(q, p) PROVE BoardInv'
  <2>1. /\ UNCHANGED <<inflight, job, listed, memories, boardFaults, page, stale, overlapped>>
        /\ pending' = [pending EXCEPT ![q] = pending[q] \ {p}]
    BY <1>6 DEF MarkClaimed
  <2>2. pending' \in [Poller -> SUBSET Page]
        /\ \A r \in Poller : pending'[r] \subseteq pending[r]
    BY <1>2, <2>1
  <2>3. Claims'
    BY <1>1, <2>1, <2>2 DEF Claims
  <2> QED
    BY <1>1, <1>2, <2>1, <2>2, <2>3, SamePages, SameMemories, FaultsCounted, JobsStay
<1>7. ASSUME NEW p \in Page, NEW came \in BOOLEAN, PollerClaim(q, p, came) PROVE BoardInv'
  <2>1. /\ page' = Claimed(p, q) /\ MarkStale(p) /\ AnswerComes(came)
        /\ UNCHANGED <<inflight, job, memories, overlapped>>
    BY <1>7 DEF PollerClaim
  <2>2. \/ UNCHANGED <<listed, pending>>
        \/ /\ listed' = [listed EXCEPT ![q] = listed[q] \ {p}]
           /\ pending' = [pending EXCEPT ![q] = pending[q] \cup {p}]
    BY <1>7 DEF PollerClaim
  <2>3. /\ PagesMove /\ page'[p].status # "Backlog"
        /\ p \in stale' \/ page[p].status = "Backlog"
    BY <1>1, <2>1, ClaimMoves
  <2>4. /\ listed' \in [Poller -> SUBSET Page] /\ pending' \in [Poller -> SUBSET Page]
        /\ \A r \in Poller, s \in Page : s \in pending'[r] =>
              s \in pending[r] \/ (r = q /\ s = p)
    BY <1>2, <2>2
  <2>5. Claims'
    <3> SUFFICES ASSUME NEW s \in Page, NEW r \in Poller, s \in pending'[r]
                 PROVE  /\ page'[s].status # "Backlog"
                        /\ \A t \in Poller : s \in pending'[t] => r = t \/ s \in stale'
      BY DEF Claims
    <3>1. CASE s = p
      BY <1>1, <2>3, <2>4, <3>1 DEF Claims, PagesMove
    <3>2. CASE s # p
      BY <1>1, <2>3, <2>4, <3>2 DEF Claims, PagesMove
    <3> QED
      BY <3>1, <3>2
  <2>6. MemoriesMove /\ boardFaults' \in 0 .. MaxBoardFaults
    BY <1>1, <2>1, SameMemories, FaultsCounted
  <2> QED
    BY <1>1, <2>1, <2>3, <2>4, <2>5, <2>6, JobsStay
<1> QED
  BY <1>3, <1>4, <1>5, <1>6, <1>7

\* The first steps of the handler: the claim, the refusal, the read.
LEMMA HandlerStarts ==
    ASSUME Events, BoardInv, NEW w \in Worker, NEW m \in TaskMessage,
           OnNoNotes(w, m) \/ GetTask(w, m) \/ \E came \in BOOLEAN : OnStarted(w, m, came)
    PROVE  BoardInv'
<1>1. BoardTyped /\ InHand /\ job \in [Worker -> Job]
  BY DEF BoardInv, BoardTyped
<1>2. ASSUME NEW came \in BOOLEAN, OnStarted(w, m, came) PROVE BoardInv'
  <2>1. /\ m \in job[w].msg /\ KindOf[m] = "started" /\ page' = Claimed(PageOf[m], AgentOf[m])
        /\ MarkStale(PageOf[m]) /\ AnswerComes(came)
        /\ UNCHANGED <<listed, pending, memories, overlapped>>
        /\ EndJob(w, m, "handled") \/ UNCHANGED <<job, inflight>>
    BY <1>2 DEF OnStarted, Handles
  <2>2. PageOf[m] \in Page /\ AgentOf[m] \in Poller
    BY DEF Events
  <2>3. PagesMove /\ MemoriesMove /\ boardFaults' \in 0 .. MaxBoardFaults
    BY <1>1, <2>1, <2>2, ClaimMoves, SameMemories, FaultsCounted
  <2> QED
    BY <2>1, <2>3, JobEnds, Unanswered
<1>3. CASE OnNoNotes(w, m)
  <2>1. /\ EndJob(w, m, "lost") /\ m \in job[w].msg
        /\ UNCHANGED <<listed, pending, boardFaults, memories, page, stale, overlapped>>
    BY <1>3 DEF OnNoNotes, Handles
  <2> QED
    BY <1>1, <2>1, SamePages, SameMemories, FaultsCounted, JobEnds
<1>4. CASE GetTask(w, m)
  <2>1. /\ m \in job[w].msg
        /\ UNCHANGED <<listed, pending, boardFaults, inflight, memories, page, stale, overlapped>>
    BY <1>4 DEF GetTask, Handles
  <2> DEFINE j == [job[w] EXCEPT !.at = "read", !.read = page[PageOf[m]].notes]
  <2>2. job' = [job EXCEPT ![w] = j]
    BY <1>1, <1>4 DEF GetTask
  <2>3. job[w].msg = {m} /\ inflight[m] = "taken"
    BY <1>1, <2>1 DEF InHand
  <2>4. job[w] \in Job /\ page[PageOf[m]].notes \subseteq TaskMessage
    BY <1>1 DEF BoardTyped, PageRecord, Events
  <2>5. j \in Job /\ j.msg = {m} /\ j.at # "patched"
    BY <2>3, <2>4 DEF Job
  <2>6. inflight' = [inflight EXCEPT ![m] = "taken"] /\ "taken" \in Delivery
    BY <1>1, <2>1, <2>3 DEF BoardTyped, Delivery
  <2>7. PagesMove /\ MemoriesMove /\ boardFaults' \in 0 .. MaxBoardFaults
    BY <1>1, <2>1, SamePages, SameMemories, FaultsCounted
  <2>8. UNCHANGED <<pending, listed>> /\ job[w].msg \subseteq {m}
    BY <2>1, <2>3
  <2> HIDE DEF j
  <2> QED
    BY <2>1, <2>2, <2>5, <2>6, <2>7, <2>8, WorkerStep
<1> QED
  BY <1>2, <1>3, <1>4

\* The PATCH of a completion or a failure.
LEMMA PatchStep ==
    ASSUME Events, BoardInv, NEW w \in Worker, NEW m \in TaskMessage,
           NEW came \in BOOLEAN, PatchPage(w, m, came)
    PROVE  BoardInv'
<1>1. BoardTyped /\ InHand /\ job \in [Worker -> Job]
  BY DEF BoardInv, BoardTyped
<1>2. PagesMove /\ Applied(m)'
  BY <1>1, PatchMoves
<1>3. /\ m \in job[w].msg /\ UNCHANGED <<listed, pending, memories>> /\ AnswerComes(came)
      /\ \/ UNCHANGED <<job, inflight>>
         \/ job' = [job EXCEPT ![w].at = "patched"] /\ UNCHANGED inflight
         \/ EndJob(w, m, "handled")
  BY DEF PatchPage, Handles
<1>4. MemoriesMove /\ boardFaults' \in 0 .. MaxBoardFaults
  BY <1>1, <1>3, SameMemories, FaultsCounted
<1>5. CASE UNCHANGED <<job, inflight>>
  BY <1>2, <1>3, <1>4, <1>5, Unanswered
<1>6. CASE job' = [job EXCEPT ![w].at = "patched"] /\ UNCHANGED inflight
  <2> DEFINE j == [job[w] EXCEPT !.at = "patched"]
  <2>1. job' = [job EXCEPT ![w] = j]
    BY <1>1, <1>6
  <2>2. job[w].msg = {m} /\ inflight[m] = "taken" /\ job[w] \in Job
    BY <1>1, <1>3 DEF InHand
  <2>3. j \in Job /\ j.msg = {m}
    BY <2>2 DEF Job
  <2>4. inflight' = [inflight EXCEPT ![m] = "taken"] /\ "taken" \in Delivery
    BY <1>1, <1>6, <2>2 DEF BoardTyped, Delivery
  <2> HIDE DEF j
  <2> QED
    BY <1>2, <1>3, <1>4, <2>1, <2>2, <2>3, <2>4, WorkerStep
<1>7. CASE EndJob(w, m, "handled")
  BY <1>2, <1>3, <1>4, <1>7, JobEnds
<1> QED
  BY <1>3, <1>5, <1>6, <1>7

\* The memory of a completion, and requests that fail.
LEMMA HandlerEnds ==
    ASSUME Events, BoardInv, NEW w \in Worker, NEW m \in TaskMessage,
           \/ MemoryRefused(w, m) \/ RequestFails(w, m)
           \/ \E came \in BOOLEAN : WriteMemory(w, m, came)
    PROVE  BoardInv'
<1>1. BoardTyped /\ AppliedFirst
  BY DEF BoardInv
<1>2. ASSUME NEW came \in BOOLEAN, WriteMemory(w, m, came) PROVE BoardInv'
  <2>1. /\ Handles(w, m, "patched") /\ m \in job[w].msg /\ AnswerComes(came)
        /\ memories' = memories \cup {m}
        /\ UNCHANGED <<listed, pending, page, stale, overlapped>>
        /\ EndJob(w, m, "handled") \/ UNCHANGED <<job, inflight>>
    BY <1>2 DEF WriteMemory, Handles
  <2>2. PagesMove /\ boardFaults' \in 0 .. MaxBoardFaults
    BY <1>1, <2>1, SamePages, FaultsCounted
  <2>3. Applied(m)'
    BY <1>1, <2>1, <2>2, AppliedStays DEF AppliedFirst
  <2>4. MemoriesMove
    BY <1>1, <2>1, <2>3 DEF MemoriesMove, BoardTyped
  <2> QED
    BY <2>1, <2>2, <2>3, <2>4, JobEnds, Unanswered
<1>3. CASE MemoryRefused(w, m)
  <2>1. /\ Handles(w, m, "patched") /\ m \in job[w].msg /\ BoardFault /\ EndJob(w, m, "handled")
        /\ UNCHANGED <<listed, pending, memories, page, stale, overlapped>>
    BY <1>3 DEF MemoryRefused, Handles
  <2>2. PagesMove /\ MemoriesMove /\ boardFaults' \in 0 .. MaxBoardFaults
    BY <1>1, <2>1, SamePages, SameMemories, FaultsCounted
  <2>3. Applied(m)'
    BY <1>1, <2>1, <2>2, AppliedStays DEF AppliedFirst
  <2> QED
    BY <2>1, <2>2, <2>3, JobEnds
<1>4. CASE RequestFails(w, m)
  <2>1. /\ m \in job[w].msg /\ BoardFault /\ EndJob(w, m, "lost")
        /\ UNCHANGED <<listed, pending, memories, page, stale, overlapped>>
    BY <1>4 DEF RequestFails
  <2> QED
    BY <1>1, <2>1, SamePages, SameMemories, FaultsCounted, JobEnds
<1> QED
  BY <1>2, <1>3, <1>4

LEMMA BoardStep ==
    ASSUME Events, BoardInv, BoardNext PROVE BoardInv'
<1>1. BoardTyped /\ Claims /\ InHand
  BY DEF BoardInv
<1>2. ASSUME NEW m \in TaskMessage, LoseMessage(m) PROVE BoardInv'
  <2>1. /\ inflight[m] = "sent" /\ BoardFault /\ inflight' = [inflight EXCEPT ![m] = "lost"]
        /\ UNCHANGED <<page, listed, pending, job, memories, stale, overlapped>>
    BY <1>2 DEF LoseMessage
  <2>2. PagesMove /\ MemoriesMove /\ boardFaults' \in 0 .. MaxBoardFaults
    BY <1>1, <2>1, SamePages, SameMemories, FaultsCounted
  <2>3. /\ inflight' \in [TaskMessage -> Delivery] /\ inflight'[m] = "lost"
        /\ \A n \in TaskMessage : n # m => inflight'[n] = inflight[n]
    BY <1>1, <2>1 DEF BoardTyped, Delivery
  <2>4. Claims' /\ listed' \in [Poller -> SUBSET Page] /\ pending' \in [Poller -> SUBSET Page]
    BY <1>1, <2>1 DEF Claims, BoardTyped
  <2> QED
    BY <2>1, <2>2, <2>3, <2>4, JobsStay
<1>3. ASSUME NEW w \in Worker, NEW m \in TaskMessage, TakeMessage(w, m) PROVE BoardInv'
  <2>1. /\ UNCHANGED <<pending, listed, memories, boardFaults, page, stale, overlapped>>
        /\ job[w] = NoJob /\ inflight[m] = "sent"
    BY <1>3 DEF TakeMessage
  <2>2. PagesMove /\ MemoriesMove /\ boardFaults' \in 0 .. MaxBoardFaults
    BY <1>1, <2>1, SamePages, SameMemories, FaultsCounted
  <2>3. NoJob \in Job /\ NoJob.msg = {} /\ NoJob.at # "patched"
        /\ "lost" \in Delivery /\ "taken" \in Delivery
    BY DEF NoJob, Job, Delivery
  <2>4. CASE m \in WithoutIds
    <3>1. inflight' = [inflight EXCEPT ![m] = "lost"] /\ job' = [job EXCEPT ![w] = NoJob]
      BY <1>3, <2>4 DEF TakeMessage, EndJob
    <3> QED
      BY <2>1, <2>2, <2>3, <3>1, WorkerStep
  <2>5. CASE m \notin WithoutIds
    <3> DEFINE j == [at |-> "start", msg |-> {m}, read |-> {}]
    <3>1. inflight' = [inflight EXCEPT ![m] = "taken"] /\ job' = [job EXCEPT ![w] = j]
      BY <1>3, <2>5 DEF TakeMessage
    <3>2. j \in Job /\ j.msg = {m} /\ j.at # "patched"
      BY DEF Job
    <3> HIDE DEF j
    <3> QED
      BY <2>1, <2>2, <2>3, <3>1, <3>2, WorkerStep
  <2> QED
    BY <2>4, <2>5
<1>4. ASSUME NEW w \in Worker, NEW m \in TaskMessage, HandleEvent(w, m) PROVE BoardInv'
  BY <1>4, HandlerStarts, PatchStep, HandlerEnds DEF HandleEvent
<1>5. ASSUME NEW q \in Poller, PollTasks(q) \/ PollerFails(q) PROVE BoardInv'
  BY <1>5, PollerSteps
<1>6. ASSUME NEW q \in Poller, NEW p \in Page,
             \/ PollerSkips(q, p) \/ MarkClaimed(q, p)
             \/ \E came \in BOOLEAN : PollerClaim(q, p, came)
      PROVE  BoardInv'
  BY <1>6, PollerSteps
<1> QED
  BY <1>2, <1>3, <1>4, <1>5, <1>6 DEF BoardNext

\* A set with at most one member, counted.
LEMMA AtMostOne ==
    ASSUME NEW S, \A x, y \in S : x = y
    PROVE  Cardinality(S) <= 1
<1>1. CASE S = {}
  BY <1>1, FS_EmptySet
<1>2. CASE S # {}
  <2>1. PICK x : S = {x}
    BY <1>2
  <2> QED
    BY <2>1, FS_Singleton
<1> QED
  BY <1>1, <1>2

LEMMA BoardInvImplies ==
    ASSUME Events, BoardInv PROVE BoardSafe
<1>1. BoardTypeOK
  <2>1. \A p \in Page : page[p] \in PageRecord
    BY DEF BoardInv, BoardTyped
  <2>2. inflight \in [TaskMessage -> {"sent", "taken", "handled", "lost"}]
        /\ boardFaults <= MaxBoardFaults
    BY DEF BoardInv, BoardTyped, Events, Delivery
  <2> QED
    BY <2>1, <2>2 DEF BoardTypeOK, PageRecord
<1>2. ClaimedOnce
  <2> SUFFICES ASSUME NEW p \in Page, p \notin stale
               PROVE  Cardinality({q \in Poller : p \in pending[q]}) <= 1
    BY DEF ClaimedOnce
  <2> DEFINE S == {q \in Poller : p \in pending[q]}
  <2>1. \A x, y \in S : x = y
    BY DEF BoardInv, Claims
  <2> HIDE DEF S
  <2>2. Cardinality(S) <= 1
    BY <2>1, AtMostOne
  <2> QED
    BY <2>2 DEF S
<1>3. NotesKept /\ FinishedStays
  BY DEF BoardInv, AppliedFirst, Applied, NotesKept, FinishedStays
<1>4. MemoriesOnBoard
  BY DEF BoardInv, BoardTyped, AppliedFirst, Applied, MemoriesOnBoard
<1> QED
  BY <1>1, <1>2, <1>3, <1>4 DEF BoardSafe

\* However many pollers, workers and task events there are, whichever events
\* are lost and whichever requests fail or go unanswered (notion_poller.py,
\* nats_worker.py, notion_bridge.py): a page is claimed twice, reopened or
\* loses a note only through a list or a page read too early or a claim sent
\* again, and what is remembered of a completion is on its page.
THEOREM BoardKept ==
    ASSUME Events PROVE BoardSpec => []BoardSafe
<1>1. BoardInit => BoardInv
  <2> SUFFICES ASSUME BoardInit PROVE BoardInv
    OBVIOUS
  <2>1. NoJob \in Job /\ NoJob.msg = {}
    BY DEF NoJob, Job
  <2>2. BoardTyped
    BY <2>1 DEF BoardInit, BoardTyped, PageRecord, Events, Delivery
  <2>3. Claims /\ InHand /\ AppliedFirst
    BY <2>1 DEF BoardInit, Claims, InHand, AppliedFirst, Handles
  <2> QED
    BY <2>2, <2>3 DEF BoardInv
<1>2. BoardInv /\ [BoardNext]_boardVars => BoardInv'
  <2> SUFFICES ASSUME BoardInv, [BoardNext]_boardVars PROVE BoardInv'
    OBVIOUS
  <2>1. CASE BoardNext
    BY <2>1, BoardStep
  <2>2. CASE UNCHANGED boardVars
    BY <2>2 DEF boardVars, BoardInv, BoardTyped, Claims, InHand, AppliedFirst,
       Applied, Handles
  <2> QED
    BY <2>1, <2>2
<1>3. BoardInv => BoardSafe
  BY BoardInvImplies
<1> QED
  BY <1>1, <1>2, <1>3, PTL DEF BoardSpec

-----------------------------------------------------------------------------
(* The topic leases                                                         *)

\* What Patient is about: one request of a gateway per lease at a time.
OneRequest ==
    \A h, i \in Handler, g \in Gateway, k \in Key :
        About(h, g, k) /\ About(i, g, k) => h = i

\* No gateway was told of an expiry that a request of now would not give it.
Timely == \A g \in Gateway, k \in Key : belief[g][k] <= Expiry(clock, g)

\* A gateway that is down acts as the owner of nothing.
DownInactive == \A g \in Gateway, k \in Key : ~up[g] => belief[g][k] = 0

\* A request not yet carried out gives its gateway at least what it believes.
PendingExtends ==
    \A h \in Handler :
        /\ req[h] # NoRequest
        /\ req[h].phase # "answered"
        => /\ belief[req[h].gw][req[h].key] <= Expiry(req[h].now, req[h].gw)
           /\ req[h].exp = 0

\* A gateway that asks for a release no longer acts as the owner.
ReleaseInactive ==
    \A h \in Handler : req[h] # NoRequest /\ req[h].op = "release" =>
        belief[req[h].gw][req[h].key] = 0 /\ req[h].exp = 0

\* An answer on its way is as good as a belief.
AnswerCovered ==
    \A h \in Handler : req[h] # NoRequest =>
        /\ req[h].now <= clock
        /\ req[h].exp <= Expiry(req[h].now, req[h].gw)
        /\ req[h].exp > clock /\ up[req[h].gw] =>
              /\ Owns(req[h].gw, req[h].key)
              /\ row[req[h].key].lease_expires_at >= req[h].exp

LeaseInv ==
    /\ TypeOK
    /\ OneRequest
    /\ Timely
    /\ DownInactive
    /\ PendingExtends
    /\ ReleaseInactive
    /\ AnswerCovered
    /\ BeliefCovered

-----------------------------------------------------------------------------
\* Expiry is a natural number and grows with the clock (microsecond=0 rounds
\* down, so a later request never gets an earlier expiry).
LEMMA ExpiryMonotonic ==
    ASSUME NEW g \in Gateway, NEW m \in Nat, NEW n \in Nat, m <= n
    PROVE  /\ Expiry(m, g) \in Nat \ {0}
           /\ Expiry(m, g) <= Expiry(n, g)
<1>1. TTLOf[g] \in Nat \ {0}
  BY TTLOfAssumption
<1>2. m \div 2 \in Nat /\ n \div 2 \in Nat /\ m \div 2 <= n \div 2
  BY SMT
<1> QED
  BY <1>1, <1>2 DEF Expiry

\* Type correctness is inductive: every handler keeps rows, requests and
\* beliefs well formed.
LEMMA TypeStep == TypeOK /\ [Next]_vars => TypeOK'
<1> SUFFICES ASSUME TypeOK, [Next]_vars PROVE TypeOK'
  OBVIOUS
<1> USE NullAssumption DEF TypeOK
<1>1. ASSUME NEW h \in Handler, NEW g \in Gateway, NEW k \in Key,
             NEW op \in {"acquire", "renew", "release"}, Arrive(h, g, k, op)
      PROVE  TypeOK'
  <2>1. [op |-> op, gw |-> g, key |-> k, now |-> clock, phase |-> "begun",
         exp |-> 0] \in Request
    BY DEF Request
  <2> QED
    BY <1>1, <2>1 DEF Arrive
<1>2. ASSUME NEW h \in Handler, Handle(h) PROVE TypeOK'
  <2>1. req[h] \in Request
    BY <1>2 DEF Handle, AcquireSelect, AcquireInsert, Renew, Release, At
  <2>2. /\ req[h].gw \in Gateway /\ req[h].key \in Key /\ req[h].now \in Nat
        /\ Expiry(req[h].now, req[h].gw) \in Nat
    BY <2>1, ExpiryMonotonic DEF Request
  <2>3. ASSUME NEW exp \in Nat, Answer(h, exp)
        PROVE  req' \in [Handler -> Request \cup {NoRequest}]
    BY <2>1, <2>3 DEF Answer, Request
  <2>4. ASSUME NEW k \in Key, NEW g \in Gateway, NEW exp \in Nat,
               NEW version \in Nat, WriteRow(k, g, exp, version)
        PROVE  row' \in [Key -> Lease \cup {NoRow}]
    BY <2>4 DEF WriteRow, Lease
  <2>5. ASSUME NEW k \in Key, row[k] # NoRow PROVE row[k].version + 1 \in Nat
    BY <2>5 DEF Lease
  <2>6. CASE AcquireSelect(h)
    <3>1. CASE /\ row[req[h].key] = NoRow
               /\ req' = [req EXCEPT ![h] = [@ EXCEPT !.phase = "insert"]]
               /\ UNCHANGED row
      BY <2>1, <2>6, <3>1 DEF AcquireSelect, Request
    <3>2. CASE Answer(h, 0) /\ UNCHANGED row
      BY <2>3, <2>6, <3>2 DEF AcquireSelect
    <3>3. CASE /\ row[req[h].key] # NoRow
               /\ WriteRow(req[h].key, req[h].gw,
                           Expiry(req[h].now, req[h].gw),
                           row[req[h].key].version + 1)
               /\ Answer(h, Expiry(req[h].now, req[h].gw))
      BY <2>2, <2>3, <2>4, <2>5, <2>6, <3>3 DEF AcquireSelect
    <3> QED
      BY <2>6, <3>1, <3>2, <3>3 DEF AcquireSelect
  <2>7. CASE AcquireInsert(h)
    BY <2>2, <2>3, <2>4, <2>7 DEF AcquireInsert
  <2>8. CASE Renew(h)
    <3>1. CASE Owns(req[h].gw, req[h].key)
      BY <2>2, <2>3, <2>4, <2>5, <2>8, <3>1 DEF Renew, Owns
    <3>2. CASE ~Owns(req[h].gw, req[h].key)
      BY <2>3, <2>8, <3>2 DEF Renew
    <3> QED
      BY <3>1, <3>2
  <2>9. CASE Release(h)
    BY <2>2, <2>3, <2>9 DEF Release
  <2> QED
    BY <1>2, <2>6, <2>7, <2>8, <2>9 DEF Handle
<1>3. ASSUME NEW h \in Handler, Deliver(h) PROVE TypeOK'
  BY <1>3 DEF Deliver, Request
<1>4. ASSUME NEW h \in Handler, Lose(h) PROVE TypeOK'
  BY <1>4 DEF Lose
<1>5. ASSUME NEW g \in Gateway, Crash(g) \/ Shutdown(g) \/ Restart(g)
      PROVE  TypeOK'
  <2>1. CASE Crash(g)
    BY <2>1 DEF Crash
  <2>2. CASE Shutdown(g)
    BY <2>2 DEF Shutdown
  <2>3. CASE Restart(g)
    BY <2>3 DEF Restart
  <2> QED
    BY <1>5, <2>1, <2>2, <2>3
<1>6. CASE Tick
  BY <1>6 DEF Tick
<1>7. CASE UNCHANGED vars
  BY <1>7 DEF vars
<1> QED
  BY <1>1, <1>2, <1>3, <1>4, <1>5, <1>6, <1>7 DEF Next

LEMMA TypeInit == Init => TypeOK
BY DEF Init, TypeOK

-----------------------------------------------------------------------------
\* Every value the handlers of api.py and the shutdown hook store is of its
\* type, for every instance.
THEOREM LeaseTypeCorrect == Spec => []TypeOK
BY TypeInit, TypeStep, PTL DEF Spec

-----------------------------------------------------------------------------
LEMMA InvInit == Init => LeaseInv
<1> SUFFICES ASSUME Init PROVE LeaseInv
  OBVIOUS
<1>1. TypeOK
  BY TypeInit
<1>2. \A g \in Gateway : 0 <= Expiry(0, g)
  BY TTLOfAssumption DEF Expiry
<1> QED
  BY <1>1, <1>2 DEF Init, LeaseInv, OneRequest, About, Timely, DownInactive,
     PendingExtends, ReleaseInactive, AnswerCovered, BeliefCovered, Believes

\* A request arrives.
LEMMA ArriveStep ==
    ASSUME Patient, LeaseInv, TypeOK',
           NEW h \in Handler, NEW g \in Gateway, NEW k \in Key,
           NEW op \in {"acquire", "renew", "release"}, Arrive(h, g, k, op)
    PROVE  LeaseInv'
<1> USE DEF LeaseInv, TypeOK
<1>1. /\ req' = [req EXCEPT ![h] = [op |-> op, gw |-> g, key |-> k,
                    now |-> clock, phase |-> "begun", exp |-> 0]]
      /\ \A i \in Handler : ~About(i, g, k)
      /\ UNCHANGED <<clock, row, up>>
  BY DEF Arrive
<1>2. /\ req'[h] = [op |-> op, gw |-> g, key |-> k, now |-> clock,
                    phase |-> "begun", exp |-> 0]
      /\ \A i \in Handler \ {h} : req'[i] = req[i]
  BY <1>1
<1>3. \A e \in Gateway, l \in Key :
         \/ belief'[e][l] = belief[e][l]
         \/ e = g /\ l = k /\ op = "release" /\ belief'[e][l] = 0
  BY DEF Arrive
<1>4. op = "release" => belief'[g][k] = 0
  BY DEF Arrive
<1>5. OneRequest'
  BY <1>1, <1>2 DEF OneRequest, About
<1>6. \A e \in Gateway : Expiry(clock, e) \in Nat
  BY ExpiryMonotonic
<1>7. Timely'
  BY <1>1, <1>3, <1>6 DEF Timely, Expiry
<1>8. DownInactive'
  BY <1>1, <1>3 DEF DownInactive
<1>9. \A i \in Handler \ {h} : req'[i] # NoRequest =>
         belief'[req[i].gw][req[i].key] = belief[req[i].gw][req[i].key]
  BY <1>1, <1>2, <1>3 DEF About, Request
<1>10. PendingExtends'
  BY <1>1, <1>2, <1>7, <1>9 DEF PendingExtends, Timely, Expiry
<1>11. ReleaseInactive'
  BY <1>2, <1>4, <1>9 DEF ReleaseInactive
<1>12. AnswerCovered'
  BY <1>1, <1>2, <1>6 DEF AnswerCovered, Owns, Expiry
<1>13. BeliefCovered'
  BY <1>1, <1>3 DEF BeliefCovered, Believes, Owns
<1> QED
  BY <1>5, <1>7, <1>8, <1>10, <1>11, <1>12, <1>13

\* A handler changes the row of its key for its own gateway, or not at all,
\* and answers; what it writes covers what it answers.
Written(h, exp) ==
    LET g == req[h].gw
        k == req[h].key
    IN /\ row'[k] # NoRow
       /\ row'[k].owner_gateway = g
       /\ row'[k].lease_expires_at = exp
       /\ \A l \in Key \ {k} : row'[l] = row[l]

\* The steps of the handlers have one shape: they advance their own request
\* and leave clock, beliefs and gateways alone.  It is enough to look at what
\* they do to the row.
LEMMA HandlerStep ==
    ASSUME LeaseInv, TypeOK',
           NEW h \in Handler, req[h] # NoRequest,
           req[h].phase # "answered",
           NEW phase \in {"insert", "answered"},
           NEW exp \in {0, Expiry(req[h].now, req[h].gw)},
           req' = [req EXCEPT ![h] =
                     [@ EXCEPT !.phase = phase, !.exp = exp]],
           UNCHANGED <<clock, belief, up>>,
           req[h].op = "release" \/ phase = "insert" => exp = 0,
           \/ exp = 0 /\ row' = row
           \/ /\ exp # 0 /\ Written(h, exp)
              /\ \/ row[req[h].key] = NoRow
                 \/ Owns(req[h].gw, req[h].key)
                 \/ row[req[h].key].lease_expires_at <= req[h].now
           \/ /\ exp = 0 /\ req[h].op = "release"
              /\ Owns(req[h].gw, req[h].key)
              /\ row' = [row EXCEPT ![req[h].key] = NoRow]
    PROVE  LeaseInv'
<1> USE DEF LeaseInv, TypeOK
<1> DEFINE g == req[h].gw
           k == req[h].key
<1>1. /\ req[h] \in Request /\ g \in Gateway /\ k \in Key
      /\ req[h].now \in Nat
  BY DEF Request
<1>2. /\ req'[h] # NoRequest
      /\ req'[h].gw = g /\ req'[h].key = k /\ req'[h].op = req[h].op
      /\ req'[h].now = req[h].now /\ req'[h].phase = phase
      /\ req'[h].exp = exp
      /\ \A i \in Handler \ {h} : req'[i] = req[i]
  <2>1. req'[h] = [[req[h] EXCEPT !.phase = phase] EXCEPT !.exp = exp]
    OBVIOUS
  <2>2. /\ exp \in Nat
        /\ req[h] = [op |-> req[h].op, gw |-> g, key |-> k,
                     now |-> req[h].now, phase |-> req[h].phase,
                     exp |-> req[h].exp]
    BY <1>1, ExpiryMonotonic DEF Request
  <2>3. req'[h] = [op |-> req[h].op, gw |-> g, key |-> k,
                   now |-> req[h].now, phase |-> phase, exp |-> exp]
    BY <2>1, <2>2
  <2>4. req'[h] \in Request
    BY <1>1, <2>2, <2>3 DEF Request
  <2>5. \A i \in Handler \ {h} : req'[i] = req[i]
    OBVIOUS
  <2> QED
    BY <2>3, <2>4, <2>5, NullAssumption
<1>3. /\ Expiry(req[h].now, g) \in Nat
      /\ req[h].now <= clock
      /\ belief[g][k] <= Expiry(req[h].now, g)
  BY <1>1, ExpiryMonotonic DEF AnswerCovered, PendingExtends
<1>4. OneRequest'
  BY <1>2 DEF OneRequest, About
<1>5. Timely' /\ DownInactive'
  BY DEF Timely, DownInactive, Expiry
<1>6. PendingExtends'
  BY <1>2, <1>3 DEF PendingExtends, Expiry
<1>7. ReleaseInactive'
  BY <1>2 DEF ReleaseInactive
<1>8. ASSUME NEW e \in Gateway, NEW l \in Key, NEW b \in Nat,
             b > clock, Owns(e, l), row[l].lease_expires_at >= b,
             e = g /\ l = k => b <= Expiry(req[h].now, g) /\ req[h].op # "release"
      PROVE  Owns(e, l)' /\ row'[l].lease_expires_at >= b
  <2>1. row[l].lease_expires_at > clock
    BY <1>8 DEF Owns, Lease
  <2>2. CASE l # k
    BY <1>1, <1>8, <2>2 DEF Owns, Written
  <2>3. CASE l = k
    <3>1. row[k] # NoRow /\ row[k].lease_expires_at > req[h].now
      BY <1>1, <1>3, <1>8, <2>1, <2>3 DEF Owns, Lease
    <3>2. CASE e = g
      BY <1>1, <1>3, <1>8, <2>3, <3>1, <3>2 DEF Owns, Written
    <3>3. CASE e # g
      BY <1>1, <1>3, <1>8, <2>3, <3>1, <3>3 DEF Owns, Written, Lease
    <3> QED
      BY <3>2, <3>3
  <2> QED
    BY <2>2, <2>3
<1>9. BeliefCovered'
  <2> SUFFICES ASSUME NEW e \in Gateway, NEW l \in Key, Believes(e, l)'
               PROVE  Owns(e, l)' /\ row'[l].lease_expires_at >= belief'[e][l]
    BY DEF BeliefCovered
  <2>1. /\ belief[e][l] \in Nat /\ belief[e][l] > clock
        /\ belief'[e][l] = belief[e][l]
    BY DEF Believes
  <2>2. Owns(e, l) /\ row[l].lease_expires_at >= belief[e][l]
    BY <2>1 DEF BeliefCovered, Believes
  <2>3. e = g /\ l = k =>
           belief[e][l] <= Expiry(req[h].now, g) /\ req[h].op # "release"
    BY <1>3, <2>1 DEF ReleaseInactive
  <2> QED
    BY <1>8, <2>1, <2>2, <2>3
<1>10. AnswerCovered'
  <2> SUFFICES ASSUME NEW i \in Handler, req'[i] # NoRequest
               PROVE  /\ req'[i].now <= clock'
                      /\ req'[i].exp <= Expiry(req'[i].now, req'[i].gw)
                      /\ req'[i].exp > clock' /\ up'[req'[i].gw] =>
                           /\ row'[req'[i].key] # NoRow
                           /\ row'[req'[i].key].owner_gateway = req'[i].gw
                           /\ row'[req'[i].key].lease_expires_at >= req'[i].exp
    BY DEF AnswerCovered, Expiry, Owns
  <2>1. CASE i = h
    <3>1. /\ req'[i].now = req[h].now /\ req'[i].gw = g /\ req'[i].key = k
          /\ req'[i].exp = exp /\ clock' = clock /\ clock \in Nat
      BY <1>2, <2>1
    <3>2. CASE exp = 0
      BY <1>3, <3>1, <3>2
    <3>3. CASE exp # 0
      <4>1. Written(h, exp) /\ exp \in Nat /\ exp = Expiry(req[h].now, g)
        BY <1>3, <3>3
      <4>2. /\ row'[k] # NoRow /\ row'[k].owner_gateway = g
            /\ row'[k].lease_expires_at >= exp
        BY <4>1 DEF Written
      <4> QED
        BY <1>3, <3>1, <4>1, <4>2
    <3> QED
      BY <3>2, <3>3
  <2>2. CASE i # h
    <3>1. /\ req'[i] = req[i] /\ req[i] # NoRequest
          /\ req[i].gw \in Gateway /\ req[i].key \in Key /\ req[i].exp \in Nat
      BY <1>2, <2>2 DEF Request
    <3>2. ~(req[i].gw = g /\ req[i].key = k)
      BY <1>1, <2>2, <3>1 DEF OneRequest, About
    <3>3. /\ req[i].now <= clock
          /\ req[i].exp <= Expiry(req[i].now, req[i].gw)
      BY <3>1 DEF AnswerCovered
    <3>4. ASSUME req[i].exp > clock, up[req[i].gw]
          PROVE  /\ row'[req[i].key] # NoRow
                 /\ row'[req[i].key].owner_gateway = req[i].gw
                 /\ row'[req[i].key].lease_expires_at >= req[i].exp
      <4>1. /\ Owns(req[i].gw, req[i].key)
            /\ row[req[i].key].lease_expires_at >= req[i].exp
        BY <3>1, <3>4 DEF AnswerCovered
      <4>2. CASE req[i].key # k
        BY <1>1, <3>1, <4>1, <4>2 DEF Owns, Written
      <4>3. CASE req[i].key = k /\ req[i].gw # g
        <5>1. row[k] # NoRow /\ row[k].lease_expires_at > req[h].now
          BY <1>1, <1>3, <3>1, <3>4, <4>1, <4>3 DEF Owns, Lease
        <5> QED
          BY <1>1, <1>3, <3>1, <4>1, <4>3, <5>1 DEF Owns, Written, Lease
      <4> QED
        BY <3>2, <4>2, <4>3
    <3> QED
      BY <3>1, <3>3, <3>4
  <2> QED
    BY <2>1, <2>2
<1> QED
  BY <1>4, <1>5, <1>6, <1>7, <1>9, <1>10

\* A request is carried out: SELECT or INSERT of acquire, renew, release.
LEMMA LeaseHandleStep ==
    ASSUME LeaseInv, TypeOK', NEW h \in Handler, Handle(h)
    PROVE  LeaseInv'
<1> USE DEF LeaseInv, TypeOK
<1> DEFINE g == req[h].gw
           k == req[h].key
           exp == Expiry(req[h].now, g)
<1>1. /\ req[h] # NoRequest /\ req[h].phase # "answered"
      /\ UNCHANGED <<clock, belief, up>>
  BY DEF Handle, AcquireSelect, AcquireInsert, Renew, Release, At
<1>2. /\ req[h] \in Request /\ g \in Gateway /\ k \in Key
      /\ req[h].now \in Nat /\ exp \in Nat /\ exp # 0 /\ req[h].exp = 0
  <2>1. req[h] \in Request /\ g \in Gateway /\ k \in Key /\ req[h].now \in Nat
    BY <1>1 DEF Request
  <2>2. exp \in Nat /\ exp # 0
    BY <2>1, ExpiryMonotonic
  <2> QED
    BY <1>1, <2>1, <2>2 DEF PendingExtends
<1>3. ASSUME NEW version \in Nat, WriteRow(k, g, exp, version)
      PROVE  Written(h, exp)
  <2>1. row'[k] = [owner_gateway |-> g, version |-> version,
                   lease_expires_at |-> exp]
    BY <1>2, <1>3 DEF WriteRow
  <2>2. \A l \in Key \ {k} : row'[l] = row[l]
    BY <1>2, <1>3 DEF WriteRow
  <2>3. row'[k] # NoRow
    BY <1>2, <1>3, <2>1, NullAssumption DEF Lease
  <2> QED
    BY <2>1, <2>2, <2>3 DEF Written
<1>4. ASSUME Answer(h, exp), req[h].op # "release", Written(h, exp),
             \/ row[k] = NoRow
             \/ Owns(g, k)
             \/ row[k].lease_expires_at <= req[h].now
      PROVE  LeaseInv'
  BY <1>1, <1>2, <1>4, HandlerStep DEF Answer
<1>5. ASSUME Answer(h, 0), row' = row PROVE LeaseInv'
  BY <1>1, <1>2, <1>5, HandlerStep DEF Answer
<1>6. CASE AcquireSelect(h)
  <2>1. CASE /\ row[k] = NoRow
             /\ req' = [req EXCEPT ![h] = [@ EXCEPT !.phase = "insert"]]
             /\ UNCHANGED row
    <3>1. [req[h] EXCEPT !.phase = "insert"]
             = [[req[h] EXCEPT !.phase = "insert"] EXCEPT !.exp = 0]
      BY <1>2 DEF Request
    <3>2. req' = [req EXCEPT ![h] = [@ EXCEPT !.phase = "insert", !.exp = 0]]
      BY <2>1, <3>1
    <3> QED
      BY <1>1, <2>1, <3>2, HandlerStep
  <2>2. CASE Answer(h, 0) /\ UNCHANGED row
    BY <1>5, <2>2
  <2>3. CASE /\ row[k] # NoRow /\ ~HeldByOther(row[k], g, req[h].now)
             /\ WriteRow(k, g, exp, row[k].version + 1)
             /\ Answer(h, exp)
    <3>1. row[k].lease_expires_at \in Nat /\ row[k].version + 1 \in Nat
      BY <1>2, <2>3 DEF Lease
    <3>2. Owns(g, k) \/ row[k].lease_expires_at <= req[h].now
      BY <1>2, <2>3, <3>1 DEF HeldByOther, Owns
    <3>3. req[h].op # "release"
      BY <1>6 DEF AcquireSelect, At
    <3> QED
      BY <1>3, <1>4, <2>3, <3>1, <3>2, <3>3
  <2> QED
    BY <1>6, <2>1, <2>2, <2>3 DEF AcquireSelect
<1>7. CASE AcquireInsert(h)
  <2>1. req[h].op # "release"
    BY <1>7 DEF AcquireInsert, At
  <2> QED
    BY <1>3, <1>4, <1>5, <1>7, <2>1 DEF AcquireInsert
<1>8. CASE Renew(h)
  <2>1. /\ req[h].op # "release"
        /\ Owns(g, k) => row[k].version + 1 \in Nat
    BY <1>2, <1>8 DEF Renew, At, Owns, Lease
  <2> QED
    BY <1>3, <1>4, <1>5, <1>8, <2>1 DEF Renew
<1>9. CASE Release(h)
  <2>1. CASE Owns(g, k)
    <3>1. row' = [row EXCEPT ![k] = NoRow] /\ req[h].op = "release"
      BY <1>9, <2>1 DEF Release, At
    <3>2. Answer(h, 0)
      BY <1>9 DEF Release
    <3> QED
      BY <1>1, <2>1, <3>1, <3>2, HandlerStep DEF Answer
  <2>2. CASE ~Owns(g, k)
    BY <1>5, <1>9, <2>2 DEF Release
  <2> QED
    BY <2>1, <2>2
<1> QED
  BY <1>6, <1>7, <1>8, <1>9 DEF Handle

\* An answer arrives, or a request or its answer is lost.
LEMMA DeliverStep ==
    ASSUME LeaseInv, TypeOK', NEW h \in Handler, Deliver(h) \/ Lose(h)
    PROVE  LeaseInv'
<1> USE DEF LeaseInv, TypeOK
<1>1. /\ UNCHANGED <<clock, row, up>>
      /\ req[h] # NoRequest
      /\ req' = [req EXCEPT ![h] = NoRequest]
  BY DEF Deliver, Lose
<1>2. \A i \in Handler : i # h => req'[i] = req[i]
  BY <1>1
<1>3. req'[h] = NoRequest
  BY <1>1
<1>4. req[h].gw \in Gateway /\ req[h].key \in Key
  BY <1>1 DEF Request
<1>5. \A e \in Gateway, l \in Key :
         \/ belief'[e][l] = belief[e][l]
         \/ /\ e = req[h].gw /\ l = req[h].key /\ up[e]
            /\ belief'[e][l] = req[h].exp
  BY <1>4 DEF Deliver, Lose
<1>6. ASSUME NEW i \in Handler, i # h, req[i] # NoRequest
      PROVE  belief'[req[i].gw][req[i].key] = belief[req[i].gw][req[i].key]
  <2>1. req[i].gw \in Gateway /\ req[i].key \in Key
    BY <1>6 DEF Request
  <2> QED
    BY <1>1, <1>4, <1>5, <1>6, <2>1 DEF OneRequest, About
<1>7. OneRequest'
  BY <1>2, <1>3 DEF OneRequest, About
<1>8. req[h].exp <= Expiry(clock, req[h].gw)
  <2>1. /\ req[h].now \in Nat /\ req[h].exp \in Nat /\ req[h].now <= clock
        /\ req[h].exp <= Expiry(req[h].now, req[h].gw)
    BY <1>1 DEF Request, AnswerCovered
  <2>2. /\ Expiry(req[h].now, req[h].gw) <= Expiry(clock, req[h].gw)
        /\ Expiry(req[h].now, req[h].gw) \in Nat
        /\ Expiry(clock, req[h].gw) \in Nat
    BY <1>4, <2>1, ExpiryMonotonic
  <2> QED
    BY <2>1, <2>2
<1>9. Timely'
  BY <1>1, <1>5, <1>8 DEF Timely, Expiry
<1>10. DownInactive'
  BY <1>1, <1>5 DEF DownInactive
<1>11. PendingExtends'
  BY <1>2, <1>3, <1>6 DEF PendingExtends, Expiry
<1>12. ReleaseInactive'
  BY <1>2, <1>3, <1>6 DEF ReleaseInactive
<1>13. AnswerCovered'
  BY <1>1, <1>2, <1>3 DEF AnswerCovered, Owns, Expiry
<1>14. BeliefCovered'
  BY <1>1, <1>5 DEF BeliefCovered, Believes, Owns, AnswerCovered
<1> QED
  BY <1>7, <1>9, <1>10, <1>11, <1>12, <1>13, <1>14

\* A gateway crashes, shuts down or comes back.
LEMMA GatewayStep ==
    ASSUME LeaseInv, TypeOK', NEW g \in Gateway,
           Crash(g) \/ Shutdown(g) \/ Restart(g)
    PROVE  LeaseInv'
<1> USE DEF LeaseInv, TypeOK
<1>1. /\ UNCHANGED <<clock, req>>
      /\ \A e \in Gateway : e # g => up'[e] = up[e]
  BY DEF Crash, Shutdown, Restart
<1>2. \A e \in Gateway, l \in Key :
         belief'[e][l] = IF e = g THEN 0 ELSE belief[e][l]
  BY DEF Crash, Shutdown, Restart, DownInactive
<1>3. \A l \in Key : row'[l] = row[l] \/ (Owns(g, l) /\ row'[l] = NoRow)
  BY DEF Crash, Shutdown, Restart
<1>4. \A h \in Handler : req[h] # NoRequest /\ up'[req[h].gw] =>
         req[h].gw # g /\ up[req[h].gw]
  BY <1>1 DEF Crash, Shutdown, Restart, Request
<1>5. \A e \in Gateway : Expiry(clock, e) \in Nat
  BY ExpiryMonotonic
<1>6. OneRequest'
  BY <1>1 DEF OneRequest, About
<1>7. Timely'
  BY <1>1, <1>2, <1>5 DEF Timely, Expiry
<1>8. DownInactive'
  BY <1>1, <1>2 DEF DownInactive
<1>9. \A h \in Handler : req[h] # NoRequest =>
         /\ req[h].gw \in Gateway /\ req[h].key \in Key
         /\ Expiry(req[h].now, req[h].gw) \in Nat
  BY ExpiryMonotonic DEF Request
<1>10. PendingExtends'
  <2> SUFFICES ASSUME NEW h \in Handler, req[h] # NoRequest,
                      req[h].phase # "answered"
               PROVE  /\ belief'[req[h].gw][req[h].key]
                            <= Expiry(req[h].now, req[h].gw)
                      /\ req[h].exp = 0
    BY <1>1 DEF PendingExtends, Expiry
  <2>1. /\ belief[req[h].gw][req[h].key] <= Expiry(req[h].now, req[h].gw)
        /\ req[h].exp = 0
    BY DEF PendingExtends
  <2>2. \/ belief'[req[h].gw][req[h].key] = 0
        \/ belief'[req[h].gw][req[h].key] = belief[req[h].gw][req[h].key]
    BY <1>2, <1>9
  <2>3. Expiry(req[h].now, req[h].gw) \in Nat
    BY <1>9
  <2> QED
    BY <2>1, <2>2, <2>3
<1>11. ReleaseInactive'
  BY <1>1, <1>2, <1>9 DEF ReleaseInactive
<1>12. AnswerCovered'
  <2> SUFFICES ASSUME NEW h \in Handler, req[h] # NoRequest
               PROVE  /\ req[h].now <= clock
                      /\ req[h].exp <= Expiry(req[h].now, req[h].gw)
                      /\ req[h].exp > clock /\ up'[req[h].gw] =>
                           /\ row'[req[h].key] # NoRow
                           /\ row'[req[h].key].owner_gateway = req[h].gw
                           /\ row'[req[h].key].lease_expires_at >= req[h].exp
    BY <1>1 DEF AnswerCovered, Expiry, Owns
  <2>1. /\ req[h].now <= clock
        /\ req[h].exp <= Expiry(req[h].now, req[h].gw)
    BY DEF AnswerCovered
  <2>2. ASSUME req[h].exp > clock, up'[req[h].gw]
        PROVE  /\ row'[req[h].key] # NoRow
               /\ row'[req[h].key].owner_gateway = req[h].gw
               /\ row'[req[h].key].lease_expires_at >= req[h].exp
    BY <1>3, <1>4, <1>9, <2>2 DEF AnswerCovered, Owns
  <2> QED
    BY <2>1, <2>2
<1>13. BeliefCovered'
  BY <1>1, <1>2, <1>3 DEF BeliefCovered, Believes, Owns
<1> QED
  BY <1>6, <1>7, <1>8, <1>10, <1>11, <1>12, <1>13

\* Time passes.
LEMMA TickStep == ASSUME LeaseInv, TypeOK', Tick PROVE LeaseInv'
<1> USE DEF LeaseInv, TypeOK
<1>1. clock' = clock + 1 /\ UNCHANGED <<row, req, belief, up>>
  BY DEF Tick
<1>2. \A g \in Gateway : /\ Expiry(clock, g) <= Expiry(clock + 1, g)
                         /\ Expiry(clock, g) \in Nat
                         /\ Expiry(clock + 1, g) \in Nat
  BY ExpiryMonotonic
<1>3. Timely'
  <2> SUFFICES ASSUME NEW g \in Gateway, NEW k \in Key
               PROVE  belief[g][k] <= Expiry(clock + 1, g)
    BY <1>1 DEF Timely, Expiry
  <2> QED
    BY <1>2 DEF Timely
<1>4. OneRequest' /\ DownInactive' /\ ReleaseInactive'
  BY <1>1 DEF OneRequest, About, DownInactive, ReleaseInactive
<1>5. PendingExtends'
  BY <1>1 DEF PendingExtends, Expiry
<1>6. AnswerCovered'
  BY <1>1 DEF AnswerCovered, Owns, Expiry, Request
<1>7. BeliefCovered'
  BY <1>1 DEF BeliefCovered, Believes, Owns
<1> QED
  BY <1>3, <1>4, <1>5, <1>6, <1>7

LEMMA InvStep == ASSUME Patient PROVE LeaseInv /\ [Next]_vars => LeaseInv'
<1> SUFFICES ASSUME LeaseInv, [Next]_vars PROVE LeaseInv'
  OBVIOUS
<1>1. TypeOK'
  BY TypeStep DEF LeaseInv
<1>2. CASE Next
  BY <1>1, <1>2, ArriveStep, LeaseHandleStep, DeliverStep, GatewayStep, TickStep
     DEF Next
<1>3. CASE UNCHANGED vars
  BY <1>1, <1>3 DEF vars, LeaseInv, OneRequest, About, Timely, DownInactive,
     PendingExtends, ReleaseInactive, AnswerCovered, BeliefCovered, Believes,
     Owns, Expiry
<1> QED
  BY <1>2, <1>3

-----------------------------------------------------------------------------
\* The database covers what every owner was told: however late a handler runs
\* after it read the clock, no step of api.py takes or shortens a lease that
\* its owner still relies on.
THEOREM LeaseCovered == ASSUME Patient PROVE Spec => []BeliefCovered
<1>1. LeaseInv => BeliefCovered
  BY DEF LeaseInv
<1> QED
  BY <1>1, InvInit, InvStep, PTL DEF Spec

\* Ownership is exclusive (docs/gateway-lease-failover-plan.md) for gateways
\* that await their answers: two never act as the owner of one lease.
THEOREM OwnershipExclusive == ASSUME Patient PROVE Spec => []Exclusive
<1>1. LeaseInv => Exclusive
  BY DEF LeaseInv, BeliefCovered, Exclusive, Owns
<1> QED
  BY <1>1, InvInit, InvStep, PTL DEF Spec

-----------------------------------------------------------------------------
\* No row carries an expiry that a request of now would not give its owner.
RowTimely ==
    \A g \in Gateway, k \in Key :
        Owns(g, k) => row[k].lease_expires_at <= Expiry(clock, g)

\* A request not yet carried out gives an owner at least what the row has,
\* whether or not the owner was told of it.
RowExtends ==
    \A h \in Handler :
        /\ req[h] # NoRequest
        /\ req[h].phase # "answered"
        /\ Owns(req[h].gw, req[h].key)
        => row[req[h].key].lease_expires_at <= Expiry(req[h].now, req[h].gw)

\* What a handler does to the table and to its request: it leaves the row,
\* deletes it, or writes it for its gateway with the expiry of its own clock.
LEMMA HandleEffect ==
    ASSUME TypeOK, NEW h \in Handler, Handle(h)
    PROVE  /\ req[h] \in Request /\ req[h] # NoRequest
           /\ req[h].phase # "answered"
           /\ UNCHANGED clock
           /\ \A i \in Handler \ {h} : req'[i] = req[i]
           /\ \A l \in Key \ {req[h].key} : row'[l] = row[l]
           /\ \/ req'[h].phase = "answered"
              \/ /\ req'[h].gw = req[h].gw /\ req'[h].key = req[h].key
                 /\ req'[h].now = req[h].now /\ row' = row
           /\ \/ row' = row
              \/ row'[req[h].key] = NoRow
              \/ /\ row'[req[h].key].owner_gateway = req[h].gw
                 /\ row'[req[h].key].lease_expires_at
                      = Expiry(req[h].now, req[h].gw)
<1> USE DEF TypeOK
<1>1. /\ req[h] # NoRequest /\ req[h].phase # "answered" /\ UNCHANGED clock
  BY DEF Handle, AcquireSelect, AcquireInsert, Renew, Release, At
<1>2. req[h] \in Request /\ req[h].key \in Key
  BY <1>1 DEF Request
<1>3. ASSUME NEW exp, Answer(h, exp)
      PROVE  /\ req'[h].phase = "answered"
             /\ \A i \in Handler \ {h} : req'[i] = req[i]
  BY <1>2, <1>3 DEF Answer, Request
<1>4. ASSUME NEW version,
             WriteRow(req[h].key, req[h].gw, Expiry(req[h].now, req[h].gw),
                      version)
      PROVE  /\ \A l \in Key \ {req[h].key} : row'[l] = row[l]
             /\ row'[req[h].key].owner_gateway = req[h].gw
             /\ row'[req[h].key].lease_expires_at
                  = Expiry(req[h].now, req[h].gw)
  BY <1>2, <1>4 DEF WriteRow
<1>5. CASE AcquireSelect(h)
  <2>1. CASE req' = [req EXCEPT ![h] = [@ EXCEPT !.phase = "insert"]]
             /\ UNCHANGED row
    BY <1>1, <1>2, <2>1 DEF Request
  <2>2. CASE Answer(h, 0) /\ UNCHANGED row
    BY <1>1, <1>2, <1>3, <2>2
  <2>3. CASE /\ WriteRow(req[h].key, req[h].gw,
                         Expiry(req[h].now, req[h].gw),
                         row[req[h].key].version + 1)
             /\ Answer(h, Expiry(req[h].now, req[h].gw))
    BY <1>1, <1>2, <1>3, <1>4, <2>3
  <2> QED
    BY <1>5, <2>1, <2>2, <2>3 DEF AcquireSelect
<1>6. CASE AcquireInsert(h)
  BY <1>1, <1>2, <1>3, <1>4, <1>6 DEF AcquireInsert
<1>7. CASE Renew(h)
  BY <1>1, <1>2, <1>3, <1>4, <1>7 DEF Renew
<1>8. CASE Release(h)
  BY <1>1, <1>2, <1>3, <1>8 DEF Release
<1> QED
  BY <1>5, <1>6, <1>7, <1>8 DEF Handle

\* Both facts are preserved by the steps of a system that keeps IInv: one
\* request per owner and lease means that the row an owner's request finds
\* was written before that request came in.
LEMMA RowStep ==
    LeaseInv /\ RowTimely /\ RowExtends /\ [Next]_vars => RowTimely' /\ RowExtends'
<1> SUFFICES ASSUME LeaseInv, RowTimely, RowExtends, [Next]_vars
             PROVE  RowTimely' /\ RowExtends'
  OBVIOUS
<1> USE DEF LeaseInv, TypeOK
<1>1. ASSUME NEW h \in Handler, NEW g \in Gateway, NEW k \in Key,
             NEW op \in {"acquire", "renew", "release"}, Arrive(h, g, k, op)
      PROVE  RowTimely' /\ RowExtends'
  <2>1. /\ UNCHANGED <<clock, row>>
        /\ req'[h].gw = g /\ req'[h].key = k /\ req'[h].now = clock
        /\ \A i \in Handler \ {h} : req'[i] = req[i]
    BY <1>1 DEF Arrive
  <2> QED
    BY <2>1 DEF RowTimely, RowExtends, Owns, Expiry
<1>2. ASSUME NEW h \in Handler, Handle(h)
      PROVE  RowTimely' /\ RowExtends'
  <2> DEFINE g == req[h].gw
             k == req[h].key
  <2>1. /\ g \in Gateway /\ k \in Key /\ req[h].now \in Nat
        /\ req[h].now <= clock /\ req[h] # NoRequest
    BY <1>2, HandleEffect DEF Request, AnswerCovered
  <2>2. /\ Expiry(req[h].now, g) \in Nat
        /\ Expiry(clock, g) \in Nat
        /\ Expiry(req[h].now, g) <= Expiry(clock, g)
    BY <2>1, ExpiryMonotonic
  <2>3. RowTimely'
    <3> SUFFICES ASSUME NEW e \in Gateway, NEW l \in Key,
                        row'[l] # NoRow, row'[l].owner_gateway = e
                 PROVE  row'[l].lease_expires_at <= Expiry(clock, e)
      BY <1>2, HandleEffect DEF RowTimely, Owns, Expiry
    <3>1. CASE row'[l] = row[l]
      BY <3>1 DEF RowTimely, Owns
    <3>2. CASE row'[l] # row[l]
      BY <1>2, <2>1, <2>2, <3>2, HandleEffect
    <3> QED
      BY <3>1, <3>2
  <2>4. RowExtends'
    <3> SUFFICES ASSUME NEW i \in Handler, req'[i] # NoRequest,
                        req'[i].phase # "answered",
                        row'[req'[i].key] # NoRow,
                        row'[req'[i].key].owner_gateway = req'[i].gw
                 PROVE  row'[req'[i].key].lease_expires_at
                          <= Expiry(req'[i].now, req'[i].gw)
      BY DEF RowExtends, Owns, Expiry
    <3>1. CASE i = h
      <4>1. /\ req'[h].gw = g /\ req'[h].key = k
            /\ req'[h].now = req[h].now /\ row' = row
        BY <1>2, <3>1, HandleEffect
      <4> QED
        BY <1>2, <3>1, <4>1, HandleEffect DEF RowExtends, Owns
    <3>2. CASE i # h
      <4>1. /\ req'[i] = req[i] /\ req[i] # NoRequest
            /\ req[i].gw \in Gateway /\ req[i].key \in Key
        BY <1>2, <3>2, HandleEffect DEF Request
      <4>2. ~(req[i].gw = g /\ req[i].key = k)
        BY <2>1, <3>2, <4>1 DEF OneRequest, About
      <4>3. row'[req[i].key] = row[req[i].key]
        BY <1>2, <2>1, <4>1, <4>2, HandleEffect
      <4> QED
        BY <4>1, <4>3 DEF RowExtends, Owns
    <3> QED
      BY <3>1, <3>2
  <2> QED
    BY <2>3, <2>4
<1>3. ASSUME NEW h \in Handler, Deliver(h) \/ Lose(h)
      PROVE  RowTimely' /\ RowExtends'
  <2>1. /\ UNCHANGED <<clock, row>>
        /\ \A i \in Handler : req'[i] = req[i] \/ req'[i] = NoRequest
    BY <1>3 DEF Deliver, Lose
  <2> QED
    BY <2>1 DEF RowTimely, RowExtends, Owns, Expiry
<1>4. ASSUME NEW g \in Gateway, Crash(g) \/ Shutdown(g) \/ Restart(g)
      PROVE  RowTimely' /\ RowExtends'
  <2>1. /\ UNCHANGED <<clock, req>>
        /\ \A k \in Key : row'[k] = row[k] \/ row'[k] = NoRow
    BY <1>4 DEF Crash, Shutdown, Restart
  <2>2. \A h \in Handler : req[h] # NoRequest => req[h].key \in Key
    BY DEF Request
  <2> QED
    BY <2>1, <2>2 DEF RowTimely, RowExtends, Owns, Expiry
<1>5. CASE Tick
  <2>1. clock' = clock + 1 /\ UNCHANGED <<row, req>>
    BY <1>5 DEF Tick
  <2>2. \A g \in Gateway : /\ Expiry(clock, g) \in Nat
                           /\ Expiry(clock + 1, g) \in Nat
                           /\ Expiry(clock, g) <= Expiry(clock + 1, g)
    BY ExpiryMonotonic
  <2>3. RowTimely'
    <3> SUFFICES ASSUME NEW g \in Gateway, NEW k \in Key, Owns(g, k)
                 PROVE  row[k].lease_expires_at <= Expiry(clock + 1, g)
      BY <2>1 DEF RowTimely, Owns, Expiry
    <3> QED
      BY <2>2 DEF RowTimely, Owns, Lease
  <2> QED
    BY <2>1, <2>3 DEF RowExtends, Owns, Expiry
<1>6. CASE UNCHANGED vars
  BY <1>6 DEF vars, RowTimely, RowExtends, Owns, Expiry
<1> QED
  BY <1>1, <1>2, <1>3, <1>4, <1>5, <1>6 DEF Next

\* A renewal never shortens the lease (docs/gateway-lease-failover-plan.md,
\* "owner extends lease_expires_at"), for gateways that await their answers,
\* although renew_gateway_lease writes an expiry computed before it waited.
THEOREM RenewalsExtend == ASSUME Patient PROVE Spec => RenewExtends
<1>1. Init => RowTimely /\ RowExtends
  BY DEF Init, RowTimely, RowExtends, Owns
<1>2. LeaseInv /\ RowExtends /\ [Next]_vars =>
         [\A k \in Key, h \in Handler :
             Renew(h) /\ row[k] # NoRow
             => row'[k].lease_expires_at >= row[k].lease_expires_at]_vars
  <2> SUFFICES ASSUME LeaseInv, RowExtends, NEW k \in Key, NEW h \in Handler,
                      Renew(h), row[k] # NoRow
               PROVE  row'[k].lease_expires_at >= row[k].lease_expires_at
    OBVIOUS
  <2> USE DEF LeaseInv, TypeOK
  <2>1. Handle(h)
    BY DEF Handle
  <2>2. /\ req[h] \in Request /\ req[h] # NoRequest
        /\ req[h].phase # "answered" /\ row[k].lease_expires_at \in Nat
    BY <2>1, HandleEffect DEF Lease
  <2>3. CASE row'[k] = row[k]
    BY <2>2, <2>3
  <2>4. CASE row'[k] # row[k]
    <3>1. k = req[h].key
      BY <2>1, <2>4, HandleEffect
    <3>2. Owns(req[h].gw, k)
      BY <2>4, <3>1 DEF Renew
    <3>3. row'[k].lease_expires_at = Expiry(req[h].now, req[h].gw)
      BY <3>1, <3>2 DEF Renew, WriteRow
    <3>4. row[k].lease_expires_at <= Expiry(req[h].now, req[h].gw)
      BY <2>2, <3>1, <3>2 DEF RowExtends
    <3>5. Expiry(req[h].now, req[h].gw) \in Nat
      BY <2>2, ExpiryMonotonic DEF Request
    <3> QED
      BY <2>2, <3>3, <3>4, <3>5
  <2> QED
    BY <2>3, <2>4
<1> QED
  BY <1>1, <1>2, InvInit, InvStep, RowStep, PTL DEF Spec, RenewExtends

=============================================================================
