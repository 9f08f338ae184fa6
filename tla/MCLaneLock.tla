----------------------------- MODULE MCLaneLock -----------------------------
(* Small instances of LaneLock, side by side: "part" says whether two       *)
(* gateways are after the same one-lane task, as the constants of the cfg   *)
(* have it, or after tasks that overlap in a lane.                          *)
EXTENDS LaneLock, TLC

CONSTANTS d, e1, e2, a, b, t1, t2

VARIABLE part

MCGatewayOf == e1 :> "g1" @@ e2 :> "g2"
TaskLanes == t1 :> a @@ t2 :> b

\* Part "shared": both executions run task t1, whose one lane is a.
SharedTaskOf == e1 :> t1 @@ e2 :> t1
SharedLanes == t1 :> <<a>> @@ t2 :> <<>>

\* How often the executions are entered: once each, or the first one again
\* (a retry of its task).
Once == e1 :> 1 @@ e2 :> 1
Retried == e1 :> 2 @@ e2 :> 1

\* Part "overlapping": two gateways whose tasks overlap in lane b; the second
\* task declares no lanes and gets its synthetic one.  Lane a is the one an
\* execution keeps that is refused lane b.  Executions and lanes are those of
\* part "shared", so that both parts have the same Tick and KVExpire.
Overlap == INSTANCE LaneLock
           WITH Detector <- {}, MaxRuns <- Once,
                TaskOf <- e1 :> t1 @@ e2 :> t2,
                ResourceLanes <- t1 :> <<a, b>> @@ t2 :> <<>>

LanesInit ==
    \/ part = "shared" /\ Init
    \/ part = "overlapping" /\ Overlap!Init

LanesNext ==
    /\ \/ part = "shared" /\ Next
       \/ part = "overlapping" /\ Overlap!Next
    /\ UNCHANGED part

\* The fairness of LaneLock!FairSpec: the clock and the bucket's TTL read only
\* the lanes and the executions, so their steps are steps of either part.
LanesSpec ==
    /\ LanesInit /\ [][LanesNext]_<<part, vars>>
    /\ WF_vars(Tick) /\ \A l \in Lane : WF_vars(KVExpire(l))

=============================================================================
