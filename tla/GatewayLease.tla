---------------------------- MODULE GatewayLease ----------------------------
(***************************************************************************)
(* The gateway topic leases of memu/api.py: one row per lease key in the   *)
(* table gateway_topic_leases, written by the HTTP handlers acquire, renew *)
(* and release and by the shutdown hook release_all_my_leases.             *)
(*                                                                         *)
(* A handler reads the clock when the request arrives, waits for a pooled  *)
(* connection, and then runs its SQL; the answer may be lost.  Only the    *)
(* SELECT ... FOR UPDATE that finds no row locks nothing, so that case of  *)
(* acquire takes two steps; every other handler changes the row in one.    *)
(* The gateways themselves are not part of the repository: they are        *)
(* modelled by what the API is for, a gateway that believes it holds a     *)
(* lease until the lease_expires_at of its last answer.                    *)
(***************************************************************************)
EXTENDS Integers

CONSTANTS
    Gateway,    \* gateway ids
    Key,        \* lease keys
    Handler,    \* requests that can be in progress at a time
    TTLOf,      \* [Gateway -> seconds]: ttl_seconds of a gateway's requests
    Patient,    \* a gateway awaits each answer before its next request
    MaxTime,    \* bound: the last instant
    MaxSent,    \* bound: requests sent in all
    NoRow, NoRequest

ASSUME TTLOfAssumption == TTLOf \in [Gateway -> Nat \ {0}]
ASSUME PatientAssumption == Patient \in BOOLEAN
ASSUME BoundAssumption == MaxTime \in Nat /\ MaxSent \in Nat

VARIABLES
    clock,      \* the API's clock, in half seconds
    row,        \* gateway_topic_leases, by key
    req,        \* the request each handler works on
    belief,     \* the lease_expires_at a gateway was last told, 0 for none
    up,         \* the gateway runs
    sent        \* number of requests so far

vars == <<clock, row, req, belief, up, sent>>

Lease == [owner_gateway : Gateway, lease_expires_at : Nat, version : Nat]

\* "exp" is the lease_expires_at of a positive answer, 0 of a refusal.
Request ==
    [op : {"acquire", "renew", "release"}, gw : Gateway, key : Key,
     now : Nat, phase : {"begun", "insert", "answered"}, exp : Nat]

ASSUME NullAssumption == NoRow \notin Lease /\ NoRequest \notin Request

-----------------------------------------------------------------------------
\* now.replace(microsecond=0) + timedelta(seconds=ttl_seconds)
Expiry(now, g) == 2 * (now \div 2) + 2 * TTLOf[g]

About(h, g, k) == req[h] # NoRequest /\ req[h].gw = g /\ req[h].key = k

At(h, op, phase) ==
    req[h] # NoRequest /\ req[h].op = op /\ req[h].phase = phase

Answer(h, exp) ==
    req' = [req EXCEPT ![h] = [@ EXCEPT !.phase = "answered", !.exp = exp]]

WriteRow(k, g, exp, version) ==
    row' = [row EXCEPT ![k] = [owner_gateway |-> g, version |-> version,
                               lease_expires_at |-> exp]]

Init ==
    /\ clock = 0
    /\ row = [k \in Key |-> NoRow]
    /\ req = [h \in Handler |-> NoRequest]
    /\ belief = [g \in Gateway |-> [k \in Key |-> 0]]
    /\ up = [g \in Gateway |-> TRUE]
    /\ sent = 0

-----------------------------------------------------------------------------
\* A request arrives: the handler reads the clock.  A gateway that asks for a
\* release has stopped acting on the lease.
Arrive(h, g, k, op) ==
    /\ req[h] = NoRequest /\ up[g] /\ sent < MaxSent
    /\ Patient => \A i \in Handler : ~About(i, g, k)
    /\ req' = [req EXCEPT ![h] = [op |-> op, gw |-> g, key |-> k, now |-> clock,
                                  phase |-> "begun", exp |-> 0]]
    /\ belief' = IF op = "release" THEN [belief EXCEPT ![g][k] = 0] ELSE belief
    /\ sent' = sent + 1
    /\ UNCHANGED <<clock, row, up>>

\* Mutant: a stale lease is recognised one tick early.
HeldByOtherOneEarly(r, g, now) ==
    r.owner_gateway # g /\ r.lease_expires_at > now + 1

\* A foreign lease that has not expired by the time the request came in.
HeldByOther(r, g, now) == r.owner_gateway # g /\ r.lease_expires_at > now

\* acquire: the SELECT ... FOR UPDATE and, where it finds a row, the rest of
\* the transaction (renewed, 409 or stolen).
AcquireSelect(h) ==
    /\ At(h, "acquire", "begun")
    /\ LET g == req[h].gw
           k == req[h].key
           exp == Expiry(req[h].now, g)
       IN \/ /\ row[k] = NoRow
             /\ req' = [req EXCEPT ![h] = [@ EXCEPT !.phase = "insert"]]
             /\ UNCHANGED row
          \/ /\ row[k] # NoRow /\ HeldByOther(row[k], g, req[h].now)
             /\ Answer(h, 0)
             /\ UNCHANGED row
          \/ /\ row[k] # NoRow /\ ~HeldByOther(row[k], g, req[h].now)
             /\ WriteRow(k, g, exp, row[k].version + 1)
             /\ Answer(h, exp)
    /\ UNCHANGED <<clock, belief, up, sent>>

\* acquire: the INSERT.  The primary key makes it fail, with an error for an
\* answer, if the row has come into being since the SELECT.
AcquireInsert(h) ==
    /\ At(h, "acquire", "insert")
    /\ LET g == req[h].gw
           k == req[h].key
           exp == Expiry(req[h].now, g)
       IN \/ /\ row[k] = NoRow
             /\ WriteRow(k, g, exp, 1)
             /\ Answer(h, exp)
          \/ /\ row[k] # NoRow
             /\ Answer(h, 0)
             /\ UNCHANGED row
    /\ UNCHANGED <<clock, belief, up, sent>>

Owns(g, k) == row[k] # NoRow /\ row[k].owner_gateway = g

\* Mutant: the UPDATE does not ask for the owner.
RenewAny(h) ==
    /\ At(h, "renew", "begun")
    /\ LET g == req[h].gw
           k == req[h].key
           exp == Expiry(req[h].now, g)
       IN \/ /\ row[k] # NoRow
             /\ WriteRow(k, g, exp, row[k].version + 1)
             /\ Answer(h, exp)
          \/ /\ row[k] = NoRow
             /\ Answer(h, 0)
             /\ UNCHANGED row
    /\ UNCHANGED <<clock, belief, up, sent>>

\* renew: UPDATE ... WHERE lease_key AND owner_gateway, expired or not.
Renew(h) ==
    /\ At(h, "renew", "begun")
    /\ LET g == req[h].gw
           k == req[h].key
           exp == Expiry(req[h].now, g)
       IN \/ /\ Owns(g, k)
             /\ WriteRow(k, g, exp, row[k].version + 1)
             /\ Answer(h, exp)
          \/ /\ ~Owns(g, k)
             /\ Answer(h, 0)
             /\ UNCHANGED row
    /\ UNCHANGED <<clock, belief, up, sent>>

\* release: DELETE ... WHERE lease_key AND owner_gateway.
Release(h) ==
    /\ At(h, "release", "begun")
    /\ row' = IF Owns(req[h].gw, req[h].key)
              THEN [row EXCEPT ![req[h].key] = NoRow] ELSE row
    /\ Answer(h, 0)
    /\ UNCHANGED <<clock, belief, up, sent>>

\* The answer reaches its gateway, which adopts the expiry it names.
Deliver(h) ==
    /\ req[h] # NoRequest /\ req[h].phase = "answered" /\ up[req[h].gw]
    /\ belief' = [belief EXCEPT ![req[h].gw][req[h].key] = req[h].exp]
    /\ req' = [req EXCEPT ![h] = NoRequest]
    /\ UNCHANGED <<clock, row, up, sent>>

\* The request fails on its way (no connection, a rolled back transaction) or
\* its answer is lost.
Lose(h) ==
    /\ req[h] # NoRequest
    /\ req' = [req EXCEPT ![h] = NoRequest]
    /\ UNCHANGED <<clock, row, belief, up, sent>>

\* The gateway's process dies; what it had asked for is still carried out.
Crash(g) ==
    /\ up[g]
    /\ up' = [up EXCEPT ![g] = FALSE]
    /\ belief' = [belief EXCEPT ![g] = [k \in Key |-> 0]]
    /\ UNCHANGED <<clock, row, req, sent>>

\* Mutant: the shutdown hook deletes the leases of every owner.
ShutdownAll(g) ==
    /\ up[g]
    /\ up' = [up EXCEPT ![g] = FALSE]
    /\ belief' = [belief EXCEPT ![g] = [k \in Key |-> 0]]
    /\ row' = [k \in Key |-> NoRow]
    /\ UNCHANGED <<clock, req, sent>>

\* SIGTERM: release_all_my_leases deletes every lease of this owner.
Shutdown(g) ==
    /\ up[g]
    /\ up' = [up EXCEPT ![g] = FALSE]
    /\ belief' = [belief EXCEPT ![g] = [k \in Key |-> 0]]
    /\ row' = [k \in Key |-> IF Owns(g, k) THEN NoRow ELSE row[k]]
    /\ UNCHANGED <<clock, req, sent>>

\* A restart takes longer than a request: no answer to the old process comes
\* to the new one.
Restart(g) ==
    /\ ~up[g]
    /\ \A h \in Handler : req[h] # NoRequest => req[h].gw # g
    /\ up' = [up EXCEPT ![g] = TRUE]
    /\ UNCHANGED <<clock, row, req, belief, sent>>

Tick ==
    /\ clock < MaxTime
    /\ clock' = clock + 1
    /\ UNCHANGED <<row, req, belief, up, sent>>

-----------------------------------------------------------------------------
Handle(h) == AcquireSelect(h) \/ AcquireInsert(h) \/ Renew(h) \/ Release(h)

Next ==
    \/ \E h \in Handler, g \in Gateway, k \in Key,
          op \in {"acquire", "renew", "release"} : Arrive(h, g, k, op)
    \/ \E h \in Handler : Handle(h) \/ Deliver(h) \/ Lose(h)
    \/ \E g \in Gateway : Crash(g) \/ Shutdown(g) \/ Restart(g)
    \/ Tick

Spec == Init /\ [][Next]_vars

-----------------------------------------------------------------------------
(* Properties                                                               *)

\* The rows, requests and beliefs have the shape that the table and the
\* request models declare; an expiry never lies before the epoch.
TypeOK ==
    /\ clock \in Nat
    /\ row \in [Key -> Lease \cup {NoRow}]
    /\ req \in [Handler -> Request \cup {NoRequest}]
    /\ belief \in [Gateway -> [Key -> Nat]]
    /\ up \in [Gateway -> BOOLEAN]
    /\ sent \in Nat

\* The gateway acts as the owner: the expiry it was told is still ahead.
Believes(g, k) == belief[g][k] > clock

\* Under Patient: two gateways never both act as the owner of one lease,
\* although handlers use a clock read before they waited, answers are lost
\* and owners crash, shut down and restart.
Exclusive ==
    \A k \in Key, g1, g2 \in Gateway :
        Believes(g1, k) /\ Believes(g2, k) => g1 = g2

\* The lease in the database covers what its owner was told: nobody can steal
\* it, and an owner's own requests do not shorten it below that.
BeliefCovered ==
    \A g \in Gateway, k \in Key : Believes(g, k) =>
        /\ Owns(g, k)
        /\ row[k].lease_expires_at >= belief[g][k]

\* "owner extends lease_expires_at" (docs/gateway-lease-failover-plan.md): under
\* Patient no renewal moves the expiry back, although the handler computes it
\* from a clock that it read before it waited for its connection.
RenewExtends ==
    [][\A k \in Key, h \in Handler :
          Renew(h) /\ row[k] # NoRow
          => row'[k].lease_expires_at >= row[k].lease_expires_at]_vars

=============================================================================
