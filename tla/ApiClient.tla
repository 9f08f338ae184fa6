------------------------------ MODULE ApiClient ------------------------------
(* The resilient client of the memU API: requests of one client, each with   *)
(* up to three attempts, share a counter of consecutive failures and the     *)
(* circuit breaker it opens.  One asyncio loop runs them; they interleave    *)
(* where they wait for an answer or sleep between attempts.                  *)
EXTENDS Naturals

CONSTANTS
    ApiCall,        \* calls of request()
    Attempts,       \* 3
    Threshold,      \* 5 failures
    OpenFor,        \* 5 minutes, in ticks
    LastTime         \* bound: the clock

VARIABLES
    time,
    failing,        \* _consecutive_failures
    openUntil,      \* _circuit_open_until
    at,             \* where each request is
    attempt,        \* its attempt
    inRow,          \* history: failures since the last success, up to Threshold
    lastFailure,    \* history: the time of the last of them
    through         \* history: attempts each request made while the circuit was open

clientVars == <<time, failing, openUntil, at, attempt, inRow, lastFailure, through>>

CircuitOpen == openUntil > time

ClientTypeOK ==
    /\ time \in 0 .. LastTime
    /\ failing \in Nat /\ openUntil \in 0 .. LastTime + OpenFor
    /\ at \in [ApiCall -> {"new", "calling", "sleeping", "blocked", "answered", "failed"}]
    /\ attempt \in [ApiCall -> 0 .. Attempts]
    /\ inRow \in 0 .. Threshold /\ lastFailure \in 0 .. LastTime
    /\ through \in [ApiCall -> 0 .. Attempts]

ClientInit ==
    /\ time = 0 /\ failing = 0 /\ openUntil = 0
    /\ at = [r \in ApiCall |-> "new"]
    /\ attempt = [r \in ApiCall |-> 0]
    /\ inRow = 0 /\ lastFailure = 0
    /\ through = [r \in ApiCall |-> 0]

ClientTick ==
    /\ time < LastTime
    /\ time' = time + 1
    /\ UNCHANGED <<failing, openUntil, at, attempt, inRow, lastFailure, through>>

\* An attempt awaits the answer of the server.
CallApi(r) ==
    /\ at' = [at EXCEPT ![r] = "calling"]
    /\ attempt' = [attempt EXCEPT ![r] = @ + 1]
    /\ through' = [through EXCEPT ![r] = IF CircuitOpen THEN @ + 1 ELSE @]

\* Mutant: the breaker is not asked.
StartRegardless(r) ==
    /\ at[r] = "new"
    /\ CallApi(r)
    /\ UNCHANGED <<time, failing, openUntil, inRow, lastFailure>>

\* request: the breaker is asked once, before the first attempt.
Start(r) ==
    /\ at[r] = "new"
    /\ IF CircuitOpen
       THEN at' = [at EXCEPT ![r] = "blocked"] /\ UNCHANGED <<attempt, through>>
       ELSE CallApi(r)
    /\ UNCHANGED <<time, failing, openUntil, inRow, lastFailure>>

\* The sleep between two attempts is over.
Again(r) ==
    /\ at[r] = "sleeping"
    /\ CallApi(r)
    /\ UNCHANGED <<time, failing, openUntil, inRow, lastFailure>>

\* _record_success, whatever attempts of other requests did meanwhile.
Succeed(r) ==
    /\ at[r] = "calling"
    /\ at' = [at EXCEPT ![r] = "answered"]
    /\ failing' = 0 /\ openUntil' = 0
    /\ inRow' = 0
    /\ UNCHANGED <<time, attempt, lastFailure, through>>

\* Mutant: one failure more is needed.
RecordFailureOneMore ==
    /\ failing' = failing + 1
    /\ openUntil' = IF failing' > Threshold THEN time + OpenFor ELSE openUntil

\* Mutant: the counter starts anew when the breaker opens.
RecordFailureResets ==
    /\ failing' = IF failing + 1 >= Threshold THEN 0 ELSE failing + 1
    /\ openUntil' = IF failing + 1 >= Threshold THEN time + OpenFor ELSE openUntil

RecordFailure ==
    /\ failing' = failing + 1
    /\ openUntil' = IF failing' >= Threshold THEN time + OpenFor ELSE openUntil

\* An attempt fails.  A 401, a 5xx and a network error are tried again, any
\* other status is raised at once.
Fail(r, again) ==
    /\ at[r] = "calling"
    /\ at' = [at EXCEPT ![r] = IF again /\ attempt[r] < Attempts
                               THEN "sleeping" ELSE "failed"]
    /\ RecordFailure
    /\ inRow' = IF inRow < Threshold THEN inRow + 1 ELSE inRow
    /\ lastFailure' = time
    /\ UNCHANGED <<time, attempt, through>>

ClientNext ==
    \/ ClientTick
    \/ \E r \in ApiCall : Start(r) \/ Again(r) \/ Succeed(r)
    \/ \E r \in ApiCall, again \in BOOLEAN : Fail(r, again)

ClientSpec == ClientInit /\ [][ClientNext]_clientVars

-----------------------------------------------------------------------------
\* While the breaker is open only requests that were under way when it opened
\* still reach the server, each with the attempts it has left (request).
FewThroughOpenCircuit == \A r \in ApiCall : through[r] < Attempts

\* After Threshold failures with no success between them, of whichever
\* requests, the breaker is open until OpenFor after the last one, and every
\* further failure opens it again (_record_failure).
OpenWhileFailing ==
    inRow = Threshold => openUntil = lastFailure + OpenFor

\* An open breaker lets through only the requests that were under way, and is
\* open while the failures go on (memu_hardening.py, request).
ClientSafe == ClientTypeOK /\ FewThroughOpenCircuit /\ OpenWhileFailing

=============================================================================
