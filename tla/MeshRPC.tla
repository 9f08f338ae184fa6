------------------------------- MODULE MeshRPC -------------------------------
(* The mesh RPC of LaneLockedExecution: a call subscribes to the response    *)
(* subject of its gateway, publishes its request and takes the first         *)
(* message of the subscription for its answer.  Who answers is not in the    *)
(* repository: any gateway may, late or more than once.                      *)
EXTENDS Naturals, Sequences

CONSTANTS
    Call,           \* calls of request_rpc
    CallGateway,    \* the gateway that makes each call
    MaxAnswers      \* bound: answers to one request

VARIABLES
    rpc,            \* how far each call is
    mail,           \* the messages of each call's subscription
    got,            \* the request whose answer each call took
    answers,        \* how many answers each request has had
    missed,         \* history: calls answered in time that timed out
    together,     \* history: pairs of calls of a gateway under way at once
    late            \* history: requests answered after their call had ended

rpcVars == <<rpc, mail, got, answers, missed, together, late>>

Stage == {"new", "subscribed", "waiting", "returned", "raised", "timeout"}
Message == [to : Call, success : BOOLEAN]
Subscribed(c) == rpc[c] \in {"subscribed", "waiting"}

RPCTypeOK ==
    /\ rpc \in [Call -> Stage]
    /\ mail \in [Call -> Seq(Message)]
    /\ got \in [Call -> SUBSET Call]
    /\ answers \in [Call -> 0 .. MaxAnswers]
    /\ missed \subseteq Call /\ late \subseteq Call
    /\ together \subseteq Call \X Call

RPCInit ==
    /\ rpc = [c \in Call |-> "new"]
    /\ mail = [c \in Call |-> <<>>]
    /\ got = [c \in Call |-> {}]
    /\ answers = [c \in Call |-> 0]
    /\ missed = {} /\ together = {} /\ late = {}

\* nc.subscribe(response_subject)
Subscribe(c) ==
    /\ rpc[c] = "new"
    /\ rpc' = [rpc EXCEPT ![c] = "subscribed"]
    /\ together' = together \cup
         {<<c, d>> : d \in {e \in Call : Subscribed(e) /\ CallGateway[e] = CallGateway[c]}}
    /\ UNCHANGED <<mail, got, answers, missed, late>>

\* nc.publish(SUBJECT_RPC_REQUEST)
Publish(c) ==
    /\ rpc[c] = "subscribed"
    /\ rpc' = [rpc EXCEPT ![c] = "waiting"]
    /\ UNCHANGED <<mail, got, answers, missed, together, late>>

\* Mutant: every gateway listens on one response subject.
HearsAny(c, d) == Subscribed(d)

\* Mutant: the subscriptions of a gateway form a queue group.
HearsInTurn(c, d) ==
    LET group == {e \in Call : Subscribed(e) /\ CallGateway[e] = CallGateway[c]}
    IN  d \in group /\ d = CHOOSE e \in group : TRUE

\* SUBJECT_RPC_RESPONSE names the gateway, not the request.
Hears(c, d) == Subscribed(d) /\ CallGateway[d] = CallGateway[c]

\* Somebody answers request c: every subscription of its gateway gets it.
Respond(c, success) ==
    /\ rpc[c] \notin {"new", "subscribed"} /\ answers[c] < MaxAnswers
    /\ answers' = [answers EXCEPT ![c] = @ + 1]
    /\ mail' = [d \in Call |-> IF Hears(c, d)
                               THEN Append(mail[d], [to |-> c, success |-> success])
                               ELSE mail[d]]
    /\ late' = IF rpc[c] = "waiting" THEN late ELSE late \cup {c}
    /\ UNCHANGED <<rpc, got, missed, together>>

\* sub.next_msg() returns, request_id is not looked at; unsubscribe.
Receive(c) ==
    /\ rpc[c] = "waiting" /\ mail[c] # <<>>
    /\ rpc' = [rpc EXCEPT ![c] = IF Head(mail[c]).success THEN "returned" ELSE "raised"]
    /\ got' = [got EXCEPT ![c] = {Head(mail[c]).to}]
    /\ mail' = [mail EXCEPT ![c] = <<>>]
    /\ UNCHANGED <<answers, missed, together, late>>

\* timeout_ms is over and nothing has come; unsubscribe.
Timeout(c) ==
    /\ rpc[c] = "waiting" /\ mail[c] = <<>>
    /\ rpc' = [rpc EXCEPT ![c] = "timeout"]
    /\ missed' = IF answers[c] > 0 THEN missed \cup {c} ELSE missed
    /\ UNCHANGED <<mail, got, answers, together, late>>

RPCNext ==
    \E c \in Call :
        \/ Subscribe(c)
        \/ Publish(c)
        \/ \E success \in BOOLEAN : Respond(c, success)
        \/ Receive(c)
        \/ Timeout(c)

RPCSpec == RPCInit /\ [][RPCNext]_rpcVars

-----------------------------------------------------------------------------
\* A call takes the answer to another request only if that request is of the
\* same gateway, and was under way at the same time or was answered after its
\* own call had ended; calls made one after the other, each answered once and
\* in time, get their own answers (request_rpc).
MixedOnlyIfSharedOrLate ==
    \A c \in Call : \A d \in got[c] \ {c} :
        /\ CallGateway[d] = CallGateway[c]
        /\ <<c, d>> \in together \/ <<d, c>> \in together \/ d \in late

\* No call times out although its request was answered while it waited: the
\* subscription is there before the request is published (request_rpc).
NoAnswerMissed == missed = {}

\* What request_rpc promises in every state: the two above.
RPCSafe == RPCTypeOK /\ MixedOnlyIfSharedOrLate /\ NoAnswerMissed

=============================================================================
