----------------------------- MODULE EventPipeline -----------------------------
(* Events from their publisher to two consumers: the orchestrator, which     *)
(* buffers the events of a task and publishes a summary of them              *)
(* (task_orchestrator.py, over a plain subscription), and the projector,     *)
(* which writes memory and decision events to the memory API (projector.py,  *)
(* over a durable pull consumer that redelivers what is not acknowledged).   *)
EXTENDS Naturals, Sequences, FiniteSets

CONSTANTS
    TaskEvent,      \* events on swarm.task.*
    StreamEvent,    \* events on swarm.events
    Malformed,      \* stream events that do not validate
    FetchBatch,     \* batch of a fetch
    MaxBuffered,    \* max_events_before_summary
    MaxFaults       \* bound: outages, crashes, lost answers, failed requests

VARIABLES
    online,         \* the active connection is up
    published,      \* events the publisher was told to publish
    stream,         \* stream events stored, oldest first
    acked,          \* those the consumer has acknowledged
    fetched,        \* what is left of the batch the projector works through
    rows,           \* memory rows written for each stream event
    buffer,         \* the orchestrator's buffer, one task
    summaries,      \* summaries it keeps: the events of each
    announced,      \* events covered by a published summary
    received,       \* history: task events the orchestrator received
    refused,        \* history: events whose POST failed
    faults

pipelineVars == <<online, published, stream, acked, fetched, rows, buffer,
                  summaries, announced, received, refused, faults>>

Elements(s) == {s[i] : i \in DOMAIN s}

PipelineTypeOK ==
    /\ online \in BOOLEAN
    /\ published \subseteq TaskEvent \cup StreamEvent
    /\ stream \in Seq(StreamEvent) /\ fetched \subseteq Elements(stream)
    /\ acked \subseteq StreamEvent /\ refused \subseteq StreamEvent
    /\ rows \in [StreamEvent -> Nat]
    /\ announced \subseteq TaskEvent /\ received \subseteq TaskEvent
    /\ buffer \in Seq(TaskEvent) /\ summaries \in Seq(SUBSET TaskEvent)
    /\ faults \in 0 .. MaxFaults

PipelineInit ==
    /\ online = TRUE /\ published = {} /\ stream = <<>> /\ acked = {}
    /\ fetched = {} /\ rows = [e \in StreamEvent |-> 0]
    /\ buffer = <<>> /\ summaries = <<>> /\ announced = {} /\ received = {}
    /\ refused = {} /\ faults = 0

Fault == faults < MaxFaults /\ faults' = faults + 1

LinkChanges ==
    /\ online' = ~online
    /\ IF online THEN Fault ELSE UNCHANGED faults
    /\ UNCHANGED <<published, stream, acked, fetched, rows, buffer, summaries,
                   announced, received, refused>>

\* _publish of an event of swarm.events: False, and nothing else, when the
\* connection is down or the event too large.
PublishStream(e) ==
    /\ e \in StreamEvent \ published
    /\ published' = published \cup {e}
    /\ stream' = IF online THEN Append(stream, e) ELSE stream
    /\ UNCHANGED <<online, acked, fetched, rows, buffer, summaries, announced,
                   received, refused, faults>>

\* Mutant: the buffer is cleared also when the summary was not published.
SummarizeTaskForgets(buf) ==
    /\ summaries' = Append(summaries, Elements(buf))
    /\ buffer' = <<>>
    /\ \/ announced' = announced \cup Elements(buf) /\ UNCHANGED faults
       \/ Fault /\ UNCHANGED announced

\* _summarize_task: the summary is kept, then published; the buffer is cleared
\* only after the publish, which raises when the connection fails.
SummarizeTask(buf) ==
    /\ summaries' = Append(summaries, Elements(buf))
    /\ \/ /\ announced' = announced \cup Elements(buf)
          /\ buffer' = <<>> /\ UNCHANGED faults
       \/ Fault /\ buffer' = buf /\ UNCHANGED announced

\* _publish of a task event and _handle_event of the orchestrator, which gets
\* what is published while there is a connection.
PublishTask(e) ==
    LET buf == Append(buffer, e)
    IN  /\ e \in TaskEvent \ published
        /\ published' = published \cup {e}
        /\ received' = IF online THEN received \cup {e} ELSE received
        /\ IF online /\ Len(buf) >= MaxBuffered THEN SummarizeTask(buf)
           ELSE /\ buffer' = IF online THEN buf ELSE buffer
                /\ UNCHANGED <<summaries, announced, faults>>
        /\ UNCHANGED <<online, stream, acked, fetched, rows, refused>>

\* sub.fetch: unacknowledged messages; those delivered before come back when
\* their acknowledgement is overdue.
Fetch(es) ==
    /\ online /\ fetched = {}
    /\ es # {} /\ es \subseteq Elements(stream) \ acked
    /\ Cardinality(es) <= FetchBatch
    /\ fetched' = es
    /\ UNCHANGED <<online, published, stream, acked, rows, buffer, summaries,
                   announced, received, refused, faults>>

\* The messages of a batch come in the order of the stream.
Before(e, f) ==
    \E i, j \in DOMAIN stream : i <= j /\ stream[i] = e /\ stream[j] = f
First(e) == e \in fetched /\ \A f \in fetched : Before(e, f)

Acknowledge(e) == acked' = acked \cup {e}

\* What a POST to the API does: a row, a row whose answer is lost, or nothing;
\* the failure is logged by _project_memory and _project_decision.
PostMemory(e) ==
    \/ rows' = [rows EXCEPT ![e] = @ + 1] /\ UNCHANGED <<refused, faults>>
    \/ Fault /\ rows' = [rows EXCEPT ![e] = @ + 1] /\ UNCHANGED refused
    \/ Fault /\ refused' = refused \cup {e} /\ UNCHANGED rows

\* Mutant: the message is acknowledged, then processed; a crash falls between.
ProcessEventAckFirst(e) ==
    /\ First(e) /\ fetched' = fetched \ {e}
    /\ IF e \in Malformed THEN UNCHANGED <<acked, rows, refused, faults>>
       ELSE /\ Acknowledge(e)
            /\ PostMemory(e) \/ (Fault /\ UNCHANGED <<rows, refused>>)
    /\ UNCHANGED <<online, published, stream, buffer, summaries, announced, received>>

\* Mutant: a message that does not validate is tried again at once.
ProcessEventEndsBatch(e) ==
    /\ First(e)
    /\ IF e \in Malformed THEN UNCHANGED <<fetched, acked, rows, refused, faults>>
       ELSE fetched' = fetched \ {e} /\ PostMemory(e) /\ Acknowledge(e)
    /\ UNCHANGED <<online, published, stream, buffer, summaries, announced, received>>

\* The body of the loop of run: process_event and the acknowledgement, which is
\* not sent when the event does not validate or the process dies in between.
\* The rest of the batch is processed after a failure.
ProcessEvent(e) ==
    /\ First(e) /\ fetched' = fetched \ {e}
    /\ IF e \in Malformed THEN UNCHANGED <<acked, rows, refused, faults>>
       ELSE PostMemory(e) /\ Acknowledge(e)
    /\ UNCHANGED <<online, published, stream, buffer, summaries, announced, received>>

\* The projector dies, before the POST of an event or after it and before the
\* acknowledgement.
ProjectorDies(e) ==
    /\ Fault /\ First(e)
    /\ fetched' = {}
    /\ \/ UNCHANGED rows
       \/ e \notin Malformed /\ rows' = [rows EXCEPT ![e] = @ + 1]
    /\ UNCHANGED <<online, published, stream, acked, buffer, summaries, announced,
                   received, refused>>

PipelineNext ==
    \/ LinkChanges
    \/ \E e \in StreamEvent : PublishStream(e) \/ ProcessEvent(e) \/ ProjectorDies(e)
    \/ \E e \in TaskEvent : PublishTask(e)
    \/ \E es \in SUBSET StreamEvent : Fetch(es)

\* The loop of the projector runs, a lost connection comes back, and an event
\* that stays unacknowledged is delivered again and again.
PipelineFairness ==
    /\ WF_pipelineVars(~online /\ LinkChanges)
    /\ WF_pipelineVars(\E e \in StreamEvent : ProcessEvent(e))
    /\ \A e \in StreamEvent :
         SF_pipelineVars(\E es \in SUBSET StreamEvent : e \in es /\ Fetch(es))

PipelineSpec == PipelineInit /\ [][PipelineNext]_pipelineVars /\ PipelineFairness

----------------------------------------------------------------------------
\* An acknowledged event has its memory row, unless the request for it failed,
\* which the projector logs and acknowledges all the same (run, process_event
\* and _project_memory).
ProjectedOrRefused == \A e \in acked : rows[e] > 0 \/ e \in refused

\* What the orchestrator received is in its buffer or in a summary that was
\* published, and two summaries share events only after a publish failed: a
\* failure takes no events with it, it repeats them (_summarize_task).
SummariesSound ==
    /\ received = Elements(buffer) \cup announced
    /\ faults = 0 => \A i, j \in DOMAIN summaries :
                        i # j => summaries[i] \cap summaries[j] = {}

\* What holds of the pipeline whatever fails (projector.py,
\* task_orchestrator.py): an acknowledged event has its row, and what the
\* orchestrator received is buffered or summarised.
PipelineSafe == PipelineTypeOK /\ ProjectedOrRefused /\ SummariesSound

\* Every event stored in the stream that validates is acknowledged in the end,
\* whatever does not validate before it (run).
StreamDrains ==
    \A e \in StreamEvent \ Malformed :
        e \in Elements(stream) ~> e \in acked

=============================================================================
