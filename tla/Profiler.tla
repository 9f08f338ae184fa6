------------------------------- MODULE Profiler -------------------------------
(* The implicit profiler: chat messages are buffered per agent, a timer that *)
(* every message restarts flushes the buffer, a language model extracts the  *)
(* preferences, and they are merged into the User_Profile block.  One agent, *)
(* several pods of the queue group.  A message stands for the preference it  *)
(* shows.                                                                    *)
EXTENDS Naturals, SequencesExt, FiniteSets

CONSTANTS
    Pod,
    Message,
    Protected,      \* messages whose preference is a protected key
    MaxBuffer,      \* messages that fit in MAX_BATCH_CHARS
    ProfileLimit,   \* preferences that fit in the token limit of the block
    MaxCasRetries   \* MAX_CAS_RETRIES

VARIABLES
    profile,        \* the block: revision (0: absent) and preferences, oldest first
    buffer,         \* _buffers of each pod
    task,           \* the flush task of each pod
    stopped,        \* pods that were stopped
    received,       \* messages delivered to some pod
    givenUp         \* history: messages given up by the code

profilerVars == <<profile, buffer, task, stopped, received, givenUp>>

NoFlush == [at |-> "done", batch |-> <<>>, revision |-> 0, merged |-> <<>>, attempt |-> 1]

TaskAt == {"done", "sleeping", "calling", "reading", "writing", "refetch"}

ProfilerTypeOK ==
    /\ profile.revision \in Nat /\ profile.content \in Seq(Message)
    /\ buffer \in [Pod -> Seq(Message)]
    /\ \A p \in Pod : /\ task[p].at \in TaskAt /\ Len(buffer[p]) <= MaxBuffer
                      /\ task[p].attempt \in 1 .. MaxCasRetries
    /\ stopped \subseteq Pod
    /\ givenUp \subseteq received /\ received \subseteq Message

ProfilerInit ==
    /\ profile = [revision |-> 0, content |-> <<>>]
    /\ buffer = [p \in Pod |-> <<>>]
    /\ task = [p \in Pod |-> NoFlush]
    /\ stopped = {} /\ received = {} /\ givenUp = {}

Busy(p) == task[p].at \notin {"done", "sleeping"}

\* A batch over the limit keeps its most recent part.
Trim(buf) == IF Len(buf) > MaxBuffer THEN SubSeq(buf, Len(buf) - MaxBuffer + 1, Len(buf))
             ELSE buf

\* Mutant: the timer is started only when no task is there.
OnMessageKeepsTask(p, m) ==
    /\ p \notin stopped /\ m \notin received
    /\ received' = received \cup {m}
    /\ buffer' = [buffer EXCEPT ![p] = Trim(Append(@, m))]
    /\ task' = [task EXCEPT ![p] = IF @.at = "done" THEN [NoFlush EXCEPT !.at = "sleeping"] ELSE @]
    /\ givenUp' = givenUp \cup (Range(Append(buffer[p], m)) \ Range(buffer'[p]))
    /\ UNCHANGED <<profile, stopped>>

\* _on_message: the message is buffered and the timer restarted; the task that
\* is cancelled for it may be past its timer, and its batch is lost then.
OnMessage(p, m) ==
    /\ p \notin stopped /\ m \notin received
    /\ received' = received \cup {m}
    /\ buffer' = [buffer EXCEPT ![p] = Trim(Append(@, m))]
    /\ task' = [task EXCEPT ![p] = [NoFlush EXCEPT !.at = "sleeping"]]
    /\ givenUp' = givenUp \cup (Range(Append(buffer[p], m)) \ Range(buffer'[p]))
                          \cup Range(task[p].batch)
    /\ UNCHANGED <<profile, stopped>>

\* _debounced_flush after its sleep.
Flush(p) ==
    /\ task[p].at = "sleeping"
    /\ buffer' = [buffer EXCEPT ![p] = <<>>]
    /\ task' = [task EXCEPT ![p] = IF buffer[p] = <<>> THEN NoFlush
                                   ELSE [@ EXCEPT !.at = "calling", !.batch = buffer[p]]]
    /\ UNCHANGED <<profile, stopped, received, givenUp>>

\* The task ends without writing: what is left of its batch is lost.
LoseBatch(p) ==
    /\ task' = [task EXCEPT ![p] = NoFlush]
    /\ givenUp' = givenUp \cup Range(task[p].batch)
    /\ UNCHANGED profile

\* _call_llm: a diff; or none, or all retries failed and the batch went to the
\* dead letter queue.
CallLLM(p) ==
    /\ task[p].at = "calling"
    /\ \/ task' = [task EXCEPT ![p].at = "reading"] /\ UNCHANGED <<profile, givenUp>>
       \/ LoseBatch(p)
    /\ UNCHANGED <<buffer, stopped, received>>

\* token_safe_truncate: the oldest keys that are not protected go.
Truncate(prefs) ==
    LET excess == IF Len(prefs) > ProfileLimit THEN Len(prefs) - ProfileLimit ELSE 0
        loose == {i \in DOMAIN prefs : prefs[i] \notin Protected}
        evicted == {i \in loose : Cardinality({j \in loose : j < i}) < excess}
    IN  [k \in 1 .. Len(prefs) - Cardinality(evicted) |->
           prefs[CHOOSE i \in DOMAIN prefs \ evicted :
                    Cardinality({j \in DOMAIN prefs \ evicted : j <= i}) = k]]

NoProfile == [revision |-> 0, content |-> <<>>]

\* The current profile is read and the diff merged into it; what the token
\* limit refuses after the truncation is not written.  get_block answers a read
\* that fails as it answers an absent block, so that the diff is merged into
\* nothing and the write goes out as the first one; if the bucket cannot be
\* opened, the exception ends the task.
MergeProfile(p) ==
    /\ task[p].at = "reading"
    /\ \/ \E read \in {profile, NoProfile} :
            LET merged == Truncate(read.content \o task[p].batch)
                kept == SelectSeq(task[p].batch, LAMBDA m : m \in Range(merged))
            IN  /\ Len(merged) <= ProfileLimit
                /\ task' = [task EXCEPT ![p].at = "writing", ![p].revision = read.revision,
                                        ![p].merged = merged, ![p].batch = kept]
                /\ givenUp' = givenUp \cup (Range(task[p].batch) \ Range(kept))
                /\ UNCHANGED profile
       \/ LoseBatch(p)          \* over the limit all the same, or no bucket
    /\ UNCHANGED <<buffer, stopped, received>>

\* Mutant: the block is put without comparing revisions.
UpdateProfilePuts(p) ==
    LET k == task[p]
    IN  /\ k.at = "writing"
        /\ profile' = [revision |-> profile.revision + 1, content |-> k.merged]
        /\ task' = [task EXCEPT ![p] = NoFlush]
        /\ givenUp' = givenUp \cup
             IF k.revision = profile.revision THEN Range(profile.content) \ Range(k.merged) ELSE {}
        /\ UNCHANGED <<buffer, stopped, received>>

\* update_block: the compare-and-set of the merged profile; after a conflict it
\* is written over the profile of the peer.  The firewall's refusal and every
\* error but a conflict are only logged, and the batch is lost; if the error
\* came after the write had its effect, that is a write like any other.
UpdateProfile(p) ==
    LET k == task[p]
    IN  /\ k.at = "writing"
        /\ \/ /\ k.revision = profile.revision
              /\ profile' = [revision |-> profile.revision + 1, content |-> k.merged]
              /\ task' = [task EXCEPT ![p] = NoFlush]
              /\ givenUp' = givenUp \cup (Range(profile.content) \ Range(k.merged))
           \/ /\ k.revision # profile.revision /\ k.attempt < MaxCasRetries
              /\ task' = [task EXCEPT ![p].attempt = @ + 1, ![p].at = "refetch"]
              /\ UNCHANGED <<profile, givenUp>>
           \/ LoseBatch(p)      \* the last conflict, or any other error
        /\ UNCHANGED <<buffer, stopped, received>>

\* The backoff and the get of the latest revision, whose errors end update_block.
RefetchProfile(p) ==
    /\ task[p].at = "refetch"
    /\ \/ /\ task' = [task EXCEPT ![p].at = "writing", ![p].revision = profile.revision]
          /\ UNCHANGED <<profile, givenUp>>
       \/ LoseBatch(p)
    /\ UNCHANGED <<buffer, stopped, received>>

\* stop: the subscription and the tasks end, the buffer is not flushed.
StopProfiler(p) ==
    /\ p \notin stopped
    /\ stopped' = stopped \cup {p}
    /\ task' = [task EXCEPT ![p] = NoFlush]
    /\ givenUp' = givenUp \cup Range(buffer[p]) \cup Range(task[p].batch)
    /\ UNCHANGED <<profile, buffer, received>>

Work(p) == Flush(p) \/ CallLLM(p) \/ MergeProfile(p) \/ UpdateProfile(p) \/ RefetchProfile(p)

ProfilerNext ==
    \E p \in Pod : (\E m \in Message : OnMessage(p, m)) \/ Work(p) \/ StopProfiler(p)

\* The event loop runs every task, and a sleep ends.
ProfilerFairness == \A p \in Pod : WF_profilerVars(Work(p))

ProfilerSpec == ProfilerInit /\ [][ProfilerNext]_profilerVars /\ ProfilerFairness

----------------------------------------------------------------------------
\* No message is lost unnoticed: it waits in a buffer, its batch is worked on,
\* its preference is in the profile, or the code gave it up: the buffer was
\* trimmed, a later message cancelled the extraction, the model gave nothing,
\* the profile was full, an error other than a conflict or the last conflict was
\* logged, the pod stopped, or a profile merged before a conflict or after a
\* read that failed was written over it (_on_message, _extract_and_apply,
\* get_block and update_block).
MessagesAccounted ==
    received \subseteq Range(profile.content) \cup givenUp \cup
        UNION {Range(buffer[p]) \cup Range(task[p].batch) : p \in Pod}

\* When the chat goes quiet the buffer is emptied: a buffered message always
\* has a timer that will fire (the debounce of _on_message).
QuietFlushes ==
    \A p \in Pod : buffer[p] # <<>> ~> buffer[p] = <<>> \/ p \in stopped

=============================================================================
