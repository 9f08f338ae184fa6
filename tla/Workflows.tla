------------------------------- MODULE Workflows -------------------------------
(* The Temporal workflows: ingestion of a memory, dream consolidation of     *)
(* episodes into rules, erasure of a user's data, and their activities.  The *)
(* engine runs an activity at least once: one that raised, or whose          *)
(* completion was lost, is run again.                                        *)
EXTENDS Naturals, Sequences, FiniteSets

CONSTANTS
    Request,        \* ingestion requests, evidence with one idempotency key
    Learning,       \* the ones without a key
    Episode,
    Rule,
    Dream,          \* consolidation workflows
    MaxFaults       \* bound: lost completions and failing statements

ASSUME LearningRequests == Learning \subseteq Request

VARIABLES
    family,         \* the workflows a behaviour runs: ingestion or consolidation,
                    \* which share no rows; the erasure runs beside either
    ingest,         \* where each ingestion is
    rows,           \* memory rows written for each request
    reruns,         \* history: requests whose store activity ran again
    episode,        \* each episode: absent, searchable, hidden, erased
    rules,          \* rule rows: idempotency key (the source episodes) and text
    dream,          \* each consolidation: place, episodes, rules to store
    synthesized,    \* history: rules of the dreams that completed
    scrub,          \* place of the erasure workflow
    store,          \* the stores that still hold data of the user
    faults

workflowVars == <<family, ingest, rows, reruns, episode, rules, dream, synthesized, scrub,
                  store, faults>>

IngestAt == {"none", "embed", "store", "audit", "done"}
DreamAt == {"none", "fetch", "synthesize", "store", "mark", "audit", "completed", "skipped"}
ScrubAt == {"none", "kv", "vector", "graph", "completed"}

EpisodeState == {"absent", "searchable", "hidden", "erased"}
Consolidation == [at : DreamAt, episodes : SUBSET Episode, rules : Seq(Rule)]

NoDream == [at |-> "none", episodes |-> {}, rules |-> <<>>]

WorkflowTypeOK ==
    /\ family \in {"ingestion", "consolidation"}
    /\ ingest \in [Request -> IngestAt]
    /\ rows \in [Request -> Nat]
    /\ reruns \subseteq Request
    /\ episode \in [Episode -> EpisodeState]
    /\ rules \subseteq [key : SUBSET Episode, text : Rule]
    /\ dream \in [Dream -> Consolidation]
    /\ scrub \in ScrubAt /\ store \subseteq {"kv", "vector", "graph"}
    /\ faults \in 0 .. MaxFaults

WorkflowInit ==
    /\ family \in {"ingestion", "consolidation"}
    /\ ingest = [r \in Request |-> "none"] /\ rows = [r \in Request |-> 0] /\ reruns = {}
    /\ episode = [e \in Episode |-> "absent"] /\ rules = {}
    /\ dream = [d \in Dream |-> NoDream] /\ synthesized = {}
    /\ scrub = "none" /\ store = {"kv", "vector", "graph"}
    /\ faults = 0

Fault == faults < MaxFaults /\ faults' = faults + 1

\* create_memory_async starts the workflow; a start that fails is answered 503.
StartIngest(r) ==
    /\ family = "ingestion" /\ ingest[r] = "none"
    /\ ingest' = [ingest EXCEPT ![r] = "embed"]
    /\ UNCHANGED <<family, rows, reruns, episode, rules, dream, synthesized, scrub, store, faults>>

\* generate_embedding: a vector or none, and nothing stored.
GenerateEmbedding(r) ==
    /\ ingest[r] = "embed"
    /\ ingest' = [ingest EXCEPT ![r] = "store"]
    /\ UNCHANGED <<family, rows, reruns, episode, rules, dream, synthesized, scrub, store, faults>>

Evidence == Request \ Learning

\* Mutant: an evidence write is not looked up before the insert.
HasRowNever(r) == FALSE

\* The row of the idempotency key, which all evidence requests here share.
HasRow(r) == r \in Evidence /\ \E q \in Evidence : rows[q] > 0

\* store_memory: a replay or a conflict answers with the row of the key; the
\* unique index refuses a second one.  A completion that is lost runs the
\* activity again.
StoreMemory(r) ==
    /\ ingest[r] = "store"
    /\ \/ HasRow(r) /\ UNCHANGED rows
       \/ ~HasRow(r) /\ rows' = [rows EXCEPT ![r] = @ + 1]
    /\ \/ ingest' = [ingest EXCEPT ![r] = "audit"] /\ UNCHANGED <<reruns, faults>>
       \/ Fault /\ reruns' = reruns \cup {r} /\ UNCHANGED ingest
    /\ UNCHANGED <<family, episode, rules, dream, synthesized, scrub, store>>

LogAudit(r) ==
    /\ ingest[r] = "audit"
    /\ ingest' = [ingest EXCEPT ![r] = "done"]
    /\ UNCHANGED <<family, rows, reruns, episode, rules, dream, synthesized, scrub, store, faults>>

\* An episode is remembered by some agent.
NewEpisode(e) ==
    /\ family = "consolidation" /\ episode[e] = "absent"
    /\ episode' = [episode EXCEPT ![e] = "searchable"]
    /\ UNCHANGED <<family, ingest, rows, reruns, rules, dream, synthesized, scrub, store, faults>>

DreamGoes(d, to) == dream' = [dream EXCEPT ![d].at = to]

\* fetch_recent_episodes; a failed query is answered with no episodes, and
\* fewer than two are skipped.
FetchEpisodes(d) ==
    LET found == {e \in Episode : episode[e] = "searchable"}
    IN  /\ family = "consolidation" /\ dream[d].at = "none"
        /\ \/ /\ Cardinality(found) >= 2
              /\ dream' = [dream EXCEPT ![d] = [@ EXCEPT !.at = "synthesize", !.episodes = found]]
              /\ UNCHANGED faults
           \/ Cardinality(found) < 2 /\ DreamGoes(d, "skipped") /\ UNCHANGED faults
           \/ Fault /\ DreamGoes(d, "skipped")
        /\ UNCHANGED <<family, ingest, rows, reruns, episode, rules, synthesized, scrub, store>>

\* synthesize_dream_rules: rules, or none.
SynthesizeRules(d) ==
    /\ dream[d].at = "synthesize"
    /\ \/ DreamGoes(d, "skipped")
       \/ \E r, s \in Rule : dream' = [dream EXCEPT ![d].at = "store",
                                ![d].rules = IF r = s THEN <<r>> ELSE <<r, s>>]
    /\ UNCHANGED <<family, ingest, rows, reruns, episode, rules, synthesized, scrub, store, faults>>

\* Mutant: the row is inserted whether or not the key is taken.
UpsertAlways(key, text) == rules \cup {[key |-> key, text |-> text]}

\* The upsert of store_dream_rule: the key is the agent and the source
\* episodes, and a row with that key makes the insert do nothing.
Upsert(key, text) ==
    IF \E r \in rules : r.key = key THEN rules
    ELSE rules \cup {[key |-> key, text |-> text]}

\* store_dream_rule for the next rule; it may have run before the engine knows.
StoreDreamRule(d) ==
    /\ dream[d].at = "store"
    /\ rules' = Upsert(dream[d].episodes, Head(dream[d].rules))
    /\ \/ /\ dream' = [dream EXCEPT ![d].rules = Tail(@),
                           ![d].at = IF Len(dream[d].rules) = 1 THEN "mark" ELSE "store"]
          /\ synthesized' = synthesized \cup {[key |-> dream[d].episodes,
                                               text |-> Head(dream[d].rules)]}
          /\ UNCHANGED faults
       \/ Fault /\ UNCHANGED <<dream, synthesized>>
    /\ UNCHANGED <<family, ingest, rows, reruns, episode, scrub, store>>

\* The update of the rows with the ids of the fetched episodes, those that are
\* still there.
Hidden(episodes) ==
    [e \in Episode |-> IF e \in episodes /\ episode[e] # "erased"
                       THEN "hidden" ELSE episode[e]]

\* Mutant: the episodes are hidden as soon as they are fetched.
MarkConsolidatedAny(d) ==
    /\ dream[d].at \in {"synthesize", "store", "mark"}
    /\ episode' = Hidden(dream[d].episodes)
    /\ dream' = [dream EXCEPT ![d].at = IF @ = "mark" THEN "audit" ELSE @]
    /\ UNCHANGED <<family, ingest, rows, reruns, rules, synthesized, scrub, store, faults>>

\* mark_episodes_consolidated; a failed update is logged and not run again.
MarkConsolidated(d) ==
    /\ dream[d].at = "mark"
    /\ \/ episode' = Hidden(dream[d].episodes) /\ UNCHANGED faults
       \/ Fault /\ UNCHANGED episode
    /\ DreamGoes(d, "audit")
    /\ UNCHANGED <<family, ingest, rows, reruns, rules, synthesized, scrub, store>>

DreamAudit(d) ==
    /\ dream[d].at = "audit"
    /\ DreamGoes(d, "completed")
    /\ UNCHANGED <<family, ingest, rows, reruns, episode, rules, synthesized, scrub, store, faults>>

\* GDPRScrubWorkflow: one activity per store; each answers False or 0 when it
\* fails, so the engine has nothing to run again.  The memories of the user,
\* rules and episodes among them, are deleted with the vector store.
ScrubNext == [none |-> "kv", kv |-> "vector", vector |-> "graph", graph |-> "completed"]

\* The rows there are when the memories are deleted; later ones stay.
Erased == [e \in Episode |-> IF episode[e] = "absent" THEN "absent" ELSE "erased"]

Scrub ==
    /\ scrub # "completed"
    /\ scrub' = ScrubNext[scrub]
    /\ \/ /\ store' = store \ {scrub}
          /\ IF scrub = "vector"
             THEN /\ rules' = {} /\ episode' = Erased
                  /\ rows' = [r \in Request |-> 0]
             ELSE UNCHANGED <<rules, episode, rows>>
          /\ UNCHANGED faults
       \/ Fault /\ scrub # "none" /\ UNCHANGED <<store, rules, episode, rows>>
    /\ UNCHANGED <<family, ingest, reruns, dream, synthesized>>

IngestStep(r) == GenerateEmbedding(r) \/ StoreMemory(r) \/ LogAudit(r)

DreamStep(d) == SynthesizeRules(d) \/ StoreDreamRule(d) \/ MarkConsolidated(d) \/ DreamAudit(d)

WorkflowNext ==
    \/ \E r \in Request : StartIngest(r) \/ IngestStep(r)
    \/ \E e \in Episode : NewEpisode(e)
    \/ \E d \in Dream : FetchEpisodes(d) \/ DreamStep(d)
    \/ Scrub

WorkflowSpec == WorkflowInit /\ [][WorkflowNext]_workflowVars

----------------------------------------------------------------------------
\* No knowledge leaves the search: an episode that is no longer searchable has
\* a rule row derived from a set of episodes it belongs to, whatever was run
\* again or failed and wherever the erasure came between
\* (DreamConsolidationWorkflow).
HiddenHasRule ==
    \A e \in Episode : episode[e] = "hidden" => \E r \in rules : e \in r.key

\* At least once execution stores evidence once for its key, and consolidation
\* one row for its episodes; a request without a key has more rows than one
\* only if its activity ran again (store_memory, store_dream_rule).
StoredOnce ==
    /\ \A q, r \in Evidence : rows[q] + (IF q = r THEN 0 ELSE rows[r]) <= 1
    /\ \A q, r \in rules : q.key = r.key => q = r
    /\ \A r \in Learning : rows[r] > 1 => r \in reruns

\* What holds of the workflows whatever the engine runs again and whatever fails
\* (workflows.py, activities.py): a hidden episode has its rule, and a request
\* is stored once unless its activity ran again or carries no key.
WorkflowSafe == WorkflowTypeOK /\ HiddenHasRule /\ StoredOnce

-----------------------------------------------------------------------------
(* A claim of the code's comments that the code does not keep.              *)

\* "3. Store each rule as a high-salience semantic memory" (workflows.py): every
\* rule a completed consolidation synthesized is stored.
EveryRuleStored ==
    \A d \in Dream : dream[d].at = "completed" /\ scrub = "none" =>
        \A r \in synthesized : r.key = dream[d].episodes => r \in rules

=============================================================================
