------------------------------ MODULE MemoryAgent ------------------------------
(* The idle-time memory agent: runs that cluster similar memories and store  *)
(* a compaction of each cluster, index concepts, and distil the compactions  *)
(* into a second level.  Memories are numbered by falling decay score.       *)
EXTENDS Integers, FiniteSets

CONSTANTS
    N,              \* memories, 1 .. N
    Similar,        \* pairs whose similarity reaches the threshold
    MinCluster,     \* MIN_CLUSTER_SIZE
    MaxCluster,     \* MAX_CLUSTER_SIZE
    Run             \* runs of the daemon and of the command line

Memory == 1 .. N

VARIABLES
    present,        \* memories stored and valid
    compactions,    \* level 1: number and source memories
    distilled,      \* level 2: source compactions
    indexed,        \* memories in the concept index
    record,         \* memory_agent_runs: status of each run
    recent,         \* runs whose start is less than 30 minutes old
    at,             \* place of each run
    todo,           \* the clusters it has still to store
    overlap         \* history: pairs of runs that were under way together

agentVars == <<present, compactions, distilled, indexed, record, recent, at, todo, overlap>>

Place == {"waiting", "checked", "load", "compact", "index", "group", "distil", "finish",
          "skipped", "done", "dead"}

AgentTypeOK ==
    /\ present \subseteq Memory /\ indexed \subseteq Memory
    /\ \A c \in compactions : c.sources \subseteq Memory /\ c.by \in Run
    /\ \A c \in distilled : c.sources \subseteq compactions
    /\ record \in [Run -> {"none", "running", "done"}]
    /\ recent \subseteq Run
    /\ at \in [Run -> Place]

AgentInit ==
    /\ present = {} /\ compactions = {} /\ distilled = {} /\ indexed = {}
    /\ record = [r \in Run |-> "none"] /\ recent = {}
    /\ at = [r \in Run |-> "waiting"] /\ todo = [r \in Run |-> {}]
    /\ overlap = {}

\* Mutant: a candidate of an earlier cluster is taken again.
TakenNever(clusters) == {}

\* The memories that have been put in a cluster, also in one too small to keep.
Taken(clusters) == UNION clusters

\* The memories a centroid finds: the first similar ones that are not taken, up
\* to the maximal size of the cluster.
FirstSimilar(centroid, ms, taken) ==
    LET similar == {m \in ms \ (taken \cup {centroid}) : <<centroid, m>> \in Similar}
    IN  {m \in similar : Cardinality({k \in similar : k < m}) < MaxCluster - 1}

\* A memory that is not in a cluster yet becomes the centroid of one.
WithCentroid(i, ms, clusters) ==
    IF i \notin ms \/ i \in Taken(clusters) THEN clusters
    ELSE clusters \cup {{i} \cup FirstSimilar(i, ms, Taken(clusters))}

\* The clusters after the memories 1 .. i have had their turn.
ClustersUpTo(ms) ==
    LET upTo[i \in 0 .. N] == IF i = 0 THEN {} ELSE WithCentroid(i, ms, upTo[i - 1])
    IN  upTo

\* cluster_by_similarity: the small clusters are dropped at the end.
ClusterBySimilarity(ms) == {c \in ClustersUpTo(ms)[N] : Cardinality(c) >= MinCluster}

\* Memories are numbered in the order they are stored.
NewMemory(m) ==
    /\ m \notin present /\ 1 .. m - 1 \subseteq present
    /\ present' = present \cup {m}
    /\ UNCHANGED <<compactions, distilled, indexed, record, recent, at, todo, overlap>>

Underway == {r \in Run : at[r] \notin {"waiting", "checked", "skipped", "done", "dead"}}

\* full_run asks is_run_in_progress; a run of the last 30 minutes that is still
\* 'running' makes it skip.
CheckProgress(r) ==
    /\ at[r] = "waiting"
    /\ at' = [at EXCEPT ![r] = IF \E q \in recent : record[q] = "running"
                               THEN "skipped" ELSE "checked"]
    /\ UNCHANGED <<present, compactions, distilled, indexed, record, recent, todo, overlap>>

\* start_run records the run; the command line's single phases start without
\* the check, and a failed insert is only logged.
StartRun(r, recorded) ==
    /\ at[r] \in {"waiting", "checked"}
    /\ record' = [record EXCEPT ![r] = IF recorded THEN "running" ELSE "none"]
    /\ recent' = recent \cup {r}
    /\ at' = [at EXCEPT ![r] = "load"]
    /\ overlap' = overlap \cup {{r, q} : q \in Underway}
    /\ UNCHANGED <<present, compactions, distilled, indexed, todo>>

\* Mutant: memories that have a compaction are loaded again.
UncompactedAll == present

\* The memories no level 1 compaction has for a source.
Uncompacted == {m \in present : \A c \in compactions : m \notin c.sources}

LoadAndCluster(r) ==
    /\ at[r] = "load"
    /\ todo' = [todo EXCEPT ![r] = ClusterBySimilarity(Uncompacted)]
    /\ at' = [at EXCEPT ![r] = "compact"]
    /\ UNCHANGED <<present, compactions, distilled, indexed, record, recent, overlap>>

\* A cluster is summarised and stored; without a summary, or when the insert
\* fails, it is left for a later run.
Compact(r) ==
    /\ at[r] = "compact"
    /\ \/ /\ todo[r] = {}
          /\ at' = [at EXCEPT ![r] = "index"]
          /\ UNCHANGED <<compactions, todo>>
       \/ \E c \in todo[r] :
            /\ todo' = [todo EXCEPT ![r] = @ \ {c}]
            /\ \/ compactions' = compactions \cup {[sources |-> c, by |-> r]}
               \/ UNCHANGED compactions
            /\ UNCHANGED at
    /\ UNCHANGED <<present, distilled, indexed, record, recent, overlap>>

\* run_concept_indexing: the memories not in the index, or none of them when
\* the model extracts no concepts.
IndexConcepts(r) ==
    /\ at[r] = "index"
    /\ indexed' \in {indexed, indexed \cup present}
    /\ at' = [at EXCEPT ![r] = "group"]
    /\ UNCHANGED <<present, compactions, distilled, record, recent, todo, overlap>>

\* run_distillation: the level 1 compactions no level 2 has for a source, if
\* there are enough; those a similarity groups become a candidate cluster.
GroupCompactions(r) ==
    LET open == {c \in compactions : \A d \in distilled : c \notin d.sources}
    IN  /\ at[r] = "group"
        /\ IF Cardinality(open) < MinCluster
           THEN at' = [at EXCEPT ![r] = "finish"] /\ UNCHANGED todo
           ELSE \E g \in SUBSET open :
                  /\ Cardinality(g) \in {0} \cup 2 .. MaxCluster
                  /\ todo' = [todo EXCEPT ![r] = IF g = {} THEN {} ELSE {g}]
                  /\ at' = [at EXCEPT ![r] = "distil"]
        /\ UNCHANGED <<present, compactions, distilled, indexed, record, recent, overlap>>

Distil(r) ==
    /\ at[r] = "distil"
    /\ \/ distilled' = distilled \cup {[sources |-> g, by |-> r] : g \in todo[r]}
       \/ UNCHANGED distilled
    /\ todo' = [todo EXCEPT ![r] = {}]
    /\ at' = [at EXCEPT ![r] = "finish"]
    /\ UNCHANGED <<present, compactions, indexed, record, recent, overlap>>

\* finish_run, in the finally clause; its update may fail.
FinishRun(r) ==
    /\ at[r] = "finish"
    /\ \/ record' = [record EXCEPT ![r] = IF @ = "running" THEN "done" ELSE @]
       \/ UNCHANGED record
    /\ at' = [at EXCEPT ![r] = "done"]
    /\ UNCHANGED <<present, compactions, distilled, indexed, recent, todo, overlap>>

\* The process dies and leaves its record 'running'.
Die(r) ==
    /\ r \in Underway
    /\ at' = [at EXCEPT ![r] = "dead"]
    /\ todo' = [todo EXCEPT ![r] = {}]
    /\ UNCHANGED <<present, compactions, distilled, indexed, record, recent, overlap>>

\* 30 minutes pass after the start of a run.
Ages(r) ==
    /\ r \in recent
    /\ recent' = recent \ {r}
    /\ UNCHANGED <<present, compactions, distilled, indexed, record, at, todo, overlap>>

AgentNext ==
    \/ \E m \in Memory : NewMemory(m)
    \/ \E r \in Run :
         \/ CheckProgress(r) \/ LoadAndCluster(r) \/ Compact(r) \/ IndexConcepts(r)
         \/ GroupCompactions(r) \/ Distil(r) \/ FinishRun(r) \/ Die(r) \/ Ages(r)
         \/ \E recorded \in BOOLEAN : StartRun(r, recorded)

AgentSpec == AgentInit /\ [][AgentNext]_agentVars

----------------------------------------------------------------------------
\* A memory is the source of one compaction, and a compaction of one
\* distillation, unless two runs were under way together: the check for a run
\* in progress can miss one that has not been recorded yet, is older than 30
\* minutes or was started from the command line (run_compaction,
\* run_distillation and is_run_in_progress).
CompactedOnce ==
    /\ \A c, d \in compactions :
         c # d /\ c.sources \cap d.sources # {} => {c.by, d.by} \in overlap
    /\ \A c, d \in distilled :
         c # d /\ c.sources \cap d.sources # {} => {c.by, d.by} \in overlap

\* Every compaction is of memories similar to one of them, and of an admitted
\* size; the centroid is the best of them (cluster_by_similarity).
ClustersCohere ==
    \A c \in compactions :
        /\ Cardinality(c.sources) \in MinCluster .. MaxCluster
        /\ \E m \in c.sources : \A k \in c.sources \ {m} : m < k /\ <<m, k>> \in Similar

\* Every safety property of the agent.
AgentSafe == AgentTypeOK /\ CompactedOnce /\ ClustersCohere

=============================================================================
