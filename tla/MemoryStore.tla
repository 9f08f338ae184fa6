----------------------------- MODULE MemoryStore -----------------------------
(***************************************************************************)
(* The memories table and its supersedes links, under the endpoints of     *)
(* memu/api.py that write them: create_memory with its two ways to avoid   *)
(* duplicates (the idempotency key of evidence, the content of learning),  *)
(* bulk_import, delete_memory and dedupe_memories, and the inserts of the   *)
(* background writers, which leave content_hash NULL.                      *)
(*                                                                         *)
(* The tenant connection is in autocommit: every statement is one step,    *)
(* and the steps of concurrent requests interleave.  There is one tenant,  *)
(* the default one; the payload hash of evidence stands for its content.   *)
(***************************************************************************)
EXTENDS Integers, Sequences, FiniteSetsExt

CONSTANTS
    Handler,        \* requests that can be in progress at a time
    Content,        \* texts, no two of which have one content_hash
    Near,           \* pairs of contents whose similarity exceeds the threshold,
                    \* a symmetric relation
    Key,            \* idempotency keys
    MaxRequests,    \* bound: writing requests in all
    MaxFailed,      \* bound: requests that fail half-way
    NoKey, NoHash

VARIABLES
    stored,     \* the rows in the order of created_at; an id is a position
    supersedes, \* memory_links with relationship 'supersedes'
    request,    \* the request each handler works on
    acks,       \* history: the evidence writes with a key that were answered
    replaced,   \* history: what an answered write has superseded
    begun,      \* number of writing requests so far
    failed      \* number of requests that have failed half-way

history == <<acks, replaced>>
storeVars == <<stored, supersedes, request, acks, replaced, begun, failed>>

-----------------------------------------------------------------------------
Kind == {"evidence", "learning"}

\* "valid" is valid_to IS NULL; "raced" a history bit: the content was written
\* or deleted between the request and the INSERT.
StoredRow == [kind : Kind, content : Content, content_hash : Content \cup {NoHash},
        key : Key \cup {NoKey}, embedded : BOOLEAN, valid : BOOLEAN,
        raced : BOOLEAN]
Deleted == [kind |-> "deleted"]

ExistingRows == {i \in 1 .. Len(stored) : stored[i] # Deleted}

NoWork == [op |-> "idle"]

Searching == {"key", "dedup", "merge", "insert"}

WriteJob == [op : {"create", "bulk"}, kind : Kind, content : Content,
             phase : Searching \cup {"supersede", "link"},
             key : Key \cup {NoKey}, embedded : BOOLEAN, targets : SUBSET Nat,
             id : Nat, raced : BOOLEAN]

DedupeJob == [op : {"dedupe"}, phase : {"pick", "sources", "targets", "drop"},
              groups : SUBSET SUBSET Nat, ids : SUBSET Nat]

At(h, phase) == request[h] # NoWork /\ request[h].phase = phase

Goto(h, phase) == request' = [request EXCEPT ![h].phase = phase]
Finish(h) == request' = [request EXCEPT ![h] = NoWork]

\* The jobs after contents cs were written or deleted: the requests about
\* one of them have been overtaken.
Overtaken(cs) ==
    [g \in Handler |->
        IF /\ request[g] # NoWork /\ request[g].phase \in Searching
           /\ request[g].content \in cs
        THEN [request[g] EXCEPT !.raced = TRUE] ELSE request[g]]

\* The response of create_memory: memory id was stored, or found.
Answered(h, id) ==
    acks' = IF request[h].kind = "evidence" /\ request[h].key # NoKey
            THEN acks \cup {[key |-> request[h].key, content |-> request[h].content,
                             id |-> id]}
            ELSE acks

\* The memory is in the table: on to what it supersedes, other than itself, or
\* to the response.
Stored(h, id, jobs) ==
    LET targets == request[h].targets \ {id}
    IN IF targets = {}
       THEN /\ request' = [jobs EXCEPT ![h] = NoWork]
            /\ Answered(h, id) /\ UNCHANGED replaced
       ELSE /\ request' = [jobs EXCEPT ![h] =
                         [request[h] EXCEPT !.phase = "supersede", !.id = id,
                            !.targets = targets, !.raced = FALSE,
                            !.embedded = FALSE]]
            /\ UNCHANGED history

StoreInit ==
    /\ stored = <<>>
    /\ supersedes = {}
    /\ request = [h \in Handler |-> NoWork]
    /\ acks = {} /\ replaced = {}
    /\ begun = 0 /\ failed = 0

-----------------------------------------------------------------------------
(* create_memory                                                            *)

Begin(h, write) ==
    /\ request[h] = NoWork /\ begun < MaxRequests
    /\ begun' = begun + 1
    /\ request' = [request EXCEPT ![h] = write]
    /\ UNCHANGED <<stored, supersedes, history, failed>>

\* The request up to the connection: the embedding service may be down.
CreateMemory(h, kind, c, key, targets) ==
    \E embedded \in BOOLEAN :
        Begin(h, [op |-> "create", kind |-> kind, content |-> c, key |-> key,
                  embedded |-> embedded, targets |-> targets, id |-> 0,
                  raced |-> FALSE,
                  phase |-> IF kind = "learning" THEN "dedup"
                            ELSE IF key # NoKey THEN "key" ELSE "insert"])

WithKey(key) == {i \in ExistingRows : key # NoKey /\ stored[i].key = key}

\* canonical_payload_hash is NULL in learning rows.
SameHash(row, c) == row.kind = "evidence" /\ row.content = c

\* Evidence: SELECT by (tenant_id, idempotency_key): a replay, a conflict
\* (409), or a row to be written.
CheckKey(h) ==
    /\ At(h, "key")
    /\ \/ /\ WithKey(request[h].key) = {}
          /\ Goto(h, "insert")
          /\ UNCHANGED history
       \/ \E i \in WithKey(request[h].key) :
             IF SameHash(stored[i], request[h].content)
             THEN Finish(h) /\ Answered(h, i) /\ UNCHANGED replaced
             ELSE Finish(h) /\ UNCHANGED history
    /\ UNCHANGED <<stored, supersedes, begun, failed>>

\* Mutant: only the vector is compared.
DuplicatesVectorOnly(c, embedded) ==
    {i \in ExistingRows : embedded /\ stored[i].embedded
                      /\ stored[i].content_hash = c}

\* The rows that the dedup SELECT matches.
Duplicates(c, embedded) ==
    {i \in ExistingRows :
        \/ stored[i].content_hash = c
        \/ /\ embedded /\ stored[i].embedded
           /\ stored[i].content = c \/ <<stored[i].content, c>> \in Near}

\* Learning: SELECT ... ORDER BY similarity DESC.  A row without an embedding
\* has similarity NULL, comes first, and should_deduplicate fails on it.
Dedup(h) ==
    /\ At(h, "dedup") /\ request[h].op = "create"
    /\ LET c == request[h].content
           found == Duplicates(c, request[h].embedded)
           same == {i \in found : stored[i].content = c}
       IN \/ /\ found = {}
             /\ Goto(h, "insert")
          \/ /\ request[h].embedded /\ \E i \in found : ~stored[i].embedded
             /\ Finish(h)
          \/ /\ request[h].embedded => \A i \in found : stored[i].embedded
             /\ \E i \in IF same # {} THEN same ELSE found :
                   request' = [request EXCEPT ![h].phase = "merge", ![h].id = i]
    /\ UNCHANGED <<stored, supersedes, history, begun, failed>>

\* UPDATE ... WHERE id RETURNING *: no row means that it was deleted since,
\* and the memory is inserted after all.
Merge(h) ==
    /\ At(h, "merge")
    /\ \/ /\ request[h].id \in ExistingRows
          /\ Stored(h, request[h].id, request)
       \/ /\ request[h].id \notin ExistingRows
          /\ Goto(h, "insert")
          /\ UNCHANGED history
    /\ UNCHANGED <<stored, supersedes, begun, failed>>

\* Mutant: there is no unique index on (tenant_id, idempotency_key).
KeyTakenNever(key) == FALSE /\ key \in Key

KeyTaken(key) == WithKey(key) # {}

Insert(h) ==
    /\ At(h, "insert")
    /\ LET j == request[h]
       IN \/ /\ ~KeyTaken(j.key)
             /\ stored' = Append(stored,
                   [kind |-> j.kind, content |-> j.content,
                    content_hash |-> j.content, key |-> j.key,
                    embedded |-> j.embedded, valid |-> TRUE,
                    raced |-> j.raced])
             /\ Stored(h, Len(stored) + 1, Overtaken({j.content}))
          \/ /\ KeyTaken(j.key)
             /\ Finish(h)
             /\ UNCHANGED <<stored, history>>
    /\ UNCHANGED <<supersedes, begun, failed>>

\* Mutant: the UPDATE of the superseded rows is lost.
InvalidateRowsNot(ids) == stored' = stored /\ ids \subseteq Nat

InvalidateRows(ids) ==
    stored' = [i \in 1 .. Len(stored) |->
                    IF i \in ids \cap ExistingRows
                    THEN [stored[i] EXCEPT !.valid = FALSE]
                    ELSE stored[i]]

\* _apply_superseding_operations: the UPDATE ...
Supersede(h) ==
    /\ At(h, "supersede")
    /\ InvalidateRows(request[h].targets)
    /\ Goto(h, "link")
    /\ UNCHANGED <<supersedes, history, begun, failed>>

\* ... and the INSERT of the links, which the foreign keys refuse if one of
\* the memories has been deleted.
Link(h) ==
    /\ At(h, "link")
    /\ LET targets == request[h].targets
           ids == targets \cup {request[h].id}
       IN \/ /\ ids \subseteq ExistingRows
             /\ supersedes' = supersedes \cup {<<request[h].id, t>> : t \in targets}
             /\ Answered(h, request[h].id)
             /\ replaced' = replaced \cup targets
          \/ /\ ~(ids \subseteq ExistingRows)
             /\ UNCHANGED <<supersedes, history>>
    /\ Finish(h)
    /\ UNCHANGED <<stored, begun, failed>>

-----------------------------------------------------------------------------
(* The other writers                                                        *)

\* bulk_import, for each chunk: skip a known content_hash, else insert.
BulkImport(h, c) ==
    \E embedded \in BOOLEAN :
        Begin(h, [op |-> "bulk", kind |-> "learning", content |-> c,
                  key |-> NoKey, embedded |-> embedded, targets |-> {},
                  id |-> 0, raced |-> FALSE, phase |-> "dedup"])

BulkDedup(h) ==
    /\ At(h, "dedup") /\ request[h].op = "bulk"
    /\ IF \E i \in ExistingRows : stored[i].content_hash = request[h].content
       THEN Finish(h) ELSE Goto(h, "insert")
    /\ UNCHANGED <<stored, supersedes, history, begun, failed>>

\* The archival pager inserts without looking, and without a content_hash.
ArchivePage(c) ==
    /\ begun < MaxRequests
    /\ begun' = begun + 1
    /\ \E embedded \in BOOLEAN :
          stored' = Append(stored,
              [kind |-> "learning", content |-> c, content_hash |-> NoHash,
               key |-> NoKey, embedded |-> embedded, valid |-> TRUE,
               raced |-> FALSE])
    /\ request' = Overtaken({c})
    /\ UNCHANGED <<supersedes, history, failed>>

\* DELETE of rows; ON DELETE CASCADE takes their links along.
Drop(ids) ==
    /\ stored' = [i \in 1 .. Len(stored) |->
                       IF i \in ids THEN Deleted ELSE stored[i]]
    /\ supersedes' = {l \in supersedes : l[1] \notin ids /\ l[2] \notin ids}

DeleteMemory(i) ==
    /\ i \in ExistingRows
    /\ Drop({i})
    /\ request' = Overtaken({stored[i].content})
    /\ UNCHANGED <<history, begun, failed>>

-----------------------------------------------------------------------------
(* dedupe_memories                                                          *)

\* GROUP BY content_hash HAVING count > 1; rows without a hash are one group.
DedupeGroups ==
    {ids \in {{i \in ExistingRows : stored[i].content_hash = c} :
                 c \in Content \cup {NoHash}} : Cardinality(ids) > 1}

Dedupe(h) ==
    Begin(h, [op |-> "dedupe", phase |-> "pick", groups |-> DedupeGroups,
              ids |-> {}])

\* The next group: the access counts are summed up in its oldest memory.
DedupePick(h) ==
    /\ At(h, "pick")
    /\ IF request[h].groups = {} THEN Finish(h)
       ELSE \E ids \in request[h].groups :
               request' = [request EXCEPT ![h].phase = "sources", ![h].ids = ids,
                                  ![h].groups = @ \ {ids}]
    /\ UNCHANGED <<stored, supersedes, history, begun, failed>>

\* Relinking fails on the foreign key, on the CHECK against self-links and on
\* the unique constraint of memory_links.
Relinked(l, ids, end) ==
    IF l[end] \in ids THEN [l EXCEPT ![end] = Min(ids)] ELSE l

RelinkFails(ids, end) ==
    LET moved == {l \in supersedes : l[end] \in ids \ {Min(ids)}}
    IN \/ moved # {} /\ Min(ids) \notin ExistingRows
       \/ \E l \in moved : Relinked(l, ids, end)[1] = Relinked(l, ids, end)[2]
       \/ \E l \in moved, k \in supersedes :
             k # l /\ Relinked(l, ids, end) = Relinked(k, ids, end)

Relink(h, from, end, to) ==
    /\ At(h, from)
    /\ IF RelinkFails(request[h].ids, end)
       THEN Finish(h) /\ UNCHANGED supersedes
       ELSE /\ supersedes' = {Relinked(l, request[h].ids, end) : l \in supersedes}
            /\ Goto(h, to)
    /\ UNCHANGED <<stored, history, begun, failed>>

DedupeDrop(h) ==
    /\ At(h, "drop")
    /\ LET redundant == request[h].ids \ {Min(request[h].ids)}
       IN /\ Drop(redundant)
          /\ request' = [Overtaken({stored[i].content :
                                  i \in redundant \cap ExistingRows})
                        EXCEPT ![h].phase = "pick"]
    /\ UNCHANGED <<history, begun, failed>>

\* A statement fails (connection lost, process stopped): the request ends, and
\* what it has committed stays.
FailRequest(h) ==
    /\ request[h] # NoWork /\ failed < MaxFailed
    /\ failed' = failed + 1
    /\ Finish(h)
    /\ UNCHANGED <<stored, supersedes, history, begun>>

-----------------------------------------------------------------------------
Targets == {{}} \cup {{i} : i \in 1 .. Len(stored)}

StoreNext ==
    \/ \E h \in Handler :
          \/ \E kind \in Kind, c \in Content, key \in Key \cup {NoKey},
                targets \in Targets : CreateMemory(h, kind, c, key, targets)
          \/ CheckKey(h) \/ Dedup(h) \/ Merge(h) \/ Insert(h) \/ Supersede(h)
          \/ Link(h)
          \/ \E c \in Content : BulkImport(h, c)
          \/ BulkDedup(h)
          \/ Dedupe(h) \/ DedupePick(h) \/ DedupeDrop(h)
          \/ Relink(h, "sources", 1, "targets")
          \/ Relink(h, "targets", 2, "drop")
          \/ FailRequest(h)
    \/ \E c \in Content : ArchivePage(c)
    \/ \E i \in 1 .. Len(stored) : DeleteMemory(i)

StoreSpec == StoreInit /\ [][StoreNext]_storeVars

-----------------------------------------------------------------------------
(* Properties                                                               *)

\* Rows and requests have their shape, and memory_links keeps its foreign
\* keys and its CHECK against self-links while dedupe relinks and deletes.
StoreTypeOK ==
    /\ \A i \in 1 .. Len(stored) : stored[i] \in StoredRow \cup {Deleted}
    /\ \A h \in Handler : request[h] # NoWork => request[h] \in WriteJob \cup DedupeJob
    /\ \A l \in supersedes : l[1] # l[2] /\ {l[1], l[2]} \subseteq ExistingRows

\* "An exact replay returns the original memory ID" (PRD): all evidence writes
\* with one key that were answered name the same memory, of the content they
\* sent, unless that memory has been deleted; whatever overlaps and fails.
ReplaySafe ==
    \A a, b \in acks :
        a.key = b.key /\ {a.id, b.id} \subseteq ExistingRows
        => a.id = b.id /\ stored[a.id].content = a.content

\* Learning memories with the same content are merged (create_memory, "content-
\* hash / vector dedup"): two rows of one content_hash exist only if requests
\* about that content overlapped, or one of them is evidence.
MergedUnlessRaced ==
    \A i, j \in ExistingRows :
        /\ i < j
        /\ stored[i].content_hash = stored[j].content_hash
        /\ stored[i].content_hash # NoHash
        /\ stored[j].kind = "learning"
        => stored[j].raced

\* A write that was answered, and not as a replay, has taken what it
\* supersedes out of the current memories for good, although other requests
\* merge, relink and delete in the meantime.
AnsweredSupersedes ==
    \A t \in replaced \cap ExistingRows : ~stored[t].valid

\* What the table and its links are in every state: the four above.
StoreSafe == StoreTypeOK /\ ReplaySafe /\ MergedUnlessRaced /\ AnsweredSupersedes

-----------------------------------------------------------------------------
(* A claim of the code that the code does not keep                          *)

\* "Find and merge identical memories by content_hash" (dedupe_memories): of
\* the memories of one content that dedupe drops, one is kept.
DedupeKeepsContent ==
    [][\A h \in Handler, i \in ExistingRows :
          At(h, "drop") /\ DedupeDrop(h) =>
             \E j \in ExistingRows : /\ stored[j].content = stored[i].content
                                     /\ stored'[j] # Deleted]_storeVars

=============================================================================
