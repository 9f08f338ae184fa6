------------------------------- MODULE Recall -------------------------------
(***************************************************************************)
(* What memu/api.py answers from the memories table while it is written:   *)
(* search_memories, learning_recall, the paged forensic_recall, and        *)
(* point_in_time_query over the validity interval of each row.             *)
(*                                                                         *)
(* Rows are stamped with the start of the statement or transaction that    *)
(* writes them and seen when it commits, up to MaxLag later.  A new memory *)
(* that supersedes others is inserted first; the others are invalidated    *)
(* and linked by later statements, which a failure may leave out           *)
(* (MemoryStore has those steps in detail).  supersede_entity does the     *)
(* same for two existing rows in one transaction.                          *)
(*                                                                         *)
(* The columns metadata are jsonb.  The pool of api.py sets no codec, so   *)
(* the driver hands them out as text: the tests by isinstance(.., dict)    *)
(* skip them, and the dict supersede_entity passes is refused.  A pool     *)
(* whose driver converts them (decodes) is covered too.                    *)
(*                                                                         *)
(* A query matches every text; how near a row is to it and what it scores  *)
(* are given orders.  The filters by agent, type, confidence, time and     *)
(* role narrow the table first and are left out; access counts only feed   *)
(* the score.                                                              *)
(***************************************************************************)
EXTENDS Integers, Sequences, FiniteSets, SequencesExt, FiniteSetsExt

CONSTANTS
    N,          \* memories 1 .. N, in the order of their ids
    Nearness,   \* the order of embedding <=> query, ties as the database has them
    Score,      \* the order of final_score
    Client,     \* requests to supersede_entity
    PageLimit,  \* limit of forensic_recall
    Requests,   \* [limit, minResults, lexical] of the searches, with the order
                \* in which updated_at has the rows
    MaxClock,   \* bound on the clock
    MaxDeletes, \* bound on deleted memories
    MaxLag,     \* bound on the time from a stamp to its commit
    Shapes,     \* what may be inserted as each memory, names in Shape
    Absent, Gone, NotYet

VARIABLES
    decodes,    \* the driver converts jsonb
    rows,       \* table memories: [MemoryId -> row, Absent or, deleted, Gone]
    links,      \* memory_links 'supersedes': set of <<new, old>>
    now,
    unapplied,  \* memories whose superseding statements are still to run:
                \* [MemoryId -> {"done", "update", "link"}]
    tx,         \* [Client -> its transaction in supersede_entity]
    pager,      \* a client that pages through forensic_recall
    was,        \* history: the rows current when the clock left each time
    rewritten,  \* history: times a later commit was stamped at or before
    crossed     \* history: a memory that was superseded by then superseded
                \* another

recallVars == <<decodes, rows, links, now, unapplied, tx, pager, was, rewritten,
                crossed>>

MemoryId == 1 .. N
RecallRow == [kind : {"learning", "evidence"}, reviewed : BOOLEAN, embedded : BOOLEAN,
              replaces : SUBSET MemoryId, created : Nat, to : Nat \cup {NotYet}]

\* An order of all memories, by the numbers it gives them.
Ranking == {f \in [MemoryId -> Nat] : IsInjective(f)}
SearchRequest == [limit : Nat, minResults : Int, lexical : BOOLEAN, updated : Ranking]

ASSUME RecallAssumption ==
    /\ N \in Nat /\ MaxLag \in Nat /\ MaxClock \in Nat /\ MaxLag <= MaxClock
    /\ PageLimit \in Nat \ {0}
    /\ Nearness \in Ranking /\ Score \in Ranking /\ Requests \subseteq SearchRequest
    /\ Absent # Gone /\ Absent \notin RecallRow /\ Gone \notin RecallRow
    /\ NotYet \notin Nat
    /\ Shapes \in [MemoryId -> SUBSET {"learned", "plain", "recorded", "accepted"}]

Present == {m \in MemoryId : rows[m] \notin {Absent, Gone}}
Valid == {m \in Present : rows[m].to = NotYet}
NoTx == [phase |-> "idle"]
Ended == [phase |-> "ended"]
NoCursor == <<-1, 0>>

\* A row of before the review queue, which its migration marked 'legacy'.
Legacy == [kind |-> "learning", reviewed |-> TRUE, embedded |-> TRUE, replaces |-> {},
           created |-> 0, to |-> NotYet]

RecallInit ==
    /\ decodes \in BOOLEAN
    /\ \E first \in {Absent, Legacy} :
         rows = [m \in MemoryId |-> IF m = 1 THEN first ELSE Absent]
    /\ links = {}
    /\ now = MaxLag
    /\ unapplied = [m \in MemoryId |-> "done"]
    /\ tx = [c \in Client |-> NoTx]
    /\ pager = [phase |-> "idle", cursor |-> NoCursor, got |-> <<>>, must |-> {}]
    /\ was = [t \in 0 .. MaxClock |-> IF t < now THEN Valid ELSE {}]
    /\ rewritten = {} /\ crossed = FALSE

ClockTicks ==
    /\ now < MaxClock
    /\ \A c \in Client :
          tx[c].phase \notin {"idle", "ended"} => now - tx[c].stamp < MaxLag
    /\ now' = now + 1
    /\ was' = [was EXCEPT ![now] = Valid]
    /\ UNCHANGED <<decodes, rows, links, unapplied, tx, pager, rewritten, crossed>>

\* A statement stamped t commits now: the times from t on were shown otherwise.
Stamps == now - MaxLag .. now
CommitsStamped(t) == rewritten' = rewritten \cup (t .. now - 1)

\* What create_memory inserts, with or without an embedding, and what an accepted
\* proposal of the review queue does (_write_accepted_learning_memory): only the
\* latter has a review_status, and it never has an embedding.
Shape ==
    [learned |-> [kind |-> "learning", reviewed |-> FALSE, embedded |-> TRUE],
     plain |-> [kind |-> "learning", reviewed |-> FALSE, embedded |-> FALSE],
     recorded |-> [kind |-> "evidence", reviewed |-> FALSE, embedded |-> FALSE],
     accepted |-> [kind |-> "learning", reviewed |-> TRUE, embedded |-> FALSE]]

NewRow(shape, olds, t) ==
    [kind |-> Shape[shape].kind, reviewed |-> Shape[shape].reviewed,
     embedded |-> Shape[shape].embedded, replaces |-> olds, created |-> t,
     to |-> NotYet]

InsertMemory(m, shape, olds) ==
    /\ rows[m] = Absent
    /\ \A k \in 1 .. m - 1 : rows[k] # Absent
    /\ \E t \in Stamps :
         /\ rows' = [rows EXCEPT ![m] = NewRow(shape, olds, t)]
         /\ CommitsStamped(t)
    /\ unapplied' = [unapplied EXCEPT ![m] = IF olds = {} THEN "done"
                                             ELSE "update"]
    /\ UNCHANGED <<decodes, links, now, tx, pager, was, crossed>>

Locked(ms) ==
    \E c \in Client : tx[c].phase \in {"updated", "checked"} /\ tx[c].old \in ms

\* Mutant: a row that was superseded before is stamped anew.
InvalidatedAnew(ms, t) == [m \in MemoryId |->
    IF m \in ms \cap Present THEN [rows[m] EXCEPT !.to = t] ELSE rows[m]]
\* valid_to of the rows that are still valid.
Invalidated(ms, t) == [m \in MemoryId |->
    IF m \in ms \cap Valid THEN [rows[m] EXCEPT !.to = t] ELSE rows[m]]

\* The UPDATE of _apply_superseding_operations.
ApplyUpdate(m) ==
    /\ unapplied[m] = "update" /\ m \in Present
    /\ ~Locked(rows[m].replaces)
    /\ rows' = Invalidated(rows[m].replaces, now)
    /\ crossed' = (crossed \/ m \notin Valid)
    /\ unapplied' = [unapplied EXCEPT ![m] = IF rows[m].reviewed THEN "done"
                                             ELSE "link"]
    /\ UNCHANGED <<decodes, links, now, tx, pager, was, rewritten>>

\* Its INSERT of the links, refused when a memory has been deleted.
ApplyLink(m) ==
    /\ unapplied[m] = "link" /\ m \in Present
    /\ unapplied' = [unapplied EXCEPT ![m] = "done"]
    /\ links' = IF rows[m].replaces \subseteq Present
                THEN links \cup ({m} \X rows[m].replaces) ELSE links
    /\ UNCHANGED <<decodes, rows, now, tx, pager, was, rewritten, crossed>>

\* supersede_entity: the transaction begins, with the time it will stamp.
SupersedeBegin(c, old, new) ==
    /\ tx[c].phase = "idle"
    /\ tx' = [tx EXCEPT ![c] = [phase |-> "begun", old |-> old, new |-> new,
                                stamp |-> now]]
    /\ UNCHANGED <<decodes, rows, links, now, unapplied, pager, was, rewritten,
                   crossed>>

\* The UPDATE waits for the row of the old memory and takes it; the transaction
\* is rolled back if that memory is not valid.
SupersedeUpdate(c) ==
    /\ tx[c].phase = "begun" /\ ~Locked({tx[c].old})
    /\ tx' = [tx EXCEPT ![c] = IF tx[c].old \in Valid
                               THEN [@ EXCEPT !.phase = "updated"] ELSE Ended]
    /\ UNCHANGED <<decodes, rows, links, now, unapplied, pager, was, rewritten,
                   crossed>>

\* The SELECT of the new memory sees this transaction's update and what others
\* committed; the transaction is rolled back if that memory is not valid.
SupersedeCheck(c) ==
    /\ tx[c].phase = "updated"
    /\ tx' = [tx EXCEPT ![c] = IF tx[c].new \in Valid \ {tx[c].old}
                               THEN [@ EXCEPT !.phase = "checked"] ELSE Ended]
    /\ UNCHANGED <<decodes, rows, links, now, unapplied, pager, was, rewritten,
                   crossed>>

\* Mutant: the new memory is no longer looked at.
SupersedeCommitUnchecked(c) ==
    /\ tx[c].phase \in {"updated", "checked"}
    /\ decodes /\ tx[c].new \in Present \ {tx[c].old}
    /\ rows' = Invalidated({tx[c].old}, tx[c].stamp)
    /\ links' = links \cup {<<tx[c].new, tx[c].old>>}
    /\ crossed' = (crossed \/ (tx[c].phase = "checked" /\ tx[c].new \notin Valid))
    /\ CommitsStamped(tx[c].stamp)
    /\ tx' = [tx EXCEPT ![c] = Ended]
    /\ UNCHANGED <<decodes, now, unapplied, pager, was>>
\* The INSERT of the link and the commit; the driver refuses a dict, and the
\* table a memory that has been deleted.
SupersedeCommit(c) ==
    /\ tx[c].phase = "checked"
    /\ IF decodes /\ tx[c].new \in Present
       THEN /\ rows' = Invalidated({tx[c].old}, tx[c].stamp)
            /\ links' = links \cup {<<tx[c].new, tx[c].old>>}
            /\ crossed' = (crossed \/ tx[c].new \notin Valid)
            /\ CommitsStamped(tx[c].stamp)
       ELSE UNCHANGED <<rows, links, crossed, rewritten>>
    /\ tx' = [tx EXCEPT ![c] = Ended]
    /\ UNCHANGED <<decodes, now, unapplied, pager, was>>

\* delete_memory: the row goes, with its links.
DeleteWithLinks(m) ==
    /\ m \in Present /\ ~Locked({m})
    /\ Cardinality({k \in MemoryId : rows[k] = Gone}) < MaxDeletes
    /\ rows' = [rows EXCEPT ![m] = Gone]
    /\ links' = {l \in links : m \notin {l[1], l[2]}}
    /\ unapplied' = [unapplied EXCEPT ![m] = "done"]
    /\ was' = [t \in DOMAIN was |-> was[t] \ {m}]
    /\ pager' = [pager EXCEPT !.must = @ \ {m}]
    /\ UNCHANGED <<decodes, now, tx, rewritten, crossed>>

-----------------------------------------------------------------------------
(* forensic_recall                                                          *)

Position(m) == <<rows[m].created, m>>
\* Mutant: the cursor is the time stamp only.
BeyondByTime(m, cursor) == rows[m].created > cursor[1]
\* Mutant: rows with the time stamp of the cursor come again.
BeyondAgain(m, cursor) == rows[m].created >= cursor[1]
\* Behind the cursor, by time stamp and id.
Beyond(m, cursor) ==
    \/ rows[m].created > cursor[1]
    \/ rows[m].created = cursor[1] /\ m > cursor[2]

Before(m, n) ==
    \/ rows[m].created < rows[n].created
    \/ rows[m].created = rows[n].created /\ m < n

Evidence == {m \in Valid : rows[m].kind = "evidence"}

\* The members of ms in an order, given as the pairs of which the first comes first:
\* the i-th is the one that i - 1 others precede.
Ordered(ms, order) ==
    [i \in 1 .. Cardinality(ms) |->
        CHOOSE m \in ms : Cardinality({k \in ms : <<k, m>> \in order}) = i - 1]
Take(s, n) == SubSeq(s, 1, Min({n, Len(s)}))

Earlier(ms) == {p \in ms \X ms : Before(p[1], p[2])}
Ascending(f) == {p \in MemoryId \X MemoryId : f[p[1]] < f[p[2]]}
Descending(f) == {p \in MemoryId \X MemoryId : f[p[1]] > f[p[2]]}

\* One page of forensic_recall: one row more than the limit is fetched to tell
\* whether there is a next page.
Page ==
    /\ pager.phase # "done"
    /\ LET rest == {m \in Evidence : Beyond(m, pager.cursor)}
           found == Take(Ordered(rest, Earlier(rest)), PageLimit + 1)
           page == Take(found, PageLimit)
           hasNext == Len(found) > PageLimit
       IN  pager' = [phase |-> IF hasNext THEN "paging" ELSE "done",
                     cursor |-> IF hasNext THEN Position(Last(page)) ELSE NoCursor,
                     got |-> pager.got \o page,
                     must |-> IF pager.phase = "idle" THEN Evidence ELSE pager.must]
    /\ UNCHANGED <<decodes, rows, links, now, unapplied, tx, was, rewritten, crossed>>

-----------------------------------------------------------------------------
(* search_memories, learning_recall, point_in_time_query                    *)

\* The limits a vector search tries in turn, with the default three steps.
ExpansionSchedule(base) ==
    LET n == Max({base, 1})
        cap == Min({400, 8 * n})
    IN  <<Min({n, cap}), Min({2 * n, cap}), Min({4 * n, cap})>>

Nearest(ms, n) == Take(Ordered(ms, Ascending(Nearness)), n)
\* ORDER BY updated_at: a trigger sets it at every UPDATE, the counting of an
\* access included, so that a search may meet the rows in any order.
Latest(ms, req) == Take(Ordered(ms, Descending(req.updated)), req.limit)
Best(ms, n) == Take(Ordered(ms, Descending(Score)), n)

MinResults(req) == Max({1, Min({req.limit, req.minResults})})

\* Mutant: no more candidates are fetched than the answer has room for.
VectorRowsLimited(ms, req) == ToSet(Nearest(ms, req.limit))
\* The first limit of the schedule that finds enough rows, or the last one.
VectorRows(ms, req) ==
    LET found == [i \in 1 .. 3 |-> Nearest(ms, ExpansionSchedule(req.limit * 2)[i])]
        enough == {i \in 1 .. 3 : Len(found[i]) >= MinResults(req)}
    IN  ToSet(found[IF enough = {} THEN 3 ELSE Min(enough)])

\* The vector search, with the rows a text search finds latest where it finds few.
FusedRows(ms, req) ==
    LET near == VectorRows({m \in ms : rows[m].embedded}, req)
        few == Cardinality(near) < MinResults(req)
    IN  IF req.lexical /\ few THEN near \cup ToSet(Latest(ms, req)) ELSE near

\* _filter_current_search_rows: what the metadata of another row supersedes is
\* left out, if the metadata can be read.
CollectInvalidated(ms) == UNION {rows[m].replaces : m \in ms}
\* Mutant: nothing is left out.
FilterCurrentNot(ms) == ms
FilterCurrent(ms) == IF decodes THEN ms \ CollectInvalidated(ms) ELSE ms

\* _rerank_lost_in_middle: the second fifth of the list goes to its end.
Rerank(s) ==
    LET n == Len(s)
        fifth == Max({1, n \div 5})
    IN  IF n <= 2 \/ 2 * fifth >= n THEN s
        ELSE SubSeq(s, 1, fifth) \o SubSeq(s, 2 * fifth + 1, n)
               \o SubSeq(s, fifth + 1, 2 * fifth)

\* search_memories, with an embedding of the query and without one.
SearchMemories(req) == Rerank(Best(FilterCurrent(FusedRows(Valid, req)), req.limit))
SearchText(req) == Best(ToSet(Latest(Valid, req)), req.limit)

\* learning_recall, with an embedding of the query and without one.
Learning == {m \in Valid : rows[m].kind = "learning" /\ rows[m].reviewed}
LearningRecall(req) == Best(FusedRows(Learning, req), req.limit)
LearningText(req) == Best(ToSet(Latest(Learning, req)), req.limit)

\* temporal_search_endpoint: thrice the limit by nearness, then by decayed score.
TemporalSearch(req) ==
    Best(ToSet(Nearest({m \in Valid : rows[m].embedded}, req.limit * 3)), req.limit)

\* 1 / (60 + rank), over the product of all 60 + rank.
Denominator ==
    LET product[n \in 0 .. N] == IF n = 0 THEN 1 ELSE product[n - 1] * (60 + n)
    IN  product[N]
\* Mutant: the weight is the rank itself.
WeightRank(rank) == 60 + rank
Weight(rank) == Denominator \div (60 + rank)

\* Rank of a memory in a list that has it.
RankIn(s, m) == CHOOSE i \in DOMAIN s : s[i] = m

\* The sum of its weights over the lists that have the memory.
RrfScore(lists, m) ==
    LET sum[i \in 0 .. Len(lists)] ==
            IF i = 0 THEN 0
            ELSE sum[i - 1] + (IF m \in ToSet(lists[i]) THEN Weight(RankIn(lists[i], m))
                               ELSE 0)
    IN  sum[Len(lists)]

\* The list a memory is first met in, and its rank there.
MetAt(lists, m) ==
    LET i == Min({k \in DOMAIN lists : m \in ToSet(lists[k])})
    IN  <<i, RankIn(lists[i], m)>>

\* rrf_fuse: by score, memories with one score stay in the order they were met.
RrfEntry(lists, m) ==
    [memory |-> m, score |-> RrfScore(lists, m), at |-> MetAt(lists, m)]
RrfBefore(x, y) ==
    \/ x.score > y.score
    \/ /\ x.score = y.score
       /\ x.at[1] < y.at[1] \/ (x.at[1] = y.at[1] /\ x.at[2] < y.at[2])
RrfFuse(lists) ==
    LET met == UNION {ToSet(lists[i]) : i \in DOMAIN lists}
        entries == {RrfEntry(lists, m) : m \in met}
        fused == Ordered(entries, {p \in entries \X entries : RrfBefore(p[1], p[2])})
    IN  [i \in DOMAIN fused |-> fused[i].memory]

\* The channels of hybrid_search, each of twice the limit; only the first asks
\* whether a memory is still valid.  The concept index lists all memories, in the
\* order they were indexed.
VectorChannel(req) == Nearest({m \in Valid : rows[m].embedded}, req.limit * 2)
FtsSearch(req) == Best(Present, req.limit * 2)
ConceptSearch(req) ==
    Take(Ordered(Present, Ascending([m \in MemoryId |-> m])), req.limit * 2)
Channels(req) == <<VectorChannel(req), FtsSearch(req), ConceptSearch(req)>>
HybridSearch(req) == Take(RrfFuse(Channels(req)), req.limit)

\* get_current_entities, and superseded_by of get_superseded_history.
CurrentEntities(limit) ==
    Take(Ordered(Valid, {p \in Valid \X Valid : Before(p[2], p[1])}), limit)
SupersededBy(m) == {n \in Present : <<n, m>> \in links}

\* Mutant: a row is still shown at the time it was superseded.
PointInTimeClosed(t) == {m \in Present :
                  rows[m].created <= t /\ (rows[m].to = NotYet \/ rows[m].to >= t)}
\* point_in_time_query.
PointInTime(t) == {m \in Present :
            rows[m].created <= t /\ (rows[m].to = NotYet \/ rows[m].to > t)}

RecallNext ==
    \/ ClockTicks
    \/ \E m \in MemoryId, ms \in SUBSET Present :
          \E shape \in Shapes[m] : InsertMemory(m, shape, ms)
    \/ \E m \in MemoryId : ApplyUpdate(m) \/ ApplyLink(m) \/ DeleteWithLinks(m)
    \/ \E c \in Client, old, new \in Present : SupersedeBegin(c, old, new)
    \/ \E c \in Client : SupersedeUpdate(c) \/ SupersedeCheck(c) \/ SupersedeCommit(c)
    \/ Page

RecallSpec == RecallInit /\ [][RecallNext]_recallVars

-----------------------------------------------------------------------------
\* Type correctness.
RecallTypeOK ==
    /\ \A m \in Present : rows[m].to = NotYet \/ rows[m].created <= rows[m].to
    /\ links \subseteq MemoryId \X MemoryId
    /\ \A m \in MemoryId : unapplied[m] \in {"done", "update", "link"}
    /\ now \in 0 .. MaxClock

\* A query for a past time answers with what was current then, unless a
\* statement stamped earlier committed later (point_in_time_query; the stamps of
\* supersede_entity and _apply_superseding_operations).
TimeTravel == \A t \in 0 .. now - 1 : t \in rewritten \/ PointInTime(t) = was[t]

\* Paging through evidence while it is written gives no record twice, and every
\* record that was there at the first page and still is (forensic_recall).
PagedOnce ==
    /\ \A i, j \in DOMAIN pager.got : pager.got[i] = pager.got[j] => i = j
    /\ pager.phase = "done" => pager.must \cap Evidence \subseteq ToSet(pager.got)

\* No memory is superseded, through others, by itself, unless a memory that had
\* been superseded after the check superseded another (supersede_entity,
\* _apply_superseding_operations).
NoCycle ==
    crossed \/ \A ms \in (SUBSET MemoryId) \ {{}} :
                  \E m \in ms : \A n \in ms : <<n, m>> \notin links

\* An answer shows a memory beside one that supersedes it only while the
\* superseding statements have not run, and a search that reads the metadata
\* not even then (search_memories, learning_recall).
NotWithSuccessor ==
    \A n \in Present : \A m \in rows[n].replaces, req \in Requests :
        /\ unapplied[n] # "update" =>
              \A s \in {SearchMemories(req), SearchText(req), LearningRecall(req),
                       LearningText(req), TemporalSearch(req)} :
                 ~({m, n} \subseteq ToSet(s))
        /\ decodes => ~({m, n} \subseteq ToSet(SearchMemories(req)))

\* A search leaves out a current memory only if its answer is full, its candidates
\* were (twice the limit, at most 400), or another candidate supersedes it
\* (search_memories: the limit, the expansion and the filter).
FoundIfRoom ==
    \A req \in Requests :
        LET searched == SearchMemories(req)
            embedded == {k \in Valid : rows[k].embedded}
        IN  \A m \in embedded :
                \/ m \in ToSet(searched)
                \/ Len(searched) = req.limit
                \/ decodes /\ m \in CollectInvalidated(Valid)
                \/ Cardinality({k \in embedded : Nearness[k] < Nearness[m]})
                     >= Min({2 * req.limit, 400})

\* A memory that every channel has before another one comes before it in the
\* answer of a hybrid search, and is not cut off for it (hybrid_search;
\* concept_search.py, rrf_fuse).
FusionAgrees ==
    \A req \in Requests :
        LET lists == Channels(req)
            answer == HybridSearch(req)
        IN  \A m, n \in Present :
                m # n /\ (\A i \in DOMAIN lists : n \in ToSet(lists[i]) =>
                            /\ m \in ToSet(lists[i])
                            /\ RankIn(lists[i], m) < RankIn(lists[i], n))
                /\ n \in ToSet(answer)
                => m \in ToSet(answer) /\ RankIn(answer, m) < RankIn(answer, n)

\* A memory whose history names a successor is not among the current entities,
\* whatever requests broke off or were deleted (get_superseded_history,
\* get_current_entities; the order of the superseding statements).
LinkedRetired ==
    \A m \in Present : SupersededBy(m) # {} => m \notin ToSet(CurrentEntities(N))

\* The safety of recall, in one (api.py, the endpoints above).
RecallSafe ==
    /\ RecallTypeOK /\ TimeTravel /\ PagedOnce /\ NoCycle /\ NotWithSuccessor
    /\ FoundIfRoom /\ FusionAgrees /\ LinkedRetired

-----------------------------------------------------------------------------
(* A claim of the code's comments that the code does not keep.              *)

\* "so the memory is immediately eligible for default (learning) recall"
\* (_write_accepted_learning_memory): an accepted learning memory is in the
\* answer if that has room.
AcceptedRecalled ==
    \A req \in Requests : \A m \in Learning :
        m \in ToSet(LearningRecall(req)) \/ Len(LearningRecall(req)) = req.limit

=============================================================================
