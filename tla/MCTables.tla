------------------------------- MODULE MCTables -------------------------------
(* Small instances of what memu/api.py does with its tables: the review      *)
(* queue, the writes of memories, and what is recalled of them while one     *)
(* supersedes another, while a search reads them, and while a client pages   *)
(* through evidence.  "part" says which one a behaviour is of.               *)
EXTENDS ReflectionQueue, MemoryStore, Recall, TLC

\* w1 and w2 are the requests that can be in progress at a time; p1 and p2 are the
\* proposals of the queue and the texts of the store.
CONSTANTS p1, p2, w1, w2, k1

VARIABLE part

Symmetry == {f @@ g : f \in Permutations({p1, p2}), g \in Permutations({w1, w2})}

\* Three memories, by nearness and score, under searches with room for one, two
\* and all of them.
MCNearness == <<3, 1, 4>>
MCScore == <<1, 4, 2>>
Search(limit, least, lexical, updated) ==
    [limit |-> limit, minResults |-> least, lexical |-> lexical,
     updated |-> updated]
MCRequests ==
    {Search(1, 1, FALSE, <<1, 2, 3>>), Search(2, 2, TRUE, <<1, 3, 2>>),
     Search(3, 3, TRUE, <<3, 2, 1>>)}
MCShapes == <<{"learned", "plain", "recorded"}, {"learned", "recorded", "accepted"},
              {"learned", "recorded", "accepted"}>>

\* What a step inserts has one of these shapes.
Inserts(shapes) ==
    \A m \in MemoryId : rows[m] = Absent /\ rows'[m] # Absent =>
        \E shape \in shapes : rows'[m].kind = Shape[shape].kind
                              /\ rows'[m].embedded = Shape[shape].embedded

\* Two memories and two requests that would have one supersede the other.
SupersedingStep == Inserts({"learned"}) /\ rows'[3] = Absent

\* Three memories, with and without an embedding, at one time.
SearchingStep ==
    /\ Inserts({"learned", "plain"}) /\ now' = MaxLag /\ tx' = tx
    /\ \A m \in MemoryId : rows'[m] # Gone

\* Three records of evidence, stamped in any order, each in place of one at most.
PagingStep ==
    /\ Inserts({"recorded"}) /\ tx' = tx
    /\ \A m \in Present' : Cardinality(rows'[m].replaces) <= 1

TablesInit ==
    /\ Init /\ StoreInit /\ RecallInit
    /\ part \in {"queue", "store", "superseding", "searching", "paging"}
    /\ part \in {"queue", "store", "paging"} => rows[1] = Absent /\ ~decodes

TablesNext ==
    /\ \/ part = "queue" /\ Next /\ UNCHANGED <<storeVars, recallVars>>
       \/ part = "store" /\ StoreNext /\ UNCHANGED <<vars, recallVars>>
       \/ part \in {"superseding", "searching", "paging"} /\ RecallNext
          /\ UNCHANGED <<vars, storeVars>>
    /\ part = "superseding" => SupersedingStep
    /\ part = "searching" => SearchingStep
    /\ part = "paging" => PagingStep
    /\ UNCHANGED part

TablesSpec ==
    TablesInit /\ [][TablesNext]_<<part, vars, storeVars, recallVars>>

=============================================================================
