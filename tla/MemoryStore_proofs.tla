------------------------- MODULE MemoryStore_proofs -------------------------
(***************************************************************************)
(* Proofs about MemoryStore, for any handlers, contents and keys, and any  *)
(* number of requests and failures: a key names one memory, learning of    *)
(* one content is merged unless requests about it overlapped, what an      *)
(* answered write supersedes is out of the current memories for good, and  *)
(* links join two memories that exist; about TaskRegistry, for any         *)
(* sources, scanners and reviewers; and about Recall, for any number of    *)
(* memories, any requests and any orders of the rows.                      *)
(***************************************************************************)
EXTENDS MemoryStore, TaskRegistry, Recall, FiniteSetTheorems, WellFoundedInduction,
        TLAPS

\* content_hash is NULL or a hash.
Hashes == NoHash \notin Content

-----------------------------------------------------------------------------
(* The inductive invariant                                                  *)

\* The rows; a row's content_hash, if it has one, is that of its content.
Rows ==
    /\ stored \in Seq(StoredRow \cup {Deleted})
    /\ \A i \in ExistingRows : stored[i].content_hash \in {stored[i].content, NoHash}

Jobs == request \in [Handler -> {NoWork} \cup WriteJob \cup DedupeJob]

\* The foreign keys of memory_links and its CHECK.
ForeignKeys ==
    /\ supersedes \subseteq Nat \X Nat
    /\ \A l \in supersedes : l[1] # l[2] /\ l[1] \in ExistingRows /\ l[2] \in ExistingRows

\* The unique index on (tenant_id, idempotency_key).
KeyUnique ==
    \A i, j \in ExistingRows :
        stored[i].key # NoKey /\ stored[i].key = stored[j].key => i = j

\* An answer names a row under its key and of its content, or one deleted
\* since: ids are not used again.
Named(a) ==
    /\ a.key # NoKey /\ a.id \in 1 .. Len(stored)
    /\ a.id \in ExistingRows =>
          stored[a.id].key = a.key /\ stored[a.id].content = a.content
AcksNamed == \A a \in acks : Named(a)

\* A row that is not current and will not be again.
Retired(t) == t \in 1 .. Len(stored) /\ (t \in ExistingRows => ~stored[t].valid)
Superseded == \A t \in replaced : Retired(t)

\* No row has this content_hash.
Unknown(c) == \A i \in ExistingRows : stored[i].content_hash # c

\* What a write under way knows: only learning looks for duplicates; a request
\* that nothing has overtaken will insert an unknown content only, or is about
\* to merge into a row that is still there; the memory it stored is its own,
\* and what it has superseded is no longer valid.
Request(j) ==
    j \in WriteJob =>
        /\ j.phase = "key" => j.kind = "evidence"
        /\ j.phase \in {"dedup", "merge"} => j.kind = "learning"
        /\ j.phase = "insert" /\ j.kind = "learning" /\ ~j.raced => Unknown(j.content)
        /\ j.phase = "merge" /\ ~j.raced =>
              \/ Unknown(j.content)
              \/ j.id \in ExistingRows /\ stored[j.id].content = j.content
        /\ j.targets \subseteq 1 .. Len(stored)
        /\ j.phase \in {"supersede", "link"} =>
              /\ j.id \in 1 .. Len(stored) /\ j.id \notin j.targets
              /\ j.id \in ExistingRows /\ j.kind = "evidence" =>
                    stored[j.id].key = j.key /\ stored[j.id].content = j.content
        /\ j.phase = "link" => \A t \in j.targets : Retired(t)

IInv ==
    /\ Rows /\ Jobs /\ ForeignKeys /\ KeyUnique /\ AcksNamed /\ MergedUnlessRaced
    /\ Superseded /\ \A h \in Handler : Request(request[h])

LEMMA IInvImplies == ASSUME IInv PROVE StoreSafe
<1>1. StoreTypeOK
  <2>1. \A i \in 1 .. Len(stored) : stored[i] \in StoredRow \cup {Deleted}
    BY DEF IInv, Rows
  <2>2. \A h \in Handler : request[h] # NoWork => request[h] \in WriteJob \cup DedupeJob
    BY DEF IInv, Jobs
  <2>3. \A l \in supersedes : l[1] # l[2] /\ {l[1], l[2]} \subseteq ExistingRows
    BY DEF IInv, ForeignKeys
  <2> QED
    BY <2>1, <2>2, <2>3 DEF StoreTypeOK
<1>2. ReplaySafe
  BY DEF IInv, AcksNamed, Named, KeyUnique, ReplaySafe
<1>3. AnsweredSupersedes
  BY DEF IInv, Superseded, Retired, AnsweredSupersedes
<1> QED
  BY <1>1, <1>2, <1>3 DEF IInv, StoreSafe

LEMMA IInvInit == ASSUME StoreInit PROVE IInv
<1>1. Len(stored) = 0 /\ ExistingRows = {} /\ stored \in Seq(StoredRow \cup {Deleted})
  BY DEF StoreInit, ExistingRows
<1>2. \A h \in Handler : Request(request[h])
  BY DEF StoreInit, Request, WriteJob, NoWork
<1> QED
  BY <1>1, <1>2 DEF StoreInit, IInv, Rows, Jobs, ForeignKeys, KeyUnique, AcksNamed,
     MergedUnlessRaced, Superseded

-----------------------------------------------------------------------------
(* What the steps do to the table                                           *)

\* Rows are added, deleted or invalidated; nothing else of them changes.
Moves ==
    /\ stored' \in Seq(StoredRow \cup {Deleted})
    /\ Len(stored) \in Nat /\ Len(stored') \in Nat /\ Len(stored) <= Len(stored')
    /\ \A i \in 1 .. Len(stored) : i \in ExistingRows' =>
          /\ i \in ExistingRows
          /\ stored'[i].kind = stored[i].kind
          /\ stored'[i].content = stored[i].content
          /\ stored'[i].content_hash = stored[i].content_hash
          /\ stored'[i].key = stored[i].key
          /\ stored'[i].raced = stored[i].raced
          /\ stored'[i].valid => stored[i].valid

LEMMA RowsThere ==
    ASSUME Rows
    PROVE  /\ Len(stored) \in Nat
           /\ ExistingRows \subseteq 1 .. Len(stored)
           /\ \A i \in ExistingRows : stored[i] \in StoredRow
           /\ \A i \in 1 .. Len(stored) : stored[i] \in StoredRow \cup {Deleted}
  BY DEF Rows, ExistingRows

LEMMA RowNotDeleted == Deleted \notin StoredRow
  BY DEF Deleted, StoredRow, Kind

LEMMA TableKept ==
    ASSUME Rows, UNCHANGED stored
    PROVE  Moves /\ ExistingRows' = ExistingRows /\ Len(stored') = Len(stored)
<1>1. ExistingRows' = ExistingRows
  BY DEF ExistingRows
<1> QED
  BY <1>1, RowsThere DEF Moves, Rows

LEMMA TableGrows ==
    ASSUME Rows, NEW row \in StoredRow, stored' = Append(stored, row)
    PROVE  /\ Moves /\ ExistingRows' = ExistingRows \cup {Len(stored) + 1}
           /\ Len(stored') = Len(stored) + 1 /\ stored'[Len(stored) + 1] = row
           /\ \A i \in ExistingRows : stored'[i] = stored[i]
<1>1. stored \in Seq(StoredRow \cup {Deleted}) /\ Len(stored) \in Nat
  BY RowsThere DEF Rows
<1>2. /\ stored' \in Seq(StoredRow \cup {Deleted})
      /\ Len(stored') = Len(stored) + 1 /\ stored'[Len(stored) + 1] = row
      /\ \A i \in 1 .. Len(stored) : stored'[i] = stored[i]
  BY <1>1
<1>3. ExistingRows' = ExistingRows \cup {Len(stored) + 1}
  BY <1>1, <1>2, RowNotDeleted DEF ExistingRows
<1>4. \A i \in 1 .. Len(stored) : i \in ExistingRows' => i \in ExistingRows
  BY <1>1, <1>3
<1> QED
  BY <1>1, <1>2, <1>3, <1>4, RowsThere DEF Moves

LEMMA TableInvalidated ==
    ASSUME Rows, NEW ids, InvalidateRows(ids)
    PROVE  /\ Moves /\ ExistingRows' = ExistingRows /\ Len(stored') = Len(stored)
           /\ \A t \in ids \cap ExistingRows : ~stored'[t].valid
<1>1. stored \in Seq(StoredRow \cup {Deleted}) /\ Len(stored) \in Nat
  BY RowsThere DEF Rows
<1>2. stored' = [i \in 1 .. Len(stored) |->
                     IF i \in ids \cap ExistingRows THEN [stored[i] EXCEPT !.valid = FALSE]
                     ELSE stored[i]]
  BY DEF InvalidateRows
<1>3. \A i \in ExistingRows : [stored[i] EXCEPT !.valid = FALSE] \in StoredRow
  BY RowsThere DEF StoredRow
<1>4. /\ stored' \in Seq(StoredRow \cup {Deleted}) /\ Len(stored') = Len(stored)
  BY <1>1, <1>2, <1>3, RowsThere
<1>5. ASSUME NEW i \in 1 .. Len(stored)
      PROVE  \/ stored'[i] = stored[i] /\ ~(i \in ids \cap ExistingRows)
             \/ i \in ExistingRows /\ stored'[i] = [stored[i] EXCEPT !.valid = FALSE]
  BY <1>2
<1>6. ExistingRows' = ExistingRows
  <2>1. \A i \in 1 .. Len(stored) : stored'[i] = Deleted <=> stored[i] = Deleted
    BY <1>3, <1>5, RowNotDeleted, RowsThere
  <2> QED
    BY <1>4, <2>1 DEF ExistingRows
<1>7. ASSUME NEW i \in ExistingRows
      PROVE  /\ stored'[i].kind = stored[i].kind
             /\ stored'[i].content = stored[i].content
             /\ stored'[i].content_hash = stored[i].content_hash
             /\ stored'[i].key = stored[i].key
             /\ stored'[i].raced = stored[i].raced
             /\ stored'[i].valid => stored[i].valid
             /\ i \in ids => ~stored'[i].valid
  <2>1. stored[i] \in StoredRow /\ i \in 1 .. Len(stored)
    BY RowsThere
  <2>2. CASE i \in ids
    <3>1. stored'[i] = [stored[i] EXCEPT !.valid = FALSE]
      BY <1>2, <2>1, <2>2
    <3> QED
      BY <2>1, <2>2, <3>1 DEF StoredRow
  <2>3. CASE i \notin ids
    BY <1>2, <2>1, <2>3
  <2> QED
    BY <2>2, <2>3
<1> QED
  BY <1>1, <1>4, <1>6, <1>7 DEF Moves

LEMMA TableDropped ==
    ASSUME Rows, ForeignKeys, NEW ids, Drop(ids)
    PROVE  /\ Moves /\ ExistingRows' = ExistingRows \ ids /\ Len(stored') = Len(stored)
           /\ ForeignKeys'
<1>1. stored \in Seq(StoredRow \cup {Deleted}) /\ Len(stored) \in Nat
  BY RowsThere DEF Rows
<1>2. /\ stored' = [i \in 1 .. Len(stored) |->
                        IF i \in ids THEN Deleted ELSE stored[i]]
      /\ supersedes' = {l \in supersedes : l[1] \notin ids /\ l[2] \notin ids}
  BY DEF Drop
<1>3. /\ stored' \in Seq(StoredRow \cup {Deleted}) /\ Len(stored') = Len(stored)
  BY <1>1, <1>2, RowsThere
<1>4. ExistingRows' = ExistingRows \ ids
  BY <1>2, <1>3 DEF ExistingRows
<1>5. \A i \in ExistingRows' : stored'[i] = stored[i]
  BY <1>2, <1>4, RowsThere
<1>6. ForeignKeys'
  BY <1>2, <1>4 DEF ForeignKeys
<1> QED
  BY <1>1, <1>3, <1>4, <1>5, <1>6 DEF Moves

-----------------------------------------------------------------------------
(* What every change of the table keeps                                     *)

LEMMA Lasting ==
    ASSUME Rows, Moves
    PROVE  /\ \A t : Retired(t) => Retired(t)'
           /\ \A a : Named(a) => Named(a)'
<1>1. ASSUME NEW t, Retired(t) PROVE Retired(t)'
  BY <1>1 DEF Retired, Moves
<1>2. ASSUME NEW a, Named(a) PROVE Named(a)'
  BY <1>2 DEF Named, Moves
<1> QED
  BY <1>1, <1>2

\* Without a new row, the rows stay as different as they were.
LEMMA OldRows ==
    ASSUME IInv, Moves, ExistingRows' \subseteq ExistingRows
    PROVE  Rows' /\ KeyUnique' /\ MergedUnlessRaced'
<1>1. \A i \in ExistingRows' : i \in 1 .. Len(stored)
  BY RowsThere DEF IInv
<1>2. Rows'
  BY <1>1 DEF IInv, Rows, Moves
<1>3. KeyUnique'
  BY <1>1 DEF IInv, KeyUnique, Moves
<1>4. MergedUnlessRaced'
  BY <1>1 DEF IInv, MergedUnlessRaced, Moves
<1> QED
  BY <1>2, <1>3, <1>4

LEMMA JobPhases ==
    ASSUME NEW j \in {NoWork} \cup WriteJob \cup DedupeJob, j # NoWork
    PROVE  /\ j.phase \in Searching \cup {"supersede", "link"} => j \in WriteJob
           /\ j.phase \in {"pick", "sources", "targets", "drop"} => j \in DedupeJob
           /\ j \in WriteJob => j.phase \in Searching \cup {"supersede", "link"}
           /\ j \in DedupeJob => j.phase \in {"pick", "sources", "targets", "drop"}
           /\ j \in WriteJob => j \notin DedupeJob
  BY DEF WriteJob, DedupeJob, Searching

\* A request keeps what it knows when the table changes under it: whatever is
\* deleted or written of its content sets its history bit.
LEMMA Overtakes ==
    ASSUME IInv, Moves, NEW cs, NEW g \in Handler,
           \A i \in ExistingRows : i \in ExistingRows' \/ stored[i].content \in cs,
           \A i \in ExistingRows' : \/ i \in ExistingRows
                                    \/ stored'[i].content_hash = NoHash
                                    \/ stored'[i].content_hash \in cs,
           Hashes, NEW j, j = request[g], NEW k, k = Overtaken(cs)[g]
    PROVE  k \in {NoWork} \cup WriteJob \cup DedupeJob /\ Request(k)'
<1>1. j \in {NoWork} \cup WriteJob \cup DedupeJob /\ Request(j) /\ Rows
  BY DEF IInv, Jobs
<1>2. k = IF j # NoWork /\ j.phase \in Searching /\ j.content \in cs
          THEN [j EXCEPT !.raced = TRUE] ELSE j
  BY DEF Overtaken
<1>3. CASE j # NoWork /\ j.phase \in Searching /\ j.content \in cs
  <2>1. j \in WriteJob /\ k = [j EXCEPT !.raced = TRUE]
    BY <1>1, <1>2, <1>3, JobPhases
  <2>2. /\ k \in WriteJob /\ k.raced /\ k.phase = j.phase /\ k.kind = j.kind
        /\ k.targets = j.targets /\ k.phase \notin {"supersede", "link"}
    BY <1>3, <2>1 DEF WriteJob, Searching
  <2>3. Request(k)'
    <3>1. k.targets \subseteq 1 .. Len(stored')
      BY <1>1, <2>1, <2>2 DEF Request, Moves
    <3> QED
      BY <1>1, <2>1, <2>2, <3>1 DEF Request
  <2> QED
    BY <2>2, <2>3
<1>4. CASE ~(j # NoWork /\ j.phase \in Searching /\ j.content \in cs)
  <2>1. k = j
    BY <1>2, <1>4
  <2>2. Request(j)'
    <3> SUFFICES ASSUME j \in WriteJob PROVE Request(j)'
      BY DEF Request
    <3>1. j # NoWork /\ j.content \in Content
      BY DEF WriteJob, NoWork
    <3>2. j.phase \in Searching => j.content \notin cs
      BY <1>4, <3>1
    <3>3. j.targets \subseteq 1 .. Len(stored')
      BY <1>1 DEF Request, Moves
    <3>4. ASSUME j.phase \in Searching, Unknown(j.content) PROVE Unknown(j.content)'
      <4> SUFFICES ASSUME NEW i \in ExistingRows' PROVE stored'[i].content_hash # j.content
        BY DEF Unknown
      <4>1. CASE i \in ExistingRows
        BY <3>4, <4>1, <1>1, RowsThere DEF Unknown, Moves
      <4>2. CASE i \notin ExistingRows
        BY <3>1, <3>2, <3>4, <4>2 DEF Hashes
      <4> QED
        BY <4>1, <4>2
    <3>5. ASSUME j.phase \in Searching, j.id \in ExistingRows, stored[j.id].content = j.content
          PROVE  j.id \in ExistingRows' /\ stored'[j.id].content = j.content
      BY <3>2, <3>5, <1>1, RowsThere DEF Moves
    <3>6. ASSUME j.phase \in {"supersede", "link"}
          PROVE  /\ j.id \in 1 .. Len(stored')
                 /\ j.id \in ExistingRows' /\ j.kind = "evidence" =>
                      stored'[j.id].key = j.key /\ stored'[j.id].content = j.content
      BY <1>1, <3>6 DEF Request, Moves
    <3>7. j.phase = "link" => \A t \in j.targets : Retired(t)'
      BY <1>1, Lasting DEF Request
    <3> QED
      BY <1>1, <3>3, <3>4, <3>5, <3>6, <3>7 DEF Request, Searching
  <2> QED
    BY <1>1, <2>1, <2>2
<1> QED
  BY <1>3, <1>4

\* A step that leaves the rows alone, of one request: what becomes of it must be
\* true of the table, and what it answers too.
LEMMA JobStep ==
    ASSUME IInv, UNCHANGED stored, ForeignKeys', NEW h \in Handler,
           NEW j \in {NoWork} \cup WriteJob \cup DedupeJob, Request(j),
           request' = [request EXCEPT ![h] = j],
           \A a \in acks' : a \in acks \/ Named(a),
           \A t \in replaced' : t \in replaced \/ Retired(t)
    PROVE  IInv'
<1>1. Rows /\ Jobs
  BY DEF IInv
<1>2. Moves /\ ExistingRows' = ExistingRows
  BY <1>1, TableKept
<1>3. Rows' /\ KeyUnique' /\ MergedUnlessRaced'
  BY <1>2, OldRows
<1>4. AcksNamed' /\ Superseded'
  BY <1>1, <1>2, Lasting DEF IInv, AcksNamed, Superseded
<1>5. Jobs'
  BY <1>1 DEF Jobs
<1>6. ASSUME NEW k, Request(k) PROVE Request(k)'
  BY <1>2, <1>6 DEF Request, Unknown, Retired
<1>7. ASSUME NEW g \in Handler PROVE Request(request[g])'
  <2>1. request'[g] = j \/ request'[g] = request[g]
    BY <1>1 DEF Jobs
  <2> QED
    BY <1>6, <2>1 DEF IInv
<1> QED
  BY <1>3, <1>4, <1>5, <1>7 DEF IInv

-----------------------------------------------------------------------------
(* Steps that leave the rows alone                                          *)

LEMMA RequestIdle == Request(NoWork)
  BY DEF Request, WriteJob, NoWork

LEMMA RequestDedupe ==
    ASSUME NEW j \in DedupeJob PROVE Request(j)
  BY DEF Request, WriteJob, DedupeJob

LEMMA LinksKept ==
    ASSUME IInv, UNCHANGED <<stored, supersedes>> PROVE ForeignKeys'
  BY DEF IInv, ForeignKeys, ExistingRows

\* The request ends, or breaks off.
LEMMA Finishes ==
    ASSUME IInv, NEW h \in Handler, Finish(h), UNCHANGED <<stored, replaced>>,
           ForeignKeys', \A a \in acks' : a \in acks \/ Named(a)
    PROVE  IInv'
  BY RequestIdle, JobStep DEF Finish

\* The request goes on to another phase.
LEMMA GoesTo ==
    ASSUME IInv, NEW h \in Handler, NEW phase, Goto(h, phase),
           UNCHANGED <<stored, supersedes, acks, replaced>>,
           NEW j, j = [request[h] EXCEPT !.phase = phase],
           j \in {NoWork} \cup WriteJob \cup DedupeJob, Request(j)
    PROVE  IInv'
<1>1. request' = [request EXCEPT ![h] = j]
  BY DEF Goto
<1> QED
  BY <1>1, LinksKept, JobStep

LEMMA AnswersNamed ==
    ASSUME NEW h \in Handler, NEW id, Answered(h, id),
           request[h].kind = "evidence" /\ request[h].key # NoKey =>
              /\ id \in 1 .. Len(stored)
              /\ id \in ExistingRows =>
                   stored[id].key = request[h].key /\ stored[id].content = request[h].content
    PROVE  \A a \in acks' : a \in acks \/ Named(a)
<1> DEFINE new == [key |-> request[h].key, content |-> request[h].content, id |-> id]
<1>1. new.key = request[h].key /\ new.content = request[h].content /\ new.id = id
  OBVIOUS
<1>2. CASE request[h].kind = "evidence" /\ request[h].key # NoKey
  <2>1. acks' = acks \cup {new}
    BY <1>2 DEF Answered
  <2>2. Named(new)
    <3> HIDE DEF new
    <3> QED
      BY <1>1, <1>2 DEF Named
  <2> QED
    BY <2>1, <2>2
<1>3. CASE ~(request[h].kind = "evidence" /\ request[h].key # NoKey)
  BY <1>3 DEF Answered
<1> QED
  BY <1>2, <1>3

LEMMA CreateStep ==
    ASSUME IInv, NEW h \in Handler, NEW kind \in Kind, NEW c \in Content,
           NEW key \in Key \cup {NoKey}, NEW targets \in Targets,
           CreateMemory(h, kind, c, key, targets)
    PROVE  IInv'
<1>1. PICK embedded \in BOOLEAN :
        Begin(h, [op |-> "create", kind |-> kind, content |-> c, key |-> key,
                  embedded |-> embedded, targets |-> targets, id |-> 0,
                  raced |-> FALSE,
                  phase |-> IF kind = "learning" THEN "dedup"
                            ELSE IF key # NoKey THEN "key" ELSE "insert"])
  BY DEF CreateMemory
<1> DEFINE j == [op |-> "create", kind |-> kind, content |-> c, key |-> key,
                 embedded |-> embedded, targets |-> targets, id |-> 0,
                 raced |-> FALSE,
                 phase |-> IF kind = "learning" THEN "dedup"
                           ELSE IF key # NoKey THEN "key" ELSE "insert"]
<1>2. targets \subseteq 1 .. Len(stored) /\ targets \in SUBSET Nat
  BY RowsThere DEF IInv, Targets
<1>3. j \in WriteJob
  BY <1>2 DEF WriteJob, Searching
<1>4. /\ j.phase \in {"key", "dedup", "insert"} /\ j.targets = targets
      /\ j.phase = "dedup" => j.kind = "learning"
      /\ j.phase \in {"key", "insert"} => j.kind = "evidence"
  BY DEF Kind
<1>5. request' = [request EXCEPT ![h] = j] /\ UNCHANGED <<stored, supersedes, acks, replaced>>
  BY <1>1 DEF Begin, history
<1> HIDE DEF j
<1>6. Request(j)
  BY <1>2, <1>4 DEF Request
<1> QED
  BY <1>3, <1>5, <1>6, LinksKept, JobStep

LEMMA BulkStep ==
    ASSUME IInv, NEW h \in Handler, NEW c \in Content, BulkImport(h, c)
    PROVE  IInv'
<1>1. PICK embedded \in BOOLEAN :
        Begin(h, [op |-> "bulk", kind |-> "learning", content |-> c,
                  key |-> NoKey, embedded |-> embedded, targets |-> {},
                  id |-> 0, raced |-> FALSE, phase |-> "dedup"])
  BY DEF BulkImport
<1> DEFINE j == [op |-> "bulk", kind |-> "learning", content |-> c,
                 key |-> NoKey, embedded |-> embedded, targets |-> {},
                 id |-> 0, raced |-> FALSE, phase |-> "dedup"]
<1>2. j \in WriteJob /\ j.phase = "dedup" /\ j.kind = "learning" /\ j.targets = {}
  BY DEF WriteJob, Searching, Kind
<1>3. request' = [request EXCEPT ![h] = j] /\ UNCHANGED <<stored, supersedes, acks, replaced>>
  BY <1>1 DEF Begin, history
<1> HIDE DEF j
<1>4. Request(j)
  BY <1>2 DEF Request
<1> QED
  BY <1>2, <1>3, <1>4, LinksKept, JobStep

\* Of a request in one of its phases.
LEMMA InPhase ==
    ASSUME IInv, NEW h \in Handler, NEW phase, At(h, phase)
    PROVE  /\ request[h] # NoWork /\ request[h].phase = phase /\ Request(request[h]) /\ Rows
           /\ phase \in Searching \cup {"supersede", "link"} => request[h] \in WriteJob
           /\ phase \in {"pick", "sources", "targets", "drop"} => request[h] \in DedupeJob
<1>1. request[h] \in {NoWork} \cup WriteJob \cup DedupeJob
  BY DEF IInv, Jobs
<1> QED
  BY <1>1, JobPhases DEF IInv, At

\* A request to insert knows what it must.
LEMMA ToInsert ==
    ASSUME NEW k \in WriteJob, Request(k), k.kind = "evidence" \/ k.raced \/ Unknown(k.content),
           NEW j, j = [k EXCEPT !.phase = "insert"]
    PROVE  j \in WriteJob /\ Request(j)
<1>1. /\ j \in WriteJob /\ j.phase = "insert" /\ j.kind = k.kind /\ j.raced = k.raced
      /\ j.content = k.content /\ j.targets = k.targets
  BY DEF WriteJob, Searching
<1>2. k.targets \subseteq 1 .. Len(stored) /\ k.kind \in Kind
  BY DEF Request, WriteJob
<1> QED
  BY <1>1, <1>2 DEF Request, Kind

LEMMA CheckKeyStep ==
    ASSUME IInv, NEW h \in Handler, CheckKey(h) PROVE IInv'
<1>1. /\ At(h, "key") /\ UNCHANGED <<stored, supersedes>> /\ ForeignKeys'
      /\ request[h] \in WriteJob /\ Request(request[h]) /\ request[h].kind = "evidence" /\ Rows
  BY InPhase, LinksKept DEF CheckKey, Searching, Request
<1>2. CASE Goto(h, "insert") /\ UNCHANGED history
  <2>1. PICK j : j = [request[h] EXCEPT !.phase = "insert"]
    OBVIOUS
  <2>2. j \in WriteJob /\ Request(j)
    BY <1>1, <2>1, ToInsert
  <2> QED
    BY <1>1, <1>2, <2>1, <2>2, GoesTo DEF history
<1>3. ASSUME NEW i \in WithKey(request[h].key),
             IF SameHash(stored[i], request[h].content)
             THEN Finish(h) /\ Answered(h, i) /\ UNCHANGED replaced
             ELSE Finish(h) /\ UNCHANGED history
      PROVE  IInv'
  <2>1. i \in ExistingRows /\ stored[i].key = request[h].key /\ i \in 1 .. Len(stored)
    BY <1>1, RowsThere DEF WithKey
  <2>2. CASE SameHash(stored[i], request[h].content)
    <3>1. Finish(h) /\ Answered(h, i) /\ UNCHANGED replaced
          /\ stored[i].content = request[h].content
      BY <1>3, <2>2 DEF SameHash
    <3>2. \A a \in acks' : a \in acks \/ Named(a)
      BY <2>1, <3>1, AnswersNamed
    <3> QED
      BY <1>1, <3>1, <3>2, Finishes
  <2>3. CASE ~SameHash(stored[i], request[h].content)
    BY <1>1, <1>3, <2>3, Finishes DEF history
  <2> QED
    BY <2>2, <2>3
<1> QED
  BY <1>2, <1>3 DEF CheckKey

LEMMA DedupStep ==
    ASSUME IInv, Hashes, NEW h \in Handler, Dedup(h) PROVE IInv'
<1> DEFINE c == request[h].content
           found == Duplicates(c, request[h].embedded)
           same == {i \in found : stored[i].content = c}
<1>1. /\ At(h, "dedup") /\ UNCHANGED <<stored, supersedes, acks, replaced>> /\ ForeignKeys'
      /\ request[h] \in WriteJob /\ Request(request[h]) /\ request[h].kind = "learning" /\ Rows
      /\ c \in Content
  BY InPhase, LinksKept DEF Dedup, Searching, Request, history, WriteJob
<1>2. found \subseteq ExistingRows /\ \A i \in ExistingRows : stored[i].content_hash = c => i \in found
  BY DEF Duplicates
<1>3. same = {} => Unknown(c)
  <2>1. \A i \in ExistingRows : stored[i].content_hash = c => stored[i].content = c
    BY <1>1 DEF Rows, Hashes
  <2> QED
    BY <1>2, <2>1 DEF Unknown
<1>4. CASE found = {} /\ Goto(h, "insert")
  <2>1. PICK j : j = [request[h] EXCEPT !.phase = "insert"]
    OBVIOUS
  <2>2. j \in WriteJob /\ Request(j)
    BY <1>1, <1>3, <1>4, <2>1, ToInsert
  <2> QED
    BY <1>1, <1>4, <2>1, <2>2, GoesTo
<1>5. CASE Finish(h)
  BY <1>1, <1>5, Finishes
<1>6. ASSUME NEW i \in (IF same # {} THEN same ELSE found),
             request' = [request EXCEPT ![h].phase = "merge", ![h].id = i]
      PROVE  IInv'
  <2>1. PICK j : j = [request[h] EXCEPT !.phase = "merge", !.id = i]
    OBVIOUS
  <2>2. i \in ExistingRows /\ i \in Nat /\ (Unknown(c) \/ stored[i].content = c)
    BY <1>1, <1>2, <1>3, <1>6, RowsThere
  <2>3. /\ j \in WriteJob /\ j.phase = "merge" /\ j.id = i /\ j.kind = "learning"
        /\ j.content = c /\ j.targets = request[h].targets
    BY <1>1, <2>1, <2>2 DEF WriteJob, Searching
  <2>4. Request(j)
    BY <1>1, <2>2, <2>3 DEF Request
  <2>5. request' = [request EXCEPT ![h] = j]
    BY <1>6, <2>1 DEF IInv, Jobs
  <2> QED
    BY <1>1, <2>3, <2>4, <2>5, JobStep
<1> QED
  BY <1>4, <1>5, <1>6 DEF Dedup

LEMMA BulkDedupStep ==
    ASSUME IInv, NEW h \in Handler, BulkDedup(h) PROVE IInv'
<1>1. /\ At(h, "dedup") /\ UNCHANGED <<stored, supersedes, acks, replaced>> /\ ForeignKeys'
      /\ request[h] \in WriteJob /\ Request(request[h])
  BY InPhase, LinksKept DEF BulkDedup, Searching, history
<1>2. CASE Finish(h)
  BY <1>1, <1>2, Finishes
<1>3. CASE Goto(h, "insert") /\ Unknown(request[h].content)
  <2>1. PICK j : j = [request[h] EXCEPT !.phase = "insert"]
    OBVIOUS
  <2>2. j \in WriteJob /\ Request(j)
    BY <1>1, <1>3, <2>1, ToInsert
  <2> QED
    BY <1>1, <1>3, <2>1, <2>2, GoesTo
<1> QED
  BY <1>2, <1>3 DEF BulkDedup, Unknown

LEMMA FailStep ==
    ASSUME IInv, NEW h \in Handler, FailRequest(h) PROVE IInv'
  BY LinksKept, Finishes DEF FailRequest, history

LEMMA DedupeStep ==
    ASSUME IInv, NEW h \in Handler, Dedupe(h) PROVE IInv'
<1> DEFINE j == [op |-> "dedupe", phase |-> "pick", groups |-> DedupeGroups, ids |-> {}]
<1>1. request' = [request EXCEPT ![h] = j] /\ UNCHANGED <<stored, supersedes, acks, replaced>>
  BY DEF Dedupe, Begin, history
<1>2. j \in DedupeJob
  <2>1. DedupeGroups \in SUBSET SUBSET Nat
    BY RowsThere DEF IInv, DedupeGroups
  <2> QED
    BY <2>1 DEF DedupeJob
<1> HIDE DEF j
<1> QED
  BY <1>1, <1>2, RequestDedupe, LinksKept, JobStep

LEMMA PickStep ==
    ASSUME IInv, NEW h \in Handler, DedupePick(h) PROVE IInv'
<1>1. /\ At(h, "pick") /\ UNCHANGED <<stored, supersedes, acks, replaced>> /\ ForeignKeys'
      /\ request[h] \in DedupeJob
  BY InPhase, LinksKept DEF DedupePick, history
<1>2. CASE Finish(h)
  BY <1>1, <1>2, Finishes
<1>3. ASSUME NEW ids \in request[h].groups,
             request' = [request EXCEPT ![h].phase = "sources", ![h].ids = ids,
                                ![h].groups = @ \ {ids}]
      PROVE  IInv'
  <2>1. PICK j : j = [request[h] EXCEPT !.phase = "sources", !.ids = ids,
                                    !.groups = request[h].groups \ {ids}]
    OBVIOUS
  <2>2. j \in DedupeJob
    BY <1>1, <2>1 DEF DedupeJob
  <2>3. request' = [request EXCEPT ![h] = j]
    BY <1>1, <1>3, <2>1 DEF IInv, Jobs, DedupeJob
  <2> QED
    BY <1>1, <2>2, <2>3, RequestDedupe, JobStep
<1> QED
  BY <1>2, <1>3 DEF DedupePick

\* Relinking keeps the foreign keys: what would break them is refused.
LEMMA RelinkStep ==
    ASSUME IInv, NEW h \in Handler, NEW end \in {1, 2},
           NEW from \in {"sources", "targets"}, NEW to \in {"targets", "drop"},
           Relink(h, from, end, to)
    PROVE  IInv'
<1>1. /\ At(h, from) /\ UNCHANGED <<stored, acks, replaced>> /\ request[h] \in DedupeJob
  BY InPhase DEF Relink, history
<1>2. CASE Finish(h) /\ UNCHANGED supersedes
  BY <1>1, <1>2, LinksKept, Finishes
<1>3. CASE /\ ~RelinkFails(request[h].ids, end)
           /\ supersedes' = {Relinked(l, request[h].ids, end) : l \in supersedes}
           /\ Goto(h, to)
  <2> DEFINE ids == request[h].ids
             m == Min(ids)
  <2> HIDE DEF ids, m
  <2>1. ASSUME NEW l \in supersedes
        PROVE  LET k == Relinked(l, ids, end) IN
               /\ k \in Nat \X Nat /\ k[1] # k[2] /\ k[1] \in ExistingRows /\ k[2] \in ExistingRows
    <3>1. /\ l \in Nat \X Nat /\ l[1] # l[2] /\ l[1] \in ExistingRows /\ l[2] \in ExistingRows
          /\ ExistingRows \subseteq Nat
      BY RowsThere DEF IInv, ForeignKeys
    <3>2. CASE l[end] \notin ids \/ l[end] = m
      <4>1. Relinked(l, ids, end) = l
        BY <3>1, <3>2 DEF Relinked, m
      <4> QED
        BY <3>1, <4>1
    <3>3. CASE l[end] \in ids \ {m}
      <4>1. l \in {x \in supersedes : x[end] \in ids \ {m}}
        BY <3>3
      <4>2. m \in ExistingRows /\ Relinked(l, ids, end)[1] # Relinked(l, ids, end)[2]
        BY <1>3, <4>1 DEF RelinkFails, ids, m
      <4>3. Relinked(l, ids, end) = [l EXCEPT ![end] = m]
        BY <3>3 DEF Relinked, m
      <4> QED
        BY <3>1, <4>2, <4>3
    <3> QED
      BY <3>2, <3>3
  <2>2. ForeignKeys'
    <3>1. supersedes' = {Relinked(l, ids, end) : l \in supersedes} /\ ExistingRows' = ExistingRows
      BY <1>1, <1>3 DEF ids, ExistingRows
    <3> QED
      BY <2>1, <3>1 DEF ForeignKeys
  <2>3. PICK j : j = [request[h] EXCEPT !.phase = to]
    OBVIOUS
  <2>4. j \in DedupeJob
    BY <1>1, <2>3 DEF DedupeJob
  <2>5. request' = [request EXCEPT ![h] = j]
    BY <1>3, <2>3 DEF Goto
  <2> QED
    BY <1>1, <2>2, <2>4, <2>5, RequestDedupe, JobStep
<1> QED
  BY <1>1, <1>2, <1>3 DEF Relink

\* What a request is once its memory is stored.
Superseding(k, id) ==
    [k EXCEPT !.phase = "supersede", !.id = id, !.targets = k.targets \ {id},
              !.raced = FALSE, !.embedded = FALSE]

LEMMA StoredJob ==
    ASSUME NEW k \in WriteJob, NEW id \in Nat, NEW j, j = Superseding(k, id)
    PROVE  /\ j \in WriteJob /\ j.phase = "supersede" /\ j.id = id
           /\ j.targets \subseteq k.targets /\ id \notin j.targets
           /\ j.kind = k.kind /\ j.key = k.key /\ j.content = k.content
  BY DEF WriteJob, Searching, Superseding

LEMMA MergeStep ==
    ASSUME IInv, NEW h \in Handler, Merge(h) PROVE IInv'
<1>1. /\ At(h, "merge") /\ UNCHANGED <<stored, supersedes>> /\ ForeignKeys'
      /\ request[h] \in WriteJob /\ request[h].phase = "merge" /\ Request(request[h])
      /\ request[h].kind = "learning" /\ Rows
  BY InPhase, LinksKept DEF Merge, Searching, Request
<1>2. CASE request[h].id \notin ExistingRows /\ Goto(h, "insert") /\ UNCHANGED history
  <2>1. PICK j : j = [request[h] EXCEPT !.phase = "insert"]
    OBVIOUS
  <2>2. request[h].raced \/ Unknown(request[h].content)
    BY <1>1, <1>2 DEF Request
  <2>3. j \in WriteJob /\ Request(j)
    BY <1>1, <2>1, <2>2, ToInsert
  <2> QED
    BY <1>1, <1>2, <2>1, <2>3, GoesTo DEF history
<1>3. CASE request[h].id \in ExistingRows /\ Stored(h, request[h].id, request)
  <2>1. request[h].id \in 1 .. Len(stored) /\ request[h].id \in Nat
    BY <1>1, <1>3, RowsThere
  <2>2. CASE request[h].targets \ {request[h].id} = {}
    <3>1. Finish(h) /\ Answered(h, request[h].id) /\ UNCHANGED replaced
      BY <1>3, <2>2 DEF Stored, Finish
    <3>2. \A a \in acks' : a \in acks \/ Named(a)
      BY <1>1, <3>1, AnswersNamed
    <3> QED
      BY <1>1, <3>1, <3>2, Finishes
  <2>3. CASE request[h].targets \ {request[h].id} # {}
    <3>1. PICK j : j = Superseding(request[h], request[h].id)
      OBVIOUS
    <3>2. request' = [request EXCEPT ![h] = j] /\ UNCHANGED <<acks, replaced>>
      BY <1>3, <2>3, <3>1 DEF Stored, history, Superseding
    <3>3. /\ j \in WriteJob /\ j.phase = "supersede" /\ j.id = request[h].id
          /\ j.targets \subseteq request[h].targets /\ request[h].id \notin j.targets
          /\ j.kind = "learning"
      <4>1. request[h] \in WriteJob /\ request[h].id \in Nat /\ request[h].kind = "learning"
        BY <1>1, <2>1
      <4>2. j \in WriteJob
        BY <3>1, <4>1, StoredJob
      <4>3. j.phase = "supersede"
        BY <3>1, <4>1, StoredJob
      <4>4. j.id = request[h].id
        BY <3>1, <4>1, StoredJob
      <4>5. j.targets \subseteq request[h].targets
        BY <3>1, <4>1, StoredJob
      <4>6. request[h].id \notin j.targets
        BY <3>1, <4>1, StoredJob
      <4>7. j.kind = "learning"
        BY <3>1, <4>1, StoredJob
      <4> QED BY <4>2, <4>3, <4>4, <4>5, <4>6, <4>7
    <3>4. Request(j)
      BY <1>1, <2>1, <3>3 DEF Request
    <3> QED
      BY <1>1, <3>2, <3>3, <3>4, JobStep
  <2> QED
    BY <2>2, <2>3
<1> QED
  BY <1>2, <1>3 DEF Merge

LEMMA LinkStep ==
    ASSUME IInv, NEW h \in Handler, Link(h) PROVE IInv'
<1> DEFINE targets == request[h].targets
           ids == targets \cup {request[h].id}
<1>1. /\ At(h, "link") /\ UNCHANGED stored /\ Finish(h) /\ request[h] \in WriteJob
      /\ request[h].phase = "link" /\ Request(request[h]) /\ Rows
  BY InPhase DEF Link
<1>2. CASE UNCHANGED <<supersedes, history>>
  BY <1>1, <1>2, LinksKept, Finishes DEF history
<1>3. CASE /\ ids \subseteq ExistingRows
           /\ supersedes' = supersedes \cup {<<request[h].id, t>> : t \in targets}
           /\ Answered(h, request[h].id) /\ replaced' = replaced \cup targets
  <2>1. \A t \in targets : Retired(t)
    BY <1>1 DEF Request
  <2>2. \A a \in acks' : a \in acks \/ Named(a)
    BY <1>1, <1>3, AnswersNamed DEF Request
  <2>3. request[h].id \notin targets
    BY <1>1 DEF Request
  <2>4. ForeignKeys'
    <3>1. ExistingRows' = ExistingRows /\ ExistingRows \subseteq Nat
      BY <1>1, RowsThere DEF ExistingRows
    <3> HIDE DEF targets
    <3>2. \A t \in targets : request[h].id \in ExistingRows /\ t \in ExistingRows /\ request[h].id # t
      BY <1>3, <2>3
    <3>3. ASSUME NEW t \in targets
          PROVE  LET l == <<request[h].id, t>>
                 IN /\ l \in Nat \X Nat /\ l[1] # l[2] /\ l[1] \in ExistingRows
                    /\ l[2] \in ExistingRows
      BY <3>1, <3>2
    <3>4. supersedes' = supersedes \cup {<<request[h].id, t>> : t \in targets}
      BY <1>3 DEF targets
    <3>5. /\ supersedes \subseteq Nat \X Nat
          /\ \A l \in supersedes : l[1] # l[2] /\ l[1] \in ExistingRows /\ l[2] \in ExistingRows
      BY DEF IInv, ForeignKeys
    <3>6. /\ supersedes' \subseteq Nat \X Nat
          /\ \A l \in supersedes' : l[1] # l[2] /\ l[1] \in ExistingRows /\ l[2] \in ExistingRows
      BY <3>3, <3>4, <3>5
    <3> QED
      BY <3>1, <3>6 DEF ForeignKeys
  <2> QED
    BY <1>1, <1>3, <2>1, <2>2, <2>4, RequestIdle, JobStep DEF Finish
<1> QED
  BY <1>2, <1>3 DEF Link

-----------------------------------------------------------------------------
(* Steps that change the rows                                               *)

LEMMA TableStep ==
    ASSUME IInv, Moves, Rows', KeyUnique', MergedUnlessRaced', ForeignKeys',
           request' \in [Handler -> {NoWork} \cup WriteJob \cup DedupeJob],
           \A g \in Handler : Request(request[g])',
           \A a \in acks' : a \in acks \/ Named(a)', UNCHANGED replaced
    PROVE  IInv'
<1>1. AcksNamed' /\ Superseded'
  BY Lasting DEF IInv, AcksNamed, Superseded
<1> QED
  BY <1>1 DEF IInv, Jobs

\* All requests but one are overtaken at most.
LEMMA OthersOvertaken ==
    ASSUME IInv, Moves, Hashes, NEW cs, NEW h \in Handler, NEW j,
           \A i \in ExistingRows : i \in ExistingRows' \/ stored[i].content \in cs,
           \A i \in ExistingRows' : \/ i \in ExistingRows
                                    \/ stored'[i].content_hash = NoHash
                                    \/ stored'[i].content_hash \in cs,
           request' = [Overtaken(cs) EXCEPT ![h] = j],
           j \in {NoWork} \cup WriteJob \cup DedupeJob, Request(j)'
    PROVE  /\ request' \in [Handler -> {NoWork} \cup WriteJob \cup DedupeJob]
           /\ \A g \in Handler : Request(request[g])'
<1>1. ASSUME NEW g \in Handler
      PROVE  request'[g] \in {NoWork} \cup WriteJob \cup DedupeJob /\ Request(request[g])'
  <2>1. PICK k : k = Overtaken(cs)[g]
    OBVIOUS
  <2>2. k \in {NoWork} \cup WriteJob \cup DedupeJob /\ Request(k)'
    BY <2>1, Overtakes
  <2>3. request'[g] = IF g = h THEN j ELSE k
    BY <2>1 DEF Overtaken
  <2> QED
    BY <2>2, <2>3
<1>2. request' = [g \in Handler |-> request'[g]]
  BY DEF Overtaken
<1> QED
  BY <1>1, <1>2

LEMMA InsertStep ==
    ASSUME IInv, Hashes, NEW h \in Handler, Insert(h) PROVE IInv'
<1> DEFINE row == [kind |-> request[h].kind, content |-> request[h].content,
                   content_hash |-> request[h].content, key |-> request[h].key,
                   embedded |-> request[h].embedded, valid |-> TRUE, raced |-> request[h].raced]
           n == Len(stored) + 1
           c == request[h].content
<1>1. /\ At(h, "insert") /\ UNCHANGED supersedes /\ request[h] \in WriteJob
      /\ request[h].phase = "insert" /\ Request(request[h]) /\ Rows /\ ForeignKeys
      /\ Len(stored) \in Nat
  BY InPhase, RowsThere DEF Insert, Searching, IInv
<1>2. CASE Finish(h) /\ UNCHANGED <<stored, history>>
  BY <1>1, <1>2, LinksKept, Finishes DEF history
<1>3. CASE /\ ~KeyTaken(request[h].key) /\ stored' = Append(stored, row)
           /\ Stored(h, n, Overtaken({c}))
  <2>1. row \in StoredRow /\ c \in Content
    BY <1>1 DEF WriteJob, StoredRow
  <2>2. /\ row.kind = request[h].kind /\ row.content = c /\ row.content_hash = c
        /\ row.key = request[h].key /\ row.raced = request[h].raced
    OBVIOUS
  <2> HIDE DEF row
  <2>3. /\ Moves /\ ExistingRows' = ExistingRows \cup {n} /\ Len(stored') = n
        /\ stored'[n] = row /\ \A i \in ExistingRows : stored'[i] = stored[i]
        /\ stored' \in Seq(StoredRow \cup {Deleted})
    <3>1. PICK r \in StoredRow : r = row
      BY <2>1
    <3>2. stored' = Append(stored, r)
      BY <1>3, <3>1
    <3> QED
      BY <1>1, <3>1, <3>2, TableGrows DEF Moves
  <2>4. n \in Nat /\ n \in 1 .. n /\ \A i \in ExistingRows : i < n
    BY <1>1, RowsThere
  <2>5. Rows'
    BY <1>1, <2>2, <2>3 DEF Rows
  <2>6. KeyUnique'
    <3>1. request[h].key # NoKey => \A i \in ExistingRows : stored[i].key # request[h].key
      BY <1>3 DEF KeyTaken, WithKey
    <3> QED
      BY <2>2, <2>3, <3>1 DEF IInv, KeyUnique
  <2>7. MergedUnlessRaced'
    <3>1. row.kind = "learning" /\ ~row.raced => Unknown(c)
      BY <1>1, <2>2 DEF Request
    <3> SUFFICES ASSUME NEW i \in ExistingRows', NEW k \in ExistingRows', i < k,
                        stored'[i].content_hash = stored'[k].content_hash,
                        stored'[i].content_hash # NoHash, stored'[k].kind = "learning"
                 PROVE  stored'[k].raced
      BY DEF MergedUnlessRaced
    <3>2. i \in ExistingRows
      BY <1>1, <2>3, <2>4, RowsThere
    <3>3. CASE k \in ExistingRows
      BY <2>3, <3>2, <3>3 DEF IInv, MergedUnlessRaced
    <3>4. CASE k = n
      BY <2>2, <2>3, <3>1, <3>2, <3>4 DEF Unknown
    <3> QED
      BY <2>3, <3>3, <3>4
  <2>8. ForeignKeys'
    BY <1>1, <2>3 DEF ForeignKeys
  <2>9. \A i \in ExistingRows' : i \in ExistingRows \/ stored'[i].content_hash \in {c}
    BY <2>2, <2>3
  <2>10. CASE request[h].targets \ {n} = {}
    <3>1. /\ request' = [Overtaken({c}) EXCEPT ![h] = NoWork] /\ Answered(h, n)
          /\ UNCHANGED replaced
      BY <1>3, <2>10 DEF Stored
    <3>2. Request(NoWork)'
      BY DEF Request, WriteJob, NoWork
    <3>3. /\ request' \in [Handler -> {NoWork} \cup WriteJob \cup DedupeJob]
          /\ \A g \in Handler : Request(request[g])'
      BY <2>3, <2>9, <3>1, <3>2, OthersOvertaken
    <3>4. \A a \in acks' : a \in acks \/ Named(a)'
      <4> DEFINE new == [key |-> request[h].key, content |-> c, id |-> n]
      <4>1. new.key = request[h].key /\ new.content = c /\ new.id = n
        OBVIOUS
      <4>2. acks' \subseteq acks \cup (IF request[h].key # NoKey THEN {new} ELSE {})
        BY <3>1 DEF Answered
      <4> HIDE DEF new
      <4>3. ASSUME NEW a, a = new, request[h].key # NoKey PROVE Named(a)'
        BY <2>2, <2>3, <2>4, <4>1, <4>3 DEF Named
      <4> QED
        BY <4>2, <4>3
    <3> QED
      BY <2>3, <2>5, <2>6, <2>7, <2>8, <3>1, <3>3, <3>4, TableStep
  <2>11. CASE request[h].targets \ {n} # {}
    <3>1. PICK j : j = Superseding(request[h], n)
      OBVIOUS
    <3>2. request' = [Overtaken({c}) EXCEPT ![h] = j] /\ UNCHANGED <<acks, replaced>>
      BY <1>3, <2>11, <3>1 DEF Stored, history, Superseding
    <3>3. request[h] \in WriteJob /\ n \in Nat
      BY <1>1, <2>4
    <3> HIDE DEF n
    <3>4. j \in WriteJob /\ j.phase = "supersede" /\ j.id = n /\ n \notin j.targets
      BY <3>1, <3>3, StoredJob
    <3>5. j.targets \subseteq request[h].targets /\ j.key = request[h].key /\ j.content = request[h].content
      BY <3>1, <3>3, StoredJob
    <3>6. Request(j)'
      <4>1. j.targets \subseteq 1 .. Len(stored')
        BY <1>1, <2>3, <3>5 DEF Request, n
      <4> QED
        BY <2>2, <2>3, <2>4, <3>4, <3>5, <4>1 DEF Request
    <3>7. /\ request' \in [Handler -> {NoWork} \cup WriteJob \cup DedupeJob]
          /\ \A g \in Handler : Request(request[g])'
      BY <2>3, <2>9, <3>2, <3>4, <3>6, OthersOvertaken
    <3> QED
      BY <2>3, <2>5, <2>6, <2>7, <2>8, <3>2, <3>7, TableStep
  <2> QED
    BY <2>10, <2>11
<1> QED
  BY <1>2, <1>3 DEF Insert

LEMMA SupersedeStep ==
    ASSUME IInv, Hashes, NEW h \in Handler, Supersede(h) PROVE IInv'
<1>1. /\ At(h, "supersede") /\ InvalidateRows(request[h].targets) /\ Goto(h, "link")
      /\ UNCHANGED <<supersedes, acks, replaced>> /\ request[h] \in WriteJob
      /\ request[h].phase = "supersede" /\ Request(request[h]) /\ Rows
  BY InPhase DEF Supersede, history
<1>2. /\ Moves /\ ExistingRows' = ExistingRows /\ Len(stored') = Len(stored)
      /\ \A t \in request[h].targets \cap ExistingRows : ~stored'[t].valid
  BY <1>1, TableInvalidated
<1>3. Rows' /\ KeyUnique' /\ MergedUnlessRaced'
  BY <1>2, OldRows
<1>4. ForeignKeys'
  BY <1>1, <1>2 DEF IInv, ForeignKeys
<1>5. PICK j : j = [request[h] EXCEPT !.phase = "link"]
  OBVIOUS
<1>6. /\ j \in WriteJob /\ j.phase = "link" /\ j.targets = request[h].targets
      /\ j.id = request[h].id /\ j.kind = request[h].kind /\ j.key = request[h].key
      /\ j.content = request[h].content
  BY <1>1, <1>5 DEF WriteJob, Searching
<1>7. Request(j)'
  <2>1. /\ j.targets \subseteq 1 .. Len(stored') /\ j.id \in 1 .. Len(stored')
        /\ j.id \notin j.targets
    BY <1>1, <1>2, <1>6 DEF Request
  <2>2. j.id \in ExistingRows' /\ j.kind = "evidence" =>
          stored'[j.id].key = j.key /\ stored'[j.id].content = j.content
    BY <1>1, <1>2, <1>6 DEF Request, Moves
  <2>3. \A t \in j.targets : Retired(t)'
    BY <1>2, <1>6, <2>1 DEF Retired
  <2> QED
    BY <1>6, <2>1, <2>2, <2>3 DEF Request
<1>8. request' = [Overtaken({}) EXCEPT ![h] = j]
  <2>1. Overtaken({}) = request
    BY DEF Overtaken, IInv, Jobs
  <2> QED
    BY <1>1, <1>5, <2>1 DEF Goto
<1>9. /\ request' \in [Handler -> {NoWork} \cup WriteJob \cup DedupeJob]
      /\ \A g \in Handler : Request(request[g])'
  BY <1>2, <1>6, <1>7, <1>8, OthersOvertaken
<1> QED
  BY <1>1, <1>2, <1>3, <1>4, <1>9, TableStep

LEMMA ArchiveStep ==
    ASSUME IInv, Hashes, NEW c \in Content, ArchivePage(c) PROVE IInv'
<1>1. PICK embedded \in BOOLEAN :
        stored' = Append(stored,
              [kind |-> "learning", content |-> c, content_hash |-> NoHash,
               key |-> NoKey, embedded |-> embedded, valid |-> TRUE,
               raced |-> FALSE])
  BY DEF ArchivePage
<1> DEFINE row == [kind |-> "learning", content |-> c, content_hash |-> NoHash,
                   key |-> NoKey, embedded |-> embedded, valid |-> TRUE,
                   raced |-> FALSE]
           n == Len(stored) + 1
<1>2. request' = Overtaken({c}) /\ UNCHANGED <<supersedes, acks, replaced>> /\ Rows /\ ForeignKeys
      /\ Len(stored) \in Nat
  BY RowsThere DEF ArchivePage, history, IInv
<1>3. row \in StoredRow /\ row.content_hash = NoHash /\ row.key = NoKey
  BY DEF StoredRow, Kind
<1> HIDE DEF row
<1>4. /\ Moves /\ ExistingRows' = ExistingRows \cup {n} /\ stored'[n] = row
      /\ \A i \in ExistingRows : stored'[i] = stored[i]
      /\ stored' \in Seq(StoredRow \cup {Deleted})
  <2>1. stored' = Append(stored, row)
    BY <1>1 DEF row
  <2> QED
    BY <1>2, <1>3, <2>1, TableGrows DEF Moves
<1>5. Rows'
  BY <1>2, <1>3, <1>4 DEF Rows
<1>6. KeyUnique'
  BY <1>3, <1>4 DEF IInv, KeyUnique
<1>7. MergedUnlessRaced'
  BY <1>3, <1>4 DEF IInv, MergedUnlessRaced
<1>8. ForeignKeys'
  BY <1>2, <1>4 DEF ForeignKeys
<1>9. ASSUME NEW g \in Handler
      PROVE  request'[g] \in {NoWork} \cup WriteJob \cup DedupeJob /\ Request(request[g])'
  <2>1. PICK k : k = Overtaken({c})[g]
    OBVIOUS
  <2>2. k \in {NoWork} \cup WriteJob \cup DedupeJob /\ Request(k)'
    BY <1>3, <1>4, <2>1, Overtakes
  <2> QED
    BY <1>2, <2>1, <2>2
<1>10. request' \in [Handler -> {NoWork} \cup WriteJob \cup DedupeJob]
  <2>1. request' = [g \in Handler |-> request'[g]]
    BY <1>2 DEF Overtaken
  <2> QED
    BY <1>9, <2>1
<1> QED
  BY <1>2, <1>4, <1>5, <1>6, <1>7, <1>8, <1>9, <1>10, TableStep

LEMMA DeleteStep ==
    ASSUME IInv, Hashes, NEW i \in 1 .. Len(stored), DeleteMemory(i) PROVE IInv'
<1>1. /\ i \in ExistingRows /\ Drop({i}) /\ request' = Overtaken({stored[i].content})
      /\ UNCHANGED <<acks, replaced>> /\ Rows /\ ForeignKeys
  BY DEF DeleteMemory, history, IInv
<1>2. Moves /\ ExistingRows' = ExistingRows \ {i} /\ ForeignKeys'
  BY <1>1, TableDropped
<1>3. Rows' /\ KeyUnique' /\ MergedUnlessRaced'
  BY <1>2, OldRows
<1>4. ASSUME NEW g \in Handler
      PROVE  request'[g] \in {NoWork} \cup WriteJob \cup DedupeJob /\ Request(request[g])'
  <2>1. PICK k : k = Overtaken({stored[i].content})[g]
    OBVIOUS
  <2>2. k \in {NoWork} \cup WriteJob \cup DedupeJob /\ Request(k)'
    BY <1>2, <2>1, Overtakes
  <2> QED
    BY <1>1, <2>1, <2>2
<1>5. request' \in [Handler -> {NoWork} \cup WriteJob \cup DedupeJob]
  <2>1. request' = [g \in Handler |-> request'[g]]
    BY <1>1 DEF Overtaken
  <2> QED
    BY <1>4, <2>1
<1> QED
  BY <1>1, <1>2, <1>3, <1>4, <1>5, TableStep

LEMMA DropStep ==
    ASSUME IInv, Hashes, NEW h \in Handler, DedupeDrop(h) PROVE IInv'
<1> DEFINE redundant == request[h].ids \ {Min(request[h].ids)}
           cs == {stored[i].content : i \in redundant \cap ExistingRows}
<1>1. /\ At(h, "drop") /\ Drop(redundant) /\ UNCHANGED <<acks, replaced>>
      /\ request' = [Overtaken(cs) EXCEPT ![h].phase = "pick"]
      /\ request[h] \in DedupeJob /\ Rows /\ ForeignKeys
  BY InPhase DEF DedupeDrop, history, IInv
<1> HIDE DEF redundant
<1>2. Moves /\ ExistingRows' = ExistingRows \ redundant /\ ForeignKeys'
  BY <1>1, TableDropped
<1>3. Rows' /\ KeyUnique' /\ MergedUnlessRaced'
  BY <1>2, OldRows
<1>4. \A i \in ExistingRows : i \in ExistingRows' \/ stored[i].content \in cs
  BY <1>2
<1> HIDE DEF cs
<1>5. PICK j : j = [request[h] EXCEPT !.phase = "pick"]
  OBVIOUS
<1>6. j \in DedupeJob /\ Request(j)'
  <2>1. j \in DedupeJob
    BY <1>1, <1>5 DEF DedupeJob
  <2> QED
    BY <2>1 DEF Request, WriteJob, DedupeJob
<1>7. request' = [Overtaken(cs) EXCEPT ![h] = j]
  <2>1. Overtaken(cs)[h] = request[h]
    BY <1>1 DEF Overtaken, DedupeJob, Searching
  <2> QED
    BY <1>1, <1>5, <2>1
<1>8. /\ request' \in [Handler -> {NoWork} \cup WriteJob \cup DedupeJob]
      /\ \A g \in Handler : Request(request[g])'
  BY <1>2, <1>4, <1>6, <1>7, OthersOvertaken
<1> QED
  BY <1>1, <1>2, <1>3, <1>8, TableStep

-----------------------------------------------------------------------------
LEMMA IInvStep == ASSUME IInv, Hashes, [StoreNext]_storeVars PROVE IInv'
<1>1. CASE UNCHANGED storeVars
  <2>1. UNCHANGED <<stored, supersedes, request, acks, replaced>>
    BY <1>1 DEF storeVars
  <2>2. Rows' /\ Jobs' /\ ForeignKeys' /\ KeyUnique' /\ MergedUnlessRaced'
    BY <2>1 DEF IInv, Rows, Jobs, ForeignKeys, KeyUnique, MergedUnlessRaced, ExistingRows
  <2>3. AcksNamed' /\ Superseded'
    BY <2>1 DEF IInv, AcksNamed, Named, Superseded, Retired, ExistingRows
  <2>4. \A h \in Handler : Request(request[h])'
    BY <2>1 DEF IInv, Request, Unknown, Retired, ExistingRows
  <2> QED
    BY <2>2, <2>3, <2>4 DEF IInv
<1>2. ASSUME NEW h \in Handler, NEW kind \in Kind, NEW c \in Content,
             NEW key \in Key \cup {NoKey}, NEW targets \in Targets,
             CreateMemory(h, kind, c, key, targets)
      PROVE  IInv'
  BY <1>2, CreateStep
<1>3. ASSUME NEW h \in Handler,
             \/ CheckKey(h) \/ Dedup(h) \/ Merge(h) \/ Insert(h) \/ Supersede(h)
             \/ Link(h) \/ BulkDedup(h)
      PROVE  IInv'
  BY <1>3, CheckKeyStep, DedupStep, MergeStep, InsertStep, SupersedeStep, LinkStep,
     BulkDedupStep
<1>4. ASSUME NEW h \in Handler,
             \/ Dedupe(h) \/ DedupePick(h) \/ DedupeDrop(h) \/ FailRequest(h)
             \/ Relink(h, "sources", 1, "targets") \/ Relink(h, "targets", 2, "drop")
      PROVE  IInv'
  BY <1>4, DedupeStep, PickStep, DropStep, FailStep, RelinkStep
<1>5. ASSUME NEW c \in Content, ArchivePage(c) \/ \E h \in Handler : BulkImport(h, c)
      PROVE  IInv'
  BY <1>5, ArchiveStep, BulkStep
<1>6. ASSUME NEW i \in 1 .. Len(stored), DeleteMemory(i) PROVE IInv'
  BY <1>6, DeleteStep
<1> QED
  BY <1>1, <1>2, <1>3, <1>4, <1>5, <1>6 DEF StoreNext

\* Whatever requests overlap and fail between their statements: evidence that is
\* written again under its key is answered with the memory of the first time;
\* two rows of one content_hash exist only if requests about it overlapped or the
\* later one is evidence; what an answered write has superseded is no longer
\* valid and never is again; and links join two memories that exist, although
\* dedupe_memories moves and deletes them (create_memory, bulk_import,
\* _apply_superseding_operations, delete_memory, dedupe_memories).
THEOREM StoreKept == ASSUME Hashes PROVE StoreSpec => []StoreSafe
<1> QED
  BY IInvInit, IInvStep, IInvImplies, PTL DEF StoreSpec

-----------------------------------------------------------------------------
(* The task registry                                                        *)

\* A scanner between two sources has none.
Sources == NoSource \notin Source /\ MaxTasks \in Nat /\ MaxReviews \in Nat

Row == [source : Source, scanned : BOOLEAN, retry : Nat,
        status : TaskStatus, review : TaskReviewStatus,
        refine : {"pending", "approved", "needs_revision"}]

Review == [row : Nat, how : {"none", "endpoint", "completion"}, retry : Nat,
           decision : Decision \cup {"none"}]

RegistryTyped ==
    /\ backlog \in Seq(Row) /\ Len(backlog) <= MaxTasks
    /\ verdict \in Seq({"none", "completed", "patched"} \cup Decision)
    /\ reworks \in Seq(Nat)
    /\ Len(verdict) = Len(backlog) /\ Len(reworks) = Len(backlog)
    /\ scanning \in [Scanner -> Source \cup {NoSource}]
    /\ refining \subseteq TaskRow
    /\ reviewing \in [Reviewer -> Review]

\* A source that a scanner has found absent has no scanned row, unless another
\* scanner inserted one meanwhile.
LookedUp ==
    \A s \in Scanner, t \in TaskRow :
        scanning[s] # NoSource /\ backlog[t].source = scanning[s] /\ backlog[t].scanned
        => scanning[s] \in raced

\* A review under way is of a row, and the count it has read is not ahead.
ReviewKnown ==
    \A r \in Reviewer : reviewing[r] # Rest =>
        /\ reviewing[r].row \in TaskRow
        /\ reviewing[r].how \in {"endpoint", "completion"}
        /\ reviewing[r].decision \in Decision
        /\ reviewing[r].how = "completion" => reviewing[r].decision # "block"
        /\ reviewing[r].retry <= reworks[reviewing[r].row]

\* The refiner finds nothing to do in a task the endpoint approved.
ApprovedRefined ==
    \A t \in TaskRow :
        verdict[t] = "approve" =>
            (backlog[t].status = "done" /\ backlog[t].refine = "approved") \/ t \in clobbered

RegistryInv ==
    /\ RegistryTyped /\ OneRowPerSource /\ RetriesCounted
    /\ LookedUp /\ ReviewKnown /\ ApprovedRefined

-----------------------------------------------------------------------------
\* A new row comes last and leaves the others as they are.
LEMMA RowAdded ==
    ASSUME Sources, RegistryInv, NEW row \in Row, InsertTask(row), row.retry = 0
    PROVE  /\ backlog' \in Seq(Row) /\ Len(backlog') <= MaxTasks
           /\ verdict' \in Seq({"none", "completed", "patched"} \cup Decision)
           /\ reworks' \in Seq(Nat)
           /\ Len(verdict') = Len(backlog') /\ Len(reworks') = Len(backlog')
           /\ TaskRow' = TaskRow \cup {Len(backlog) + 1} /\ Len(backlog) + 1 \notin TaskRow
           /\ \A t \in TaskRow : /\ backlog'[t] = backlog[t] /\ verdict'[t] = verdict[t]
                                 /\ reworks'[t] = reworks[t]
           /\ backlog'[Len(backlog) + 1] = row /\ verdict'[Len(backlog) + 1] = "none"
           /\ reworks'[Len(backlog) + 1] = 0
           /\ \A t \in TaskRow : t < Len(backlog) + 1 /\ t \in Nat
<1>1. RegistryTyped
  BY DEF RegistryInv
<1>2. /\ backlog' = Append(backlog, row) /\ verdict' = Append(verdict, "none")
      /\ reworks' = Append(reworks, 0) /\ Len(backlog) < MaxTasks
  BY DEF InsertTask
<1>3. /\ backlog' \in Seq(Row) /\ Len(backlog') = Len(backlog) + 1
      /\ verdict' \in Seq({"none", "completed", "patched"} \cup Decision)
      /\ Len(verdict') = Len(verdict) + 1
      /\ reworks' \in Seq(Nat) /\ Len(reworks') = Len(reworks) + 1
      /\ Len(backlog) \in Nat
  BY <1>1, <1>2 DEF RegistryTyped
<1>4. /\ TaskRow' = TaskRow \cup {Len(backlog) + 1} /\ Len(backlog) + 1 \notin TaskRow
      /\ \A t \in TaskRow : t < Len(backlog) + 1 /\ t \in Nat
  BY <1>3 DEF TaskRow
<1>5. \A t \in TaskRow : /\ backlog'[t] = backlog[t] /\ verdict'[t] = verdict[t]
                         /\ reworks'[t] = reworks[t]
  BY <1>1, <1>2 DEF RegistryTyped, TaskRow
<1>6. /\ backlog'[Len(backlog) + 1] = row /\ verdict'[Len(backlog) + 1] = "none"
      /\ reworks'[Len(backlog) + 1] = 0
  BY <1>1, <1>2 DEF RegistryTyped
<1>7. /\ Len(backlog') <= MaxTasks
      /\ Len(verdict') = Len(backlog') /\ Len(reworks') = Len(backlog')
  BY <1>1, <1>2, <1>3 DEF RegistryTyped, Sources
<1> QED
  BY <1>3, <1>4, <1>5, <1>6, <1>7

\* What insertions keep of the reviews and the counts.
LEMMA RowAddedKeeps ==
    ASSUME Sources, RegistryInv, NEW row \in Row, InsertTask(row), row.retry = 0,
           UNCHANGED <<refining, reviewing, clobbered>>
    PROVE  /\ refining' \subseteq TaskRow' /\ reviewing' \in [Reviewer -> Review]
           /\ RetriesCounted' /\ ReviewKnown' /\ ApprovedRefined'
<1>1. RegistryTyped /\ RetriesCounted /\ ReviewKnown /\ ApprovedRefined
  BY DEF RegistryInv
<1>2. /\ TaskRow' = TaskRow \cup {Len(backlog) + 1} /\ Len(backlog) + 1 \notin TaskRow
      /\ \A t \in TaskRow : /\ backlog'[t] = backlog[t] /\ verdict'[t] = verdict[t]
                            /\ reworks'[t] = reworks[t]
      /\ backlog'[Len(backlog) + 1] = row /\ verdict'[Len(backlog) + 1] = "none"
      /\ reworks'[Len(backlog) + 1] = 0
  BY RowAdded
<1>3. refining' \subseteq TaskRow' /\ reviewing' \in [Reviewer -> Review]
  BY <1>1, <1>2 DEF RegistryTyped
<1>4. RetriesCounted'
  BY <1>1, <1>2 DEF RetriesCounted
<1>5. ReviewKnown'
  BY <1>1, <1>2 DEF ReviewKnown
<1>6. ApprovedRefined'
  BY <1>1, <1>2 DEF ApprovedRefined
<1> QED
  BY <1>3, <1>4, <1>5, <1>6

LEMMA CreateTaskStep ==
    ASSUME Sources, RegistryInv, NEW src \in Source, CreateTask(src)
    PROVE  RegistryInv'
<1> DEFINE row == [source |-> src, scanned |-> FALSE, retry |-> 0, status |-> "pending",
                   review |-> "pending_review", refine |-> "pending"]
<1>1. row \in Row /\ row.retry = 0 /\ row.scanned = FALSE
  BY DEF Row, TaskStatus, TaskReviewStatus
<1>2. InsertTask(row) /\ UNCHANGED <<scanning, refining, reviewing, raced, clobbered>>
  BY DEF CreateTask
<1> HIDE DEF row
<1>3. /\ backlog' \in Seq(Row) /\ Len(backlog') <= MaxTasks
      /\ verdict' \in Seq({"none", "completed", "patched"} \cup Decision)
      /\ reworks' \in Seq(Nat)
      /\ Len(verdict') = Len(backlog') /\ Len(reworks') = Len(backlog')
      /\ TaskRow' = TaskRow \cup {Len(backlog) + 1}
      /\ \A t \in TaskRow : backlog'[t] = backlog[t]
      /\ backlog'[Len(backlog) + 1] = row
  BY <1>1, <1>2, RowAdded
<1>4. /\ refining' \subseteq TaskRow' /\ reviewing' \in [Reviewer -> Review]
      /\ RetriesCounted' /\ ReviewKnown' /\ ApprovedRefined'
  BY <1>1, <1>2, RowAddedKeeps
<1>5. RegistryTyped'
  BY <1>2, <1>3, <1>4 DEF RegistryInv, RegistryTyped
<1>6. OneRowPerSource'
  BY <1>1, <1>2, <1>3 DEF RegistryInv, OneRowPerSource
<1>7. LookedUp'
  BY <1>1, <1>2, <1>3 DEF RegistryInv, LookedUp
<1> QED
  BY <1>4, <1>5, <1>6, <1>7 DEF RegistryInv

LEMMA ScanInsertStep ==
    ASSUME Sources, RegistryInv, NEW s \in Scanner, ScanInsert(s)
    PROVE  RegistryInv'
<1> DEFINE src == scanning[s]
<1> DEFINE row == ScannedRow(src)
<1>1. src \in Source /\ src # NoSource
  BY DEF ScanInsert, RegistryInv, RegistryTyped
<1>2. row \in Row /\ row.retry = 0 /\ row.source = src
  BY <1>1 DEF ScannedRow, Row, TaskStatus, TaskReviewStatus
<1>3. /\ InsertTask(row) /\ UNCHANGED <<refining, reviewing, clobbered>>
      /\ scanning' = [scanning EXCEPT ![s] = NoSource]
      /\ raced' = raced \cup {scanning[t] : t \in {u \in Scanner \ {s} : scanning[u] = src}}
  BY DEF ScanInsert
<1> HIDE DEF row
<1>4. /\ backlog' \in Seq(Row) /\ Len(backlog') <= MaxTasks
      /\ verdict' \in Seq({"none", "completed", "patched"} \cup Decision)
      /\ reworks' \in Seq(Nat)
      /\ Len(verdict') = Len(backlog') /\ Len(reworks') = Len(backlog')
      /\ TaskRow' = TaskRow \cup {Len(backlog) + 1}
      /\ \A t \in TaskRow : backlog'[t] = backlog[t]
      /\ backlog'[Len(backlog) + 1] = row
      /\ \A t \in TaskRow : t < Len(backlog) + 1 /\ t \in Nat
      /\ Len(backlog) \in Nat
  BY <1>2, <1>3, RowAdded DEF RegistryInv, RegistryTyped
<1>5. /\ refining' \subseteq TaskRow' /\ reviewing' \in [Reviewer -> Review]
      /\ RetriesCounted' /\ ReviewKnown' /\ ApprovedRefined'
  BY <1>2, <1>3, RowAddedKeeps
<1>6. RegistryTyped'
  BY <1>3, <1>4, <1>5 DEF RegistryInv, RegistryTyped
<1>7. raced \subseteq raced' /\ \A u \in Scanner : u # s /\ scanning[u] = src => src \in raced'
  BY <1>3
<1>8. OneRowPerSource'
  <2> SUFFICES ASSUME NEW t \in TaskRow', NEW u \in TaskRow', t < u,
                      backlog'[t].source = backlog'[u].source,
                      backlog'[u].scanned, backlog'[t].scanned
               PROVE  backlog'[u].source \in raced'
    BY DEF OneRowPerSource
  <2>1. CASE u \in TaskRow
    <3>1. t \in TaskRow
      BY <2>1, <1>4
    <3> QED
      BY <2>1, <3>1, <1>4, <1>7 DEF RegistryInv, OneRowPerSource
  <2>2. CASE u = Len(backlog) + 1
    <3>3. t \in TaskRow
      BY <2>2, <1>4
    <3>4. backlog'[t] = backlog[t] /\ backlog'[u] = row
      BY <2>2, <3>3, <1>4
    <3>1. t \in TaskRow /\ backlog[t].source = src /\ backlog[t].scanned
      BY <3>3, <3>4, <1>2
    <3>2. src \in raced
      BY <3>1, <1>1 DEF RegistryInv, LookedUp
    <3> QED
      BY <2>2, <3>2, <1>2, <1>4, <1>7
  <2> QED
    BY <2>1, <2>2, <1>4
<1>9. LookedUp'
  <2> SUFFICES ASSUME NEW v \in Scanner, NEW t \in TaskRow', scanning'[v] # NoSource,
                      backlog'[t].source = scanning'[v], backlog'[t].scanned
               PROVE  scanning'[v] \in raced'
    BY DEF LookedUp
  <2>1. v # s /\ scanning'[v] = scanning[v]
    BY <1>3 DEF RegistryInv, RegistryTyped
  <2>2. CASE t \in TaskRow
    BY <2>1, <2>2, <1>4, <1>7 DEF RegistryInv, LookedUp
  <2>3. CASE t = Len(backlog) + 1
    BY <2>1, <2>3, <1>2, <1>4, <1>7
  <2> QED
    BY <2>2, <2>3, <1>4
<1> QED
  BY <1>5, <1>6, <1>8, <1>9 DEF RegistryInv

LEMMA ScanLookupStep ==
    ASSUME Sources, RegistryInv, NEW s \in Scanner, NEW src \in Source, ScanLookup(s, src)
    PROVE  RegistryInv'
<1>1. /\ ~ExistingRef(src) /\ scanning' = [scanning EXCEPT ![s] = src]
      /\ UNCHANGED <<backlog, refining, reviewing, reviews, verdict, reworks, raced, clobbered>>
  BY DEF ScanLookup
<1>2. TaskRow' = TaskRow
  BY <1>1 DEF TaskRow
<1>3. RegistryTyped'
  BY <1>1, <1>2 DEF RegistryInv, RegistryTyped
<1>4. OneRowPerSource' /\ RetriesCounted' /\ ReviewKnown' /\ ApprovedRefined'
  BY <1>1, <1>2 DEF RegistryInv, OneRowPerSource, RetriesCounted, ReviewKnown, ApprovedRefined
<1>5. LookedUp'
  BY <1>1, <1>2 DEF RegistryInv, RegistryTyped, LookedUp, ExistingRef
<1> QED
  BY <1>3, <1>4, <1>5 DEF RegistryInv

-----------------------------------------------------------------------------
\* What is known of a row.
LEMMA KnownRow ==
    ASSUME RegistryInv, NEW t \in TaskRow
    PROVE  /\ t \in Nat /\ backlog[t] \in Row /\ backlog[t].retry \in Nat
           /\ reworks[t] \in Nat /\ verdict[t] \in {"none", "completed", "patched"} \cup Decision
           /\ backlog[t].retry <= reworks[t]
           /\ t \notin clobbered => backlog[t].retry = reworks[t]
           /\ verdict[t] = "approve" =>
                (backlog[t].status = "done" /\ backlog[t].refine = "approved") \/ t \in clobbered
<1>1. RegistryTyped /\ RetriesCounted /\ ApprovedRefined
  BY DEF RegistryInv
<1>2. /\ t \in Nat /\ backlog[t] \in Row /\ reworks[t] \in Nat
      /\ verdict[t] \in {"none", "completed", "patched"} \cup Decision
  BY <1>1 DEF RegistryTyped, TaskRow
<1>3. backlog[t].retry \in Nat
  BY <1>2 DEF Row
<1>4. backlog[t].retry <= reworks[t] /\ (t \notin clobbered => backlog[t].retry = reworks[t])
  BY <1>1 DEF RetriesCounted
<1>5. verdict[t] = "approve" =>
        (backlog[t].status = "done" /\ backlog[t].refine = "approved") \/ t \in clobbered
  BY <1>1 DEF ApprovedRefined
<1> QED
  BY <1>2, <1>3, <1>4, <1>5

-----------------------------------------------------------------------------
\* A step that rewrites one row, and neither inserts nor looks up.
LEMMA RowWritten ==
    ASSUME Sources, RegistryInv, NEW t \in TaskRow, NEW new \in Row,
           backlog' = [backlog EXCEPT ![t] = new],
           new.source = backlog[t].source, new.scanned = backlog[t].scanned,
           NEW word \in {"none", "completed", "patched"} \cup Decision,
           verdict' = [verdict EXCEPT ![t] = word],
           NEW count \in Nat, reworks' = [reworks EXCEPT ![t] = count],
           reworks[t] <= count, clobbered \subseteq clobbered',
           new.retry <= count, t \notin clobbered' => new.retry = count,
           word = "approve" =>
               (new.status = "done" /\ new.refine = "approved") \/ t \in clobbered',
           refining' \subseteq refining,
           \A r \in Reviewer : reviewing'[r] \in {reviewing[r], Rest},
           reviewing' \in [Reviewer -> Review], UNCHANGED <<scanning, raced>>
    PROVE  RegistryInv'
<1>1. /\ RegistryTyped /\ OneRowPerSource /\ RetriesCounted
      /\ LookedUp /\ ReviewKnown /\ ApprovedRefined
  BY DEF RegistryInv
<1>2. /\ backlog' \in Seq(Row) /\ Len(backlog') = Len(backlog) /\ backlog'[t] = new
      /\ verdict' \in Seq({"none", "completed", "patched"} \cup Decision)
      /\ Len(verdict') = Len(verdict) /\ verdict'[t] = word
      /\ reworks' \in Seq(Nat) /\ Len(reworks') = Len(reworks) /\ reworks'[t] = count
  BY <1>1 DEF RegistryTyped, TaskRow
<1>3. TaskRow' = TaskRow
  BY <1>2 DEF TaskRow
<1>4. \A u \in TaskRow : u # t => /\ backlog'[u] = backlog[u] /\ verdict'[u] = verdict[u]
                                  /\ reworks'[u] = reworks[u]
  BY <1>1 DEF RegistryTyped, TaskRow
<1>5. \A u \in TaskRow : /\ backlog'[u].source = backlog[u].source
                         /\ backlog'[u].scanned = backlog[u].scanned
  BY <1>2, <1>4
<1>6. RegistryTyped'
  BY <1>1, <1>2, <1>3 DEF RegistryTyped
<1>7. OneRowPerSource'
  BY <1>1, <1>3, <1>5 DEF OneRowPerSource
<1>8. LookedUp'
  BY <1>1, <1>3, <1>5 DEF LookedUp
<1>9. RetriesCounted'
  BY <1>1, <1>2, <1>3, <1>4 DEF RetriesCounted
<1>10. ApprovedRefined'
  BY <1>1, <1>2, <1>3, <1>4 DEF ApprovedRefined
<1>11. ReviewKnown'
  <2> SUFFICES ASSUME NEW r \in Reviewer, reviewing'[r] # Rest
               PROVE  /\ reviewing[r].row \in TaskRow
                      /\ reviewing[r].how \in {"endpoint", "completion"}
                      /\ reviewing[r].decision \in Decision
                      /\ reviewing[r].how = "completion" => reviewing[r].decision # "block"
                      /\ reviewing[r].retry <= reworks'[reviewing[r].row]
                      /\ reviewing'[r] = reviewing[r]
    BY <1>3 DEF ReviewKnown
  <2>1. /\ reviewing'[r] = reviewing[r] /\ reviewing[r].row \in TaskRow
        /\ reviewing[r].how \in {"endpoint", "completion"}
        /\ reviewing[r].decision \in Decision
        /\ reviewing[r].how = "completion" => reviewing[r].decision # "block"
        /\ reviewing[r].retry <= reworks[reviewing[r].row]
        /\ reviewing[r].retry \in Nat
    BY <1>1 DEF ReviewKnown, RegistryTyped, Review
  <2>2. /\ reworks[reviewing[r].row] <= reworks'[reviewing[r].row]
        /\ reworks[reviewing[r].row] \in Nat /\ reworks'[reviewing[r].row] \in Nat
    <3>1. \A u \in TaskRow : reworks[u] \in Nat /\ reworks'[u] \in Nat
      BY <1>1, <1>2 DEF RegistryTyped, TaskRow
    <3>2. \A u \in TaskRow : reworks[u] <= reworks'[u]
      BY <1>2, <1>4, <3>1
    <3> QED
      BY <2>1, <3>1, <3>2
  <2> QED
    BY <2>1, <2>2
<1> QED
  BY <1>6, <1>7, <1>8, <1>9, <1>10, <1>11 DEF RegistryInv

LEMMA RefineWriteStep ==
    ASSUME Sources, RegistryInv, NEW t \in TaskRow, RefineWrite(t)
    PROVE  RegistryInv'
<1> DEFINE old == backlog[t]
<1>1. /\ RegistryTyped /\ RetriesCounted /\ ApprovedRefined
      /\ old \in Row /\ verdict[t] \in {"none", "completed", "patched"} \cup Decision
      /\ reworks[t] \in Nat /\ reworks[t] + 1 \in Nat
      /\ verdict \in Seq({"none", "completed", "patched"} \cup Decision) /\ reworks \in Seq(Nat)
  BY DEF RegistryInv, RegistryTyped, TaskRow
<1>2. /\ refining' \subseteq refining /\ UNCHANGED <<scanning, reviewing, verdict, raced>>
      /\ clobbered \subseteq clobbered'
  BY DEF RefineWrite
<1>3. verdict' = [verdict EXCEPT ![t] = verdict[t]]
  BY <1>1, <1>2
<1>4. /\ old.retry <= reworks[t] /\ old.retry \in Nat
      /\ t \notin clobbered => old.retry = reworks[t]
      /\ verdict[t] = "approve" =>
           (old.status = "done" /\ old.refine = "approved") \/ t \in clobbered
  BY KnownRow
<1>5. reviewing' \in [Reviewer -> Review] /\ \A r \in Reviewer : reviewing'[r] \in {reviewing[r], Rest}
  BY <1>1, <1>2 DEF RegistryTyped
<1>6. CASE old.source \in Poor
  <2> DEFINE new == [old EXCEPT !.refine = "needs_revision", !.review = "needs_input",
                                !.status = "pending", !.retry = old.retry + 1]
  <2>5. backlog' = [backlog EXCEPT ![t] = new]
    <3>1. backlog' = [backlog EXCEPT ![t] = IF old.source \in Poor THEN new
                                            ELSE [old EXCEPT !.refine = "approved"]]
      BY DEF RefineWrite
    <3> HIDE DEF new
    <3> QED
      BY <1>6, <3>1
  <2>6. reworks' = [reworks EXCEPT ![t] = reworks[t] + 1]
    BY <1>6 DEF RefineWrite
  <2>7. clobbered' = IF old.refine # "pending" THEN clobbered \cup {t} ELSE clobbered
    BY <1>6 DEF RefineWrite
  <2>1. /\ backlog' = [backlog EXCEPT ![t] = new]
        /\ reworks' = [reworks EXCEPT ![t] = reworks[t] + 1]
        /\ clobbered' = IF old.refine # "pending" THEN clobbered \cup {t} ELSE clobbered
    BY <2>5, <2>6, <2>7
  <2>2. /\ new \in Row /\ new.source = old.source /\ new.scanned = old.scanned
        /\ new.retry = old.retry + 1
    <3>1. old.retry + 1 \in Nat
      BY <1>4
    <3> QED
      BY <1>1, <3>1 DEF Row, TaskStatus, TaskReviewStatus
  <2> HIDE DEF new
  <2>3. verdict[t] = "approve" => t \in clobbered'
    BY <1>4, <2>1
  <2>4. /\ reworks[t] <= reworks[t] + 1 /\ new.retry <= reworks[t] + 1
        /\ t \notin clobbered' => new.retry = reworks[t] + 1
    BY <1>1, <1>2, <1>4, <2>2
  <2> QED
    BY <1>1, <1>2, <1>3, <1>5, <2>1, <2>2, <2>3, <2>4, RowWritten
<1>7. CASE old.source \notin Poor
  <2> DEFINE new == [old EXCEPT !.refine = "approved"]
  <2>1. backlog' = [backlog EXCEPT ![t] = new] /\ UNCHANGED <<reworks, clobbered>>
    BY <1>7 DEF RefineWrite
  <2>2. /\ new \in Row /\ new.source = old.source /\ new.scanned = old.scanned
        /\ new.retry = old.retry /\ new.status = old.status /\ new.refine = "approved"
    BY <1>1 DEF Row
  <2> HIDE DEF new
  <2>3. reworks' = [reworks EXCEPT ![t] = reworks[t]] /\ reworks[t] <= reworks[t]
    BY <1>1, <2>1
  <2>4. verdict[t] = "approve" =>
           (new.status = "done" /\ new.refine = "approved") \/ t \in clobbered'
    BY <1>4, <2>1, <2>2
  <2> QED
    BY <1>1, <1>2, <1>3, <1>4, <1>5, <2>1, <2>2, <2>3, <2>4, RowWritten
<1> QED
  BY <1>6, <1>7

\* A PATCH that names a status takes the approval back; one that does not
\* leaves the status alone.
LEMMA UpdateTaskStep ==
    ASSUME Sources, RegistryInv, NEW t \in TaskRow, NEW p \in Patches, UpdateTask(t, p)
    PROVE  RegistryInv'
<1> DEFINE old == backlog[t]
<1> DEFINE new == [old EXCEPT !.status = Patched(@, p.status), !.review = Patched(@, p.review)]
<1> DEFINE word == IF p.status = "unset" THEN verdict[t] ELSE "patched"
<1>1. /\ RegistryTyped /\ RetriesCounted /\ ApprovedRefined
      /\ old \in Row /\ verdict[t] \in {"none", "completed", "patched"} \cup Decision
      /\ reworks[t] \in Nat /\ backlog \in Seq(Row)
      /\ verdict \in Seq({"none", "completed", "patched"} \cup Decision) /\ reworks \in Seq(Nat)
  BY DEF RegistryInv, RegistryTyped, TaskRow
<1>2. /\ p.status \in TaskStatus \cup {"unset"} /\ p.review \in TaskReviewStatus \cup {"unset"}
  BY PatchAssumption DEF TaskUpdate
<1>3. /\ backlog' = [backlog EXCEPT ![t] = new]
      /\ UNCHANGED <<scanning, refining, reviewing, reworks, raced, clobbered>>
  BY <1>1 DEF UpdateTask, TaskRow
<1>4. verdict' = [verdict EXCEPT ![t] = word]
  <2>1. verdict = [verdict EXCEPT ![t] = verdict[t]]
    BY <1>1
  <2> QED
    BY <2>1 DEF UpdateTask
<1>5. /\ new \in Row /\ new.source = old.source /\ new.scanned = old.scanned
      /\ new.retry = old.retry /\ new.refine = old.refine
      /\ p.status = "unset" => new.status = old.status
  BY <1>1, <1>2 DEF Row, Patched
<1> HIDE DEF new
<1>6. /\ word \in {"none", "completed", "patched"} \cup Decision
      /\ word = "approve" => p.status = "unset" /\ verdict[t] = "approve"
  BY <1>1
<1> HIDE DEF word
<1>7. reworks' = [reworks EXCEPT ![t] = reworks[t]] /\ reworks[t] <= reworks[t]
  BY <1>1, <1>3
<1>8. /\ old.retry <= reworks[t] /\ (t \notin clobbered => old.retry = reworks[t])
      /\ word = "approve" =>
           (new.status = "done" /\ new.refine = "approved") \/ t \in clobbered'
  <2>1. /\ old.retry <= reworks[t] /\ (t \notin clobbered => old.retry = reworks[t])
        /\ verdict[t] = "approve" =>
             (old.status = "done" /\ old.refine = "approved") \/ t \in clobbered
    BY KnownRow
  <2> QED
    BY <2>1, <1>3, <1>5, <1>6
<1>9. reviewing' \in [Reviewer -> Review] /\ \A r \in Reviewer : reviewing'[r] \in {reviewing[r], Rest}
  BY <1>1, <1>3 DEF RegistryTyped
<1>10. /\ new.source = backlog[t].source /\ new.scanned = backlog[t].scanned
       /\ new.retry <= reworks[t] /\ (t \notin clobbered' => new.retry = reworks[t])
       /\ clobbered \subseteq clobbered' /\ refining' \subseteq refining
  BY <1>3, <1>5, <1>8
<1> HIDE DEF old
<1> QED
  BY <1>1, <1>3, <1>4, <1>5, <1>6, <1>7, <1>8, <1>9, <1>10, RowWritten

\* The count a review writes is right if nobody raised it since it was read,
\* and never ahead.
LEMMA RetryCounted ==
    ASSUME NEW v, NEW old \in Nat, NEW n \in Nat, old <= n, v.retry \in Nat, v.retry <= n,
           NEW count, count = IF v.decision = "rework" THEN n + 1 ELSE n
    PROVE  /\ count \in Nat /\ n <= count /\ RetryOfReview(v, old) <= count
           /\ old = n /\ (v.how = "endpoint" => v.retry = old)
                => RetryOfReview(v, old) = count
<1> DEFINE base == IF v.how = "endpoint" THEN v.retry ELSE old
<1>1. base \in Nat /\ base <= n
  OBVIOUS
<1>2. old = n /\ (v.how = "endpoint" => v.retry = old) => base = n
  OBVIOUS
<1>3. RetryOfReview(v, old) = IF v.decision = "rework" THEN base + 1 ELSE base
  BY DEF RetryOfReview
<1> HIDE DEF base
<1>4. CASE v.decision = "rework"
  BY <1>1, <1>2, <1>3, <1>4
<1>5. CASE v.decision # "rework"
  BY <1>1, <1>2, <1>3, <1>5
<1> QED
  BY <1>4, <1>5

LEMMA ReviewWriteStep ==
    ASSUME Sources, RegistryInv, NEW r \in Reviewer, ReviewWrite(r)
    PROVE  RegistryInv'
<1> DEFINE v == reviewing[r]
<1> DEFINE t == v.row
<1> DEFINE old == backlog[t]
<1> DEFINE count == IF v.decision = "rework" THEN reworks[t] + 1 ELSE reworks[t]
<1> DEFINE word == IF v.how = "completion" /\ v.decision = "approve"
                   THEN "completed" ELSE v.decision
<1> DEFINE new == [old EXCEPT
                     !.status = CASE v.decision = "approve" -> "done"
                                  [] v.decision = "block"   -> "blocked"
                                  [] OTHER                  -> "pending",
                     !.review = CASE v.decision = "approve" -> "passed"
                                  [] v.decision = "block"   -> "blocked"
                                  [] OTHER                  -> "needs_input",
                     !.refine = RefineOfReview(v, @), !.retry = RetryOfReview(v, @)]
<1>1. /\ v # Rest /\ t \in TaskRow /\ v.how \in {"endpoint", "completion"}
      /\ v.decision \in Decision /\ v.retry <= reworks[t] /\ v.retry \in Nat
  BY DEF ReviewWrite, RegistryInv, ReviewKnown, RegistryTyped, Review
<1>2. /\ RegistryTyped /\ RetriesCounted /\ ApprovedRefined
      /\ old \in Row /\ reworks[t] \in Nat /\ backlog \in Seq(Row)
      /\ verdict \in Seq({"none", "completed", "patched"} \cup Decision) /\ reworks \in Seq(Nat)
  BY <1>1 DEF RegistryInv, RegistryTyped, TaskRow
<1>3. /\ old.retry <= reworks[t] /\ old.retry \in Nat
      /\ t \notin clobbered => old.retry = reworks[t]
  BY <1>1, KnownRow
<1>4. backlog' = [backlog EXCEPT ![t] = new]
  BY <1>1, <1>2 DEF ReviewWrite, TaskRow
<1>5. /\ verdict' = [verdict EXCEPT ![t] = word]
      /\ reworks' = [reworks EXCEPT ![t] = count]
      /\ clobbered' = IF v.how = "endpoint" /\ old.retry # v.retry
                      THEN clobbered \cup {t} ELSE clobbered
      /\ reviewing' = [reviewing EXCEPT ![r] = Rest]
      /\ UNCHANGED <<scanning, refining, raced>>
  <2>1. verdict' = [verdict EXCEPT ![t] = word]
    BY DEF ReviewWrite
  <2>2. reworks' = [reworks EXCEPT ![t] = count]
    <3>1. reworks = [reworks EXCEPT ![t] = reworks[t]]
      BY <1>2
    <3> QED
      BY <3>1 DEF ReviewWrite
  <2>3. clobbered' = IF v.how = "endpoint" /\ old.retry # v.retry
                     THEN clobbered \cup {t} ELSE clobbered
    BY DEF ReviewWrite
  <2> QED
    BY <2>1, <2>2, <2>3 DEF ReviewWrite
<1>6. /\ new \in Row /\ new.source = old.source /\ new.scanned = old.scanned
      /\ new.retry = RetryOfReview(v, old.retry)
      /\ v.decision = "approve" /\ v.how = "endpoint" =>
            new.status = "done" /\ new.refine = "approved"
  <2>1. RetryOfReview(v, old.retry) \in Nat
    BY <1>1, <1>3 DEF RetryOfReview
  <2>2. RefineOfReview(v, old.refine) \in {"pending", "approved", "needs_revision"}
    BY <1>2 DEF RefineOfReview, Row
  <2>3. /\ v.decision = "approve" /\ v.how = "endpoint" =>
             RefineOfReview(v, old.refine) = "approved"
    BY DEF RefineOfReview
  <2>4. new = [old EXCEPT !.status = new.status, !.review = new.review,
                          !.refine = RefineOfReview(v, old.refine),
                          !.retry = RetryOfReview(v, old.retry)]
        /\ new.status \in {"pending", "blocked", "done"}
        /\ new.review \in {"needs_input", "passed", "blocked"}
        /\ (v.decision = "approve" => new.status = "done")
    BY <1>1, <1>2 DEF Row, Decision
  <2> HIDE DEF new
  <2> QED
    BY <2>1, <2>2, <2>3, <2>4, <1>2 DEF Row, TaskStatus, TaskReviewStatus
<1>7. /\ count \in Nat /\ reworks[t] <= count /\ new.retry <= count
      /\ t \notin clobbered' => new.retry = count
  <2>1. count = IF v.decision = "rework" THEN reworks[t] + 1 ELSE reworks[t]
    OBVIOUS
  <2> HIDE DEF count
  <2>2. /\ count \in Nat /\ reworks[t] <= count /\ RetryOfReview(v, old.retry) <= count
        /\ old.retry = reworks[t] /\ (v.how = "endpoint" => v.retry = old.retry)
             => RetryOfReview(v, old.retry) = count
    <3> DEFINE had == old.retry
               n == reworks[t]
    <3>1. /\ had \in Nat /\ n \in Nat /\ had <= n /\ v.retry \in Nat /\ v.retry <= n
          /\ count = IF v.decision = "rework" THEN n + 1 ELSE n
      BY <1>1, <1>2, <1>3, <2>1
    <3> HIDE DEF v, had, n
    <3>2. /\ count \in Nat /\ n <= count /\ RetryOfReview(v, had) <= count
          /\ had = n /\ (v.how = "endpoint" => v.retry = had)
               => RetryOfReview(v, had) = count
      BY <3>1, RetryCounted
    <3> QED
      BY <3>2 DEF had, n
  <2>3. t \notin clobbered' =>
          old.retry = reworks[t] /\ (v.how = "endpoint" => v.retry = old.retry)
    BY <1>3, <1>5
  <2> HIDE DEF new
  <2> QED
    BY <1>6, <2>2, <2>3
<1>8. /\ word \in {"none", "completed", "patched"} \cup Decision
      /\ word = "approve" => v.how = "endpoint" /\ v.decision = "approve"
  BY <1>1
<1>9. /\ reviewing' \in [Reviewer -> Review]
      /\ \A q \in Reviewer : reviewing'[q] \in {reviewing[q], Rest}
  BY <1>2, <1>5 DEF RegistryTyped, Review, Rest
<1>10. refining' \subseteq refining /\ clobbered \subseteq clobbered'
  BY <1>5
<1> HIDE DEF new, count, word
<1> QED
  BY <1>1, <1>4, <1>5, <1>6, <1>7, <1>8, <1>9, <1>10, RowWritten

\* The statements that only read.
LEMMA ReadStep ==
    ASSUME Sources, RegistryInv,
           \/ RefineFetch
           \/ \E r \in Reviewer, t \in TaskRow, how \in {"endpoint", "completion"},
                 d \in Decision : ReviewRead(r, t, how, d)
    PROVE  RegistryInv'
<1>1. UNCHANGED <<backlog, scanning, verdict, reworks, raced, clobbered>>
  BY DEF RefineFetch, ReviewRead
<1>2. /\ RegistryTyped /\ OneRowPerSource /\ RetriesCounted
      /\ LookedUp /\ ReviewKnown /\ ApprovedRefined
  BY DEF RegistryInv
<1>3. OneRowPerSource' /\ RetriesCounted' /\ LookedUp' /\ ApprovedRefined'
  BY <1>1, <1>2 DEF OneRowPerSource, RetriesCounted, LookedUp, ApprovedRefined, TaskRow
<1>4. CASE RefineFetch
  <2>1. refining' \subseteq TaskRow /\ UNCHANGED reviewing
    BY <1>4 DEF RefineFetch, RefineCandidates
  <2> QED
    BY <1>1, <1>2, <1>3, <2>1 DEF RegistryInv, RegistryTyped, ReviewKnown, TaskRow
<1>5. ASSUME NEW r \in Reviewer, NEW t \in TaskRow, NEW how \in {"endpoint", "completion"},
             NEW d \in Decision, ReviewRead(r, t, how, d)
      PROVE  RegistryInv'
  <2> DEFINE v == [row |-> t, how |-> how, retry |-> backlog[t].retry, decision |-> d]
  <2>1. /\ reviewing' = [reviewing EXCEPT ![r] = v] /\ (how = "completion" => d # "block")
        /\ UNCHANGED refining
    BY <1>5 DEF ReviewRead
  <2>2. /\ backlog[t].retry \in Nat /\ t \in Nat /\ backlog[t].retry <= reworks[t]
    BY KnownRow
  <2>3. /\ v \in Review /\ v.row = t /\ v.how = how /\ v.decision = d
        /\ v.retry = backlog[t].retry
    BY <2>2 DEF Review
  <2> HIDE DEF v
  <2>4. /\ reviewing' \in [Reviewer -> Review] /\ reviewing'[r] = v
        /\ \A q \in Reviewer : q # r => reviewing'[q] = reviewing[q]
    BY <1>2, <2>1, <2>3 DEF RegistryTyped
  <2>5. RegistryTyped'
    BY <1>1, <1>2, <2>1, <2>4 DEF RegistryTyped, TaskRow
  <2>6. ReviewKnown'
    BY <1>1, <1>2, <2>1, <2>2, <2>3, <2>4 DEF ReviewKnown, TaskRow
  <2> QED
    BY <1>3, <2>5, <2>6 DEF RegistryInv
<1> QED
  BY <1>4, <1>5

-----------------------------------------------------------------------------
\* The table of tasks (memu/api.py and the task scripts), for any scanners,
\* reviewers, rows and PATCHes: scanners make two rows of a source only if they
\* raced, a task the endpoint approved stays done until a later decision or a
\* PATCH of its status, and retry_count counts the times a task was sent back,
\* but for rows written from a stale read.
THEOREM RegistryKept ==
    ASSUME Sources
    PROVE  RegistrySpec => []RegistrySafe
<1>1. RegistryInit => RegistryInv
  <2> SUFFICES ASSUME RegistryInit PROVE RegistryInv
    OBVIOUS
  <2>1. TaskRow = {} /\ Rest \in Review
    BY DEF RegistryInit, TaskRow, Rest, Review
  <2>2. RegistryTyped
    BY <2>1 DEF RegistryInit, RegistryTyped, Sources
  <2> QED
    BY <2>1, <2>2 DEF RegistryInit, RegistryInv, OneRowPerSource, RetriesCounted, LookedUp,
                      ReviewKnown, ApprovedRefined
<1>2. RegistryInv /\ [RegistryNext]_registryVars => RegistryInv'
  <2> SUFFICES ASSUME RegistryInv, [RegistryNext]_registryVars PROVE RegistryInv'
    OBVIOUS
  <2>1. ASSUME NEW src \in Source, CreateTask(src) PROVE RegistryInv'
    BY <2>1, CreateTaskStep
  <2>2. ASSUME NEW s \in Scanner, ScanInsert(s) PROVE RegistryInv'
    BY <2>2, ScanInsertStep
  <2>3. ASSUME NEW s \in Scanner, NEW src \in Source, ScanLookup(s, src) PROVE RegistryInv'
    BY <2>3, ScanLookupStep
  <2>4. ASSUME NEW t \in TaskRow, RefineWrite(t) PROVE RegistryInv'
    BY <2>4, RefineWriteStep
  <2>5. ASSUME NEW t \in TaskRow, NEW p \in Patches, UpdateTask(t, p) PROVE RegistryInv'
    BY <2>5, UpdateTaskStep
  <2>6. ASSUME NEW r \in Reviewer, ReviewWrite(r) PROVE RegistryInv'
    BY <2>6, ReviewWriteStep
  <2>7. CASE \/ RefineFetch
             \/ \E r \in Reviewer, t \in TaskRow, how \in {"endpoint", "completion"},
                   d \in Decision : ReviewRead(r, t, how, d)
    BY <2>7, ReadStep
  <2>8. ASSUME \/ UNCHANGED registryVars
               \/ \E t \in TaskRow : PlanTask(t)
        PROVE  RegistryInv'
    <3>1. UNCHANGED registryVars
      BY <2>8 DEF PlanTask
    <3> QED
      BY <3>1 DEF registryVars, RegistryInv, RegistryTyped, OneRowPerSource, RetriesCounted,
                  LookedUp, ReviewKnown, ApprovedRefined, TaskRow
  <2> QED
    BY <2>1, <2>2, <2>3, <2>4, <2>5, <2>6, <2>7, <2>8 DEF RegistryNext
<1>3. RegistryInv => RegistrySafe
  <2> SUFFICES ASSUME RegistryInv PROVE RegistrySafe
    OBVIOUS
  <2>1. RegistryTypeOK
    BY DEF RegistryInv, RegistryTyped, RegistryTypeOK, Row
  <2>2. ApprovedStaysDone
    BY DEF RegistryInv, ApprovedRefined, ApprovedStaysDone
  <2> QED
    BY <2>1, <2>2 DEF RegistryInv, RegistrySafe
<1> QED
  BY <1>1, <1>2, <1>3, PTL DEF RegistrySpec

-----------------------------------------------------------------------------
(* Recall: lists in an order                                                *)

StrictOrder(ms, order) ==
    /\ \A x \in ms : <<x, x>> \notin order
    /\ \A x, y, z \in ms :
          <<x, y>> \in order /\ <<y, z>> \in order => <<x, z>> \in order
    /\ \A x, y \in ms : x = y \/ <<x, y>> \in order \/ <<y, x>> \in order

\* s has the members of ms, each once, in that order: i - 1 come before the i-th.
Lists(s, ms, order) ==
    /\ Cardinality(ms) \in Nat /\ s \in [1 .. Cardinality(ms) -> ms]
    /\ \A m \in ms : \E i \in 1 .. Cardinality(ms) : s[i] = m
    /\ \A i, j \in 1 .. Cardinality(ms) : i < j => <<s[i], s[j]>> \in order
    /\ \A i, j \in 1 .. Cardinality(ms) : s[i] = s[j] => i = j
    /\ \A i \in 1 .. Cardinality(ms) :
          Cardinality({k \in ms : <<k, s[i]>> \in order}) = i - 1

\* The function CHOOSE of Ordered finds what it looks for.
LEMMA OrderedLists ==
    ASSUME NEW ms, IsFiniteSet(ms), NEW order, StrictOrder(ms, order)
    PROVE  Lists(Ordered(ms, order), ms, order)
<1> DEFINE n == Cardinality(ms)
           Before_(m) == {k \in ms : <<k, m>> \in order}
           rank == [m \in ms |-> Cardinality(Before_(m)) + 1]
           s == Ordered(ms, order)
<1>1. n \in Nat
  BY FS_CardinalityType
<1>2. ASSUME NEW m \in ms
      PROVE  IsFiniteSet(Before_(m)) /\ Cardinality(Before_(m)) \in 0 .. n - 1
  <2>1. Before_(m) \subseteq ms /\ Before_(m) # ms
    BY DEF StrictOrder
  <2> HIDE DEF Before_
  <2>2. /\ IsFiniteSet(Before_(m)) /\ Cardinality(Before_(m)) <= n
        /\ Cardinality(Before_(m)) # n /\ Cardinality(Before_(m)) \in Nat
    BY <2>1, <1>1, FS_Subset, FS_CardinalityType
  <2> QED
    BY <2>2, <1>1
<1>3. ASSUME NEW x \in ms, NEW y \in ms, <<x, y>> \in order
      PROVE  Cardinality(Before_(x)) < Cardinality(Before_(y))
  <2>1. Before_(x) \subseteq Before_(y)
    BY <1>3 DEF StrictOrder
  <2>2. x \in Before_(y) /\ x \notin Before_(x)
    BY <1>3 DEF StrictOrder
  <2> HIDE DEF Before_
  <2> QED
    BY <2>1, <2>2, <1>2, FS_Subset
<1>4. rank \in [ms -> 1 .. n]
  <2> HIDE DEF Before_
  <2> QED
    BY <1>1, <1>2
<1>5. \A x, y \in ms : rank[x] = rank[y] => x = y
  <2> SUFFICES ASSUME NEW x \in ms, NEW y \in ms, x # y PROVE rank[x] # rank[y]
    OBVIOUS
  <2>1. <<x, y>> \in order \/ <<y, x>> \in order
    BY DEF StrictOrder
  <2>2. Cardinality(Before_(x)) # Cardinality(Before_(y))
    <3> HIDE DEF Before_
    <3> QED
      BY <2>1, <1>3, <1>2
  <2> HIDE DEF Before_
  <2> QED
    BY <2>2, <1>2
<1>6. rank \in Surjection(ms, 1 .. n)
  <2>1. rank \in Injection(ms, 1 .. n)
    <3> HIDE DEF rank
    <3> QED
      BY <1>4, <1>5 DEF Injection, IsInjective
  <2>2. IsFiniteSet(1 .. n) /\ Cardinality(1 .. n) = n
    BY <1>1, FS_Interval
  <2> HIDE DEF rank
  <2> QED
    BY <2>1, <2>2, FS_Injection
<1>7. ASSUME NEW i \in 1 .. n
      PROVE  s[i] \in ms /\ Cardinality(Before_(s[i])) = i - 1
  <2>1. PICK m \in ms : rank[m] = i
    <3> HIDE DEF rank
    <3> QED
      BY <1>6 DEF Surjection
  <2>2. Cardinality(Before_(m)) = i - 1
    <3> HIDE DEF Before_
    <3> QED
      BY <2>1, <1>2
  <2> QED
    BY <2>2 DEF Ordered
<1>8. s \in [1 .. n -> ms]
  <2> DEFINE pick(i) ==
               CHOOSE m \in ms : Cardinality({k \in ms : <<k, m>> \in order}) = i - 1
  <2>1. s = [i \in 1 .. n |-> pick(i)]
    BY DEF Ordered
  <2> HIDE DEF s, pick
  <2>2. \A i \in 1 .. n : pick(i) \in ms
    BY <2>1, <1>7
  <2> QED
    BY <2>1, <2>2
<1> HIDE DEF s, Before_
<1>9. \A m \in ms : \E i \in 1 .. n : s[i] = m
  <2> SUFFICES ASSUME NEW m \in ms PROVE \E i \in 1 .. n : s[i] = m
    OBVIOUS
  <2>1. rank[m] \in 1 .. n
    BY <1>4
  <2>2. s[rank[m]] \in ms /\ Cardinality(Before_(s[rank[m]])) = rank[m] - 1
    BY <2>1, <1>7
  <2>3. rank[s[rank[m]]] = rank[m]
    BY <2>1, <2>2, <1>2
  <2> QED
    BY <2>1, <2>2, <2>3, <1>5
<1>10. \A i, j \in 1 .. n : s[i] = s[j] => i = j
  BY <1>7, <1>1
<1>11. \A i, j \in 1 .. n : i < j => <<s[i], s[j]>> \in order
  <2> SUFFICES ASSUME NEW i \in 1 .. n, NEW j \in 1 .. n, i < j
               PROVE  <<s[i], s[j]>> \in order
    OBVIOUS
  <2>1. s[i] \in ms /\ s[j] \in ms /\ s[i] # s[j]
    BY <1>7, <1>10
  <2>2. <<s[j], s[i]>> \notin order
    BY <2>1, <1>3, <1>7
  <2> QED
    BY <2>1, <2>2 DEF StrictOrder
<1> QED
  BY <1>1, <1>7, <1>8, <1>9, <1>10, <1>11 DEF Lists, s, Before_

\* Min and Max of two numbers.
LEMMA TwoMin ==
    ASSUME NEW x \in Int, NEW y \in Int
    PROVE  /\ Min({x, y}) \in {x, y} /\ Min({x, y}) <= x /\ Min({x, y}) <= y
           /\ Max({x, y}) \in {x, y} /\ Max({x, y}) >= x /\ Max({x, y}) >= y
<1>1. \E z \in {x, y} : \A w \in {x, y} : z <= w
  OBVIOUS
<1>2. \E z \in {x, y} : \A w \in {x, y} : z >= w
  OBVIOUS
<1> QED
  BY <1>1, <1>2 DEF Min, Max

\* s has the first n members of ms, or all: whatever it leaves out comes later, and
\* n others come before it.
Leads(s, ms, order, n) ==
    /\ s \in Seq(ms) /\ Len(s) \in Nat /\ Len(s) <= n /\ Len(s) <= Cardinality(ms)
    /\ \A i, j \in 1 .. Len(s) : i < j => <<s[i], s[j]>> \in order
    /\ \A i, j \in 1 .. Len(s) : s[i] = s[j] => i = j
    /\ \A m \in ms :
          \/ \E i \in 1 .. Len(s) : s[i] = m
          \/ /\ Len(s) = n /\ \A i \in 1 .. n : <<s[i], m>> \in order
             /\ n <= Cardinality({k \in ms : <<k, m>> \in order})

\* A LIMIT cuts an ordered list so.
LEMMA TakeLeads ==
    ASSUME NEW ms, IsFiniteSet(ms), NEW order, StrictOrder(ms, order), NEW n \in Nat
    PROVE  Leads(Take(Ordered(ms, order), n), ms, order, n)
<1> DEFINE o == Ordered(ms, order)
           c == Cardinality(ms)
           l == Min({n, c})
           s == Take(o, n)
<1>1. Lists(o, ms, order)
  BY OrderedLists
<1> HIDE DEF o
<1>2. c \in Nat /\ o \in Seq(ms) /\ Len(o) = c
  BY <1>1 DEF Lists
<1>3. l \in Nat /\ l <= n /\ l <= c /\ (l = n \/ l = c)
  <2> HIDE DEF c
  <2>1. n \in Int /\ c \in Int
    BY <1>2
  <2>2. l \in {n, c} /\ l <= n /\ l <= c
    BY <2>1, TwoMin
  <2> QED
    BY <2>2, <1>2
<1>4. s = SubSeq(o, 1, l)
  BY <1>2 DEF Take
<1> HIDE DEF l, s, c
<1>5. s \in Seq(ms) /\ Len(s) = l /\ \A i \in 1 .. l : s[i] = o[i]
  BY <1>2, <1>3, <1>4
<1>6. ASSUME NEW i \in 1 .. l
      PROVE  i \in 1 .. c
  BY <1>2, <1>3
<1>7. ASSUME NEW i \in 1 .. l, NEW j \in 1 .. l
      PROVE  (i < j => <<s[i], s[j]>> \in order) /\ (s[i] = s[j] => i = j)
  BY <1>1, <1>5, <1>6 DEF Lists, c
<1>8. ASSUME NEW m \in ms
      PROVE  \/ \E i \in 1 .. l : s[i] = m
             \/ /\ l = n /\ \A i \in 1 .. n : <<s[i], m>> \in order
                /\ n <= Cardinality({k \in ms : <<k, m>> \in order})
  <2>1. PICK j \in 1 .. c : o[j] = m
    BY <1>1 DEF Lists, c
  <2>2. CASE j <= l
    BY <2>1, <2>2, <1>2, <1>3, <1>5
  <2>3. CASE j > l
    <3>1. l = n
      BY <2>3, <1>2, <1>3
    <3>2. Cardinality({k \in ms : <<k, m>> \in order}) = j - 1
      BY <2>1, <1>1 DEF Lists, c
    <3>3. \A i \in 1 .. n : <<s[i], m>> \in order
      BY <2>1, <2>3, <3>1, <1>1, <1>5, <1>6 DEF Lists, c
    <3> QED
      BY <2>3, <3>1, <3>2, <3>3, <1>2
  <2> QED
    BY <2>2, <2>3, <1>2, <1>3
<1> QED
  BY <1>3, <1>5, <1>7, <1>8 DEF Leads, s, o, c

\* Every set of memories is finite.
LEMMA SmallFinite ==
    ASSUME NEW ms \in SUBSET MemoryId
    PROVE  IsFiniteSet(ms)
<1>1. 1 \in Int /\ N \in Int
  BY RecallAssumption
<1>2. IsFiniteSet(1 .. N)
  BY <1>1, FS_Interval
<1> QED
  BY <1>2, FS_Subset DEF MemoryId

\* Numbers given to all memories, none twice, order them up and down.
LEMMA RankingOrders ==
    ASSUME NEW f \in Ranking, NEW ms \in SUBSET MemoryId
    PROVE  StrictOrder(ms, Ascending(f)) /\ StrictOrder(ms, Descending(f))
<1>1. /\ \A x \in ms : f[x] \in Nat /\ x \in MemoryId
      /\ \A x, y \in ms : f[x] = f[y] => x = y
  BY DEF Ranking, IsInjective
<1>2. \A x, y \in ms : /\ <<x, y>> \in Ascending(f) <=> f[x] < f[y]
                       /\ <<x, y>> \in Descending(f) <=> f[x] > f[y]
  BY <1>1 DEF Ascending, Descending
<1> QED
  BY <1>1, <1>2 DEF StrictOrder

\* Rows with a time stamp, by that and their ids.
LEMMA TimeOrders ==
    ASSUME NEW ms \in SUBSET MemoryId, \A m \in ms : rows[m].created \in Nat
    PROVE  /\ StrictOrder(ms, Earlier(ms))
           /\ StrictOrder(ms, {p \in ms \X ms : Before(p[2], p[1])})
<1> DEFINE later == {p \in ms \X ms : Before(p[2], p[1])}
<1>1. \A m \in ms : m \in Int /\ rows[m].created \in Int
  BY RecallAssumption DEF MemoryId
<1>2. \A x, y \in ms : /\ <<x, y>> \in Earlier(ms) <=> Before(x, y)
                       /\ <<x, y>> \in later <=> Before(y, x)
  BY DEF Earlier
<1> HIDE DEF later
<1>3. /\ \A x \in ms : ~Before(x, x)
      /\ \A x, y, z \in ms : Before(x, y) /\ Before(y, z) => Before(x, z)
      /\ \A x, y \in ms : x = y \/ Before(x, y) \/ Before(y, x)
  BY <1>1 DEF Before
<1>4. StrictOrder(ms, Earlier(ms))
  BY <1>2, <1>3 DEF StrictOrder
<1>5. StrictOrder(ms, later)
  BY <1>2, <1>3 DEF StrictOrder
<1> QED
  BY <1>4, <1>5 DEF later

\* Where a member of a list without repetitions is.
LEMMA RankFound ==
    ASSUME NEW X, NEW s \in Seq(X), \A i, j \in 1 .. Len(s) : s[i] = s[j] => i = j,
           NEW i \in 1 .. Len(s)
    PROVE  RankIn(s, s[i]) = i
BY DEF RankIn

-----------------------------------------------------------------------------
(* Reciprocal ranks                                                         *)

\* Every set of numbers that is not empty has a least one.
LEMMA LeastOf ==
    ASSUME NEW B \in SUBSET Nat, B # {}
    PROVE  \E n \in B : \A m \in B : n <= m
<1> DEFINE T == {0 .. n : n \in B}
<1>1. T \subseteq FiniteSubsetsOf(Nat) /\ T # {}
  <2>1. ASSUME NEW n \in B PROVE 0 .. n \in SUBSET Nat /\ IsFiniteSet(0 .. n)
    BY FS_Interval
  <2> QED
    BY <2>1 DEF FiniteSubsetsOf
<1>2. PICK x \in T : \A y \in T : <<y, x>> \notin StrictSubsetOrdering(Nat)
  <2> HIDE DEF T
  <2> QED
    BY <1>1, FS_StrictSubsetOrderingWellFounded, WFMin
<1>3. PICK n \in B : x = 0 .. n
  OBVIOUS
<1>4. ASSUME NEW m \in B PROVE n <= m
  <2> SUFFICES ASSUME m < n PROVE FALSE
    OBVIOUS
  <2>1. 0 .. m \in T /\ 0 .. m \subseteq 0 .. n /\ 0 .. m # 0 .. n
    OBVIOUS
  <2>2. <<0 .. m, 0 .. n>> \in StrictSubsetOrdering(Nat)
    BY <2>1 DEF StrictSubsetOrdering
  <2> QED
    BY <1>2, <1>3, <2>1, <2>2
<1> QED
  BY <1>4

\* Induction over the numbers, as a fact about sets.
LEMMA InductionOnSets ==
    ASSUME NEW A, 0 \in A, \A n \in Nat : n \in A => n + 1 \in A
    PROVE  Nat \subseteq A
<1> SUFFICES ASSUME Nat \ A # {} PROVE FALSE
  OBVIOUS
<1>1. PICK n \in Nat \ A : \A m \in Nat \ A : n <= m
  BY LeastOf
<1>2. n - 1 \in Nat /\ n - 1 \in A
  BY <1>1
<1> QED
  BY <1>1, <1>2

ProductTo(n, f) ==
    /\ f \in [0 .. n -> Nat \ {0}] /\ f[0] = 1
    /\ \A k \in 1 .. n : f[k] = f[k - 1] * (60 + k)

LEMMA PositiveProduct ==
    ASSUME NEW x \in Nat \ {0}, NEW y \in Nat \ {0}
    PROVE  x * y \in Nat \ {0}
OBVIOUS

\* The product of all 60 + rank is defined.
LEMMA ProductExists ==
    ASSUME NEW n \in Nat
    PROVE  \E f : ProductTo(n, f)
<1> DEFINE A == {k \in Nat : \E f : ProductTo(k, f)}
<1>1. 0 \in A
  <2>1. ProductTo(0, [k \in 0 .. 0 |-> 1])
    BY DEF ProductTo
  <2> QED
    BY <2>1
<1>2. ASSUME NEW k \in Nat, k \in A PROVE k + 1 \in A
  <2>1. PICK f : ProductTo(k, f)
    BY <1>2
  <2> DEFINE g == [i \in 0 .. k + 1 |-> IF i = k + 1 THEN f[k] * (60 + k + 1) ELSE f[i]]
  <2>2. f[k] \in Nat \ {0}
    BY <2>1 DEF ProductTo
  <2>3. f[k] * (60 + k + 1) \in Nat \ {0}
    BY <2>2, PositiveProduct
  <2>4. g \in [0 .. k + 1 -> Nat \ {0}]
    BY <2>1, <2>3 DEF ProductTo
  <2>5. g[0] = 1
    BY <2>1 DEF ProductTo
  <2>6. ASSUME NEW i \in 1 .. k + 1 PROVE g[i] = g[i - 1] * (60 + i)
    <3>1. CASE i = k + 1
      <4>1. g[i] = f[k] * (60 + k + 1) /\ g[i - 1] = f[k] /\ 60 + i = 60 + k + 1
        BY <3>1
      <4> QED
        BY <4>1
    <3>2. CASE i # k + 1
      <4>1. i \in 1 .. k /\ g[i] = f[i] /\ g[i - 1] = f[i - 1]
        BY <3>2
      <4> QED
        BY <4>1, <2>1 DEF ProductTo
    <3> QED
      BY <3>1, <3>2
  <2> HIDE DEF g
  <2>7. ProductTo(k + 1, g)
    BY <2>4, <2>5, <2>6 DEF ProductTo
  <2> QED
    BY <2>7
<1> HIDE DEF A
<1>3. Nat \subseteq A
  BY <1>1, <1>2, InductionOnSets
<1> QED
  BY <1>3 DEF A

\* Every 60 + r divides the product.
LEMMA ProductMultiple ==
    ASSUME NEW n \in Nat, NEW f, ProductTo(n, f)
    PROVE  \A r \in 1 .. n : \E q \in Nat \ {0} : f[n] = q * (60 + r)
<1> DEFINE A == {k \in Nat : k <= n => \A r \in 1 .. k :
                                \E q \in Nat \ {0} : f[k] = q * (60 + r)}
<1>1. 0 \in A
  OBVIOUS
<1>2. ASSUME NEW k \in Nat, k \in A PROVE k + 1 \in A
  <2> SUFFICES ASSUME k + 1 <= n, NEW r \in 1 .. k + 1
               PROVE  \E q \in Nat \ {0} : f[k + 1] = q * (60 + r)
    OBVIOUS
  <2>1. f[k] \in Nat \ {0} /\ f[k + 1] = f[k] * (60 + (k + 1))
    BY DEF ProductTo
  <2>2. CASE r = k + 1
    BY <2>1, <2>2
  <2>3. CASE r # k + 1
    <3>0. k <= n /\ r \in 1 .. k
      BY <2>3
    <3>1. PICK q \in Nat \ {0} : f[k] = q * (60 + r)
      BY <3>0, <1>2
    <3> DEFINE b == 60 + (k + 1)
               c == 60 + r
    <3>2. b \in Nat \ {0} /\ c \in Nat
      OBVIOUS
    <3>3. f[k + 1] = (q * c) * b
      BY <2>1, <3>1
    <3> HIDE DEF b, c
    <3>4. (q * c) * b = (q * b) * c /\ q * b \in Nat \ {0}
      BY <3>2
    <3> QED
      BY <3>3, <3>4 DEF c
  <2> QED
    BY <2>2, <2>3
<1> HIDE DEF A
<1>3. n \in A
  BY <1>1, <1>2, InductionOnSets
<1>4. n <= n
  OBVIOUS
<1> QED
  BY <1>3, <1>4 DEF A

\* The weights of all ranks are whole numbers.
LEMMA DenominatorMultiple ==
    /\ Denominator \in Nat
    /\ \A r \in 1 .. N : \E q \in Nat \ {0} : Denominator = q * (60 + r)
<1> DEFINE Body(g) == [n \in 0 .. N |-> IF n = 0 THEN 1 ELSE g[n - 1] * (60 + n)]
           product == CHOOSE g : g = Body(g)
<1>1. N \in Nat
  BY RecallAssumption
<1>2. PICK f : ProductTo(N, f)
  BY <1>1, ProductExists
<1>3. f = Body(f)
  <2>1. f = [n \in 0 .. N |-> f[n]]
    BY <1>2 DEF ProductTo
  <2>2. \A n \in 0 .. N : f[n] = Body(f)[n]
    BY <1>1, <1>2 DEF ProductTo
  <2> QED
    BY <2>1, <2>2
<1>4. product = Body(product)
  <2> HIDE DEF Body
  <2> QED
    BY <1>3
<1>5. Denominator = product[N]
  BY DEF Denominator
<1> HIDE DEF product
<1>6. \A k \in 0 .. N : product[k] = f[k]
  <2> DEFINE A == {k \in Nat : k <= N => product[k] = f[k]}
  <2>1. 0 \in A
    BY <1>1, <1>2, <1>4 DEF ProductTo
  <2>2. ASSUME NEW k \in Nat, k \in A PROVE k + 1 \in A
    <3> SUFFICES ASSUME k + 1 <= N PROVE product[k + 1] = f[k + 1]
      OBVIOUS
    <3>1. product[k + 1] = product[k] * (60 + (k + 1))
      BY <1>1, <1>4
    <3>2. product[k] = f[k]
      BY <1>1, <2>2
    <3>3. f[k + 1] = f[k] * (60 + (k + 1))
      BY <1>1, <1>2 DEF ProductTo
    <3> QED
      BY <3>1, <3>2, <3>3
  <2> HIDE DEF A
  <2>3. Nat \subseteq A
    BY <2>1, <2>2, InductionOnSets
  <2> QED
    BY <2>3, <1>1 DEF A
<1>7. Denominator = f[N] /\ f[N] \in Nat
  BY <1>1, <1>2, <1>5, <1>6 DEF ProductTo
<1> QED
  BY <1>1, <1>2, <1>7, ProductMultiple

\* The earlier in a list, the more weight.
LEMMA WeightFalls ==
    ASSUME NEW r \in 1 .. N
    PROVE  Weight(r) \in Nat \ {0} /\ \A k \in 1 .. N : r < k => Weight(r) > Weight(k)
<1>1. N \in Nat
  BY RecallAssumption
<1>2. ASSUME NEW k \in 1 .. N
      PROVE  Weight(k) \in Nat \ {0} /\ Denominator = Weight(k) * (60 + k)
  <2>1. PICK q \in Nat \ {0} : Denominator = q * (60 + k)
    BY DenominatorMultiple
  <2> DEFINE b == 60 + k
  <2>2. b \in Nat \ {0}
    BY <1>1
  <2>3. Denominator = q * b /\ Weight(k) = Denominator \div b
    BY <2>1 DEF Weight
  <2> HIDE DEF b
  <2>4. (q * b) \div b = q
    BY <2>2
  <2> QED
    BY <2>1, <2>3, <2>4 DEF b
<1>3. ASSUME NEW k \in 1 .. N, r < k PROVE Weight(r) > Weight(k)
  <2> DEFINE w == Weight(r)
             v == Weight(k)
  <2>1. w \in Nat \ {0} /\ v \in Nat \ {0} /\ w * (60 + r) = v * (60 + k)
    BY <1>2
  <2> HIDE DEF w, v
  <2>2. \A a, b \in Nat \ {0} : a * (60 + r) = b * (60 + k) /\ a <= b => FALSE
    <3> SUFFICES ASSUME NEW a \in Nat \ {0}, NEW b \in Nat \ {0},
                        a * (60 + r) = b * (60 + k), a <= b
                 PROVE  FALSE
      OBVIOUS
    <3>1. a * (60 + r) <= b * (60 + r)
      BY <1>1
    <3>2. b * (60 + r) < b * (60 + k)
      BY <1>1, <1>3
    <3> QED
      BY <3>1, <3>2, <1>1
  <2>3. ~(w <= v)
    BY <2>1, <2>2
  <2> QED
    BY <2>1, <2>3 DEF w, v
<1> QED
  BY <1>2, <1>3

\* What a list of rrf_fuse gives memory m.
Share(s, m) == IF m \in ToSet(s) THEN Weight(RankIn(s, m)) ELSE 0

\* A list of memories, each once.
Listing(s) ==
    /\ s \in Seq(MemoryId) /\ Len(s) \in 0 .. N
    /\ \A i, j \in 1 .. Len(s) : s[i] = s[j] => i = j

ThreeListings(lists) ==
    /\ lists \in Seq(Seq(MemoryId)) /\ Len(lists) = 3
    /\ Listing(lists[1]) /\ Listing(lists[2]) /\ Listing(lists[3])

Met(lists) == UNION {ToSet(lists[i]) : i \in DOMAIN lists}

LEMMA RankInList ==
    ASSUME NEW s, Listing(s), NEW m \in ToSet(s)
    PROVE  RankIn(s, m) \in 1 .. Len(s) /\ RankIn(s, m) \in 1 .. N /\ s[RankIn(s, m)] = m
<1>1. PICK i \in 1 .. Len(s) : s[i] = m
  BY DEF ToSet, Listing
<1>2. RankIn(s, m) = i
  BY <1>1, RankFound DEF Listing
<1> QED
  BY <1>1, <1>2, RecallAssumption DEF Listing

\* A list that has m before n gives m more; one without n, no less.
LEMMA SharesFall ==
    ASSUME NEW s, Listing(s), NEW m, NEW n,
           n \in ToSet(s) => m \in ToSet(s) /\ RankIn(s, m) < RankIn(s, n)
    PROVE  /\ Share(s, m) \in Nat /\ Share(s, n) \in Nat /\ Share(s, m) >= Share(s, n)
           /\ n \in ToSet(s) => Share(s, m) > Share(s, n)
<1>1. ASSUME NEW k, k \in ToSet(s) PROVE Weight(RankIn(s, k)) \in Nat
  BY <1>1, RankInList, WeightFalls
<1>2. CASE n \in ToSet(s)
  <2>1. m \in ToSet(s) /\ RankIn(s, m) \in 1 .. N /\ RankIn(s, n) \in 1 .. N
    BY <1>2, RankInList
  <2>2. Weight(RankIn(s, m)) > Weight(RankIn(s, n))
    BY <1>2, <2>1, WeightFalls
  <2> QED
    BY <1>1, <1>2, <2>1, <2>2 DEF Share
<1>3. CASE n \notin ToSet(s)
  <2>1. Share(s, n) = 0 /\ Share(s, m) \in Nat
    BY <1>1, <1>3 DEF Share
  <2> QED
    BY <1>3, <2>1
<1> QED
  BY <1>2, <1>3

\* The score is the sum over the three channels.
LEMMA ThreeShares ==
    ASSUME NEW lists, ThreeListings(lists), NEW m
    PROVE  RrfScore(lists, m) =
               Share(lists[1], m) + Share(lists[2], m) + Share(lists[3], m)
<1> DEFINE a == Share(lists[1], m)
           b == Share(lists[2], m)
           c == Share(lists[3], m)
           Body(g) == [i \in 0 .. Len(lists) |->
                         IF i = 0 THEN 0
                         ELSE g[i - 1] + (IF m \in ToSet(lists[i])
                                          THEN Weight(RankIn(lists[i], m)) ELSE 0)]
           f == [i \in 0 .. 3 |-> IF i = 0 THEN 0 ELSE IF i = 1 THEN a
                                  ELSE IF i = 2 THEN a + b ELSE a + b + c]
           sum == CHOOSE g : g = Body(g)
<1>1. a \in Nat /\ b \in Nat /\ c \in Nat
  <2>1. ASSUME NEW s, Listing(s) PROVE Share(s, m) \in Nat
    BY <2>1, RankInList, WeightFalls DEF Share
  <2> QED
    BY <2>1 DEF ThreeListings
<1>2. \A g : Body(g) =
          [i \in 0 .. 3 |-> IF i = 0 THEN 0 ELSE g[i - 1] + Share(lists[i], m)]
  BY DEF Share, ThreeListings
<1>3. RrfScore(lists, m) = sum[3]
  BY DEF RrfScore, ThreeListings
<1> HIDE DEF a, b, c, Body
<1>4. f = Body(f)
  <2>1. \A i \in 0 .. 3 : f[i] = Body(f)[i]
    <3> SUFFICES ASSUME NEW i \in 0 .. 3 PROVE f[i] = Body(f)[i]
      OBVIOUS
    <3>1. CASE i = 0
      BY <1>2, <3>1
    <3>2. CASE i = 1
      BY <1>1, <1>2, <3>2 DEF a
    <3>3. CASE i = 2
      BY <1>1, <1>2, <3>3 DEF b
    <3>4. CASE i = 3
      BY <1>1, <1>2, <3>4 DEF c
    <3> QED
      BY <3>1, <3>2, <3>3, <3>4
  <2> QED
    BY <1>2, <2>1
<1> HIDE DEF f
<1>5. sum = Body(sum)
  BY <1>4
<1> HIDE DEF sum
<1>6. sum[0] = 0 /\ sum[1] = sum[0] + a /\ sum[2] = sum[1] + b /\ sum[3] = sum[2] + c
  BY <1>2, <1>5 DEF a, b, c
<1> QED
  BY <1>1, <1>3, <1>6 DEF a, b, c

\* A memory that is before another one in every list of it has the higher score.
LEMMA ScoresFall ==
    ASSUME NEW lists, ThreeListings(lists), NEW m, NEW n \in Met(lists),
           \A i \in DOMAIN lists : n \in ToSet(lists[i]) =>
               m \in ToSet(lists[i]) /\ RankIn(lists[i], m) < RankIn(lists[i], n)
    PROVE  RrfScore(lists, m) > RrfScore(lists, n)
<1>1. DOMAIN lists = 1 .. 3
  BY DEF ThreeListings
<1>2. \A i \in 1 .. 3 : Listing(lists[i])
  BY DEF ThreeListings
<1>3. ASSUME NEW i \in 1 .. 3
      PROVE  /\ Share(lists[i], m) \in Nat /\ Share(lists[i], n) \in Nat
             /\ Share(lists[i], m) >= Share(lists[i], n)
             /\ n \in ToSet(lists[i]) => Share(lists[i], m) > Share(lists[i], n)
  BY <1>1, <1>2, SharesFall
<1>4. PICK i \in 1 .. 3 : n \in ToSet(lists[i])
  BY <1>1 DEF Met
<1>5. Share(lists[i], m) > Share(lists[i], n)
  BY <1>3, <1>4
<1>6. /\ RrfScore(lists, m) = Share(lists[1], m) + Share(lists[2], m) + Share(lists[3], m)
      /\ RrfScore(lists, n) = Share(lists[1], n) + Share(lists[2], n) + Share(lists[3], n)
  BY ThreeShares
<1>7. i = 1 \/ i = 2 \/ i = 3
  OBVIOUS
<1>8. /\ Share(lists[1], m) \in Nat /\ Share(lists[1], n) \in Nat
      /\ Share(lists[2], m) \in Nat /\ Share(lists[2], n) \in Nat
      /\ Share(lists[3], m) \in Nat /\ Share(lists[3], n) \in Nat
      /\ Share(lists[1], m) >= Share(lists[1], n)
      /\ Share(lists[2], m) >= Share(lists[2], n)
      /\ Share(lists[3], m) >= Share(lists[3], n)
  BY <1>3
<1> QED
  BY <1>5, <1>6, <1>7, <1>8

\* A memory stands at the place it is first met.
LEMMA MetAtFound ==
    ASSUME NEW lists, ThreeListings(lists), NEW m \in Met(lists)
    PROVE  /\ MetAt(lists, m)[1] \in 1 .. 3 /\ MetAt(lists, m)[2] \in Nat
           /\ lists[MetAt(lists, m)[1]][MetAt(lists, m)[2]] = m
<1> DEFINE B == {k \in DOMAIN lists : m \in ToSet(lists[k])}
           i == Min(B)
<1>1. DOMAIN lists = 1 .. 3
  BY DEF ThreeListings
<1>2. B \in SUBSET Nat /\ B # {}
  BY <1>1 DEF Met
<1>3. i \in B
  <2>1. \E n \in B : \A k \in B : n <= k
    BY <1>2, LeastOf
  <2> HIDE DEF B
  <2> QED
    BY <2>1 DEF Min
<1>4. MetAt(lists, m) = <<i, RankIn(lists[i], m)>>
  BY DEF MetAt
<1>5. i \in 1 .. 3 /\ m \in ToSet(lists[i])
  BY <1>1, <1>3
<1> HIDE DEF i, B
<1>6. Listing(lists[i])
  BY <1>5 DEF ThreeListings
<1>7. RankIn(lists[i], m) \in 1 .. Len(lists[i]) /\ lists[i][RankIn(lists[i], m)] = m
      /\ RankIn(lists[i], m) \in 1 .. N
  BY <1>5, <1>6, RankInList
<1>8. RankIn(lists[i], m) \in Nat
  BY <1>7, RecallAssumption
<1> QED
  BY <1>4, <1>5, <1>7, <1>8

LEMMA ScoreNat ==
    ASSUME NEW lists, ThreeListings(lists), NEW m
    PROVE  RrfScore(lists, m) \in Nat
<1>1. ASSUME NEW s, Listing(s) PROVE Share(s, m) \in Nat
  BY <1>1, RankInList, WeightFalls DEF Share
<1>2. /\ Share(lists[1], m) \in Nat /\ Share(lists[2], m) \in Nat
      /\ Share(lists[3], m) \in Nat
  BY <1>1 DEF ThreeListings
<1> QED
  BY <1>2, ThreeShares

\* The fused list has every memory of the lists, each once, and none before one of a
\* higher score.
LEMMA FusedList ==
    ASSUME NEW lists, ThreeListings(lists)
    PROVE  LET c == Cardinality(Met(lists))
               s == RrfFuse(lists)
           IN  /\ c \in Nat /\ s \in [1 .. c -> Met(lists)]
               /\ \A m \in Met(lists) : \E i \in 1 .. c : s[i] = m
               /\ \A i, j \in 1 .. c : s[i] = s[j] => i = j
               /\ \A i, j \in 1 .. c :
                     i < j => RrfScore(lists, s[i]) >= RrfScore(lists, s[j])
<1> DEFINE M == Met(lists)
           E == {RrfEntry(lists, m) : m \in M}
           order == {p \in E \X E : RrfBefore(p[1], p[2])}
           fused == Ordered(E, order)
           s == RrfFuse(lists)
           c == Cardinality(M)
           f == [m \in M |-> RrfEntry(lists, m)]
<1>1. M \subseteq MemoryId
  BY DEF Met, ThreeListings, Listing, ToSet
<1>2. IsFiniteSet(M) /\ c \in Nat
  BY <1>1, SmallFinite, FS_CardinalityType
<1>3. ASSUME NEW m \in M
      PROVE  /\ RrfEntry(lists, m).memory = m
             /\ RrfEntry(lists, m).score = RrfScore(lists, m)
             /\ RrfEntry(lists, m).at = MetAt(lists, m)
             /\ RrfScore(lists, m) \in Nat /\ MetAt(lists, m)[1] \in Nat
             /\ MetAt(lists, m)[2] \in Nat
             /\ lists[MetAt(lists, m)[1]][MetAt(lists, m)[2]] = m
  BY MetAtFound, ScoreNat DEF RrfEntry
<1>4. StrictOrder(E, order)
  <2> DEFINE B(x, y) == RrfBefore(RrfEntry(lists, x), RrfEntry(lists, y))
  <2>1. ASSUME NEW x \in M, NEW y \in M
        PROVE  B(x, y) <=>
                 \/ RrfScore(lists, x) > RrfScore(lists, y)
                 \/ /\ RrfScore(lists, x) = RrfScore(lists, y)
                    /\ \/ MetAt(lists, x)[1] < MetAt(lists, y)[1]
                       \/ /\ MetAt(lists, x)[1] = MetAt(lists, y)[1]
                          /\ MetAt(lists, x)[2] < MetAt(lists, y)[2]
    BY <1>3 DEF RrfBefore
  <2>2. ASSUME NEW x \in M, NEW y \in M
        PROVE  <<RrfEntry(lists, x), RrfEntry(lists, y)>> \in order <=> B(x, y)
    OBVIOUS
  <2> HIDE DEF B, M
  <2>3. \A x \in M : ~B(x, x)
    BY <2>1, <1>3
  <2>4. \A x, y, z \in M : B(x, y) /\ B(y, z) => B(x, z)
    BY <2>1, <1>3
  <2>5. \A x, y \in M : x = y \/ B(x, y) \/ B(y, x)
    BY <2>1, <1>3
  <2> HIDE DEF order
  <2>6. \A e \in E : \E m \in M : e = RrfEntry(lists, m)
    OBVIOUS
  <2> HIDE DEF E
  <2> QED
    BY <2>2, <2>3, <2>4, <2>5, <2>6 DEF StrictOrder
<1>5. f \in Surjection(M, E) /\ f \in Injection(M, E)
  <2>1. f \in [M -> E] /\ \A e \in E : \E m \in M : f[m] = e
    OBVIOUS
  <2>2. \A x, y \in M : f[x] = f[y] => x = y
    BY <1>3
  <2> HIDE DEF f, E, M
  <2> QED
    BY <2>1, <2>2 DEF Surjection, Injection, IsInjective
<1>6. IsFiniteSet(E) /\ Cardinality(E) = c
  <2> HIDE DEF E, M, f
  <2> QED
    BY <1>2, <1>5, FS_Surjection
<1>7. Lists(fused, E, order)
  <2> HIDE DEF E, order
  <2> QED
    BY <1>4, <1>6, OrderedLists
<1>8. /\ fused \in [1 .. c -> E] /\ \A e \in E : \E i \in 1 .. c : fused[i] = e
      /\ \A i, j \in 1 .. c : i < j => <<fused[i], fused[j]>> \in order
      /\ \A i, j \in 1 .. c : fused[i] = fused[j] => i = j
  <2> HIDE DEF E, order, fused, c
  <2> QED
    BY <1>6, <1>7 DEF Lists
<1>9. s = [i \in DOMAIN fused |-> fused[i].memory]
  BY DEF RrfFuse, Met
<1>10. \A i, j \in 1 .. c : i < j => RrfBefore(fused[i], fused[j])
  <2> HIDE DEF fused, c
  <2> QED
    BY <1>8
<1> HIDE DEF order, s, fused, f
<1>11. \A e \in E : e.memory \in M /\ e = RrfEntry(lists, e.memory)
  <2> HIDE DEF M
  <2> QED
    BY <1>3
<1> HIDE DEF E
<1>12. s \in [1 .. c -> M] /\ \A i \in 1 .. c : fused[i] = RrfEntry(lists, s[i])
  BY <1>8, <1>9, <1>11
<1>13. \A m \in M : \E i \in 1 .. c : s[i] = m
  <2> SUFFICES ASSUME NEW m \in M PROVE \E i \in 1 .. c : s[i] = m
    OBVIOUS
  <2>1. RrfEntry(lists, m) \in E
    BY DEF E
  <2>2. PICK i \in 1 .. c : fused[i] = RrfEntry(lists, m)
    BY <2>1, <1>8
  <2>3. s[i] = fused[i].memory
    BY <1>8, <1>9
  <2> QED
    BY <2>2, <2>3, <1>3
<1> HIDE DEF M, c
<1>14. \A i, j \in 1 .. c : s[i] = s[j] => i = j
  BY <1>8, <1>12
<1>15. \A i, j \in 1 .. c : i < j => RrfScore(lists, s[i]) >= RrfScore(lists, s[j])
  <2> SUFFICES ASSUME NEW i \in 1 .. c, NEW j \in 1 .. c, i < j
               PROVE  RrfScore(lists, s[i]) >= RrfScore(lists, s[j])
    OBVIOUS
  <2>1. s[i] \in M /\ s[j] \in M
    BY <1>12
  <2>2. RrfBefore(RrfEntry(lists, s[i]), RrfEntry(lists, s[j]))
    BY <1>10, <1>12
  <2> QED
    BY <2>1, <2>2, <1>3 DEF RrfBefore
<1> QED
  BY <1>2, <1>12, <1>13, <1>14, <1>15 DEF s, M, c

\* What every list has before another memory is fused before it, and kept if it is.
LEMMA FusionRespects ==
    ASSUME NEW lists, ThreeListings(lists), NEW k \in Nat, NEW m, NEW n, m # n,
           \A i \in DOMAIN lists : n \in ToSet(lists[i]) =>
               m \in ToSet(lists[i]) /\ RankIn(lists[i], m) < RankIn(lists[i], n),
           n \in ToSet(Take(RrfFuse(lists), k))
    PROVE  LET answer == Take(RrfFuse(lists), k)
           IN  m \in ToSet(answer) /\ RankIn(answer, m) < RankIn(answer, n)
<1> DEFINE M == Met(lists)
           c == Cardinality(M)
           s == RrfFuse(lists)
           l == Min({k, c})
           answer == Take(s, k)
<1>1. /\ c \in Nat /\ s \in [1 .. c -> M]
      /\ \A x \in M : \E i \in 1 .. c : s[i] = x
      /\ \A i, j \in 1 .. c : s[i] = s[j] => i = j
      /\ \A i, j \in 1 .. c : i < j => RrfScore(lists, s[i]) >= RrfScore(lists, s[j])
  BY FusedList
<1> HIDE DEF s, c
<1>2. s \in Seq(M) /\ Len(s) = c
  BY <1>1
<1>3. l \in Nat /\ l <= k /\ l <= c /\ answer = SubSeq(s, 1, l)
  <2>1. k \in Int /\ c \in Int
    BY <1>1
  <2>2. l \in {k, c} /\ l <= k /\ l <= c
    BY <2>1, TwoMin
  <2> QED
    BY <2>2, <1>1, <1>2 DEF Take
<1> HIDE DEF l, answer, M
<1>4. answer \in Seq(M) /\ Len(answer) = l /\ \A i \in 1 .. l : answer[i] = s[i]
  BY <1>2, <1>3
<1>5. PICK j \in 1 .. l : s[j] = n
  BY <1>4 DEF ToSet, answer, s
<1>6. j \in 1 .. c /\ n \in M
  BY <1>1, <1>3, <1>5
<1>7. m \in M
  <2>1. PICK i \in DOMAIN lists : n \in ToSet(lists[i])
    BY <1>6 DEF M, Met
  <2> QED
    BY <2>1 DEF M, Met
<1>8. PICK i \in 1 .. c : s[i] = m
  BY <1>1, <1>7
<1>9. RrfScore(lists, m) > RrfScore(lists, n)
  BY <1>6, ScoresFall DEF M
<1>10. RrfScore(lists, m) \in Nat /\ RrfScore(lists, n) \in Nat
  BY ScoreNat
<1>11. i < j
  <2>1. ~(j < i)
    BY <1>1, <1>5, <1>6, <1>8, <1>9, <1>10
  <2>2. i # j
    BY <1>5, <1>8
  <2> QED
    BY <2>1, <2>2, <1>6, <1>8, <1>1
<1>12. i \in 1 .. l
  BY <1>5, <1>8, <1>11, <1>3, <1>1
<1>13. \A x, y \in 1 .. Len(answer) : answer[x] = answer[y] => x = y
  BY <1>1, <1>3, <1>4
<1>14. RankIn(answer, answer[i]) = i /\ RankIn(answer, answer[j]) = j
  BY <1>4, <1>5, <1>12, <1>13, RankFound
<1>15. answer[i] = m /\ answer[j] = n /\ m \in ToSet(answer)
  BY <1>4, <1>5, <1>8, <1>12 DEF ToSet
<1> QED
  BY <1>11, <1>14, <1>15 DEF answer, s

-----------------------------------------------------------------------------
(* The inductive invariant                                                  *)

Open == {"begun", "updated", "checked"}

RecallTypes ==
    /\ rows \in [MemoryId -> RecallRow \cup {Absent, Gone}]
    /\ links \subseteq MemoryId \X MemoryId /\ now \in MaxLag .. MaxClock
    /\ unapplied \in [MemoryId -> {"done", "update", "link"}]
    /\ tx \in [Client -> {NoTx, Ended} \cup [phase : Open, old : MemoryId,
                                             new : MemoryId, stamp : Nat]]
    /\ pager \in [phase : {"idle", "paging", "done"}, cursor : Int \X Nat,
                  got : Seq(MemoryId), must : SUBSET MemoryId]
    /\ was \in [0 .. MaxClock -> SUBSET MemoryId]

\* A row is superseded after it was written, and neither lies ahead.
Stamped ==
    /\ \A m \in Present :
          /\ rows[m].created <= now
          /\ rows[m].to = NotYet \/ (rows[m].created <= rows[m].to /\ rows[m].to <= now)
    /\ \A c \in Client : tx[c].phase \in Open =>
          /\ tx[c].stamp <= now /\ rows[tx[c].old] # Absent
          /\ tx[c].old \in Present => rows[tx[c].old].created <= tx[c].stamp
          /\ tx[c].phase = "checked" => tx[c].new # tx[c].old

\* What is linked as superseded, or was superseded by a statement that has run, is
\* not valid.
RetiredRows ==
    /\ \A l \in links : rows[l[2]] # Absent /\ l[2] \notin Valid
    /\ \A m \in Present : \A k \in rows[m].replaces :
          /\ k # m /\ rows[k] # Absent
          /\ unapplied[m] # "update" => k \notin Valid
    /\ \A m \in MemoryId \ Present : unapplied[m] = "done"

\* The links, and those still to be entered.
Edges == links \cup {l \in MemoryId \X MemoryId :
                       unapplied[l[1]] = "link" /\ l[2] \in rows[l[1]].replaces}
Rooted(edges) ==
    \A ms \in (SUBSET MemoryId) \ {{}} : \E m \in ms : \A n \in ms : <<n, m>> \notin edges
Acyclic == crossed \/ Rooted(Edges)

\* What was given lies before the cursor, what is due was given or lies behind it.
Paged ==
    /\ \A i, j \in 1 .. Len(pager.got) : pager.got[i] = pager.got[j] => i = j
    /\ \A i \in 1 .. Len(pager.got) : rows[pager.got[i]] # Absent
    /\ pager.must \subseteq Present
    /\ pager.phase = "idle" => pager.got = <<>> /\ pager.cursor = NoCursor
    /\ pager.phase = "paging" => \A i \in 1 .. Len(pager.got) :
          pager.got[i] \in Present => ~Beyond(pager.got[i], pager.cursor)
    /\ pager.phase # "idle" => \A m \in pager.must \cap Evidence :
          \/ \E i \in 1 .. Len(pager.got) : pager.got[i] = m
          \/ pager.phase = "paging" /\ Beyond(m, pager.cursor)

RecallInv == RecallTypes /\ Stamped /\ TimeTravel /\ RetiredRows /\ Acyclic /\ Paged

\* What a step does to the rows there were: their contents stay, and what is not
\* valid stays so.
Kept ==
    /\ rows' \in [MemoryId -> RecallRow \cup {Absent, Gone}]
    /\ \A m \in MemoryId : rows[m] # Absent => rows'[m] # Absent
    /\ \A m \in Present' : rows[m] # Absent =>
          /\ m \in Present
          /\ rows'[m].created = rows[m].created /\ rows'[m].kind = rows[m].kind
          /\ rows'[m].replaces = rows[m].replaces
          /\ m \in Valid' => m \in Valid

LEMMA PresentRows ==
    ASSUME RecallTypes
    PROVE  /\ \A m \in MemoryId : m \in Present <=> rows[m] \in RecallRow
           /\ \A m \in MemoryId \ Present : rows[m] \in {Absent, Gone}
           /\ Present \subseteq MemoryId /\ Valid \subseteq Present
           /\ \A m \in Present :
                 /\ rows[m].created \in Nat /\ rows[m].replaces \in SUBSET MemoryId
                 /\ rows[m].to \in Nat \cup {NotYet}
BY RecallAssumption DEF RecallTypes, Present, Valid, RecallRow

\* An UPDATE of valid_to touches nothing but that.
LEMMA InvalidatedKeeps ==
    ASSUME RecallTypes, NEW ms, NEW t \in Nat, rows' = Invalidated(ms, t)
    PROVE  /\ Kept /\ Present' = Present /\ Valid' = Valid \ ms
           /\ \A m \in MemoryId : m \notin ms \cap Valid => rows'[m] = rows[m]
           /\ \A m \in ms \cap Valid : rows'[m].to = t
           /\ \A m \in Present : /\ rows'[m].created = rows[m].created
                                 /\ rows'[m].replaces = rows[m].replaces
                                 /\ rows'[m].kind = rows[m].kind
<1>1. \A m \in MemoryId : rows'[m] = IF m \in ms \cap Valid
                                     THEN [rows[m] EXCEPT !.to = t] ELSE rows[m]
  BY DEF Invalidated
<1>2. ASSUME NEW m \in ms \cap Valid
      PROVE  /\ rows'[m] \in RecallRow /\ rows'[m].to = t
             /\ rows'[m].created = rows[m].created /\ rows'[m].kind = rows[m].kind
             /\ rows'[m].replaces = rows[m].replaces
  <2>1. rows[m] \in RecallRow /\ m \in MemoryId
    BY PresentRows
  <2>2. rows'[m] = [rows[m] EXCEPT !.to = t]
    BY <1>1, <2>1
  <2> QED
    BY <2>1, <2>2 DEF RecallRow
<1>3. \A m \in MemoryId : m \notin ms \cap Valid => rows'[m] = rows[m]
  BY <1>1
<1>4. rows' \in [MemoryId -> RecallRow \cup {Absent, Gone}]
  <2>1. rows' = [m \in MemoryId |-> rows'[m]]
    BY DEF Invalidated
  <2>2. \A m \in MemoryId : rows'[m] \in RecallRow \cup {Absent, Gone}
    BY <1>2, <1>3 DEF RecallTypes
  <2> QED
    BY <2>1, <2>2
<1>5. Valid \subseteq Present /\ Present \subseteq MemoryId
  BY PresentRows
<1>6. Present' = Present
  <2>1. \A m \in MemoryId : m \in Present' <=> rows'[m] \notin {Absent, Gone}
    BY DEF Present
  <2>2. \A m \in ms \cap Valid : rows'[m] \notin {Absent, Gone}
    BY <1>2, RecallAssumption
  <2>3. \A m \in MemoryId : m \in Present' <=> m \in Present
    BY <1>3, <1>5, <2>1, <2>2 DEF Present
  <2>4. Present' \subseteq MemoryId
    BY DEF Present
  <2> QED
    BY <1>5, <2>3, <2>4
<1>7. Valid' = Valid \ ms
  <2>1. \A m \in Present : m \in Valid' <=> rows'[m].to = NotYet
    BY <1>6 DEF Valid
  <2>2. \A m \in ms \cap Valid : rows'[m].to # NotYet
    BY <1>2, RecallAssumption
  <2>3. Valid' \subseteq Present
    BY <1>6 DEF Valid
  <2>4. \A m \in Present : m \in Valid' <=> m \in Valid \ ms
    BY <1>3, <1>5, <2>1, <2>2 DEF Valid
  <2> QED
    BY <1>5, <2>3, <2>4
<1>8. \A m \in Present : /\ rows'[m].created = rows[m].created
                         /\ rows'[m].replaces = rows[m].replaces
                         /\ rows'[m].kind = rows[m].kind
  BY <1>2, <1>3, <1>5
<1>9. \A m \in MemoryId : rows[m] # Absent => rows'[m] # Absent
  BY <1>2, <1>3, RecallAssumption
<1> QED
  BY <1>2, <1>3, <1>4, <1>6, <1>7, <1>8, <1>9 DEF Kept

LEMMA InsertKeeps ==
    ASSUME RecallTypes, NEW m \in MemoryId, rows[m] = Absent, NEW r \in RecallRow,
           rows' = [rows EXCEPT ![m] = r]
    PROVE  /\ Kept /\ Present' = Present \cup {m} /\ m \notin Present
           /\ Valid' = IF r.to = NotYet THEN Valid \cup {m} ELSE Valid
           /\ \A k \in MemoryId : k # m => rows'[k] = rows[k]
           /\ rows'[m] = r
<1>1. rows' \in [MemoryId -> RecallRow \cup {Absent, Gone}] /\ rows'[m] = r
      /\ \A k \in MemoryId : k # m => rows'[k] = rows[k]
  BY DEF RecallTypes
<1>2. Present' = Present \cup {m} /\ m \notin Present
  BY <1>1, RecallAssumption DEF Present
<1>3. Valid' = IF r.to = NotYet THEN Valid \cup {m} ELSE Valid
  BY <1>1, <1>2 DEF Valid
<1>4. \A k \in Present' : rows[k] # Absent => k \in Present /\ rows'[k] = rows[k]
  BY <1>1, <1>2 DEF Present
<1>5. \A k \in Present' : rows[k] # Absent => (k \in Valid' => k \in Valid)
  BY <1>3, <1>2
<1> QED
  BY <1>1, <1>2, <1>3, <1>4, <1>5, RecallAssumption DEF Kept

LEMMA DeleteKeeps ==
    ASSUME RecallTypes, NEW m \in Present, rows' = [rows EXCEPT ![m] = Gone]
    PROVE  /\ Kept /\ Present' = Present \ {m} /\ Valid' = Valid \ {m}
           /\ \A k \in MemoryId : k # m => rows'[k] = rows[k]
<1>1. rows' \in [MemoryId -> RecallRow \cup {Absent, Gone}] /\ rows'[m] = Gone
      /\ \A k \in MemoryId : k # m => rows'[k] = rows[k]
  BY DEF RecallTypes, Present
<1>2. Present' = Present \ {m}
  BY <1>1 DEF Present
<1>3. Valid' = Valid \ {m}
  BY <1>1, <1>2 DEF Valid, Present
<1>4. \A k \in Present' : k \in Present /\ rows'[k] = rows[k]
  BY <1>1, <1>2 DEF Present
<1> QED
  BY <1>1, <1>2, <1>3, <1>4, RecallAssumption DEF Kept

\* Where the rows are kept and nothing is read, the pages stay right.
LEMMA PagedKept ==
    ASSUME RecallTypes, Paged, Kept, pager' = [pager EXCEPT !.must = pager'.must],
           pager'.must \subseteq pager.must \cap Present'
    PROVE  Paged'
<1>1. /\ pager'.got = pager.got /\ pager'.phase = pager.phase
      /\ pager'.cursor = pager.cursor
  BY DEF RecallTypes
<1>2. \A i \in 1 .. Len(pager.got) : pager.got[i] \in MemoryId
  BY DEF RecallTypes
<1>3. ASSUME NEW m \in Present', rows[m] # Absent
      PROVE  m \in Present /\ (Beyond(m, pager.cursor)' <=> Beyond(m, pager.cursor))
  BY <1>1, <1>3 DEF Kept, Beyond
<1>4. \A m \in pager'.must : m \in Present /\ rows[m] # Absent /\ m \in Present'
  BY DEF Paged, Present
<1>5. \A m \in pager'.must \cap Evidence' : m \in pager.must \cap Evidence
  BY <1>4 DEF Kept, Evidence
<1>6. \A i \in 1 .. Len(pager.got) : rows'[pager.got[i]] # Absent
  BY <1>2 DEF Paged, Kept
<1>7. ASSUME pager.phase = "paging", NEW i \in 1 .. Len(pager.got),
             pager.got[i] \in Present'
      PROVE  ~Beyond(pager.got[i], pager.cursor)'
  <2>1. rows[pager.got[i]] # Absent
    BY DEF Paged
  <2>2. PICK m \in Present' : m = pager.got[i] /\ m = (pager.got[i])'
    BY <1>1, <1>7
  <2>3. m \in Present => ~Beyond(m, pager.cursor)
    BY <1>7, <2>2 DEF Paged
  <2>4. ~Beyond(m, pager.cursor)'
    BY <1>3, <2>1, <2>2, <2>3
  <2> QED
    BY <2>2, <2>4 DEF Beyond
<1>8. ASSUME pager.phase # "idle", NEW m \in pager'.must \cap Evidence'
      PROVE  \/ \E i \in 1 .. Len(pager.got) : pager.got[i] = m
             \/ pager.phase = "paging" /\ Beyond(m, pager.cursor)'
  BY <1>3, <1>4, <1>5, <1>8 DEF Paged
<1> QED
  BY <1>1, <1>6, <1>7, <1>8, <1>4 DEF Paged

LEMMA RootedFewer ==
    ASSUME NEW E, Rooted(E), NEW F, F \subseteq E
    PROVE  Rooted(F)
BY DEF Rooted

\* Links from a memory that nothing links to make no cycle.
LEMMA RootedMore ==
    ASSUME NEW E, Rooted(E), NEW m, \A l \in E : l[2] # m, NEW K, m \notin K,
           NEW F, F \subseteq E \cup ({m} \X K)
    PROVE  Rooted(F)
<1> SUFFICES ASSUME NEW ms \in (SUBSET MemoryId) \ {{}}
             PROVE  \E k \in ms : \A n \in ms : <<n, k>> \notin F
  BY DEF Rooted
<1>1. CASE m \in ms
  <2>1. \A n \in ms : <<n, m>> \notin F
    OBVIOUS
  <2> QED
    BY <1>1, <2>1
<1>2. CASE m \notin ms
  <2>1. PICK k \in ms : \A n \in ms : <<n, k>> \notin E
    BY DEF Rooted
  <2>2. \A n \in ms : <<n, k>> \notin F
    BY <1>2, <2>1
  <2> QED
    BY <2>2
<1> QED
  BY <1>1, <1>2

LEMMA RecallStarts == RecallInit => RecallInv
<1> SUFFICES ASSUME RecallInit PROVE RecallInv
  OBVIOUS
<1>1. N \in Nat /\ MaxLag \in Nat /\ MaxClock \in Nat /\ MaxLag <= MaxClock
  BY RecallAssumption
<1>2. PICK first \in {Absent, Legacy} :
          rows = [m \in MemoryId |-> IF m = 1 THEN first ELSE Absent]
  BY DEF RecallInit
<1>3. Legacy \in RecallRow
  BY DEF Legacy, RecallRow
<1>4. \A m \in MemoryId : rows[m] = Legacy \/ rows[m] = Absent
  BY <1>2
<1>5. \A m \in Present : rows[m] = Legacy
  BY <1>4 DEF Present
<1>6. Present \subseteq MemoryId /\ Valid \subseteq MemoryId
  BY DEF Present, Valid
<1>7. RecallTypes
  <2>1. rows \in [MemoryId -> RecallRow \cup {Absent, Gone}]
    BY <1>2, <1>3
  <2>2. pager \in [phase : {"idle", "paging", "done"}, cursor : Int \X Nat,
                   got : Seq(MemoryId), must : SUBSET MemoryId]
    <3>1. NoCursor \in Int \X Nat /\ << >> \in Seq(MemoryId)
      BY DEF NoCursor
    <3> QED
      BY <3>1 DEF RecallInit
  <2>3. was \in [0 .. MaxClock -> SUBSET MemoryId]
    BY <1>6 DEF RecallInit
  <2>4. tx \in [Client -> {NoTx, Ended} \cup [phase : Open, old : MemoryId,
                                             new : MemoryId, stamp : Nat]]
    BY DEF RecallInit
  <2>5. now \in MaxLag .. MaxClock
    BY <1>1 DEF RecallInit
  <2> QED
    BY <2>1, <2>2, <2>3, <2>4, <2>5 DEF RecallTypes, RecallInit
<1>8. Stamped
  <2>1. \A m \in Present : rows[m].created = 0 /\ rows[m].to = NotYet
    BY <1>5 DEF Legacy
  <2>2. \A c \in Client : tx[c].phase \notin Open
    BY DEF RecallInit, NoTx, Open
  <2>3. 0 <= now
    BY <1>1 DEF RecallInit
  <2> QED
    BY <2>1, <2>2, <2>3 DEF Stamped
<1>9. TimeTravel
  <2>1. \A m \in Present : rows[m].created = 0 /\ rows[m].to = NotYet
    BY <1>5 DEF Legacy
  <2>2. \A t \in 0 .. now - 1 : PointInTime(t) = Present
    BY <2>1 DEF PointInTime
  <2>3. Valid = Present
    BY <2>1 DEF Valid
  <2>4. \A t \in 0 .. now - 1 : was[t] = Valid
    BY <1>1 DEF RecallInit
  <2> QED
    BY <2>2, <2>3, <2>4 DEF TimeTravel
<1>10. RetiredRows
  <2>1. \A m \in Present : rows[m].replaces = {}
    BY <1>5 DEF Legacy
  <2> QED
    BY <2>1 DEF RetiredRows, RecallInit
<1>11. Acyclic
  <2>1. Edges = {}
    BY DEF Edges, RecallInit
  <2>2. Rooted({})
    <3> SUFFICES ASSUME NEW ms \in (SUBSET MemoryId) \ {{}}
                 PROVE  \E m \in ms : \A n \in ms : <<n, m>> \notin {}
      BY DEF Rooted
    <3>1. PICK m \in ms : TRUE
      <4>1. ms # {}
        OBVIOUS
      <4> QED
        BY <4>1
    <3> QED
      BY <3>1
  <2> QED
    BY <2>1, <2>2 DEF Acyclic
<1>12. Paged
  <2>1. Len(pager.got) = 0
    BY DEF RecallInit
  <2> QED
    BY <2>1 DEF Paged, RecallInit
<1> QED
  BY <1>7, <1>8, <1>9, <1>10, <1>11, <1>12 DEF RecallInv

\* Time passes: the times behind are answered from what was current.
LEMMA TicksKeep ==
    ASSUME RecallInv, ClockTicks
    PROVE  RecallInv'
<1> USE DEF RecallInv
<1>1. N \in Nat /\ MaxLag \in Nat /\ MaxClock \in Nat /\ now \in MaxLag .. MaxClock
  BY RecallAssumption DEF RecallTypes
<1>2. now' = now + 1 /\ now' \in MaxLag .. MaxClock /\ now \in 0 .. MaxClock
  BY <1>1 DEF ClockTicks
<1>3. Present' = Present /\ Valid' = Valid /\ Edges' = Edges
  BY DEF ClockTicks, Present, Valid, Edges
<1>4. Valid \subseteq MemoryId
  BY DEF Valid, Present
<1>5. was' \in [0 .. MaxClock -> SUBSET MemoryId]
  BY <1>4 DEF ClockTicks, RecallTypes
<1>6. RecallTypes'
  BY <1>2, <1>5 DEF RecallTypes, ClockTicks
<1>7. \A m \in Present : rows[m].created \in Nat /\ rows[m].to \in Nat \cup {NotYet}
  BY PresentRows
<1>8. Stamped'
  <2>1. \A m \in Present :
          /\ rows[m].created <= now'
          /\ rows[m].to = NotYet \/ (rows[m].created <= rows[m].to /\ rows[m].to <= now')
    BY <1>1, <1>2, <1>7 DEF Stamped
  <2>2. \A c \in Client : tx[c].phase \in Open => tx[c].stamp \in Nat
    BY DEF RecallTypes, NoTx, Ended, Open
  <2>3. \A c \in Client : tx[c].phase \in Open => tx[c].stamp <= now'
    BY <1>1, <1>2, <2>2 DEF Stamped
  <2> QED
    BY <1>3, <2>1, <2>3 DEF Stamped, ClockTicks
<1>9. TimeTravel'
  <2> SUFFICES ASSUME NEW t \in 0 .. now' - 1
               PROVE  t \in rewritten \/ PointInTime(t) = was'[t]
    BY DEF TimeTravel, ClockTicks, PointInTime, Present
  <2>1. CASE t = now
    <3>1. was'[now] = Valid
      BY <1>2 DEF ClockTicks, RecallTypes
    <3>2. \A m \in Present :
              rows[m].created <= now /\ (rows[m].to = NotYet \/ ~(rows[m].to > now))
      BY <1>1, <1>7 DEF Stamped
    <3>3. PointInTime(now) = Valid
      BY <3>2, <1>7, RecallAssumption DEF PointInTime, Valid
    <3> QED
      BY <2>1, <3>1, <3>3
  <2>2. CASE t # now
    <3>1. t \in 0 .. now - 1
      BY <1>1, <1>2, <2>2
    <3>2. was'[t] = was[t]
      BY <2>2, <3>1, <1>1 DEF ClockTicks, RecallTypes
    <3> QED
      BY <3>1, <3>2 DEF TimeTravel
  <2> QED
    BY <2>1, <2>2
<1>10. RetiredRows' /\ Acyclic'
  BY <1>3 DEF RetiredRows, Acyclic, ClockTicks
<1>11. Paged'
  BY <1>3 DEF Paged, ClockTicks, Beyond, Evidence
<1> QED
  BY <1>6, <1>8, <1>9, <1>10, <1>11

\* Only the transactions and the unfinished statements change.
LEMMA TxKeeps ==
    ASSUME RecallInv,
           UNCHANGED <<rows, links, now, unapplied, pager, was, rewritten, crossed>>,
           RecallTypes', Stamped'
    PROVE  RecallInv'
<1>1. Present' = Present /\ Valid' = Valid /\ Edges' = Edges
  BY DEF Present, Valid, Edges
<1>2. TimeTravel'
  BY DEF RecallInv, TimeTravel, PointInTime, Present
<1>3. RetiredRows' /\ Acyclic'
  BY <1>1 DEF RecallInv, RetiredRows, Acyclic
<1>4. Paged'
  BY <1>1 DEF RecallInv, Paged, Beyond, Evidence
<1> QED
  BY <1>2, <1>3, <1>4 DEF RecallInv

\* supersede_entity: its steps up to the commit write to no table.
LEMMA BeginKeeps ==
    ASSUME RecallInv, NEW c \in Client, NEW old \in Present, NEW new \in Present,
           SupersedeBegin(c, old, new)
    PROVE  RecallInv'
<1>1. now \in Nat
  BY RecallAssumption DEF RecallInv, RecallTypes
<1> DEFINE r == [phase |-> "begun", old |-> old, new |-> new, stamp |-> now]
<1>2. old \in MemoryId /\ new \in MemoryId
  BY DEF Present
<1>3. r \in [phase : Open, old : MemoryId, new : MemoryId, stamp : Nat]
  BY <1>1, <1>2 DEF Open
<1>4. tx' = [tx EXCEPT ![c] = r] /\ UNCHANGED <<rows, links, now, unapplied, pager, was,
                                               rewritten, crossed>>
  BY DEF SupersedeBegin
<1>5. r.stamp = now /\ r.old = old /\ r.phase = "begun"
  OBVIOUS
<1> HIDE DEF r
<1>6. RecallTypes'
  BY <1>3, <1>4 DEF RecallInv, RecallTypes
<1>7. Stamped'
  <2>1. \A d \in Client : tx'[d] = IF d = c THEN r ELSE tx[d]
    BY <1>4 DEF RecallInv, RecallTypes
  <2>2. r.stamp <= now /\ rows[r.old] # Absent /\ rows[r.old].created <= r.stamp
        /\ r.phase # "checked"
    BY <1>1, <1>5 DEF RecallInv, Stamped, Present
  <2> QED
    BY <1>4, <2>1, <2>2 DEF RecallInv, Stamped, Present
<1> QED
  BY <1>4, <1>6, <1>7, TxKeeps

\* A step of a transaction that goes on with what it has, or ends.
LEMMA PhaseKeeps ==
    ASSUME RecallInv, NEW c \in Client, tx[c].phase \in Open,
           NEW phase \in Open, phase = "checked" => tx[c].new # tx[c].old,
           \/ tx' = [tx EXCEPT ![c] = [@ EXCEPT !.phase = phase]]
           \/ tx' = [tx EXCEPT ![c] = Ended],
           UNCHANGED <<rows, links, now, unapplied, pager, was, rewritten, crossed>>
    PROVE  RecallInv'
<1>1. tx[c] \in [phase : Open, old : MemoryId, new : MemoryId, stamp : Nat]
  BY DEF RecallInv, RecallTypes, NoTx, Ended, Open
<1> DEFINE r == [tx[c] EXCEPT !.phase = phase]
<1>2. /\ r \in [phase : Open, old : MemoryId, new : MemoryId, stamp : Nat]
      /\ r.old = tx[c].old /\ r.new = tx[c].new /\ r.stamp = tx[c].stamp
      /\ r.phase = phase
  BY <1>1
<1>3. PICK q \in {r, Ended} : tx' = [tx EXCEPT ![c] = q]
  OBVIOUS
<1> HIDE DEF r
<1>4. RecallTypes'
  BY <1>2, <1>3 DEF RecallInv, RecallTypes
<1>5. Stamped'
  <2>1. \A d \in Client : tx'[d] = IF d = c THEN q ELSE tx[d]
    BY <1>3 DEF RecallInv, RecallTypes
  <2>2. Ended.phase \notin Open
    BY DEF Ended, Open
  <2>3. q.phase \in Open =>
          /\ q.stamp <= now /\ rows[q.old] # Absent
          /\ q.old \in Present => rows[q.old].created <= q.stamp
          /\ q.phase = "checked" => q.new # q.old
    BY <1>2, <1>3, <2>2 DEF RecallInv, Stamped
  <2>4. \A d \in Client : tx'[d].phase \in Open =>
          /\ tx'[d].stamp <= now /\ rows[tx'[d].old] # Absent
          /\ tx'[d].old \in Present => rows[tx'[d].old].created <= tx'[d].stamp
          /\ tx'[d].phase = "checked" => tx'[d].new # tx'[d].old
    BY <2>1, <2>3 DEF RecallInv, Stamped
  <2>5. Present' = Present
    BY DEF Present
  <2> QED
    BY <2>4, <2>5 DEF RecallInv, Stamped
<1> QED
  BY <1>4, <1>5, TxKeeps

LEMMA CheckKeeps ==
    ASSUME RecallInv, NEW c \in Client, SupersedeUpdate(c) \/ SupersedeCheck(c)
    PROVE  RecallInv'
<1>1. CASE SupersedeUpdate(c)
  <2>1. /\ tx[c].phase \in Open /\ "updated" \in Open /\ "updated" # "checked"
        /\ \/ tx' = [tx EXCEPT ![c] = [@ EXCEPT !.phase = "updated"]]
           \/ tx' = [tx EXCEPT ![c] = Ended]
        /\ UNCHANGED <<rows, links, now, unapplied, pager, was, rewritten, crossed>>
    BY <1>1 DEF SupersedeUpdate, Open
  <2> QED
    BY <2>1, PhaseKeeps
<1>2. CASE SupersedeCheck(c)
  <2>1. /\ tx[c].phase \in Open /\ "checked" \in Open
        /\ UNCHANGED <<rows, links, now, unapplied, pager, was, rewritten, crossed>>
    BY <1>2 DEF SupersedeCheck, Open
  <2>2. CASE tx[c].new \in Valid \ {tx[c].old}
    <3>1. tx' = [tx EXCEPT ![c] = [@ EXCEPT !.phase = "checked"]]
      BY <1>2, <2>2 DEF SupersedeCheck
    <3> QED
      BY <2>1, <2>2, <3>1, PhaseKeeps
  <2>3. CASE tx[c].new \notin Valid \ {tx[c].old}
    <3>1. tx' = [tx EXCEPT ![c] = Ended]
      BY <1>2, <2>3 DEF SupersedeCheck
    <3>2. "begun" \in Open /\ "begun" # "checked"
      BY DEF Open
    <3> QED
      BY <2>1, <3>1, <3>2, PhaseKeeps
  <2> QED
    BY <2>2, <2>3
<1> QED
  BY <1>1, <1>2

\* The links entered were among those still to be entered.
LEMMA LinkKeeps ==
    ASSUME RecallInv, NEW m \in MemoryId, ApplyLink(m)
    PROVE  RecallInv'
<1>1. /\ unapplied[m] = "link" /\ m \in Present
      /\ unapplied' = [unapplied EXCEPT ![m] = "done"]
      /\ UNCHANGED <<rows, now, tx, pager, was, rewritten, crossed>>
  BY DEF ApplyLink
<1>2. Present' = Present /\ Valid' = Valid
  BY <1>1 DEF Present, Valid
<1>3. links' \subseteq links \cup ({m} \X rows[m].replaces)
  BY DEF ApplyLink
<1>4. m \in MemoryId /\ rows[m].replaces \subseteq MemoryId
  BY <1>1, PresentRows DEF RecallInv
<1>5. /\ unapplied' \in [MemoryId -> {"done", "update", "link"}]
      /\ \A k \in MemoryId : unapplied'[k] = IF k = m THEN "done" ELSE unapplied[k]
  BY <1>1 DEF RecallInv, RecallTypes
<1>6. RecallTypes'
  <2>1. links' \subseteq MemoryId \X MemoryId
    BY <1>3, <1>4 DEF RecallInv, RecallTypes
  <2> QED
    BY <1>1, <1>5, <2>1 DEF RecallInv, RecallTypes
<1>7. Stamped'
  BY <1>1, <1>2 DEF RecallInv, Stamped
<1>8. TimeTravel'
  BY <1>1 DEF RecallInv, TimeTravel, PointInTime, Present
<1>9. RetiredRows'
  <2>1. \A k \in rows[m].replaces : rows[k] # Absent /\ k \notin Valid
    BY <1>1 DEF RecallInv, RetiredRows
  <2>2. ASSUME NEW l \in links' PROVE rows[l[2]] # Absent /\ l[2] \notin Valid
    BY <1>3, <2>1 DEF RecallInv, RetiredRows
  <2> QED
    BY <1>1, <1>2, <1>5, <2>2, <2>1 DEF RecallInv, RetiredRows
<1>10. Acyclic'
  <2>1. Edges' \subseteq Edges
    <3>1. {m} \X rows[m].replaces \subseteq Edges
      BY <1>1, <1>4 DEF Edges
    <3>2. ASSUME NEW l \in MemoryId \X MemoryId, unapplied'[l[1]] = "link",
                 l[2] \in rows[l[1]].replaces
          PROVE  l \in Edges
      BY <1>5, <3>2 DEF Edges
    <3> QED
      BY <1>1, <1>3, <3>1, <3>2 DEF Edges
  <2> QED
    BY <1>1, <2>1, RootedFewer DEF RecallInv, Acyclic
<1>11. Paged'
  BY <1>1, <1>2 DEF RecallInv, Paged, Beyond, Evidence
<1> QED
  BY <1>6, <1>7, <1>8, <1>9, <1>10, <1>11 DEF RecallInv

\* A row is inserted; what it supersedes is still valid.
LEMMA InsertSafe ==
    ASSUME RecallInv, NEW m \in MemoryId, NEW shape \in Shapes[m],
           NEW olds \in SUBSET Present,
           InsertMemory(m, shape, olds)
    PROVE  RecallInv'
<1>1. PICK t \in Stamps : /\ rows' = [rows EXCEPT ![m] = NewRow(shape, olds, t)]
                          /\ CommitsStamped(t)
  BY DEF InsertMemory
<1>2. /\ rows[m] = Absent /\ UNCHANGED <<decodes, links, now, tx, pager, was, crossed>>
      /\ unapplied' = [unapplied EXCEPT ![m] = IF olds = {} THEN "done" ELSE "update"]
  BY DEF InsertMemory
<1>3. t \in Nat /\ t <= now /\ now \in Nat
  BY RecallAssumption DEF RecallInv, RecallTypes, Stamps
<1> DEFINE r == NewRow(shape, olds, t)
<1>4. r \in RecallRow /\ r.to = NotYet /\ r.created = t /\ r.replaces = olds
  <2>1. shape \in {"learned", "plain", "recorded", "accepted"}
    BY RecallAssumption
  <2>2. Shape[shape].kind \in {"learning", "evidence"} /\ Shape[shape].reviewed \in BOOLEAN
        /\ Shape[shape].embedded \in BOOLEAN
    <3>1. CASE shape = "learned"
      BY <3>1 DEF Shape
    <3>2. CASE shape = "plain"
      BY <3>2 DEF Shape
    <3>3. CASE shape = "recorded"
      BY <3>3 DEF Shape
    <3>4. CASE shape = "accepted"
      BY <3>4 DEF Shape
    <3> QED
      BY <2>1, <3>1, <3>2, <3>3, <3>4
  <2>3. olds \in SUBSET MemoryId
    BY DEF Present
  <2> QED
    BY <2>2, <2>3, <1>3 DEF NewRow, RecallRow
<1> HIDE DEF r
<1>5. /\ Kept /\ Present' = Present \cup {m} /\ m \notin Present
      /\ Valid' = Valid \cup {m} /\ rows'[m] = r
      /\ \A k \in MemoryId : k # m => rows'[k] = rows[k]
  BY <1>1, <1>2, <1>4, InsertKeeps DEF RecallInv, r
<1>6. Valid \subseteq Present /\ Present \subseteq MemoryId
  BY PresentRows DEF RecallInv
<1>7. /\ unapplied' \in [MemoryId -> {"done", "update", "link"}]
      /\ \A k \in MemoryId : k # m => unapplied'[k] = unapplied[k]
      /\ unapplied'[m] \in {"done", "update"} /\ (olds # {} => unapplied'[m] = "update")
  BY <1>2 DEF RecallInv, RecallTypes
<1>8. RecallTypes'
  BY <1>2, <1>5, <1>7 DEF RecallInv, RecallTypes, Kept
<1>9. Stamped'
  <2>1. \A k \in Present : rows'[k] = rows[k] /\ k # m
    BY <1>5, <1>6
  <2>2. \A k \in Present' :
          /\ rows'[k].created <= now
          /\ rows'[k].to = NotYet \/ (rows'[k].created <= rows'[k].to /\ rows'[k].to <= now)
    BY <1>3, <1>4, <1>5, <2>1 DEF RecallInv, Stamped
  <2>3. ASSUME NEW c \in Client, tx[c].phase \in Open
        PROVE  /\ tx[c].stamp <= now /\ rows'[tx[c].old] # Absent
               /\ tx[c].old \in Present' => rows'[tx[c].old].created <= tx[c].stamp
               /\ tx[c].phase = "checked" => tx[c].new # tx[c].old
    <3>1. tx[c].old \in MemoryId
      BY <2>3 DEF RecallInv, RecallTypes, NoTx, Ended, Open
    <3>2. tx[c].old # m /\ rows'[tx[c].old] = rows[tx[c].old]
      BY <1>2, <1>5, <2>3, <3>1 DEF RecallInv, Stamped
    <3> QED
      BY <2>3, <1>5, <3>2 DEF RecallInv, Stamped
  <2> QED
    BY <1>2, <2>2, <2>3 DEF Stamped
<1>10. TimeTravel'
  <2> SUFFICES ASSUME NEW i \in 0 .. now - 1, i \notin rewritten'
               PROVE  PointInTime(i)' = was[i]
    BY <1>2 DEF TimeTravel
  <2>1. i \notin rewritten /\ i < t
    BY <1>1, <1>3 DEF CommitsStamped
  <2>2. \A k \in Present : rows'[k] = rows[k] /\ k # m
    BY <1>5, <1>6
  <2>3. ~(rows'[m].created <= i)
    BY <1>3, <1>4, <1>5, <2>1
  <2>4. PointInTime(i)' = PointInTime(i)
    BY <1>5, <2>2, <2>3 DEF PointInTime
  <2> QED
    BY <2>1, <2>4 DEF RecallInv, TimeTravel
<1>11. RetiredRows'
  <2>1. \A l \in links : rows'[l[2]] # Absent /\ l[2] \notin Valid'
    <3> SUFFICES ASSUME NEW l \in links PROVE rows'[l[2]] # Absent /\ l[2] \notin Valid'
      OBVIOUS
    <3>1. l[2] \in MemoryId /\ rows[l[2]] # Absent /\ l[2] \notin Valid
      BY DEF RecallInv, RecallTypes, RetiredRows
    <3>2. l[2] # m
      BY <1>2, <3>1
    <3> QED
      BY <3>1, <3>2, <1>5
  <2>2. ASSUME NEW n \in Present', NEW k \in rows'[n].replaces
        PROVE  k # n /\ rows'[k] # Absent /\ (unapplied'[n] # "update" => k \notin Valid')
    <3>1. CASE n = m
      <4>1. k \in olds
        BY <2>2, <3>1, <1>4, <1>5
      <4>2. k \in Present /\ k # m /\ rows'[k] = rows[k] /\ unapplied'[m] = "update"
        BY <4>1, <1>5, <1>6, <1>7
      <4> QED
        BY <3>1, <4>2 DEF Present
    <3>2. CASE n # m
      <4>1. n \in Present /\ rows'[n] = rows[n] /\ unapplied'[n] = unapplied[n]
        BY <3>2, <1>5, <1>6, <1>7
      <4>2. k \in rows[n].replaces /\ k \in MemoryId
        BY <2>2, <4>1, PresentRows DEF RecallInv
      <4>3. k # n /\ rows[k] # Absent /\ (unapplied[n] # "update" => k \notin Valid)
        BY <4>1, <4>2 DEF RecallInv, RetiredRows
      <4>4. k # m
        BY <1>2, <4>3
      <4> QED
        BY <4>1, <4>2, <4>3, <4>4, <1>5
    <3> QED
      BY <3>1, <3>2
  <2>3. \A k \in MemoryId \ Present' : unapplied'[k] = "done"
    BY <1>5, <1>7 DEF RecallInv, RetiredRows
  <2> QED
    BY <1>2, <2>1, <2>2, <2>3 DEF RetiredRows
<1>12. Acyclic'
  <2>1. Edges' \subseteq Edges
    <3>1. ASSUME NEW l \in MemoryId \X MemoryId, unapplied'[l[1]] = "link",
                 l[2] \in rows'[l[1]].replaces
          PROVE  l \in Edges
      <4>1. l[1] \in MemoryId /\ l[1] # m
        BY <3>1, <1>7
      <4> QED
        BY <3>1, <4>1, <1>5, <1>7 DEF Edges
    <3> QED
      BY <1>2, <3>1 DEF Edges
  <2> QED
    BY <1>2, <2>1, RootedFewer DEF RecallInv, Acyclic
<1>13. Paged'
  <2>1. pager' = [pager EXCEPT !.must = pager'.must]
    BY <1>2 DEF RecallInv, RecallTypes
  <2>2. pager'.must \subseteq pager.must \cap Present'
    BY <1>2, <1>5 DEF RecallInv, Paged
  <2> QED
    BY <1>5, <2>1, <2>2, PagedKept DEF RecallInv
<1> QED
  BY <1>8, <1>9, <1>10, <1>11, <1>12, <1>13 DEF RecallInv

\* A row goes, with its links.
LEMMA DeleteSafe ==
    ASSUME RecallInv, NEW m \in MemoryId, DeleteWithLinks(m)
    PROVE  RecallInv'
<1>1. /\ m \in Present /\ rows' = [rows EXCEPT ![m] = Gone]
      /\ links' = {l \in links : m \notin {l[1], l[2]}}
      /\ unapplied' = [unapplied EXCEPT ![m] = "done"]
      /\ was' = [t \in DOMAIN was |-> was[t] \ {m}]
      /\ pager' = [pager EXCEPT !.must = @ \ {m}]
      /\ UNCHANGED <<now, tx, rewritten, crossed>>
  BY DEF DeleteWithLinks
<1>2. /\ Kept /\ Present' = Present \ {m} /\ Valid' = Valid \ {m}
      /\ \A k \in MemoryId : k # m => rows'[k] = rows[k]
  BY <1>1, DeleteKeeps DEF RecallInv
<1>3. Valid \subseteq Present /\ Present \subseteq MemoryId
  BY PresentRows DEF RecallInv
<1>4. /\ unapplied' \in [MemoryId -> {"done", "update", "link"}]
      /\ \A k \in MemoryId : unapplied'[k] = IF k = m THEN "done" ELSE unapplied[k]
  BY <1>1 DEF RecallInv, RecallTypes
<1>5. /\ pager'.must = pager.must \ {m} /\ pager' = [pager EXCEPT !.must = pager'.must]
      /\ pager' \in [phase : {"idle", "paging", "done"}, cursor : Int \X Nat,
                     got : Seq(MemoryId), must : SUBSET MemoryId]
  BY <1>1 DEF RecallInv, RecallTypes
<1>6. RecallTypes'
  BY <1>1, <1>2, <1>4, <1>5 DEF RecallInv, RecallTypes, Kept
<1>7. \A k \in Present' : k \in Present /\ rows'[k] = rows[k]
  BY <1>2, <1>3
<1>8. Stamped'
  <2>1. \A k \in Present' :
          /\ rows'[k].created <= now
          /\ rows'[k].to = NotYet \/ (rows'[k].created <= rows'[k].to /\ rows'[k].to <= now)
    BY <1>7 DEF RecallInv, Stamped
  <2>2. ASSUME NEW c \in Client, tx[c].phase \in Open
        PROVE  /\ tx[c].stamp <= now /\ rows'[tx[c].old] # Absent
               /\ tx[c].old \in Present' => rows'[tx[c].old].created <= tx[c].stamp
               /\ tx[c].phase = "checked" => tx[c].new # tx[c].old
    <3>1. tx[c].old \in MemoryId
      BY <2>2 DEF RecallInv, RecallTypes, NoTx, Ended, Open
    <3> QED
      BY <2>2, <3>1, <1>2, <1>7 DEF RecallInv, Stamped, Kept
  <2> QED
    BY <1>1, <2>1, <2>2 DEF Stamped
<1>9. TimeTravel'
  <2> SUFFICES ASSUME NEW i \in 0 .. now - 1, i \notin rewritten
               PROVE  PointInTime(i)' = was'[i]
    BY <1>1 DEF TimeTravel
  <2>1. PointInTime(i) = was[i]
    BY DEF RecallInv, TimeTravel
  <2>2. was'[i] = was[i] \ {m}
    BY <1>1, RecallAssumption DEF RecallInv, RecallTypes
  <2>3. PointInTime(i)' = PointInTime(i) \ {m}
    BY <1>2, <1>7 DEF PointInTime
  <2> QED
    BY <2>1, <2>2, <2>3
<1>10. RetiredRows'
  <2>1. ASSUME NEW l \in links' PROVE rows'[l[2]] # Absent /\ l[2] \notin Valid'
    <3>1. l[2] \in MemoryId /\ rows[l[2]] # Absent /\ l[2] \notin Valid
      BY <1>1 DEF RecallInv, RecallTypes, RetiredRows
    <3> QED
      BY <3>1, <1>2 DEF Kept
  <2>2. ASSUME NEW n \in Present', NEW k \in rows'[n].replaces
        PROVE  k # n /\ rows'[k] # Absent /\ (unapplied'[n] # "update" => k \notin Valid')
    <3>1. n \in Present /\ k \in rows[n].replaces /\ unapplied'[n] = unapplied[n]
      BY <2>2, <1>2, <1>3, <1>4, <1>7
    <3>2. k \in MemoryId
      BY <3>1, PresentRows DEF RecallInv
    <3> QED
      BY <3>1, <3>2, <1>2 DEF RecallInv, RetiredRows, Kept
  <2>3. \A k \in MemoryId \ Present' : unapplied'[k] = "done"
    BY <1>2, <1>4 DEF RecallInv, RetiredRows
  <2> QED
    BY <2>1, <2>2, <2>3 DEF RetiredRows
<1>11. Acyclic'
  <2>1. Edges' \subseteq Edges
    <3>1. ASSUME NEW l \in MemoryId \X MemoryId, unapplied'[l[1]] = "link",
                 l[2] \in rows'[l[1]].replaces
          PROVE  l \in Edges
      <4>1. l[1] \in MemoryId /\ l[1] # m
        BY <3>1, <1>4
      <4> QED
        BY <3>1, <4>1, <1>2, <1>4 DEF Edges
    <3> QED
      BY <1>1, <3>1 DEF Edges
  <2> QED
    BY <1>1, <2>1, RootedFewer DEF RecallInv, Acyclic
<1>12. Paged'
  <2>1. pager'.must \subseteq pager.must \cap Present'
    BY <1>2, <1>5 DEF RecallInv, Paged
  <2> QED
    BY <1>2, <1>5, <2>1, PagedKept DEF RecallInv
<1> QED
  BY <1>6, <1>8, <1>9, <1>10, <1>11, <1>12 DEF RecallInv

\* The rows of ms are invalidated with stamp t.
LEMMA InvalidatedStamps ==
    ASSUME RecallInv, NEW ms, NEW t \in Nat, t <= now, rows' = Invalidated(ms, t),
           \A m \in ms \cap Valid : rows[m].created <= t, now' = now
    PROVE  /\ \A m \in Present' :
                /\ rows'[m].created <= now'
                /\ rows'[m].to = NotYet \/ (/\ rows'[m].created <= rows'[m].to
                                            /\ rows'[m].to <= now')
           /\ \A i \in 0 .. now - 1 : i < t => PointInTime(i)' = PointInTime(i)
           /\ \A c \in Client : tx[c].phase \in Open =>
                /\ tx[c].stamp <= now' /\ rows'[tx[c].old] # Absent
                /\ tx[c].old \in Present' => rows'[tx[c].old].created <= tx[c].stamp
                /\ tx[c].phase = "checked" => tx[c].new # tx[c].old
<1>1. /\ Kept /\ Present' = Present /\ Valid' = Valid \ ms
      /\ \A m \in MemoryId : m \notin ms \cap Valid => rows'[m] = rows[m]
      /\ \A m \in ms \cap Valid : rows'[m].to = t
      /\ \A m \in Present : rows'[m].created = rows[m].created
  BY InvalidatedKeeps DEF RecallInv
<1>2. Valid \subseteq Present /\ Present \subseteq MemoryId
  BY PresentRows DEF RecallInv
<1>3. ASSUME NEW m \in Present'
      PROVE  /\ rows'[m].created <= now'
             /\ rows'[m].to = NotYet \/ (/\ rows'[m].created <= rows'[m].to
                                         /\ rows'[m].to <= now')
  <2>1. CASE m \in ms \cap Valid
    BY <1>1, <2>1 DEF RecallInv, Stamped
  <2>2. CASE m \notin ms \cap Valid
    <3>1. m \in Present /\ rows'[m] = rows[m]
      BY <1>1, <1>2, <2>2
    <3> QED
      BY <3>1 DEF RecallInv, Stamped
  <2> QED
    BY <2>1, <2>2
<1>4. ASSUME NEW i \in 0 .. now - 1, i < t
      PROVE  PointInTime(i)' = PointInTime(i)
  <2>1. ASSUME NEW m \in Present
        PROVE  (rows'[m].to = NotYet \/ rows'[m].to > i)
                  <=> (rows[m].to = NotYet \/ rows[m].to > i)
    <3>1. CASE m \in ms \cap Valid
      BY <1>1, <1>4, <3>1 DEF Valid
    <3>2. CASE m \notin ms \cap Valid
      BY <1>1, <1>2, <3>2
    <3> QED
      BY <3>1, <3>2
  <2> QED
    BY <1>1, <2>1 DEF PointInTime
<1>5. ASSUME NEW c \in Client, tx[c].phase \in Open
      PROVE  /\ tx[c].stamp <= now' /\ rows'[tx[c].old] # Absent
             /\ tx[c].old \in Present' => rows'[tx[c].old].created <= tx[c].stamp
             /\ tx[c].phase = "checked" => tx[c].new # tx[c].old
  <2>1. tx[c].old \in MemoryId
    BY <1>5 DEF RecallInv, RecallTypes, NoTx, Ended, Open
  <2> QED
    BY <1>1, <1>5, <2>1 DEF RecallInv, Stamped, Kept
<1> QED
  BY <1>3, <1>4, <1>5

\* The superseding statement runs: what it takes out had been shown till now.
LEMMA UpdateSafe ==
    ASSUME RecallInv, NEW m \in MemoryId, ApplyUpdate(m)
    PROVE  RecallInv'
<1> DEFINE ms == rows[m].replaces
<1>1. /\ unapplied[m] = "update" /\ m \in Present
      /\ rows' = Invalidated(ms, now)
      /\ crossed' = (crossed \/ m \notin Valid)
      /\ unapplied' = [unapplied EXCEPT ![m] = IF rows[m].reviewed THEN "done"
                                               ELSE "link"]
      /\ UNCHANGED <<links, now, tx, pager, was, rewritten>>
  BY DEF ApplyUpdate
<1>2. now \in Nat /\ now <= now
  BY RecallAssumption DEF RecallInv, RecallTypes
<1>3. /\ Kept /\ Present' = Present /\ Valid' = Valid \ ms
      /\ \A k \in Present : rows'[k].replaces = rows[k].replaces
  BY <1>1, <1>2, InvalidatedKeeps DEF RecallInv
<1>4. /\ Valid \subseteq Present /\ Present \subseteq MemoryId
      /\ \A k \in Present : rows[k].replaces \in SUBSET MemoryId
      /\ \A k \in MemoryId \ Present : rows[k] \in {Absent, Gone}
  BY PresentRows DEF RecallInv
<1>5. /\ unapplied' \in [MemoryId -> {"done", "update", "link"}]
      /\ \A k \in MemoryId : k # m => unapplied'[k] = unapplied[k]
  BY <1>1 DEF RecallInv, RecallTypes
<1>6. RecallTypes'
  BY <1>1, <1>3, <1>5 DEF RecallInv, RecallTypes, Kept
<1>7. \A k \in ms \cap Valid : rows[k].created <= now
  BY <1>4 DEF RecallInv, Stamped
<1>8. Stamped' /\ \A i \in 0 .. now - 1 : PointInTime(i)' = PointInTime(i)
  <2> HIDE DEF ms
  <2>1. /\ \A k \in Present' :
             /\ rows'[k].created <= now'
             /\ rows'[k].to = NotYet \/ (/\ rows'[k].created <= rows'[k].to
                                         /\ rows'[k].to <= now')
        /\ \A i \in 0 .. now - 1 : i < now => PointInTime(i)' = PointInTime(i)
        /\ \A c \in Client : tx[c].phase \in Open =>
             /\ tx[c].stamp <= now' /\ rows'[tx[c].old] # Absent
             /\ tx[c].old \in Present' => rows'[tx[c].old].created <= tx[c].stamp
             /\ tx[c].phase = "checked" => tx[c].new # tx[c].old
    BY <1>1, <1>2, <1>7, InvalidatedStamps
  <2>2. \A i \in 0 .. now - 1 : i < now
    BY <1>2
  <2> QED
    BY <1>1, <2>1, <2>2 DEF Stamped
<1>9. TimeTravel'
  BY <1>1, <1>8 DEF RecallInv, TimeTravel
<1>10. RetiredRows'
  <2>1. ASSUME NEW l \in links PROVE rows'[l[2]] # Absent /\ l[2] \notin Valid'
    <3>1. l[2] \in MemoryId /\ rows[l[2]] # Absent /\ l[2] \notin Valid
      BY DEF RecallInv, RecallTypes, RetiredRows
    <3> QED
      BY <3>1, <1>3 DEF Kept
  <2>2. ASSUME NEW n \in Present', NEW k \in rows'[n].replaces
        PROVE  k # n /\ rows'[k] # Absent /\ (unapplied'[n] # "update" => k \notin Valid')
    <3>1. n \in Present /\ k \in rows[n].replaces /\ k \in MemoryId
      BY <2>2, <1>3, <1>4
    <3>2. k # n /\ rows[k] # Absent /\ (unapplied[n] # "update" => k \notin Valid)
      BY <3>1 DEF RecallInv, RetiredRows
    <3>3. n = m => k \notin Valid'
      BY <3>1, <1>3
    <3> QED
      BY <3>1, <3>2, <3>3, <1>3, <1>4, <1>5 DEF Kept
  <2>3. \A k \in MemoryId \ Present' : unapplied'[k] = "done"
    BY <1>1, <1>3, <1>5 DEF RecallInv, RetiredRows
  <2> QED
    BY <1>1, <2>1, <2>2, <2>3 DEF RetiredRows
<1>11. Acyclic'
  <2> SUFFICES ASSUME ~crossed, m \in Valid PROVE Rooted(Edges')
    BY <1>1 DEF Acyclic, Rooted
  <2>1. Rooted(Edges)
    BY DEF RecallInv, Acyclic
  <2>2. ASSUME NEW l \in Edges PROVE l[2] # m
    <3>1. CASE l \in links
      BY <3>1 DEF RecallInv, RetiredRows
    <3>2. CASE l \notin links
      <4>1. l[1] \in MemoryId /\ unapplied[l[1]] = "link" /\ l[2] \in rows[l[1]].replaces
        BY <3>2 DEF Edges
      <4>2. l[1] \in Present
        BY <4>1 DEF RecallInv, RetiredRows
      <4> QED
        BY <4>1, <4>2 DEF RecallInv, RetiredRows
    <3> QED
      BY <3>1, <3>2
  <2>3. m \notin ms
    BY <1>1 DEF RecallInv, RetiredRows
  <2>4. Edges' \subseteq Edges \cup ({m} \X ms)
    <3>1. ASSUME NEW l \in MemoryId \X MemoryId, unapplied'[l[1]] = "link",
                 l[2] \in rows'[l[1]].replaces
          PROVE  l \in Edges \cup ({m} \X ms)
      <4>1. CASE l[1] = m
        <5>1. l[2] \in ms
          BY <1>1, <1>3, <3>1, <4>1
        <5> QED
          BY <4>1, <5>1
      <4>2. CASE l[1] # m
        <5>1. unapplied[l[1]] = "link"
          BY <1>5, <3>1, <4>2
        <5>2. l[1] \in Present
          BY <5>1 DEF RecallInv, RetiredRows
        <5> QED
          BY <1>3, <3>1, <5>1, <5>2 DEF Edges
      <4> QED
        BY <4>1, <4>2
    <3>2. \A l \in Edges' : l \in links \/ (/\ l \in MemoryId \X MemoryId
                                            /\ unapplied'[l[1]] = "link"
                                            /\ l[2] \in rows'[l[1]].replaces)
      BY <1>1 DEF Edges
    <3>3. links \subseteq Edges
      BY DEF Edges
    <3> HIDE DEF ms
    <3> QED
      BY <3>1, <3>2, <3>3
  <2> HIDE DEF ms
  <2> QED
    BY <2>1, <2>2, <2>3, <2>4, RootedMore
<1>12. Paged'
  <2>1. pager' = [pager EXCEPT !.must = pager'.must]
    BY <1>1 DEF RecallInv, RecallTypes
  <2>2. pager'.must \subseteq pager.must \cap Present'
    BY <1>1, <1>3 DEF RecallInv, Paged
  <2> QED
    BY <1>3, <2>1, <2>2, PagedKept DEF RecallInv
<1> QED
  BY <1>6, <1>8, <1>9, <1>10, <1>11, <1>12 DEF RecallInv

\* supersede_entity commits: the old memory is out from its stamp on, and the new
\* one was valid, or the crossing is noted.
LEMMA CommitSafe ==
    ASSUME RecallInv, NEW c \in Client, SupersedeCommit(c)
    PROVE  RecallInv'
<1>1. /\ tx[c].phase = "checked" /\ tx' = [tx EXCEPT ![c] = Ended]
      /\ UNCHANGED <<now, unapplied, pager, was>>
  BY DEF SupersedeCommit
<1>2. tx[c].phase \in Open /\ "begun" \in Open /\ "begun" # "checked"
  BY <1>1 DEF Open
<1>3. CASE ~(decodes /\ tx[c].new \in Present)
  <2>1. UNCHANGED <<rows, links, now, unapplied, pager, was, rewritten, crossed>>
    BY <1>1, <1>3 DEF SupersedeCommit
  <2> QED
    BY <1>1, <1>2, <2>1, PhaseKeeps
<1>4. CASE decodes /\ tx[c].new \in Present
  <2> DEFINE old == tx[c].old
             new == tx[c].new
             t == tx[c].stamp
  <2>1. /\ rows' = Invalidated({old}, t) /\ links' = links \cup {<<new, old>>}
        /\ crossed' = (crossed \/ new \notin Valid) /\ CommitsStamped(t)
    BY <1>4 DEF SupersedeCommit
  <2>2. /\ old \in MemoryId /\ new \in MemoryId /\ t \in Nat /\ t <= now
        /\ rows[old] # Absent /\ new # old
        /\ old \in Present => rows[old].created <= t
    BY <1>1, <1>2 DEF RecallInv, RecallTypes, Stamped, NoTx, Ended, Open
  <2>3. now \in Nat
    BY RecallAssumption DEF RecallInv, RecallTypes
  <2> HIDE DEF old, new, t
  <2>4. /\ Kept /\ Present' = Present /\ Valid' = Valid \ {old}
        /\ \A k \in Present : rows'[k].replaces = rows[k].replaces
    BY <2>1, <2>2, InvalidatedKeeps DEF RecallInv
  <2>5. /\ Valid \subseteq Present /\ Present \subseteq MemoryId
        /\ \A k \in Present : rows[k].replaces \in SUBSET MemoryId
    BY PresentRows DEF RecallInv
  <2>6. RecallTypes'
    <3>1. tx' \in [Client -> {NoTx, Ended} \cup [phase : Open, old : MemoryId,
                                                 new : MemoryId, stamp : Nat]]
      BY <1>1 DEF RecallInv, RecallTypes
    <3>2. links' \subseteq MemoryId \X MemoryId
      BY <2>1, <2>2 DEF RecallInv, RecallTypes
    <3> QED
      BY <1>1, <2>4, <3>1, <3>2 DEF RecallInv, RecallTypes, Kept
  <2>7. \A k \in {old} \cap Valid : rows[k].created <= t
    BY <2>2, <2>5
  <2>8. /\ \A k \in Present' :
             /\ rows'[k].created <= now'
             /\ rows'[k].to = NotYet \/ (/\ rows'[k].created <= rows'[k].to
                                         /\ rows'[k].to <= now')
        /\ \A i \in 0 .. now - 1 : i < t => PointInTime(i)' = PointInTime(i)
        /\ \A d \in Client : tx[d].phase \in Open =>
             /\ tx[d].stamp <= now' /\ rows'[tx[d].old] # Absent
             /\ tx[d].old \in Present' => rows'[tx[d].old].created <= tx[d].stamp
             /\ tx[d].phase = "checked" => tx[d].new # tx[d].old
    BY <1>1, <2>1, <2>2, <2>7, InvalidatedStamps
  <2>9. Stamped'
    <3>1. \A d \in Client : tx'[d] = IF d = c THEN Ended ELSE tx[d]
      BY <1>1 DEF RecallInv, RecallTypes
    <3>2. Ended.phase \notin Open
      BY DEF Ended, Open
    <3>3. ASSUME NEW d \in Client, tx'[d].phase \in Open
          PROVE  /\ tx'[d].stamp <= now' /\ rows'[tx'[d].old] # Absent
                 /\ tx'[d].old \in Present' => rows'[tx'[d].old].created <= tx'[d].stamp
                 /\ tx'[d].phase = "checked" => tx'[d].new # tx'[d].old
      BY <2>8, <3>1, <3>2, <3>3
    <3> QED
      BY <2>8, <3>3 DEF Stamped
  <2>10. TimeTravel'
    <3> SUFFICES ASSUME NEW i \in 0 .. now - 1, i \notin rewritten'
                 PROVE  PointInTime(i)' = was[i]
      BY <1>1 DEF TimeTravel
    <3>1. i \notin rewritten /\ i < t
      BY <2>1, <2>2, <2>3 DEF CommitsStamped
    <3> QED
      BY <2>8, <3>1 DEF RecallInv, TimeTravel
  <2>11. RetiredRows'
    <3>1. ASSUME NEW l \in links' PROVE rows'[l[2]] # Absent /\ l[2] \notin Valid'
      <4>1. CASE l = <<new, old>>
        BY <2>2, <2>4, <4>1 DEF Kept
      <4>2. CASE l \in links
        <5>1. l[2] \in MemoryId /\ rows[l[2]] # Absent /\ l[2] \notin Valid
          BY <4>2 DEF RecallInv, RecallTypes, RetiredRows
        <5> QED
          BY <5>1, <2>4 DEF Kept
      <4> QED
        BY <2>1, <4>1, <4>2
    <3>2. ASSUME NEW n \in Present', NEW k \in rows'[n].replaces
          PROVE  k # n /\ rows'[k] # Absent /\ (unapplied[n] # "update" => k \notin Valid')
      <4>1. n \in Present /\ k \in rows[n].replaces /\ k \in MemoryId
        BY <3>2, <2>4, <2>5
      <4> QED
        BY <4>1, <2>4 DEF RecallInv, RetiredRows, Kept
    <3> QED
      BY <1>1, <2>4, <3>1, <3>2 DEF RecallInv, RetiredRows
  <2>12. Acyclic'
    <3> SUFFICES ASSUME ~crossed, new \in Valid PROVE Rooted(Edges')
      BY <2>1 DEF Acyclic, Rooted
    <3>1. Rooted(Edges)
      BY DEF RecallInv, Acyclic
    <3>2. ASSUME NEW l \in Edges PROVE l[2] # new
      <4>1. CASE l \in links
        BY <4>1 DEF RecallInv, RetiredRows
      <4>2. CASE l \notin links
        <5>1. l[1] \in MemoryId /\ unapplied[l[1]] = "link" /\ l[2] \in rows[l[1]].replaces
          BY <4>2 DEF Edges
        <5>2. l[1] \in Present
          BY <5>1 DEF RecallInv, RetiredRows
        <5> QED
          BY <5>1, <5>2 DEF RecallInv, RetiredRows
      <4> QED
        BY <4>1, <4>2
    <3>3. Edges' \subseteq Edges \cup ({new} \X {old})
      <4>1. ASSUME NEW l \in MemoryId \X MemoryId, unapplied[l[1]] = "link",
                   l[2] \in rows'[l[1]].replaces
            PROVE  l \in Edges
        <5>1. l[1] \in Present
          BY <4>1 DEF RecallInv, RetiredRows
        <5> QED
          BY <2>4, <4>1, <5>1 DEF Edges
      <4>2. \A l \in Edges' : l \in links' \/ (/\ l \in MemoryId \X MemoryId
                                               /\ unapplied[l[1]] = "link"
                                               /\ l[2] \in rows'[l[1]].replaces)
        BY <1>1 DEF Edges
      <4>3. links' \subseteq Edges \cup ({new} \X {old})
        BY <2>1 DEF Edges
      <4> QED
        BY <4>1, <4>2, <4>3
    <3> QED
      BY <2>2, <3>1, <3>2, <3>3, RootedMore
  <2>13. Paged'
    <3>1. pager' = [pager EXCEPT !.must = pager'.must]
      BY <1>1 DEF RecallInv, RecallTypes
    <3>2. pager'.must \subseteq pager.must \cap Present'
      BY <1>1, <2>4 DEF RecallInv, Paged
    <3> QED
      BY <2>4, <3>1, <3>2, PagedKept DEF RecallInv
  <2> QED
    BY <2>6, <2>9, <2>10, <2>11, <2>12, <2>13 DEF RecallInv
<1> QED
  BY <1>3, <1>4

\* A page has the first of what is behind the cursor; what it leaves out is behind
\* the next cursor, if there is one.
PageOf(rest, found, page) ==
    /\ rest \subseteq Present /\ page \in Seq(rest) /\ Len(page) \in Nat
    /\ Len(found) \in Nat
    /\ \A i, j \in 1 .. Len(page) : page[i] = page[j] => i = j
    /\ Len(found) > PageLimit =>
          /\ Len(page) = PageLimit /\ Last(page) \in rest
          /\ \A i \in 1 .. Len(page) : ~Beyond(page[i], Position(Last(page)))
          /\ \A m \in rest : \/ \E i \in 1 .. Len(page) : page[i] = m
                             \/ Beyond(m, Position(Last(page)))
    /\ ~(Len(found) > PageLimit) =>
          \A m \in rest : \E i \in 1 .. Len(page) : page[i] = m

LEMMA PageFound ==
    ASSUME RecallInv,
           NEW rest, rest = {m \in Evidence : Beyond(m, pager.cursor)},
           NEW found, found = Take(Ordered(rest, Earlier(rest)), PageLimit + 1),
           NEW page, page = Take(found, PageLimit)
    PROVE  PageOf(rest, found, page)
<1>1. PageLimit \in Nat /\ PageLimit > 0
  BY RecallAssumption
<1>2. rest \subseteq Present /\ rest \in SUBSET MemoryId
  BY DEF Evidence, Valid, Present
<1>3. \A m \in rest : rows[m].created \in Nat /\ m \in Nat
  BY <1>2, PresentRows, RecallAssumption DEF RecallInv, MemoryId
<1>4. Leads(found, rest, Earlier(rest), PageLimit + 1)
  <2>1. IsFiniteSet(rest)
    BY <1>2, SmallFinite
  <2>2. StrictOrder(rest, Earlier(rest))
    BY <1>2, <1>3, TimeOrders
  <2>3. PageLimit + 1 \in Nat
    BY <1>1
  <2>4. Leads(Take(Ordered(rest, Earlier(rest)), PageLimit + 1), rest, Earlier(rest),
              PageLimit + 1)
    BY <2>1, <2>2, <2>3, TakeLeads
  <2> QED
    BY <2>4
<1>5. found \in Seq(rest) /\ Len(found) \in Nat /\ Len(found) <= PageLimit + 1
  BY <1>4 DEF Leads
<1> DEFINE l == Min({PageLimit, Len(found)})
<1>6. l \in Nat /\ l <= PageLimit /\ l <= Len(found) /\ (l = PageLimit \/ l = Len(found))
  <2>1. PageLimit \in Int /\ Len(found) \in Int
    BY <1>1, <1>5
  <2>2. l \in {PageLimit, Len(found)} /\ l <= PageLimit /\ l <= Len(found)
    BY <2>1, TwoMin
  <2> QED
    BY <2>2, <1>1, <1>5
<1>7. page = SubSeq(found, 1, l)
  BY DEF Take
<1> HIDE DEF l
<1>8. page \in Seq(rest) /\ Len(page) = l /\ \A i \in 1 .. l : page[i] = found[i]
  BY <1>5, <1>6, <1>7
<1>9. \A i \in 1 .. l : i \in 1 .. Len(found)
  BY <1>5, <1>6
<1>10. \A i, j \in 1 .. Len(page) : page[i] = page[j] => i = j
  BY <1>4, <1>8, <1>9 DEF Leads
<1>11. \A m, n \in rest : <<m, n>> \in Earlier(rest) <=> Before(m, n)
  BY DEF Earlier
<1>12. ASSUME Len(found) > PageLimit
       PROVE  /\ Len(page) = PageLimit /\ Last(page) \in rest
              /\ \A i \in 1 .. Len(page) : ~Beyond(page[i], Position(Last(page)))
              /\ \A m \in rest : \/ \E i \in 1 .. Len(page) : page[i] = m
                                 \/ Beyond(m, Position(Last(page)))
  <2>1. l = PageLimit /\ Len(found) = PageLimit + 1
    BY <1>1, <1>5, <1>6, <1>12
  <2>2. Last(page) = found[PageLimit] /\ found[PageLimit] \in rest
        /\ PageLimit \in 1 .. Len(found)
    BY <1>1, <1>5, <1>8, <2>1 DEF Last
  <2> DEFINE last == Last(page)
  <2>3. Position(last) = <<rows[last].created, last>>
    BY DEF Position
  <2>4. last \in rest /\ rows[last].created \in Nat /\ last \in Nat
    BY <2>2, <1>3
  <2> HIDE DEF last
  <2>5. \A m \in rest : /\ Beyond(m, Position(last)) <=> Before(last, m)
                        /\ ~(Before(m, last) /\ Before(last, m)) /\ ~Before(last, last)
    BY <1>3, <2>3, <2>4 DEF Beyond, Before
  <2>6. ASSUME NEW i \in 1 .. Len(page) PROVE ~Beyond(page[i], Position(last))
    <3>1. page[i] \in rest /\ page[i] = found[i] /\ i \in 1 .. Len(found) /\ i <= PageLimit
      BY <1>8, <1>9, <2>1
    <3>2. CASE i = PageLimit
      BY <2>2, <2>5, <3>1, <3>2 DEF last
    <3>3. CASE i < PageLimit
      <4>1. <<found[i], last>> \in Earlier(rest)
        BY <1>4, <2>2, <3>1, <3>3 DEF Leads, last
      <4>2. Before(page[i], last)
        BY <1>11, <2>4, <3>1, <4>1
      <4> QED
        BY <2>5, <3>1, <4>2
    <3> QED
      BY <1>1, <3>1, <3>2, <3>3
  <2>7. ASSUME NEW m \in rest
        PROVE  \/ \E i \in 1 .. Len(page) : page[i] = m
               \/ Beyond(m, Position(last))
    <3>1. ASSUME <<last, m>> \in Earlier(rest) PROVE Beyond(m, Position(last))
      BY <1>11, <2>4, <2>5, <3>1
    <3>2. CASE \E i \in 1 .. Len(found) : found[i] = m
      <4>1. PICK i \in 1 .. Len(found) : found[i] = m
        BY <3>2
      <4>2. CASE i <= PageLimit
        <5>1. Len(page) \in Nat /\ i \in Nat /\ i >= 1 /\ i <= Len(page)
          BY <1>1, <1>5, <1>8, <2>1, <4>2
        <5>2. i \in 1 .. Len(page)
          BY <5>1
        <5>3. page[i] = m
          BY <1>8, <4>1, <5>2
        <5> QED
          BY <5>2, <5>3
      <4>3. CASE i > PageLimit
        <5>1. <<found[PageLimit], found[i]>> \in Earlier(rest)
          BY <1>4, <2>2, <4>3 DEF Leads
        <5>2. <<last, m>> \in Earlier(rest)
          BY <2>2, <4>1, <5>1 DEF last
        <5>3. Beyond(m, Position(last))
          BY <3>1, <5>2
        <5> QED
          BY <5>3
      <4>4. i <= PageLimit \/ i > PageLimit
        BY <1>1, <1>5
      <4> QED
        BY <4>2, <4>3, <4>4
    <3>3. CASE ~\E i \in 1 .. Len(found) : found[i] = m
      <4>1. \A i \in 1 .. PageLimit + 1 : <<found[i], m>> \in Earlier(rest)
        BY <1>4, <3>3 DEF Leads
      <4>2. PageLimit \in 1 .. PageLimit + 1
        BY <1>1
      <4>3. <<last, m>> \in Earlier(rest)
        BY <2>2, <4>1, <4>2 DEF last
      <4>4. Beyond(m, Position(last))
        BY <3>1, <4>3
      <4> QED
        BY <4>4
    <3> QED
      BY <3>2, <3>3
  <2> QED
    BY <1>8, <2>1, <2>2, <2>6, <2>7 DEF last
<1>13. ASSUME ~(Len(found) > PageLimit), NEW m \in rest
       PROVE  \E i \in 1 .. Len(page) : page[i] = m
  <2>1. l = Len(found) /\ Len(found) # PageLimit + 1
    BY <1>1, <1>5, <1>6, <1>13
  <2>2. \E i \in 1 .. Len(found) : found[i] = m
    BY <1>4, <2>1 DEF Leads
  <2> QED
    BY <1>8, <2>1, <2>2
<1> QED
  BY <1>2, <1>5, <1>6, <1>8, <1>10, <1>12, <1>13 DEF PageOf

\* What two joined lists have at each place.
LEMMA TwoJoined ==
    ASSUME NEW X, NEW a \in Seq(X), NEW b \in Seq(X)
    PROVE  /\ a \o b \in Seq(X) /\ Len(a \o b) = Len(a) + Len(b)
           /\ \A i \in 1 .. Len(a) + Len(b) :
                 (a \o b)[i] = IF i <= Len(a) THEN a[i] ELSE b[i - Len(a)]
OBVIOUS

\* A page joins what was given before.
LEMMA PageSafe ==
    ASSUME RecallInv, Page
    PROVE  RecallInv'
<1> DEFINE rest == {m \in Evidence : Beyond(m, pager.cursor)}
           found == Take(Ordered(rest, Earlier(rest)), PageLimit + 1)
           page == Take(found, PageLimit)
           hasNext == Len(found) > PageLimit
           must == IF pager.phase = "idle" THEN Evidence ELSE pager.must
           cursor == IF hasNext THEN Position(Last(page)) ELSE NoCursor
           phase == IF hasNext THEN "paging" ELSE "done"
           old == pager.got
<1>1. /\ pager.phase # "done"
      /\ pager' = [phase |-> phase, cursor |-> cursor, got |-> old \o page, must |-> must]
      /\ UNCHANGED <<decodes, rows, links, now, unapplied, tx, was, rewritten, crossed>>
  BY DEF Page
<1>2. /\ rest \subseteq Present /\ page \in Seq(rest) /\ Len(page) \in Nat
      /\ \A i, j \in 1 .. Len(page) : page[i] = page[j] => i = j
      /\ hasNext =>
            /\ Last(page) \in rest
            /\ \A i \in 1 .. Len(page) : ~Beyond(page[i], Position(Last(page)))
            /\ \A m \in rest : \/ \E i \in 1 .. Len(page) : page[i] = m
                               \/ Beyond(m, Position(Last(page)))
      /\ ~hasNext => \A m \in rest : \E i \in 1 .. Len(page) : page[i] = m
  <2>1. rest = {m \in Evidence : Beyond(m, pager.cursor)}
    OBVIOUS
  <2>2. found = Take(Ordered(rest, Earlier(rest)), PageLimit + 1)
    OBVIOUS
  <2>3. page = Take(found, PageLimit)
    OBVIOUS
  <2>4. hasNext <=> Len(found) > PageLimit
    OBVIOUS
  <2> HIDE DEF rest, found, page, hasNext
  <2>5. PageOf(rest, found, page)
    BY <2>1, <2>2, <2>3, PageFound
  <2> QED
    BY <2>4, <2>5 DEF PageOf
<1>3. \A m \in rest : m \in Evidence /\ Beyond(m, pager.cursor)
  OBVIOUS
<1>4. \A m \in Evidence : Beyond(m, pager.cursor) => m \in rest
  OBVIOUS
<1> HIDE DEF rest, found, page, hasNext
<1>5. Present' = Present /\ Valid' = Valid /\ Edges' = Edges /\ Evidence' = Evidence
  BY <1>1 DEF Present, Valid, Edges, Evidence
<1>6. Present \subseteq MemoryId /\ Evidence \subseteq Present
      /\ \A m \in Present : rows[m].created \in Nat
  BY PresentRows DEF RecallInv, Evidence
<1>7. old \in Seq(MemoryId) /\ Len(old) \in Nat
  BY DEF RecallInv, RecallTypes
<1>8. page \in Seq(MemoryId)
  BY <1>2, <1>6
<1>9. must \in SUBSET MemoryId /\ must \subseteq Present
  BY <1>6 DEF RecallInv, RecallTypes, Paged
<1>10. cursor \in Int \X Nat
  <2>1. NoCursor \in Int \X Nat
    BY DEF NoCursor
  <2>2. hasNext => Position(Last(page)) \in Int \X Nat
    <3>1. ASSUME NEW m \in Present PROVE Position(m) \in Int \X Nat
      <4>1. m \in Nat
        BY <1>6, RecallAssumption DEF MemoryId
      <4>2. rows[m].created \in Int
        BY <1>6
      <4> QED
        BY <4>1, <4>2 DEF Position
    <3> QED
      BY <1>2, <3>1
  <2> QED
    BY <2>1, <2>2
<1>11. phase \in {"paging", "done"} /\ (phase = "paging" <=> hasNext)
  OBVIOUS
<1>12. pager.phase = "idle" => old = << >> /\ pager.cursor = NoCursor
  BY DEF RecallInv, Paged
<1>13. pager.phase = "idle" \/ pager.phase = "paging"
  BY <1>1 DEF RecallInv, RecallTypes
<1>14. hasNext => cursor = Position(Last(page))
  OBVIOUS
<1>15. must = IF pager.phase = "idle" THEN Evidence ELSE pager.must
  OBVIOUS
<1> HIDE DEF must, cursor, phase
<1> DEFINE got == old \o page
<1>16. /\ got \in Seq(MemoryId) /\ Len(got) = Len(old) + Len(page)
       /\ \A i \in 1 .. Len(old) : got[i] = old[i]
       /\ \A i \in 1 .. Len(page) : got[Len(old) + i] = page[i]
       /\ \A i \in 1 .. Len(got) : i \in 1 .. Len(old)
                                   \/ \E j \in 1 .. Len(page) : i = Len(old) + j
  <2> HIDE DEF old
  <2>1. /\ got \in Seq(MemoryId) /\ Len(got) = Len(old) + Len(page)
        /\ \A i \in 1 .. Len(old) + Len(page) :
              got[i] = IF i <= Len(old) THEN old[i] ELSE page[i - Len(old)]
    BY <1>7, <1>8, TwoJoined DEF old
  <2>2. Len(old) \in Nat /\ Len(page) \in Nat
    BY <1>2, <1>7 DEF old
  <2>3. ASSUME NEW i \in 1 .. Len(old) PROVE got[i] = old[i]
    <3>1. i \in 1 .. Len(old) + Len(page) /\ i <= Len(old)
      BY <2>2
    <3> QED
      BY <2>1, <3>1
  <2>4. ASSUME NEW i \in 1 .. Len(page) PROVE got[Len(old) + i] = page[i]
    <3>1. /\ Len(old) + i \in 1 .. Len(old) + Len(page)
          /\ ~(Len(old) + i <= Len(old)) /\ (Len(old) + i) - Len(old) = i
      BY <2>2
    <3> QED
      BY <2>1, <3>1
  <2>5. ASSUME NEW i \in 1 .. Len(got), i \notin 1 .. Len(old)
        PROVE  \E j \in 1 .. Len(page) : i = Len(old) + j
    <3>1. i - Len(old) \in 1 .. Len(page) /\ i = Len(old) + (i - Len(old))
      BY <2>1, <2>2, <2>5
    <3> QED
      BY <3>1
  <2> QED
    BY <2>1, <2>3, <2>4, <2>5 DEF old
<1>17. /\ pager'.got = got /\ pager'.must = must /\ pager'.cursor = cursor
       /\ pager'.phase = phase
       /\ pager' \in [phase : {"idle", "paging", "done"}, cursor : Int \X Nat,
                      got : Seq(MemoryId), must : SUBSET MemoryId]
  BY <1>1, <1>9, <1>10, <1>11, <1>16
<1> HIDE DEF got, old
<1>18. RecallTypes'
  BY <1>1, <1>17 DEF RecallInv, RecallTypes
<1>19. Stamped' /\ RetiredRows' /\ Acyclic'
  BY <1>1, <1>5 DEF RecallInv, Stamped, RetiredRows, Acyclic
<1>20. TimeTravel'
  BY <1>1, <1>5 DEF RecallInv, TimeTravel, PointInTime
<1>21. \A i \in 1 .. Len(page) : /\ page[i] \in rest /\ page[i] \in Present
                                 /\ page[i] \in Evidence /\ Beyond(page[i], pager.cursor)
  BY <1>2, <1>3
\* What was given before is not behind the cursor, and not behind the next one.
<1>22. ASSUME NEW i \in 1 .. Len(old), old[i] \in Present
       PROVE  /\ ~Beyond(old[i], pager.cursor)
              /\ hasNext => ~Beyond(old[i], cursor)
  <2>1. pager.phase = "paging"
    BY <1>12, <1>13, <1>22
  <2>2. ~Beyond(old[i], pager.cursor)
    BY <1>22, <2>1 DEF RecallInv, Paged, old
  <2>3. ASSUME hasNext PROVE ~Beyond(old[i], cursor)
    <3>1. Beyond(Last(page), pager.cursor) /\ Last(page) \in Present
      BY <1>2, <1>3, <2>3
    <3>2. cursor = <<rows[Last(page)].created, Last(page)>>
      BY <1>14, <2>3 DEF Position
    <3>3. pager.cursor[1] \in Int /\ pager.cursor[2] \in Int
      BY DEF RecallInv, RecallTypes
    <3>4. \A m \in Present : m \in Int /\ rows[m].created \in Int
      BY <1>6, RecallAssumption DEF MemoryId
    <3> QED
      BY <1>22, <2>2, <3>1, <3>2, <3>3, <3>4 DEF Beyond
  <2> QED
    BY <2>2, <2>3
<1>23. \A i, j \in 1 .. Len(got) : got[i] = got[j] => i = j
  <2>1. \A i, j \in 1 .. Len(old) : old[i] = old[j] => i = j
    BY DEF RecallInv, Paged, old
  <2>2. \A i \in 1 .. Len(old), j \in 1 .. Len(page) : old[i] # page[j]
    BY <1>21, <1>22
  <2> SUFFICES ASSUME NEW i \in 1 .. Len(got), NEW j \in 1 .. Len(got), got[i] = got[j]
               PROVE  i = j
    OBVIOUS
  <2>3. CASE i \in 1 .. Len(old)
    <3>1. j \in 1 .. Len(old)
      BY <1>16, <2>2, <2>3
    <3> QED
      BY <1>16, <2>1, <2>3, <3>1
  <2>4. CASE i \notin 1 .. Len(old)
    <3>1. PICK p \in 1 .. Len(page) : i = Len(old) + p
      BY <1>16, <2>4
    <3>2. j \notin 1 .. Len(old)
      BY <1>16, <2>2, <3>1
    <3>3. PICK q \in 1 .. Len(page) : j = Len(old) + q
      BY <1>16, <3>2
    <3>4. page[p] = page[q]
      BY <1>16, <3>1, <3>3
    <3> QED
      BY <1>2, <3>1, <3>3, <3>4
  <2> QED
    BY <2>3, <2>4
<1>24. ASSUME NEW i \in 1 .. Len(got)
       PROVE  /\ rows[got[i]] # Absent
              /\ hasNext /\ got[i] \in Present => ~Beyond(got[i], cursor)
  <2>1. CASE i \in 1 .. Len(old)
    <3>1. got[i] = old[i]
      BY <1>16, <2>1
    <3>2. rows[old[i]] # Absent
      BY <2>1 DEF RecallInv, Paged, old
    <3> QED
      BY <1>22, <2>1, <3>1, <3>2
  <2>2. CASE i \notin 1 .. Len(old)
    <3>1. PICK p \in 1 .. Len(page) : i = Len(old) + p
      BY <1>16, <2>2
    <3>2. got[i] = page[p] /\ page[p] \in Present
      BY <1>16, <1>21, <3>1
    <3> QED
      BY <1>2, <1>14, <3>2 DEF Present
  <2> QED
    BY <2>1, <2>2
<1>25. ASSUME NEW m \in must \cap Evidence
       PROVE  \/ \E i \in 1 .. Len(got) : got[i] = m
              \/ hasNext /\ Beyond(m, cursor)
  <2>1. CASE \E i \in 1 .. Len(old) : old[i] = m
    <3>1. PICK i \in 1 .. Len(old) : old[i] = m
      BY <2>1
    <3>2. Len(old) \in Nat /\ Len(page) \in Nat /\ Len(got) = Len(old) + Len(page)
      BY <1>2, <1>7, <1>16 DEF old
    <3>3. i \in 1 .. Len(got)
      BY <3>2
    <3>4. got[i] = m
      BY <1>16, <3>1
    <3> QED
      BY <3>3, <3>4
  <2>2. CASE ~\E i \in 1 .. Len(old) : old[i] = m
    <3>1. m \in rest
      <4>1. CASE pager.phase = "idle"
        <5>1. rows[m].created \in Nat
          BY <1>6
        <5>2. Beyond(m, pager.cursor)
          BY <1>12, <4>1, <5>1 DEF Beyond, NoCursor
        <5> QED
          BY <1>4, <5>2
      <4>2. CASE pager.phase # "idle"
        <5>1. Beyond(m, pager.cursor)
          BY <1>15, <2>2, <4>2 DEF RecallInv, Paged, old
        <5> QED
          BY <1>4, <5>1
      <4> QED
        BY <4>1, <4>2
    <3>2. CASE \E i \in 1 .. Len(page) : page[i] = m
      <4>1. PICK i \in 1 .. Len(page) : page[i] = m
        BY <3>2
      <4>2. got[Len(old) + i] = m
        BY <1>16, <4>1
      <4>3. Len(old) \in Nat /\ Len(page) \in Nat /\ Len(got) = Len(old) + Len(page)
        BY <1>2, <1>7, <1>16 DEF old
      <4>4. Len(old) + i \in 1 .. Len(got)
        BY <4>3
      <4> QED
        BY <4>2, <4>4
    <3>3. CASE ~\E i \in 1 .. Len(page) : page[i] = m
      BY <1>2, <1>14, <3>1, <3>3
    <3> QED
      BY <3>2, <3>3
  <2> QED
    BY <2>1, <2>2
<1>26. Paged'
  <2>1. \A m \in MemoryId : Beyond(m, cursor) <=> (rows'[m].created > cursor[1]
                     \/ (rows'[m].created = cursor[1] /\ m > cursor[2]))
    BY <1>1 DEF Beyond
  <2>5. pager'.must \subseteq Present' /\ pager'.phase # "idle"
    BY <1>5, <1>9, <1>11, <1>17
  <2>6. \A i, j \in 1 .. Len(pager'.got) : pager'.got[i] = pager'.got[j] => i = j
    BY <1>17, <1>23
  <2>7. \A i \in 1 .. Len(pager'.got) : rows'[pager'.got[i]] # Absent
    BY <1>1, <1>17, <1>24
  <2>3. pager'.phase = "paging" => \A i \in 1 .. Len(pager'.got) :
            pager'.got[i] \in Present' => ~Beyond(pager.got[i], pager.cursor)'
    BY <1>1, <1>5, <1>11, <1>17, <1>24 DEF Beyond
  <2>4. \A m \in pager'.must \cap Evidence' :
          \/ \E i \in 1 .. Len(pager'.got) : pager'.got[i] = m
          \/ pager'.phase = "paging" /\ Beyond(m, pager.cursor)'
    BY <1>1, <1>5, <1>11, <1>17, <1>25 DEF Beyond
  <2> QED
    BY <2>3, <2>4, <2>5, <2>6, <2>7 DEF Paged
<1> QED
  BY <1>18, <1>19, <1>20, <1>26 DEF RecallInv

-----------------------------------------------------------------------------
(* What the searches answer                                                 *)

\* ORDER BY a distance or a score, with a LIMIT.
LEMMA RowsInOrder ==
    ASSUME NEW ms \in SUBSET MemoryId, NEW n \in Nat
    PROVE  /\ Leads(Nearest(ms, n), ms, Ascending(Nearness), n)
           /\ Leads(Best(ms, n), ms, Descending(Score), n)
<1>1. IsFiniteSet(ms)
  BY SmallFinite
<1>2. StrictOrder(ms, Ascending(Nearness)) /\ StrictOrder(ms, Descending(Score))
  BY RankingOrders, RecallAssumption
<1>3. Leads(Take(Ordered(ms, Ascending(Nearness)), n), ms, Ascending(Nearness), n)
  BY <1>1, <1>2, TakeLeads
<1>4. Leads(Take(Ordered(ms, Descending(Score)), n), ms, Descending(Score), n)
  BY <1>1, <1>2, TakeLeads
<1> QED
  BY <1>3, <1>4 DEF Nearest, Best

LEMMA LatestInOrder ==
    ASSUME NEW ms \in SUBSET MemoryId, NEW req \in Requests
    PROVE  Leads(Latest(ms, req), ms, Descending(req.updated), req.limit)
<1>1. req.limit \in Nat /\ req.updated \in Ranking
  BY RecallAssumption DEF SearchRequest
<1>2. IsFiniteSet(ms) /\ StrictOrder(ms, Descending(req.updated))
  BY <1>1, SmallFinite, RankingOrders
<1>3. Leads(Take(Ordered(ms, Descending(req.updated)), req.limit), ms,
            Descending(req.updated), req.limit)
  BY <1>1, <1>2, TakeLeads
<1> QED
  BY <1>3 DEF Latest

\* What a cut list leaves out, as many others come before.
LEMMA LeadsMembers ==
    ASSUME NEW ms, NEW order, NEW n, NEW s, Leads(s, ms, order, n)
    PROVE  /\ ToSet(s) \subseteq ms
           /\ \A m \in ms :
                 \/ m \in ToSet(s)
                 \/ Len(s) = n /\ n <= Cardinality({k \in ms : <<k, m>> \in order})
<1>1. s \in Seq(ms) /\ DOMAIN s = 1 .. Len(s)
  BY DEF Leads
<1>2. ToSet(s) \subseteq ms
  BY <1>1 DEF ToSet
<1>3. ASSUME NEW m \in ms, NEW i \in 1 .. Len(s), s[i] = m PROVE m \in ToSet(s)
  BY <1>1, <1>3 DEF ToSet
<1> QED
  BY <1>2, <1>3 DEF Leads

\* Every step asks for the number wanted at least, or for the 400 at most.
LEMMA ScheduleSteps ==
    ASSUME NEW base \in Nat, NEW i \in 1 .. 3
    PROVE  /\ ExpansionSchedule(base)[i] \in Nat
           /\ Min({base, 400}) <= ExpansionSchedule(base)[i]
<1> DEFINE n == Max({base, 1})
           cap == Min({400, 8 * n})
           least == Min({base, 400})
<1>1. n \in Nat /\ n >= base /\ n >= 1
  <2>1. base \in Int /\ 1 \in Int
    OBVIOUS
  <2>2. n \in {base, 1} /\ n >= base /\ n >= 1
    BY <2>1, TwoMin
  <2> QED
    BY <2>2
<1> HIDE DEF n
<1>2. cap \in Nat /\ (cap = 400 \/ cap = 8 * n)
  <2>1. 400 \in Int /\ 8 * n \in Int /\ 8 * n \in Nat
    BY <1>1
  <2> DEFINE x == 8 * n
  <2>2. x \in Int
    BY <2>1
  <2> HIDE DEF x
  <2>3. Min({400, x}) \in {400, x}
    BY <2>1, <2>2, TwoMin
  <2>4. cap \in {400, 8 * n}
    BY <2>3 DEF x
  <2> QED
    BY <2>1, <2>4
<1> HIDE DEF cap
<1>3. least \in Int /\ least <= base /\ least <= 400
  <2>1. base \in Int /\ 400 \in Int
    OBVIOUS
  <2>2. least \in {base, 400} /\ least <= base /\ least <= 400
    BY <2>1, TwoMin
  <2> QED
    BY <2>1, <2>2
<1> HIDE DEF least
<1>4. ASSUME NEW k \in {1, 2, 4}
      PROVE  Min({k * n, cap}) \in Nat /\ least <= Min({k * n, cap})
  <2>1. k * n \in Nat /\ k * n >= n
    BY <1>1
  <2> DEFINE x == k * n
  <2>2. x \in Nat /\ x >= n
    BY <2>1
  <2> HIDE DEF x
  <2>3. Min({x, cap}) \in {x, cap}
    BY <1>2, <2>2, TwoMin
  <2>4. Min({x, cap}) \in Nat /\ least <= Min({x, cap})
    BY <1>1, <1>2, <1>3, <2>2, <2>3
  <2> QED
    BY <2>4 DEF x
<1>5. ExpansionSchedule(base) = <<Min({n, cap}), Min({2 * n, cap}), Min({4 * n, cap})>>
  BY DEF ExpansionSchedule, n, cap
<1>6. 1 * n = n
  BY <1>1
<1>7. /\ Min({n, cap}) \in Nat /\ least <= Min({n, cap})
      /\ Min({2 * n, cap}) \in Nat /\ least <= Min({2 * n, cap})
      /\ Min({4 * n, cap}) \in Nat /\ least <= Min({4 * n, cap})
  BY <1>4, <1>6
<1>8. i = 1 \/ i = 2 \/ i = 3
  OBVIOUS
<1> QED
  BY <1>5, <1>7, <1>8 DEF least

\* What a vector search leaves out, that many are nearer than.
LEMMA VectorFinds ==
    ASSUME NEW ms \in SUBSET MemoryId, NEW req \in Requests
    PROVE  /\ VectorRows(ms, req) \subseteq ms
           /\ \A m \in ms :
                 \/ m \in VectorRows(ms, req)
                 \/ Cardinality({k \in ms : Nearness[k] < Nearness[m]})
                      >= Min({2 * req.limit, 400})
<1> DEFINE limits == ExpansionSchedule(req.limit * 2)
           found == [i \in 1 .. 3 |-> Nearest(ms, limits[i])]
           enough == {i \in 1 .. 3 : Len(found[i]) >= MinResults(req)}
           j == IF enough = {} THEN 3 ELSE Min(enough)
           least == Min({2 * req.limit, 400})
<1>1. req.limit \in Nat /\ req.limit * 2 \in Nat /\ req.limit * 2 = 2 * req.limit
  BY RecallAssumption DEF SearchRequest
<1>2. \A i \in 1 .. 3 : limits[i] \in Nat /\ least <= limits[i]
  BY <1>1, ScheduleSteps
<1>3. VectorRows(ms, req) = ToSet(found[j])
  BY DEF VectorRows
<1>4. j \in 1 .. 3
  <2>1. enough \subseteq 1 .. 3
    OBVIOUS
  <2>3. j = IF enough = {} THEN 3 ELSE Min(enough)
    OBVIOUS
  <2> HIDE DEF enough, j
  <2>2. ASSUME enough # {} PROVE Min(enough) \in enough
    <3>1. enough \in SUBSET Nat
      BY <2>1
    <3>2. \E i \in enough : \A k \in enough : i <= k
      BY <2>2, <3>1, LeastOf
    <3> QED
      BY <3>2 DEF Min
  <2> QED
    BY <2>1, <2>2, <2>3
<1>5. found[j] = Nearest(ms, limits[j])
  BY <1>4
<1> HIDE DEF limits, j, found
<1> DEFINE n == limits[j]
           s == Nearest(ms, n)
<1>6. n \in Nat /\ least <= n /\ VectorRows(ms, req) = ToSet(s)
  BY <1>2, <1>3, <1>4, <1>5
<1> HIDE DEF n
<1>7. Leads(s, ms, Ascending(Nearness), n)
  BY <1>6, RowsInOrder
<1> HIDE DEF s
<1>8. /\ ToSet(s) \subseteq ms
      /\ \A m \in ms :
            \/ m \in ToSet(s)
            \/ n <= Cardinality({k \in ms : <<k, m>> \in Ascending(Nearness)})
  BY <1>7, LeadsMembers
<1>9. ASSUME NEW m \in ms, m \notin ToSet(s)
      PROVE  least <= Cardinality({k \in ms : Nearness[k] < Nearness[m]})
  <2>1. {k \in ms : <<k, m>> \in Ascending(Nearness)}
            = {k \in ms : Nearness[k] < Nearness[m]}
    BY DEF Ascending
  <2> DEFINE K == {k \in ms : Nearness[k] < Nearness[m]}
  <2>2. K \in SUBSET MemoryId
    OBVIOUS
  <2>3. n <= Cardinality(K)
    BY <1>8, <1>9, <2>1
  <2> HIDE DEF K
  <2>4. Cardinality(K) \in Nat
    BY <2>2, SmallFinite, FS_CardinalityType
  <2>5. least \in Int
    <3>1. 2 * req.limit \in Int /\ 400 \in Int
      BY <1>1
    <3> DEFINE x == 2 * req.limit
    <3>4. x \in Int
      BY <3>1
    <3> HIDE DEF x
    <3>5. 400 \in Int
      OBVIOUS
    <3>2. Min({x, 400}) \in {x, 400}
      BY <3>4, <3>5, TwoMin
    <3>3. least \in {2 * req.limit, 400}
      BY <3>2 DEF x
    <3> QED
      BY <3>1, <3>3
  <2> HIDE DEF least
  <2>6. least <= Cardinality(K)
    BY <1>6, <2>3, <2>4, <2>5
  <2> QED
    BY <2>6 DEF K
<1> QED
  <2>1. ASSUME NEW m \in ms, m \notin ToSet(s)
        PROVE  Cardinality({k \in ms : Nearness[k] < Nearness[m]}) >= least
    BY <1>9, <2>1
  <2> HIDE DEF least
  <2>2. \A m \in ms : m \in ToSet(s)
                \/ Cardinality({k \in ms : Nearness[k] < Nearness[m]}) >= least
    BY <2>1
  <2> QED
    BY <1>6, <1>8, <2>2 DEF least

\* The lexical rows add to those of the vector search.
LEMMA FusedMembers ==
    ASSUME NEW ms \in SUBSET MemoryId, NEW req \in Requests
    PROVE  /\ FusedRows(ms, req) \subseteq ms
           /\ VectorRows({m \in ms : rows[m].embedded}, req) \subseteq FusedRows(ms, req)
<1>1. {m \in ms : rows[m].embedded} \in SUBSET MemoryId
  OBVIOUS
<1>2. VectorRows({m \in ms : rows[m].embedded}, req) \subseteq ms
  BY <1>1, VectorFinds
<1>3. ToSet(Latest(ms, req)) \subseteq ms
  BY LatestInOrder, LeadsMembers
<1> QED
  BY <1>2, <1>3 DEF FusedRows

\* What a slice of a list has at each place.
LEMMA SlicesOf ==
    ASSUME NEW X, NEW s \in Seq(X), NEW i \in Nat, NEW k \in Nat, i + k <= Len(s)
    PROVE  /\ SubSeq(s, i + 1, i + k) \in Seq(X) /\ Len(SubSeq(s, i + 1, i + k)) = k
           /\ \A j \in 1 .. k : SubSeq(s, i + 1, i + k)[j] = s[i + j]
<1> DEFINE n == Len(s)
           h == i + k
           l == i + 1
<1>1. n \in Nat /\ h \in Nat /\ l \in Nat /\ l >= 1 /\ h <= n /\ h + 1 - l = k
  OBVIOUS
<1>2. \A j \in l .. h : s[j] \in X
  BY <1>1
<1> HIDE DEF h, l
<1>3. SubSeq(s, l, h) \in Seq(X)
  BY <1>1, <1>2
<1>4. Len(SubSeq(s, l, h)) = k
  BY <1>1
<1>5. \A j \in 1 .. k : SubSeq(s, l, h)[j] = s[l + j - 1]
  BY <1>1
<1>6. \A j \in 1 .. k : l + j - 1 = i + j
  BY DEF l
<1> QED
  BY <1>3, <1>4, <1>5, <1>6 DEF l, h

\* The reranked list has the same memories.
LEMMA RerankKeeps ==
    ASSUME NEW X, NEW s \in Seq(X)
    PROVE  Len(Rerank(s)) = Len(s) /\ ToSet(Rerank(s)) = ToSet(s)
<1> DEFINE n == Len(s)
           f == Max({1, n \div 5})
           a == SubSeq(s, 1, f)
           b == SubSeq(s, 2 * f + 1, n)
           c == SubSeq(s, f + 1, 2 * f)
           t == a \o b \o c
<1>1. n \in Nat
  OBVIOUS
<1>2. f \in Nat /\ f >= 1
  <2>1. n \div 5 \in Nat
    BY <1>1
  <2> DEFINE d == n \div 5
  <2>2. d \in Nat
    BY <2>1
  <2> HIDE DEF d
  <2>3. Max({1, d}) \in {1, d} /\ Max({1, d}) >= 1
    <3>1. 1 \in Int /\ d \in Int
      BY <2>2
    <3> QED
      BY <3>1, TwoMin
  <2> QED
    BY <2>2, <2>3 DEF d
<1>3. Rerank(s) = IF n <= 2 \/ 2 * f >= n THEN s ELSE t
  BY DEF Rerank
<1> HIDE DEF f
<1>11. CASE n <= 2 \/ 2 * f >= n
  BY <1>3, <1>11
<1> SUFFICES ASSUME 2 * f < n PROVE Len(t) = n /\ ToSet(t) = ToSet(s)
  <2>1. n <= 2 \/ 2 * f >= n \/ 2 * f < n
    BY <1>1, <1>2
  <2> HIDE DEF n, t
  <2>2. ASSUME ~(n <= 2 \/ 2 * f >= n) PROVE Rerank(s) = t /\ 2 * f < n
    BY <1>3, <2>1, <2>2
  <2> QED
    BY <1>11, <2>2 DEF n
<1>4. a \in Seq(X) /\ Len(a) = f /\ \A i \in 1 .. f : a[i] = s[i]
  <2>1. 0 \in Nat /\ 0 + f <= Len(s) /\ 0 + 1 = 1 /\ 0 + f = f
    BY <1>1, <1>2
  <2>2. \A i \in 1 .. f : 0 + i = i
    BY <1>2
  <2> QED
    BY <1>2, <2>1, <2>2, SlicesOf
<1>5. b \in Seq(X) /\ Len(b) = n - 2 * f /\ \A i \in 1 .. n - 2 * f : b[i] = s[2 * f + i]
  <2> DEFINE g == 2 * f
             k == n - g
  <2>1. g \in Nat /\ k \in Nat /\ g + k = n /\ g + k <= Len(s)
    BY <1>1, <1>2
  <2>2. b = SubSeq(s, g + 1, g + k)
    BY <2>1
  <2> HIDE DEF g, k, b
  <2>3. b \in Seq(X) /\ Len(b) = k /\ \A i \in 1 .. k : b[i] = s[g + i]
    <3> HIDE DEF n
    <3>1. SubSeq(s, g + 1, g + k) \in Seq(X) /\ Len(SubSeq(s, g + 1, g + k)) = k
          /\ \A i \in 1 .. k : SubSeq(s, g + 1, g + k)[i] = s[g + i]
      BY <2>1, SlicesOf
    <3> QED
      BY <2>2, <3>1
  <2> QED
    BY <2>3 DEF g, k
<1>6. c \in Seq(X) /\ Len(c) = f /\ \A i \in 1 .. f : c[i] = s[f + i]
  <2>1. f + f <= Len(s) /\ f + f = 2 * f
    BY <1>1, <1>2
  <2>2. c = SubSeq(s, f + 1, f + f)
    BY <2>1
  <2> HIDE DEF c
  <2> QED
    BY <1>2, <2>1, <2>2, SlicesOf
<1> HIDE DEF a, b, c
<1>7. /\ t \in Seq(X) /\ Len(t) = n
      /\ \A i \in 1 .. n : t[i] = IF i <= f THEN a[i]
                                  ELSE IF i <= n - f THEN b[i - f]
                                  ELSE c[i - (n - f)]
  <2> DEFINE u == a \o b
  <2>1. u \in Seq(X) /\ Len(u) = Len(a) + Len(b)
        /\ \A i \in 1 .. Len(a) + Len(b) :
              u[i] = IF i <= Len(a) THEN a[i] ELSE b[i - Len(a)]
    BY <1>4, <1>5, TwoJoined
  <2>2. Len(a) + Len(b) = n - f /\ n - f + f = n /\ n - f \in Nat /\ Len(a) = f
    BY <1>1, <1>2, <1>4, <1>5
  <2>3. t = u \o c
    BY DEF u
  <2> HIDE DEF u, t, n
  <2>4. u \in Seq(X) /\ Len(u) = n - f
        /\ \A i \in 1 .. n - f : u[i] = IF i <= f THEN a[i] ELSE b[i - f]
    BY <2>1, <2>2
  <2>5. t \in Seq(X) /\ Len(t) = n - f + f
        /\ \A i \in 1 .. n - f + f : t[i] = IF i <= n - f THEN u[i] ELSE c[i - (n - f)]
    BY <1>6, <2>3, <2>4, TwoJoined
  <2>6. t \in Seq(X) /\ Len(t) = n
        /\ \A i \in 1 .. n : t[i] = IF i <= n - f THEN u[i] ELSE c[i - (n - f)]
    BY <2>2, <2>5
  <2>7. ASSUME NEW i \in 1 .. n
        PROVE  /\ i <= f => i <= n - f
               /\ i <= n - f => i \in 1 .. n - f
    BY <1>1, <1>2, <2>2 DEF n
  <2> QED
    BY <2>4, <2>6, <2>7
<1> HIDE DEF t
<1>8. ASSUME NEW i \in 1 .. n PROVE \E j \in 1 .. n : t[i] = s[j]
  <2>1. CASE i <= f
    BY <1>4, <1>7, <2>1
  <2>2. CASE i > f /\ i <= n - f
    <3>1. i - f \in 1 .. n - 2 * f /\ 2 * f + (i - f) = i + f /\ i + f \in 1 .. n
      BY <1>1, <1>2, <2>2
    <3>2. t[i] = b[i - f]
      BY <1>1, <1>2, <1>7, <2>2
    <3> QED
      BY <1>5, <3>1, <3>2
  <2>3. CASE i > n - f
    <3>1. i - (n - f) \in 1 .. f /\ f + (i - (n - f)) \in 1 .. n
      BY <1>1, <1>2, <2>3
    <3>2. t[i] = c[i - (n - f)]
      BY <1>1, <1>2, <1>7, <2>3
    <3> QED
      BY <1>6, <3>1, <3>2
  <2> HIDE DEF n
  <2>4. i <= f \/ (i > f /\ i <= n - f) \/ i > n - f
    BY <1>1, <1>2
  <2> QED
    BY <2>1, <2>2, <2>3, <2>4
<1>9. ASSUME NEW j \in 1 .. n PROVE \E i \in 1 .. n : t[i] = s[j]
  <2>1. CASE j <= f
    BY <1>4, <1>7, <2>1
  <2>2. CASE j > f /\ j <= 2 * f
    <3>1. j - f \in 1 .. f /\ f + (j - f) = j /\ (j - f) + (n - f) \in 1 .. n
          /\ ((j - f) + (n - f)) - (n - f) = j - f
          /\ ~((j - f) + (n - f) <= f) /\ ~((j - f) + (n - f) <= n - f)
      BY <1>1, <1>2, <2>2
    <3>2. t[(j - f) + (n - f)] = c[j - f]
      BY <1>7, <3>1
    <3>3. c[j - f] = s[j]
      BY <1>6, <3>1
    <3> QED
      BY <3>1, <3>2, <3>3
  <2>3. CASE j > 2 * f
    <3>1. j - 2 * f \in 1 .. n - 2 * f /\ 2 * f + (j - 2 * f) = j /\ j - f \in 1 .. n
          /\ (j - f) - f = j - 2 * f /\ ~(j - f <= f) /\ j - f <= n - f
      BY <1>1, <1>2, <2>3
    <3>2. t[j - f] = b[j - 2 * f]
      BY <1>7, <3>1
    <3>3. b[j - 2 * f] = s[j]
      BY <1>5, <3>1
    <3> QED
      BY <3>1, <3>2, <3>3
  <2> HIDE DEF n
  <2>4. j <= f \/ (j > f /\ j <= 2 * f) \/ j > 2 * f
    BY <1>1, <1>2
  <2> QED
    BY <2>1, <2>2, <2>3, <2>4
<1>10. ToSet(t) = {t[i] : i \in 1 .. n} /\ ToSet(s) = {s[i] : i \in 1 .. n}
  BY <1>7 DEF ToSet
<1>12. ToSet(t) \subseteq ToSet(s)
  BY <1>8, <1>10
<1>13. ToSet(s) \subseteq ToSet(t)
  BY <1>9, <1>10
<1> QED
  BY <1>7, <1>12, <1>13

\* Every answer has current memories only, the vector search none that another
\* candidate's metadata supersedes.
LEMMA AnswersCurrent ==
    ASSUME RecallInv, NEW req \in Requests
    PROVE  /\ ToSet(SearchMemories(req))
                \subseteq FilterCurrent(FusedRows(Valid, req))
           /\ FusedRows(Valid, req) \subseteq Valid
           /\ ToSet(SearchMemories(req)) \subseteq Valid
           /\ ToSet(SearchText(req)) \subseteq Valid
           /\ ToSet(LearningRecall(req)) \subseteq Valid
           /\ ToSet(LearningText(req)) \subseteq Valid
           /\ ToSet(TemporalSearch(req)) \subseteq Valid
<1>1. Valid \in SUBSET MemoryId /\ Learning \in SUBSET MemoryId /\ Learning \subseteq Valid
  BY DEF Valid, Present, Learning
<1>2. req.limit \in Nat /\ req.limit * 3 \in Nat
  BY RecallAssumption DEF SearchRequest
<1>3. ASSUME NEW ms \in SUBSET MemoryId
      PROVE  ToSet(Best(ms, req.limit)) \subseteq ms /\ ToSet(Latest(ms, req)) \subseteq ms
  <2>1. Leads(Best(ms, req.limit), ms, Descending(Score), req.limit)
    BY <1>2, RowsInOrder
  <2>2. Leads(Latest(ms, req), ms, Descending(req.updated), req.limit)
    BY LatestInOrder
  <2>3. ToSet(Best(ms, req.limit)) \subseteq ms
    BY <2>1, LeadsMembers
  <2>4. ToSet(Latest(ms, req)) \subseteq ms
    BY <2>2, LeadsMembers
  <2> QED
    BY <2>3, <2>4
<1>4. FusedRows(Valid, req) \subseteq Valid /\ FusedRows(Learning, req) \subseteq Learning
  BY <1>1, FusedMembers
<1>5. ToSet(SearchMemories(req)) \subseteq FilterCurrent(FusedRows(Valid, req))
  <2> DEFINE ms == FilterCurrent(FusedRows(Valid, req))
             s == Best(ms, req.limit)
  <2>1. ms \in SUBSET MemoryId
    BY <1>1, <1>4 DEF FilterCurrent
  <2>2. SearchMemories(req) = Rerank(s)
    BY DEF SearchMemories
  <2> HIDE DEF ms
  <2>3. Leads(s, ms, Descending(Score), req.limit)
    BY <1>2, <2>1, RowsInOrder
  <2>4. s \in Seq(ms)
    BY <2>3 DEF Leads
  <2>5. ToSet(Rerank(s)) = ToSet(s)
    BY <2>4, RerankKeeps
  <2>6. ToSet(SearchMemories(req)) \subseteq ms
    BY <1>3, <2>1, <2>2, <2>5
  <2> QED
    BY <2>6 DEF ms
<1>6. ToSet(SearchMemories(req)) \subseteq Valid
  BY <1>4, <1>5 DEF FilterCurrent
<1>7. ToSet(SearchText(req)) \subseteq Valid
  <2>1. ToSet(Latest(Valid, req)) \subseteq Valid
    BY <1>1, <1>3
  <2>2. ToSet(Latest(Valid, req)) \in SUBSET MemoryId
    BY <1>1, <2>1
  <2>3. ToSet(Best(ToSet(Latest(Valid, req)), req.limit)) \subseteq ToSet(Latest(Valid, req))
    BY <1>3, <2>2
  <2> QED
    BY <2>1, <2>3 DEF SearchText
<1>8. ToSet(LearningRecall(req)) \subseteq Valid
  <2>1. FusedRows(Learning, req) \in SUBSET MemoryId
    BY <1>1, <1>4
  <2>2. ToSet(Best(FusedRows(Learning, req), req.limit)) \subseteq FusedRows(Learning, req)
    BY <1>3, <2>1
  <2> QED
    BY <1>1, <1>4, <2>2 DEF LearningRecall
<1>9. ToSet(LearningText(req)) \subseteq Valid
  <2>1. ToSet(Latest(Learning, req)) \subseteq Learning
    BY <1>1, <1>3
  <2>2. ToSet(Latest(Learning, req)) \in SUBSET MemoryId
    BY <1>1, <2>1
  <2>3. ToSet(Best(ToSet(Latest(Learning, req)), req.limit))
            \subseteq ToSet(Latest(Learning, req))
    BY <1>3, <2>2
  <2> QED
    BY <1>1, <2>1, <2>3 DEF LearningText
<1>10. ToSet(TemporalSearch(req)) \subseteq Valid
  <2> DEFINE ms == {m \in Valid : rows[m].embedded}
             near == Nearest(ms, req.limit * 3)
  <2>1. ms \in SUBSET MemoryId /\ ms \subseteq Valid
    BY <1>1
  <2>2. TemporalSearch(req) = Best(ToSet(near), req.limit)
    BY DEF TemporalSearch
  <2> HIDE DEF ms
  <2>3. Leads(near, ms, Ascending(Nearness), req.limit * 3)
    BY <1>2, <2>1, RowsInOrder
  <2>4. ToSet(near) \subseteq ms
    BY <2>3, LeadsMembers
  <2>5. ToSet(near) \in SUBSET MemoryId
    BY <2>1, <2>4
  <2>6. ToSet(Best(ToSet(near), req.limit)) \subseteq ToSet(near)
    BY <1>3, <2>5
  <2> QED
    BY <2>1, <2>2, <2>4, <2>6
<1> QED
  BY <1>4, <1>5, <1>6, <1>7, <1>8, <1>9, <1>10

LEMMA SuccessorsApart ==
    ASSUME RecallInv
    PROVE  NotWithSuccessor
<1> SUFFICES ASSUME NEW n \in Present, NEW m \in rows[n].replaces, NEW req \in Requests
             PROVE  /\ unapplied[n] # "update" =>
                          \A s \in {SearchMemories(req), SearchText(req),
                                    LearningRecall(req), LearningText(req),
                                    TemporalSearch(req)} : ~({m, n} \subseteq ToSet(s))
                    /\ decodes => ~({m, n} \subseteq ToSet(SearchMemories(req)))
  BY DEF NotWithSuccessor
<1>1. unapplied[n] # "update" => m \notin Valid
  BY DEF RecallInv, RetiredRows
<1>2. \A s \in {SearchMemories(req), SearchText(req), LearningRecall(req),
                LearningText(req), TemporalSearch(req)} : ToSet(s) \subseteq Valid
  BY AnswersCurrent
<1>3. ASSUME decodes, m \in ToSet(SearchMemories(req)), n \in ToSet(SearchMemories(req))
      PROVE  FALSE
  <2> DEFINE ms == FusedRows(Valid, req)
  <2>1. ToSet(SearchMemories(req)) \subseteq ms \ CollectInvalidated(ms)
    BY <1>3, AnswersCurrent DEF FilterCurrent
  <2> HIDE DEF ms
  <2>2. n \in ms /\ m \notin CollectInvalidated(ms)
    BY <1>3, <2>1
  <2> QED
    BY <2>2 DEF CollectInvalidated
<1> QED
  BY <1>1, <1>2, <1>3

LEMMA RoomFilled ==
    ASSUME RecallInv
    PROVE  FoundIfRoom
<1> DEFINE embedded == {k \in Valid : rows[k].embedded}
<1> SUFFICES ASSUME NEW req \in Requests, NEW m \in embedded,
                    m \notin ToSet(SearchMemories(req)),
                    ~(decodes /\ m \in CollectInvalidated(Valid)),
                    ~(Cardinality({k \in embedded : Nearness[k] < Nearness[m]})
                        >= Min({2 * req.limit, 400}))
             PROVE  Len(SearchMemories(req)) = req.limit
  BY DEF FoundIfRoom
<1> DEFINE fused == FusedRows(Valid, req)
           ms == FilterCurrent(fused)
           s == Best(ms, req.limit)
<1>1. Valid \in SUBSET MemoryId /\ embedded \in SUBSET MemoryId
  BY DEF Valid, Present
<1>2. VectorRows(embedded, req) \subseteq fused /\ fused \subseteq Valid
  BY <1>1, FusedMembers
<1>3. SearchMemories(req) = Rerank(s)
  BY DEF SearchMemories
<1> HIDE DEF embedded
<1>4. m \in VectorRows(embedded, req)
  BY <1>1, VectorFinds
<1>5. m \in ms /\ ms \in SUBSET MemoryId
  <2>1. CollectInvalidated(fused) \subseteq CollectInvalidated(Valid)
    BY <1>2 DEF CollectInvalidated
  <2> HIDE DEF fused
  <2> QED
    BY <1>1, <1>2, <1>4, <2>1 DEF FilterCurrent
<1>6. req.limit \in Nat
  BY RecallAssumption DEF SearchRequest
<1> HIDE DEF ms
<1>7. Leads(s, ms, Descending(Score), req.limit)
  BY <1>5, <1>6, RowsInOrder
<1>8. s \in Seq(ms)
  BY <1>7 DEF Leads
<1> HIDE DEF s
<1>9. ToSet(Rerank(s)) = ToSet(s) /\ Len(Rerank(s)) = Len(s)
  BY <1>8, RerankKeeps
<1>10. m \notin ToSet(s)
  BY <1>3, <1>9
<1>11. Len(s) = req.limit
  <2>1. ASSUME NEW k \in ms, k \notin ToSet(s) PROVE Len(s) = req.limit
    <3> DEFINE l == req.limit
    <3> HIDE DEF l
    <3>1. Leads(s, ms, Descending(Score), l)
      BY <1>7 DEF l
    <3>2. Len(s) = l
      BY <2>1, <3>1, LeadsMembers
    <3> QED
      BY <3>2 DEF l
  <2> QED
    BY <1>5, <1>10, <2>1
<1> QED
  BY <1>3, <1>9, <1>11

\* A channel lists memories, each once.
LEMMA ChannelsList ==
    ASSUME RecallInv, NEW req \in Requests
    PROVE  ThreeListings(Channels(req))
<1>1. req.limit * 2 \in Nat
  BY RecallAssumption DEF SearchRequest
<1>2. ASSUME NEW ms \in SUBSET MemoryId, NEW order, NEW s,
             Leads(s, ms, order, req.limit * 2)
      PROVE  Listing(s)
  <2>1. s \in Seq(MemoryId) /\ Len(s) \in Nat /\ Len(s) <= Cardinality(ms)
        /\ \A i, j \in 1 .. Len(s) : s[i] = s[j] => i = j
    BY <1>2 DEF Leads
  <2>2. N \in Nat /\ 1 \in Int /\ N \in Int
    BY RecallAssumption
  <2>3. IsFiniteSet(MemoryId) /\ Cardinality(MemoryId) = N
    BY <2>2, FS_Interval DEF MemoryId
  <2>4. Cardinality(ms) <= N /\ Cardinality(ms) \in Nat
    BY <2>3, FS_Subset, FS_CardinalityType
  <2> QED
    BY <2>1, <2>2, <2>4 DEF Listing
<1>3. Listing(VectorChannel(req))
  <2> DEFINE ms == {m \in Valid : rows[m].embedded}
  <2>1. ms \in SUBSET MemoryId
    BY DEF Valid, Present
  <2>2. VectorChannel(req) = Nearest(ms, req.limit * 2)
    BY DEF VectorChannel
  <2> HIDE DEF ms
  <2>3. Leads(Nearest(ms, req.limit * 2), ms, Ascending(Nearness), req.limit * 2)
    BY <1>1, <2>1, RowsInOrder
  <2> QED
    BY <1>2, <2>1, <2>2, <2>3
<1>4. Present \in SUBSET MemoryId
  BY DEF Present
<1>5. Listing(FtsSearch(req))
  <2>1. Leads(Best(Present, req.limit * 2), Present, Descending(Score), req.limit * 2)
    BY <1>1, <1>4, RowsInOrder
  <2> QED
    BY <1>2, <1>4, <2>1 DEF FtsSearch
<1>6. Listing(ConceptSearch(req))
  <2> DEFINE f == [m \in MemoryId |-> m]
  <2>1. f \in Ranking
    BY RecallAssumption DEF Ranking, IsInjective, MemoryId
  <2>2. ConceptSearch(req) = Take(Ordered(Present, Ascending(f)), req.limit * 2)
    BY DEF ConceptSearch
  <2> HIDE DEF f
  <2>3. StrictOrder(Present, Ascending(f)) /\ IsFiniteSet(Present)
    BY <1>4, <2>1, RankingOrders, SmallFinite
  <2>4. Leads(Take(Ordered(Present, Ascending(f)), req.limit * 2), Present,
              Ascending(f), req.limit * 2)
    BY <1>1, <2>3, TakeLeads
  <2> QED
    BY <1>2, <1>4, <2>2, <2>4
<1>7. \A s : Listing(s) => s \in Seq(MemoryId)
  BY DEF Listing
<1> QED
  BY <1>3, <1>5, <1>6, <1>7 DEF Channels, ThreeListings

LEMMA FusionHolds ==
    ASSUME RecallInv
    PROVE  FusionAgrees
<1> SUFFICES ASSUME NEW req \in Requests, NEW m \in Present, NEW n \in Present, m # n,
                    \A i \in DOMAIN Channels(req) : n \in ToSet(Channels(req)[i]) =>
                        /\ m \in ToSet(Channels(req)[i])
                        /\ RankIn(Channels(req)[i], m) < RankIn(Channels(req)[i], n),
                    n \in ToSet(HybridSearch(req))
             PROVE  /\ m \in ToSet(HybridSearch(req))
                    /\ RankIn(HybridSearch(req), m) < RankIn(HybridSearch(req), n)
  BY DEF FusionAgrees
<1>1. ThreeListings(Channels(req))
  BY ChannelsList
<1>2. req.limit \in Nat
  BY RecallAssumption DEF SearchRequest
<1>3. HybridSearch(req) = Take(RrfFuse(Channels(req)), req.limit)
  BY DEF HybridSearch
<1> DEFINE lists == Channels(req)
<1>4. /\ ThreeListings(lists) /\ n \in ToSet(Take(RrfFuse(lists), req.limit))
      /\ \A i \in DOMAIN lists : n \in ToSet(lists[i]) =>
            m \in ToSet(lists[i]) /\ RankIn(lists[i], m) < RankIn(lists[i], n)
  BY <1>1, <1>3
<1>5. HybridSearch(req) = Take(RrfFuse(lists), req.limit)
  BY <1>3
<1> HIDE DEF lists
<1> QED
  BY <1>2, <1>4, <1>5, FusionRespects

LEMMA LinkedApart ==
    ASSUME RecallInv
    PROVE  LinkedRetired
<1> DEFINE order == {p \in Valid \X Valid : Before(p[2], p[1])}
<1>1. /\ N \in Nat /\ Valid \in SUBSET MemoryId
      /\ \A m \in Valid : rows[m].created \in Nat
  BY PresentRows, RecallAssumption DEF RecallInv
<1>2. IsFiniteSet(Valid) /\ StrictOrder(Valid, order)
  BY <1>1, SmallFinite, TimeOrders
<1>3. CurrentEntities(N) = Take(Ordered(Valid, order), N)
  BY DEF CurrentEntities
<1> HIDE DEF order
<1>4. Leads(Take(Ordered(Valid, order), N), Valid, order, N)
  BY <1>1, <1>2, TakeLeads
<1>5. ToSet(CurrentEntities(N)) \subseteq Valid
  BY <1>3, <1>4, LeadsMembers
<1>6. ASSUME NEW m \in Present, SupersededBy(m) # {} PROVE m \notin Valid
  <2>1. PICK n \in Present : <<n, m>> \in links
    BY <1>6 DEF SupersededBy
  <2> QED
    BY <2>1 DEF RecallInv, RetiredRows
<1> QED
  BY <1>5, <1>6 DEF LinkedRetired

LEMMA PagesOnce ==
    ASSUME RecallInv
    PROVE  PagedOnce
<1>1. pager.got \in Seq(MemoryId) /\ DOMAIN pager.got = 1 .. Len(pager.got)
  BY DEF RecallInv, RecallTypes
<1>2. \A i, j \in DOMAIN pager.got : pager.got[i] = pager.got[j] => i = j
  BY <1>1 DEF RecallInv, Paged
<1>3. ASSUME pager.phase = "done", NEW m \in pager.must \cap Evidence
      PROVE  m \in ToSet(pager.got)
  <2>1. PICK i \in 1 .. Len(pager.got) : pager.got[i] = m
    BY <1>3 DEF RecallInv, Paged
  <2> QED
    BY <1>1, <2>1 DEF ToSet
<1> QED
  BY <1>2, <1>3 DEF PagedOnce

\* What every reachable state satisfies is safe.
LEMMA RecallFollows ==
    ASSUME RecallInv
    PROVE  RecallSafe
<1>1. RecallTypeOK
  <2>1. MaxLag \in Nat /\ MaxClock \in Nat /\ now \in MaxLag .. MaxClock
    BY RecallAssumption DEF RecallInv, RecallTypes
  <2>2. now \in 0 .. MaxClock
    BY <2>1
  <2> QED
    BY <2>2 DEF RecallInv, RecallTypes, Stamped, RecallTypeOK
<1>2. NoCycle
  BY DEF RecallInv, Acyclic, Rooted, Edges, NoCycle
<1>3. TimeTravel
  BY DEF RecallInv
<1> QED
  BY <1>1, <1>2, <1>3, PagesOnce, SuccessorsApart, RoomFilled, FusionHolds, LinkedApart
     DEF RecallSafe

\* Every step keeps the invariant.
LEMMA RecallSteps ==
    ASSUME RecallInv, [RecallNext]_recallVars
    PROVE  RecallInv'
<1>1. CASE ClockTicks
  BY <1>1, TicksKeep
<1>2. ASSUME NEW m \in MemoryId, NEW ms \in SUBSET Present, NEW shape \in Shapes[m],
             InsertMemory(m, shape, ms)
      PROVE  RecallInv'
  BY <1>2, InsertSafe
<1>3. ASSUME NEW m \in MemoryId, ApplyUpdate(m) PROVE RecallInv'
  BY <1>3, UpdateSafe
<1>4. ASSUME NEW m \in MemoryId, ApplyLink(m) PROVE RecallInv'
  BY <1>4, LinkKeeps
<1>5. ASSUME NEW m \in MemoryId, DeleteWithLinks(m) PROVE RecallInv'
  BY <1>5, DeleteSafe
<1>6. ASSUME NEW c \in Client, NEW old \in Present, NEW new \in Present,
             SupersedeBegin(c, old, new)
      PROVE  RecallInv'
  BY <1>6, BeginKeeps
<1>7. ASSUME NEW c \in Client, SupersedeUpdate(c) PROVE RecallInv'
  BY <1>7, CheckKeeps
<1>8. ASSUME NEW c \in Client, SupersedeCheck(c) PROVE RecallInv'
  BY <1>8, CheckKeeps
<1>9. ASSUME NEW c \in Client, SupersedeCommit(c) PROVE RecallInv'
  BY <1>9, CommitSafe
<1>10. CASE Page
  BY <1>10, PageSafe
<1>11. CASE UNCHANGED recallVars
  BY <1>11 DEF recallVars, RecallInv, RecallTypes, Stamped, TimeTravel, PointInTime,
               RetiredRows, Acyclic, Edges, Paged, Present, Valid, Evidence, Beyond
<1> QED
  BY <1>1, <1>2, <1>3, <1>4, <1>5, <1>6, <1>7, <1>8, <1>9, <1>10, <1>11 DEF RecallNext

\* Whatever is written, superseded, deleted and read meanwhile, in whatever order:
\* a query for a past time is answered as then, but for times a late commit wrote
\* into; the pages of forensic_recall have each record once and none missing; no
\* memory supersedes itself through others; no answer has a memory beside one that
\* superseded it, or leaves one out while it had room; what every channel of a
\* hybrid search has first comes first; and what is linked as superseded is not
\* current (search_memories, learning_recall, forensic_recall, hybrid_search,
\* point_in_time_query, supersede_entity, _apply_superseding_operations).
THEOREM RecallKept == RecallSpec => []RecallSafe
<1>1. RecallInit => RecallInv
  BY RecallStarts
<1>2. RecallInv /\ [RecallNext]_recallVars => RecallInv'
  BY RecallSteps
<1>3. RecallInv => RecallSafe
  BY RecallFollows
<1> QED
  BY <1>1, <1>2, <1>3, PTL DEF RecallSpec

=============================================================================
