----------------------- MODULE NeighborhoodLock_proofs -----------------------
(***************************************************************************)
(* Proofs about NeighborhoodLock, for any contexts, slugs, neighbors and   *)
(* ttl: a context that believes it holds a slug holds it or is fenced off, *)
(* callers leak no lease, and the SQLite registry implements the protocol  *)
(* LockRegistry.  Then about the other registry of the same file,          *)
(* MarkdownLocks, whose variables are others: its files keep tasks of any  *)
(* processes apart until a lease file expires, and those of one process    *)
(* implement the protocol too.                                             *)
(***************************************************************************)
EXTENDS NeighborhoodLock, MarkdownLocks, TLAPS

-----------------------------------------------------------------------------
(* The inductive invariant                                                  *)

\* Where a task is says what it has recorded: nothing outside the context,
\* not yet everything in the loop of __aenter__, and the loops of release and
\* renewal point at a record.
Shape ==
    \A c \in Context :
        /\ pc[c] \in {"idle", "crashed"} => records[c] = <<>>
        /\ pc[c] = "acquire" => Len(records[c]) < Len(Targets[c])
        /\ pc[c] \in {"exit", "rollback"} => pos[c] <= Len(records[c])
        /\ pc[c] = "body" => rpos[c] <= Len(records[c])
        /\ pc[c] # "body" => rpos[c] = 1
        /\ renewer[c] # "off" => pc[c] = "body"

\* No record carries a token that was never handed out.
TokensIssued ==
    \A c \in Context : \A i \in 1 .. Len(records[c]) :
        records[c][i].fencing_token <= fence[records[c][i].slug]

\* A row carries the token of the last grant of its slug, and expires no
\* later than a grant of now would.
RowsCurrent ==
    \A s \in Slug : locks[s] # NoLock =>
        /\ locks[s].fencing_token = fence[s]
        /\ locks[s].expires_at <= clock + TTL

\* A token is given to one context only, though contexts may share a holder
\* id.
OneOwner ==
    \A c, d \in Context :
        \A i \in 1 .. Len(records[c]), j \in 1 .. Len(records[d]) :
            /\ records[c][i].slug = records[d][j].slug
            /\ records[c][i].fencing_token = records[d][j].fencing_token
            => c = d

\* A row that no failed release has left behind is one a context of its holder
\* has on record and will still come to in its release loop, unless that
\* context died.
Answers(c, s) ==
    /\ HolderId[c] = locks[s].holder_id
    /\ \/ pc[c] = "crashed"
       \/ \E i \in 1 .. Len(records[c]) :
             /\ records[c][i].slug = s
             /\ records[c][i].fencing_token = locks[s].fencing_token
             /\ pc[c] \in {"exit", "rollback"} => pos[c] <= i
Accounted ==
    \A s \in Slug \ leaked : locks[s] # NoLock => \E c \in Context : Answers(c, s)

IInv == /\ TypeOK
        /\ Shape
        /\ TokensIssued
        /\ RowsCurrent
        /\ OneOwner
        /\ HeldOrFenced
        /\ Accounted

-----------------------------------------------------------------------------
(* Type correctness                                                         *)

\* What the loops of renewal and release read is a record.
LEMMA RecordType ==
    ASSUME TypeOK, NEW c \in Context, NEW i \in 1 .. Len(records[c])
    PROVE  /\ records[c][i] \in LockRecord
           /\ records[c][i].slug \in Slug
           /\ records[c][i].fencing_token \in Nat
<1>1. records[c] \in Seq(LockRecord)
  BY DEF TypeOK
<1>2. records[c][i] \in LockRecord
  BY <1>1
<1> QED
  BY <1>2 DEF LockRecord

\* The next slug of an acquisition is one of the targets.
LEMMA NextTarget ==
    ASSUME TypeOK, Shape, NEW c \in Context, pc[c] = "acquire"
    PROVE  /\ Len(records[c]) \in Nat
           /\ Targets[c][Len(records[c]) + 1] \in Slug
<1>1. /\ records[c] \in Seq(LockRecord)
      /\ Len(records[c]) \in Nat
  BY DEF TypeOK
<1>2. Targets[c] \in Seq(Slug)
  BY TargetsAssumption
<1>3. Len(records[c]) < Len(Targets[c])
  BY DEF Shape
<1> QED
  BY <1>1, <1>2, <1>3

\* What try_acquire writes: a new row and a new record, both with the bumped
\* token; nothing else changes.
NewRow(c, s) == [holder_id |-> HolderId[c], fencing_token |-> fence[s] + 1,
                 expires_at |-> clock + TTL]
NewRecord(s) == [slug |-> s, fencing_token |-> fence[s] + 1]

LEMMA Acquired ==
    ASSUME TypeOK, NEW c \in Context, NEW s \in Slug, TryAcquire(c, s)
    PROVE  /\ fence[s] + 1 \in Nat
           /\ NewRow(c, s) \in Row
           /\ NewRecord(s) \in LockRecord
           /\ fence' = [fence EXCEPT ![s] = fence[s] + 1]
           /\ locks' = [locks EXCEPT ![s] = NewRow(c, s)]
           /\ records' = [records EXCEPT ![c] = Append(records[c], NewRecord(s))]
<1>1. fence[s] \in Nat /\ clock \in Nat
  BY DEF TypeOK
<1>2. HolderId[c] \in Holder /\ clock + TTL \in Nat
  BY <1>1, HolderAssumption, TTLAssumption
<1>3. fence[s] + 1 \in Nat /\ NewRow(c, s) \in Row /\ NewRecord(s) \in LockRecord
  BY <1>1, <1>2 DEF NewRow, NewRecord, Row, LockRecord
<1> QED
  BY <1>3 DEF TryAcquire, BumpFence, NewRow, NewRecord, TypeOK

LEMMA TypeInit == Init => TypeOK
BY DEF Init, TypeOK, Control

\* Type correctness is inductive, given the shape of the loops.
LEMMA TypeStep == TypeOK /\ Shape /\ [Next]_vars => TypeOK'
<1> SUFFICES ASSUME TypeOK, Shape, [Next]_vars PROVE TypeOK'
  OBVIOUS
<1> USE DEF Control
<1>1. ASSUME NEW c \in Context, Enter(c) PROVE TypeOK'
  BY <1>1 DEF TypeOK, Enter, regVars
<1>2. ASSUME NEW c \in Context, AcquireNext(c) PROVE TypeOK'
  <2> DEFINE s == Targets[c][Len(records[c]) + 1]
  <2>1. s \in Slug /\ TryAcquire(c, s)
    BY <1>2, NextTarget DEF AcquireNext
  <2>2. /\ locks' \in [Slug -> Row \cup {NoLock}]
        /\ fence' \in [Slug -> Nat]
        /\ records' \in [Context -> Seq(LockRecord)]
    <3> HIDE DEF s
    <3>1. Append(records[c], NewRecord(s)) \in Seq(LockRecord)
      BY <2>1, Acquired DEF TypeOK
    <3>2. /\ NewRow(c, s) \in Row /\ fence[s] + 1 \in Nat
          /\ fence' = [fence EXCEPT ![s] = fence[s] + 1]
          /\ locks' = [locks EXCEPT ![s] = NewRow(c, s)]
          /\ records' = [records EXCEPT ![c] = Append(records[c], NewRecord(s))]
      BY <2>1, Acquired
    <3> QED
      BY <2>1, <3>1, <3>2 DEF TypeOK
  <2> QED
    BY <1>2, <2>2 DEF TypeOK, AcquireNext
<1>3. ASSUME NEW c \in Context, NEW err \in BOOLEAN, AcquireFails(c, err)
      PROVE  TypeOK'
  BY <1>3 DEF TypeOK, AcquireFails, Rollback, regVars
<1>4. ASSUME NEW c \in Context, Leave(c) PROVE TypeOK'
  BY <1>4 DEF TypeOK, Leave, regVars
<1>5. ASSUME NEW c \in Context, ReleaseNext(c) PROVE TypeOK'
  <2>1. locks' \in [Slug -> Row \cup {NoLock}]
    BY <1>5 DEF TypeOK, ReleaseNext, RegistryRelease
  <2>3. leaked' \in SUBSET Slug
    <3>1. pos[c] \in 1 .. Len(records[c])
      BY <1>5 DEF ReleaseNext, Shape, TypeOK
    <3>2. records[c][pos[c]].slug \in Slug
      BY <3>1, RecordType
    <3> QED
      BY <1>5, <3>2 DEF ReleaseNext, TypeOK
  <2>2. /\ records' \in [Context -> Seq(LockRecord)]
        /\ pc' \in [Context -> Control]
        /\ pos' \in [Context -> Nat \ {0}]
    <3>1. CASE pos[c] = Len(records[c])
      <4>1. <<>> \in Seq(LockRecord)
        OBVIOUS
      <4>2. /\ pc' = [pc EXCEPT ![c] = "idle"]
            /\ pos' = [pos EXCEPT ![c] = 1]
            /\ records' = [records EXCEPT ![c] = <<>>]
        BY <1>5, <3>1 DEF ReleaseNext
      <4> QED
        BY <4>1, <4>2 DEF TypeOK
    <3>2. CASE pos[c] # Len(records[c])
      <4>1. /\ pos' = [pos EXCEPT ![c] = pos[c] + 1]
            /\ pc' = pc /\ records' = records
        BY <1>5, <3>2 DEF ReleaseNext
      <4> QED
        BY <4>1 DEF TypeOK
    <3> QED
      BY <3>1, <3>2
  <2> QED
    BY <1>5, <2>1, <2>2, <2>3 DEF TypeOK, ReleaseNext
<1>6. ASSUME NEW c \in Context, ReleaseCut(c) PROVE TypeOK'
  <2>1. pos[c] \in Nat \ {0}
    BY DEF TypeOK
  <2>2. \A j \in pos[c] .. Len(records[c]) : records[c][j].slug \in Slug
    BY <2>1, RecordType DEF TypeOK
  <2>3. leaked' \in SUBSET Slug
    BY <1>6, <2>2 DEF ReleaseCut, OwnRows, TypeOK
  <2> QED
    BY <1>6, <2>3 DEF TypeOK, ReleaseCut, regVars
<1>7. ASSUME NEW c \in Context, RenewWake(c) PROVE TypeOK'
  BY <1>7 DEF TypeOK, RenewWake, regVars
<1>8. ASSUME NEW c \in Context, RenewNext(c) PROVE TypeOK'
  <2> DEFINE rec == records[c][rpos[c]]
  <2>1. rpos[c] \in 1 .. Len(records[c])
    BY <1>8 DEF RenewNext, Shape, TypeOK
  <2>2. rec \in LockRecord /\ rec.slug \in Slug
    BY <2>1, RecordType
  <2>3. locks[rec.slug] \in Row
    BY <1>8, <2>2 DEF RenewNext, RegistryRenew, Matches, TypeOK
  <2>4. clock + TTL \in Nat
    BY TTLAssumption DEF TypeOK
  <2>5. locks' = [locks EXCEPT ![rec.slug].expires_at = clock + TTL]
    BY <1>8 DEF RenewNext, RegistryRenew
  <2>6. locks' \in [Slug -> Row \cup {NoLock}]
    <3> HIDE DEF rec
    <3> QED BY <2>2, <2>3, <2>4, <2>5 DEF TypeOK, Row
  <2> QED
    BY <1>8, <2>6 DEF TypeOK, RenewNext
<1>9. ASSUME NEW c \in Context, RenewLost(c) PROVE TypeOK'
  BY <1>9 DEF TypeOK, RenewLost, regVars
<1>10. CASE Crash
  BY <1>10 DEF TypeOK, Crash, regVars
<1>11. CASE Tick
  BY <1>11 DEF TypeOK, Tick
<1>12. CASE UNCHANGED vars
  BY <1>12 DEF TypeOK, vars
<1> QED
  BY <1>1, <1>2, <1>3, <1>4, <1>5, <1>6, <1>7, <1>8, <1>9, <1>10, <1>11, <1>12
  DEF Next, ContextStep

-----------------------------------------------------------------------------
(* The loops                                                                *)

\* The loops stay inside the records they run over.
LEMMA ShapeStep == TypeOK /\ Shape /\ [Next]_vars => Shape'
<1> SUFFICES ASSUME TypeOK, Shape, [Next]_vars PROVE Shape'
  OBVIOUS
<1>0. \A c \in Context : Len(records[c]) \in Nat /\ pos[c] \in Nat \ {0}
                          /\ rpos[c] \in Nat \ {0}
  BY DEF TypeOK
<1>1. ASSUME NEW c \in Context, Enter(c) PROVE Shape'
  <2>1. Targets[c] \in Seq(Slug) /\ Targets[c] # <<>>
    BY TargetsAssumption
  <2>2. records[c] = <<>> /\ Len(records[c]) < Len(Targets[c])
    BY <1>1, <2>1 DEF Enter, Shape
  <2> QED
    BY <1>1, <2>2 DEF TypeOK, Shape, Enter
<1>2. ASSUME NEW c \in Context, AcquireNext(c) PROVE Shape'
  <2> DEFINE s == Targets[c][Len(records[c]) + 1]
  <2>1. s \in Slug /\ TryAcquire(c, s)
    BY <1>2, NextTarget DEF AcquireNext
  <2>2. records' = [records EXCEPT ![c] = Append(records[c], NewRecord(s))]
    <3> HIDE DEF s
    <3> QED BY <2>1, Acquired
  <2>3. Len(records'[c]) = Len(records[c]) + 1
    <3> HIDE DEF s
    <3> QED BY <2>2 DEF TypeOK
  <2>4. /\ Len(records[c]) < Len(Targets[c]) /\ Len(Targets[c]) \in Nat
        /\ rpos[c] = 1
    BY <1>2, TargetsAssumption DEF AcquireNext, Shape
  <2>5. \A d \in Context \ {c} : records'[d] = records[d]
    <3> HIDE DEF s
    <3> QED BY <2>2 DEF TypeOK
  <2>6. CASE Len(records'[c]) = Len(Targets[c])
    <3>1. /\ pc' = [pc EXCEPT ![c] = "body"]
          /\ renewer' = [renewer EXCEPT ![c] = "sleep"]
          /\ pos' = pos /\ rpos' = rpos
      BY <1>2, <2>6 DEF AcquireNext
    <3> QED
      BY <1>0, <2>3, <2>4, <2>5, <3>1 DEF TypeOK, Shape
  <2>7. CASE Len(records'[c]) # Len(Targets[c])
    <3>1. pc' = pc /\ renewer' = renewer /\ pos' = pos /\ rpos' = rpos
      BY <1>2, <2>7 DEF AcquireNext
    <3>2. pc[c] = "acquire" /\ Len(records'[c]) < Len(Targets[c])
      BY <1>0, <1>2, <2>3, <2>4, <2>7 DEF AcquireNext
    <3> QED
      BY <1>0, <2>5, <3>1, <3>2 DEF TypeOK, Shape
  <2> QED
    BY <2>6, <2>7
<1>3. ASSUME NEW c \in Context, NEW err \in BOOLEAN, AcquireFails(c, err)
      PROVE  Shape'
  <2>1. records[c] \in Seq(LockRecord)
    BY DEF TypeOK
  <2>2. records[c] = <<>> \/ 1 <= Len(records[c])
    BY <2>1
  <2>3. /\ pos' = [pos EXCEPT ![c] = 1] /\ pc[c] = "acquire"
        /\ records' = records /\ renewer' = renewer /\ rpos' = rpos
    BY <1>3 DEF AcquireFails, Rollback
  <2>4. CASE records[c] = <<>>
    <3>1. pc' = [pc EXCEPT ![c] = "idle"]
      BY <1>3, <2>4 DEF AcquireFails, Rollback
    <3> QED
      BY <1>0, <2>3, <2>4, <3>1 DEF TypeOK, Shape
  <2>5. CASE records[c] # <<>>
    <3>1. pc' = [pc EXCEPT ![c] = "rollback"]
      BY <1>3, <2>5 DEF AcquireFails, Rollback
    <3> QED
      BY <1>0, <2>2, <2>3, <2>5, <3>1 DEF TypeOK, Shape
  <2> QED
    BY <2>4, <2>5
<1>4. ASSUME NEW c \in Context, Leave(c) PROVE Shape'
  BY <1>0, <1>4 DEF TypeOK, Shape, Leave
<1>5. ASSUME NEW c \in Context, ReleaseNext(c) PROVE Shape'
  <2>0. pc[c] \in {"exit", "rollback"} /\ renewer' = renewer /\ rpos' = rpos
    BY <1>5 DEF ReleaseNext
  <2>1. CASE pos[c] = Len(records[c])
    <3>1. /\ pc' = [pc EXCEPT ![c] = "idle"]
          /\ pos' = [pos EXCEPT ![c] = 1]
          /\ records' = [records EXCEPT ![c] = <<>>]
      BY <1>5, <2>1 DEF ReleaseNext
    <3> QED
      BY <1>0, <2>0, <3>1 DEF TypeOK, Shape
  <2>2. CASE pos[c] # Len(records[c])
    <3>1. /\ pos' = [pos EXCEPT ![c] = pos[c] + 1]
          /\ pc' = pc /\ records' = records
      BY <1>5, <2>2 DEF ReleaseNext
    <3> QED
      BY <1>0, <2>0, <2>2, <3>1 DEF TypeOK, Shape
  <2> QED
    BY <2>1, <2>2
<1>6. ASSUME NEW c \in Context, ReleaseCut(c) PROVE Shape'
  BY <1>0, <1>6 DEF TypeOK, Shape, ReleaseCut
<1>7. ASSUME NEW c \in Context, RenewWake(c) PROVE Shape'
  BY <1>0, <1>7 DEF TypeOK, Shape, RenewWake
<1>8. ASSUME NEW c \in Context, RenewNext(c) PROVE Shape'
  BY <1>0, <1>8 DEF TypeOK, Shape, RenewNext
<1>9. ASSUME NEW c \in Context, RenewLost(c) PROVE Shape'
  BY <1>0, <1>9 DEF TypeOK, Shape, RenewLost
<1>10. CASE Crash
  BY <1>0, <1>10 DEF TypeOK, Shape, Crash
<1>11. CASE Tick \/ UNCHANGED vars
  BY <1>11 DEF Shape, Tick, vars
<1> QED
  BY <1>1, <1>2, <1>3, <1>4, <1>5, <1>6, <1>7, <1>8, <1>9, <1>10, <1>11
  DEF Next, ContextStep

-----------------------------------------------------------------------------
(* Records and tokens                                                       *)

\* The records of a context after an acquisition: those it had, and one with
\* the new token.
LEMMA RecordsAcquired ==
    ASSUME TypeOK, NEW c \in Context, NEW s \in Slug, TryAcquire(c, s),
           NEW d \in Context, NEW i \in 1 .. Len(records'[d])
    PROVE  \/ i \in 1 .. Len(records[d]) /\ records'[d][i] = records[d][i]
           \/ /\ d = c
              /\ records'[d][i] = NewRecord(s)
<1>1. records' = [records EXCEPT ![c] = Append(records[c], NewRecord(s))]
  BY Acquired
<1>2. records[c] \in Seq(LockRecord) /\ records \in [Context -> Seq(LockRecord)]
  BY DEF TypeOK
<1>3. CASE d # c
  BY <1>1, <1>2, <1>3
<1>4. CASE d = c
  <2>1. records'[d] = Append(records[c], NewRecord(s))
    BY <1>1, <1>2, <1>4
  <2> QED
    BY <1>2, <1>4, <2>1
<1> QED
  BY <1>3, <1>4

\* Every other step keeps the records of a context or forgets them all.
Kept == \A d \in Context : records'[d] = records[d] \/ records'[d] = <<>>

LEMMA OnlyAcquireRecords ==
    ASSUME TypeOK, Shape, [Next]_vars
    PROVE  \/ \E c \in Context, s \in Slug :
                 AcquireNext(c) /\ s = Targets[c][Len(records[c]) + 1]
                 /\ TryAcquire(c, s)
           \/ Kept /\ fence' = fence
<1>1. ASSUME NEW c \in Context, AcquireNext(c)
      PROVE  \E d \in Context, s \in Slug :
                AcquireNext(d) /\ s = Targets[d][Len(records[d]) + 1]
                /\ TryAcquire(d, s)
  <2>1. Targets[c][Len(records[c]) + 1] \in Slug
    BY <1>1, NextTarget DEF AcquireNext
  <2>2. TryAcquire(c, Targets[c][Len(records[c]) + 1])
    BY <1>1 DEF AcquireNext
  <2> QED
    BY <1>1, <2>1, <2>2
<1>2. ASSUME NEW c \in Context, ReleaseNext(c) PROVE Kept /\ fence' = fence
  <2>1. records' = records \/ records' = [records EXCEPT ![c] = <<>>]
    BY <1>2 DEF ReleaseNext
  <2> QED
    BY <1>2, <2>1 DEF ReleaseNext, Kept, TypeOK
<1>3. ASSUME NEW c \in Context, ReleaseCut(c) PROVE Kept /\ fence' = fence
  BY <1>3 DEF ReleaseCut, Kept, TypeOK, regVars
<1>4. CASE Crash
  BY <1>4 DEF Crash, Kept, TypeOK, regVars
<1>5. ASSUME NEW c \in Context,
             \/ Enter(c) \/ Leave(c) \/ RenewWake(c) \/ RenewNext(c) \/ RenewLost(c)
             \/ \E err \in BOOLEAN : AcquireFails(c, err)
      PROVE  Kept /\ fence' = fence
  BY <1>5 DEF Kept, Enter, Leave, RenewWake, RenewNext, RenewLost, AcquireFails,
              Rollback, regVars
<1>6. CASE Tick \/ UNCHANGED vars
  BY <1>6 DEF Kept, Tick, vars
<1> QED
  BY <1>1, <1>2, <1>3, <1>4, <1>5, <1>6 DEF Next, ContextStep

\* Tokens are handed out once: no record is ahead of the fence, and none is
\* shared.
LEMMA TokensStep ==
    TypeOK /\ Shape /\ TokensIssued /\ OneOwner /\ [Next]_vars
    => TokensIssued' /\ OneOwner'
<1> SUFFICES ASSUME TypeOK, Shape, TokensIssued, OneOwner, [Next]_vars
             PROVE  TokensIssued' /\ OneOwner'
  OBVIOUS
<1>1. ASSUME NEW c \in Context, NEW s \in Slug, TryAcquire(c, s)
      PROVE  TokensIssued' /\ OneOwner'
  <2>1. /\ fence' = [fence EXCEPT ![s] = fence[s] + 1]
        /\ fence \in [Slug -> Nat]
    BY <1>1, Acquired DEF TypeOK
  <2>2. NewRecord(s).slug = s /\ NewRecord(s).fencing_token = fence[s] + 1
    BY DEF NewRecord
  <2>3. ASSUME NEW d \in Context, NEW i \in 1 .. Len(records[d])
        PROVE  /\ records[d][i].fencing_token \in Nat /\ records[d][i].slug \in Slug
               /\ records[d][i].fencing_token <= fence[records[d][i].slug]
    BY RecordType DEF TokensIssued
  <2>4. TokensIssued'
    <3> SUFFICES ASSUME NEW d \in Context, NEW i \in 1 .. Len(records'[d])
                 PROVE  records'[d][i].fencing_token <= fence'[records'[d][i].slug]
      BY DEF TokensIssued
    <3>1. CASE i \in 1 .. Len(records[d]) /\ records'[d][i] = records[d][i]
      BY <2>1, <2>3, <3>1
    <3>2. CASE records'[d][i] = NewRecord(s)
      BY <2>1, <2>2, <3>2
    <3> QED
      BY <1>1, <3>1, <3>2, RecordsAcquired
  <2>5. OneOwner'
    <3> SUFFICES ASSUME NEW d \in Context, NEW e \in Context,
                        NEW i \in 1 .. Len(records'[d]),
                        NEW j \in 1 .. Len(records'[e]),
                        records'[d][i].slug = records'[e][j].slug,
                        records'[d][i].fencing_token = records'[e][j].fencing_token
                 PROVE  d = e
      BY DEF OneOwner
    <3>1. CASE /\ i \in 1 .. Len(records[d]) /\ records'[d][i] = records[d][i]
               /\ j \in 1 .. Len(records[e]) /\ records'[e][j] = records[e][j]
      BY <3>1 DEF OneOwner
    <3>2. CASE /\ i \in 1 .. Len(records[d]) /\ records'[d][i] = records[d][i]
               /\ records'[e][j] = NewRecord(s)
      BY <2>1, <2>2, <2>3, <3>2
    <3>3. CASE /\ j \in 1 .. Len(records[e]) /\ records'[e][j] = records[e][j]
               /\ records'[d][i] = NewRecord(s)
      BY <2>1, <2>2, <2>3, <3>3
    <3> QED
      BY <1>1, <3>1, <3>2, <3>3, RecordsAcquired
  <2> QED
    BY <2>4, <2>5
<1>2. CASE Kept /\ fence' = fence
  <2>1. ASSUME NEW d \in Context, NEW i \in 1 .. Len(records'[d])
        PROVE  records'[d] = records[d]
    BY <1>2 DEF Kept
  <2> QED
    BY <1>2, <2>1 DEF TokensIssued, OneOwner
<1> QED
  BY <1>1, <1>2, OnlyAcquireRecords

-----------------------------------------------------------------------------
(* Rows                                                                     *)

\* What a turn of the renewal loop does: the row of one record, which matches
\* it, lasts longer.
LEMMA Renewed ==
    ASSUME TypeOK, Shape, NEW c \in Context, RenewNext(c)
    PROVE  \E s \in Slug :
              /\ locks[s] \in Row
              /\ locks' = [locks EXCEPT ![s] = [locks[s] EXCEPT !.expires_at = clock + TTL]]
              /\ UNCHANGED <<fence, clock, pc, pos, records, leaked>>
<1> DEFINE rec == records[c][rpos[c]]
<1>1. rpos[c] \in 1 .. Len(records[c])
  BY DEF RenewNext, Shape, TypeOK
<1>2. rec.slug \in Slug
  BY <1>1, RecordType
<1>3. locks[rec.slug] \in Row
  BY <1>2 DEF RenewNext, RegistryRenew, Matches, TypeOK
<1>4. locks' = [locks EXCEPT ![rec.slug] = [locks[rec.slug] EXCEPT !.expires_at = clock + TTL]]
  BY DEF RenewNext, RegistryRenew
<1>5. UNCHANGED <<fence, clock, pc, pos, records, leaked>>
  BY DEF RenewNext
<1> HIDE DEF rec
<1> QED
  BY <1>2, <1>3, <1>4, <1>5

\* What a turn of a release loop does: it deletes the row its record matches,
\* or no row; a row that it should have deleted is noted as leaked.
LEMMA Released ==
    ASSUME TypeOK, Shape, NEW c \in Context, ReleaseNext(c)
    PROVE  /\ pos[c] \in 1 .. Len(records[c])
           /\ records[c][pos[c]].slug \in Slug
           /\ \/ locks' = locks
              \/ /\ Matches(c, records[c][pos[c]])
                 /\ locks' = [locks EXCEPT ![records[c][pos[c]].slug] = NoLock]
           /\ Matches(c, records[c][pos[c]]) =>
                 \/ locks' = [locks EXCEPT ![records[c][pos[c]].slug] = NoLock]
                 \/ records[c][pos[c]].slug \in leaked'
           /\ leaked \subseteq leaked'
           /\ UNCHANGED <<fence, clock>>
<1>1. pos[c] \in 1 .. Len(records[c])
  BY DEF ReleaseNext, Shape, TypeOK
<1> QED
  BY <1>1, RecordType DEF ReleaseNext, RegistryRelease

\* Rows keep the token of the last grant, and are never given more than a ttl.
LEMMA RowsStep == TypeOK /\ Shape /\ RowsCurrent /\ [Next]_vars => RowsCurrent'
<1> SUFFICES ASSUME TypeOK, Shape, RowsCurrent, [Next]_vars PROVE RowsCurrent'
  OBVIOUS
<1>0. /\ locks \in [Slug -> Row \cup {NoLock}] /\ fence \in [Slug -> Nat]
      /\ clock \in Nat /\ TTL \in Nat
      /\ \A s \in Slug : locks[s] # NoLock => locks[s].expires_at \in Nat
  BY TTLAssumption DEF TypeOK, Row
<1>1. ASSUME NEW c \in Context, AcquireNext(c) PROVE RowsCurrent'
  <2> DEFINE s == Targets[c][Len(records[c]) + 1]
  <2>1. s \in Slug /\ TryAcquire(c, s) /\ clock' = clock
    BY <1>1, NextTarget DEF AcquireNext
  <2> HIDE DEF s
  <2>2. /\ fence' = [fence EXCEPT ![s] = fence[s] + 1]
        /\ locks' = [locks EXCEPT ![s] = NewRow(c, s)]
    BY <2>1, Acquired
  <2> QED
    BY <1>0, <2>1, <2>2 DEF RowsCurrent, NewRow
<1>2. ASSUME NEW c \in Context, RenewNext(c) PROVE RowsCurrent'
  <2>1. PICK s \in Slug :
          /\ locks[s] \in Row
          /\ locks' = [locks EXCEPT ![s] = [locks[s] EXCEPT !.expires_at = clock + TTL]]
          /\ UNCHANGED <<fence, clock>>
    BY <1>2, Renewed
  <2>2. /\ locks'[s].fencing_token = locks[s].fencing_token
        /\ locks'[s].expires_at = clock + TTL
    BY <1>0, <2>1 DEF Row
  <2> QED
    BY <1>0, <2>1, <2>2, NullAssumption DEF RowsCurrent
<1>3. ASSUME NEW c \in Context, ReleaseNext(c) PROVE RowsCurrent'
  <2>1. /\ \A s \in Slug : locks'[s] = locks[s] \/ locks'[s] = NoLock
        /\ UNCHANGED <<fence, clock>>
    BY <1>0, <1>3, Released
  <2> QED
    BY <2>1 DEF RowsCurrent
<1>4. CASE Tick
  BY <1>0, <1>4 DEF Tick, RowsCurrent
<1>5. CASE UNCHANGED regVars
  BY <1>5 DEF RowsCurrent, regVars
<1>6. ASSUME NEW c \in Context,
             \/ Enter(c) \/ Leave(c) \/ ReleaseCut(c) \/ RenewWake(c) \/ RenewLost(c)
             \/ \E err \in BOOLEAN : AcquireFails(c, err)
      PROVE  UNCHANGED regVars
  BY <1>6 DEF Enter, Leave, ReleaseCut, RenewWake, RenewLost, AcquireFails
<1>7. Crash \/ UNCHANGED vars => UNCHANGED regVars
  BY DEF Crash, vars, regVars
<1> QED
  BY <1>1, <1>2, <1>3, <1>4, <1>5, <1>6, <1>7 DEF Next, ContextStep

-----------------------------------------------------------------------------
(* Held or fenced                                                           *)

\* Only the context that was given a row deletes it, so nobody else's lock is
\* released under it; and a row is given to somebody else only with a higher
\* token.
LEMMA HeldStep ==
    TypeOK /\ Shape /\ TokensIssued /\ OneOwner /\ HeldOrFenced /\ [Next]_vars
    => HeldOrFenced'
<1> SUFFICES ASSUME TypeOK, Shape, TokensIssued, OneOwner, HeldOrFenced,
                    [Next]_vars
             PROVE  HeldOrFenced'
  OBVIOUS
<1>0. /\ locks \in [Slug -> Row \cup {NoLock}] /\ fence \in [Slug -> Nat]
      /\ clock \in Nat
  BY DEF TypeOK
<1>1. ASSUME NEW c \in Context, AcquireNext(c) PROVE HeldOrFenced'
  <2> DEFINE s == Targets[c][Len(records[c]) + 1]
  <2>1. s \in Slug /\ TryAcquire(c, s)
    BY <1>1, NextTarget DEF AcquireNext
  <2>2. \A d \in Context : pc'[d] \in Holding => pc[d] \in Holding
    BY <1>1 DEF AcquireNext, TypeOK, Holding
  <2> HIDE DEF s
  <2>3. /\ fence' = [fence EXCEPT ![s] = fence[s] + 1]
        /\ locks' = [locks EXCEPT ![s] = NewRow(c, s)]
        /\ NewRow(c, s) \in Row
    BY <2>1, Acquired
  <2> SUFFICES ASSUME NEW d \in Context, pc'[d] \in Holding,
                      NEW i \in 1 .. Len(records'[d])
               PROVE  \/ Matches(d, records[d][i])'
                      \/ records'[d][i].fencing_token < fence'[records'[d][i].slug]
    BY DEF HeldOrFenced
  <2>4. CASE i \in 1 .. Len(records[d]) /\ records'[d][i] = records[d][i]
    <3>1. /\ records[d][i].slug \in Slug
          /\ records[d][i].fencing_token \in Nat
          /\ records[d][i].fencing_token <= fence[records[d][i].slug]
      BY <2>4, RecordType DEF TokensIssued
    <3>2. CASE records[d][i].slug = s
      BY <1>0, <2>1, <2>3, <2>4, <3>1, <3>2
    <3>3. CASE records[d][i].slug # s
      <4>1. \/ Matches(d, records[d][i])
            \/ records[d][i].fencing_token < fence[records[d][i].slug]
        BY <2>2, <2>4 DEF HeldOrFenced
      <4> QED
        BY <1>0, <2>3, <2>4, <3>1, <3>3, <4>1 DEF Matches
    <3> QED
      BY <3>2, <3>3
  <2>5. CASE d = c /\ records'[d][i] = NewRecord(s)
    BY <1>0, <2>1, <2>3, <2>5, NullAssumption DEF Matches, NewRow, NewRecord
  <2> QED
    BY <2>1, <2>4, <2>5, RecordsAcquired
<1>2. ASSUME NEW c \in Context, RenewNext(c) PROVE HeldOrFenced'
  <2>1. PICK s \in Slug :
          /\ locks[s] \in Row
          /\ locks' = [locks EXCEPT ![s] = [locks[s] EXCEPT !.expires_at = clock + TTL]]
          /\ UNCHANGED <<fence, pc, records>>
    BY <1>2, Renewed
  <2>2. /\ locks'[s].fencing_token = locks[s].fencing_token
        /\ locks'[s].holder_id = locks[s].holder_id
        /\ locks'[s] # NoLock
    <3>1. clock + TTL \in Nat
      BY <1>0, TTLAssumption
    <3> QED
      BY <1>0, <2>1, <3>1, NullAssumption DEF Row
  <2>3. ASSUME NEW d \in Context, NEW i \in 1 .. Len(records[d]),
               Matches(d, records[d][i])
        PROVE  Matches(d, records[d][i])'
    <3>1. records[d][i].slug \in Slug
      BY RecordType
    <3> QED
      BY <1>0, <2>1, <2>2, <2>3, <3>1 DEF Matches
  <2> QED
    BY <2>1, <2>3 DEF HeldOrFenced
<1>3. ASSUME NEW c \in Context, ReleaseNext(c) PROVE HeldOrFenced'
  <2>1. /\ pc[c] \in {"exit", "rollback"}
        /\ pc' = pc \/ pc' = [pc EXCEPT ![c] = "idle"]
        /\ records' = records \/ records' = [records EXCEPT ![c] = <<>>]
        /\ fence' = fence
    BY <1>3 DEF ReleaseNext
  <2> SUFFICES ASSUME NEW d \in Context, pc'[d] \in Holding,
                      NEW i \in 1 .. Len(records'[d])
               PROVE  \/ Matches(d, records[d][i])'
                      \/ records'[d][i].fencing_token < fence'[records'[d][i].slug]
    BY DEF HeldOrFenced
  <2>2. d # c /\ pc[d] \in Holding /\ records'[d] = records[d]
    BY <2>1 DEF TypeOK, Holding
  <2>3. /\ pos[c] \in 1 .. Len(records[c])
        /\ records[c][pos[c]].slug \in Slug
        /\ \/ locks' = locks
           \/ /\ Matches(c, records[c][pos[c]])
              /\ locks' = [locks EXCEPT ![records[c][pos[c]].slug] = NoLock]
    BY <1>3, Released
  <2>4. CASE Matches(d, records[d][i])
    <3>1. \/ records[d][i].slug # records[c][pos[c]].slug
          \/ ~Matches(c, records[c][pos[c]])
      BY <2>2, <2>3, <2>4 DEF OneOwner, Matches
    <3>2. records[d][i].slug \in Slug
      BY <2>2, RecordType
    <3>3. locks'[records[d][i].slug] = locks[records[d][i].slug]
      BY <1>0, <2>3, <3>1, <3>2
    <3> QED
      BY <2>2, <2>4, <3>3 DEF Matches
  <2> QED
    BY <2>1, <2>2, <2>4 DEF HeldOrFenced
<1>4. ASSUME UNCHANGED <<locks, fence>>, Kept,
             \A d \in Context : pc'[d] \in Holding => pc[d] \in Holding \/ records[d] = <<>>
      PROVE  HeldOrFenced'
  <2> SUFFICES ASSUME NEW d \in Context, pc'[d] \in Holding,
                      NEW i \in 1 .. Len(records'[d])
               PROVE  \/ Matches(d, records[d][i])'
                      \/ records'[d][i].fencing_token < fence'[records'[d][i].slug]
    BY DEF HeldOrFenced
  <2>1. records'[d] = records[d] /\ records[d] # <<>>
    BY <1>4 DEF Kept
  <2> QED
    BY <1>4, <2>1 DEF HeldOrFenced, Matches
<1>5. ASSUME NEW c \in Context, Enter(c) PROVE HeldOrFenced'
  BY <1>4, <1>5 DEF Enter, regVars, Kept, TypeOK, Shape
<1>6. ASSUME NEW c \in Context, Leave(c) \/ ReleaseCut(c) \/ RenewWake(c) \/ RenewLost(c)
      PROVE  HeldOrFenced'
  BY <1>4, <1>6 DEF Leave, ReleaseCut, RenewWake, RenewLost, regVars, Kept, TypeOK,
                    Holding
<1>7. ASSUME NEW c \in Context, NEW err \in BOOLEAN, AcquireFails(c, err)
      PROVE  HeldOrFenced'
  BY <1>4, <1>7 DEF AcquireFails, Rollback, regVars, Kept, TypeOK, Holding
<1>8. CASE Crash
  BY <1>4, <1>8 DEF Crash, regVars, Kept, TypeOK, Holding
<1>9. CASE Tick \/ UNCHANGED vars
  BY <1>4, <1>9 DEF Tick, vars, Kept
<1> QED
  BY <1>1, <1>2, <1>3, <1>5, <1>6, <1>7, <1>8, <1>9 DEF Next, ContextStep

-----------------------------------------------------------------------------
(* No leak                                                                  *)

\* Whoever answers for a row goes on doing so until the row is deleted or
\* noted as leaked.
LEMMA AccountedStep ==
    TypeOK /\ Shape /\ Accounted /\ [Next]_vars => Accounted'
<1> SUFFICES ASSUME TypeOK, Shape, Accounted, [Next]_vars PROVE Accounted'
  OBVIOUS
<1>0. /\ locks \in [Slug -> Row \cup {NoLock}]
      /\ \A d \in Context : Len(records[d]) \in Nat /\ pos[d] \in Nat \ {0}
  BY DEF TypeOK
\* It is enough to look at a row that is there before and after the step.
<1>a. ASSUME NEW s \in Slug \ leaked, locks[s] # NoLock,
             locks'[s].holder_id = locks[s].holder_id,
             locks'[s].fencing_token = locks[s].fencing_token,
             \A d \in Context : Answers(d, s) => Answers(d, s)'
      PROVE  \E d \in Context : Answers(d, s)'
  BY <1>a DEF Accounted
\* Steps that leave rows, records and leaks alone: only the release loop of a
\* context that enters it matters.
<1>b. ASSUME UNCHANGED <<locks, records, leaked>>,
             \A d \in Context : pc[d] = "crashed" => pc'[d] = "crashed",
             \A d \in Context : pc'[d] \in {"exit", "rollback"} =>
                \/ pos'[d] = 1
                \/ pc[d] = pc'[d] /\ pos[d] = pos'[d]
      PROVE  Accounted'
  <2> SUFFICES ASSUME NEW s \in Slug \ leaked, locks[s] # NoLock,
                      NEW d \in Context, Answers(d, s)
               PROVE  Answers(d, s)'
    BY <1>a, <1>b DEF Accounted
  <2>1. CASE pc[d] = "crashed"
    BY <1>b, <2>1 DEF Answers
  <2>2. CASE pc[d] # "crashed"
    <3>1. PICK i \in 1 .. Len(records[d]) :
             /\ records[d][i].slug = s
             /\ records[d][i].fencing_token = locks[s].fencing_token
             /\ pc[d] \in {"exit", "rollback"} => pos[d] <= i
      BY <2>2 DEF Answers
    <3>2. pc'[d] \in {"exit", "rollback"} => pos'[d] <= i
      BY <1>0, <1>b, <3>1
    <3> QED
      BY <1>b, <3>1, <3>2 DEF Answers
  <2> QED
    BY <2>1, <2>2
<1>1. ASSUME NEW c \in Context, AcquireNext(c) PROVE Accounted'
  <2>1. PICK s \in Slug : TryAcquire(c, s) /\ leaked' = leaked \ {s}
    BY <1>1, NextTarget DEF AcquireNext
  <2>2. /\ pc[c] = "acquire" /\ pc'[c] \in {"acquire", "body"}
        /\ \A d \in Context \ {c} : pc'[d] = pc[d]
        /\ pos' = pos
    BY <1>1 DEF AcquireNext, TypeOK
  <2>3. /\ locks' = [locks EXCEPT ![s] = NewRow(c, s)]
        /\ records' = [records EXCEPT ![c] = Append(records[c], NewRecord(s))]
        /\ NewRecord(s) \in LockRecord
    BY <2>1, Acquired
  <2>4. /\ Len(records'[c]) = Len(records[c]) + 1
        /\ records'[c][Len(records[c]) + 1] = NewRecord(s)
        /\ \A i \in 1 .. Len(records[c]) : records'[c][i] = records[c][i]
        /\ \A d \in Context \ {c} : records'[d] = records[d]
    BY <2>3 DEF TypeOK
  <2>5. Answers(c, s)'
    <3>1. locks'[s] = NewRow(c, s)
      BY <1>0, <2>1, <2>3
    <3>2. Len(records[c]) + 1 \in 1 .. Len(records'[c])
      BY <1>0, <2>4
    <3> QED
      BY <2>2, <2>4, <3>1, <3>2 DEF Answers, NewRow, NewRecord
  <2>6. ASSUME NEW t \in (Slug \ {s}) \ leaked, locks'[t] # NoLock
        PROVE  \E d \in Context : Answers(d, t)'
    <3>1. locks'[t] = locks[t]
      BY <1>0, <2>3
    <3>2. ASSUME NEW d \in Context, Answers(d, t) PROVE Answers(d, t)'
      <4>1. CASE d # c
        BY <2>2, <2>4, <3>1, <3>2, <4>1 DEF Answers
      <4>2. CASE d = c
        <5>1. PICK i \in 1 .. Len(records[c]) :
                 /\ records[c][i].slug = t
                 /\ records[c][i].fencing_token = locks[t].fencing_token
          BY <2>2, <3>2, <4>2 DEF Answers
        <5>2. i \in 1 .. Len(records'[c]) /\ records'[c][i] = records[c][i]
          BY <1>0, <2>4
        <5> QED
          BY <2>2, <3>1, <3>2, <4>2, <5>1, <5>2 DEF Answers
      <4> QED
        BY <4>1, <4>2
    <3> QED
      BY <1>a, <2>6, <3>1, <3>2
  <2> QED
    BY <2>1, <2>5, <2>6 DEF Accounted
<1>2. ASSUME NEW c \in Context, RenewNext(c) PROVE Accounted'
  <2>1. PICK s \in Slug :
          /\ locks[s] \in Row
          /\ locks' = [locks EXCEPT ![s] = [locks[s] EXCEPT !.expires_at = clock + TTL]]
          /\ UNCHANGED <<pc, pos, records, leaked>>
    BY <1>2, Renewed
  <2>2. \A t \in Slug : /\ locks'[t] # NoLock => locks[t] # NoLock
                        /\ locks'[t].holder_id = locks[t].holder_id
                        /\ locks'[t].fencing_token = locks[t].fencing_token
    BY <1>0, <2>1, NullAssumption DEF Row
  <2>3. ASSUME NEW t \in Slug, NEW d \in Context, Answers(d, t)
        PROVE  Answers(d, t)'
    BY <2>1, <2>2, <2>3 DEF Answers
  <2> QED
    BY <1>a, <2>1, <2>2, <2>3 DEF Accounted
<1>3. ASSUME NEW c \in Context, ReleaseNext(c) PROVE Accounted'
  <2> DEFINE rec == records[c][pos[c]]
  <2>1. /\ rec.slug \in Slug
        /\ locks' = locks \/ locks' = [locks EXCEPT ![rec.slug] = NoLock]
        /\ Matches(c, rec) => \/ locks' = [locks EXCEPT ![rec.slug] = NoLock]
                             \/ rec.slug \in leaked'
        /\ leaked \subseteq leaked'
    BY <1>3, Released
  <2>2. ASSUME NEW s \in Slug \ leaked', locks'[s] # NoLock
        PROVE  locks[s] = locks'[s] /\ (s = rec.slug => ~Matches(c, rec)) /\ s \notin leaked
    <3> HIDE DEF rec
    <3> QED BY <1>0, <2>1, <2>2
  <2>3. ASSUME NEW s \in Slug \ leaked', locks'[s] # NoLock, NEW d \in Context, Answers(d, s)
        PROVE  Answers(d, s)'
    <3>1. locks'[s] = locks[s]
      BY <2>2, <2>3
    <3>2. CASE d # c
      <4>1. pc'[d] = pc[d] /\ pos'[d] = pos[d] /\ records'[d] = records[d]
        BY <1>3, <3>2 DEF ReleaseNext, TypeOK
      <4> QED
        BY <2>1, <2>3, <3>1, <4>1 DEF Answers
    <3>4. CASE d = c
      <4>1. pc[c] \in {"exit", "rollback"}
        BY <1>3 DEF ReleaseNext
      <4>2. PICK i \in 1 .. Len(records[c]) :
               /\ records[c][i].slug = s
               /\ records[c][i].fencing_token = locks[s].fencing_token
               /\ pos[c] <= i
        BY <2>3, <3>4, <4>1 DEF Answers
      <4>3. HolderId[c] = locks[s].holder_id
        BY <2>3, <3>4 DEF Answers
      <4>4. i # pos[c]
        BY <2>2, <2>3, <3>1, <4>2, <4>3 DEF Matches
      <4>5. pos[c] # Len(records[c]) /\ pos[c] + 1 <= i
        BY <1>0, <4>2, <4>4
      <4>6. pos' = [pos EXCEPT ![c] = pos[c] + 1] /\ pc' = pc /\ records' = records
        BY <1>3, <4>5 DEF ReleaseNext
      <4>7. pos'[c] = pos[c] + 1
        BY <4>6 DEF TypeOK
      <4> QED
        BY <3>1, <3>4, <4>2, <4>3, <4>5, <4>6, <4>7 DEF Answers
    <3> QED
      BY <3>2, <3>4
  <2> QED
    BY <1>a, <2>2, <2>3 DEF Accounted
<1>4. ASSUME NEW c \in Context, ReleaseCut(c) PROVE Accounted'
  <2>1. ASSUME NEW s \in Slug \ leaked', locks[s] # NoLock, NEW d \in Context, Answers(d, s)
        PROVE  Answers(d, s)'
    <3>1. CASE d = c
      <4>1. pc[c] \in {"exit", "rollback"} /\ s \notin OwnRows(c, pos[c])
        BY <1>4, <2>1 DEF ReleaseCut
      <4>2. PICK i \in 1 .. Len(records[c]) :
               /\ records[c][i].slug = s
               /\ records[c][i].fencing_token = locks[s].fencing_token
               /\ pos[c] <= i
        BY <2>1, <3>1, <4>1 DEF Answers
      <4>3. i \in pos[c] .. Len(records[c]) /\ Matches(c, records[c][i])
        BY <1>0, <2>1, <3>1, <4>2 DEF Answers, Matches
      <4> QED
        BY <4>1, <4>2, <4>3 DEF OwnRows
    <3>2. CASE d # c
      BY <1>4, <2>1, <3>2 DEF ReleaseCut, regVars, Answers, TypeOK
    <3> QED
      BY <3>1, <3>2
  <2>2. locks' = locks /\ leaked \subseteq leaked'
    BY <1>4 DEF ReleaseCut, regVars
  <2> QED
    BY <1>a, <2>1, <2>2 DEF Accounted
<1>5. CASE Crash
  <2>1. ASSUME NEW s \in Slug, NEW d \in Context, Answers(d, s) PROVE Answers(d, s)'
    <3>1. pc[d] # "idle"
      BY <1>0, <2>1 DEF Answers, Shape
    <3> QED
      BY <1>5, <2>1, <3>1 DEF Crash, regVars, Answers
  <2> QED
    BY <1>5, <1>a, <2>1 DEF Crash, regVars, Accounted
<1>6. ASSUME NEW c \in Context, Enter(c) PROVE Accounted'
  BY <1>b, <1>6 DEF Enter, regVars, TypeOK
<1>7. ASSUME NEW c \in Context, NEW err \in BOOLEAN, AcquireFails(c, err)
      PROVE  Accounted'
  BY <1>b, <1>7 DEF AcquireFails, Rollback, regVars, TypeOK
<1>8. ASSUME NEW c \in Context, Leave(c) PROVE Accounted'
  BY <1>b, <1>8 DEF Leave, regVars, TypeOK
<1>9. ASSUME NEW c \in Context, RenewWake(c) \/ RenewLost(c) PROVE Accounted'
  BY <1>b, <1>9 DEF RenewWake, RenewLost, regVars
<1>10. CASE Tick \/ UNCHANGED vars
  BY <1>b, <1>10 DEF Tick, vars
<1> QED
  BY <1>1, <1>2, <1>3, <1>4, <1>5, <1>6, <1>7, <1>8, <1>9, <1>10
  DEF Next, ContextStep

-----------------------------------------------------------------------------
(* The theorems                                                             *)

LEMMA IInvInit == Init => IInv
<1> SUFFICES ASSUME Init PROVE IInv
  OBVIOUS
<1>1. TypeOK
  BY TypeInit
<1>2. Shape /\ TokensIssued /\ OneOwner /\ HeldOrFenced
  BY DEF Init, Shape, TokensIssued, OneOwner, HeldOrFenced, Holding
<1>3. RowsCurrent /\ Accounted
  BY DEF Init, RowsCurrent, Accounted
<1> QED
  BY <1>1, <1>2, <1>3 DEF IInv

LEMMA IInvStep == IInv /\ [Next]_vars => IInv'
BY TypeStep, ShapeStep, TokensStep, RowsStep, HeldStep, AccountedStep DEF IInv

LEMMA InductiveInvariant == Spec => []IInv
BY IInvInit, IInvStep, PTL DEF Spec

\* A row whose holder has no context in progress, and that no release has left
\* behind, would have nobody to answer for it.
LEMMA AccountedNoLeak == IInv => NoLeak
<1> SUFFICES ASSUME IInv, NEW h \in Holder,
                    \A c \in Context : HolderId[c] = h => pc[c] = "idle",
                    NEW s \in Slug \ leaked, locks[s] # NoLock, locks[s].holder_id = h
             PROVE  FALSE
  BY DEF NoLeak
<1>1. PICK c \in Context : Answers(c, s)
  BY DEF IInv, Accounted
<1>2. pc[c] = "idle"
  BY <1>1 DEF Answers
<1> QED
  BY <1>1, <1>2 DEF Answers, IInv, Shape

\* The two tables, the lock records and the contexts keep their shape, and no
\* expiry or token leaves the natural numbers.
THEOREM TypeCorrect == Spec => []TypeOK
BY InductiveInvariant, PTL DEF IInv

\* For any number of contexts over any overlapping neighborhoods, in any
\* interleaving with cancellations and crashes: a context inside its lock
\* holds every slug it recorded, or a higher fencing token than its own has
\* been handed out (try_acquire: "any resumed writer is detectably stale").
THEOREM StaleWritersFenced == Spec => []HeldOrFenced
BY InductiveInvariant, PTL DEF IInv

\* Unless its process died, a holder none of whose contexts is in progress holds
\* no row but those whose own release raised or was kept from running by a
\* cancellation: one failing release, and an acquisition that fails half-way,
\* leak nothing else (NeighborhoodLock: "callers never leak partial leases").
THEOREM LeasesReturned == Spec => []NoLeak
BY InductiveInvariant, AccountedNoLeak, PTL

-----------------------------------------------------------------------------
(* The registry implements its protocol                                     *)

\* Every step of the contexts is a grant, an extension, a release or the
\* passing of time for the registry, or does not touch it.
LEMMA RegistryStep ==
    IInv /\ [Next]_vars => [Registry!Next]_(Registry!regVars)
<1> SUFFICES ASSUME IInv, [Next]_vars
             PROVE  Registry!Next \/ UNCHANGED regVars
  BY DEF Registry!regVars, regVars
<1> USE DEF IInv
<1>0. /\ locks \in [Slug -> Row \cup {NoLock}] /\ fence \in [Slug -> Nat]
      /\ clock \in Nat
  BY DEF TypeOK
<1>1. ASSUME NEW c \in Context, AcquireNext(c) PROVE Registry!Next
  <2> DEFINE s == Targets[c][Len(records[c]) + 1]
  <2>1. s \in Slug /\ TryAcquire(c, s) /\ clock' = clock
    BY <1>1, NextTarget DEF AcquireNext
  <2> HIDE DEF s
  <2>2. /\ fence' = [fence EXCEPT ![s] = fence[s] + 1]
        /\ locks' = [locks EXCEPT ![s] = NewRow(c, s)]
        /\ NewRow(c, s) \in Row
    BY <2>1, Acquired
  <2>3. Registry!Free(s)
    BY <1>0, <2>1 DEF Registry!Free, TryAcquire, Live, Row
  <2>4. /\ locks'[s] # NoLock
        /\ fence'[s] > fence[s]
        /\ locks'[s].fencing_token = fence'[s]
    BY <1>0, <2>1, <2>2, NullAssumption DEF NewRow
  <2>5. Registry!OnlySlug(s, locks', locks) /\ Registry!OnlySlug(s, fence', fence)
    BY <1>0, <2>2 DEF Registry!OnlySlug
  <2> QED
    BY <2>1, <2>3, <2>4, <2>5 DEF Registry!Next, Registry!Grant
<1>2. ASSUME NEW c \in Context, RenewNext(c) PROVE Registry!Next
  <2>1. PICK s \in Slug :
          /\ locks[s] \in Row
          /\ locks' = [locks EXCEPT ![s] = [locks[s] EXCEPT !.expires_at = clock + TTL]]
          /\ UNCHANGED <<fence, clock>>
    BY <1>2, Renewed
  <2>2. locks[s] # NoLock /\ locks[s].expires_at <= clock + TTL
    BY <2>1, NullAssumption DEF RowsCurrent
  <2>3. clock + TTL \in Nat
    BY <1>0, TTLAssumption
  <2>4. /\ locks'[s] # NoLock
        /\ locks'[s].holder_id = locks[s].holder_id
        /\ locks'[s].fencing_token = locks[s].fencing_token
        /\ locks'[s].expires_at >= locks[s].expires_at
    BY <1>0, <2>1, <2>2, <2>3, NullAssumption DEF Row
  <2>5. Registry!OnlySlug(s, locks', locks)
    BY <1>0, <2>1 DEF Registry!OnlySlug
  <2> QED
    BY <2>1, <2>2, <2>4, <2>5 DEF Registry!Next, Registry!Extend
<1>3. ASSUME NEW c \in Context, ReleaseNext(c)
      PROVE  Registry!Next \/ UNCHANGED regVars
  <2> DEFINE s == records[c][pos[c]].slug
  <2>1. /\ s \in Slug
        /\ \/ locks' = [locks EXCEPT ![s] = NoLock]
           \/ locks' = locks
        /\ UNCHANGED <<fence, clock>>
    BY <1>3, Released
  <2> HIDE DEF s
  <2>2. CASE locks' = locks
    BY <2>1, <2>2 DEF regVars
  <2>3. CASE locks' = [locks EXCEPT ![s] = NoLock]
    <3>1. locks'[s] = NoLock /\ Registry!OnlySlug(s, locks', locks)
      BY <1>0, <2>1, <2>3 DEF Registry!OnlySlug
    <3> QED
      BY <2>1, <3>1 DEF Registry!Next, Registry!Drop
  <2> QED
    BY <2>1, <2>2, <2>3
<1>4. CASE Tick
  BY <1>0, <1>4 DEF Tick, Registry!Next, Registry!Pass
<1>5. ASSUME NEW c \in Context,
             \/ Enter(c) \/ Leave(c) \/ ReleaseCut(c) \/ RenewWake(c) \/ RenewLost(c)
             \/ \E err \in BOOLEAN : AcquireFails(c, err)
      PROVE  UNCHANGED regVars
  BY <1>5 DEF Enter, Leave, ReleaseCut, RenewWake, RenewLost, AcquireFails
<1>6. Crash \/ UNCHANGED vars => UNCHANGED regVars
  BY DEF Crash, vars, regVars
<1> QED
  BY <1>1, <1>2, <1>3, <1>4, <1>5, <1>6 DEF Next, ContextStep

\* SqliteLockRegistry, used by contexts in any interleaving, keeps what the
\* protocol LockRegistry promises: a live lease is neither granted to somebody
\* else nor shortened, and every grant has a higher fencing token.
THEOREM RegistryKeepsContract == Spec => RegistrySpec
<1>1. Init => Registry!Init
  BY DEF Init, Registry!Init
<1> QED
  BY <1>1, InductiveInvariant, RegistryStep, PTL DEF Spec, RegistrySpec, Registry!Spec

-----------------------------------------------------------------------------
(* The Markdown registry: exclusive until a lease file expires              *)

Contents ==
    {Torn, Absent}
      \cup [kind : {"lease"}, holder_id : Task, fencing_token : Nat, expires_at : Nat]
      \cup [kind : {"fence"}, token : Nat]

Stage == {"idle", "read", "unlink", "fence.read", "fence.open", "fence.write",
          "fence.replace", "create", "write", "renew.read", "renew.open", "renew.write",
          "renew.replace", "release.fence", "release.unlink"}

FilesTyped ==
    /\ file \in [Name -> Contents]
    /\ fd \in [Task -> Name \cup {"none", "gone"}]
    /\ task_pc \in [Task -> Stage]
    /\ now \in [Task -> Nat] /\ new_token \in [Task -> Nat]
    /\ record \in [Task -> [fencing_token : Nat, expires_at : Nat]]
    /\ task_clock \in Nat

\* The history sees a lease file that has outlived its expires_at.
ExpiryNoted ==
    file["lease"].kind = "lease" /\ file["lease"].expires_at <= task_clock => expired

\* A task has read the clock in the past, unlinks only an expired lease, and
\* renews or releases only a lease it was given.
Steps(p) ==
    /\ now[p] <= task_clock
    /\ task_pc[p] = "unlink" => expired
    /\ task_pc[p] \in {"renew.read", "renew.open", "renew.write", "renew.replace",
                  "release.fence", "release.unlink"} => record[p] # NoRecord

\* A task has the lease, or has created its file and is about to write it.
Claims(p) == record[p] # NoRecord \/ task_pc[p] = "write"

OneClaim ==
    ~expired => /\ \A p, q \in Task : Claims(p) /\ Claims(q) => p = q
                /\ (\E p \in Task : Claims(p)) => file["lease"] # Absent

FilesInv ==
    FilesTyped /\ ExpiryNoted /\ (\A p \in Task : Steps(p)) /\ OneClaim

\* What every step does to the files and the clock.
FilesMove ==
    /\ file' \in [Name -> Contents]
    /\ fd' \in [Task -> Name \cup {"none", "gone"}]
    /\ task_clock' \in Nat /\ task_clock <= task_clock'
    /\ ExpiryNoted'
    /\ expired => expired'

LEMMA ContentKinds ==
    /\ Torn.kind = "torn" /\ Absent.kind = "absent" /\ Torn # Absent
    /\ "lease" \in Name /\ "lease.tmp" \in Name /\ "fence" \in Name
    /\ "fence.tmp" \in Name
    /\ Torn \in Contents /\ Absent \in Contents
  BY DEF Torn, Absent, Name, Contents

LEMMA SetFiles ==
    ASSUME FilesTyped, NEW f \in [Name -> Contents], NEW t \in Nat, task_clock <= t, Set(f, t),
           fd' \in [Task -> Name \cup {"none", "gone"}]
    PROVE  FilesMove /\ file' = f /\ task_clock' = t
<1>1. /\ file' = f /\ task_clock' = t
      /\ expired' = (expired \/ (f["lease"].kind = "lease" /\ f["lease"].expires_at <= t))
  BY DEF Set
<1>2. ExpiryNoted'
  BY <1>1 DEF ExpiryNoted
<1> QED
  BY <1>1, <1>2 DEF FilesMove

LEMMA SameFiles ==
    ASSUME FilesTyped, ExpiryNoted, NoFileChange
    PROVE  FilesMove /\ UNCHANGED <<file, fd, task_clock, expired>>
<1>1. UNCHANGED <<file, fd, task_clock, expired>>
  BY DEF NoFileChange
<1>2. ExpiryNoted'
  BY <1>1 DEF ExpiryNoted
<1> QED
  BY <1>1, <1>2 DEF FilesMove, FilesTyped

LEMMA OpenFile ==
    ASSUME FilesTyped, NEW p \in Task, NEW n \in Name, OpenTruncate(p, n)
    PROVE  FilesMove /\ file' = [file EXCEPT ![n] = Torn] /\ task_clock' = task_clock
<1> DEFINE f == [file EXCEPT ![n] = Torn]
<1>1. f \in [Name -> Contents] /\ task_clock \in Nat /\ task_clock <= task_clock
  BY ContentKinds DEF FilesTyped
<1>2. fd' \in [Task -> Name \cup {"none", "gone"}]
  BY DEF FilesTyped, OpenTruncate
<1>3. Set(f, task_clock)
  BY DEF OpenTruncate
<1> HIDE DEF f
<1>4. FilesMove /\ file' = f /\ task_clock' = task_clock
  BY <1>1, <1>2, <1>3, SetFiles
<1> QED
  BY <1>4 DEF f

LEMMA WriteFile ==
    ASSUME FilesTyped, NEW p \in Task, NEW content \in Contents, content # Absent,
           WriteClose(p, content)
    PROVE  /\ FilesMove /\ task_clock' = task_clock
           /\ file' = IF fd[p] \in Name THEN [file EXCEPT ![fd[p]] = content] ELSE file
           /\ file["lease"] # Absent => file'["lease"] # Absent
<1> DEFINE f == IF fd[p] \in Name THEN [file EXCEPT ![fd[p]] = content] ELSE file
<1>1. f \in [Name -> Contents] /\ task_clock \in Nat /\ task_clock <= task_clock
  BY DEF FilesTyped
<1>2. fd' \in [Task -> Name \cup {"none", "gone"}]
  BY DEF FilesTyped, WriteClose
<1>3. Set(f, task_clock)
  BY DEF WriteClose
<1>4. file["lease"] # Absent => f["lease"] # Absent
  BY ContentKinds DEF FilesTyped
<1> HIDE DEF f
<1>5. FilesMove /\ file' = f /\ task_clock' = task_clock
  BY <1>1, <1>2, <1>3, SetFiles
<1> QED
  BY <1>4, <1>5 DEF f

LEMMA MovedType ==
    ASSUME FilesTyped, NEW m \in Name, NEW n \in Name \cup {"gone"}
    PROVE  Moved(m, n) \in [Task -> Name \cup {"none", "gone"}]
  BY DEF FilesTyped, Moved

LEMMA ReplaceFile ==
    ASSUME FilesTyped, NEW tmp \in Name, NEW n \in Name, Replace(tmp, n)
    PROVE  /\ FilesMove /\ task_clock' = task_clock
           /\ file' = [file EXCEPT ![n] = file[tmp], ![tmp] = Absent]
<1> DEFINE f == [file EXCEPT ![n] = file[tmp], ![tmp] = Absent]
<1>1. f \in [Name -> Contents] /\ task_clock \in Nat /\ task_clock <= task_clock
  BY ContentKinds DEF FilesTyped
<1>2. fd' \in [Task -> Name \cup {"none", "gone"}]
  BY MovedType DEF Replace
<1>3. Set(f, task_clock)
  BY DEF Replace
<1> HIDE DEF f
<1>4. FilesMove /\ file' = f /\ task_clock' = task_clock
  BY <1>1, <1>2, <1>3, SetFiles
<1> QED
  BY <1>4 DEF f

LEMMA UnlinkFile ==
    ASSUME FilesTyped, NEW n \in Name, Unlink(n)
    PROVE  FilesMove /\ file' = [file EXCEPT ![n] = Absent] /\ task_clock' = task_clock
<1> DEFINE f == [file EXCEPT ![n] = Absent]
<1>1. f \in [Name -> Contents] /\ task_clock \in Nat /\ task_clock <= task_clock
  BY ContentKinds DEF FilesTyped
<1>2. fd' \in [Task -> Name \cup {"none", "gone"}]
  BY MovedType DEF Unlink
<1>3. Set(f, task_clock)
  BY DEF Unlink
<1> HIDE DEF f
<1>4. FilesMove /\ file' = f /\ task_clock' = task_clock
  BY <1>1, <1>2, <1>3, SetFiles
<1> QED
  BY <1>4 DEF f

\* _read_fence, and the contents that the calls write.
LEMMA WrittenContents ==
    ASSUME FilesTyped, FileTTL \in Nat, NEW p \in Task
    PROVE  /\ ReadFence \in Nat
           /\ Count(new_token[p]) \in Contents /\ Count(new_token[p]) # Absent
           /\ \A token \in Nat :
                /\ Payload(p, token, now[p] + FileTTL) \in Contents
                /\ Payload(p, token, now[p] + FileTTL) # Absent
<1>1. new_token[p] \in Nat /\ now[p] + FileTTL \in Nat /\ file["fence"] \in Contents
  BY ContentKinds DEF FilesTyped
<1>2. ReadFence \in Nat
  BY <1>1 DEF ReadFence, Contents, Torn, Absent
<1>3. Count(new_token[p]) \in Contents /\ Count(new_token[p]) # Absent
  BY <1>1 DEF Count, Contents, Absent
<1>4. ASSUME NEW token \in Nat
      PROVE  /\ Payload(p, token, now[p] + FileTTL) \in Contents
             /\ Payload(p, token, now[p] + FileTTL) # Absent
  BY <1>1 DEF Payload, Contents, Absent
<1> QED
  BY <1>2, <1>3, <1>4

\* A step of task p that claims nothing new and leaves the lease file there
\* keeps the invariant.
LEMMA TaskStep ==
    ASSUME FilesInv, FilesMove, NEW p \in Task,
           task_pc' \in [Task -> Stage], now' \in [Task -> Nat], new_token' \in [Task -> Nat],
           record' \in [Task -> [fencing_token : Nat, expires_at : Nat]],
           \A q \in Task \ {p} : /\ task_pc'[q] = task_pc[q] /\ now'[q] = now[q]
                                 /\ record'[q] = record[q],
           Steps(p)',
           \/ expired
           \/ /\ Claims(p)' => Claims(p)
              /\ file["lease"] # Absent => file'["lease"] # Absent
           \/ ~Claims(p)' /\ Claims(p)
           \/ file["lease"] = Absent /\ file'["lease"] # Absent
    PROVE  FilesInv'
<1>1. FilesTyped'
  BY DEF FilesMove, FilesTyped
<1>2. ASSUME NEW q \in Task PROVE Steps(q)'
  <2>1. CASE q = p
    BY <2>1
  <2>2. CASE q # p
    <3>1. Steps(q) /\ now[q] \in Nat /\ task_clock \in Nat
      BY DEF FilesInv, FilesTyped
    <3>2. now'[q] = now[q] /\ task_pc'[q] = task_pc[q] /\ record'[q] = record[q]
      BY <2>2
    <3>3. task_clock' \in Nat /\ task_clock <= task_clock' /\ (expired => expired')
      BY DEF FilesMove
    <3>4. now'[q] <= task_clock'
      BY <3>1, <3>2, <3>3 DEF Steps
    <3> QED
      BY <3>1, <3>2, <3>3, <3>4 DEF Steps
  <2> QED
    BY <2>1, <2>2
<1>3. \A q \in Task \ {p} : Claims(q)' <=> Claims(q)
  BY DEF Claims
<1>4. OneClaim'
  <2> SUFFICES ASSUME ~expired'
               PROVE  /\ \A q, r \in Task : Claims(q)' /\ Claims(r)' => q = r
                      /\ (\E q \in Task : Claims(q)') => file'["lease"] # Absent
    BY DEF OneClaim
  <2>1. /\ \A q, r \in Task : Claims(q) /\ Claims(r) => q = r
        /\ (\E q \in Task : Claims(q)) => file["lease"] # Absent
    BY DEF FilesMove, FilesInv, OneClaim
  <2>2. ~expired
    BY DEF FilesMove
  <2> QED
    BY <1>3, <2>1, <2>2
<1> QED
  BY <1>1, <1>2, <1>4 DEF FilesInv, FilesMove

\* A call goes on to its next step.
LEMMA GoesOn ==
    ASSUME FilesInv, FilesMove, NEW p \in Task, NEW where \in Stage, Goto(p, where),
           UNCHANGED <<now, record>>, new_token' \in [Task -> Nat],
           where = "unlink" => expired,
           where \in {"renew.read", "renew.open", "renew.write", "renew.replace",
                      "release.fence", "release.unlink"} => record[p] # NoRecord,
           \/ expired
           \/ where # "write" /\ (file["lease"] # Absent => file'["lease"] # Absent)
           \/ file["lease"] = Absent /\ file'["lease"] # Absent
    PROVE  FilesInv'
<1>1. FilesTyped /\ Steps(p)
  BY DEF FilesInv
<1>2. /\ task_pc' \in [Task -> Stage] /\ task_pc'[p] = where
      /\ \A q \in Task \ {p} : task_pc'[q] = task_pc[q]
  BY <1>1 DEF FilesTyped, Goto
<1>3. now' \in [Task -> Nat] /\ record' \in [Task -> [fencing_token : Nat, expires_at : Nat]]
  BY <1>1 DEF FilesTyped
<1>4. now'[p] <= task_clock'
  <2>1. now[p] \in Nat /\ task_clock \in Nat /\ task_clock' \in Nat /\ task_clock <= task_clock' /\ now[p] <= task_clock
    BY <1>1 DEF FilesTyped, FilesMove, Steps
  <2> QED
    BY <2>1
<1>5. Steps(p)'
  BY <1>2, <1>4 DEF Steps, FilesMove
<1>6. where # "write" => (Claims(p)' => Claims(p))
  BY <1>2 DEF Claims
<1> QED
  BY <1>2, <1>3, <1>5, <1>6, TaskStep

\* A call ends.
LEMMA Returns ==
    ASSUME FilesInv, FilesMove, NEW p \in Task, Done(p),
           record' \in [Task -> [fencing_token : Nat, expires_at : Nat]],
           \A q \in Task \ {p} : record'[q] = record[q],
           record'[p] # NoRecord => Claims(p),
           file["lease"] # Absent => file'["lease"] # Absent
    PROVE  FilesInv'
<1>1. FilesTyped /\ task_clock' \in Nat
  BY DEF FilesInv, FilesMove
<1>2. /\ task_pc' \in [Task -> Stage] /\ task_pc'[p] = "idle"
      /\ now' \in [Task -> Nat] /\ now'[p] = 0 /\ new_token' \in [Task -> Nat]
      /\ \A q \in Task \ {p} : task_pc'[q] = task_pc[q] /\ now'[q] = now[q]
  BY <1>1 DEF FilesTyped, Done, Goto, Stage
<1>3. Steps(p)'
  BY <1>1, <1>2 DEF Steps
<1>4. Claims(p)' => Claims(p)
  BY <1>2 DEF Claims
<1> QED
  BY <1>2, <1>3, <1>4, TaskStep

LEMMA NoRecordType ==
    NoRecord \in [fencing_token : Nat, expires_at : Nat]
  BY DEF NoRecord

\* A release ends; what it leaves of the lease file was its own.
LEMMA GivesUp ==
    ASSUME FilesInv, FilesMove, NEW p \in Task, GiveUp(p), UNCHANGED <<now, new_token>>,
           record[p] # NoRecord
    PROVE  FilesInv'
<1>1. FilesTyped /\ Steps(p)
  BY DEF FilesInv
<1>2. /\ task_pc' \in [Task -> Stage] /\ task_pc'[p] = "idle"
      /\ record' \in [Task -> [fencing_token : Nat, expires_at : Nat]]
      /\ record'[p] = NoRecord
      /\ \A q \in Task \ {p} : task_pc'[q] = task_pc[q] /\ record'[q] = record[q]
  BY <1>1, NoRecordType DEF FilesTyped, GiveUp, Goto, Stage
<1>3. now'[p] <= task_clock'
  <2>1. now[p] \in Nat /\ task_clock \in Nat /\ task_clock' \in Nat /\ task_clock <= task_clock' /\ now[p] <= task_clock
    BY <1>1 DEF FilesTyped, FilesMove, Steps
  <2> QED
    BY <2>1
<1>4. Steps(p)'
  BY <1>2, <1>3 DEF Steps
<1>5. ~Claims(p)' /\ Claims(p)
  BY <1>2 DEF Claims
<1>6. now' \in [Task -> Nat] /\ new_token' \in [Task -> Nat]
  BY <1>1 DEF FilesTyped
<1> QED
  BY <1>2, <1>4, <1>5, <1>6, TaskStep

LEMMA AcquiringStep ==
    ASSUME FileTTL \in Nat, FilesInv, NEW p \in Task, Acquiring(p) PROVE FilesInv'
<1> USE DEF Name, Stage
<1>1. FilesTyped /\ ExpiryNoted /\ Steps(p) /\ new_token \in [Task -> Nat]
      /\ record \in [Task -> [fencing_token : Nat, expires_at : Nat]]
  BY DEF FilesInv, FilesTyped
<1>2. CASE TryAcquireFile(p)
  <2>1. FilesMove /\ UNCHANGED <<file, task_clock>>
    BY <1>1, <1>2, SameFiles DEF TryAcquireFile
  <2>2. /\ task_pc' = [task_pc EXCEPT ![p] = "read"] /\ now' = [now EXCEPT ![p] = task_clock]
        /\ UNCHANGED <<new_token, record>>
    BY <1>2 DEF TryAcquireFile, Goto
  <2>3. /\ task_pc' \in [Task -> Stage] /\ now' \in [Task -> Nat] /\ task_pc'[p] = "read"
        /\ now'[p] = task_clock /\ task_clock \in Nat
        /\ \A q \in Task \ {p} : task_pc'[q] = task_pc[q] /\ now'[q] = now[q]
    BY <1>1, <2>2 DEF FilesTyped
  <2>4. Steps(p)' /\ (Claims(p)' => Claims(p))
    BY <2>1, <2>2, <2>3 DEF Steps, Claims
  <2> QED
    BY <1>1, <2>1, <2>2, <2>3, <2>4, TaskStep
<1>3. CASE ReadLease(p)
  <2>1. FilesMove /\ UNCHANGED <<file, task_clock, record>>
    BY <1>1, <1>3, SameFiles DEF ReadLease
  <2>2. CASE Goto(p, "fence.read") /\ UNCHANGED <<now, new_token>>
    BY <1>1, <2>1, <2>2, GoesOn
  <2>3. CASE Done(p)
    BY <1>1, <2>1, <2>3, Returns DEF Claims
  <2>4. CASE /\ file["lease"].kind = "lease" /\ file["lease"].expires_at <= now[p]
             /\ Goto(p, "unlink") /\ UNCHANGED <<now, new_token>>
    <3>1. file["lease"].expires_at \in Nat /\ now[p] \in Nat /\ task_clock \in Nat
      <4>1. file["lease"] \in Contents /\ now[p] \in Nat /\ task_clock \in Nat
        BY <1>1, ContentKinds DEF FilesTyped
      <4> QED
        BY <2>4, <4>1 DEF Contents, Torn, Absent
    <3>2. file["lease"].expires_at <= task_clock
      BY <1>1, <2>4, <3>1 DEF Steps
    <3>3. expired
      BY <1>1, <2>4, <3>2 DEF ExpiryNoted
    <3> QED
      BY <1>1, <2>1, <2>4, <3>3, GoesOn
  <2> QED
    BY <1>3, <2>2, <2>3, <2>4 DEF ReadLease
<1>4. CASE UnlinkExpired(p)
  <2>1. FilesMove /\ expired
    BY <1>1, <1>4, UnlinkFile DEF UnlinkExpired, Steps
  <2> QED
    BY <1>1, <1>4, <2>1, GoesOn DEF UnlinkExpired
<1>5. CASE BumpRead(p)
  <2>1. FilesMove /\ UNCHANGED <<file, task_clock>>
    BY <1>1, <1>5, SameFiles DEF BumpRead
  <2>2. new_token' \in [Task -> Nat]
    BY <1>1, <1>5, WrittenContents DEF BumpRead
  <2> QED
    BY <1>1, <1>5, <2>1, <2>2, GoesOn DEF BumpRead
<1>6. CASE BumpOpen(p)
  <2>1. FilesMove /\ file' = [file EXCEPT !["fence.tmp"] = Torn]
    BY <1>1, <1>6, OpenFile DEF BumpOpen
  <2>2. file["lease"] # Absent => file'["lease"] # Absent
    BY <1>1, <2>1 DEF FilesTyped
  <2> QED
    BY <1>1, <1>6, <2>1, <2>2, GoesOn DEF BumpOpen
<1>7. CASE BumpWrite(p)
  <2>1. FilesMove /\ (file["lease"] # Absent => file'["lease"] # Absent)
    BY <1>1, <1>7, WriteFile, WrittenContents DEF BumpWrite
  <2> QED
    BY <1>1, <1>7, <2>1, GoesOn DEF BumpWrite
<1>8. CASE BumpReplace(p)
  <2>1. CASE Replace("fence.tmp", "fence") /\ Goto(p, "create") /\ UNCHANGED <<now, new_token>>
    <3>1. FilesMove /\ file' = [file EXCEPT !["fence"] = file["fence.tmp"],
                                            !["fence.tmp"] = Absent]
      BY <1>1, <2>1, ReplaceFile
    <3>2. file["lease"] # Absent => file'["lease"] # Absent
      BY <1>1, <3>1 DEF FilesTyped
    <3> QED
      BY <1>1, <1>8, <2>1, <3>1, <3>2, GoesOn DEF BumpReplace
  <2>2. CASE NoFileChange /\ Done(p)
    <3>1. FilesMove /\ UNCHANGED file /\ UNCHANGED record
      BY <1>1, <1>8, <2>2, SameFiles DEF BumpReplace
    <3> QED
      BY <1>1, <2>2, <3>1, Returns DEF Claims
  <2> QED
    BY <1>8, <2>1, <2>2 DEF BumpReplace
<1>9. CASE Create(p)
  <2>1. CASE /\ file["lease"] = Absent /\ OpenTruncate(p, "lease")
             /\ Goto(p, "write") /\ UNCHANGED <<now, new_token>>
    <3>1. FilesMove /\ file' = [file EXCEPT !["lease"] = Torn]
      BY <1>1, <2>1, OpenFile
    <3>2. file'["lease"] # Absent
      BY <1>1, <3>1, ContentKinds DEF FilesTyped
    <3> QED
      BY <1>1, <1>9, <2>1, <3>1, <3>2, GoesOn DEF Create
  <2>2. CASE NoFileChange /\ Done(p)
    <3>1. FilesMove /\ UNCHANGED file /\ UNCHANGED record
      BY <1>1, <1>9, <2>2, SameFiles DEF Create
    <3> QED
      BY <1>1, <2>2, <3>1, Returns DEF Claims
  <2> QED
    BY <1>9, <2>1, <2>2 DEF Create
<1>10. CASE WriteLease(p)
  <2> DEFINE new == [fencing_token |-> new_token[p], expires_at |-> now[p] + FileTTL]
  <2>1. /\ task_pc[p] = "write" /\ Done(p) /\ record' = [record EXCEPT ![p] = new]
        /\ WriteClose(p, Payload(p, new_token[p], now[p] + FileTTL))
    BY <1>10 DEF WriteLease
  <2>2. new_token[p] \in Nat /\ new \in [fencing_token : Nat, expires_at : Nat]
    BY <1>1 DEF FilesTyped
  <2>3. FilesMove /\ (file["lease"] # Absent => file'["lease"] # Absent)
    BY <1>1, <2>1, <2>2, WriteFile, WrittenContents
  <2> HIDE DEF new
  <2>4. record' \in [Task -> [fencing_token : Nat, expires_at : Nat]]
        /\ \A q \in Task \ {p} : record'[q] = record[q]
    BY <1>1, <2>1, <2>2
  <2> QED
    BY <2>1, <2>3, <2>4, Returns DEF Claims
<1> QED
  BY <1>2, <1>3, <1>4, <1>5, <1>6, <1>7, <1>8, <1>9, <1>10 DEF Acquiring

LEMMA RenewingStep ==
    ASSUME FileTTL \in Nat, FilesInv, NEW p \in Task, Renewing(p) PROVE FilesInv'
<1> USE DEF Name, Stage
<1>1. FilesTyped /\ ExpiryNoted /\ Steps(p) /\ new_token \in [Task -> Nat]
      /\ record \in [Task -> [fencing_token : Nat, expires_at : Nat]]
  BY DEF FilesInv, FilesTyped
<1>2. CASE Renew(p)
  <2>1. FilesMove /\ UNCHANGED file
    BY <1>1, <1>2, SameFiles DEF Renew
  <2> QED
    BY <1>1, <1>2, <2>1, GoesOn DEF Renew
<1>3. CASE RenewRead(p)
  <2>1. FilesMove /\ UNCHANGED <<file, task_clock, record>> /\ record[p] # NoRecord
    BY <1>1, <1>3, SameFiles DEF RenewRead, Steps
  <2>2. CASE Done(p)
    BY <1>1, <2>1, <2>2, Returns DEF Claims
  <2>3. CASE /\ now' = [now EXCEPT ![p] = task_clock] /\ Goto(p, "renew.open")
             /\ UNCHANGED new_token
    <3>1. /\ task_pc' \in [Task -> Stage] /\ now' \in [Task -> Nat] /\ task_pc'[p] = "renew.open"
          /\ now'[p] = task_clock /\ task_clock \in Nat
          /\ \A q \in Task \ {p} : task_pc'[q] = task_pc[q] /\ now'[q] = now[q]
      BY <1>1, <2>3 DEF FilesTyped, Goto
    <3>2. Steps(p)' /\ (Claims(p)' => Claims(p))
      BY <2>1, <3>1 DEF Steps, Claims
    <3> QED
      BY <1>1, <2>1, <2>3, <3>1, <3>2, TaskStep
  <2> QED
    BY <1>3, <2>2, <2>3 DEF RenewRead
<1>4. CASE RenewOpen(p)
  <2>1. FilesMove /\ file' = [file EXCEPT !["lease.tmp"] = Torn] /\ record[p] # NoRecord
    BY <1>1, <1>4, OpenFile DEF RenewOpen, Steps
  <2>2. file["lease"] # Absent => file'["lease"] # Absent
    BY <1>1, <2>1 DEF FilesTyped
  <2> QED
    BY <1>1, <1>4, <2>1, <2>2, GoesOn DEF RenewOpen
<1>5. CASE RenewWrite(p)
  <2>1. record[p] # NoRecord /\ record[p].fencing_token \in Nat
    BY <1>1, <1>5 DEF RenewWrite, Steps
  <2>2. FilesMove /\ (file["lease"] # Absent => file'["lease"] # Absent)
    BY <1>1, <1>5, <2>1, WriteFile, WrittenContents DEF RenewWrite
  <2> QED
    BY <1>1, <1>5, <2>1, <2>2, GoesOn DEF RenewWrite
<1>6. CASE RenewReplace(p)
  <2>1. Done(p) /\ record[p] # NoRecord /\ Claims(p)
    BY <1>1, <1>6 DEF RenewReplace, Steps, Claims
  <2>2. CASE /\ file["lease.tmp"] # Absent /\ Replace("lease.tmp", "lease")
             /\ record' = [record EXCEPT ![p].expires_at = now[p] + FileTTL]
    <3>1. FilesMove /\ file' = [file EXCEPT !["lease"] = file["lease.tmp"],
                                            !["lease.tmp"] = Absent]
      BY <1>1, <2>2, ReplaceFile
    <3>2. file'["lease"] # Absent
      BY <1>1, <2>2, <3>1 DEF FilesTyped
    <3>3. record' \in [Task -> [fencing_token : Nat, expires_at : Nat]]
          /\ \A q \in Task \ {p} : record'[q] = record[q]
      <4>1. now[p] + FileTTL \in Nat
        BY <1>1 DEF FilesTyped
      <4> QED
        BY <1>1, <2>2, <4>1
    <3> QED
      BY <2>1, <3>1, <3>2, <3>3, Returns
  <2>3. CASE NoFileChange /\ UNCHANGED record
    <3>1. FilesMove /\ UNCHANGED file
      BY <1>1, <2>3, SameFiles
    <3> QED
      BY <1>1, <2>1, <2>3, <3>1, Returns
  <2> QED
    BY <1>6, <2>2, <2>3 DEF RenewReplace
<1> QED
  BY <1>2, <1>3, <1>4, <1>5, <1>6 DEF Renewing

LEMMA ReleasingStep ==
    ASSUME FilesInv, NEW p \in Task, Releasing(p) PROVE FilesInv'
<1> USE DEF Name, Stage
<1>1. FilesTyped /\ ExpiryNoted /\ Steps(p) /\ new_token \in [Task -> Nat]
  BY DEF FilesInv, FilesTyped
<1>2. CASE Release(p)
  <2>1. /\ FilesMove /\ UNCHANGED <<file, now, new_token>> /\ record[p] # NoRecord
    BY <1>1, <1>2, SameFiles DEF Release
  <2>2. CASE GiveUp(p)
    BY <2>1, <2>2, GivesUp
  <2>3. CASE Goto(p, "release.fence") /\ UNCHANGED record
    BY <1>1, <2>1, <2>3, GoesOn
  <2> QED
    BY <1>2, <2>2, <2>3 DEF Release
<1>3. CASE ReleaseFence(p)
  <2>1. /\ FilesMove /\ UNCHANGED <<file, now, new_token>> /\ record[p] # NoRecord
    BY <1>1, <1>3, SameFiles DEF ReleaseFence, Steps
  <2>2. CASE GiveUp(p)
    BY <2>1, <2>2, GivesUp
  <2>3. CASE Goto(p, "release.unlink") /\ UNCHANGED record
    BY <1>1, <2>1, <2>3, GoesOn
  <2> QED
    BY <1>3, <2>2, <2>3 DEF ReleaseFence
<1>4. CASE ReleaseUnlink(p)
  <2>1. /\ FilesMove /\ UNCHANGED <<now, new_token>> /\ record[p] # NoRecord /\ GiveUp(p)
    BY <1>1, <1>4, UnlinkFile DEF ReleaseUnlink, Steps
  <2> QED
    BY <2>1, GivesUp
<1> QED
  BY <1>2, <1>3, <1>4 DEF Releasing

LEMMA CrashStep ==
    ASSUME FilesInv, NEW p \in Task, ProcessDies(p) PROVE FilesInv'
<1> DEFINE Dies(q) == ProcessOf[q] = ProcessOf[p]
<1>1. FilesTyped /\ ExpiryNoted
  BY DEF FilesInv
<1>2. /\ record' = [q \in Task |-> IF Dies(q) THEN NoRecord ELSE record[q]]
      /\ fd' = [q \in Task |-> IF Dies(q) THEN "none" ELSE fd[q]]
      /\ task_pc' = [q \in Task |-> IF Dies(q) THEN "idle" ELSE task_pc[q]]
      /\ now' = [q \in Task |-> IF Dies(q) THEN 0 ELSE now[q]]
      /\ new_token' = [q \in Task |-> IF Dies(q) THEN 0 ELSE new_token[q]]
      /\ UNCHANGED <<file, task_clock, expired>>
  BY DEF ProcessDies
<1> HIDE DEF Dies
<1>3. FilesTyped'
  BY <1>1, <1>2, NoRecordType DEF FilesTyped, Stage
<1>4. ExpiryNoted'
  BY <1>1, <1>2 DEF ExpiryNoted
<1>5. ASSUME NEW q \in Task PROVE Steps(q)' /\ (Claims(q)' => Claims(q))
  <2>1. Steps(q) /\ task_clock \in Nat
    BY <1>1 DEF FilesInv, FilesTyped
  <2>2. CASE Dies(q)
    BY <1>2, <2>1, <2>2 DEF Steps, Claims
  <2>3. CASE ~Dies(q)
    BY <1>2, <2>1, <2>3 DEF Steps, Claims
  <2> QED
    BY <2>2, <2>3
<1>6. OneClaim'
  BY <1>2, <1>5 DEF FilesInv, OneClaim
<1> QED
  BY <1>3, <1>4, <1>5, <1>6 DEF FilesInv

LEMMA FilesInvStep ==
    ASSUME FileTTL \in Nat, FilesInv, [FilesNext]_filesVars PROVE FilesInv'
<1>1. CASE UNCHANGED filesVars
  <2>1. FilesTyped' /\ ExpiryNoted'
    BY <1>1 DEF FilesInv, FilesTyped, ExpiryNoted, filesVars
  <2>2. \A p \in Task : Steps(p)'
    BY <1>1 DEF FilesInv, Steps, filesVars
  <2>3. OneClaim'
    BY <1>1 DEF FilesInv, OneClaim, Claims, filesVars
  <2> QED
    BY <2>1, <2>2, <2>3 DEF FilesInv
<1>2. CASE FilesTick
  <2>1. /\ Set(file, task_clock + 1) /\ UNCHANGED <<fd, task_pc, now, new_token, record>>
        /\ FilesTyped
    BY <1>2 DEF FilesTick, taskVars, FilesInv
  <2>2. FilesMove /\ file' = file /\ task_clock' = task_clock + 1
    <3>1. task_clock + 1 \in Nat /\ task_clock <= task_clock + 1 /\ file \in [Name -> Contents]
          /\ fd' \in [Task -> Name \cup {"none", "gone"}]
      BY <2>1 DEF FilesTyped
    <3> QED
      BY <2>1, <3>1, SetFiles
  <2>3. FilesTyped'
    BY <2>1, <2>2 DEF FilesTyped, FilesMove
  <2>4. ASSUME NEW p \in Task PROVE Steps(p)'
    <3>1. Steps(p) /\ now[p] \in Nat /\ task_clock \in Nat
      BY <2>1 DEF FilesInv, FilesTyped
    <3>2. now'[p] <= task_clock'
      BY <2>1, <2>2, <3>1 DEF Steps
    <3> QED
      BY <2>1, <2>2, <3>1, <3>2 DEF Steps, FilesMove
  <2>5. OneClaim'
    BY <2>1, <2>2 DEF FilesInv, OneClaim, Claims, FilesMove
  <2> QED
    BY <2>2, <2>3, <2>4, <2>5 DEF FilesInv, FilesMove
<1>3. ASSUME NEW p \in Task, Acquiring(p) \/ Renewing(p) \/ Releasing(p) \/ ProcessDies(p)
      PROVE  FilesInv'
  BY <1>3, AcquiringStep, RenewingStep, ReleasingStep, CrashStep
<1> QED
  BY <1>1, <1>2, <1>3 DEF FilesNext

LEMMA FilesInvInit ==
    ASSUME FilesInit PROVE FilesInv
<1>1. FilesTyped
  BY ContentKinds, NoRecordType DEF FilesInit, FilesTyped, Stage
<1>2. ExpiryNoted
  BY ContentKinds DEF FilesInit, ExpiryNoted
<1>3. \A p \in Task : Steps(p)
  BY DEF FilesInit, Steps
<1>4. OneClaim
  BY DEF FilesInit, OneClaim, Claims
<1> QED
  BY <1>1, <1>2, <1>3, <1>4 DEF FilesInv

\* The Markdown registry keeps tasks apart, whatever processes they are of and
\* wherever these crash: until a lease file has outlived its expires_at, no two
\* tasks hold the slug (O_EXCL in try_acquire of MarkdownLockRegistry).
THEOREM FilesExclusive ==
    ASSUME FileTTL \in Nat PROVE FilesSpec => []ExclusiveUntilExpiry
<1>1. FilesInv => ExclusiveUntilExpiry
  BY DEF FilesInv, OneClaim, Claims, ExclusiveUntilExpiry
<1> QED
  BY <1>1, FilesInvInit, FilesInvStep, PTL DEF FilesSpec

-----------------------------------------------------------------------------
(* The Markdown registry of one process keeps the contract of the protocol  *)

OneProcess == \A p, q \in Task : ProcessOf[p] = ProcessOf[q]

Alone == \A p, q \in Task : task_pc[p] # "idle" /\ task_pc[q] # "idle" => p = q

\* The fence file is whole, and at least what was last granted: a crash may
\* waste a token and never takes one back.
FenceKept ==
    /\ granted \in Nat /\ granted <= ReadFence
    /\ file["fence"].kind \in {"absent", "fence"}

LeaseBound ==
    file["lease"].kind = "lease" => file["lease"].expires_at <= task_clock + FileTTL

\* What a call has read and written so far is still there: nobody else is in
\* a call of this process.
Underway(p) ==
    /\ task_pc[p] \in {"fence.open", "fence.write", "fence.replace", "create", "write"} =>
          granted < new_token[p]
    /\ task_pc[p] = "fence.write" => fd[p] = "fence.tmp"
    /\ task_pc[p] = "fence.replace" => file["fence.tmp"] = Count(new_token[p])
    /\ task_pc[p] \in {"create", "write"} => file["fence"] = Count(new_token[p])
    /\ task_pc[p] = "write" => fd[p] = "lease" /\ file["lease"] = Torn
    /\ task_pc[p] \in {"renew.open", "renew.write", "renew.replace"} =>
          OwnLease(p) /\ file["lease"].expires_at <= now[p] + FileTTL
    /\ task_pc[p] = "renew.write" => fd[p] = "lease.tmp"
    /\ task_pc[p] = "renew.replace" =>
          file["lease.tmp"] = Payload(p, record[p].fencing_token, now[p] + FileTTL)

ContractInv ==
    Alone /\ FenceKept /\ LeaseBound /\ \A p \in Task : Underway(p)

Contract == [FilesRegistry!Next]_FilesRegistry!regVars

\* A step of the one task that is in a call.
LEMMA CallerStep ==
    ASSUME OneProcess, FilesInv, ContractInv, NEW p \in Task, CallFree(p) \/ task_pc[p] # "idle",
           NEW x \in Stage, task_pc' = [task_pc EXCEPT ![p] = x], Underway(p)', FenceKept', LeaseBound'
    PROVE  ContractInv'
<1>1. \A q \in Task \ {p} : task_pc[q] = "idle"
  BY DEF ContractInv, Alone, CallFree, OneProcess
<1>2. \A q \in Task \ {p} : task_pc'[q] = "idle"
  BY <1>1 DEF FilesInv, FilesTyped
<1>3. Alone'
  BY <1>2 DEF Alone
<1>4. \A q \in Task \ {p} : Underway(q)'
  BY <1>2 DEF Underway
<1> QED
  BY <1>3, <1>4 DEF ContractInv

\* A step that leaves the lease and the fence alone changes nothing the
\* protocol speaks of.
LEMMA Quiet ==
    ASSUME ContractInv, file'["lease"] = file["lease"], file'["fence"] = file["fence"],
           granted' = granted, task_clock' = task_clock
    PROVE  FenceKept' /\ LeaseBound' /\ Contract
<1>1. FenceKept' /\ LeaseBound'
  BY DEF ContractInv, FenceKept, LeaseBound, ReadFence
<1>2. Lease' = Lease
  BY DEF Lease
<1>3. UNCHANGED FilesRegistry!regVars
  BY <1>2 DEF FilesRegistry!regVars
<1> QED
  BY <1>1, <1>3 DEF Contract

LEMMA LeaseFile ==
    /\ file["lease"].kind = "lease" => Lease["slug"] = file["lease"]
    /\ file["lease"].kind # "lease" => Lease["slug"] = Absent
  BY DEF Lease

\* The lease file is removed, or becomes one that names no lease.
LEMMA Dropped ==
    ASSUME file'["lease"] = Absent, granted' = granted, task_clock' = task_clock
    PROVE  Contract
<1>1. Lease'["slug"] = Absent
  BY DEF Lease, Absent
<1>2. FilesRegistry!Drop("slug")
  BY <1>1 DEF FilesRegistry!Drop, FilesRegistry!OnlySlug
<1> QED
  BY <1>2 DEF Contract, FilesRegistry!Next

LEMMA AcquiringContract ==
    ASSUME FileTTL \in Nat, OneProcess, FilesInv, ContractInv, NEW p \in Task, Acquiring(p)
    PROVE  ContractInv' /\ Contract
<1> USE DEF Name, Stage
<1>1. /\ FilesTyped /\ ExpiryNoted /\ Steps(p) /\ FenceKept /\ LeaseBound /\ Underway(p)
      /\ task_pc \in [Task -> Stage] /\ new_token \in [Task -> Nat]
      /\ file \in [Name -> Contents] /\ fd \in [Task -> Name \cup {"none", "gone"}]
  BY DEF FilesInv, FilesTyped, ContractInv
<1>2. CASE TryAcquireFile(p)
  <2>1. UNCHANGED <<file, task_clock, granted>> /\ task_pc' = [task_pc EXCEPT ![p] = "read"] /\ CallFree(p)
    BY <1>1, <1>2, SameFiles DEF TryAcquireFile, Goto
  <2>2. FenceKept' /\ LeaseBound' /\ Contract
    BY <2>1, Quiet
  <2>3. Underway(p)'
    BY <1>1, <2>1 DEF Underway
  <2> QED
    BY <2>1, <2>2, <2>3, CallerStep
<1>3. CASE ReadLease(p)
  <2>1. UNCHANGED <<file, task_clock, granted>> /\ task_pc[p] = "read"
    BY <1>1, <1>3, SameFiles DEF ReadLease
  <2>2. FenceKept' /\ LeaseBound' /\ Contract
    BY <2>1, Quiet
  <2>3. PICK x \in {"fence.read", "idle", "unlink"} : task_pc' = [task_pc EXCEPT ![p] = x]
    BY <1>3 DEF ReadLease, Goto, Done
  <2>4. Underway(p)'
    BY <1>1, <2>3 DEF Underway
  <2> QED
    BY <2>1, <2>2, <2>3, <2>4, CallerStep
<1>4. CASE UnlinkExpired(p)
  <2>1. /\ file' = [file EXCEPT !["lease"] = Absent] /\ UNCHANGED <<task_clock, granted>>
        /\ task_pc[p] = "unlink" /\ task_pc' = [task_pc EXCEPT ![p] = "fence.read"]
    BY <1>1, <1>4, UnlinkFile DEF UnlinkExpired, Goto
  <2>2. file'["lease"] = Absent /\ file'["fence"] = file["fence"]
    BY <1>1, <2>1
  <2>3. FenceKept' /\ LeaseBound'
    BY <1>1, <2>1, <2>2, ContentKinds DEF FenceKept, LeaseBound, ReadFence
  <2>4. Contract
    BY <2>1, <2>2, Dropped
  <2>5. Underway(p)'
    BY <1>1, <2>1 DEF Underway
  <2> QED
    BY <2>1, <2>3, <2>4, <2>5, CallerStep
<1>5. CASE BumpRead(p)
  <2>1. /\ UNCHANGED <<file, task_clock, granted>> /\ task_pc[p] = "fence.read"
        /\ task_pc' = [task_pc EXCEPT ![p] = "fence.open"]
        /\ new_token' = [new_token EXCEPT ![p] = ReadFence + 1]
    BY <1>1, <1>5, SameFiles DEF BumpRead, Goto
  <2>2. FenceKept' /\ LeaseBound' /\ Contract
    BY <2>1, Quiet
  <2>3. granted' < new_token'[p]
    <3>1. granted \in Nat /\ ReadFence \in Nat /\ granted <= ReadFence
      BY <1>1, WrittenContents DEF FenceKept
    <3>2. new_token'[p] = ReadFence + 1
      BY <1>1, <2>1
    <3> QED
      BY <2>1, <3>1, <3>2
  <2>4. task_pc'[p] = "fence.open"
    BY <1>1, <2>1
  <2>5. Underway(p)'
    BY <2>3, <2>4 DEF Underway
  <2> QED
    BY <2>1, <2>2, <2>5, CallerStep
<1>6. CASE BumpOpen(p)
  <2>1. /\ file' = [file EXCEPT !["fence.tmp"] = Torn] /\ UNCHANGED <<task_clock, granted, new_token>>
        /\ task_pc[p] = "fence.open" /\ task_pc' = [task_pc EXCEPT ![p] = "fence.write"]
        /\ fd' = [fd EXCEPT ![p] = "fence.tmp"]
    BY <1>1, <1>6, OpenFile DEF BumpOpen, Goto, OpenTruncate
  <2>2. file'["lease"] = file["lease"] /\ file'["fence"] = file["fence"]
    BY <1>1, <2>1
  <2>3. FenceKept' /\ LeaseBound' /\ Contract
    BY <2>1, <2>2, Quiet
  <2>4. task_pc'[p] = "fence.write" /\ fd'[p] = "fence.tmp"
    BY <1>1, <2>1
  <2>5. Underway(p)'
    BY <1>1, <2>1, <2>4 DEF Underway
  <2> QED
    BY <2>1, <2>3, <2>5, CallerStep
<1>7. CASE BumpWrite(p)
  <2>1. /\ file' = [file EXCEPT !["fence.tmp"] = Count(new_token[p])]
        /\ UNCHANGED <<task_clock, granted, new_token>>
        /\ task_pc[p] = "fence.write" /\ task_pc' = [task_pc EXCEPT ![p] = "fence.replace"]
    <3>1. task_pc[p] = "fence.write" /\ fd[p] = "fence.tmp"
      BY <1>1, <1>7 DEF BumpWrite, Underway
    <3>2. file' = (IF fd[p] \in Name THEN [file EXCEPT ![fd[p]] = Count(new_token[p])]
                  ELSE file) /\ task_clock' = task_clock
      BY <1>1, <1>7, WriteFile, WrittenContents DEF BumpWrite
    <3> QED
      BY <1>7, <3>1, <3>2 DEF BumpWrite, Goto
  <2>2. /\ file'["lease"] = file["lease"] /\ file'["fence"] = file["fence"]
        /\ file'["fence.tmp"] = Count(new_token[p])
    BY <1>1, <2>1
  <2>3. FenceKept' /\ LeaseBound' /\ Contract
    BY <2>1, <2>2, Quiet
  <2>4. task_pc'[p] = "fence.replace"
    BY <1>1, <2>1
  <2>5. file'["fence.tmp"] = Count(new_token[p])'
    BY <2>1, <2>2 DEF Count
  <2>6. Underway(p)'
    BY <1>1, <2>1, <2>4, <2>5 DEF Underway
  <2> QED
    BY <2>1, <2>3, <2>6, CallerStep
<1>8. CASE BumpReplace(p)
  <2>1. CASE NoFileChange /\ Done(p)
    <3>1. /\ UNCHANGED <<file, task_clock, granted>> /\ task_pc[p] = "fence.replace"
          /\ task_pc' = [task_pc EXCEPT ![p] = "idle"]
      BY <1>1, <1>8, <2>1, SameFiles DEF BumpReplace, Done, Goto
    <3>2. FenceKept' /\ LeaseBound' /\ Contract
      BY <3>1, Quiet
    <3>3. Underway(p)'
      BY <1>1, <3>1 DEF Underway
    <3> QED
      BY <3>1, <3>2, <3>3, CallerStep
  <2>2. CASE Replace("fence.tmp", "fence") /\ Goto(p, "create") /\ UNCHANGED <<now, new_token>>
    <3>1. /\ file' = [file EXCEPT !["fence"] = file["fence.tmp"], !["fence.tmp"] = Absent]
          /\ UNCHANGED <<task_clock, granted, new_token>>
          /\ task_pc[p] = "fence.replace" /\ task_pc' = [task_pc EXCEPT ![p] = "create"]
      BY <1>1, <1>8, <2>2, ReplaceFile DEF BumpReplace, Goto
    <3>2. /\ file'["lease"] = file["lease"] /\ file'["fence"] = Count(new_token[p])
          /\ granted < new_token[p] /\ new_token[p] \in Nat /\ task_pc'[p] = "create"
      BY <1>1, <3>1 DEF Underway
    <3>3. file'["fence"].kind = "fence" /\ file'["fence"].token = new_token[p]
      BY <3>2 DEF Count
    <3>4. FenceKept'
      BY <1>1, <3>1, <3>2, <3>3 DEF FenceKept, ReadFence
    <3>5. LeaseBound'
      BY <1>1, <3>1, <3>2 DEF LeaseBound
    <3>6. Lease' = Lease
      BY <3>2 DEF Lease
    <3>7. Contract
      BY <3>1, <3>6 DEF Contract, FilesRegistry!regVars
    <3>8. file'["fence"] = Count(new_token[p])'
      BY <3>1, <3>2 DEF Count
    <3>9. Underway(p)'
      BY <3>1, <3>2, <3>8 DEF Underway
    <3> QED
      BY <3>1, <3>4, <3>5, <3>7, <3>9, CallerStep
  <2> QED
    BY <1>8, <2>1, <2>2 DEF BumpReplace
<1>9. CASE Create(p)
  <2>1. CASE NoFileChange /\ Done(p)
    <3>1. /\ UNCHANGED <<file, task_clock, granted>> /\ task_pc[p] = "create"
          /\ task_pc' = [task_pc EXCEPT ![p] = "idle"]
      BY <1>1, <1>9, <2>1, SameFiles DEF Create, Done, Goto
    <3>2. FenceKept' /\ LeaseBound' /\ Contract
      BY <3>1, Quiet
    <3>3. Underway(p)'
      BY <1>1, <3>1 DEF Underway
    <3> QED
      BY <3>1, <3>2, <3>3, CallerStep
  <2>2. CASE /\ file["lease"] = Absent /\ OpenTruncate(p, "lease")
             /\ Goto(p, "write") /\ UNCHANGED <<now, new_token>>
    <3>1. /\ file' = [file EXCEPT !["lease"] = Torn] /\ UNCHANGED <<task_clock, granted, new_token>>
          /\ task_pc[p] = "create" /\ task_pc' = [task_pc EXCEPT ![p] = "write"]
          /\ fd' = [fd EXCEPT ![p] = "lease"]
      BY <1>1, <1>9, <2>2, OpenFile DEF Create, Goto, OpenTruncate
    <3>2. /\ file'["lease"] = Torn /\ file'["fence"] = file["fence"]
          /\ task_pc'[p] = "write" /\ fd'[p] = "lease"
      BY <1>1, <3>1
    <3>3. FenceKept' /\ LeaseBound'
      BY <1>1, <3>1, <3>2, ContentKinds DEF FenceKept, LeaseBound, ReadFence
    <3>4. Lease' = Lease
      BY <2>2, <3>2, ContentKinds DEF Lease
    <3>5. Contract
      BY <3>1, <3>4 DEF Contract, FilesRegistry!regVars
    <3>6. file["fence"] = Count(new_token[p]) => file'["fence"] = Count(new_token[p])'
      BY <3>1, <3>2 DEF Count
    <3>7. Underway(p)'
      BY <1>1, <3>1, <3>2, <3>6 DEF Underway, Torn
    <3> QED
      BY <3>1, <3>3, <3>5, <3>7, CallerStep
  <2> QED
    BY <1>9, <2>1, <2>2 DEF Create
<1>10. CASE WriteLease(p)
  <2> DEFINE new == Payload(p, new_token[p], now[p] + FileTTL)
  <2>1. /\ task_pc[p] = "write" /\ granted' = new_token[p] /\ task_pc' = [task_pc EXCEPT ![p] = "idle"]
        /\ WriteClose(p, new)
    BY <1>10 DEF WriteLease, Done, Goto
  <2>2. /\ fd[p] = "lease" /\ file["lease"] = Torn /\ granted < new_token[p]
        /\ file["fence"] = Count(new_token[p])
    BY <1>1, <2>1 DEF Underway
  <2>3. file' = [file EXCEPT !["lease"] = new] /\ task_clock' = task_clock
    <3>1. new \in Contents /\ new # Absent
      BY <1>1, WrittenContents DEF FilesTyped
    <3> HIDE DEF new
    <3>2. file' = (IF fd[p] \in Name THEN [file EXCEPT ![fd[p]] = new] ELSE file)
          /\ task_clock' = task_clock
      BY <1>1, <2>1, <3>1, WriteFile
    <3> QED
      BY <2>2, <3>2
  <2>4. /\ file'["lease"] = new /\ file'["fence"] = file["fence"] /\ task_pc'[p] = "idle"
    <3> HIDE DEF new
    <3> QED BY <1>1, <2>1, <2>3
  <2>5. new.kind = "lease" /\ new.expires_at = now[p] + FileTTL /\ new.fencing_token = new_token[p]
        /\ new # Absent
    BY DEF Payload, Absent
  <2>6. /\ new_token[p] \in Nat /\ granted \in Nat /\ now[p] + FileTTL \in Nat
        /\ now[p] + FileTTL <= task_clock + FileTTL
    <3>1. now[p] \in Nat /\ task_clock \in Nat /\ now[p] <= task_clock
      BY <1>1 DEF FilesTyped, Steps
    <3> QED
      BY <1>1, <3>1 DEF FenceKept
  <2> HIDE DEF new
  <2>7. FenceKept'
    <3>1. file'["fence"].kind = "fence" /\ file'["fence"].token = new_token[p]
      BY <2>2, <2>4 DEF Count
    <3> QED
      BY <2>1, <2>6, <3>1 DEF FenceKept, ReadFence
  <2>8. LeaseBound'
    BY <2>3, <2>4, <2>5, <2>6 DEF LeaseBound
  <2>9. Lease["slug"] = Absent
    BY <2>2, ContentKinds, LeaseFile
  <2>10. Lease'["slug"] = new
    BY <2>4, <2>5 DEF Lease
  <2>11. FilesRegistry!Grant("slug")
    BY <2>1, <2>2, <2>3, <2>5, <2>6, <2>9, <2>10
       DEF FilesRegistry!Grant, FilesRegistry!Free, FilesRegistry!OnlySlug
  <2>12. Underway(p)'
    BY <2>4 DEF Underway
  <2> QED
    BY <2>1, <2>7, <2>8, <2>11, <2>12, CallerStep DEF Contract, FilesRegistry!Next
<1> QED
  BY <1>2, <1>3, <1>4, <1>5, <1>6, <1>7, <1>8, <1>9, <1>10 DEF Acquiring


LEMMA RenewingContract ==
    ASSUME FileTTL \in Nat, OneProcess, FilesInv, ContractInv, NEW p \in Task, Renewing(p)
    PROVE  ContractInv' /\ Contract
<1> USE DEF Name, Stage
<1>1. /\ FilesTyped /\ ExpiryNoted /\ Steps(p) /\ FenceKept /\ LeaseBound /\ Underway(p)
      /\ task_pc \in [Task -> Stage] /\ now \in [Task -> Nat] /\ task_clock \in Nat
      /\ record \in [Task -> [fencing_token : Nat, expires_at : Nat]]
      /\ file \in [Name -> Contents] /\ fd \in [Task -> Name \cup {"none", "gone"}]
  BY DEF FilesInv, FilesTyped, ContractInv
<1>2. CASE Renew(p)
  <2>1. UNCHANGED <<file, task_clock, granted>> /\ task_pc' = [task_pc EXCEPT ![p] = "renew.read"]
        /\ CallFree(p)
    BY <1>1, <1>2, SameFiles DEF Renew, Goto
  <2>2. FenceKept' /\ LeaseBound' /\ Contract
    BY <2>1, Quiet
  <2>3. Underway(p)'
    BY <1>1, <2>1 DEF Underway
  <2> QED
    BY <2>1, <2>2, <2>3, CallerStep
<1>3. CASE RenewRead(p)
  <2>1. UNCHANGED <<file, task_clock, granted, record>> /\ task_pc[p] = "renew.read"
    BY <1>1, <1>3, SameFiles DEF RenewRead
  <2>2. FenceKept' /\ LeaseBound' /\ Contract
    BY <2>1, Quiet
  <2>3. CASE Done(p)
    <3>1. task_pc' = [task_pc EXCEPT ![p] = "idle"]
      BY <2>3 DEF Done, Goto
    <3>2. Underway(p)'
      BY <1>1, <3>1 DEF Underway
    <3> QED
      BY <2>1, <2>2, <3>1, <3>2, CallerStep
  <2>4. CASE /\ OwnLease(p) /\ now' = [now EXCEPT ![p] = task_clock]
             /\ Goto(p, "renew.open")
    <3>1. task_pc' = [task_pc EXCEPT ![p] = "renew.open"] /\ task_pc'[p] = "renew.open" /\ now'[p] = task_clock
      BY <1>1, <2>4 DEF Goto
    <3>2. OwnLease(p)' /\ file'["lease"].expires_at <= now'[p] + FileTTL
      BY <1>1, <2>1, <2>4, <3>1 DEF OwnLease, LeaseBound
    <3>3. Underway(p)'
      BY <3>1, <3>2 DEF Underway
    <3> QED
      BY <2>1, <2>2, <3>1, <3>3, CallerStep
  <2> QED
    BY <1>3, <2>3, <2>4 DEF RenewRead
<1>4. CASE RenewOpen(p)
  <2>1. /\ file' = [file EXCEPT !["lease.tmp"] = Torn]
        /\ UNCHANGED <<task_clock, granted, now, record>>
        /\ task_pc[p] = "renew.open" /\ task_pc' = [task_pc EXCEPT ![p] = "renew.write"]
        /\ fd' = [fd EXCEPT ![p] = "lease.tmp"]
    BY <1>1, <1>4, OpenFile DEF RenewOpen, Goto, OpenTruncate
  <2>2. /\ file'["lease"] = file["lease"] /\ file'["fence"] = file["fence"]
        /\ task_pc'[p] = "renew.write" /\ fd'[p] = "lease.tmp"
    BY <1>1, <2>1
  <2>3. FenceKept' /\ LeaseBound' /\ Contract
    BY <2>1, <2>2, Quiet
  <2>4. OwnLease(p)' /\ file'["lease"].expires_at <= now'[p] + FileTTL
    BY <1>1, <2>1, <2>2 DEF Underway, OwnLease
  <2>5. Underway(p)'
    BY <2>2, <2>4 DEF Underway
  <2> QED
    BY <2>1, <2>3, <2>5, CallerStep
<1>5. CASE RenewWrite(p)
  <2> DEFINE new == Payload(p, record[p].fencing_token, now[p] + FileTTL)
  <2>1. /\ task_pc[p] = "renew.write" /\ task_pc' = [task_pc EXCEPT ![p] = "renew.replace"]
        /\ WriteClose(p, new) /\ UNCHANGED <<granted, now, record>>
    BY <1>5 DEF RenewWrite, Goto
  <2>2. fd[p] = "lease.tmp" /\ new \in Contents /\ new # Absent
    BY <1>1, <2>1, WrittenContents DEF Underway
  <2>3. new' = new
    BY <2>1 DEF Payload
  <2>4. OwnLease(p) /\ file["lease"].expires_at <= now[p] + FileTTL
    BY <1>1, <2>1 DEF Underway
  <2> HIDE DEF new
  <2>5. file' = [file EXCEPT !["lease.tmp"] = new] /\ task_clock' = task_clock
    <3>1. file' = (IF fd[p] \in Name THEN [file EXCEPT ![fd[p]] = new] ELSE file)
          /\ task_clock' = task_clock
      BY <1>1, <2>1, <2>2, WriteFile
    <3> QED
      BY <2>2, <3>1
  <2>6. /\ file'["lease"] = file["lease"] /\ file'["fence"] = file["fence"]
        /\ file'["lease.tmp"] = new /\ task_pc'[p] = "renew.replace"
    BY <1>1, <2>1, <2>5
  <2>7. FenceKept' /\ LeaseBound' /\ Contract
    BY <2>1, <2>5, <2>6, Quiet
  <2>8. OwnLease(p)' /\ file'["lease"].expires_at <= now'[p] + FileTTL
    BY <2>1, <2>4, <2>6 DEF OwnLease
  <2>9. file'["lease.tmp"] = Payload(p, record[p].fencing_token, now[p] + FileTTL)'
    BY <2>3, <2>6 DEF new
  <2>10. Underway(p)'
    BY <2>6, <2>8, <2>9 DEF Underway
  <2> QED
    BY <2>1, <2>7, <2>10, CallerStep
<1>6. CASE RenewReplace(p)
  <2>1. /\ task_pc[p] = "renew.replace" /\ task_pc' = [task_pc EXCEPT ![p] = "idle"] /\ granted' = granted
    BY <1>6 DEF RenewReplace, Done, Goto
  <2>2. Underway(p)'
    BY <1>1, <2>1 DEF Underway
  <2>3. CASE NoFileChange
    <3>1. UNCHANGED <<file, task_clock>>
      BY <1>1, <2>3, SameFiles
    <3>2. FenceKept' /\ LeaseBound' /\ Contract
      BY <2>1, <3>1, Quiet
    <3> QED
      BY <2>1, <2>2, <3>2, CallerStep
  <2>4. CASE Replace("lease.tmp", "lease")
    <3> DEFINE new == Payload(p, record[p].fencing_token, now[p] + FileTTL)
    <3>1. /\ task_clock' = task_clock
          /\ file' = [file EXCEPT !["lease"] = file["lease.tmp"], !["lease.tmp"] = Absent]
      BY <1>1, <2>4, ReplaceFile
    <3>2. /\ OwnLease(p) /\ file["lease"].expires_at <= now[p] + FileTTL
          /\ file["lease.tmp"] = new
      BY <1>1, <2>1 DEF Underway
    <3>3. /\ new.kind = "lease" /\ new.holder_id = p /\ new.expires_at = now[p] + FileTTL
          /\ new.fencing_token = record[p].fencing_token /\ new # Absent
      BY DEF Payload, Absent
    <3>4. /\ now[p] + FileTTL \in Nat /\ now[p] + FileTTL <= task_clock + FileTTL
      <4>1. now[p] \in Nat /\ task_clock \in Nat /\ now[p] <= task_clock
        BY <1>1 DEF Steps
      <4> QED
        BY <4>1
    <3> HIDE DEF new
    <3>5. file'["lease"] = new /\ file'["fence"] = file["fence"]
      BY <1>1, <3>1, <3>2
    <3>6. FenceKept'
      BY <1>1, <2>1, <3>5 DEF FenceKept, ReadFence
    <3>7. LeaseBound'
      BY <3>1, <3>3, <3>4, <3>5 DEF LeaseBound
    <3>8. Lease["slug"] = file["lease"] /\ Lease'["slug"] = new
      BY <3>2, <3>3, <3>5, LeaseFile DEF Lease, OwnLease
    <3>9. file["lease"].expires_at \in Nat /\ file["lease"] # Absent
      <4>1. file["lease"] \in Contents /\ file["lease"].kind = "lease"
        BY <1>1, <3>2 DEF OwnLease
      <4> QED
        BY <4>1 DEF Contents, Torn, Absent
    <3>10. FilesRegistry!Extend("slug")
      BY <2>1, <3>1, <3>2, <3>3, <3>4, <3>8, <3>9
         DEF FilesRegistry!Extend, FilesRegistry!OnlySlug, OwnLease
    <3> QED
      BY <2>1, <2>2, <3>6, <3>7, <3>10, CallerStep DEF Contract, FilesRegistry!Next
  <2> QED
    BY <1>6, <2>3, <2>4 DEF RenewReplace
<1> QED
  BY <1>2, <1>3, <1>4, <1>5, <1>6 DEF Renewing

LEMMA ReleasingContract ==
    ASSUME OneProcess, FilesInv, ContractInv, NEW p \in Task, Releasing(p)
    PROVE  ContractInv' /\ Contract
<1> USE DEF Name, Stage
<1>1. /\ FilesTyped /\ ExpiryNoted /\ FenceKept /\ LeaseBound
      /\ task_pc \in [Task -> Stage] /\ file \in [Name -> Contents]
  BY DEF FilesInv, FilesTyped, ContractInv
<1>2. CASE Release(p) \/ ReleaseFence(p)
  <2>1. UNCHANGED <<file, task_clock, granted>> /\ (CallFree(p) \/ task_pc[p] # "idle")
    BY <1>1, <1>2, SameFiles DEF Release, ReleaseFence
  <2>2. FenceKept' /\ LeaseBound' /\ Contract
    BY <2>1, Quiet
  <2>3. PICK x \in {"release.fence", "release.unlink", "idle"} : task_pc' = [task_pc EXCEPT ![p] = x]
    BY <1>2 DEF Release, ReleaseFence, GiveUp, Goto
  <2>4. Underway(p)'
    BY <1>1, <2>3 DEF Underway
  <2> QED
    BY <2>1, <2>2, <2>3, <2>4, CallerStep
<1>3. CASE ReleaseUnlink(p)
  <2>1. /\ file' = [file EXCEPT !["lease"] = Absent] /\ UNCHANGED <<task_clock, granted>>
        /\ task_pc[p] = "release.unlink" /\ task_pc' = [task_pc EXCEPT ![p] = "idle"]
    BY <1>1, <1>3, UnlinkFile DEF ReleaseUnlink, GiveUp, Goto
  <2>2. file'["lease"] = Absent /\ file'["fence"] = file["fence"]
    BY <1>1, <2>1
  <2>3. FenceKept' /\ LeaseBound'
    BY <1>1, <2>1, <2>2, ContentKinds DEF FenceKept, LeaseBound, ReadFence
  <2>4. Contract
    BY <2>1, <2>2, Dropped
  <2>5. Underway(p)'
    BY <1>1, <2>1 DEF Underway
  <2> QED
    BY <2>1, <2>3, <2>4, <2>5, CallerStep
<1> QED
  BY <1>2, <1>3 DEF Releasing

LEMMA ContractStep ==
    ASSUME FileTTL \in Nat, OneProcess, FilesInv, ContractInv, [FilesNext]_filesVars
    PROVE  ContractInv' /\ Contract
<1>1. CASE UNCHANGED filesVars
  <2>1. Alone' /\ \A p \in Task : Underway(p)'
    BY <1>1 DEF filesVars, ContractInv, Alone, Underway, Count, OwnLease, Payload
  <2>2. FenceKept' /\ LeaseBound' /\ Contract
    BY <1>1, Quiet DEF filesVars
  <2> QED
    BY <2>1, <2>2 DEF ContractInv
<1>2. CASE FilesTick
  <2>1. UNCHANGED <<file, fd, task_pc, now, new_token, record, granted>> /\ task_clock' = task_clock + 1
    BY <1>2 DEF FilesTick, Set, taskVars
  <2>2. task_clock \in Nat /\ file \in [Name -> Contents] /\ FenceKept /\ LeaseBound
    BY DEF FilesInv, FilesTyped, ContractInv
  <2>3. Alone' /\ \A p \in Task : Underway(p)'
    BY <2>1 DEF ContractInv, Alone, Underway, Count, OwnLease, Payload
  <2>4. FenceKept'
    BY <2>1, <2>2 DEF FenceKept, ReadFence
  <2>5. LeaseBound'
    <3>1. file["lease"] \in Contents
      BY <2>2, ContentKinds
    <3>2. file["lease"].kind = "lease" => file["lease"].expires_at \in Nat
      BY <3>1 DEF Contents, Torn, Absent
    <3> QED
      BY <2>1, <2>2, <3>2 DEF LeaseBound
  <2>6. Lease' = Lease
    BY <2>1 DEF Lease
  <2>7. task_clock' >= task_clock
    BY <2>1, <2>2
  <2>8. Contract
    BY <2>1, <2>6, <2>7 DEF Contract, FilesRegistry!Next, FilesRegistry!Pass
  <2> QED
    BY <2>3, <2>4, <2>5, <2>8 DEF ContractInv
<1>3. ASSUME NEW p \in Task, ProcessDies(p) PROVE ContractInv' /\ Contract
  <2>1. UNCHANGED <<file, task_clock, granted>> /\ \A q \in Task : task_pc'[q] = "idle"
    BY <1>3 DEF ProcessDies, OneProcess
  <2>2. FenceKept' /\ LeaseBound' /\ Contract
    BY <2>1, Quiet
  <2>3. Alone' /\ \A q \in Task : Underway(q)'
    BY <2>1 DEF Alone, Underway
  <2> QED
    BY <2>2, <2>3 DEF ContractInv
<1>4. ASSUME NEW p \in Task, Acquiring(p) \/ Renewing(p) \/ Releasing(p)
      PROVE  ContractInv' /\ Contract
  BY <1>4, AcquiringContract, RenewingContract, ReleasingContract
<1> QED
  BY <1>1, <1>2, <1>3, <1>4 DEF FilesNext

LEMMA ContractInit ==
    ASSUME FilesInit PROVE ContractInv /\ FilesRegistry!Init
<1>1. /\ file["lease"] = Absent /\ file["fence"] = Absent /\ granted = 0 /\ task_clock = 0
      /\ \A p \in Task : task_pc[p] = "idle"
  BY DEF FilesInit, Name
<1>2. FenceKept /\ LeaseBound
  BY <1>1, ContentKinds DEF FenceKept, LeaseBound, ReadFence
<1>3. Alone /\ \A p \in Task : Underway(p)
  BY <1>1 DEF Alone, Underway
<1>4. Lease = [s \in {"slug"} |-> Absent]
  BY <1>1 DEF Lease, Absent
<1>5. FilesRegistry!Init
  BY <1>1, <1>4 DEF FilesRegistry!Init
<1> QED
  BY <1>2, <1>3, <1>5 DEF ContractInv

\* The files of one process keep the contract of the protocol LockRegistry, as
\* the tables of the SQLite registry do, although every call is several file
\* operations and a crash may come between any two of them: no live lease goes
\* to another task or is shortened, and every grant carries a token higher than
\* all before it (MarkdownLockRegistry).
THEOREM FilesKeepContract ==
    ASSUME FileTTL \in Nat, OneProcess PROVE FilesSpec => FilesRegistrySpec
<1>1. FilesInit => FilesInv /\ ContractInv /\ FilesRegistry!Init
  BY FilesInvInit, ContractInit
<1>2. (FilesInv /\ ContractInv) /\ [FilesNext]_filesVars =>
        (FilesInv /\ ContractInv)' /\ [FilesRegistry!Next]_FilesRegistry!regVars
  BY FilesInvStep, ContractStep DEF Contract
<1> QED
  BY <1>1, <1>2, PTL DEF FilesSpec, FilesRegistrySpec, FilesRegistry!Spec

=============================================================================
