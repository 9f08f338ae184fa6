-------------------------- MODULE NeighborhoodLock --------------------------
(***************************************************************************)
(* The neighborhood lock of memu/neighborhood_lock.py over its SQLite      *)
(* registry.  A context is one use of "async with NeighborhoodLock(...)":  *)
(* it takes a slug and its neighbors one by one, runs its body beside a    *)
(* renewer task, and releases what it took.                                *)
(*                                                                         *)
(* All contexts live in one process.  Every registry method runs without a *)
(* suspension point under one asyncio lock, so it is one step; the tasks   *)
(* interleave between the calls.  Nothing is assumed of the scheduling: a  *)
(* busy event loop may wake the renewer after the lease has expired.       *)
(***************************************************************************)
EXTENDS Integers, Sequences

CONSTANTS
    Context,    \* the NeighborhoodLock objects
    Slug,
    Holder,     \* holder ids
    HolderId,   \* [Context -> Holder]: holder_id
    Rank,       \* [Slug -> Nat]: the order sorted() puts slugs in
    Root,       \* [Context -> Slug]: slug
    Targets,    \* [Context -> Seq(Slug)]: [slug] + sorted(neighbors)
    TTL,        \* ttl_s, in ticks
    MaxTime,    \* bound: the last instant
    MaxEnter,   \* bound: how often one context is entered
    NoLock

ASSUME HolderAssumption == HolderId \in [Context -> Holder]

\* The root comes first; the neighbors follow in order, without the root.
ASSUME TargetsAssumption ==
    /\ Rank \in [Slug -> Nat]
    /\ Root \in [Context -> Slug]
    /\ Targets \in [Context -> Seq(Slug)]
    /\ \A c \in Context :
          /\ Targets[c] # <<>> /\ Targets[c][1] = Root[c]
          /\ \A i, j \in 2 .. Len(Targets[c]) :
                /\ Targets[c][i] # Root[c]
                /\ i <= j => Rank[Targets[c][i]] <= Rank[Targets[c][j]]

ASSUME TTLAssumption == TTL \in Nat \ {0}
ASSUME BoundAssumption == MaxTime \in Nat /\ MaxEnter \in Nat

VARIABLES
    locks,      \* table neighborhood_locks
    fence,      \* table neighborhood_fence_tokens, 0 where there is no row
    clock,
    pc,         \* where a context's own task is
    pos,        \* the record its release loop is at
    records,    \* the locks acquired so far, then self.records
    renewer,    \* where its renewer task is
    rpos,       \* the record the renewer is at
    entered,    \* how often the context was entered
    leaked      \* history: slugs whose row a release that failed, or did not
                \* come about, has left behind

regVars == <<locks, fence, clock>>
vars == <<locks, fence, clock, pc, pos, records, renewer, rpos, entered,
          leaked>>

Row == [holder_id : Holder, fencing_token : Nat, expires_at : Nat]
LockRecord == [slug : Slug, fencing_token : Nat]

ASSUME NullAssumption == NoLock \notin Row

Control == {"idle", "acquire", "rollback", "body", "exit", "crashed"}
Holding == {"acquire", "body"}

-----------------------------------------------------------------------------
(* SqliteLockRegistry                                                       *)

Live(s) == locks[s] # NoLock /\ locks[s].expires_at > clock

\* The row of slug s is the one this record was given for.
Matches(c, rec) ==
    /\ locks[rec.slug] # NoLock
    /\ locks[rec.slug].holder_id = HolderId[c]
    /\ locks[rec.slug].fencing_token = rec.fencing_token

\* Mutant: the fence is set back when a lease is reclaimed.
BumpFenceReset(s) == IF locks[s] = NoLock THEN fence[s] + 1 ELSE 1

\* _bump_fence
BumpFence(s) == fence[s] + 1

\* Mutant: the expiry is compared the wrong way round by one tick.
TryAcquireEarly(c, s) ==
    /\ locks[s] # NoLock => locks[s].expires_at <= clock + 1
    /\ fence' = [fence EXCEPT ![s] = BumpFence(s)]
    /\ locks' = [locks EXCEPT ![s] =
          [holder_id |-> HolderId[c], fencing_token |-> BumpFence(s),
           expires_at |-> clock + TTL]]
    /\ records' = [records EXCEPT ![c] =
          Append(@, [slug |-> s, fencing_token |-> BumpFence(s)])]

\* The part of try_acquire that writes: an expired row is replaced.
TryAcquire(c, s) ==
    /\ ~Live(s)
    /\ fence' = [fence EXCEPT ![s] = BumpFence(s)]
    /\ locks' = [locks EXCEPT ![s] =
          [holder_id |-> HolderId[c], fencing_token |-> BumpFence(s),
           expires_at |-> clock + TTL]]
    /\ records' = [records EXCEPT ![c] =
          Append(@, [slug |-> s, fencing_token |-> BumpFence(s)])]

\* renew extends a lease of the caller, expired or not.
RegistryRenew(c, rec) ==
    /\ Matches(c, rec)
    /\ locks' = [locks EXCEPT ![rec.slug].expires_at = clock + TTL]

\* release deletes the row if it is the caller's, and does nothing otherwise.
RegistryRelease(c, rec) ==
    locks' = IF Matches(c, rec) THEN [locks EXCEPT ![rec.slug] = NoLock]
             ELSE locks

-----------------------------------------------------------------------------
(* The context manager                                                      *)

Init ==
    /\ locks = [s \in Slug |-> NoLock]
    /\ fence = [s \in Slug |-> 0]
    /\ clock = 0
    /\ pc = [c \in Context |-> "idle"]
    /\ pos = [c \in Context |-> 1]
    /\ records = [c \in Context |-> <<>>]
    /\ renewer = [c \in Context |-> "off"]
    /\ rpos = [c \in Context |-> 1]
    /\ entered = [c \in Context |-> 0]
    /\ leaked = {}

Enter(c) ==
    /\ pc[c] = "idle" /\ entered[c] < MaxEnter
    /\ pc' = [pc EXCEPT ![c] = "acquire"]
    /\ entered' = [entered EXCEPT ![c] = @ + 1]
    /\ UNCHANGED <<regVars, pos, records, renewer, rpos, leaked>>

\* One turn of the loop of __aenter__.  After the last slug the renewer is
\* started and the body runs.
AcquireNext(c) ==
    /\ pc[c] = "acquire"
    /\ LET s == Targets[c][Len(records[c]) + 1] IN
       /\ TryAcquire(c, s)
       /\ leaked' = leaked \ {s}
    /\ IF Len(records'[c]) = Len(Targets[c])
       THEN /\ pc' = [pc EXCEPT ![c] = "body"]
            /\ renewer' = [renewer EXCEPT ![c] = "sleep"]
       ELSE UNCHANGED <<pc, renewer>>
    /\ UNCHANGED <<clock, pos, rpos, entered>>

\* Mutant: a failed acquisition leaves without the rollback.
RollbackSkipped(c) ==
    /\ pc' = [pc EXCEPT ![c] = "idle"]
    /\ records' = [records EXCEPT ![c] = <<>>]
    /\ pos' = [pos EXCEPT ![c] = 1]

\* A failed acquisition releases what it took so far.
Rollback(c) ==
    /\ pc' = [pc EXCEPT ![c] = IF records[c] = <<>> THEN "idle" ELSE "rollback"]
    /\ pos' = [pos EXCEPT ![c] = 1]
    /\ UNCHANGED records

\* try_acquire raises NeighborhoodConflict; or an error of the database, or a
\* cancellation while it waits for the registry, is raised instead.
AcquireFails(c, raised) ==
    /\ pc[c] = "acquire"
    /\ raised \/ Live(Targets[c][Len(records[c]) + 1])
    /\ Rollback(c)
    /\ UNCHANGED <<regVars, renewer, rpos, entered, leaked>>

\* The body ends: the renewer is cancelled, then the records are released.
Leave(c) ==
    /\ pc[c] = "body"
    /\ pc' = [pc EXCEPT ![c] = "exit"]
    /\ pos' = [pos EXCEPT ![c] = 1]
    /\ renewer' = [renewer EXCEPT ![c] = "off"]
    /\ rpos' = [rpos EXCEPT ![c] = 1]
    /\ UNCHANGED <<regVars, records, entered, leaked>>

\* The slugs of those of the records i of context c whose row is still its own.
OwnRows(c, i) ==
    {records[c][j].slug : j \in {k \in i .. Len(records[c]) : Matches(c, records[c][k])}}

\* One turn of a release loop, of __aexit__ or of the rollback.  If release
\* raises (the database is locked, say), the row stays, the exception is
\* logged, and the loop goes on with the next record.
ReleaseNext(c) ==
    /\ pc[c] \in {"exit", "rollback"}
    /\ LET rec == records[c][pos[c]] IN
       \/ RegistryRelease(c, rec) /\ UNCHANGED leaked
       \/ /\ leaked' = leaked \cup (IF Matches(c, rec) THEN {rec.slug} ELSE {})
          /\ UNCHANGED locks
    /\ IF pos[c] = Len(records[c])
       THEN /\ pc' = [pc EXCEPT ![c] = "idle"]
            /\ pos' = [pos EXCEPT ![c] = 1]
            /\ records' = [records EXCEPT ![c] = <<>>]
       ELSE /\ pos' = [pos EXCEPT ![c] = @ + 1]
            /\ UNCHANGED <<pc, records>>
    /\ UNCHANGED <<fence, clock, renewer, rpos, entered>>

\* A cancellation while a release waits for the registry is no Exception: it
\* leaves the loop, and this record and the rest are not released.
ReleaseCut(c) ==
    /\ pc[c] \in {"exit", "rollback"}
    /\ pc' = [pc EXCEPT ![c] = "idle"]
    /\ pos' = [pos EXCEPT ![c] = 1]
    /\ records' = [records EXCEPT ![c] = <<>>]
    /\ leaked' = leaked \cup OwnRows(c, pos[c])
    /\ UNCHANGED <<regVars, renewer, rpos, entered>>

RenewWake(c) ==
    /\ renewer[c] = "sleep"
    /\ renewer' = [renewer EXCEPT ![c] = "renew"]
    /\ UNCHANGED <<regVars, pc, pos, records, rpos, entered, leaked>>

\* One turn of the inner loop of _renew_loop.
RenewNext(c) ==
    /\ renewer[c] = "renew"
    /\ RegistryRenew(c, records[c][rpos[c]])
    /\ LET last == rpos[c] = Len(records[c]) IN
       /\ renewer' = [renewer EXCEPT ![c] = IF last THEN "sleep" ELSE @]
       /\ rpos' = [rpos EXCEPT ![c] = IF last THEN 1 ELSE @ + 1]
    /\ UNCHANGED <<fence, clock, pc, pos, records, entered, leaked>>

\* renew raises, because the row is no longer the caller's or with an error of
\* the database: the renewer task ends either way, and the body goes on.
RenewLost(c) ==
    /\ renewer[c] = "renew"
    /\ renewer' = [renewer EXCEPT ![c] = "off"]
    /\ rpos' = [rpos EXCEPT ![c] = 1]
    /\ UNCHANGED <<regVars, pc, pos, records, entered, leaked>>

\* The process dies with every context in it.  Contexts entered later are
\* those of its successor.
Crash ==
    /\ pc' = [c \in Context |-> IF pc[c] = "idle" THEN "idle" ELSE "crashed"]
    /\ records' = [c \in Context |-> <<>>]
    /\ pos' = [c \in Context |-> 1]
    /\ renewer' = [c \in Context |-> "off"]
    /\ rpos' = [c \in Context |-> 1]
    /\ UNCHANGED <<regVars, entered, leaked>>

Tick ==
    /\ clock < MaxTime
    /\ clock' = clock + 1
    /\ UNCHANGED <<locks, fence, pc, pos, records, renewer, rpos, entered, leaked>>

-----------------------------------------------------------------------------
ContextStep(c) ==
    \/ Enter(c) \/ AcquireNext(c) \/ Leave(c) \/ ReleaseNext(c) \/ ReleaseCut(c)
    \/ \E raised \in BOOLEAN : AcquireFails(c, raised)
    \/ RenewWake(c) \/ RenewNext(c) \/ RenewLost(c)

Next == (\E c \in Context : ContextStep(c)) \/ Crash \/ Tick

Spec == Init /\ [][Next]_vars

-----------------------------------------------------------------------------
(* Properties                                                               *)

\* Rows, records and contexts have the shape of the two tables and of
\* LockRecord; no expiry lies before the epoch.
TypeOK ==
    /\ locks \in [Slug -> Row \cup {NoLock}]
    /\ fence \in [Slug -> Nat]
    /\ clock \in Nat
    /\ pc \in [Context -> Control]
    /\ pos \in [Context -> Nat \ {0}]
    /\ records \in [Context -> Seq(LockRecord)]
    /\ renewer \in [Context -> {"off", "sleep", "renew"}]
    /\ rpos \in [Context -> Nat \ {0}]
    /\ entered \in [Context -> Nat]
    /\ leaked \in SUBSET Slug

\* "Any resumed writer is detectably stale" (try_acquire): a context that
\* believes it holds a slug either does, or a higher fencing token has been
\* handed out since; so of all the contexts inside one slug's lock at most one
\* carries the current token.
HeldOrFenced ==
    \A c \in Context : pc[c] \in Holding =>
        \A i \in 1 .. Len(records[c]) :
            \/ Matches(c, records[c][i])
            \/ records[c][i].fencing_token < fence[records[c][i].slug]

\* "Callers never leak partial leases" (NeighborhoodLock), as far as it is
\* true: unless its process died, a holder without a context in progress holds
\* a slug only if the very release of that slug raised or a cancellation came
\* before it.  An acquisition that fails half-way, and a release that fails
\* for another slug, leave nothing behind.
NoLeak ==
    \A h \in Holder :
        (\A c \in Context : HolderId[c] = h => pc[c] = "idle")
        => \A s \in Slug \ leaked : locks[s] # NoLock => locks[s].holder_id # h

\* The SQLite registry, used by contexts in any interleaving, keeps what the
\* protocol LockRegistry promises.
Registry == INSTANCE LeaseRegistry WITH lease <- locks, NoLease <- NoLock
RegistrySpec == Registry!Spec

=============================================================================
