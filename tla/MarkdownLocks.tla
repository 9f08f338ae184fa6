--------------------------- MODULE MarkdownLocks ---------------------------
(***************************************************************************)
(* MarkdownLockRegistry of memu/neighborhood_lock.py: the lock of one slug *)
(* kept in sidecar files of the vault, <slug>.json for the lease and       *)
(* _fence/<slug> for the fencing counter.  (The slugs of a vault share no  *)
(* file, so one slug stands for all.)                                      *)
(*                                                                         *)
(* The asyncio lock of a registry keeps the calls of one process apart;    *)
(* processes are kept apart by the file system only.  So a process does    *)
(* one call at a time, and every file operation is a step.  An open file   *)
(* follows its name: a task goes on writing to the file it has opened when *)
(* another process renames or removes it.                                  *)
(***************************************************************************)
EXTENDS Integers

CONSTANTS
    Task,       \* callers of the registry: tasks of the processes
    ProcessOf,  \* [Task -> process]
    FileTTL,    \* ttl_s, in ticks
    MaxInstant, \* bound: the last instant
    MaxCalls    \* bound: try_acquire calls of one task

\* Names in .memu/locks, with the sibling that _atomic_write uses.
Name == {"lease", "lease.tmp", "fence", "fence.tmp"}

Torn == [kind |-> "torn"]     \* created or truncated, and not yet written
Absent == [kind |-> "absent"]
NoRecord == [fencing_token |-> 0, expires_at |-> 0]

VARIABLES
    file,       \* [Name -> content]
    fd,         \* the name a task's open file has, "gone" if it was removed
    task_pc,    \* where a task is in its call
    now,        \* the clock it read
    new_token,  \* the token it took from the fence
    record,     \* the LockRecord it was given, NoRecord if none
    calls,
    task_clock,
    granted,    \* history: the token of the last grant
    expired     \* history: the lease file has outlived its expires_at

taskVars == <<fd, task_pc, now, new_token, record, calls>>
filesVars == <<file, fd, task_pc, now, new_token, record, calls, task_clock,
               granted, expired>>

Payload(p, token, exp) ==
    [kind |-> "lease", holder_id |-> p, fencing_token |-> token,
     expires_at |-> exp]

Count(token) == [kind |-> "fence", token |-> token]

-----------------------------------------------------------------------------
(* The file system                                                          *)

\* Every change of the files or the clock keeps the history of expiry.
Set(f, t) ==
    /\ file' = f
    /\ task_clock' = t
    /\ expired' = (expired \/ (f["lease"].kind = "lease"
                               /\ f["lease"].expires_at <= t))

\* What becomes of open files when name m goes to n, or away.
Moved(m, n) ==
    [p \in Task |-> IF fd[p] = m THEN n ELSE IF fd[p] = n THEN "gone" ELSE fd[p]]

\* open(n, "w"): create the file, or empty the one that is there.
OpenTruncate(p, n) ==
    /\ Set([file EXCEPT ![n] = Torn], task_clock)
    /\ fd' = [fd EXCEPT ![p] = n]

WriteClose(p, content) ==
    /\ Set(IF fd[p] \in Name THEN [file EXCEPT ![fd[p]] = content] ELSE file,
           task_clock)
    /\ fd' = [fd EXCEPT ![p] = "none"]

Replace(tmp, n) ==
    /\ Set([file EXCEPT ![n] = file[tmp], ![tmp] = Absent], task_clock)
    /\ fd' = Moved(tmp, n)

Unlink(n) ==
    /\ Set([file EXCEPT ![n] = Absent], task_clock)
    /\ fd' = Moved(n, "gone")

NoFileChange == UNCHANGED <<file, fd, task_clock, expired>>

-----------------------------------------------------------------------------
(* Helpers of the registry                                                  *)

\* _read_fence: a missing or unreadable counter counts as 0.
ReadFence == IF file["fence"].kind = "fence" THEN file["fence"].token ELSE 0

\* The lease file names this task and the token it was granted.
OwnLease(p) ==
    /\ file["lease"].kind = "lease"
    /\ file["lease"].holder_id = p
    /\ file["lease"].fencing_token = record[p].fencing_token

\* self._mu is free.
CallFree(p) ==
    \A q \in Task : ProcessOf[q] = ProcessOf[p] => task_pc[q] = "idle"

Goto(p, where) == task_pc' = [task_pc EXCEPT ![p] = where]

\* The call ends, by an exception or with a result; its locals are gone.
Done(p) ==
    /\ Goto(p, "idle")
    /\ now' = [now EXCEPT ![p] = 0]
    /\ new_token' = [new_token EXCEPT ![p] = 0]

FilesInit ==
    /\ file = [n \in Name |-> Absent]
    /\ fd = [p \in Task |-> "none"]
    /\ task_pc = [p \in Task |-> "idle"]
    /\ now = [p \in Task |-> 0]
    /\ new_token = [p \in Task |-> 0]
    /\ record = [p \in Task |-> NoRecord]
    /\ calls = [p \in Task |-> 0]
    /\ task_clock = 0
    /\ granted = 0
    /\ expired = FALSE

-----------------------------------------------------------------------------
(* try_acquire                                                              *)

TryAcquireFile(p) ==
    /\ CallFree(p) /\ record[p] = NoRecord /\ calls[p] < MaxCalls
    /\ calls' = [calls EXCEPT ![p] = @ + 1]
    /\ now' = [now EXCEPT ![p] = task_clock]
    /\ Goto(p, "read")
    /\ NoFileChange
    /\ UNCHANGED <<new_token, record, granted>>

\* A missing or unreadable lease file counts as no lease.
ReadLease(p) ==
    /\ task_pc[p] = "read"
    /\ LET found == file["lease"] IN
       \/ /\ found.kind # "lease"
          /\ Goto(p, "fence.read") /\ UNCHANGED <<now, new_token>>
       \/ /\ found.kind = "lease" /\ found.expires_at > now[p]
          /\ Done(p)
       \/ /\ found.kind = "lease" /\ found.expires_at <= now[p]
          /\ Goto(p, "unlink") /\ UNCHANGED <<now, new_token>>
    /\ NoFileChange
    /\ UNCHANGED <<record, calls, granted>>

\* Whatever file has the name by now goes.
UnlinkExpired(p) ==
    /\ task_pc[p] = "unlink"
    /\ Unlink("lease")
    /\ Goto(p, "fence.read")
    /\ UNCHANGED <<now, new_token, record, calls, granted>>

\* _bump_fence, and in it _atomic_write
BumpRead(p) ==
    /\ task_pc[p] = "fence.read"
    /\ new_token' = [new_token EXCEPT ![p] = ReadFence + 1]
    /\ Goto(p, "fence.open")
    /\ NoFileChange
    /\ UNCHANGED <<now, record, calls, granted>>

BumpOpen(p) ==
    /\ task_pc[p] = "fence.open"
    /\ OpenTruncate(p, "fence.tmp")
    /\ Goto(p, "fence.write")
    /\ UNCHANGED <<now, new_token, record, calls, granted>>

\* Mutant: the counter is written back without the increment.
BumpWriteSame(p) ==
    /\ task_pc[p] = "fence.write"
    /\ WriteClose(p, Count(new_token[p] - 1))
    /\ Goto(p, "fence.replace")
    /\ UNCHANGED <<now, new_token, record, calls, granted>>

BumpWrite(p) ==
    /\ task_pc[p] = "fence.write"
    /\ WriteClose(p, Count(new_token[p]))
    /\ Goto(p, "fence.replace")
    /\ UNCHANGED <<now, new_token, record, calls, granted>>

\* If another process has renamed the temporary file, os.replace raises.
BumpReplace(p) ==
    /\ task_pc[p] = "fence.replace"
    /\ \/ /\ file["fence.tmp"] # Absent
          /\ Replace("fence.tmp", "fence")
          /\ Goto(p, "create") /\ UNCHANGED <<now, new_token>>
       \/ /\ file["fence.tmp"] = Absent
          /\ NoFileChange
          /\ Done(p)
    /\ UNCHANGED <<record, calls, granted>>

\* Mutant: open without O_EXCL.
CreateAny(p) ==
    /\ task_pc[p] = "create"
    /\ OpenTruncate(p, "lease")
    /\ Goto(p, "write")
    /\ UNCHANGED <<now, new_token, record, calls, granted>>

\* os.open with O_CREAT | O_EXCL
Create(p) ==
    /\ task_pc[p] = "create"
    /\ \/ /\ file["lease"] = Absent
          /\ OpenTruncate(p, "lease")
          /\ Goto(p, "write") /\ UNCHANGED <<now, new_token>>
       \/ /\ file["lease"] # Absent
          /\ NoFileChange
          /\ Done(p)
    /\ UNCHANGED <<record, calls, granted>>

\* os.write, os.close: the lease is granted.
WriteLease(p) ==
    /\ task_pc[p] = "write"
    /\ WriteClose(p, Payload(p, new_token[p], now[p] + FileTTL))
    /\ record' = [record EXCEPT ![p] = [fencing_token |-> new_token[p],
                                        expires_at |-> now[p] + FileTTL]]
    /\ granted' = new_token[p]
    /\ Done(p)
    /\ UNCHANGED calls

-----------------------------------------------------------------------------
(* renew                                                                    *)

\* _assert_fence_matches.  A renewal that raises changes nothing: the holder
\* keeps its record until it releases.
Renew(p) ==
    /\ CallFree(p) /\ record[p] # NoRecord
    /\ ReadFence = record[p].fencing_token
    /\ Goto(p, "renew.read")
    /\ NoFileChange
    /\ UNCHANGED <<now, new_token, record, calls, granted>>

RenewRead(p) ==
    /\ task_pc[p] = "renew.read"
    /\ \/ /\ OwnLease(p)
          /\ now' = [now EXCEPT ![p] = task_clock]
          /\ Goto(p, "renew.open") /\ UNCHANGED new_token
       \/ ~OwnLease(p) /\ Done(p)
    /\ NoFileChange
    /\ UNCHANGED <<record, calls, granted>>

RenewOpen(p) ==
    /\ task_pc[p] = "renew.open"
    /\ OpenTruncate(p, "lease.tmp")
    /\ Goto(p, "renew.write")
    /\ UNCHANGED <<now, new_token, record, calls, granted>>

RenewWrite(p) ==
    /\ task_pc[p] = "renew.write"
    /\ WriteClose(p, Payload(p, record[p].fencing_token, now[p] + FileTTL))
    /\ Goto(p, "renew.replace")
    /\ UNCHANGED <<now, new_token, record, calls, granted>>

RenewReplace(p) ==
    /\ task_pc[p] = "renew.replace"
    /\ \/ /\ file["lease.tmp"] # Absent
          /\ Replace("lease.tmp", "lease")
          /\ record' = [record EXCEPT ![p].expires_at = now[p] + FileTTL]
       \/ /\ file["lease.tmp"] = Absent
          /\ NoFileChange
          /\ UNCHANGED record
    /\ Done(p)
    /\ UNCHANGED <<calls, granted>>

-----------------------------------------------------------------------------
(* release                                                                  *)

\* The caller forgets its record, whatever release returns.
GiveUp(p) ==
    /\ record' = [record EXCEPT ![p] = NoRecord]
    /\ Goto(p, "idle")

Release(p) ==
    /\ CallFree(p) /\ record[p] # NoRecord
    /\ \/ OwnLease(p) /\ Goto(p, "release.fence") /\ UNCHANGED record
       \/ ~OwnLease(p) /\ GiveUp(p)
    /\ NoFileChange
    /\ UNCHANGED <<now, new_token, calls, granted>>

ReleaseFence(p) ==
    /\ task_pc[p] = "release.fence"
    /\ \/ /\ ReadFence = record[p].fencing_token
          /\ Goto(p, "release.unlink") /\ UNCHANGED record
       \/ ReadFence # record[p].fencing_token /\ GiveUp(p)
    /\ NoFileChange
    /\ UNCHANGED <<now, new_token, calls, granted>>

ReleaseUnlink(p) ==
    /\ task_pc[p] = "release.unlink"
    /\ Unlink("lease")
    /\ GiveUp(p)
    /\ UNCHANGED <<now, new_token, calls, granted>>

-----------------------------------------------------------------------------
\* A process dies, and its tasks come back with nothing in memory.
ProcessDies(p) ==
    LET Reset(f, v) ==
            [q \in Task |-> IF ProcessOf[q] = ProcessOf[p] THEN v ELSE f[q]]
    IN /\ task_pc[p] # "idle" \/ record[p] # NoRecord
       /\ record' = Reset(record, NoRecord)
       /\ fd' = Reset(fd, "none")
       /\ task_pc' = Reset(task_pc, "idle")
       /\ now' = Reset(now, 0)
       /\ new_token' = Reset(new_token, 0)
       /\ UNCHANGED <<file, calls, task_clock, granted, expired>>

FilesTick ==
    /\ task_clock < MaxInstant
    /\ Set(file, task_clock + 1)
    /\ UNCHANGED <<taskVars, granted>>

Acquiring(p) ==
    \/ TryAcquireFile(p) \/ ReadLease(p) \/ UnlinkExpired(p) \/ BumpRead(p)
    \/ BumpOpen(p) \/ BumpWrite(p) \/ BumpReplace(p) \/ Create(p) \/ WriteLease(p)

Renewing(p) ==
    \/ Renew(p) \/ RenewRead(p) \/ RenewOpen(p) \/ RenewWrite(p)
    \/ RenewReplace(p)

Releasing(p) == Release(p) \/ ReleaseFence(p) \/ ReleaseUnlink(p)

FilesNext ==
    \/ \E p \in Task :
          Acquiring(p) \/ Renewing(p) \/ Releasing(p) \/ ProcessDies(p)
    \/ FilesTick

FilesSpec == FilesInit /\ [][FilesNext]_filesVars

-----------------------------------------------------------------------------
(* Properties                                                               *)

\* As long as no lease file has outlived its expires_at, O_EXCL keeps two
\* tasks, of one process or of two, from holding the slug at once, whatever
\* they read while the other one was writing (MarkdownLockRegistry).
ExclusiveUntilExpiry ==
    ~expired => \A p, q \in Task :
        record[p] # NoRecord /\ record[q] # NoRecord => p = q

\* With one process, crashes in the middle of calls included, the files keep
\* what the protocol LockRegistry promises.
Lease == [s \in {"slug"} |->
             IF file["lease"].kind = "lease" THEN file["lease"] ELSE Absent]
FilesRegistry == INSTANCE LeaseRegistry
                 WITH Slug <- {"slug"}, NoLease <- Absent, lease <- Lease,
                      fence <- [s \in {"slug"} |-> granted], clock <- task_clock
FilesRegistrySpec == FilesRegistry!Spec

=============================================================================
