------------------------------ MODULE CoreMemory ------------------------------
(* The Working_Context block of one agent: a key of a NATS KV bucket written *)
(* by compare-and-set (core_memory.py), the pager that moves its oldest      *)
(* paragraphs to the archive and back (archival_pager.py), and the workers   *)
(* that replace a block whole.  A block is a sequence of paragraphs, one     *)
(* token each.                                                               *)
EXTENDS Naturals, SequencesExt, FiniteSets

CONSTANTS
    Caller,         \* concurrent calls
    Paragraph,
    Limit,          \* token limit of the block
    Threshold,      \* tokens above which the pager evicts
    Batch,          \* EVICTION_BATCH_SIZE
    MaxCasRetries,  \* MAX_CAS_RETRIES
    MaxCalls        \* bound: calls made

VARIABLES
    kv,             \* the key: revision (0: absent) and content
    sequence,       \* last sequence of the bucket's stream
    archive,        \* paragraphs in the memories table
    call,           \* the call each caller is in
    calls,          \* calls made so far
    written,        \* history: paragraphs that were in the block
    excused         \* history: paragraphs that left it for a reason of the code

coreVars == <<kv, sequence, archive, call, calls, written, excused>>

Kind == {"update", "append", "replace", "evict", "page", "bootstrap"}
At == {"idle", "read", "archive", "write", "refetch"}

Idle == [at |-> "idle", kind |-> "update", revision |-> 0, attempt |-> 1,
         seen |-> <<>>, text |-> <<>>, old |-> <<>>, evict |-> <<>>]

Call == [at : At, kind : Kind, revision : Nat, attempt : 1 .. MaxCasRetries,
         seen : Seq(Paragraph), text : Seq(Paragraph), old : Seq(Paragraph),
         evict : Seq(Paragraph)]

CoreTypeOK ==
    /\ sequence \in Nat
    /\ kv \in [revision : 0 .. sequence, content : Seq(Paragraph)]
    /\ kv.revision = 0 => kv.content = <<>>
    /\ archive \subseteq Paragraph
    /\ call \in [Caller -> Call]
    /\ calls \in 0 .. MaxCalls
    /\ written \subseteq Paragraph /\ excused \subseteq written

CoreInit ==
    /\ kv = [revision |-> 0, content |-> <<>>] /\ sequence = 0
    /\ archive = {}
    /\ call = [c \in Caller |-> Idle] /\ calls = 0
    /\ written = {} /\ excused = {}

Begin(c, with) ==
    /\ call[c].at = "idle" /\ calls < MaxCalls
    /\ calls' = calls + 1
    /\ call' = [call EXCEPT ![c] = with]
    /\ UNCHANGED <<kv, sequence, archive, written, excused>>

\* A paragraph nobody has used yet.
Fresh(p) == p \notin written /\ \A c \in Caller : p \notin Range(call[c].text)

\* update_block with content the caller made of what it read, or with the
\* default expected revision of a caller that read nothing.  What the firewall,
\* the write permissions or the token limit refuse changes nothing.
UpdateBlock(c, p, informed) ==
    /\ Fresh(p)
    /\ Begin(c, [Idle EXCEPT !.at = "write", !.kind = "update", !.text = <<p>>,
                             !.revision = IF informed THEN kv.revision ELSE 0,
                             !.seen = IF informed THEN kv.content ELSE <<>>])

AppendBlock(c, p) ==
    /\ Fresh(p)
    /\ Begin(c, [Idle EXCEPT !.at = "read", !.kind = "append", !.text = <<p>>])

ReplaceInBlock(c, old, p) ==
    /\ Fresh(p) /\ old \in written
    /\ Begin(c, [Idle EXCEPT !.at = "read", !.kind = "replace",
                             !.old = <<old>>, !.text = <<p>>])

\* bootstrap_agent, for this block: created empty unless it exists.
BootstrapAgent(c) ==
    /\ kv.revision = 0
    /\ Begin(c, [Idle EXCEPT !.at = "write", !.kind = "bootstrap"])

\* context_to_archival reads the block; below the threshold, or with a single
\* paragraph, it does nothing.
ContextToArchival(c) ==
    LET n == Len(kv.content)
    IN  /\ n > Threshold /\ n > 1
        /\ Begin(c, [Idle EXCEPT
                !.at = "archive", !.kind = "evict", !.revision = kv.revision,
                !.seen = kv.content,
                !.evict = SubSeq(kv.content, 1, IF n < Batch THEN n ELSE Batch),
                !.text = SubSeq(kv.content, Batch + 1, n)])

\* page_from_archival: what the search found and fits goes back by append_block.
PageFromArchival(c, p) ==
    /\ p \in archive /\ Len(kv.content) + 1 <= Limit
    /\ Begin(c, [Idle EXCEPT !.at = "read", !.kind = "page", !.text = <<p>>])

\* delete_agent purges the key.
DeleteAgent ==
    /\ calls < MaxCalls /\ kv.revision # 0
    /\ calls' = calls + 1
    /\ kv' = [revision |-> 0, content |-> <<>>]
    /\ sequence' = sequence + 1
    /\ excused' = excused \cup Range(kv.content)
    /\ UNCHANGED <<archive, call, written>>

\* One INSERT of the eviction; a failure is logged and the loop goes on.
ArchiveOne(c) ==
    /\ call[c].at = "archive"
    /\ LET p == Head(call[c].evict) IN
         \/ archive' = archive \cup {p} /\ UNCHANGED excused
         \/ excused' = excused \cup {p} /\ UNCHANGED archive
    /\ call' = [call EXCEPT ![c].evict = Tail(@),
                            ![c].at = IF Len(call[c].evict) = 1 THEN "write" ELSE "archive"]
    /\ UNCHANGED <<kv, sequence, calls, written>>

ReplaceFirst(s, old, new) ==
    LET i == CHOOSE i \in DOMAIN s : s[i] = old /\ \A j \in 1 .. i - 1 : s[j] # old
    IN  [s EXCEPT ![i] = new]

\* The read of append_block and replace_in_block, at the start of every
\* attempt; a text not found, a missing block or the token limit ends the call.
ReadBlock(c) ==
    LET k == call[c]
        found == k.kind # "replace" \/ k.old[1] \in Range(kv.content)
        content == IF k.kind = "replace" THEN ReplaceFirst(kv.content, k.old[1], k.text[1])
                   ELSE kv.content \o k.text
    IN  /\ k.at = "read"
        /\ call' = [call EXCEPT ![c] =
             IF found /\ Len(content) <= Limit
             THEN [k EXCEPT !.at = "write", !.revision = kv.revision, !.seen = content]
             ELSE Idle]
        /\ UNCHANGED <<kv, sequence, archive, calls, written, excused>>

Whole == {"update", "evict", "bootstrap"}

Content(k) == IF k.kind \in Whole THEN k.text ELSE k.seen

\* The paragraphs that a write takes out of the block and that the code gives
\* up: what the caller had read and replaces, and whatever else is there when
\* a full replacement is retried after a conflict.
GivenUp(k) ==
    LET gone == Range(kv.content) \ Range(Content(k))
    IN  CASE k.kind = "update" -> IF k.attempt > 1 THEN gone ELSE gone \cap Range(k.seen)
          [] k.kind = "evict" -> IF k.attempt > 1 THEN gone \ Range(k.seen) ELSE {}
          [] k.kind = "replace" -> gone \cap Range(k.old)
          [] OTHER -> {}

\* Mutant: the write does not compare revisions.
MatchesAny(k) == TRUE

\* kv.create when no revision is expected, kv.update otherwise.
Matches(k) == k.revision = kv.revision

WriteBlock(c) ==
    /\ call[c].at = "write" /\ Matches(call[c])
    /\ sequence' = sequence + 1
    /\ kv' = [revision |-> sequence + 1, content |-> Content(call[c])]
    /\ written' = written \cup Range(Content(call[c]))
    /\ excused' = excused \cup GivenUp(call[c])
    /\ call' = [call EXCEPT ![c] = Idle]
    /\ UNCHANGED <<archive, calls>>

\* Mutant: append_block keeps its content and refreshes only the revision.
ConflictOnlyRefetches(c) ==
    LET k == call[c]
    IN  /\ k.at = "write" /\ ~Matches(k)
        /\ call' = [call EXCEPT ![c] =
             IF k.attempt = MaxCasRetries \/ k.kind = "bootstrap" THEN Idle
             ELSE [k EXCEPT !.attempt = @ + 1, !.at = "refetch"]]
        /\ UNCHANGED <<kv, sequence, archive, calls, written, excused>>

\* Mutant: the attempts of a conflicting write are counted one short.
ConflictOnceMore(c) ==
    LET k == call[c]
    IN  /\ k.at = "write" /\ ~Matches(k)
        /\ call' = [call EXCEPT ![c] =
             IF k.attempt > MaxCasRetries \/ k.kind = "bootstrap" THEN Idle
             ELSE [k EXCEPT !.attempt = @ + 1, !.at = "refetch"]]
        /\ UNCHANGED <<kv, sequence, archive, calls, written, excused>>

\* A conflict: backoff and another attempt, or MemoryConcurrencyError; the
\* create of bootstrap_agent is not repeated.
Conflict(c) ==
    LET k == call[c]
    IN  /\ k.at = "write" /\ ~Matches(k)
        /\ call' = [call EXCEPT ![c] =
             IF k.attempt = MaxCasRetries \/ k.kind = "bootstrap" THEN Idle
             ELSE [k EXCEPT !.attempt = @ + 1,
                            !.at = IF k.kind \in Whole THEN "refetch" ELSE "read"]]
        /\ UNCHANGED <<kv, sequence, archive, calls, written, excused>>

\* update_block fetches the latest revision, and nothing else, to retry.
Refetch(c) ==
    /\ call[c].at = "refetch"
    /\ call' = [call EXCEPT ![c].revision = kv.revision, ![c].at = "write"]
    /\ UNCHANGED <<kv, sequence, archive, calls, written, excused>>

CoreNext ==
    \/ \E c \in Caller :
         \/ \E p \in Paragraph, informed \in BOOLEAN : UpdateBlock(c, p, informed)
         \/ \E p \in Paragraph : AppendBlock(c, p) \/ PageFromArchival(c, p)
         \/ \E old, p \in Paragraph : ReplaceInBlock(c, old, p)
         \/ BootstrapAgent(c) \/ ContextToArchival(c)
         \/ ArchiveOne(c) \/ ReadBlock(c) \/ WriteBlock(c) \/ Conflict(c) \/ Refetch(c)
    \/ DeleteAgent

CoreSpec == CoreInit /\ [][CoreNext]_coreVars

----------------------------------------------------------------------------
\* What was written to the block is in it or in the archive, unless the code
\* gave it up: replaced by a caller that had read it, overwritten by a full
\* replacement retried after a conflict, dropped with a failed insert of the
\* eviction, or purged (update_block, append_block, replace_in_block and
\* context_to_archival).
NoSilentLoss == written \subseteq Range(kv.content) \cup archive \cup excused

\* What holds of block and archive however the calls interleave: the types, the
\* number of attempts of the CAS loops among them, and that nothing is lost
\* silently (core_memory.py, archival_pager.py).
CoreSafe == CoreTypeOK /\ NoSilentLoss

\* A full replacement changes the block it was made from, or one of which a
\* conflict told its caller; an append or a replacement of a text changes the
\* rest of the block never, whatever runs beside it (the CAS loops).
AppendsKeepTheRest ==
    [][\A c \in Caller :
         call[c].kind \in {"append", "page"} /\ call[c].at = "write" /\ kv' # kv /\ call'[c] = Idle
            => kv'.content = kv.content \o call[c].text]_coreVars

=============================================================================
