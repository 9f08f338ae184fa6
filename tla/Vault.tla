------------------------------- MODULE Vault -------------------------------
(***************************************************************************)
(* A markdown vault and its SQLite index: the sync daemon of               *)
(* memu/wiki/sync.py polls the files and pushes changed ones into          *)
(* memu/storage/sqlite_backend.py, while agents of other processes write   *)
(* nodes, links and placeholder stubs through memu/mcp/tools.py and        *)
(* memu/wiki/slug_registry.py.                                             *)
(*                                                                         *)
(* put_node runs two transactions: the node with its slug (register_slug   *)
(* commits), then its outbound links.  A process may die in between, two   *)
(* processes may interleave, and either transaction may raise, which the   *)
(* watcher logs.  Every file has slugs of its own (Contents), so two files *)
(* never compete for one node.                                             *)
(***************************************************************************)
EXTENDS Naturals, FiniteSets

CONSTANTS Path,          \* files of the vault
          Slug,
          Contents,      \* [Path -> SUBSET [slug : Slug, links : SUBSET Slug]]
          Uuid,          \* ids an agent's new nodes receive
          None,
          PollEvery,     \* poll_seconds, in ticks
          Window,        \* debounce_ms, in ticks
          MaxEdits,      \* bound on edits of files
          MaxAgentOps,   \* bound on the agents' calls
          MaxVaultFaults \* bound on crashes, stops and calls that raise

VARIABLES disk,      \* [Path -> a file, or None]: content and mtime
          now,       \* the time stamp an edit receives
          edits,
          nodes,     \* table nodes: [Id -> row, or None]
          registry,  \* table slug_registry: [Slug -> Id, or None]
          links,     \* table links: [Id -> SUBSET Slug]
          put,       \* [Writer -> its put_node between the transactions]
          daemon,    \* the SyncDaemon: phase, files to visit, file read
          snap,      \* the snapshot of mtimes the next poll compares with
          timer,     \* ticks to the next poll, and per path of the debouncer
          unused, agentOps, vaultFaults,
          linked,    \* history: links put_link added since the last put_node
          torn,      \* history: nodes whose put_node broke off or overlapped
          missed     \* history: files with an edit the poll cannot see, or that
                     \* it came to in vain

Writer == {"daemon", "agent"}
Id == Path \cup Uuid
AtRest == [phase |-> "down", todo |-> {}, read |-> None, fresh |-> <<>>]
index == <<nodes, registry, links>>
vaultVars == <<disk, now, edits, nodes, registry, links, put, daemon, snap, timer,
               unused, agentOps, vaultFaults, linked, torn, missed>>

FileContent == UNION {Contents[p] : p \in Path}
Row == [slug : Slug, links : SUBSET Slug, hashed : BOOLEAN]
HalfPut == [id : Id, links : SUBSET Slug, clean : BOOLEAN]
FileState == [content : FileContent, mtime : Nat]
FileRead == [path : Path, content : FileContent]

\* What the code takes for granted: None is the mark of absence, an agent's new
\* id (uuid4) is none derived from a path (uuid5), no two files have a slug in
\* common, and the polls are not closer than the window of the debouncer.
ASSUME Naming ==
    /\ Contents \in [Path -> SUBSET [slug : Slug, links : SUBSET Slug]]
    /\ \A p, q \in Path : p # q =>
          \A c \in Contents[p], d \in Contents[q] : c.slug # d.slug
    /\ Path \cap Uuid = {}
    /\ None \notin Id \cup Row \cup HalfPut \cup FileState \cup FileRead
    /\ PollEvery \in Nat /\ Window \in 0 .. PollEvery

VaultInit ==
    /\ disk = [p \in Path |-> None]
    /\ now = 1 /\ edits = 0
    /\ nodes = [i \in Id |-> None]
    /\ registry = [s \in Slug |-> None]
    /\ links = [i \in Id |-> {}]
    /\ put = [w \in Writer |-> None]
    /\ daemon = AtRest
    /\ snap = [p \in Path |-> 0]
    /\ timer = [poll |-> 0, quiet |-> [p \in Path |-> 0]]
    /\ unused = Uuid
    /\ agentOps = 0 /\ vaultFaults = 0
    /\ linked = [i \in Id |-> {}]
    /\ torn = {} /\ missed = {}

VaultFault == vaultFaults < MaxVaultFaults /\ vaultFaults' = vaultFaults + 1

---------------------------------------------------------------------------
(* SqliteBackend. *)

\* get_node by slug: at most one row, nodes.slug being unique.
GetNode(s) == {i \in Id : nodes[i] # None /\ nodes[i].slug = s}

ResolveSlug(s) == registry[s]

\* Mutant: the node is inserted and committed without its slug.
PutNodeUnregistered(w, i, row) ==
    /\ nodes' = [nodes EXCEPT ![i] = row]
    /\ put' = [v \in Writer |->
                 IF v = w
                 THEN [id |-> i, links |-> row.links,
                       clean |-> \A u \in Writer \ {w} :
                                   put[u] = None \/ put[u].id # i]
                 ELSE IF put[v] # None /\ put[v].id = i
                 THEN [put[v] EXCEPT !.clean = FALSE]
                 ELSE put[v]]
    /\ UNCHANGED <<links, registry>>

\* The first transaction of put_node: upsert by id, register_slug, commit.
PutNode(w, i, row) ==
    /\ nodes' = [nodes EXCEPT ![i] = row]
    /\ registry' = [registry EXCEPT ![row.slug] = i]
    /\ put' = [v \in Writer |->
                 IF v = w
                 THEN [id |-> i, links |-> row.links,
                       clean |-> \A u \in Writer \ {w} :
                                   put[u] = None \/ put[u].id # i]
                 ELSE IF put[v] # None /\ put[v].id = i
                 THEN [put[v] EXCEPT !.clean = FALSE]
                 ELSE put[v]]
    /\ UNCHANGED links

\* Mutant: the old outbound links are not deleted first.
ReplaceLinksAdds(i, dsts) == links' = [links EXCEPT ![i] = @ \cup dsts]

\* DELETE FROM links WHERE src_id, then one INSERT per link of the node.
ReplaceLinks(i, dsts) == links' = [links EXCEPT ![i] = dsts]

\* The second transaction of put_node.
PutLinks(w) ==
    /\ put[w] # None
    /\ LET i == put[w].id IN
       /\ ReplaceLinks(i, put[w].links)
       /\ linked' = [linked EXCEPT ![i] = {}]
       /\ torn' = IF put[w].clean THEN torn \ {i} ELSE torn \cup {i}
    /\ put' = [put EXCEPT ![w] = None]
    /\ UNCHANGED <<nodes, registry, disk, now, edits, daemon, snap, timer,
                   unused, agentOps, vaultFaults, missed>>

\* The second transaction raises (the database is locked) in a tool's call or in
\* the watcher, which logs it; start() passes it on, and the daemon is down.
PutLinksRaises(w) ==
    /\ put[w] # None
    /\ VaultFault
    /\ put' = [put EXCEPT ![w] = None]
    /\ torn' = torn \cup {put[w].id}
    /\ daemon' = IF w = "daemon" /\ daemon.phase = "scan" THEN AtRest ELSE daemon
    /\ UNCHANGED <<index, disk, now, edits, snap, timer, unused, agentOps, linked,
                   missed>>

\* put_link: INSERT OR REPLACE; an unknown source slug raises.
PutLink(src, dst) ==
    /\ agentOps < MaxAgentOps
    /\ ResolveSlug(src) # None
    /\ LET i == ResolveSlug(src) IN
       /\ links' = [links EXCEPT ![i] = @ \cup {dst}]
       /\ linked' = [linked EXCEPT ![i] = @ \cup {dst}]
    /\ agentOps' = agentOps + 1
    /\ UNCHANGED <<nodes, registry, disk, now, edits, put, daemon, snap,
                   timer, unused, vaultFaults, torn, missed>>

\* Mutant: the registry is left pointing at the deleted node.
DeleteNodeKeepsSlugs(s) ==
    /\ agentOps < MaxAgentOps
    /\ \E i \in GetNode(s) :
         /\ nodes' = [nodes EXCEPT ![i] = None]
         /\ missed' = missed \cup
               {p \in Path : disk[p] # None /\ disk[p].content.slug = s}
    /\ agentOps' = agentOps + 1
    /\ UNCHANGED <<registry, links, disk, now, edits, put, daemon, snap, timer,
                   unused, vaultFaults, linked, torn>>

\* delete_node: the registry rows go by ON DELETE CASCADE, the links stay.
DeleteNode(s) ==
    /\ agentOps < MaxAgentOps
    /\ \E i \in GetNode(s) :
         /\ nodes' = [nodes EXCEPT ![i] = None]
         /\ registry' = [r \in Slug |-> IF registry[r] = i THEN None
                                        ELSE registry[r]]
         /\ missed' = missed \cup
               {p \in Path : disk[p] # None /\ disk[p].content.slug = s}
    /\ agentOps' = agentOps + 1
    /\ UNCHANGED <<links, disk, now, edits, put, daemon, snap, timer, unused,
                   vaultFaults, linked, torn>>

\* One hop of search_graph's recursive query: along the registry, or back
\* along the slug a node has now.
GraphHop(i) ==
    {j \in Id : /\ nodes[j] # None
                /\ \/ \E d \in links[i] : registry[d] = j
                   \/ nodes[i].slug \in links[j]}

---------------------------------------------------------------------------
(* Agents in other processes. *)

AgentPut(s, dsts, reuse) ==
    /\ agentOps < MaxAgentOps
    /\ put["agent"] = None
    /\ \E i \in IF reuse # {} THEN reuse ELSE unused :
         /\ PutNode("agent", i, [slug |-> s, links |-> dsts, hashed |-> FALSE])
         /\ unused' = unused \ {i}
    /\ missed' = missed \cup
          {p \in Path : disk[p] # None /\ disk[p].content.slug = s}
    /\ agentOps' = agentOps + 1
    /\ UNCHANGED <<disk, now, edits, daemon, snap, timer, vaultFaults, linked,
                   torn>>

\* wiki_write: the node of the slug, or a new one; no content_hash.
WikiWrite(s, dsts) == AgentPut(s, dsts, GetNode(s))

\* resolve_or_stub: a placeholder for a slug nobody registered.
ResolveOrStub(s) == ResolveSlug(s) = None /\ AgentPut(s, {}, {})

---------------------------------------------------------------------------
(* The vault's files, edited by other programs. *)

\* An edit the mtime of which the daemon's snapshot already holds, or made
\* between the start's reindex of the file and its snapshot, goes unseen.
Unseen(p) ==
    CASE daemon.phase = "scan"     -> p \notin daemon.todo
      [] daemon.phase = "dispatch" -> p \notin daemon.todo /\ daemon.fresh[p] = now
      [] OTHER                     -> snap[p] = now

Edit(p, c) ==
    /\ edits < MaxEdits
    /\ disk' = [disk EXCEPT ![p] = [content |-> c, mtime |-> now]]
    /\ edits' = edits + 1
    /\ missed' = IF Unseen(p) THEN missed \cup {p} ELSE missed \ {p}
    /\ UNCHANGED <<now, index, put, daemon, snap, timer, unused, agentOps,
                   vaultFaults, linked, torn>>

Unlink(p) ==
    /\ edits < MaxEdits
    /\ disk[p] # None
    /\ disk' = [disk EXCEPT ![p] = None]
    /\ edits' = edits + 1
    /\ UNCHANGED <<now, index, put, daemon, snap, timer, unused, agentOps,
                   vaultFaults, linked, torn, missed>>

\* Time passes: the timers run down, and the next edit has a later mtime.
Tick ==
    /\ timer' = [poll |-> IF timer.poll > 0 THEN timer.poll - 1 ELSE 0,
                 quiet |-> [p \in Path |-> IF timer.quiet[p] > 0
                                           THEN timer.quiet[p] - 1 ELSE 0]]
    /\ now' = IF \E p \in Path : disk[p] # None /\ disk[p].mtime = now
              THEN now + 1 ELSE now
    /\ <<timer', now'>> # <<timer, now>>
    /\ UNCHANGED <<disk, edits, index, put, daemon, snap, unused, agentOps,
                   vaultFaults, linked, torn, missed>>

---------------------------------------------------------------------------
(* SyncDaemon, PollingWatcher, VaultSyncer. *)

Mtimes == [p \in Path |-> IF disk[p] = None THEN 0 ELSE disk[p].mtime]

\* start: reindex_all over the files there are.
Start ==
    /\ daemon.phase = "down"
    /\ daemon' = [AtRest EXCEPT !.phase = "scan",
                              !.todo = {p \in Path : disk[p] # None}]
    /\ timer' = [timer EXCEPT !.quiet = [p \in Path |-> 0]]
    /\ snap' = [p \in Path |-> 0]
    /\ missed' = {}
    /\ UNCHANGED <<disk, now, edits, index, put, unused, agentOps, vaultFaults,
                   linked, torn>>

\* reindex_file: read_text; a file that is gone, cannot be read or is no UTF-8
\* is reported and left.
ReadFile(p, readable) ==
    /\ daemon.phase \in {"scan", "dispatch"}
    /\ daemon.read = None /\ put["daemon"] = None
    /\ p \in daemon.todo
    /\ daemon' = [daemon EXCEPT
          !.todo = @ \ {p},
          !.read = IF disk[p] = None \/ ~readable THEN None
                   ELSE [path |-> p, content |-> disk[p].content]]
    /\ IF readable THEN UNCHANGED <<vaultFaults, missed>>
       ELSE disk[p] # None /\ VaultFault /\ missed' = missed \cup {p}

\* reindex_all visits the next file.
ScanFile(p) ==
    /\ daemon.phase = "scan"
    /\ \E readable \in BOOLEAN : ReadFile(p, readable)
    /\ UNCHANGED <<disk, now, edits, index, put, snap, timer, unused, agentOps,
                   linked, torn>>

\* _handle of a created or modified file: should_fire, mark, reindex_file.
\* An event inside the window is dropped.
Handle(p) ==
    /\ daemon.phase = "dispatch"
    /\ IF timer.quiet[p] > 0
       THEN /\ daemon.read = None /\ put["daemon"] = None
            /\ p \in daemon.todo
            /\ daemon' = [daemon EXCEPT !.todo = @ \ {p}]
            /\ UNCHANGED <<timer, vaultFaults, missed>>
       ELSE /\ \E readable \in BOOLEAN : ReadFile(p, readable)
            /\ timer' = [timer EXCEPT !.quiet[p] = Window]
    /\ UNCHANGED <<disk, now, edits, index, put, snap, unused, agentOps,
                   linked, torn>>

\* _sync_text: the hash in the index says whether the file changed; the row
\* keeps the id of the slug's node, or takes the one derived from the path.
SyncText ==
    /\ daemon.read # None
    /\ LET c == daemon.read.content
           old == GetNode(c.slug)
           row == [slug |-> c.slug, links |-> c.links, hashed |-> TRUE]
       IN IF \E i \in old : nodes[i] = row
          THEN UNCHANGED <<index, put>>
          ELSE \E i \in IF old # {} THEN old ELSE {daemon.read.path} :
                 PutNode("daemon", i, row)
    /\ daemon' = [daemon EXCEPT !.read = None]
    /\ UNCHANGED <<disk, now, edits, snap, timer, unused, agentOps, vaultFaults,
                   linked, torn, missed>>

\* get_node or the first transaction of put_node raises: the database is locked,
\* or another process has just taken the slug.  _safe_call logs it and goes on
\* with the next event; start() passes it on.
SyncTextRaises ==
    /\ daemon.read # None
    /\ VaultFault
    /\ missed' = missed \cup {daemon.read.path}
    /\ daemon' = IF daemon.phase = "scan" THEN AtRest
                 ELSE [daemon EXCEPT !.read = None]
    /\ UNCHANGED <<disk, now, edits, index, put, snap, timer, unused, agentOps,
                   linked, torn>>

DaemonFree == daemon.todo = {} /\ daemon.read = None /\ put["daemon"] = None

\* The scan is over: the snapshot is taken and the watcher starts.
StartWatching ==
    /\ daemon.phase = "scan" /\ DaemonFree
    /\ snap' = Mtimes
    /\ daemon' = [daemon EXCEPT !.phase = "idle"]
    /\ timer' = [timer EXCEPT !.poll = PollEvery]
    /\ UNCHANGED <<disk, now, edits, index, put, unused, agentOps, vaultFaults,
                   linked, torn, missed>>

\* A poll: the new snapshot, and an event for every file created or newer.
\* A deleted file only marks the debouncer (handle_delete keeps the node).
Poll ==
    /\ daemon.phase = "idle" /\ timer.poll = 0
    /\ daemon' = [daemon EXCEPT
          !.phase = "dispatch",
          !.fresh = Mtimes,
          !.todo = {p \in Path : Mtimes[p] > snap[p]}]
    /\ timer' = [timer EXCEPT
          !.quiet = [p \in Path |-> IF Mtimes[p] = 0 /\ snap[p] # 0 /\ @[p] = 0
                                    THEN Window ELSE @[p]]]
    /\ UNCHANGED <<disk, now, edits, index, put, snap, unused, agentOps,
                   vaultFaults, linked, torn, missed>>

\* snapshot = new_snapshot, whatever became of the events.
EndPoll ==
    /\ daemon.phase = "dispatch" /\ DaemonFree
    /\ snap' = daemon.fresh
    /\ daemon' = [AtRest EXCEPT !.phase = "idle"]
    /\ timer' = [timer EXCEPT !.poll = PollEvery]
    /\ UNCHANGED <<disk, now, edits, index, put, unused, agentOps, vaultFaults,
                   linked, torn, missed>>

\* stop(): the loop ends after the poll it is in.
Stop ==
    /\ daemon.phase = "idle"
    /\ VaultFault
    /\ daemon' = AtRest
    /\ UNCHANGED <<disk, now, edits, index, put, snap, timer, unused, agentOps,
                   linked, torn, missed>>

\* A process dies; a put_node between its transactions stays half done.
Crash(w) ==
    /\ VaultFault
    /\ w = "agent" => put[w] # None
    /\ w = "daemon" => daemon.phase # "down"
    /\ put' = [put EXCEPT ![w] = None]
    /\ torn' = IF put[w] = None THEN torn ELSE torn \cup {put[w].id}
    /\ daemon' = IF w = "daemon" THEN AtRest ELSE daemon
    /\ UNCHANGED <<disk, now, edits, index, snap, timer, unused, agentOps,
                   linked, missed>>

VaultNext ==
    \/ Start \/ StartWatching \/ Poll \/ EndPoll \/ SyncText \/ SyncTextRaises
    \/ Stop \/ Tick
    \/ \E w \in Writer : PutLinks(w) \/ PutLinksRaises(w) \/ Crash(w)
    \/ \E p \in Path : ScanFile(p) \/ Handle(p) \/ Unlink(p)
    \/ \E p \in Path : \E c \in Contents[p] : Edit(p, c)
    \/ \E s \in Slug : DeleteNode(s) \/ ResolveOrStub(s)
    \/ \E c \in FileContent : WikiWrite(c.slug, c.links)
    \/ \E s, d \in Slug : s # d /\ PutLink(s, d)

VaultSpec == VaultInit /\ [][VaultNext]_vaultVars

---------------------------------------------------------------------------
(* Properties. *)

\* Type correctness.
VaultTypeOK ==
    /\ nodes \in [Id -> {None} \cup Row]
    /\ registry \in [Slug -> Id \cup {None}]
    /\ links \in [Id -> SUBSET Slug]
    /\ daemon.phase \in {"down", "scan", "idle", "dispatch"}
    /\ daemon.todo \subseteq Path

\* Whatever put_node, delete_node and faults interleave, the registry sends
\* every slug to a node there is, and the slug of every node to that node.
RegistrySound ==
    /\ \A s \in Slug : registry[s] # None => nodes[registry[s]] # None
    /\ \A i \in Id : nodes[i] # None => registry[nodes[i].slug] = i

\* The outbound links of a node are the ones of its body and those put_link
\* added since, unless its put_node broke off half way or overlapped another.
LinksOfBody ==
    \A i \in Id :
        nodes[i] = None
        \/ i \in torn
        \/ (\E w \in Writer : put[w] # None /\ put[w].id = i)
        \/ links[i] = nodes[i].links \cup linked[i]

\* search_graph is bidirectional but for links to a slug a node had before it
\* was renamed: those are followed forward only.
GraphBothWays ==
    \A i, j \in Id :
        /\ nodes[i] # None /\ j \in GraphHop(i) /\ i # j
        /\ nodes[j].slug \in links[i] \/ nodes[i].slug \in links[j]
        => i \in GraphHop(j)

Indexed(p) ==
    \E i \in GetNode(disk[p].content.slug) :
        nodes[i].links = disk[p].content.links

\* Between two polls, a file whose mtime is the one of the snapshot is in the
\* index as it stands on the disk, unless the daemon could not see the edit
\* (mtime granularity, the race of start), could not read the file or write the
\* node when it came to it (the error is logged, and the snapshot goes on), or
\* an agent wrote the node.
StaleOnlyIfMissed ==
    daemon.phase = "idle" =>
        \A p \in Path : disk[p] = None \/ disk[p].mtime # snap[p]
                         \/ Indexed(p) \/ p \in missed

\* Every safety property of the vault's index: slugs, links and graph agree with
\* the files, and what is stale was missed by the polls (sqlite_backend.py,
\* wiki/sync.py).
VaultSafe ==
    VaultTypeOK /\ RegistrySound /\ LinksOfBody /\ GraphBothWays
                /\ StaleOnlyIfMissed
=============================================================================
