------------------------------ MODULE Codebase ------------------------------
(***************************************************************************)
(* The incremental ingest of a source tree into the wiki:                  *)
(* memu/ingest/codebase.py reads and parses the files, resolves their      *)
(* references to one another (memu/ingest/resolve.py) and puts one node    *)
(* per module and symbol into memu/storage/sqlite_backend.py.              *)
(*                                                                         *)
(* A node remembers the hash of the FILE it was made from, and a node      *)
(* whose file has the same hash is skipped.  Its links depend on the other *)
(* files of the tree as well, and are written by a second transaction of   *)
(* put_node: both can leave links behind that no later ingest repairs.     *)
(*                                                                         *)
(* A dotted name is a sequence of its parts.  A file that is absent, not   *)
(* readable or not parsable is Unparsed; the hash of a file is its content *)
(* (Contents), and the text of a node is a function of hash and links.     *)
(***************************************************************************)
EXTENDS Naturals, Sequences, FiniteSets, SequencesExt

CONSTANTS
    ModuleOf,      \* the module name of each file, in the order of the walk
    CodeOf,        \* per file the contents it may have: imports and symbols
    Unparsed,
    NoNode,
    MaxTreeEdits,  \* bound on edits of the tree
    MaxRuns,       \* bound on ingests
    MaxDeaths      \* bound on processes that die

VARIABLES
    tree,      \* [File -> content or Unparsed]
    wiki,      \* table nodes: [Slug -> [hash, links] or NoNode]
    stage,     \* "idle", "reading", "emitting", "linking" (between the two
               \* transactions of put_node)
    parsed,    \* parsed_files of the run: the content read, Unparsed for a file
               \* it left out or has still to read
    pending,   \* files still to read, or nodes still to emit
    forced,    \* the argument force
    treeEdits, runs, deaths,
    settled,   \* history: the last run completed, with no edit since it began
    quiet,     \* history: this run began settled and no edit came since
    outdated,  \* history: slugs whose links were resolved in another tree, or
               \* whose put_node broke off
    broken     \* history: a run broke off

codeVars == <<tree, wiki, stage, parsed, pending, forced, treeEdits, runs, deaths,
              settled, quiet, outdated, broken>>

File == DOMAIN ModuleOf

-----------------------------------------------------------------------------
(* resolve.py; "files" gives the content of each file, or Unparsed.         *)

\* A slug is code/<module path>/<qualname>; the qualname is one component.
ModuleToSlug(module, qualname) ==
    [i \in DOMAIN module |-> <<module[i]>>]
        \o (IF qualname = <<>> THEN <<>> ELSE <<qualname>>)

Qualnames(code) == {code.symbols[i].qualname : i \in DOMAIN code.symbols}

\* The dictionaries of LinkResolver: a later file of the same module name
\* replaces an earlier one.
ParsedFiles(files) == {f \in File : files[f] # Unparsed}
KnownModules(files) == {ModuleOf[f] : f \in ParsedFiles(files)}
SymbolsByModule(files, module) ==
    LET last == Max({f \in ParsedFiles(files) : ModuleOf[f] = module})
    IN  Qualnames(files[last])
TopLevel(files, module) == {<<q[1]>> : q \in SymbolsByModule(files, module)}

LongestSymbolPrefix(parts, known) ==
    LET found == {i \in DOMAIN parts : SubSeq(parts, 1, i) \in known}
    IN  IF found = {} THEN <<>> ELSE SubSeq(parts, 1, Max(found))

\* The bindings of one import: "import m as a" has the one name "", and
\* "from m import x" binds the submodule m.x where that is a file.
BindingsOf(import, known) ==
    [i \in DOMAIN import.names |->
        LET name == import.names[i]
            submodule == import.module \o name.orig
        IN  IF name.orig = <<>>
            THEN [local |-> name.alias, module |-> import.module, target |-> <<>>]
            ELSE IF submodule \in known
            THEN [local |-> name.alias, module |-> submodule, target |-> <<>>]
            ELSE [local |-> name.alias, module |-> import.module,
                  target |-> name.orig]]

AliasTable(content, known) ==
    FlattenSeq([i \in DOMAIN content.imports |->
                    BindingsOf(content.imports[i], known)])

\* The longest prefix of the name that is an alias; the first binding of an
\* alias wins.
BestMatch(parts, table) ==
    LET prefix == LongestSymbolPrefix(parts, {table[i].local : i \in DOMAIN table})
    IN  IF prefix = <<>> THEN {}
        ELSE LET first == Min({i \in DOMAIN table : table[i].local = prefix})
             IN  {[module |-> table[first].module,
                   name |-> table[first].target
                             \o SubSeq(parts, Len(prefix) + 1, Len(parts))]}

\* A symbol the target module lacks falls back to its class or to the module.
MaybeLink(files, match) ==
    IF match.module \notin KnownModules(files) THEN {}
    ELSE LET known == SymbolsByModule(files, match.module)
         IN  {ModuleToSlug(match.module,
                IF match.name = <<>> \/ match.name \in known THEN match.name
                ELSE IF <<match.name[1]>> \in known THEN <<match.name[1]>>
                ELSE <<>>)}

\* The last resort: a prefix of the name is a module of the tree.
QualifiedLink(files, parts) ==
    LET RestOf(i) == SubSeq(parts, i + 1, Len(parts))
        NameIn(i) == LongestSymbolPrefix(RestOf(i),
                         SymbolsByModule(files, SubSeq(parts, 1, i)))
        found == {i \in DOMAIN parts :
                    /\ SubSeq(parts, 1, i) \in KnownModules(files)
                    /\ NameIn(i) # <<>> \/ i = Len(parts)}
    IN  IF found = {} THEN {}
        ELSE LET i == Max(found) IN {ModuleToSlug(SubSeq(parts, 1, i), NameIn(i))}

\* What one reference of a symbol links to: a sibling method, an import, a
\* symbol of the same module, a qualified name; the first rule that applies.
ResolveOne(files, f, symbol, parts) ==
    LET module == ModuleOf[f]
        own == SymbolsByModule(files, module)
        sibling == <<symbol.qualname[1]>> \o parts
        match == BestMatch(parts, AliasTable(files[f], KnownModules(files)))
        local == IF <<parts[1]>> \in TopLevel(files, module)
                 THEN LongestSymbolPrefix(parts, own) ELSE <<>>
    IN  IF Len(symbol.qualname) > 1 /\ Len(parts) = 1 /\ sibling \in own
        THEN {ModuleToSlug(module, sibling)}
        ELSE IF match # {} THEN UNION {MaybeLink(files, m) : m \in match}
        ELSE IF local # <<>> THEN {ModuleToSlug(module, local)}
        ELSE QualifiedLink(files, parts)

\* What the references of one symbol link to; it is never linked to itself.
Referenced(files, f, symbol) ==
    UNION {ResolveOne(files, f, symbol, r) : r \in symbol.references}
        \ {ModuleToSlug(ModuleOf[f], symbol.qualname)}

\* resolve_file: of several symbols of one name the last that links to anything
\* has its links stand for all of them.
ResolveFile(files, f, qualname) ==
    LET symbols == files[f].symbols
        linked == {i \in DOMAIN symbols : /\ symbols[i].qualname = qualname
                                          /\ Referenced(files, f, symbols[i]) # {}}
    IN  IF linked = {} THEN {} ELSE Referenced(files, f, symbols[Max(linked)])

-----------------------------------------------------------------------------
(* codebase.py                                                              *)

\* The links of a module node are its imports, those of a symbol its resolved
\* references and the class of a method.
LinksOf(files, f, qualname) ==
    LET module == ModuleOf[f]
        imported == {files[f].imports[i].module : i \in DOMAIN files[f].imports}
    IN  IF qualname = <<>>
        THEN {ModuleToSlug(m, <<>>) : m \in (imported \cap KnownModules(files)) \ {module}}
        ELSE ResolveFile(files, f, qualname)
                \cup (IF Len(qualname) > 1
                      THEN {ModuleToSlug(module, <<qualname[1]>>)} ELSE {})

\* The nodes of a parsed file: its module, then its symbols; _parse_all yields
\* an empty file twice.
Emissions(files, f) ==
    LET symbols == files[f].symbols
        nodesOf == <<<<f, <<>>>>>> \o [i \in DOMAIN symbols |-> <<f, symbols[i].qualname>>]
        empty == symbols = <<>> /\ files[f].imports = <<>>
    IN  IF files[f] = Unparsed THEN <<>>
        ELSE IF empty THEN nodesOf \o nodesOf ELSE nodesOf

SlugsOf(f, code) == {ModuleToSlug(ModuleOf[f], q) : q \in Qualnames(code) \cup {<<>>}}
Slugs(files) == UNION {SlugsOf(f, files[f]) : f \in ParsedFiles(files)}
AllSlugs == UNION {UNION {SlugsOf(f, code) : code \in CodeOf[f]} : f \in File}

\* Slugs that the nodes of two files compete for.
Contested(files) ==
    {slug \in Slugs(files) :
        \E f, g \in ParsedFiles(files) :
            f # g /\ slug \in SlugsOf(f, files[f]) /\ slug \in SlugsOf(g, files[g])}

\* Names are sequences of their parts, a method stands with its class, and what
\* stands for no node is no node (parsers/python_ast.py, _symbols_from_class).
Name == Seq(STRING) \ {<<>>}
CodeNode == [hash : UNION {CodeOf[f] : f \in File}, links : SUBSET AllSlugs]
ASSUME SourceCode ==
    /\ ModuleOf \in Seq(Name)
    /\ \A f \in File : \A code \in CodeOf[f] :
          /\ code.symbols \in Seq([qualname : Name, references : SUBSET Name])
          /\ \A q \in Qualnames(code) : Len(q) > 1 => <<q[1]>> \in Qualnames(code)
    /\ NoNode \notin CodeNode

CodebaseInit ==
    /\ tree \in {t \in [File -> (UNION {CodeOf[f] : f \in File}) \cup {Unparsed}] :
                    \A f \in File : t[f] \in CodeOf[f] \cup {Unparsed}}
    /\ wiki = [s \in AllSlugs |-> NoNode]
    /\ stage = "idle" /\ pending = <<>> /\ forced = FALSE
    /\ parsed = [f \in File |-> Unparsed]
    /\ treeEdits = 0 /\ runs = 0 /\ deaths = 0
    /\ settled = FALSE /\ quiet = FALSE /\ outdated = {} /\ broken = FALSE

\* Somebody edits, adds, removes or breaks a file.
EditSource(f, c) ==
    /\ treeEdits < MaxTreeEdits /\ tree[f] # c
    /\ tree' = [tree EXCEPT ![f] = c]
    /\ treeEdits' = treeEdits + 1
    /\ settled' = FALSE /\ quiet' = FALSE
    /\ outdated' = {s \in DOMAIN wiki : wiki[s] # NoNode}
    /\ UNCHANGED <<wiki, stage, parsed, pending, forced, runs, deaths, broken>>

IngestCodebase(force) ==
    /\ stage = "idle" /\ runs < MaxRuns
    /\ runs' = runs + 1
    /\ stage' = "reading"
    /\ parsed' = [f \in File |-> Unparsed]
    /\ pending' = [f \in File |-> f]
    /\ forced' = force
    /\ quiet' = settled
    /\ UNCHANGED <<tree, wiki, treeEdits, deaths, settled, outdated, broken>>

\* _parse_all: one file of the walk is read and parsed, or left out.
ParseNext ==
    /\ stage = "reading" /\ pending # <<>>
    /\ parsed' = [parsed EXCEPT ![Head(pending)] = tree[Head(pending)]]
    /\ pending' = Tail(pending)
    /\ UNCHANGED <<tree, wiki, stage, forced, treeEdits, runs, deaths, settled, quiet,
                   outdated, broken>>

Completes == \* history: the run ends; settled if no edit came in between
    settled' = (parsed = tree)

\* Everything is parsed; without a parsed file the run is over.
ParseDone ==
    /\ stage = "reading" /\ pending = <<>>
    /\ pending' = FlattenSeq([f \in File |-> Emissions(parsed, f)])
    /\ IF ParsedFiles(parsed) = {} THEN stage' = "idle" /\ Completes
       ELSE stage' = "emitting" /\ UNCHANGED settled
    /\ UNCHANGED <<tree, wiki, parsed, forced, treeEdits, runs, deaths, quiet, outdated,
                   broken>>

SlugOf(emission) == ModuleToSlug(ModuleOf[emission[1]], emission[2])

\* Mutant: the node is skipped whenever it exists.
IsUnchangedIfPresent(slug, hash) == wiki[slug] # NoNode
\* Mutant: the hash is compared in the wrong sense of force.
IsUnchangedNever(slug, hash) == FALSE
\* _put_with_hash: the node was made from a file with this hash.
IsUnchanged(slug, hash) ==
    ~forced /\ wiki[slug] # NoNode /\ wiki[slug].hash = hash

EmitSkip ==
    /\ stage = "emitting" /\ pending # <<>>
    /\ LET e == Head(pending) IN IsUnchanged(SlugOf(e), parsed[e[1]])
    /\ pending' = Tail(pending)
    /\ UNCHANGED <<tree, wiki, stage, parsed, forced, treeEdits, runs, deaths, settled,
                   quiet, outdated, broken>>

\* The first transaction of put_node: the node, with its slug; its links are
\* still the old ones.
EmitPut ==
    /\ stage = "emitting" /\ pending # <<>>
    /\ LET slug == SlugOf(Head(pending))
           file == Head(pending)[1]
       IN  /\ ~IsUnchanged(slug, parsed[file])
           /\ wiki' = [wiki EXCEPT ![slug] =
                  [hash |-> parsed[file],
                   links |-> IF @ = NoNode THEN {} ELSE @.links]]
    /\ stage' = "linking"
    /\ UNCHANGED <<tree, parsed, pending, forced, treeEdits, runs, deaths, settled, quiet,
                   outdated, broken>>

\* Mutant: the links of the node before are kept.
LinksWrittenAdded(slug, links) == wiki[slug].links \cup links
\* DELETE FROM links and the INSERTs: the links are replaced.
LinksWritten(slug, links) == links

\* The second transaction of put_node.
EmitLinks ==
    /\ stage = "linking"
    /\ LET e == Head(pending)
       IN  /\ wiki' = [wiki EXCEPT ![SlugOf(e)].links =
                           LinksWritten(SlugOf(e), LinksOf(parsed, e[1], e[2]))]
           /\ outdated' = IF parsed = tree THEN outdated \ {SlugOf(e)}
                          ELSE outdated \cup {SlugOf(e)}
    /\ pending' = Tail(pending)
    /\ stage' = "emitting"
    /\ UNCHANGED <<tree, parsed, forced, treeEdits, runs, deaths, settled, quiet, broken>>

Finish ==
    /\ stage = "emitting" /\ pending = <<>>
    /\ stage' = "idle"
    /\ Completes
    /\ UNCHANGED <<tree, wiki, parsed, pending, forced, treeEdits, runs, deaths, quiet,
                   outdated, broken>>

\* The process dies in a run.
IngestDies ==
    /\ stage # "idle" /\ deaths < MaxDeaths
    /\ deaths' = deaths + 1
    /\ stage' = "idle"
    /\ pending' = <<>>
    /\ settled' = FALSE /\ quiet' = FALSE
    /\ outdated' = IF stage = "linking" THEN outdated \cup {SlugOf(Head(pending))}
                   ELSE outdated
    /\ broken' = (broken \/ stage \in {"emitting", "linking"})
    /\ UNCHANGED <<tree, wiki, parsed, forced, treeEdits, runs>>

Ingest == ParseNext \/ ParseDone \/ EmitSkip \/ EmitPut \/ EmitLinks \/ Finish

CodebaseNext ==
    \/ \E f \in File : \E c \in CodeOf[f] \cup {Unparsed} : EditSource(f, c)
    \/ \E force \in BOOLEAN : IngestCodebase(force)
    \/ Ingest
    \/ IngestDies

CodebaseSpec == CodebaseInit /\ [][CodebaseNext]_codeVars

-----------------------------------------------------------------------------
\* Type correctness.
CodebaseTypeOK ==
    /\ \A f \in File : tree[f] \in CodeOf[f] \cup {Unparsed}
    /\ \A s \in DOMAIN wiki : wiki[s] = NoNode \/ wiki[s].links \subseteq DOMAIN wiki
    /\ stage \in {"idle", "reading", "emitting", "linking"}
    /\ outdated \subseteq DOMAIN wiki

\* After a run that no edit disturbed every module and symbol of the tree has a
\* node made from its present file, unless two files compete for the slug
\* (ingest_codebase, _put_with_hash).
FreshAfterIngest ==
    settled => \A f \in File : \A e \in ToSet(Emissions(tree, f)) :
                  \/ SlugOf(e) \in Contested(tree)
                  \/ wiki[SlugOf(e)] # NoNode /\ wiki[SlugOf(e)].hash = tree[f]

\* "re-running against an unchanged tree produces zero writes": holds for a run
\* that is not forced, but for slugs that two files compete for, which every run
\* rewrites.
Idempotent ==
    quiet /\ ~forced /\ stage = "linking" =>
        SlugOf(Head(pending)) \in Contested(parsed)

\* "we never invent edges": between runs every link leads to a node, unless a
\* run broke off before it had put the node linked to (resolve.py, _make_link).
LinksProven ==
    stage = "idle" /\ ~broken =>
        \A s \in DOMAIN wiki : wiki[s] # NoNode =>
            \A d \in wiki[s].links : wiki[d] # NoNode

\* The links of the nodes of the tree are what the resolver makes of it now,
\* unless a file was edited since the node was written, or a crash came between
\* the node and its links: such links stay, since the node's own file still has
\* the hash that the next run compares (codebase.py, _put_with_hash).
LinksCurrent ==
    settled => \A f \in File : \A e \in ToSet(Emissions(tree, f)) :
                  \/ SlugOf(e) \in Contested(tree) \cup outdated
                  \/ wiki[SlugOf(e)].links = LinksOf(tree, f, e[2])

\* After an undisturbed ingest every module and symbol has a node made from its
\* present file, a second one writes nothing, and the links are those of the
\* tree, but for slugs two files compete for and links that an edit elsewhere or
\* a crash left behind (codebase.py, resolve.py).
CodebaseSafe ==
    CodebaseTypeOK /\ FreshAfterIngest /\ Idempotent /\ LinksProven /\ LinksCurrent

=============================================================================
