------------------------------- MODULE MCMemory -------------------------------
(* Small instances of the services that keep memories, pages and tasks, side *)
(* by side; "part" says which one a behaviour is of.                         *)
EXTENDS CoreMemory, Workflows, TaskRegistry, MemoryAgent, Vault, Codebase, TLC

CONSTANTS p1, p2, p3, p4

VARIABLE part

\* Four memories, all similar but the first and the last; two runs.
MCSimilar == {pair \in Memory \X Memory :
                 pair[1] # pair[2] /\ {pair[1], pair[2]} # {1, 4}}

\* Two files, the first of which is also found under another title; the polls
\* are further apart than the window of the debouncer.
MCContents ==
    [p |-> {[slug |-> "s1", links |-> {"s2"}], [slug |-> "s3", links |-> {}]},
     q |-> {[slug |-> "s2", links |-> {"s1"}]}]

\* An agent takes a task on, or reports a review without touching the status.
MCPatches == {[status |-> "in_progress", review |-> "unset"],
              [status |-> "unset", review |-> "completed"]}

\* What fails in the vault and what agents do there is bounded together.
FewEvents == vaultFaults' + agentOps' <= MaxVaultFaults

\* Two scanners find the markers while one reviewer decides once, or two
\* reviewers decide on the tasks of one scanner, whose status alone is patched.
OneReviewer == reviews' <= 1 /\ reviewing'["d"] = Rest
OneScanner ==
    /\ scanning'["b"] = NoSource
    /\ \A t \in 1 .. Len(backlog') : backlog'[t].review # "completed"

\* Three files: a package whose symbol may take the slug of its submodule, the
\* submodule, whose symbol may be defined twice, and a module that imports it by
\* one name or another.
Import(m, orig, alias) ==
    [module |-> m, names |-> <<[orig |-> orig, alias |-> alias]>>]
Symbol(q, refs) == [qualname |-> q, references |-> refs]
FileWith(imports, symbols) == [imports |-> imports, symbols |-> symbols]
MCCodeOf ==
  <<{FileWith(<<>>, <<>>),
     FileWith(<<>>, <<Symbol(<<"b">>, {<<"p", "b", "Foo">>})>>)},
    {FileWith(<<>>, <<Symbol(<<"Foo">>, {}),
                      Symbol(<<"Foo", "run">>, {<<"run">>, <<"Foo">>}),
                      Symbol(<<"Foo", "go">>, {<<"run">>})>>),
     FileWith(<<>>, <<Symbol(<<"Bar">>, {<<"p">>}), Symbol(<<"Bar">>, {<<"Bar", "x">>})>>)},
    {FileWith(<<Import(<<"p">>, <<"b">>, <<"b">>)>>,
              <<Symbol(<<"f">>, {<<"b", "Foo", "go">>, <<"b", "Bar">>})>>),
     FileWith(<<Import(<<"p", "b">>, <<>>, <<"p", "b">>),
                Import(<<"p">>, <<"b">>, <<"f">>)>>,
              <<Symbol(<<"f">>, {<<"p", "b", "Foo">>, <<"f">>})>>)}>>
MCModuleOf == <<<<"p">>, <<"p", "b">>, <<"q">>>>

\* Only the workflows' variables and the source tree have several initial values.
MemoryInit ==
    /\ part \in {"core", "workflows", "agent", "vault", "scans", "reviews", "code"}
    /\ CoreInit /\ WorkflowInit /\ RegistryInit /\ AgentInit /\ VaultInit /\ CodebaseInit
    /\ part # "workflows" => family = "ingestion"
    /\ part # "code" => tree = [f \in 1 .. 3 |-> Unparsed]

MemoryNext ==
    /\ \/ part = "core" /\ CoreNext
            /\ UNCHANGED <<workflowVars, agentVars, vaultVars, registryVars, codeVars>>
       \/ part = "workflows" /\ WorkflowNext
            /\ UNCHANGED <<coreVars, agentVars, vaultVars, registryVars, codeVars>>
       \/ part = "agent" /\ AgentNext
            /\ UNCHANGED <<coreVars, workflowVars, vaultVars, registryVars, codeVars>>
       \/ part = "vault" /\ VaultNext /\ FewEvents
            /\ UNCHANGED <<coreVars, workflowVars, agentVars, registryVars, codeVars>>
       \/ part = "scans" /\ RegistryNext /\ OneReviewer
            /\ UNCHANGED <<coreVars, workflowVars, agentVars, vaultVars, codeVars>>
       \/ part = "reviews" /\ RegistryNext /\ OneScanner
            /\ UNCHANGED <<coreVars, workflowVars, agentVars, vaultVars, codeVars>>
       \/ part = "code" /\ CodebaseNext
            /\ UNCHANGED <<coreVars, workflowVars, agentVars, vaultVars, registryVars>>
    /\ UNCHANGED part

MemorySpec ==
    MemoryInit /\ [][MemoryNext]_<<part, coreVars, workflowVars, agentVars,
                                   vaultVars, registryVars, codeVars>>

=============================================================================
