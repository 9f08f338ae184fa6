------------------------------- MODULE MCLocks -------------------------------
(* Small instances of the two lock registries, side by side; "part" says    *)
(* which one a behaviour is of.  The constants of the cfg are those of the  *)
(* neighborhood lock and of the Markdown registry used by one process; the  *)
(* registry used by two processes gets its own here.                        *)
EXTENDS NeighborhoodLock, MarkdownLocks, TLC

CONSTANTS c1, c2, a, b, p, q, t1, t2

VARIABLE part

\* Two neighboring pages, edited from either side, by different holders.
MCHolderId == c1 :> p @@ c2 :> q
MCRank == a :> 1 @@ b :> 2
MCRoot == c1 :> a @@ c2 :> b
MCTargets == c1 :> <<a, b>> @@ c2 :> <<b, a>>

\* Two tasks of one process, and two tasks of two processes.
MCProcessOf == t1 :> "p" @@ t2 :> "p"
Many == INSTANCE MarkdownLocks
        WITH ProcessOf <- t1 :> "p" @@ t2 :> "q", FileTTL <- 2, MaxInstant <- 2,
             MaxCalls <- 2

LocksInit ==
    /\ part \in {"sqlite", "one process", "two processes"}
    /\ Init /\ FilesInit

LocksNext ==
    /\ \/ part = "sqlite" /\ Next /\ UNCHANGED filesVars
       \/ part = "one process" /\ FilesNext /\ UNCHANGED vars
       \/ part = "two processes" /\ Many!FilesNext /\ UNCHANGED vars
    /\ UNCHANGED part

LocksSpec == LocksInit /\ [][LocksNext]_<<part, vars, filesVars>>

-----------------------------------------------------------------------------
\* Both registries keep what the protocol LockRegistry promises, crashes in
\* the middle of calls included: the SQLite one under any interleaving of the
\* contexts (NeighborhoodLock!RegistrySpec), the files as long as one process
\* uses them (MarkdownLocks!FilesRegistrySpec).
RegistriesKeepContract ==
    /\ RegistrySpec
    /\ FilesRegistry!Init
    /\ [][part = "one process" => FilesRegistry!Next]_<<Lease, granted, task_clock>>

=============================================================================
