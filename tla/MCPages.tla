------------------------------- MODULE MCPages -------------------------------
(* Instances for TLC of GitStore and of four pages that show what others may   *)
(* change: the audit of commits, the list of entries, the tools over them and  *)
(* the remotes.  One of the five is chosen at the start and takes all steps.   *)
EXTENDS GitStore, TLC

CONSTANTS
    shared, theirs, none, one, two,
    Branches, PageSize, MaxCommits, MaxCatalogLoads, MaxPageLoads,
    Entries, MaxLoads, MaxQueries, MaxChanges, MaxListFaults,
    ToolEntries, MaxMoves, MaxReloads, MaxLocked,
    Windows, Bases, Urls, MaxClicks, MaxGitErrors, MaxOutside

VARIABLES
    focus,
    inStack, catalogGeneration, catalog, branchStates, auditTasks, log, grown, mixed,
    auditCount,
    onDisk, generation, loading, query, indexing, rows, tasks, placeholder, resolving, hybrid,
    collected, early, listCount,
    list, toolPage, fields, weak, exporting, asking, toolTasks, moves,
    repository, remotes, pages, dialogs, edit, misled, remoteCount

Audit == INSTANCE AuditPage
Rows == INSTANCE PasswordList
Tools == INSTANCE ToolPages
Git == INSTANCE StoreRemotes

\* One file that both devices change and one the other has alone; a file is
\* absent or has one of two contents.
Shared == {shared, theirs}
OnlyShared == {shared}
TwoContents == {none, one, two}
Contents == Permutations({one, two})

auditVars == <<inStack, catalogGeneration, catalog, branchStates, auditTasks, log, grown,
               mixed, auditCount>>
listVars == <<onDisk, generation, loading, query, indexing, rows, tasks, placeholder,
              resolving, hybrid, collected, early, listCount>>
toolVars == <<list, toolPage, fields, weak, exporting, asking, toolTasks, moves>>
remoteVars == <<repository, remotes, pages, dialogs, edit, misled, remoteCount>>
allVars == <<focus, vars, auditVars, listVars, toolVars, remoteVars>>

AllInit ==
    /\ focus \in {"store", "audit", "list", "tools", "remotes"}
    /\ Init /\ Audit!Init /\ Rows!Init /\ Tools!Init /\ Git!Init
    /\ focus # "store" => head = 0
    /\ focus # "audit" => \A b \in Branches : log[b] = 0
    /\ focus # "list" => ~hybrid
    /\ focus # "remotes" => ~repository

AllNext ==
    /\ UNCHANGED focus
    /\ \/ /\ focus = "store"
          /\ Next
          /\ UNCHANGED <<auditVars, listVars, toolVars, remoteVars>>
       \/ /\ focus = "audit"
          /\ Audit!Next
          /\ UNCHANGED <<vars, listVars, toolVars, remoteVars>>
       \/ /\ focus = "list"
          /\ Rows!Next
          /\ UNCHANGED <<vars, auditVars, toolVars, remoteVars>>
       \/ /\ focus = "tools"
          /\ Tools!Next
          /\ UNCHANGED <<vars, auditVars, listVars, remoteVars>>
       \/ /\ focus = "remotes"
          /\ Git!Next
          /\ UNCHANGED <<vars, auditVars, listVars, toolVars>>

AllSpec == AllInit /\ [][AllNext]_allVars

(* Every variable of the pages keeps its type. *)
TypesOK ==
    /\ focus = "store" => TypeOK
    /\ focus = "audit" => Audit!TypeOK
    /\ focus = "list" => Rows!TypeOK
    /\ focus = "tools" => Tools!TypeOK
    /\ focus = "remotes" => Git!TypeOK

(* Pages show the newest reading, and all of it: see CommitsAreTheLog of        *)
(* AuditPage, ListIsTheNewestReload of PasswordList and KeptValuesAreComplete   *)
(* of ToolPages.                                                                *)
PagesShowTheNewest ==
    /\ focus = "audit" => Audit!CommitsAreTheLog
    /\ focus = "list" => Rows!ListIsTheNewestReload
    /\ focus = "tools" => Tools!KeptValuesAreComplete

(* A search that looks into the files looks into those of all rows: see        *)
(* PasswordList.                                                               *)
FieldSearchSeesEveryRow == focus = "list" => Rows!FieldSearchSeesEveryRow

(* See StoreRemotes. *)
RemotesFollowTheDialogs == focus = "remotes" => Git!RemotesFollowTheDialogs

(* A page that shows that it works has a worker on its way that will end that: *)
(* see LoadingAuditHasAWorker of AuditPage and ABusyToolIsWorking of ToolPages. *)
EveryWaitHasAWorker ==
    /\ focus = "audit" => Audit!LoadingAuditHasAWorker
    /\ focus = "tools" => Tools!ABusyToolIsWorking
=============================================================================
