------------------------------ MODULE AuditPage ------------------------------
(* The audit page: a catalog of the branches of the stores, and for every      *)
(* branch the commits of its log, loaded page by page.  Catalog and pages come *)
(* from workers.  Leaving the page drops everything that was loaded, but not   *)
(* the workers, and the log may grow under the page.  Filters, the search, and *)
(* what a commit looks like are left out; a commit is its number in the log.   *)
EXTENDS Naturals, Sequences

CONSTANTS
    Branches,
    PageSize,         \* commits a page has
    MaxCommits,       \* bound: commits of a branch
    MaxCatalogLoads,  \* bound: loads of the catalog
    MaxPageLoads      \* bound: loads of a page of commits

VARIABLES
    inStack,            \* the audit page is in the navigation stack
    catalogGeneration,
    catalog,            \* "none", "loading", "ok" or "error"
    branchStates,       \* branch -> what was loaded of it, or NoState
    auditTasks,         \* workers under way, and answers not handled yet
    log,                \* branch -> number of its commits
    grown,              \* branches whose log grew since something of it was loaded
    mixed,              \* branches that took an answer of before the page was left
    auditCount          \* loads of the catalog and of pages so far

auditVars == <<inStack, catalogGeneration, catalog, branchStates, auditTasks, log, grown,
               mixed, auditCount>>

NoState == [generation |-> 0]
NewState == [generation |-> 0, loading |-> FALSE, loadedOnce |-> FALSE, hasMore |-> FALSE,
             nextPage |-> 0, failed |-> FALSE, commits |-> <<>>]

TypeOK ==
    /\ inStack \in BOOLEAN
    /\ catalogGeneration \in Nat
    /\ catalog \in {"none", "loading", "ok", "error"}
    /\ \A b \in Branches :
         \/ branchStates[b] = NoState
         \/ /\ DOMAIN branchStates[b] = DOMAIN NewState
            /\ branchStates[b].commits \in Seq(1..MaxCommits)
    /\ \A task \in auditTasks :
         /\ task.is \in {"catalog", "page"}
         /\ task.at \in {"running", "ok", "error", "lost"}
    /\ log \in [Branches -> 0..MaxCommits]
    /\ grown \subseteq Branches
    /\ mixed \subseteq Branches
    /\ auditCount \in [catalogs : 0..MaxCatalogLoads, pages : 0..MaxPageLoads]

Init ==
    /\ inStack = FALSE
    /\ catalogGeneration = 0
    /\ catalog = "none"
    /\ branchStates = [b \in Branches |-> NoState]
    /\ auditTasks = {}
    /\ log \in [Branches -> 0..MaxCommits]
    /\ grown = {} /\ mixed = {}
    /\ auditCount = [catalogs |-> 0, pages |-> 0]

-----------------------------------------------------------------------------
(* The catalog. *)

DropBranches ==
    /\ branchStates' = [b \in Branches |-> NoState]
    /\ grown' = {} /\ mixed' = {}

StartCatalogLoad ==
    /\ auditCount.catalogs < MaxCatalogLoads
    /\ auditCount' = [auditCount EXCEPT !.catalogs = @ + 1]
    /\ catalogGeneration' = catalogGeneration + 1
    /\ catalog' = "loading"
    /\ DropBranches
    /\ auditTasks' = auditTasks \cup
           {[is |-> "catalog", at |-> "running", generation |-> catalogGeneration + 1]}

\* A catalog that failed is asked for again, one that is there is shown.
PrepareAuditPage ==
    /\ ~inStack
    /\ inStack' = TRUE
    /\ \/ /\ catalog \in {"none", "error"}
          /\ StartCatalogLoad
       \/ /\ catalog \in {"loading", "ok"}
          /\ UNCHANGED <<catalogGeneration, catalog, branchStates, auditTasks, grown, mixed,
                         auditCount>>
    /\ UNCHANGED log

\* Leaving the page, or opening the tools again, forgets all that was loaded.
ClearTransientState ==
    /\ inStack
    /\ inStack' = FALSE
    /\ catalogGeneration' = catalogGeneration + 1
    /\ catalog' = "none"
    /\ DropBranches
    /\ UNCHANGED <<auditTasks, log, auditCount>>

\* Slip: an error of the catalog's worker is dropped.
HandleGoodCatalog(task) ==
    /\ task.is = "catalog"
    /\ catalog' = IF task.generation = catalogGeneration /\ task.at = "ok" THEN "ok"
                  ELSE catalog
    /\ auditTasks' = auditTasks \ {task}
    /\ UNCHANGED <<branchStates, mixed>>

HandleCatalog(task) ==
    /\ task.is = "catalog"
    /\ catalog' = IF task.generation # catalogGeneration THEN catalog
                  ELSE IF task.at = "ok" THEN "ok" ELSE "error"
    /\ auditTasks' = auditTasks \ {task}
    /\ UNCHANGED <<branchStates, mixed>>

-----------------------------------------------------------------------------
(* Pages of commits. *)

StateOf(b) == IF branchStates[b] = NoState THEN NewState ELSE branchStates[b]

StartPageLoad(b, page, append) ==
    LET state == StateOf(b)
    IN  /\ auditCount.pages < MaxPageLoads
        /\ auditCount' = [auditCount EXCEPT !.pages = @ + 1]
        /\ branchStates' = [branchStates EXCEPT ![b] =
               [(IF append THEN state ELSE NewState) EXCEPT
                   !.generation = state.generation + 1, !.loading = TRUE, !.failed = FALSE]]
        /\ auditTasks' = auditTasks \cup
               {[is |-> "page", at |-> "running", generation |-> state.generation + 1,
                 visit |-> catalogGeneration, branch |-> b, page |-> page, append |-> append]}
        /\ UNCHANGED <<inStack, catalogGeneration, catalog, log, grown, mixed>>

\* Expanding the row of a branch loads its first page, unless one was loaded.
LoadBranchIfNeeded(b) ==
    /\ inStack
    /\ catalog = "ok"
    /\ ~StateOf(b).loading
    /\ ~StateOf(b).loadedOnce
    /\ StartPageLoad(b, 0, FALSE)

LoadMore(b) ==
    /\ inStack
    /\ catalog = "ok"
    /\ ~StateOf(b).loading
    /\ StateOf(b).hasMore
    /\ StartPageLoad(b, StateOf(b).nextPage, TRUE)

\* The commits of a page, newest first, by what there is to skip.
CommitsOfPage(b, page) ==
    LET skipped == page * PageSize
        count == IF log[b] <= skipped THEN 0
                 ELSE IF log[b] - skipped < PageSize THEN log[b] - skipped ELSE PageSize
    IN  [i \in 1..count |-> log[b] - skipped - i + 1]

\* Slip: a full page is taken for one that has another after it.
HasMoreIfFull(b, page) == log[b] >= (page + 1) * PageSize

HasMore(b, page) == log[b] > (page + 1) * PageSize

\* A worker finishes, fails or dies; one that reads a page reads the log as it is.
RunAuditTask(task) ==
    /\ task.at = "running"
    /\ \/ \E outcome \in {"error", "lost"} :
            auditTasks' = (auditTasks \ {task}) \cup {[task EXCEPT !.at = outcome]}
       \/ /\ task.is = "catalog"
          /\ auditTasks' = (auditTasks \ {task}) \cup {[task EXCEPT !.at = "ok"]}
       \/ /\ task.is = "page"
          /\ auditTasks' = (auditTasks \ {task}) \cup
                 {[is |-> "page", at |-> "ok", generation |-> task.generation,
                   visit |-> task.visit, branch |-> task.branch, page |-> task.page,
                   append |-> task.append, commits |-> CommitsOfPage(task.branch, task.page),
                   hasMore |-> HasMore(task.branch, task.page)]}
    /\ UNCHANGED <<inStack, catalogGeneration, catalog, branchStates, log, grown, mixed,
                   auditCount>>

\* Only the number of the load within its branch is looked at: a state that was
\* dropped and made again counts from one again.
IsForState(task) ==
    /\ branchStates[task.branch] # NoState
    /\ branchStates[task.branch].generation = task.generation

PageAdded(state, task) ==
    [state EXCEPT !.loading = FALSE, !.loadedOnce = TRUE, !.failed = FALSE,
                  !.hasMore = task.hasMore, !.nextPage = task.page + 1,
                  !.commits = IF task.append THEN @ \o task.commits ELSE task.commits]

HandlePage(task) ==
    /\ task.is = "page"
    /\ auditTasks' = auditTasks \ {task}
    /\ UNCHANGED catalog
    /\ IF IsForState(task)
       THEN /\ branchStates' = [branchStates EXCEPT ![task.branch] =
                   IF task.at = "ok" THEN PageAdded(@, task)
                   ELSE [@ EXCEPT !.loading = FALSE, !.failed = TRUE]]
            /\ mixed' = IF task.visit # catalogGeneration THEN mixed \cup {task.branch}
                        ELSE mixed
       ELSE UNCHANGED <<branchStates, mixed>>

HandleAuditAnswer(task) ==
    /\ task.at # "running"
    /\ HandleCatalog(task) \/ HandlePage(task)
    /\ UNCHANGED <<inStack, catalogGeneration, log, grown, auditCount>>

-----------------------------------------------------------------------------
\* A save or a sync adds a commit.
LogGrows ==
    /\ \E b \in Branches :
         /\ log[b] < MaxCommits
         /\ log' = [log EXCEPT ![b] = @ + 1]
         /\ grown' = IF branchStates[b] # NoState THEN grown \cup {b} ELSE grown
    /\ UNCHANGED <<inStack, catalogGeneration, catalog, branchStates, auditTasks, mixed,
                   auditCount>>

Next ==
    \/ PrepareAuditPage
    \/ ClearTransientState
    \/ \E b \in Branches : LoadBranchIfNeeded(b) \/ LoadMore(b)
    \/ \E task \in auditTasks : RunAuditTask(task) \/ HandleAuditAnswer(task)
    \/ LogGrows

Spec == Init /\ [][Next]_auditVars

-----------------------------------------------------------------------------
(* Properties. *)

NewestCommits(b, count) ==
    [i \in 1..(IF count < log[b] THEN count ELSE log[b]) |-> log[b] - i + 1]

(* What the page shows of a branch is the newest part of its log, every commit *)
(* once and in order, whatever loads failed, died or were asked for twice.     *)
(* Two cases are left out: a log that grew after its first page was asked for, *)
(* since pages are counted from the newest commit, and an answer of before the *)
(* page was left, which the new state of the branch takes for its own.         *)
CommitsAreTheLog ==
    \A b \in Branches \ (grown \cup mixed) :
        branchStates[b] # NoState =>
            /\ branchStates[b].commits = NewestCommits(b, branchStates[b].nextPage * PageSize)
            /\ branchStates[b].loadedOnce =>
                 branchStates[b].hasMore = (log[b] > branchStates[b].nextPage * PageSize)

(* Whatever is shown as loading is being loaded: its worker runs, or its       *)
(* answer or its death is about to be handled.                                 *)
LoadingAuditHasAWorker ==
    /\ catalog = "loading" =>
         \E task \in auditTasks : task.is = "catalog" /\ task.generation = catalogGeneration
    /\ \A b \in Branches :
         branchStates[b] # NoState /\ branchStates[b].loading =>
             \E task \in auditTasks :
                 /\ task.is = "page"
                 /\ task.branch = b
                 /\ task.generation = branchStates[b].generation

=============================================================================
