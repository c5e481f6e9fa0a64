----------------------------- MODULE PasswordList -----------------------------
(* The list of entries in the main window: a reload collects the entries on a  *)
(* worker and appends their rows in batches when the main loop is idle; a      *)
(* search that looks into the files has a second worker read them and sets     *)
(* what it found on the rows.  A reload or another query may come between any  *)
(* two of these steps, so every task carries the generation it was started in. *)
(* Rows are found by label; order, folders and widgets are left out.           *)
EXTENDS Integers

CONSTANTS
    Entries,       \* labels
    MaxLoads,      \* bound: reloads of the list
    MaxQueries,    \* bound: changes of the query
    MaxChanges,    \* bound: entries saved or deleted while the list is shown
    MaxListFaults  \* bound: workers that die

VARIABLES
    onDisk,           \* label -> version of its file, 0 when there is none
    generation,       \* of the newest reload: the list's and the controller's
    loading,          \* the controller waits for the rows of that reload
    query,            \* "empty", "plain" or "fields", which needs the index
    indexing,         \* generation whose index is being made, or 0
    rows,             \* label -> what its row knows of the file
    tasks,            \* workers and idle callbacks under way
    placeholder,      \* what stands in for the rows: "loading" or "resolved"
    resolving,        \* idle callbacks that will show the resolved placeholder
    hybrid,           \* the sort mode is Hybrid: searching sorts differently
    collected,        \* generation -> what its worker found on disk
    early,            \* generations whose index began before all rows were in
    listCount         \* how often each bounded action was taken

listVars == <<onDisk, generation, loading, query, indexing, rows, tasks, placeholder,
              resolving, hybrid, collected, early, listCount>>

FileVersions == 1..(MaxChanges + 1)
Generations == 1..MaxLoads
Contents == [Entries -> {0} \cup FileVersions]
NoEntries == [e \in Entries |-> 0]

\* What a row can know: it is not in the list, its fields were not read, could
\* not be read, or are those of a version of the file.
NoRow == -3
Unindexed == -2
Unavailable == -1
IndexStates == {NoRow, Unindexed, Unavailable} \cup FileVersions
NoRows == [e \in Entries |-> NoRow]
Shown == {e \in Entries : rows[e] # NoRow}

Tasks ==
    [is : {"collect"}, generation : Generations]
      \cup [is : {"collected"}, generation : Generations, items : Contents]
      \cup [is : {"lost"}, generation : Generations]
      \cup [is : {"render"}, generation : Generations, left : SUBSET Entries]
      \cup [is : {"index"}, generation : Generations, requests : SUBSET Entries]
      \cup [is : {"indexed"}, generation : Generations, requests : SUBSET Entries,
            results : [Entries -> IndexStates]]
      \cup [is : {"unindexable"}, generation : Generations]

TypeOK ==
    /\ onDisk \in Contents
    /\ generation \in 0..MaxLoads
    /\ loading \in BOOLEAN
    /\ query \in {"empty", "plain", "fields"}
    /\ indexing \in 0..MaxLoads
    /\ rows \in [Entries -> IndexStates]
    /\ tasks \subseteq Tasks
    /\ placeholder \in {"loading", "resolved"}
    /\ resolving \in Nat
    /\ hybrid \in BOOLEAN
    /\ collected \in [Generations -> Contents]
    /\ early \subseteq Generations
    /\ listCount \in [{"queries", "changes", "faults"} -> Nat]

Init ==
    /\ onDisk = [e \in Entries |-> 1]
    /\ generation = 0 /\ indexing = 0
    /\ loading = FALSE
    /\ query = "empty"
    /\ rows = NoRows
    /\ tasks = {}
    /\ placeholder = "resolved" /\ resolving = 0
    /\ hybrid \in BOOLEAN
    /\ collected = [g \in Generations |-> NoEntries]
    /\ early = {}
    /\ listCount = [queries |-> 0, changes |-> 0, faults |-> 0]

Counted(what, limit) ==
    /\ listCount[what] < limit
    /\ listCount' = [listCount EXCEPT ![what] = @ + 1]

\* Slip: the answer of an older reload is taken.
NeverStale(task) == FALSE

IsStale(task) == task.generation # generation

-----------------------------------------------------------------------------
(* Placeholders and the index. *)

\* The loading placeholder shows at once, the resolved one when the loop is idle.
UpdatePlaceholder ==
    IF \/ loading'
       \/ query' = "fields" /\ indexing' = generation' /\ indexing' # 0 /\ rows' # NoRows
    THEN /\ placeholder' = "loading"
         /\ UNCHANGED resolving
    ELSE /\ resolving' = resolving + 1
         /\ UNCHANGED placeholder

\* One index a generation at a time, of the rows that have none.
StartIndexingIfNeeded(others) ==
    LET requests == {e \in Entries : rows'[e] = Unindexed}
    IN  IF query' = "fields" /\ indexing # generation /\ requests # {}
        THEN /\ indexing' = generation
             /\ tasks' = others \cup
                    {[is |-> "index", generation |-> generation, requests |-> requests]}
            /\ early' = IF loading' THEN early \cup {generation} ELSE early
        ELSE /\ UNCHANGED <<indexing, early>>
             /\ tasks' = others

\* Slip: the rows are not indexed for the search.
FinishReloadUnindexed(others) ==
    /\ loading' = FALSE
    /\ tasks' = others
    /\ UNCHANGED <<indexing, early>>
    /\ UpdatePlaceholder

FinishReload(others) ==
    /\ loading' = FALSE
    /\ StartIndexingIfNeeded(others)
    /\ UpdatePlaceholder

-----------------------------------------------------------------------------
(* Reloading. *)

BeginReload ==
    /\ generation < MaxLoads
    /\ generation' = generation + 1
    /\ indexing' = 0
    /\ loading' = TRUE
    /\ rows' = NoRows
    /\ tasks' = tasks \cup {[is |-> "collect", generation |-> generation + 1]}
    /\ placeholder' = "loading"
    /\ UNCHANGED <<resolving, early>>

LoadPasswords ==
    /\ BeginReload
    /\ UNCHANGED <<onDisk, query, hybrid, collected, listCount>>

\* The worker lists the stores.
CollectItems(task) ==
    /\ task.is = "collect"
    /\ tasks' = (tasks \ {task}) \cup
           {[is |-> "collected", generation |-> task.generation, items |-> onDisk]}
    /\ collected' = [collected EXCEPT ![task.generation] = onDisk]
    /\ UNCHANGED listCount

WorkerDies(task) ==
    /\ task.is \in {"collect", "index"}
    /\ Counted("faults", MaxListFaults)
    /\ tasks' = (tasks \ {task}) \cup
           {[is |-> IF task.is = "collect" THEN "lost" ELSE "unindexable",
             generation |-> task.generation]}
    /\ UNCHANGED collected

\* The answer of the worker: rows are appended from idle callbacks, or the
\* reload is over when there are none.
HandleItems(task) ==
    /\ task.is = "collected"
    /\ UNCHANGED rows
    /\ LET found == {e \in Entries : task.items[e] # 0}
           others == tasks \ {task}
       IN  \/ /\ IsStale(task)
              /\ tasks' = others
              /\ UNCHANGED <<loading, indexing, placeholder, resolving, early>>
           \/ /\ ~IsStale(task)
              /\ found # {}
              /\ tasks' = others \cup
                     {[is |-> "render", generation |-> task.generation, left |-> found]}
              /\ UNCHANGED <<loading, indexing, placeholder, resolving, early>>
           \/ /\ ~IsStale(task)
              /\ found = {}
              /\ FinishReload(others)

HandleLost(task) ==
    /\ task.is = "lost"
    /\ tasks' = tasks \ {task}
    /\ UNCHANGED <<rows, indexing, early>>
    /\ IF IsStale(task)
       THEN UNCHANGED <<loading, placeholder, resolving>>
       ELSE /\ loading' = FALSE
            /\ UpdatePlaceholder

\* One batch of rows, or the end of the reload.
RenderBatch(task) ==
    /\ task.is = "render"
    /\ LET others == tasks \ {task}
       IN  \/ /\ IsStale(task)
              /\ tasks' = others
              /\ UNCHANGED <<rows, loading, indexing, placeholder, resolving, early>>
           \/ /\ ~IsStale(task)
              /\ \E e \in task.left :
                   /\ rows' = [rows EXCEPT ![e] = Unindexed]
                   /\ tasks' = others \cup {[task EXCEPT !.left = @ \ {e}]}
              /\ UNCHANGED <<loading, indexing, placeholder, resolving, early>>
           \/ /\ ~IsStale(task)
              /\ task.left = {}
              /\ UNCHANGED rows
              /\ FinishReload(others)

-----------------------------------------------------------------------------
(* Searching. *)

\* Under Hybrid the first and the last character of a query reload the list.
SearchChanged ==
    \E text \in {"empty", "plain", "fields"} \ {query} :
        /\ Counted("queries", MaxQueries)
        /\ query' = text
        /\ \/ /\ hybrid /\ (query = "empty" \/ text = "empty")
              /\ BeginReload
           \/ /\ ~(hybrid /\ (query = "empty" \/ text = "empty"))
              /\ UNCHANGED <<generation, loading, rows>>
              /\ StartIndexingIfNeeded(tasks)
              /\ UpdatePlaceholder
        /\ UNCHANGED <<onDisk, hybrid, collected>>

\* The index worker reads the files one by one; here in one step.  A file that
\* cannot be read, or is gone, makes its row unavailable.
BuildIndex(task) ==
    /\ task.is = "index"
    /\ \E locked \in SUBSET task.requests :
         tasks' = (tasks \ {task}) \cup
             {[is |-> "indexed", generation |-> task.generation, requests |-> task.requests,
               results |-> [e \in Entries |->
                   IF e \in locked \/ onDisk[e] = 0 THEN Unavailable ELSE onDisk[e]]]}
    /\ UNCHANGED <<collected, listCount>>

\* The results are set on the rows with the same labels.
ApplyIndexBatch(task) ==
    /\ task.is = "indexed"
    /\ tasks' = tasks \ {task}
    /\ UNCHANGED <<loading, early>>
    /\ IF IsStale(task)
       THEN UNCHANGED <<indexing, rows, placeholder, resolving>>
       ELSE /\ indexing' = IF indexing = task.generation THEN 0 ELSE indexing
            /\ rows' = [e \in Entries |-> IF e \in task.requests \cap Shown
                                           THEN task.results[e] ELSE rows[e]]
            /\ UpdatePlaceholder

HandleIndexDisconnect(task) ==
    /\ task.is = "unindexable"
    /\ tasks' = tasks \ {task}
    /\ UNCHANGED <<loading, rows, early>>
    /\ IF IsStale(task)
       THEN UNCHANGED <<indexing, placeholder, resolving>>
       ELSE /\ indexing' = IF indexing = task.generation THEN 0 ELSE indexing
            /\ UpdatePlaceholder

ShowResolvedPlaceholder ==
    /\ resolving > 0
    /\ resolving' = resolving - 1
    /\ placeholder' = "resolved"
    /\ UNCHANGED <<onDisk, generation, loading, query, indexing, rows, tasks, hybrid,
                   collected, early, listCount>>

\* An entry is saved or deleted, here or by another program.
ChangeEntry ==
    /\ Counted("changes", MaxChanges)
    /\ \E e \in Entries, version \in {0, listCount.changes + 2} :
         /\ version # onDisk[e]
         /\ onDisk' = [onDisk EXCEPT ![e] = version]
    /\ UNCHANGED <<generation, loading, query, indexing, rows, tasks, placeholder,
                   resolving, hybrid, collected, early>>

OnWorker(task) ==
    /\ CollectItems(task) \/ BuildIndex(task) \/ WorkerDies(task)
    /\ UNCHANGED <<onDisk, generation, loading, query, indexing, rows, placeholder,
                   resolving, hybrid, early>>

OnMainLoop(task) ==
    /\ UNCHANGED <<onDisk, generation, query, hybrid, collected, listCount>>
    /\ \/ HandleItems(task)
       \/ HandleLost(task)
       \/ RenderBatch(task)
       \/ ApplyIndexBatch(task)
       \/ HandleIndexDisconnect(task)

Next ==
    \/ LoadPasswords
    \/ SearchChanged
    \/ ChangeEntry
    \/ ShowResolvedPlaceholder
    \/ \E task \in tasks : OnWorker(task) \/ OnMainLoop(task)

Spec == Init /\ [][Next]_listVars

-----------------------------------------------------------------------------
(* Properties. *)

RowsAreOfTheNewestReload ==
    \A e \in Shown :
        /\ collected[generation][e] # 0
        /\ rows[e] \in FileVersions => rows[e] >= collected[generation][e]

Settled == tasks = {} /\ resolving = 0 /\ generation # 0

(* Whatever arrives late, the rows are those of the newest reload: each stands *)
(* for an entry that reload found, and what is known of its fields was read    *)
(* from a file at least as new as the one the reload saw.  And when nothing is *)
(* under way the list is not left loading: every row of the newest reload is   *)
(* shown (none when its worker died), no index is awaited, and the placeholder *)
(* is not the spinner.                                                         *)
ListIsTheNewestReload ==
    /\ RowsAreOfTheNewestReload
    /\ Settled =>
         /\ ~loading
         /\ indexing = 0
         /\ placeholder = "resolved"
         /\ \/ Shown = {e \in Entries : collected[generation][e] # 0}
            \/ Shown = {} /\ listCount.faults > 0

(* A search that looks into the files has looked into all of them once nothing *)
(* is under way and no worker died, also when the list was reloaded while an   *)
(* index was being made.  An index that began while rows were still being      *)
(* appended is the exception: the end of the reload finds it under way, and    *)
(* its end does not look for rows that came later, so those stay unsearched.   *)
FieldSearchSeesEveryRow ==
    tasks = {} /\ query = "fields" /\ generation \notin early /\ listCount.faults = 0 =>
        \A e \in Entries : rows[e] # Unindexed

=============================================================================
