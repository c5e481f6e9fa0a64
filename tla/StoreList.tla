------------------------------ MODULE StoreList ------------------------------
(* The configured stores: the list on the preferences page of each window, and *)
(* what adds or removes a store there, a folder that is picked, a create page  *)
(* that is saved, a clone that ends, a row that is deleted, and the pruning of *)
(* stores whose folder is gone.  And the import page, which keeps the stores   *)
(* there were when it was opened.  The order of the stores is left out.        *)
EXTENDS Naturals, FiniteSets

CONSTANTS
    StoreWindows, Stores,
    MaxPicks,         \* bound: pages shown, folders picked, rows deleted, clones
    MaxImports,       \* bound: imports
    MaxFolderChanges  \* bound: folders changed outside and preferences not written

VARIABLES
    folders,     \* what is on the disk
    configured,  \* the stores in the preferences
    wanted,      \* ghost: the stores that were added and neither deleted nor pruned
    misread,     \* ghost: the preferences could once not be read
    rows,        \* the rows of each window's list
    creating,    \* each window's create page: its store
    working,     \* saves of create pages and clones that are under way
    importPage,  \* the import page: visible, busy, and its stores
    imports,     \* imports that are under way
    storeCount

listVars == <<folders, configured, wanted, misread, rows, creating, working, importPage,
              imports, storeCount>>

NoStore == 0

Jobs == [kind : {"save", "clone"}, window : StoreWindows, store : Stores, menu : BOOLEAN,
         at : {"runs", "ok", "failed"}]

TypeOK ==
    /\ folders \in [Stores -> {"missing", "empty", "full"}]
    /\ {configured, wanted} \subseteq SUBSET Stores
    /\ misread \in BOOLEAN
    /\ rows \in [StoreWindows -> SUBSET Stores]
    /\ creating \in [StoreWindows -> Stores \cup {NoStore}]
    /\ working \subseteq Jobs
    /\ importPage \in [visible : BOOLEAN, busy : BOOLEAN, roots : SUBSET Stores]
    /\ imports \subseteq [store : Stores, at : {"runs", "ok", "failed", "lost"}]
    /\ storeCount \in [picks : 0..MaxPicks, imports : 0..MaxImports, outside : 0..MaxFolderChanges]

Init ==
    /\ folders \in [Stores -> {"missing", "full"}]
    /\ configured = {s \in Stores : folders[s] = "full"}
    /\ wanted = configured
    /\ misread = FALSE
    /\ rows = [w \in StoreWindows |-> {}]
    /\ creating = [w \in StoreWindows |-> NoStore]
    /\ working = {}
    /\ importPage = [visible |-> FALSE, busy |-> FALSE, roots |-> {}]
    /\ imports = {}
    /\ storeCount = [picks |-> 0, imports |-> 0, outside |-> 0]

Pick ==
    /\ storeCount.picks < MaxPicks
    /\ storeCount' = [storeCount EXCEPT !.picks = @ + 1]

Outside ==
    /\ storeCount.outside < MaxFolderChanges
    /\ storeCount' = [storeCount EXCEPT !.outside = @ + 1]

-----------------------------------------------------------------------------
(* The preferences.  The list is read and written in one callback.             *)

\* A preferences file that cannot be read counts as an empty one.
ReadStores(stores) ==
    \/ stores = configured /\ UNCHANGED misread
    \/ stores = {} /\ misread' = TRUE

SetStores(stores) == configured' = stores

Keep(stores) == wanted' = wanted \cup stores
Forget(stores) == wanted' = wanted \ stores

RebuildStoresList(w) == rows' = [rows EXCEPT ![w] = configured']

-----------------------------------------------------------------------------
(* The list.                                                                   *)

StoreDirExists(s) == folders[s] # "missing"

\* Showing the preferences drops the stores whose folder is gone.
PruneMissingStores(w) ==
    /\ Pick
    /\ \E stores \in SUBSET Stores :
           /\ ReadStores(stores)
           /\ LET existing == {s \in stores : StoreDirExists(s)}
              IN IF existing = stores THEN UNCHANGED <<configured, wanted>>
                 ELSE \/ SetStores(existing) /\ Forget(stores \ existing)
                      \/ UNCHANGED <<configured, wanted>>
    /\ RebuildStoresList(w)
    /\ UNCHANGED <<folders, creating, working, importPage, imports>>

\* Slip: the rows that are left become the list.
RowsAfterDelete(w, stores, s) == rows[w] \ {s}

UpdatedStoresAfterDelete(w, stores, s) == stores \ {s}

\* A row whose store is gone already stays, and so does one whose deletion
\* could not be written.
ClickDelete(w) ==
    /\ Pick
    /\ \E s \in rows[w], stores \in SUBSET Stores :
           /\ ReadStores(stores)
           /\ \/ /\ s \in stores
                 /\ SetStores(UpdatedStoresAfterDelete(w, stores, s))
                 /\ Forget({s})
                 /\ RebuildStoresList(w)
              \/ UNCHANGED <<configured, wanted, rows>>
    /\ UNCHANGED <<folders, creating, working, importPage, imports>>

-----------------------------------------------------------------------------
(* A folder is picked.                                                         *)

FolderIsEmpty(s) == folders[s] # "full"

AddExisting(w, s) ==
    /\ ~FolderIsEmpty(s)
    /\ \E stores \in SUBSET Stores :
           /\ ReadStores(stores)
           /\ SetStores(stores \cup {s})
           /\ Keep({s})
    /\ RebuildStoresList(w)
    /\ UNCHANGED creating

CreateNew(w, s) ==
    /\ FolderIsEmpty(s)
    /\ creating' = [creating EXCEPT ![w] = s]
    /\ UNCHANGED <<configured, wanted, misread, rows>>

\* A folder that cannot be read, or a list that cannot be written, ends it.
PromptAddOrCreateStore(w) ==
    /\ Pick
    /\ \E s \in Stores :
           \/ AddExisting(w, s)
           \/ CreateNew(w, s)
           \/ UNCHANGED <<configured, wanted, misread, rows, creating>>
    /\ UNCHANGED <<folders, working, importPage, imports>>

\* The create page starts its save; the page may be left before the answer.
SaveCreated(w) ==
    /\ creating[w] # NoStore
    /\ working' = working \cup {[kind |-> "save", window |-> w, store |-> creating[w],
                                 menu |-> FALSE, at |-> "runs"]}
    /\ creating' = [creating EXCEPT ![w] = NoStore]
    /\ UNCHANGED <<folders, configured, wanted, misread, rows, importPage, imports, storeCount>>

\* A clone is started from the list or from the menu.
StartStoreClone(w) ==
    /\ Pick
    /\ \E s \in Stores, menu \in BOOLEAN :
           working' = working \cup {[kind |-> "clone", window |-> w, store |-> s,
                                     menu |-> menu, at |-> "runs"]}
    /\ UNCHANGED <<folders, configured, wanted, misread, rows, creating, importPage, imports>>

\* Git clones only into a folder that is empty; a save fills any.
WorkerEnds(job) ==
    /\ job.at = "runs"
    /\ \/ /\ job.kind = "save" \/ FolderIsEmpty(job.store)
          /\ working' = (working \ {job}) \cup {[job EXCEPT !.at = "ok"]}
          /\ folders' = [folders EXCEPT ![job.store] = "full"]
       \/ /\ working' = (working \ {job}) \cup {[job EXCEPT !.at = "failed"]}
          /\ UNCHANGED folders
    /\ UNCHANGED <<configured, wanted, misread, rows, creating, importPage, imports, storeCount>>

\* A failure only shows a message.  The clone from the menu leaves the rows as
\* they are; a save rebuilds them even if its store could not be added.
WorkerAnswered(job) ==
    /\ working' = working \ {job}
    /\ UNCHANGED <<folders, creating, importPage, imports, storeCount>>
    /\ \/ /\ job.at = "failed"
          /\ UNCHANGED <<configured, wanted, misread, rows>>
       \/ /\ job.at = "ok"
          /\ \/ \E stores \in SUBSET Stores :
                    /\ ReadStores(stores)
                    /\ SetStores(stores \cup {job.store})
                    /\ Keep({job.store})
                    /\ IF job.menu THEN UNCHANGED rows ELSE RebuildStoresList(job.window)
             \/ /\ UNCHANGED <<configured, wanted, misread>>
                /\ IF job.kind = "save" THEN RebuildStoresList(job.window) ELSE UNCHANGED rows

-----------------------------------------------------------------------------
(* The import page.                                                            *)

\* While an import runs the page is shown as it is.
ShowPassImportPage ==
    /\ ~importPage.visible
    /\ Pick
    /\ configured # {}
    /\ importPage' = IF importPage.busy THEN [importPage EXCEPT !.visible = TRUE]
                     ELSE [visible |-> TRUE, busy |-> FALSE, roots |-> configured]
    /\ UNCHANGED <<folders, configured, wanted, misread, rows, creating, working, imports>>

LeaveImportPage ==
    /\ importPage.visible
    /\ importPage' = [importPage EXCEPT !.visible = FALSE]
    /\ UNCHANGED <<folders, configured, wanted, misread, rows, creating, working, imports,
                   storeCount>>

\* The page's button is hidden behind the progress of an import.
StartPassImport ==
    /\ importPage.visible
    /\ ~importPage.busy
    /\ storeCount.imports < MaxImports
    /\ storeCount' = [storeCount EXCEPT !.imports = @ + 1]
    /\ \E s \in importPage.roots : imports' = imports \cup {[store |-> s, at |-> "runs"]}
    /\ importPage' = [importPage EXCEPT !.busy = TRUE]
    /\ UNCHANGED <<folders, configured, wanted, misread, rows, creating, working>>

ImportRuns(task) ==
    /\ task.at = "runs"
    /\ \E outcome \in {"ok", "failed", "lost"} :
           imports' = (imports \ {task}) \cup {[task EXCEPT !.at = outcome]}
    /\ UNCHANGED <<folders, configured, wanted, misread, rows, creating, working, importPage,
                   storeCount>>

\* Slip: the form comes back only when the import has ended by itself.
EndsWithAnswer(task) == task.at # "lost"

LoadingEnds(task) == TRUE

\* A page that was left meanwhile is not left again.
FinishPassImport(task) ==
    /\ task.at # "runs"
    /\ imports' = imports \ {task}
    /\ importPage' = [importPage EXCEPT !.busy = ~LoadingEnds(task),
                                        !.visible = @ /\ task.at # "ok"]
    /\ UNCHANGED <<folders, configured, wanted, misread, rows, creating, working, storeCount>>

-----------------------------------------------------------------------------
\* Folders come and go outside of the program.
FolderChanges ==
    /\ Outside
    /\ \E s \in Stores, state \in {"missing", "empty", "full"} :
           folders' = [folders EXCEPT ![s] = state]
    /\ UNCHANGED <<configured, wanted, misread, rows, creating, working, importPage, imports>>

Next ==
    \/ \E w \in StoreWindows :
           \/ PruneMissingStores(w) \/ ClickDelete(w) \/ PromptAddOrCreateStore(w)
           \/ SaveCreated(w) \/ StartStoreClone(w)
    \/ \E job \in working : WorkerEnds(job) \/ WorkerAnswered(job)
    \/ ShowPassImportPage
    \/ LeaveImportPage
    \/ StartPassImport
    \/ \E task \in imports : ImportRuns(task) \/ FinishPassImport(task)
    \/ FolderChanges

Spec == Init /\ [][Next]_listVars

-----------------------------------------------------------------------------
(* Properties. *)

(* The preferences hold the stores that were added, and none that was deleted  *)
(* or whose folder was gone, in whatever order pages, saves and clones of two  *)
(* windows end and however old the rows are they show.  A preferences file     *)
(* that cannot be read is the exception: the next change of the list loses all *)
(* other stores.                                                               *)
StoresAreKept == ~misread => configured = wanted

(* The import page shows that it is busy exactly while its one import is under *)
(* way, also when it was left meanwhile and its worker dies.                   *)
ABusyImportIsRunning ==
    /\ importPage.busy = (imports # {})
    /\ Cardinality(imports) <= 1

=============================================================================
