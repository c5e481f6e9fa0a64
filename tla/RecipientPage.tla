---------------------------- MODULE RecipientPage ----------------------------
(***************************************************************************)
(* The store-keys page: one page, opened again for every store, driven by  *)
(* the single UI thread.  Workers read and write the disk; their answers   *)
(* come back as later steps of the UI thread, when the user may have       *)
(* edited, changed the scope or opened the page for another store.         *)
(*                                                                         *)
(*   crates/keycord-stores/src/ui/recipient_page/mod.rs   opening, loading *)
(*   crates/keycord-stores/src/ui/recipient_page/save.rs  saving           *)
(*   crates/keycord-stores/src/ui/recipient_page/list.rs  edits, scopes    *)
(*   crates/keycord-keys/src/ui/key_management/recipient_list.rs           *)
(*                                                        the key listing  *)
(***************************************************************************)
EXTENDS Naturals

CONSTANTS
    Stores,       \* store directories
    Scopes,       \* directories of a store that may have a .gpg-id
    Root,         \* the store's own directory, "." in the code
    Settings,     \* what a .gpg-id can say: recipients, any or all keys
    Keyless,      \* the settings that name no recipient
    Blank,        \* no recipient, any key: what a missing file reads as
    NoFile,
    Known,        \* the stores listed in the preferences at the start
    Slots,        \* places for save workers; bounds how many run at once
    MaxOpens,     \* bound on the times the page is opened
    MaxEdits,     \* bound on edits, scope changes and save shortcuts
    MaxReloads,   \* bound on reloads and on key inventory changes
    MaxFailures,  \* bound on saves that fail or meet a locked key
    MaxDeaths     \* bound on page loads whose worker dies

ASSUME PageAssumption ==
    /\ Root \in Scopes
    /\ Keyless \subseteq Settings
    /\ Blank \in Keyless
    /\ NoFile \notin Settings
    /\ Known \subseteq Stores

Places == Stores \X Scopes
Requests == [store : Stores, mode : {"create", "edit"}]
NoRequest == [mode |-> "none"]
NoSave == [phase |-> "free"]
NoListing == [generation |-> 0, request |-> NoRequest]

VARIABLES
    disk,      \* [Stores -> [Scopes -> Settings \cup {NoFile}]]
    known,     \* the stores in the preferences
    page,      \* the page's cells, see TypeOK
    loads,     \* page loads whose answer has not been applied
    listing,   \* the key listing that runs and the one that waits
    saves,     \* [Slots -> a save worker, or NoSave]
    used       \* how much of each bound is spent

vars == <<disk, known, page, loads, listing, saves, used>>

Spend(what, bound) ==
    /\ used[what] < bound
    /\ used' = [used EXCEPT ![what] = @ + 1]

-----------------------------------------------------------------------------
(* What a load worker reads *)

ValueAt(s, d) == IF disk[s][d] = NoFile THEN Blank ELSE disk[s][d]

\* Directories with a .gpg-id of their own; a copy of the root's is left out.
RelevantScopes(s) ==
    LET own == {d \in Scopes : /\ disk[s][d] # NoFile
                               /\ d = Root \/ disk[s][d] # disk[s][Root]}
    IN IF own = {} THEN {Root} ELSE own

FirstScope(ds) == IF Root \in ds THEN Root ELSE CHOOSE d \in ds : TRUE

\* load.values says what the load is for: "keep" what the page shows, "read"
\* the store, or "provided": a new store starts with no recipient.
LoadedFrom(load) ==
    LET found == RelevantScopes(load.request.store)
        scopes == IF load.values = "provided" THEN found \cup {load.scope}
                                              ELSE found
        scope == IF load.scope \in scopes THEN load.scope
                                          ELSE FirstScope(scopes)
        replaces == load.values # "keep" \/ scope # load.scope
    IN [scopes |-> scopes, scope |-> scope, replaces |-> replaces,
        settings |-> IF load.values = "provided" \/ ~replaces
                     THEN Blank ELSE ValueAt(load.request.store, scope)]

Fallback(load) ==
    [scopes |-> {Root}, scope |-> Root,
     replaces |-> load.values = "provided", settings |-> Blank]

-----------------------------------------------------------------------------
(* The page's cells.  A handler is a function of the page it starts from.   *)
(* chosenFor is a history cell: the place whose settings the page shows,    *)
(* <<>> while it has shown none.                                            *)

Dirty(p) == p.shown # p.saved

Show(p, place, settings) ==
    [p EXCEPT !.shown = settings, !.saved = settings, !.chosenFor = place]

Loading(p) == [p EXCEPT !.generation = @ + 1, !.loading = TRUE]

NewLoad(p, values) ==
    [generation |-> p.generation + 1, request |-> p.request, scope |-> p.scope,
     values |-> values, read |-> FALSE, answer |-> Fallback([values |-> values])]

Current(p, generation, request) ==
    p.generation = generation /\ p.request = request

\* Slip: a listing asked for while one runs is forgotten.
StartListingUnlessRunning(generation, request) ==
    LET next == [generation |-> generation, request |-> request]
    IN listing' = IF listing.running = NoListing
                  THEN [listing EXCEPT !.running = next] ELSE listing

\* The listing is single-flight and keeps only the latest request that waits.
StartListing(generation, request) ==
    LET next == [generation |-> generation, request |-> request]
    IN listing' = IF listing.running = NoListing
                  THEN [listing EXCEPT !.running = next]
                  ELSE [listing EXCEPT !.waiting = next]

-----------------------------------------------------------------------------
(* Saving *)

FreeSlots(s) == {i \in Slots : s[i] = NoSave}

StartSave(p, s) ==
    /\ FreeSlots(s) # {}
    /\ page' = [p EXCEPT !.inFlight = TRUE, !.queued = FALSE]
    /\ saves' = [s EXCEPT ![CHOOSE i \in FreeSlots(s) : TRUE] =
                     [request |-> p.request, scope |-> p.scope,
                      settings |-> p.shown, chosenFor |-> p.chosenFor,
                      phase |-> "running"]]

\* save_store_recipients_async: nothing to save, an unlock dialog first, a save
\* that already runs, or a worker.
SaveNow(p, s, mayPrompt) ==
    IF p.request = NoRequest \/ p.shown \in Keyless THEN page' = p /\ saves' = s
    ELSE IF ~Dirty(p) THEN page' = [p EXCEPT !.queued = FALSE] /\ saves' = s
    ELSE \/ /\ mayPrompt
            /\ page' = [p EXCEPT !.prompts = @ \cup {"git"}]
            /\ saves' = s
         \/ p.inFlight /\ page' = [p EXCEPT !.queued = TRUE] /\ saves' = s
         \/ ~p.inFlight /\ StartSave(p, s)

Autosave(p, s) ==
    IF p.request = NoRequest \/ p.shown \in Keyless \/ ~Dirty(p)
    THEN page' = p /\ saves' = s
    ELSE IF p.inFlight THEN page' = [p EXCEPT !.queued = TRUE] /\ saves' = s
    ELSE SaveNow(p, s, TRUE)

\* Slip: only the save that succeeds takes the in-flight mark away.
FinishSaveOnSuccess(p, s, includeDirty) ==
    LET done == [p EXCEPT !.inFlight = ~includeDirty]
    IN IF p.queued \/ (includeDirty /\ Dirty(p))
       THEN Autosave([done EXCEPT !.queued = FALSE], s)
       ELSE page' = done /\ saves' = s

\* finish_store_recipients_save
FinishSave(p, s, includeDirty) ==
    LET done == [p EXCEPT !.inFlight = FALSE]
    IN IF p.queued \/ (includeDirty /\ Dirty(p))
       THEN Autosave([done EXCEPT !.queued = FALSE], s)
       ELSE page' = done /\ saves' = s

-----------------------------------------------------------------------------
(* Opening the page and loading it *)

Opened(s, mode) ==
    LET p == [page EXCEPT !.request = [store |-> s, mode |-> mode],
                          !.scopes = {}, !.scope = Root,
                          !.inFlight = FALSE, !.queued = FALSE]
    IN IF mode = "edit" THEN Show(p, <<s, Root>>, Blank) ELSE p

OpenEdit(s) ==
    /\ s \in known
    /\ Spend("opens", MaxOpens)
    /\ page' = Loading(Opened(s, "edit"))
    /\ loads' = loads \cup {NewLoad(Opened(s, "edit"), "read")}
    /\ UNCHANGED <<disk, known, listing, saves>>

\* A folder that is not empty is added to the preferences and its page opened;
\* the changed store list then reloads the page.
AddExisting(s) ==
    LET p == Opened(s, "edit")
    IN /\ s \notin known
       /\ Spend("opens", MaxOpens)
       /\ known' = known \cup {s}
       /\ page' = Loading(Loading(p))
       /\ loads' = loads \cup {NewLoad(p, "read"), NewLoad(Loading(p), "keep")}
       /\ UNCHANGED <<disk, listing, saves>>

OpenCreate(s) ==
    /\ \A d \in Scopes : disk[s][d] = NoFile
    /\ Spend("opens", MaxOpens)
    /\ page' = Loading(Opened(s, "create"))
    /\ loads' = loads \cup {NewLoad(Opened(s, "create"), "provided")}
    /\ UNCHANGED <<disk, known, listing, saves>>

Reload ==
    /\ page.request # NoRequest
    /\ Spend("reloads", MaxReloads)
    /\ page' = Loading(page)
    /\ loads' = loads \cup {NewLoad(page, "keep")}
    /\ UNCHANGED <<disk, known, listing, saves>>

\* A key was generated, imported, removed, unlocked or locked.
KeyInventoryChanged ==
    /\ page.request # NoRequest
    /\ Spend("reloads", MaxReloads)
    /\ page' = Loading(page)
    /\ StartListing(page.generation + 1, page.request)
    /\ UNCHANGED <<disk, known, loads, saves>>

LoadReads(l) ==
    /\ l \in loads /\ ~l.read
    /\ loads' = (loads \ {l})
                    \cup {[l EXCEPT !.read = TRUE, !.answer = LoadedFrom(l)]}
    /\ UNCHANGED <<disk, known, page, listing, saves, used>>

Applied(l) ==
    LET p == [page EXCEPT !.scopes = l.answer.scopes, !.scope = l.answer.scope]
    IN IF l.answer.replaces
       THEN Show(p, <<l.request.store, l.answer.scope>>, l.answer.settings)
       ELSE p

\* complete_store_recipients_page_load
CompleteLoad(l) ==
    /\ loads' = loads \ {l}
    /\ IF Current(page, l.generation, l.request)
       THEN /\ StartListing(l.generation, l.request)
            /\ IF l.values = "provided" THEN Autosave(Applied(l), saves)
               ELSE page' = Applied(l) /\ UNCHANGED saves
       ELSE UNCHANGED <<page, listing, saves>>
    /\ UNCHANGED <<disk, known>>

LoadEnds(l) == l \in loads /\ l.read /\ CompleteLoad(l) /\ UNCHANGED used

LoadDies(l) ==
    /\ l \in loads /\ ~l.read
    /\ Spend("deaths", MaxDeaths)
    /\ CompleteLoad(l)

ListingEnds ==
    LET l == listing.running
        waits == listing.waiting # NoListing
    IN /\ l # NoListing
       /\ listing' = [running |-> listing.waiting, waiting |-> NoListing]
       /\ page' = IF ~waits /\ Current(page, l.generation, l.request)
                  THEN [page EXCEPT !.loading = FALSE] ELSE page
       /\ UNCHANGED <<disk, known, loads, saves, used>>

-----------------------------------------------------------------------------
(* The user.  The rows are hidden while the page loads. *)

Edit(settings) ==
    /\ page.request # NoRequest /\ ~page.loading
    /\ settings # page.shown
    /\ Spend("edits", MaxEdits)
    /\ Autosave([page EXCEPT !.shown = settings], saves)
    /\ UNCHANGED <<disk, known, loads, listing>>

\* Slip: the scope changes, the settings shown stay.
SelectScopeOnly(d) ==
    /\ page.request # NoRequest /\ ~page.loading
    /\ d \in page.scopes \ {page.scope}
    /\ Spend("edits", MaxEdits)
    /\ page' = [page EXCEPT !.scope = d]
    /\ UNCHANGED <<disk, known, loads, listing, saves>>

SelectScope(d) ==
    /\ page.request # NoRequest /\ ~page.loading
    /\ d \in page.scopes \ {page.scope}
    /\ Spend("edits", MaxEdits)
    /\ page' = Show([page EXCEPT !.scope = d], <<page.request.store, d>>,
                    ValueAt(page.request.store, d))
    /\ UNCHANGED <<disk, known, loads, listing, saves>>

SaveShortcut ==
    /\ page.request # NoRequest
    /\ Spend("edits", MaxEdits)
    /\ SaveNow(page, saves, TRUE)
    /\ UNCHANGED <<disk, known, loads, listing>>

\* Slip: the dialog's end is the end of the save.
GitPromptCancels ==
    /\ "git" \in page.prompts
    /\ page' = [page EXCEPT !.prompts = @ \ {"git"}]
    /\ UNCHANGED <<disk, known, loads, listing, saves, used>>

\* Unlocked or dismissed, the save goes on; dismissed, without a signature.
GitPromptEnds ==
    /\ "git" \in page.prompts
    /\ SaveNow([page EXCEPT !.prompts = @ \ {"git"}], saves, FALSE)
    /\ UNCHANGED <<disk, known, loads, listing, used>>

\* The key is unlocked: the page is reloaded and the save tried again.
KeyPromptSucceeds ==
    LET p == [page EXCEPT !.prompts = @ \ {"key"}]
    IN /\ "key" \in page.prompts
       /\ loads' = loads \cup {NewLoad(p, "keep")}
       /\ SaveNow(Loading(p), saves, TRUE)
       /\ UNCHANGED <<disk, known, listing, used>>

KeyPromptDismissed ==
    /\ "key" \in page.prompts
    /\ page' = [page EXCEPT !.prompts = @ \ {"key"}]
    /\ UNCHANGED <<disk, known, loads, listing, saves, used>>

-----------------------------------------------------------------------------
(* Save workers *)

Running(i) == saves[i].phase = "running"

SaveLands(i) ==
    /\ Running(i)
    /\ disk' = [disk EXCEPT ![saves[i].request.store][saves[i].scope] =
                    saves[i].settings]
    /\ saves' = [saves EXCEPT ![i].phase = "saved"]
    /\ UNCHANGED <<known, page, loads, listing, used>>

\* The files of a new store are written, making its Git repository fails.
SaveLandsThenFails(i) ==
    /\ Running(i)
    /\ disk[saves[i].request.store][saves[i].scope] = NoFile
    /\ Spend("failures", MaxFailures)
    /\ disk' = [disk EXCEPT ![saves[i].request.store][saves[i].scope] =
                    saves[i].settings]
    /\ saves' = [saves EXCEPT ![i].phase = "failed"]
    /\ UNCHANGED <<known, page, loads, listing>>

\* "locked" is the error that names a private key to unlock.
SaveFails(i, how) ==
    /\ Running(i)
    /\ Spend("failures", MaxFailures)
    /\ saves' = [saves EXCEPT ![i].phase = how]
    /\ UNCHANGED <<disk, known, page, loads, listing>>

Freed(i) == [saves EXCEPT ![i] = NoSave]

\* Slip: what the page shows now counts as saved, not what the worker wrote.
MarkedSavedAsShown(i) ==
    IF page.request = saves[i].request /\ page.scope = saves[i].scope
    THEN [page EXCEPT !.saved = page.shown] ELSE page

MarkedSaved(i) ==
    IF page.request = saves[i].request /\ page.scope = saves[i].scope
    THEN [page EXCEPT !.saved = saves[i].settings] ELSE page

EditSaved(i) ==
    /\ saves[i].phase = "saved" /\ saves[i].request.mode = "edit"
    /\ FinishSave(MarkedSaved(i), Freed(i), TRUE)
    /\ UNCHANGED <<disk, known, loads, listing, used>>

\* The new store joins the preferences, the page becomes its edit page, and the
\* changed store list reloads the page.
StoreCreated(i) ==
    LET p == [MarkedSaved(i) EXCEPT !.request = [store |-> saves[i].request.store,
                                                 mode |-> "edit"]]
    IN /\ saves[i].phase = "saved" /\ saves[i].request.mode = "create"
       /\ known' = known \cup {saves[i].request.store}
       /\ loads' = loads \cup {NewLoad(p, "keep")}
       /\ FinishSave(Loading(p), Freed(i), TRUE)
       /\ UNCHANGED <<disk, listing, used>>

\* The store is made, but the preferences cannot be written.
StoreCreatedNotListed(i) ==
    /\ saves[i].phase = "saved" /\ saves[i].request.mode = "create"
    /\ Spend("failures", MaxFailures)
    /\ FinishSave(MarkedSaved(i), Freed(i), TRUE)
    /\ UNCHANGED <<disk, known, loads, listing>>

SaveFailed(i) ==
    /\ saves[i].phase = "failed"
    /\ FinishSave(page, Freed(i), FALSE)
    /\ UNCHANGED <<disk, known, loads, listing, used>>

SaveNeedsKey(i) ==
    /\ saves[i].phase = "locked"
    /\ FinishSave([page EXCEPT !.prompts = @ \cup {"key"}], Freed(i), FALSE)
    /\ UNCHANGED <<disk, known, loads, listing, used>>

-----------------------------------------------------------------------------
Init ==
    /\ disk \in [Stores -> [Scopes -> (Settings \ Keyless) \cup {NoFile}]]
    /\ known = Known
    /\ page = [request |-> NoRequest, shown |-> Blank, saved |-> Blank,
               scopes |-> {}, scope |-> Root, chosenFor |-> <<>>,
               inFlight |-> FALSE, queued |-> FALSE, prompts |-> {},
               generation |-> 0, loading |-> FALSE]
    /\ loads = {}
    /\ listing = [running |-> NoListing, waiting |-> NoListing]
    /\ saves = [i \in Slots |-> NoSave]
    /\ used = [opens |-> 0, edits |-> 0, reloads |-> 0, failures |-> 0,
               deaths |-> 0]

LoadStep == \E l \in loads : LoadReads(l) \/ LoadEnds(l)
DeliverStep(i) == \/ EditSaved(i) \/ StoreCreated(i)
                  \/ SaveFailed(i) \/ SaveNeedsKey(i)

Next ==
    \/ \E s \in Stores : OpenEdit(s) \/ AddExisting(s) \/ OpenCreate(s)
    \/ Reload \/ KeyInventoryChanged
    \/ LoadStep
    \/ \E l \in loads : LoadDies(l)
    \/ ListingEnds
    \/ \E settings \in Settings : Edit(settings)
    \/ \E d \in Scopes : SelectScope(d)
    \/ SaveShortcut \/ GitPromptEnds \/ KeyPromptSucceeds \/ KeyPromptDismissed
    \/ \E i \in Slots : \/ SaveLands(i) \/ SaveLandsThenFails(i)
                        \/ SaveFails(i, "failed") \/ SaveFails(i, "locked")
                        \/ DeliverStep(i) \/ StoreCreatedNotListed(i)

Spec == Init /\ [][Next]_vars

\* Threads are scheduled, the UI loop polls every answer, and the user ends a
\* dialog that blocks the window.
FairSpec ==
    /\ Spec
    /\ WF_vars(LoadStep) /\ WF_vars(ListingEnds) /\ WF_vars(GitPromptEnds)
    /\ \A i \in Slots : WF_vars(SaveLands(i)) /\ WF_vars(DeliverStep(i))

-----------------------------------------------------------------------------
(* Properties *)

Origins == Places \cup {<<>>}
Listings == [generation : Nat, request : Requests \cup {NoRequest}]

PageType ==
    [request : Requests \cup {NoRequest}, shown : Settings, saved : Settings,
     scopes : SUBSET Scopes, scope : Scopes, chosenFor : Origins,
     inFlight : BOOLEAN, queued : BOOLEAN, prompts : SUBSET {"git", "key"},
     generation : Nat, loading : BOOLEAN]

LoadType ==
    [generation : Nat \ {0}, request : Requests, scope : Scopes,
     values : {"keep", "read", "provided"}, read : BOOLEAN,
     answer : [scopes : SUBSET Scopes, scope : Scopes, replaces : BOOLEAN,
               settings : Settings]]

SaveType ==
    [request : Requests, scope : Scopes, settings : Settings, chosenFor : Origins,
     phase : {"running", "saved", "failed", "locked"}]

\* The cells of the page (StoreRecipientsPageState) and what its workers carry have
\* their types; in particular a load never has the idle generation 0.
TypeOK ==
    /\ disk \in [Stores -> [Scopes -> Settings \cup {NoFile}]]
    /\ known \subseteq Stores
    /\ page \in PageType
    /\ loads \subseteq LoadType
    /\ listing \in [running : Listings, waiting : Listings]
    /\ saves \in [Slots -> SaveType \cup {NoSave}]

\* The in-flight and queued flags never outlive the save they wait for: while one
\* is set, some worker is on its way whose answer clears it.  A flag left behind
\* would stop every later save of the page (save_in_flight.replace(true)).
AWaitingSaveHasACarrier ==
    page.inFlight \/ page.queued => \E i \in Slots : saves[i] # NoSave

\* While the page reads its settings, a load of it or a key listing is pending
\* that will show the rows again; superseded loads never leave the spinner on.
ALoadingPageHasALoader ==
    page.loading =>
        \/ \E l \in loads : Current(page, l.generation, l.request)
        \/ \E l \in {listing.running, listing.waiting} :
               l # NoListing /\ Current(page, l.generation, l.request)

\* The page never waits for an answer that will not come.
EveryWaitHasACarrier == AWaitingSaveHasACarrier /\ ALoadingPageHasALoader

Settled ==
    /\ page.request # NoRequest /\ ~page.loading
    /\ \A i \in Slots : saves[i] = NoSave

\* A page at rest whose settings name a recipient and are not dirty shows what the
\* .gpg-id of its store and scope says: no edit counts as saved that is not on
\* disk, whatever was edited, queued, retried or refused while a save ran.
CleanPageShowsTheStore ==
    Settled /\ ~Dirty(page) /\ page.shown \notin Keyless
        => page.shown = ValueAt(page.request.store, page.scope)

\* "Keys for this store": the page opened for a store shows the store's own
\* settings once it has loaded, until the user changes them.
OpenedPageShowsTheStore ==
    Settled /\ used.edits = 0
        => page.shown = ValueAt(page.request.store, page.scope)

\* "Select the private keys that can unlock passwords in this store": what a
\* worker writes was chosen for the store and directory it writes to.
SavesStayInTheirPlace ==
    \A i \in Slots : saves[i] # NoSave =>
        saves[i].chosenFor \in {<<>>, <<saves[i].request.store, saves[i].scope>>}

\* As long as no save fails, an edit that leaves a recipient is saved in the end,
\* also when it is made while another save runs or an unlock dialog is open.
EditsAreSaved ==
    Dirty(page) /\ page.shown \notin Keyless
        ~> ~Dirty(page) \/ page.shown \in Keyless \/ used.failures > 0

\* The page never stays on its spinner.
LoadingEnds == page.loading ~> ~page.loading
=============================================================================
