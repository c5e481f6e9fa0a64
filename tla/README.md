# Keycord: TLA+ models, checks and proofs

Keycord is a GTK front end, written in Rust, for `pass` password stores: trees of
OpenPGP-encrypted `.gpg` files whose recipients are listed in `.gpg-id` files. This
directory holds TLA+ models of the parts of it where the order of steps matters, the TLC
runs that check them, and TLAPS proofs about them. Paths below are relative to the
repository.

## 1. Inventory

| Component | State it keeps | Operations | What is hard | What makes it correct |
| --- | --- | --- | --- | --- |
| Store backend (`crates/keycord-stores`, `crates/keycord-entries/src/integrated.rs`) | `.gpg-id` files, entry files | save recipients of a directory and re-encrypt its scope; read, save, rename, delete an entry | several worker threads without a common lock; failure or death half-way through re-encrypting; two encryption formats ("any key", "all keys") | every entry is encrypted for the nearest `.gpg-id`; no secret is lost or changed by re-encrypting; a common key is never locked out |
| Recipient page (`crates/keycord-stores/src/ui/recipient_page`, `recipient_page.rs`, the rows in `keycord-keys/src/ui/key_management/recipient_list.rs`) | the selected recipients, dirty and in-flight flags, generations of load and save requests, the keys listed last | open, create, edit, autosave, retry, unlock prompts, scope change, key listing | answers of workers that arrive after the page moved on; edits made while a save runs; rows that count keys listed earlier | an edit is saved or still marked dirty; an answer is applied only to the page that asked; a selected key that can be used is kept |
| Store management (`stores/src/ui/management`, `stores/src/management.rs`) | the list of stores in the preferences, the rows of each window, the import page | add, create, clone, delete, prune, import | two windows read, change and write back one list; pages and rows older than the list | no store is lost that nobody deleted |
| Undo of entry operations (`crates/keycord-entries/src/undo.rs`, `src/ui/undo.rs`) | an undo stack per window | delete, rename, move between stores, and their inverses | an undo popped while its worker runs; a step of a two-step move failing | undo brings the entry back or stays on the stack; a move never loses the only copy |
| Git commits (`crates/keycord-git/src/integrated.rs`) | index, head | stage paths, write the tree, read the head, commit, update the ref | two workers committing in one repository | no commit undoes another one |
| Git synchronisation and remotes (`git/src/sync.rs`, `operations.rs`, `status.rs`, `ui/remote.rs`, `ui/store_page.rs`) | branches, remotes, dialogs | fetch, merge, push for each store and remote; add, edit, remove a remote | partial failure; remotes that advance meanwhile; aborted merges; dialogs that answer by an old list | nothing local is lost; the tree is clean after a failed merge; an edit of a remote is made whole or taken back |
| Git audit (`git/src/audit.rs`, `ui/audit.rs`) | a catalog of branches, pages of commits, verdicts | load, load more, leave, verify signatures against the recipients | answers of before the page was left; commits that land while a log is read in several commands | the page shows the log; a commit is verified only by a key that was a recipient |
| Session key cache (`crates/keycord-keys/src/cache.rs`, `store/unlock.rs`, `ui/unlock.rs`) | unlocked certificates with the time of last use, prompts | unlock, peek, borrow, prune, clear | time passing between a readiness check and the use; removal racing an unlock | a key unused for longer than the timeout is never handed out; a prompt answers once |
| Managed keys (`crates/keycord-keys/src/store`, `host_gpg.rs`, `sync.rs`) | key files, hardware manifests, selected key, the host's key ring | import, generate, remove, host synchronisation in both directions | multi-step writes; deletion on one side driven by absence on the other | synchronising never deletes a key that both sides had; after it, both have the same keys |
| Atomic files (`crates/keycord-runtime/src/secure_fs.rs`) | a file and its temporary | create temporary, write, set permissions, sync, rename, sync directory | death, power loss or error between any two steps, two writers | the file holds the old or the new contents; what was answered stays |
| Workers (`crates/keycord-shell/src/background.rs`, `crates/keycord-runtime/src/worker.rs`) | a result channel polled by the UI loop | spawn, deliver, disconnect | a worker that panics | a callback runs exactly once |
| Commands (`crates/keycord-runtime/src/command.rs`) | child process, pipes, threads | spawn, feed input, drain outputs, wait | pipes filling while the parent waits; a descendant that keeps a pipe open | the answer is whole; nobody waits for ever |
| Password list and search (`crates/keycord-entries/src/ui/list`, `search.rs`) | generation counters, rows, an index | load, filter, index in batches, reset, parse a query | batches of an old generation | a stale batch never reaches the list; a field search sees every row |
| Entry page and session (`crates/keycord-entries/src/ui/page`, `session.rs`) | the opened entry, its text, rows, dirty state | open, edit, save, revert, unlock and retry | loads, prompts and saves racing page changes | a text stays with its entry |
| Pass files, one-time passwords (`crates/keycord-entries/src/{file,otp}`) | the lines without values, a row per value | parse, compose, template, clean | values and lines kept apart | an edit changes its line and no other |
| Tools over entries (`crates/keycord-entries/src/ui/tools`) | what was read of all entries | browse values, find weak passwords, export | the list reloads under them, with prompts in a row | a tool that is busy ends; what is kept is complete |
| Window and navigation (`crates/keycord-shell/src/navigation.rs`, `src/window`) | the stack of pages, one header bar, disabled actions | push, pop, restore, cover while Git runs | busy pages popped while work runs | the header is of the visible page; the window does not stay busy |
| Updater and setup (`crates/keycord-lifecycle`) | download and install state, the parts of an installed program | check, download, cancel, install, add to and remove from the menu | cancellation racing completion; half an installation | only the release that was verified is installed, and whole |
| Preferences (`crates/keycord-preferences`) | the settings in a file or in GSettings, the rows of each window | click, confirm, refresh, read, write | rows that are changed before a write that fails; two windows; a file that cannot be parsed | a row shows its setting; what was chosen is kept |
| Host backend (`crates/keycord-entries/src/host.rs`, `stores/src/host.rs`) | the files of the store, the preference that chooses the backend | read, save, rename, delete through `pass`; the first recipients of a store | a look at the files, a check and a command with other programs in between; `pass` answers that all is well when its question was declined | a call touches its entry and no other; a passkey stays where its name says |
| Hardware keys (`keys/src/hardware`, `keys/src/ui/key_management/hardware.rs`) | the card itself, the setup page of each window, the stored keys | set up a card, add it, import a public key for it, use it | a dozen transactions with a card that may be taken out or set up elsewhere between any two; tries that run out | a stored key is on its card; a setup ends with the PIN its user chose and all tries left |
| Starting the program (`src/main.rs`, `shell/src/application.rs`, `entries/src/launch.rs`, `lifecycle/src/search_provider.rs`) | one primary instance, what its next activation shows, the results the desktop has | run with arguments, open files, activate, search, activate a result | arguments of a second instance; what an activation leaves for the next; results that are older than the store | a launch opens what it was asked for |
| Passkeys (`crates/keycord-passkey`) | the file that was opened, the record on the entry page | recognise, read, validate, import | a file that changes between the looks at it; formats told apart by their fields | only a bounded regular file is read; what is imported can be read again |
| Architecture checks, UI fragments, build support (`crates/keycord-architecture`, `keycord-ui-fragments`, `lifecycle/src/build_support`) | the sources, the policy, the data directory of earlier builds | check, compose the window, merge data | sources read without a parser; a directory that stays from build to build | what passes keeps the rules and can be built; data is current after a build |
| Documentation viewer | see `PROJECT.json` | | | |

The components meet in the composition crate (`src/composition`): the UI controllers start a
worker (a thread) per operation; the worker calls a backend, integrated or host, which
changes files and then commits to Git; the result goes back through a channel to the UI
loop, where a callback applies it. No lock is held across an operation: two workers of one
window, or of two windows, interleave at every file access.

Behaviours that are hard, in the order in which they cost most: (1) a worker's file accesses
interleaved with another worker's, with a sync or with the UI thread; (2) an operation of
several writes that fails or dies in the middle; (3) answers applied to a page or a list that
has moved on; (4) undo and rollback acting on files that are no longer what they were;
(5) commits built from an index, a tree and a HEAD read at different moments. `PROJECT.json`
lists them one by one, at their lines, under `hazards`.

## 2. Plan

The order in which the modules were written is the order of what could be lost: first the store
on disk (`RecipientScopes`, `RecipientStore`, `RecipientVault`), the page that edits it
(`RecipientPage`), Git (`CommitHistory`, `GitStore`), undo (`EntryUndo`) and host synchronisation
(`KeySync`); then what surrounds them: unlocked keys and prompts (`SessionKeys`), the updater
(`Updater`), file replacement (`FileRegister`, `AtomicFile`), the list and its search
(`PasswordList`, `SearchQuery`), the entry page and its text (`EntryPage`, `EntryText`), the audit
(`AuditPage`, `CommitVerdicts`), the tools (`ToolPages`), remotes (`StoreRemotes`), stores
(`StoreList`), offered keys (`KeyRows`), the preferences (`SettingsRows`), the window
(`WindowPages`), commands (`Commands`), the installed program (`LocalInstall`), cards (`CardSetup`)
and the Host backend (`HostEntries`), and last what is before and beside it: starting the program
with its files (`Launch`) and the workspace it is built from (`Workspace`).

Three abstract specifications are implemented: `RecipientVault` by `RecipientStore`,
`CommitHistory` by `GitStore`, `FileRegister` by `AtomicFile`.

A composition of `RecipientPage` with `RecipientStore` (the page's worker as the store's job)
is left out on purpose: the page depends on the store only through "the save succeeded or
failed, and the file holds the new or the old settings", which are the page's `SaveLands`,
`SaveFails` and `SaveLandsThenFails`. Components that do share state are composed by hand:
the key listing and the page's load in `KeyRows`, the list's reloads and the tools in `ToolPages`,
the page's stack, its reads and its prompts in `EntryPage`.

Proofs followed the same order: the store and its refinement, the page, Git, keys and files,
then the components that `MCKeySync` and `MCWindow` put side by side, undo, the Host backend, the
verdicts on commits, the entry page, and the pages that `MCPages` puts beside Git: the list, the
tools, the audit and the remotes. Next, should this be continued: undo in two windows over the same
files.

## 3. The modules and the code

### RecipientScopes, RecipientStore, RecipientVault

State: `gpgid` (the `.gpg-id` of each directory), `entry` (the `.gpg` files, each a secret and
the stack of key sets that must be peeled off), `unlocked` (the session's keys), and per worker
thread `pc`, `job`, `todo`, `plain` (decrypted entries in memory) and `prev` (the file to roll
back to).

| Action | Code |
| --- | --- |
| `BeginRecipientSave`, `ReadEntry`, `RejectRecipientSave` | collecting and decrypting the scope, `stores/src/integrated.rs` `decrypted_store_entries` |
| `WriteRecipientFile`, `Reencrypt`, `Rollback`, `FinishRecipientSave` and the failing variants | `with_updated_recipient_file` and the closure given to it |
| `BeginEntrySave`, `WriteEntry`, `WriteEntryFails` | `save_entry_bytes_with_progress` |
| `DeleteEntry`, `RenameEntry` | `delete_password_entry`, `rename_password_entry` (the ciphertext is kept) |
| `UnlockKey`, `LockKey`, `Crash` | the session key cache, the end of the process |

`RecipientScopes` holds what both levels share: the nearest `.gpg-id`, and `Layers`/`Encrypt`,
the two formats. `RecipientVault` is the promise: recipients are replaced together with the
encryption of every entry they govern, in one step.

Abstractions: an entry is read in one step, the `.gpg-id` and the ciphertext together; the checks of an entry save happen in
`BeginEntrySave` and its write in `WriteEntry`; recipient ids are resolved and without
duplicates; the Git commit that ends an operation is in `GitStore`; the first `.gpg-id` of an
empty store is part of `Init`.

### RecipientPage

State: `disk` (settings per store and directory), `known` (stores in the preferences), `page`
(the cells of `StoreRecipientsPageState`: request, shown and saved settings, scope, in-flight
and queued flags, open dialogs, load generation), `loads`, `listing` (the running and the
waiting key inventory load), `saves` (save workers), `used` (bounds).

| Action | Code |
| --- | --- |
| `OpenEdit`, `AddExisting`, `OpenCreate`, `Reload`, `KeyInventoryChanged` | `show_store_recipients_page` and its callers in `ui/management` |
| `LoadReads`, `LoadEnds`, `LoadDies`, `ListingEnds` | the load worker, its answer, `InventoryLoadController` |
| `Edit`, `SelectScope`, `SaveShortcut` | `recipient_page/list.rs`, the save action |
| `SaveLands`, `SaveFails`, `SaveLandsThenFails` | the save worker |
| `EditSaved`, `StoreCreated`, `StoreCreatedNotListed`, `SaveFailed`, `SaveNeedsKey` | the answer, `recipient_page/save.rs` |
| `GitPromptEnds`, `KeyPromptSucceeds`, `KeyPromptDismissed` | the unlock dialogs |

Abstractions: recipients and the private-key requirement are one value of `Settings`; the rows
a page hides while it loads cannot be clicked; a created store starts without recipients;
`chosenFor` is a history cell (the place whose settings are shown). A failed save leaves the
old file: what a failed rollback leaves is `RecipientStore`'s subject.

### GitStore, CommitHistory

State: working tree, index, conflicted files, `merging` (a MERGE_HEAD), `commits` with their
trees and pasts, `head`, the remotes' branches, the tracking refs, a `job` per save worker, the
`sync` worker. Each git command is one process and one step.

| Action | Code |
| --- | --- |
| `Save` | the file write of an entry or recipient save, before its commit |
| `StageGitPaths`, `StagedGitPathsHaveChanges`, `WriteGitTree`, `HeadOid`, `UpdateGitHead`, `CommitRefused`, `CommitFails` | `git/src/integrated.rs` `commit_git_paths`, in its order |
| `StartSync` | `sync_store_repository` with the status check of `status.rs` |
| `FetchStoreGitRemote`, `MergeFastForward`, `MergeStoreGitRemoteBranch`, `MergeConflicts`, `MergeRefused`, `NothingToMerge`, `AbortStoreGitMerge`, `PushStoreGitRemoteBranch`, `PushRejected`, `SyncFails`, `SyncAnswered` | `git/src/sync.rs`, remote after remote |
| `ForeignCommit` | another device pushing (external) |

`CommitHistory` is what Git promises a synced store: histories are sets that only grow.

Abstractions: the status is read in one step; creating the commit object and the update-ref are
one step, since only the second can be refused; a merge is a three-way merge per file and a
conflict leaves our content in the tree, as for binary files; signatures, identities and
messages are left out; `seen`, `here` and `used.during` are history.

### EntryUndo

State: `files` (the text each store and label decrypts to), `undo` (the stack), `page` (the entry
page and the text it was opened with), per worker slot `job` (the phase and what it reads,
writes and removes) and `cause` (who started it), `seen` (history), `used` (bounds).

| Action | Code |
| --- | --- |
| `MoveEntryToStore`, `DeleteEntry`, `RenameRow`, `RenameRowFails` | `ui/list/row.rs` |
| `ContextUndo`, `UndoUnavailable`, `UndoDone`, `Failed` | `ui/undo.rs` |
| `ReadPasswordEntry`, `CheckEntryIsNew`, `SavePasswordEntry`, `DeletePasswordEntry`, `RollBack`, `RenamePasswordEntry` and the failing variants | `undo.rs` calling the entry port, `integrated.rs` |
| `RowDone`, `DetachedRowDone` | the row's callback; a row that a list reload removed finds no window (`session.rs`) |
| `OpenPage`, `NewPage`, `ClosePage`, `SavePage`, `SavePageUnrenamed`, `SavePageFails` | `ui/page/mod.rs` |

`UndoPlan` says which calls undo which action. An action on the stack carries, as history, the
files before and after what it undoes. Abstractions: reading an entry for the page is one step;
a page save and a row rename run on the UI thread and are single steps; a text the user types is
new, so that a text tells which entry it came from; encryption and keys are in `RecipientStore`
(here: a read may fail).

### KeySync

State: `has` (the keys with their secret part on each side), `enabled` (the preference), per
window `win` (open; `recipient_sync_to_host_pending`; a load is queued) and `making` (a key being
generated or imported), `job` (what the sync of a window's load, or of the UI thread, has listed,
copied and still has to do), `ui` (why the UI thread synchronizes), `seen` (history), `used`
(bounds).

| Action | Code |
| --- | --- |
| `ListSource`, `ListTarget`, `ExportKey`, `AllExported`, `CopyKey`, `AllCopied`, `PruneKey`, `AllPruned`, `CallFails` | `keys/src/sync.rs`, a call to gpg or to `store/storage.rs` a step |
| `Refresh`, `LoadAnswered`, `LoadDies` | `recipient_list.rs`: a load runs, at most one waits (`InventoryLoadController`) |
| `MakeKey`, `StoreKey`, `KeyMade`, `KeyNotMade`, `RemoveKey` | `ui/key_management/private.rs`, the delete button, keys in pass files (`entries/src/ui/page/mod.rs`) |
| `NewWindow`, `TurnOn`, `TurnOff`, `UiSyncEnds`, `NotSaved` | `create_main_window`, `preferences/src/ui/settings.rs`, a sync that fails turns itself off |
| `Exit`, `HostMakesKey`, `HostRemovesKey` | the process ends; gpg (external) |

Both directions are one action with `Source` and `Target` swapped. They differ in their order of
listing (each lists its source first) and in one filter: keys without a passphrase, which only
the host can have, are not exported. Abstractions: hardware keys are left out, since a sync
neither exports nor deletes them, and so are key files that cannot be read (the app does not list them, and
the next sync to the host deletes the host's copy); the preflight before turning on only reads
and can only fail, which a failing first call does as well; the inventory that a load shows; one
key at a time is made in a window; windows do not close one by one.

### SessionKeys

State: `keyFile`, `cardDir` (what is stored), `cards` (connected), `cache` (per kind of key, the
time of last use), `prompts` and the `answers` their callers got, `keyJobs`, `clock`.

| Action | Code |
| --- | --- |
| `Prompt` | `keys/src/ui/unlock.rs`: the dialog, its worker, its closed handler |
| `BeginJob`, `Job` | import, remove and use, `store/storage.rs`, `store/unlock.rs`, call by call |
| `Tick`, `MoveCard` | time and cards (external) |

`cache.rs` drops what lay idle when it is looked at and not before, so pruning is part of every
access. `lastUse` and `idleUse` are history.

### Updater

State: `updater` (the controller), dialogs, per run the `worker`, its `folder` and its messages in
`inbox`, `cancelled` flags, `launched`. Every message carries the number of its run; the user may
act between any two steps of a worker. `CheckForUpdates`, `AfterWindowPresented`,
`HandleWorkerMessage`, `CloseDialog`, `BeginInstallFlow`, `AnswerConfirmation`, `Shutdown` are the
controller's methods in `updater/common.rs`, `Worker` the steps of the two kinds of worker.

### LocalInstall

State: `parts` (what is in the user's directories, per file its version or half of one), `app` and
`helper` (the running program and the downloaded one), `work`, the row's `title`. `AddPart`,
`RemovePart`, `PartFails`, `AllDone` walk through `install_locally` and `uninstall_locally`
(`lifecycle/src/setup.rs`) in their order; `LaunchUpdate`, `RunAutoInstall`, `AppQuits` are
`updater/linux.rs`. A file that runs cannot be overwritten and, once unlinked, not be copied.

### CardSetup

State: `card` (connected, PIN and tries left, admin tries, keys, certificate), `page` and `picking`
of each window, `cardJobs` (a setup or an import and the stage it is at), `stored` (keys with the
card they are on). `Setup` walks through `TryPin`, `EnterAdminPin`, `GenerateKeys`,
`ReadFingerprints`, `Certify`, `EnsurePin`, `ValidateHardwareKeyMaterial` and `StoreKey` in the order of
`hardware/linux.rs`, one transaction with the card a step, each of which may fail; `MoveCard` and
`SetUpElsewhere` are what happens to a card meanwhile. `counting` tells the two ways a card
refuses a PIN apart. `superseded`, `mistried` and `shared` are history.

### AtomicFile, FileRegister

A write of `secure_fs.rs` call by call (`CreateTemp`, `WriteAll`, `ApplyTargetPermissions`,
`SyncAll`, `ReplaceFile`, `SyncParentDir`) by several threads, `Fails` at each of them,
`ProcessDies` and `PowerIsLost`: then the disk may have any file renamed since the directory was
brought to it, and what was not synced is torn. `FileRegister` is what the other modules assume
of a file: it holds one whole content, and what was answered survives.

### PasswordList, SearchQuery

`PasswordList` has the reloads of `ui/list/mod.rs` and the index of `ui/list/search`: a worker
collects, idle callbacks append rows in batches, a second worker indexes; `OnWorker` and
`OnMainLoop` are the steps of one `task`, which carries the generation it was started in.
`SearchQuery` is the parser and matcher of `search.rs` over words, against a grammar and a
reference meaning written independently of the recursion; its only step appends a word.

### EntryPage, EntryText

`EntryPage`: the one entry page of a window, `opened` (the session's entry), what the page shows
(`display`, `editor`, `row`, `raw`), what was `saved`, and the `reads`, `prompts` and `undoing`
under way; `UserStep` are the clicks of `ui/page/mod.rs`, `linux.rs` and `ui/actions.rs`,
`Answer` the callbacks. `EntryText`: the text as lines, taken apart into `templates` and rows as in
`file/parse.rs`, put together as in `file/compose.rs`, and edited by row, raw, template and
cleaning (`file/clean.rs`, `file/templates.rs`). White space and `:` inside values are left out.

### HostEntries

State: the `file` of each label, `ids` (a `.gpg-id`) and `history` (a repository) of the store,
`integrated` (the preference), `calls` (what each thread asked and how far it is). `Validate` and
`Look` are the checks of `entries/src/host.rs`, `Show`, `Insert`, `Move` and `Remove` what `pass` may do
and answer (external), `TryInitialize`, `PassInit` and `EnsureGitRepository` the saving of recipients in
`stores/src/host.rs`, `Integrated` the other backend in one step, `OtherProgram` and `ChangeBackend`
what happens between two steps. `raced` marks a call whose entry was changed under it.

### AuditPage, CommitVerdicts

`AuditPage`: the catalog and the pages of `git/src/ui/audit.rs` and their workers.
`CommitVerdicts`: `git/src/audit.rs`, one git command a step, between which commits land and the
host is turned off; keys are named by fingerprint or by a user id all of them carry.

### ToolPages

The browser of values, the scan and the export (`entries/src/ui/tools`): a use takes the rows, a
worker looks which keys are locked, prompts follow one another, a second worker reads. Each
unlocked key reloads the list; the user may go elsewhere at any time.

### StoreRemotes, StoreList

`StoreRemotes`: the pages and dialogs over a store's remotes in two windows, and the git commands
of an answer one by one, with errors, a kill and changes made outside. `StoreList`: the list in
the preferences, each window's rows, create pages, clones, deletes, the pruning of missing folders,
and the import page.

### KeyRows

The keys a recipients page offers: a listing visits the app's keys, the cards or the host's; one
runs at a time and the latest request follows it; an edit draws the rows again from the list the
page has, and what a row allows (`rows`: active, free, removable, locked, unresolved) comes from that
list. `recipient_list.rs` and the
policy in `stores/src/recipient_page.rs`.

### SettingsRows

The rows of the preferences in every window over one file or GSettings schema
(`preferences/src/ui/settings.rs`, `storage.rs`): a row is changed first and its setting written
after, a failed write puts it back, a broken file counts as an empty one. Opening the page sets
every row. The template's text is deleted and inserted, its handler (`settings.rs:515-528`) runs
after each, and so writes an empty template and then the old one: `WriteTemplateAnew`, where either
write may fail and a broken file is overwritten. The other handlers find their setting to be so
already.

### WindowPages

The stack of pages (`pages`) and the header bar, which nothing ties together but the handlers:
the clicks and shortcuts of `src/window/navigation`, the Git operations with their busy page
(`git/src/ui/store_page.rs`, `actions`), the making of a key, import, undo and the reading of an
entry.

### Commands

`run_command_with_input` of `runtime/src/command.rs`: the child, three pipes of bounded size, a
thread on each, the wait and the answer. Bytes are counted. The child is free, its descendant may
keep its pipes, threads may not start or die.

### Launch

The instances of the program (`app`, `provider`, `window`), the arguments that are handled and how
far (`launch`), the `file` they name and the `handle` on it, what the next activation takes
(`pending`), the `results` of the desktop and the entry `page`.

| Action | Code |
| --- | --- |
| `Run`, `DispatchCommandLineArgs`, `Activate`, `Shutdown` | `main.rs`, `shell/src/application.rs`, `passkey/src/ui.rs` `command_line_request`, `open_request_from_files` |
| `Exists`, `SymlinkMetadata`, `OpenRequestFile`, `OpenedMetadata`, `ReadToEnd` | `passkey/src/request.rs` `read_bounded_regular_file`, one call a step |
| `Replace`, `ChangeEntries`, `EditOrSave` | what others, and the user, do meanwhile |
| `BeginPasskeyImport` | `passkey/src/ui.rs` `present_passkey_import`, with the records of `credential.rs` and `passless.rs` |
| `GetResultSet`, `ActivateResult`, `ProviderEnds` | `lifecycle/src/search_provider.rs` |

Documents are requests, with the fields they have and their faults, exchanges, with the places of
their credentials, or text. Words of a command line are its switches, a path, a URI, a word and
the empty word.

### Workspace

The `project` (manifests, sources, policy, fragments, skeletons, data), the `verdict` on it, what was
`built` and the data directory (`merged`). `Edit` changes one part, `Check` is `validate_workspace`
of `architecture/src/lib.rs`, each of its checks an operator of its name, `Build` composes the window
(`ui-fragments/src/lib.rs`) and merges the data (`build_support/workspace_data.rs`), and may be stopped in the
middle of a copy. Sources are sequences of symbols, read as the checker reads them:
comments, strings, raw strings, character literals and test items are told apart by counting braces
and quotes. A crate stands for the crates that a rule treats alike.

## 4. Runs

All bounds are in the `.cfg` files. The runs take one to three minutes. MC modules that host
several components that share nothing choose one at the start, their `focus` (in `MCSearch` the
`subject`, of which the pages are one); it takes all the steps and the others stand still, so the states add up and do not multiply.
Their properties are guarded by `focus` because there is nothing to say of a component that
stands still, and a property with several parts says which component each belongs to.

| Run | Instance | Checks | Shows |
| --- | --- | --- | --- |
| `store_serial` (`MCBackend`) | root and one directory, an entry in each, three keys of which the app manages two, both requirements, two texts, one worker; or a log of two commits, two keys, a user id | `EntriesMatchRecipients`, `QuietReadsReturnTheSecret`, `VerdictsFollowTheRecipients`, `ImplementsVault`, `JobsEnd` | without failures each operation is atomic to an observer between operations, and ends; a verdict follows the recipients |
| `store_faults` (`MCEntryPage`) | as above, calls fail, the process dies; or two entries and four steps of the entry page; or texts of three lines and two edits | `TypesOK`, `SavedScopeIsUnified`, `TextsStayWithTheirEntry`, `ALoadingEntryHasACarrier` | a later save that completes repairs what earlier ones left; a text stays with its entry and an edit in its line |
| `store_concurrent` (`MCWindow`) | two workers, renames across scopes, failures, crashes; or a stack of four of seventeen pages and two Git operations; or pipes of one byte; or two stores and two windows; or two keys with a shared user id; or the preferences in two windows | `CommonKeyOpens`, `WhatIsShownIsCurrent`, `ABusyWindowIsWorking`, `ChoicesAreKept`, `CommandsEndWell`, `FinishKeepsThePage` | a key every file lists is never locked out; window, commands, store list and offered keys stay sound under late answers. Deadlock is checked |
| `store_failed_save` | one worker, calls fail | `RewrittenEntriesAreRestored`, violated | finding 1 |
| `page_single` | one store, one directory, three edits, two failed saves, one dying load | `CleanPageShowsTheStore`, `EditsAreSaved`, `LoadingEnds` | no edit is lost or counts as saved before it is |
| `page_reopened` | one store, two directories, two openings, two edits, a reload | `SavesStayInTheirPlace`, `EveryWaitHasACarrier` | answers of an earlier page leave no flag and no spinner behind |
| `page_added` | a folder added as a store | `OpenedPageShowsTheStore`, violated | finding 2 |
| `git_sync` (`MCSearch`) | two files, two contents, two remotes, one save, two foreign commits, two syncs, one failing command, an abort among them, with or without a first commit; or one branch of four commits; or two entries, two reloads, two queries; or the tools over two reloads; or two names of remotes in two windows; or queries of five words; or two starts of the program and one change by others; or two edits of the workspace | `TypesOK`, `SyncedIsPublished`, `NoMergeIsLeftBehind`, `PagesShowTheNewest`, `FieldSearchSeesEveryRow`, `PartsKeepTheirWord`, `RemotesFollowTheDialogs`, `EveryWaitHasAWorker`, `ImplementsHistory` | a sync that succeeds published everything and histories only grow; lists, tools and audit show what is newest; a launch opens what it was asked for; a workspace that passes its checks keeps the rules and can be built |
| `git_reverted` | one remote, one save, one foreign commit, one sync | `MergedChangesStay`, violated | finding 3 |
| `undo_serial` (`MCStoreFiles`) | two stores, two labels, three texts, a stack of two, four operations, one failure; or two threads that call the Host backend while another program changes the store | `NothingIsLost`, `UndoLeadsBack` | no entry is lost by a move, rename, save or undo, and undoing leads back; the Host backend keeps to the entry it was asked for |
| `undo_moved_twice` | two clicks, no failure | `EntriesSurvive`, violated | finding 4 |
| `keys_sync` (`MCKeySync`) | two keys with a passphrase, one without, two windows, four operations, one failure; or a session key with a prompt, three jobs and three ticks; or two runs of the updater; or two writers, three writes, two faults; or two versions of the program; or a card in two windows | `TypesOK`, `SharedKeysStay`, `KeysSurvive`, `SidesAgree`, `UnlockedKeysAreStoredAndFresh`, `PromptsAnswerOnce`, `OnlyWholeFilesAreKept`, `WhatIsBusyHasACarrier`, `ImplementsRegister` | no sync deletes a key of both sides; for a user who waits no key is lost and the sides agree; what is kept on disk is whole |

Properties with parts: `TypesOK` is the `TypeOK` of each component. `EveryWaitHasACarrier` is
`AWaitingSaveHasACarrier` and `ALoadingPageHasALoader` of `RecipientPage`. `EveryWaitHasAWorker` is
`LoadingAuditHasAWorker` (`AuditPage`) and `ABusyToolIsWorking` (`ToolPages`). `PagesShowTheNewest`
is `CommitsAreTheLog` (`AuditPage`), `ListIsTheNewestReload` (`PasswordList`) and
`KeptValuesAreComplete` (`ToolPages`). `PartsKeepTheirWord` is of what `MCSearch` puts beside
`MCPages`, so that the theorems about `MCPages` reach no recursive operator: `ParsesTheGrammar` and
`IndexIsWaitedFor` of `SearchQuery`; `OpensWhatItWasAskedFor`, `ReadsOnlyBoundedFiles`,
`AcceptsWhatItUnderstands`, `ImportsStayReadable` and `ResultsLeadToTheirEntry` of `Launch`;
`ReadsWhatIsWritten`, `WhatPassesIsBuilt`, `WhatPassesIsOwned`, `WhatPassesKeepsBounds` and
`DataIsCurrent` of `Workspace`. `TextsStayWithTheirEntry` is that of `EntryPage` with `EditsStayInTheirLine` and
`TemplateOnlyAdds` of `EntryText`. `OnlyWholeFilesAreKept` is `OnlyTheReleaseIsKept` (`Updater`),
`FileIsWhole` (`AtomicFile`), `WhatEndsWellIsWhole` and `TheRunningProgramIsWhole`
(`LocalInstall`). `UnlockedKeysAreStoredAndFresh` is that of `SessionKeys` with
`StoredKeysAreOnTheirCard` and `AddedKeysHaveTheirPin` of `CardSetup`. `WhatIsBusyHasACarrier` is
`ABusyUpdaterHasACarrier` (`Updater`) and `ABusySetupIsRunning` (`CardSetup`). `NothingIsLost` is
`EntriesSurvive` (`EntryUndo`) and `CallsKeepToTheirEntry`, `PasskeysStayInTheirPlace` and
`NewStoresHaveAHistory` (`HostEntries`), `UndoLeadsBack` is `UndoReturnsTheFiles` (`EntryUndo`).
`CommandsEndWell` is `AnswersAreWhole` and `NobodyWaitsForEver` (`Commands`). `WhatIsShownIsCurrent` is `HeaderIsOfThePage` (`WindowPages`),
`RowsAreOfTheRecipients` (`KeyRows`) and `RowsShowTheSettings` (`SettingsRows`). `ChoicesAreKept` is
that of `SettingsRows` with `StoresAreKept` (`StoreList`) and `ASelectedKeyStays` (`KeyRows`). `ABusyWindowIsWorking` is that of `WindowPages` with
`ABusyImportIsRunning` of `StoreList`. `page_single`, `undo_serial` and `store_serial` do not run
their `TypeOK`: these are theorems.

Why the bounds are enough. Store: scopes matter only as "mine, a nested one, an enclosing one",
which two directories with an entry each give; re-encrypting loops over entries without state
between them, so two show every order; two layers are an "all keys" entry of two recipients, and
`MaxLayers` lets a half-way save add one. Page: a race needs a save in flight, an edit and one
more event; three edits make an edit during a save that was itself queued. `CleanPageShowsTheStore`
is checked with one recipient file only, see below. Git: two remotes are what it takes for the
second to be fetched before the first is pushed; two foreign commits let a remote move between
fetch and push and both remotes differ; one worker, since two first commits of a branch without
one race (a hazard, and an assumption of the theorem). Undo: a stack of two overflows with the
third action; four operations are a change, two more and an undo. Keys: a
key is on one side, on both or on none, and a second one shows the sync between two deletions;
two windows give two loads and the UI thread; four operations open two windows and let two
changes meet. Session: three ticks against a timeout of two let a key go idle and be used in
between; three jobs are an import, a use and a removal that overlap. Updater: two runs are an old
one whose messages come late and a new one. Files: three writes by two writers let one be
overtaken twice, two faults are a failure and a loss of power. List, audit, tools: an answer is
late by one generation or not at all, so two reloads suffice. Entry page: an opening, a second one
while the first is read, and two more steps. Texts: two fields and a note are the shortest text
in which a value can move to another line. Window: a busy page with a page under it and one above
it needs three, and two Git operations overlap. Cards: one card in two windows is set up by both.
Host backend: two calls and one change outside race at every look. Remotes: adding, renaming and a name taken
meanwhile need two names and two windows. Commands: a pipe of one byte is full after one write.
Starts: a second one finds what the first left; all documents and arguments are tried by the first.
Workspace: one edit breaks a rule or hides it; a second shows data merged over that of a build before.

### Fairness

`store_serial` assumes that a worker thread with a job is scheduled (`WF` of `WorkerStep` per
thread): `spawn_worker` starts an OS thread and nothing in it waits for the user. `page_single`
assumes that load and save threads are scheduled, that the UI loop polls the channels
(`timeout_add_local` in `background.rs`), and that the user ends the Git unlock dialog, which is
modal. Nothing is assumed of the keyring's other dialog, of clicks, of failures or of deaths.
The other runs state safety and assume no fairness.

### Findings

1. A failed recipient save restores the `.gpg-id` and not the entries it had rewritten.
2. Adding a folder as an existing store shows no recipients: the reload after the store list
   changed makes the load that reads them stale.
3. A commit takes a HEAD that a sync has just moved as parent of a tree that was written before,
   and so undoes what the sync merged.
4. A second click on Apply, while a move to another store runs, can delete the entry from both.

## 5. Proofs

All theorems hold for every value of the constants that meets the named assumptions of the
modules, which TLC evaluates in the runs; the modules that a run instantiates have none of their
own, and the proofs about them name what they need as hypotheses. `PROJECT.json` lists the
theorems.

`RecipientStoreProofs` (assumptions `RootAssumption`, `ChainAssumption`, `FileAssumption`,
`StoreAssumption`):

- `TypeCorrect`: `TypeOK` is inductive by itself, once it says what each phase holds.
- `CommonKeyAlwaysOpens`: `CommonKeyOpens` speaks of files, but a worker writes what it has in
  memory. `CommonInv(k)` adds that a decrypted entry has no layer left: re-encrypting it gives
  exactly one, and that holds whatever other workers, failures and crashes do.
- `SerialEntriesMatch`: for one worker and no failing call. Between operations is not
  inductive; `SerialInv` says for each phase which entries follow the old file, which the new
  one, and that what is read and what is to be read are together the scope.
- `SerialReadsReturnTheSecret` follows from it, where every file names a recipient
  (`NamesRecipients`; the code refuses an empty one).
- `SavesUnifyTheirScope`: for one worker, which may fail and die anywhere. `ScopeInv` says of a
  save which entries it has read, which it has rewritten, and that no other of its scope is left.
- `SerialStoreIsAVault`: the refinement of `RecipientVault` for one worker and no failures, a step
  of the vault where a save ends. `VaultInv` ties the texts a worker holds to the entries, and to
  the scope as it was before the directory's file was replaced.

`RecipientPageProofs` (assumption `PageAssumption`): one invariant
`Inv == TypeOK /\ Begun /\ Carried /\ LoaderInv` for the first theorems. `Begun` excludes workers and
dialogs of a page never opened; `Carried` is the flags' part. `LoaderInv` is why
`ALoadingPageHasALoader` holds: nothing pending is younger than the page, and a waiting key
listing is as current as the running one, so the end of one never was the end of both. Two
theorems need more, and hypotheses:

- `SavesWereChosenThere`, for one store and loads that do not die. `Handled` sums up what
  a handler may do about saving: nothing, or start one save of what the page shows. `LoadInv` says
  that each load has a number of its own and that the current one keeps the page loading,
  `PlaceInv` that what is shown or being saved was chosen for its place.
- `CleanPagesShowTheStore`, for one `.gpg-id` and one opening. `CleanInv` says that
  one save at most is busy, that what counts as saved is what the file says unless that save is
  written and not answered, and that only a page to which nothing has happened takes over what a
  load read.

The hypotheses are not for the prover's sake: with a second store, a load that dies, a second
file or a page opened again the properties are false, by the steps section 6 describes.

`MCPagesProofs` begins with the theorems about `GitStore` (assumption `GitAssumption`): `Inv == TypeOK /\ LoopInv /\ TrackingInv /\
FirstCommitInv`. `TrackingInv` (what was fetched is still on the remote) turns a merge into a step
of the promise; `FirstCommitInv` keeps a commit without parent for the branch that has none.
`HistoryOnlyGrows` is the refinement of `CommitHistory`, under `FirstCommitIsSafe` (the branch has a commit,
or there is one worker). `SyncPublishes` needs `SeenInv`, which follows each commit from the
tracking refs to HEAD and to the remotes dealt with. `ConflictsAreAborted` needs `AbortInv`: as
long as no save runs into a sync and no abort fails, a merge that conflicted leaves tree and index
alike, and so its abort has no change to refuse. It also needs `LeftInv`, which holds without that
premise: a merge that is left behind has a remote with the branch that the loop of merges has not
passed, where git refuses to begin another one.

It goes on with the theorems for `AllSpec` of `MCPages`, about the store's types and the four pages of
the `git_sync` run. The one that is chosen at the start takes all the steps (`FocusSteps`), so
`PagesInv` asks of each only its own invariant. `PagesBounds` asks that the bounds are numbers and that
there are windows and names for remotes; branches, entries, URLs and tool entries are any.

- `ListInv` (`PasswordList`): a reload has one task under way at a time, whatever it is by then, and
  the list waits as long as the newest reload has one; what is shown and what is left to show are
  together what it found (`ReloadFits`). An index is likewise one task (`IndexFits`), and one that
  began after the last batch asks for every row that has no fields yet (`SearchFits`): with that its
  end leaves none. `ListIsTheNewestReload` speaks of the list at rest and would not say what a late
  answer may still do. What a worker read of a file is as new as what the reload saw, since versions only grow
  (`DiskFits`, `TasksFit`).
- `AuditInv` (`AuditPage`): what is shown of a branch is what its pages hold (`StatesAreSound`), the
  page under way is the one that comes next (`TasksAreSound`), and no two loads of a branch share a
  number (`TasksDiffer`), so an answer that is not current is known as such.
- `ToolInv` (`ToolPages`): of each tool's uses one at most is current, and it is under way exactly while
  the tool is busy (`FieldsFit`, `WeakFits`, `ExportFits`); the uses exclude each other (`OneIsBusy`).
- `RemoteInv` (`StoreRemotes`): how far an edit has come says what the remotes are like by then, command
  by command (`EditInStep`), and an answer to a dialog that was up to date fits the list it was given
  for (`AnswerFits`).

`MCKeySyncProofs` begins with the theorems about `KeySync` (assumption `SyncAssumption`):
`Inv == TypeOK /\ JobsSound /\ SharedKeysStay`.
A sync deletes what its target has and its source had not when it was listed; `JobsSound` says of
each sync under way that its source's list contains every shared key, and that what it still has
to delete contains none. It also says that a key waiting to be copied has a passphrase, without
which `TypeOK` is not inductive. `KeysAreNotLost` and `RestingSidesAgree` are about a user whom
nothing disturbs: `Calm` says that then one job runs at a time (`OneAtATime`), how far the copy of
each key is (`JobsInStep`, `MakingInStep`), and that the sides agree at rest.

It goes on with the theorems for `AllSpec`, the six components of the `keys_sync` run. No
component reads another's variables, so each invariant is kept by the component's own steps and
by those of the others (`EachStepsOrStays`), and `AllInv` is their conjunction. Beside `Inv` they are:

- for `AtomicFile`: a file beside the one to be written is as far as its writer has come
  (`TempOf`), and whatever the disk may show is whole (`WholeFiles`). With that every step is one of
  `FileRegister` or none (`FilesAreRegisters`): a write takes place where the file is renamed, and a
  loss of power may take it back as long as it was not answered.
- for `SessionKeys`: `RemovalsForget` (whatever is remembered of a removed key is about to be
  forgotten, by the removal that is under way), `CachesHaveTheLastUse`, `PromptsKeepTheirKind`.
- `UpdateInv`, for each run of the updater: its messages (`InboxInv`: one at most, and only of a
  worker that ended), its worker and directory (`WorkerInv`), and who it is that waits for it
  (`ControllerInv`). `OnlyTheReleaseIsKept` speaks of the end of a run and would not say why a
  message that comes late finds nothing to install.
- `InstallInv`: the parts that had their turn are as wanted, and nothing has ended well meanwhile.
- `CardInv`: `CardJobInv` says for each stage of a setup what its card must be like, and that it is
  alone with it if nothing else used the card; `CardCountInv` bounds the keys made by the setups that were started and the
  changes outside, since each may make one; `RunningInv` counts the setups of a window.

`MCWindowProofs` does the same for the six components of the `store_concurrent` run:

- `WindowInv`: no page is on the stack twice, an import lies directly over the tools, and the tools
  never over the busy page (`Ordered`); while that is on the stack the actions and the tools are
  disabled. Without it a page uncovered by an end could be any other than the header's. `FinishesKeepThePage` is an action
  property from the same invariant.
- `CommandInv`: of each pipe, what was taken and what is in it is what was written; a reader that
  ended well drained its pipe and outlived all who could fill it.
- `ListInv`: the import page is busy while its one import runs (`OneImport`).
- `RowInv`: while the page or its keys load, a listing for the recipients the page has runs or waits
  (`ListingInv`); rows that can be clicked are drawn for them.
- `SettingsInv`: a switch that asks is shown as on while its setting is off (`AskedWhileOff`).

`MCStoreFilesProofs` has the theorems for the `undo_serial` run's two components:

- `UndoTypesAreKept` for `EntryUndo`, whether the user waits or not. `Formed` adds to the types that
  every action that can be undone has the places its undo will use.
- `UndoAlwaysLeadsBack` and the undo half of `NothingIsEverLost`, under `Waits`: the user waits for an
  answer before the next click. `UndoInv` says that then one job runs (`OneJob`); that from the files
  at rest the stack leads back change by change, and each action turns the files after into the
  files before it (`Stacked`, `Reverts`); and of a job (`JobInv`) what it has done so far (`Reached`),
  that it heads for what the click meant (`Heads`), and that it writes over nothing the user keeps and
  removes it only once it is elsewhere (`Careful`). Both properties speak of files at rest or at one
  moment, and say nothing of a worker between two calls. Without `Waits` they are false, which the
  run `undo_moved_twice` shows.
- `TheBackendIsSafe`, and with it the other half of `NothingIsEverLost`. `HostInv`: what a call has
  seen still holds when its command runs, unless someone changed it and it is marked (`Checked`); an
  ended call is as the properties say (`Answered`); and a passkey lies elsewhere than its name says
  only where the model has noted it (`Placed`). The proof needs that a passkey's name looks like
  one (`HostBounds`): otherwise a rename would not look at what it moves.

`MCBackendProofs` has `VerdictsAreRight`, for the audit of the `store_serial` run. `VerdictInv` says of
a load that the signers read so far were each named at the branch's tip at some moment since it
began, and that the app's own are among them; of a page that what it shows is right by such a
list. The property speaks of commits shown, and would not say what may be read next. Of the
constants `VerdictBounds` asks that recipient files name keys or user names, that the keys are
finitely many and none of them an SSH key, and that signatures are of the known kinds.

`MCEntryPageProofs` has the theorems about `EntryPage`, in the `store_faults` run. `PageInv` adds to the
property that a worker's answer is the text of the entry it was sent for (`ReadInPlace`); that the
raw page has an owner in common with the rows, which a save from either of them needs; and, for
`ALoadingEntryIsCarried`, that a load without a worker has a dialog for its own entry (`Carried`).
Opening, undoing and answering all go through the same
few lemmas (`AfterOpening`, `AfterShowList`, `AfterSync`), since the code calls the same functions.

Only model-checked:

- liveness (`JobsEnd`, `EditsAreSaved`, `LoadingEnds`), and `CommandsEndWell`, one half of which is
  `ENABLED`: no such formula can be proved with TLAPS. Its other half is `AnswersAreWhole`.
- `PartsKeepTheirWord` and what `EntryText` says of texts: the parser and matcher of queries, the reading of
  sources and the parts of a text are recursive, and induction over data is out of reach; `Launch` is
  beside them. So the parts of `TypesOK` and
  `TextsStayWithTheirEntry` of `MCEntryPage` that are about `EntryText` are only checked by the
  `store_faults` run; those about `EntryPage` are `PageTextsStay`.

## 6. What is not modelled, and what the properties leave out

The components without a module are listed with the reason in `PROJECT.json`. Within the
modelled ones:

- A scope changed and changed back, or a page reopened, while a save runs reads the old file;
  the answer of the save then makes the old settings dirty, and an automatic save can write them
  over the new ones. The steps are in `RecipientPage`; no property says that an automatic
  save never undoes another one, because the code does not have it.
- With two recipient files, a reload that drops the shown scope can leave a page that counts as
  clean and shows the settings from before a save: `CleanPageShowsTheStore` is for one file.
- A recipient save that runs while one of its entries is edited or deleted elsewhere puts the
  old text back. `CommonKeyOpens` is what holds under that interleaving.
- `EntriesSurvive` and `UndoReturnsTheFiles` end with the first change that has no undo on the
  stack: an unreadable row renamed, an undo dropped because the list was reloaded, a page save
  whose rename failed, a call that failed half-way. After such a change an older undo may act on
  another entry's file. They also end with a delete that removes the file and then fails on the
  empty directory: a move then rolls back by deleting the other copy.
- A merge abort throws away a file that a save staged between the merge and the abort.
- A `git merge --abort` that fails is only logged (`sync.rs:51-74`) and leaves `MERGE_HEAD` and the
  conflicts: `SyncFails` takes that step, and the first part of `NoMergeIsLeftBehind` ends with it
  (`used.aborts`). The second part goes on: while the merge is there no sync pushes or reports
  success, though a save may have staged and committed what was in conflict.
- Removing a key asks for another selected key, which may be locked (`recipient_page.rs:133-147`),
  where clearing one asks for another that can be used. `ASelectedKeyStays` says of removals that a
  selected key stays, and of edits without removals that one that can be used stays.
- Opening the preferences while the template cannot be written a second time empties it. The user
  is told of the failure only, and `ChoicesAreKept` takes the empty template for what is left then.
  The page goes on showing the old text. A process that dies between the two writes is not modelled.
- The updater removes the directory of a download in one step that cannot fail; the code ignores
  its failure (`linux.rs:74-81`) and the directory then stays.
- A create page opened over the edited page of another store keeps that store's recipients until
  its load completes, and a save started meanwhile writes them to the new store.
  `SavesStayInTheirPlace` is for one store.
- `KeysSurvive` and `SidesAgree` end with the first operation that does not wait for a running
  load, with a process that ends while something runs, and with a change on the host while the
  app runs. A key made between a load's two lists is deleted again by that load; a key whose sync
  to the host was cut off is deleted by the next one from the host, since nothing on disk says
  which direction is due. Keys without a passphrase are deleted from the host by the first sync
  to it. `SharedKeysStay` holds in all these cases.
- Undo is modelled for one window; each window has a stack of its own over the same files.
- Properties end where the code loses track, marked by history cells so that the rest is still
  checked. `WindowPages` (`misled`): an answer that sets the header without looking where the user
  is. `StoreRemotes` (`misled`): a dialog answered by an outdated list. `StoreList` (`misread`):
  preferences that could not be read, whose other stores the next change loses. `SettingsRows`
  (`stale`, `overwritten`): a setting changed in another window, a broken file, a template that
  could not be written, and the generator,
  where an outdated control or a failure in the middle writes values nobody chose. `KeyRows`
  (`shared`): a recipient that stands for two keys, of which one is cleared. `EntryPage`
  (`crossed`): a page used while a load of its entry was under way. `EntryText` (`mixed`): a field
  added to a text with a field under its notes; two user names, or two one-time passwords, share
  a row. `SessionKeys` (`raced`): a removed key that someone had read before. `CardSetup`
  (`superseded`, `shared`): a card that is set up again, or used by another program; the page
  remembers the card it was opened for and does not look again, and any public key may be
  imported for an empty card. `HostEntries` (`raced`, `strays`): an entry changed between the look
  and the command.
- The Host backend does not validate the renaming of a passkey kept as bytes whose id does not
  have 32 bytes, since its label does not look like a passkey's. A Git repository that could not
  be made for a new store is not made by a retry, since the `.gpg-id` is there by then.
- A program that dies while it adds itself to the menu leaves half an installation;
  `WhatEndsWellIsWhole` is about those that end.
- A passkey whose user name nearly fills the 256 KiB of a Passless record is imported as a record
  that the decoder refuses; `ImportsStayReadable` leaves it out. A word that is the path of a file
  which is too large or not regular gets the dialog instead of a search; a search for one of the
  program's switches is taken as the switch; `--open-entry` without both of its words opens a plain
  window. An activation that starts while another is handled is not modelled.
- `Workspace`: `WhatPassesIsBuilt` leaves out fragments that do not end their last line, since the
  checker accepts a marker behind one and the build does not. The edits that are tried leave out
  what the checker cannot see: a table `[dependencies.<crate>]` with default
  features, a line break right after `pub` or `use`, and the item after `#[cfg(test)] mod tests;`
  (as in `entries/src/search.rs`). A comment of the checker promises a combined check of missing shell items,
  for which there is no function. Files that no crate has any more stay in the data directory.
  The XML inside the root element, `resources.xml`, translations, icons, the assets of an
  installation and the Windows parts of the build are not modelled.
