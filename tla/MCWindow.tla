------------------------------- MODULE MCWindow -------------------------------
(* Instances for TLC of the store, saved and changed by two threads, of the    *)
(* pages of the window, of the list of stores, of the keys a store's page      *)
(* offers, of the rows of the preferences, and of the commands that are run    *)
(* for them.  One of the six is chosen at the start and takes all steps.       *)
EXTENDS MCRecipientStore

CONSTANTS
    WindowPageNames, MaxDepth, MaxOperations, PipeSize, MaxBytes,
    StoreWindows, Stores, MaxPicks, MaxImports, MaxFolderChanges,
    RowKeys, Protected, UserIds, IdsOf, Strangers, MaxClicks, MaxEvents,
    p1, p2, uid,
    SettingsWindows, MaxSettingClicks, MaxSettingFaults

VARIABLES
    focus,
    pages, header, actionsBusy, toolsEnabled, gitRuns, reopenAfterBusy, entryShown, undoRuns,
    reopenRecipients, misled,
    task, child, pipe, input, written, taken, threads, handled,
    folders, configured, wanted, misread, rows, creating, working, importPage, imports,
    storeCount,
    managed, elsewhere, usableKeys, integrated, recipients, requireAll, inventory, keyRows,
    pageLoad, loading, listing, queued, base, removed, shared, rowCount,
    inFile, stored, readable, hostAllowed, shownIn, settingRows, commandRow, popover, confirming,
    chosen, stale, overwritten, settingCount

Window == INSTANCE WindowPages
Command == INSTANCE Commands
List == INSTANCE StoreList
Offer == INSTANCE KeyRows WITH unlocked <- usableKeys, rows <- keyRows
Preference == INSTANCE SettingsRows

windowVars == <<pages, header, actionsBusy, toolsEnabled, gitRuns, reopenAfterBusy,
                entryShown, undoRuns, reopenRecipients, misled>>
commandVars == <<task, child, pipe, input, written, taken, threads, handled>>
listVars == <<folders, configured, wanted, misread, rows, creating, working, importPage,
              imports, storeCount>>
rowVars == <<managed, elsewhere, usableKeys, integrated, recipients, requireAll, inventory,
             keyRows, pageLoad, loading, listing, queued, base, removed, shared, rowCount>>
settingsVars == <<inFile, stored, readable, hostAllowed, shownIn, settingRows, commandRow,
                  popover, confirming, chosen, stale, overwritten, settingCount>>
allVars == <<focus, vars, windowVars, commandVars, listVars, rowVars, settingsVars>>

\* Every key has the one user id.
mcIdsOf == [k \in RowKeys |-> UserIds]

AllInit ==
    /\ focus \in {"store", "window", "command", "list", "keys", "settings"}
    /\ Init /\ Window!Init /\ Command!Init /\ List!Init /\ Offer!Init
    /\ Preference!Init
    /\ focus # "store" => \A l \in Labels : entry[l] = Absent
    /\ focus # "store" => gpgid = [d \in Dirs |-> NoFile]
    /\ focus # "list" => configured = {}
    /\ focus # "keys" => managed = {} /\ elsewhere = {} /\ integrated
    /\ focus # "settings" => ~inFile /\ ~hostAllowed

AllNext ==
    /\ UNCHANGED focus
    /\ \/ /\ focus = "store"
          /\ Next
          /\ UNCHANGED <<windowVars, commandVars, listVars, rowVars, settingsVars>>
       \/ /\ focus = "window"
          /\ Window!Next
          /\ UNCHANGED <<vars, commandVars, listVars, rowVars, settingsVars>>
       \/ /\ focus = "command"
          /\ Command!Next
          /\ UNCHANGED <<vars, windowVars, listVars, rowVars, settingsVars>>
       \/ /\ focus = "list"
          /\ List!Next
          /\ UNCHANGED <<vars, windowVars, commandVars, rowVars, settingsVars>>
       \/ /\ focus = "keys"
          /\ Offer!Next
          /\ UNCHANGED <<vars, windowVars, commandVars, listVars, settingsVars>>
       \/ /\ focus = "settings"
          /\ Preference!Next
          /\ UNCHANGED <<vars, windowVars, commandVars, listVars, rowVars>>
       \/ /\ \/ focus = "list" /\ storeCount.picks = MaxPicks   \* the bound is reached
             \/ focus = "keys" /\ ~loading /\ rowCount.clicks = MaxClicks
          /\ UNCHANGED allVars

AllSpec == AllInit /\ [][AllNext]_allVars

(* Every variable of the six keeps its type. *)
TypesOK ==
    /\ focus = "store" => TypeOK
    /\ focus = "window" => Window!TypeOK
    /\ focus = "command" => Command!TypeOK
    /\ focus = "list" => List!TypeOK
    /\ focus = "keys" => Offer!TypeOK
    /\ focus = "settings" => Preference!TypeOK

(* The header bar is of the page shown, the rows of a store's page are of its   *)
(* recipients, and those of the preferences of the settings: see                *)
(* HeaderIsOfThePage of WindowPages, RowsAreOfTheRecipients of KeyRows and      *)
(* RowsShowTheSettings of SettingsRows.                                         *)
WhatIsShownIsCurrent ==
    /\ focus = "window" => Window!HeaderIsOfThePage
    /\ focus = "keys" => Offer!RowsAreOfTheRecipients
    /\ focus = "settings" => Preference!RowsShowTheSettings

(* See WindowPages. *)
FinishKeepsThePage == Window!FinishKeepsThePage

(* What a window shows as busy is under way, and only one at a time: see       *)
(* ABusyWindowIsWorking of WindowPages and ABusyImportIsRunning of StoreList.  *)
ABusyWindowIsWorking ==
    /\ focus = "window" => Window!ABusyWindowIsWorking
    /\ focus = "list" => List!ABusyImportIsRunning

(* The stores that were added stay, a store keeps a key, and settings stay as   *)
(* they were chosen: see StoresAreKept of StoreList, ASelectedKeyStays of       *)
(* KeyRows and ChoicesAreKept of SettingsRows.                                  *)
ChoicesAreKept ==
    /\ focus = "list" => List!StoresAreKept
    /\ focus = "keys" => Offer!ASelectedKeyStays
    /\ focus = "settings" => Preference!ChoicesAreKept

(* See Commands. *)
CommandsEndWell == focus = "command" => Command!CommandsEndWell
=============================================================================
