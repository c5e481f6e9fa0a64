---------------------------- MODULE LocalInstall ----------------------------
(* The program in the user's application menu: a click on a row adds or        *)
(* removes seven parts, one after the other, and an update is a downloaded      *)
(* program that is started by the old one and adds itself while that one quits. *)
(* Any step may fail, and the process that takes them may die.  A program that  *)
(* runs cannot be overwritten.  Directories and permissions are left out.       *)
EXTENDS Naturals, Sequences

CONSTANTS
    Versions,          \* versions of the program
    MaxInstallSteps,   \* bound: clicks, updates and starts
    MaxInstallFaults   \* bound: steps that fail and processes that die

VARIABLES
    parts,      \* what is in the user's directories
    app,        \* the program: does it run, which one, from the menu's file
    helper,     \* the downloaded program
    work,       \* what is being added or removed, and the next part of it
    title,      \* what the row says a click does
    outcome,    \* history: how the last work ended
    installCount

installVars == <<parts, app, helper, work, title, outcome, installCount>>

Parts == <<"binary", "desktop", "mime", "provider", "service", "icon", "locale">>
PartNames == {Parts[i] : i \in DOMAIN Parts}

None == 0
Half == 100   \* written halfway
NoWork == [kind |-> "none", by |-> "app", next |-> 1]

TypeOK ==
    /\ parts \in [PartNames -> Versions \cup {None, Half}]
    /\ app \in [at : {"off", "idle", "quitting"}, version : Versions \cup {None},
               from : {"elsewhere", "place", "gone"}]
    /\ helper \in [at : {"none", "starting", "installing"}, version : Versions \cup {None}]
    /\ work \in [kind : {"none", "add", "remove"}, by : {"app", "helper"},
                next : 1..(Len(Parts) + 1)]
    /\ title \in {"add", "remove"}
    /\ outcome \in [is : {"none", "added", "removed", "failed"}, version : Versions \cup {None}]
    /\ installCount \in [steps : 0..MaxInstallSteps, faults : 0..MaxInstallFaults]

\* is_installed_locally: what the two files contain is not looked at.
IsInstalled == parts["binary"] # None /\ parts["desktop"] # None

Label == IF IsInstalled THEN "remove" ELSE "add"

Init ==
    /\ \E version \in Versions \cup {None} : parts = [p \in PartNames |-> version]
    /\ app = [at |-> "off", version |-> None, from |-> "elsewhere"]
    /\ helper = [at |-> "none", version |-> None]
    /\ work = NoWork
    /\ title = Label
    /\ outcome = [is |-> "none", version |-> None]
    /\ installCount = [steps |-> 0, faults |-> 0]

Step ==
    /\ installCount.steps < MaxInstallSteps
    /\ installCount' = [installCount EXCEPT !.steps = @ + 1]

Fault ==
    /\ installCount.faults < MaxInstallFaults
    /\ installCount' = [installCount EXCEPT !.faults = @ + 1]

-----------------------------------------------------------------------------
(* Adding and removing the parts. *)

Begin(kind, by) ==
    /\ work' = [kind |-> kind, by |-> by, next |-> 1]
    /\ outcome' = [is |-> "none", version |-> None]

\* The version that is added: the program copies itself.
Installer == IF work.by = "app" THEN app.version ELSE helper.version

\* The file a program runs from cannot be written; once removed it cannot be copied.
IsBusy(part) ==
    /\ part = "binary" /\ app.at # "off"
    /\ app.from = "place" \/ (work.by = "app" /\ app.from = "gone")

EndWork(is) ==
    /\ outcome' = [is |-> is, version |-> IF is = "added" THEN Installer ELSE None]
    /\ work' = NoWork

\* The row's title follows only what ended well.
Answered(is) ==
    /\ EndWork(is)
    /\ IF work.by = "helper" THEN
           \* The update is removed, and the installed program started.
           /\ helper' = [at |-> "none", version |-> None]
           /\ app' = IF is = "added" /\ app.at = "off" /\ parts'["binary"] # None
                     THEN [at |-> "idle", version |-> parts'["binary"], from |-> "place"]
                     ELSE app
           /\ title' = IF app'.at = "idle" /\ app.at = "off" THEN Label' ELSE title
       ELSE
           /\ UNCHANGED <<helper, app>>
           /\ title' = IF is = "failed" THEN title ELSE Label'

AddPart ==
    /\ work.kind = "add" /\ work.next <= Len(Parts)
    /\ ~IsBusy(Parts[work.next])
    /\ parts' = [parts EXCEPT ![Parts[work.next]] = Installer]
    /\ work' = [work EXCEPT !.next = @ + 1]
    /\ UNCHANGED <<app, helper, title, outcome, installCount>>

\* The running program stays, its file is gone.
Unlinked == [app EXCEPT !.from = IF @ = "place" THEN "gone" ELSE @]

\* Slip: a part that is missing ends the removal.
RemoveUpToAMissingPart ==
    /\ work.kind = "remove" /\ work.next <= Len(Parts)
    /\ LET part == Parts[work.next]
       IN  /\ parts' = [parts EXCEPT ![part] = None]
           /\ work' = [work EXCEPT !.next = IF parts[part] = None THEN Len(Parts) + 1 ELSE @ + 1]
           /\ app' = IF part = "binary" THEN Unlinked ELSE app
    /\ UNCHANGED <<helper, title, outcome, installCount>>

RemovePart ==
    /\ work.kind = "remove" /\ work.next <= Len(Parts)
    /\ parts' = [parts EXCEPT ![Parts[work.next]] = None]
    /\ work' = [work EXCEPT !.next = @ + 1]
    /\ app' = IF Parts[work.next] = "binary" THEN Unlinked ELSE app
    /\ UNCHANGED <<helper, title, outcome, installCount>>

AllDone ==
    /\ work.next > Len(Parts)
    /\ UNCHANGED <<parts, installCount>>
    /\ Answered(IF work.kind = "add" THEN "added" ELSE "removed")

\* A step fails: before it changed anything, or a file is left half written.
PartFails ==
    /\ work.kind # "none" /\ work.next <= Len(Parts)
    /\ LET part == Parts[work.next]
       IN  \/ /\ work.kind = "add" /\ IsBusy(part)
              /\ UNCHANGED <<parts, installCount>>
           \/ /\ Fault
              /\ \/ UNCHANGED parts
                 \/ /\ work.kind = "add" /\ ~IsBusy(part)
                    /\ parts' = [parts EXCEPT ![part] = Half]
    /\ Answered("failed")

-----------------------------------------------------------------------------
(* The program and its updates. *)

\* From the menu, or a file that was downloaded.
StartProgram ==
    /\ Step
    /\ app.at = "off" /\ helper.at = "none"
    /\ \/ /\ parts["binary"] \in Versions
          /\ app' = [at |-> "idle", version |-> parts["binary"], from |-> "place"]
       \/ \E version \in Versions :
              app' = [at |-> "idle", version |-> version, from |-> "elsewhere"]
    /\ title' = Label
    /\ UNCHANGED <<parts, helper, work, outcome>>

\* The title is only a label: what is there now decides.
ClickRow ==
    /\ Step
    /\ app.at = "idle" /\ work = NoWork
    /\ Begin(IF IsInstalled THEN "remove" ELSE "add", "app")
    /\ UNCHANGED <<parts, app, helper, title>>

RefreshTools ==
    /\ app.at = "idle" /\ work = NoWork
    /\ title # Label
    /\ title' = Label
    /\ UNCHANGED <<parts, app, helper, work, outcome, installCount>>

\* The user installs an update: offered to the installed program only.
LaunchUpdate ==
    /\ Step
    /\ app.at = "idle" /\ app.from = "place" /\ work = NoWork
    /\ \E version \in Versions :
           /\ version > app.version
           /\ helper' = [at |-> "starting", version |-> version]
    /\ app' = [app EXCEPT !.at = "quitting"]
    /\ UNCHANGED <<parts, work, title, outcome>>

RunAutoInstall ==
    /\ helper.at = "starting"
    /\ helper' = [helper EXCEPT !.at = "installing"]
    /\ Begin("add", "helper")
    /\ UNCHANGED <<parts, app, title, installCount>>

AppQuits ==
    /\ app.at # "off"
    /\ work = NoWork \/ work.by = "helper"
    /\ app' = [at |-> "off", version |-> None, from |-> "elsewhere"]
    /\ UNCHANGED <<parts, helper, work, title, outcome, installCount>>

\* Whoever adds or removes is killed.
WorkerDies ==
    /\ Fault
    /\ work.kind # "none"
    /\ work' = NoWork
    /\ outcome' = [is |-> "none", version |-> None]
    /\ IF work.by = "app" THEN
           /\ app' = [at |-> "off", version |-> None, from |-> "elsewhere"]
           /\ UNCHANGED helper
       ELSE
           /\ helper' = [at |-> "none", version |-> None]
           /\ UNCHANGED app
    /\ UNCHANGED <<parts, title>>

Next ==
    \/ AddPart \/ RemovePart \/ AllDone \/ PartFails
    \/ StartProgram \/ ClickRow \/ RefreshTools \/ LaunchUpdate \/ RunAutoInstall
    \/ AppQuits \/ WorkerDies

Spec == Init /\ [][Next]_installVars

-----------------------------------------------------------------------------
(* Properties. *)

(* Adding that ends well has put every part of one version in place, removing  *)
(* has left none, whatever failed, died or was installed before, and whether a  *)
(* click or an update did it.                                                   *)
WhatEndsWellIsWhole ==
    /\ outcome.is = "added" => \A p \in PartNames : parts[p] = outcome.version
    /\ outcome.is = "removed" => \A p \in PartNames : parts[p] = None

(* The program that runs from the menu's file is never half overwritten.       *)
TheRunningProgramIsWhole ==
    app.at # "off" /\ app.from = "place" => parts["binary"] = app.version
=============================================================================
