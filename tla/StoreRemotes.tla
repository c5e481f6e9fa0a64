---------------------------- MODULE StoreRemotes ----------------------------
(* The Git remotes of a store: the page that lists them in each window, the    *)
(* dialogs that add and edit one, and the git commands an answer runs on the   *)
(* one user interface thread.  A dialog checks its answer against what its     *)
(* page listed when it was opened.  Git may be used outside of the program,    *)
(* any command may fail, and the program may be killed between two of them.    *)
EXTENDS Naturals, FiniteSets

CONSTANTS
    Windows, Bases, Urls,
    MaxClicks,      \* bound: dialogs, removals and rebuilt pages
    MaxGitErrors,   \* bound: git commands that fail though they could succeed
    MaxOutside      \* bound: remotes changed outside, and kills of the program

VARIABLES
    repository,   \* the store is a git repository
    remotes,      \* the URL of every name
    pages,        \* each window's page: the remotes it lists
    dialogs,      \* each window's dialog
    edit,         \* what the user interface thread is doing
    misled,       \* ghost: a dialog took its answer while its list was outdated
    remoteCount   \* bounds: clicks, errors and outside changes so far

remoteVars == <<repository, remotes, pages, dialogs, edit, misled, remoteCount>>

\* Names that differ only in case have the same base.
Names == [base : Bases, upper : BOOLEAN]
SameIgnoringCase(n, m) == n.base = m.base
NoUrl == 0
Remotes == [Names -> Urls \cup {NoUrl}]
Listed(list) == {n \in Names : list[n] # NoUrl}
NoRemotes == [n \in Names |-> NoUrl]

Distinct(list) ==
    \A n, m \in Listed(list) : n # m => ~SameIgnoringCase(n, m) /\ list[n] # list[m]

Pages == [at : {"closed", "shown", "failed"}, list : Remotes]
Closed == [at |-> "closed", list |-> NoRemotes]

\* `name` is the remote the dialog is about; one that adds has none.
AnyName == CHOOSE n \in Names : TRUE
Dialogs == [kind : {"closed", "add", "edit"}, name : Names, seen : Remotes]
NoDialog == [kind |-> "closed", name |-> AnyName, seen |-> NoRemotes]

Stages == {"idle", "init", "add", "list", "rename", "url", "back", "remove", "done", "failed"}
Edits ==
    [at : Stages, window : Windows, kind : {"add", "edit", "remove"}, name : Names,
     next : Names, url : Urls \cup {NoUrl}, urlChanged : BOOLEAN,
     before : Remotes, stuck : BOOLEAN]
Idle ==
    [at |-> "idle", window |-> CHOOSE w \in Windows : TRUE, kind |-> "add",
     name |-> AnyName, next |-> AnyName, url |-> NoUrl, urlChanged |-> FALSE,
     before |-> NoRemotes, stuck |-> FALSE]

TypeOK ==
    /\ repository \in BOOLEAN
    /\ remotes \in Remotes
    /\ pages \in [Windows -> Pages]
    /\ dialogs \in [Windows -> Dialogs]
    /\ edit \in Edits
    /\ misled \in BOOLEAN
    /\ remoteCount \in [clicks : 0..MaxClicks, errors : 0..MaxGitErrors, outside : 0..MaxOutside]
    /\ ~repository => remotes = NoRemotes

Init ==
    /\ repository \in BOOLEAN
    /\ remotes \in {list \in Remotes : Distinct(list)}
    /\ ~repository => remotes = NoRemotes
    /\ pages = [w \in Windows |-> Closed]
    /\ dialogs = [w \in Windows |-> NoDialog]
    /\ edit = Idle
    /\ misled = FALSE
    /\ remoteCount = [clicks |-> 0, errors |-> 0, outside |-> 0]

Click ==
    /\ edit.at = "idle"
    /\ remoteCount.clicks < MaxClicks
    /\ remoteCount' = [remoteCount EXCEPT !.clicks = @ + 1]

GitError ==
    /\ remoteCount.errors < MaxGitErrors
    /\ remoteCount' = [remoteCount EXCEPT !.errors = @ + 1]

-----------------------------------------------------------------------------
(* The page. *)

\* The page lists the remotes as they are, or only says that git fails.
RebuildStoreGitPage(w) ==
    \/ pages' = [pages EXCEPT ![w] = [at |-> "shown", list |-> remotes]]
    \/ /\ repository
       /\ pages' = [pages EXCEPT ![w] = [at |-> "failed", list |-> NoRemotes]]

\* Shown, or shown anew when a sync of the store ends: an open dialog stays.
ShowStoreGitPage(w) ==
    /\ Click
    /\ RebuildStoreGitPage(w)
    /\ UNCHANGED <<repository, remotes, dialogs, edit, misled>>

OpenDialog(w) ==
    /\ Click
    /\ dialogs[w] = NoDialog
    /\ pages[w].at = "shown"
    /\ \/ dialogs' = [dialogs EXCEPT ![w] =
              [kind |-> "add", name |-> AnyName, seen |-> pages[w].list]]
       \/ \E n \in Listed(pages[w].list) :
              dialogs' = [dialogs EXCEPT ![w] =
                  [kind |-> "edit", name |-> n, seen |-> pages[w].list]]
    /\ UNCHANGED <<repository, remotes, pages, edit, misled>>

CloseDialog(w) ==
    /\ edit.at = "idle"
    /\ dialogs[w] # NoDialog
    /\ dialogs' = [dialogs EXCEPT ![w] = NoDialog]
    /\ UNCHANGED <<repository, remotes, pages, edit, misled, remoteCount>>

-----------------------------------------------------------------------------
(* An answer of a dialog. *)

\* An edit may keep the name and the URL of its own remote.
ExistingNames(dialog) ==
    IF dialog.kind = "add" THEN Listed(dialog.seen)
    ELSE {n \in Listed(dialog.seen) : ~SameIgnoringCase(n, dialog.name)}
ExistingUrls(dialog) ==
    {dialog.seen[n] : n \in IF dialog.kind = "add" THEN Listed(dialog.seen)
                            ELSE Listed(dialog.seen) \ {dialog.name}}

RemoteDialogAccepts(dialog, name, url) ==
    /\ ~\E n \in ExistingNames(dialog) : SameIgnoringCase(n, name)
    /\ url \notin ExistingUrls(dialog)

\* What is refused leaves the dialog as it is, with a message.
SubmitRemoteDialog(w) ==
    /\ edit.at = "idle"
    /\ dialogs[w] # NoDialog
    /\ \E name \in Names, url \in Urls :
           /\ RemoteDialogAccepts(dialogs[w], name, url)
           /\ edit' = [Idle EXCEPT !.at = IF dialogs[w].kind = "add" THEN "init" ELSE "list",
                                   !.window = w, !.kind = dialogs[w].kind,
                                   !.name = dialogs[w].name, !.next = name, !.url = url,
                                   !.before = remotes]
    /\ misled' = (misled \/ dialogs[w].seen # remotes)
    /\ UNCHANGED <<repository, remotes, pages, dialogs, remoteCount>>

\* The button removes the remote that has the row's name by now.
ClickRemove(w) ==
    /\ Click
    /\ dialogs[w] = NoDialog
    /\ pages[w].at = "shown"
    /\ \E n \in Listed(pages[w].list) :
           edit' = [Idle EXCEPT !.at = "remove", !.window = w, !.kind = "remove",
                                !.name = n, !.next = n, !.before = remotes]
    /\ UNCHANGED <<repository, remotes, pages, dialogs, misled>>

-----------------------------------------------------------------------------
(* The commands.  Git refuses to overwrite a name and to change one it does    *)
(* not have.                                                                   *)

GitAdd(n, url) == remotes[n] = NoUrl /\ remotes' = [remotes EXCEPT ![n] = url]
GitSetUrl(n, url) == remotes[n] # NoUrl /\ remotes' = [remotes EXCEPT ![n] = url]
GitRemove(n) == remotes[n] # NoUrl /\ remotes' = [remotes EXCEPT ![n] = NoUrl]
GitRename(n, m) ==
    /\ remotes[n] # NoUrl /\ remotes[m] = NoUrl
    /\ remotes' = [remotes EXCEPT ![n] = NoUrl, ![m] = remotes[n]]

\* One command: it is refused, fails, or does its work.
Command(stage, possible, work, ifDone, ifFailed) ==
    /\ edit.at = stage
    /\ \/ /\ work
          /\ edit' = [edit EXCEPT !.at = ifDone]
          /\ UNCHANGED remoteCount
       \/ /\ ~possible
          /\ edit' = [edit EXCEPT !.at = ifFailed, !.stuck = (stage = "back")]
          /\ UNCHANGED <<remotes, remoteCount>>
       \/ /\ possible
          /\ GitError
          /\ edit' = [edit EXCEPT !.at = ifFailed, !.stuck = (stage = "back")]
          /\ UNCHANGED remotes

Has(n) == remotes[n] # NoUrl

EnsureStoreGitRepository ==
    /\ edit.at = "init"
    /\ UNCHANGED remotes
    /\ \/ /\ repository' = TRUE
          /\ edit' = [edit EXCEPT !.at = "add"]
          /\ UNCHANGED remoteCount
       \/ /\ ~repository
          /\ GitError
          /\ edit' = [edit EXCEPT !.at = "failed"]
          /\ UNCHANGED repository

AddStoreGitRemote ==
    /\ Command("add", ~Has(edit.next), GitAdd(edit.next, edit.url), "done", "failed")
    /\ UNCHANGED repository

\* The URL is compared with the one the remote has now, not the one shown.
CurrentUrl(n) == remotes[n]
ListStoreGitRemotes ==
    /\ edit.at = "list"
    /\ \/ LET urlChanged == CurrentUrl(edit.name) # edit.url
          IN edit' = [edit EXCEPT !.urlChanged = urlChanged,
                                  !.at = IF edit.name # edit.next THEN "rename"
                                         ELSE IF urlChanged THEN "url" ELSE "done"]
             /\ UNCHANGED remoteCount
       \/ /\ repository
          /\ GitError
          /\ edit' = [edit EXCEPT !.at = "failed"]
    /\ UNCHANGED <<repository, remotes>>

RenameStoreGitRemote ==
    /\ Command("rename", Has(edit.name) /\ ~Has(edit.next), GitRename(edit.name, edit.next),
               IF edit.urlChanged THEN "url" ELSE "done", "failed")
    /\ UNCHANGED repository

\* Slip: a failure is reported without taking the new name back.
FailsAtOnce == "failed"

AfterUrlFailed == IF edit.name # edit.next THEN "back" ELSE "failed"
SetStoreGitRemoteUrl ==
    /\ Command("url", Has(edit.next), GitSetUrl(edit.next, edit.url), "done", AfterUrlFailed)
    /\ UNCHANGED repository

\* Whether the old name could be given back is not looked at.
RenameBack ==
    /\ Command("back", Has(edit.next) /\ ~Has(edit.name), GitRename(edit.next, edit.name),
               "failed", "failed")
    /\ UNCHANGED repository

RemoveStoreGitRemote ==
    /\ Command("remove", Has(edit.name), GitRemove(edit.name), "done", "failed")
    /\ UNCHANGED repository

RunCommand ==
    /\ \/ EnsureStoreGitRepository \/ AddStoreGitRemote \/ ListStoreGitRemotes
       \/ RenameStoreGitRemote \/ SetStoreGitRemoteUrl \/ RenameBack \/ RemoveStoreGitRemote
    /\ UNCHANGED <<pages, dialogs, misled>>

\* Success rebuilds the page and closes the dialog; a failure leaves both.
ReportEdit ==
    /\ edit' = Idle
    /\ UNCHANGED <<repository, remotes, misled, remoteCount>>
    /\ \/ /\ edit.at = "done"
          /\ RebuildStoreGitPage(edit.window)
          /\ dialogs' = [dialogs EXCEPT ![edit.window] = NoDialog]
       \/ /\ edit.at = "failed"
          /\ UNCHANGED <<pages, dialogs>>

-----------------------------------------------------------------------------
(* Outside. *)

Outside ==
    /\ remoteCount.outside < MaxOutside
    /\ remoteCount' = [remoteCount EXCEPT !.outside = @ + 1]

\* Remotes are changed by hand while no command runs; a list by hand may hold
\* what no dialog accepts.
ChangeOutside ==
    /\ Outside
    /\ repository
    /\ edit.at = "idle"
    /\ \E n \in Names, url \in Urls \cup {NoUrl} : remotes' = [remotes EXCEPT ![n] = url]
    /\ misled' = (misled \/ ~Distinct(remotes'))
    /\ UNCHANGED <<repository, pages, dialogs, edit>>

Killed ==
    /\ Outside
    /\ pages' = [w \in Windows |-> Closed]
    /\ dialogs' = [w \in Windows |-> NoDialog]
    /\ edit' = Idle
    /\ UNCHANGED <<repository, remotes, misled>>

Next ==
    \/ \E w \in Windows :
           \/ ShowStoreGitPage(w) \/ OpenDialog(w) \/ CloseDialog(w)
           \/ SubmitRemoteDialog(w) \/ ClickRemove(w)
    \/ RunCommand
    \/ ReportEdit
    \/ ChangeOutside
    \/ Killed

Spec == Init /\ [][Next]_remoteVars

-----------------------------------------------------------------------------
(* Properties. *)

\* What the answer asks for.
Wanted ==
    CASE edit.kind = "remove" -> [edit.before EXCEPT ![edit.name] = NoUrl]
      [] edit.kind = "add" -> [edit.before EXCEPT ![edit.next] = edit.url]
      [] OTHER -> [[edit.before EXCEPT ![edit.name] = NoUrl] EXCEPT ![edit.next] = edit.url]

(* An edit that is reported as done has made exactly the change that was asked *)
(* for, however old its dialog is; one that is reported as failed has changed  *)
(* nothing, unless giving back the old name failed too.  While dialogs answer  *)
(* by a current list, no two remotes get one URL or names that differ in case  *)
(* only, even when the program is killed halfway.                              *)
RemotesFollowTheDialogs ==
    /\ edit.at = "done" => remotes = Wanted
    /\ edit.at = "failed" /\ ~edit.stuck => remotes = edit.before
    /\ ~misled => Distinct(remotes)

=============================================================================
