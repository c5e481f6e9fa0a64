----------------------------- MODULE WindowPages -----------------------------
(* The pages of the window: one stack of pages, and one header bar for them    *)
(* all.  The header is not part of a page: whoever opens, closes or uncovers a *)
(* page must set it.  Pages come and go by the user's clicks and shortcuts,    *)
(* and by workers that end later: Git operations, which cover the window with  *)
(* a busy page and disable its actions, the making of a key, an import, an     *)
(* undo and the reading of an entry.                                           *)
(* Left out: what the pages show, and the buttons of the header.               *)
EXTENDS Naturals, SequencesExt

CONSTANTS
    WindowPageNames,  \* the pages of the window that are used
    MaxDepth,         \* bound: pages on the stack
    MaxOperations     \* bound: Git operations that run at once

VARIABLES
    pages,            \* the stack, the visible page last
    header,           \* the page the header bar speaks of
    actionsBusy,      \* the actions that wait for Git operations are disabled
    toolsEnabled,     \* "open-tools", which is one of them, is enabled
    gitRuns,          \* operations that run: begun by the window, by the Git page
    reopenAfterBusy,  \* the Git page's header is put back when one ends
    entryShown,       \* what the page of an entry shows of the opened one
    undoRuns,         \* the undo under way, and where it was asked for
    reopenRecipients, \* closing the page that makes a key leads to the recipients
    misled            \* ghost: a late answer or a refused page left the header wrong

windowVars == <<pages, header, actionsBusy, toolsEnabled, gitRuns, reopenAfterBusy,
                entryShown, undoRuns, reopenRecipients, misled>>

\* Pages the shortcuts of the window open, and the actions that wait for Git.
Shortcuts == {"settings", "docs", "log"}
WaitsForGit(p) == p # "log"

\* Pages the hub of the tools opens.
Tools == {"values", "weak", "audit"}

Operations == 0..MaxOperations

TypeOK ==
    /\ IsInjective(pages) /\ Len(pages) \in 1..MaxDepth
    /\ \A i \in 1..Len(pages) : pages[i] \in WindowPageNames /\ (pages[i] = "root" <=> i = 1)
    /\ header \in WindowPageNames
    /\ gitRuns \in [window : Operations, page : Operations]
    /\ entryShown \in {"none", "editor", "reading", "locked"}
    /\ undoRuns \in {"none", "list", "editor"}
    /\ {actionsBusy, toolsEnabled, reopenAfterBusy, reopenRecipients, misled} \subseteq BOOLEAN

Init ==
    /\ pages = <<"root">>
    /\ header = "root"
    /\ actionsBusy = FALSE
    /\ toolsEnabled = TRUE
    /\ gitRuns = [window |-> 0, page |-> 0]
    /\ reopenAfterBusy = FALSE
    /\ entryShown = "none"
    /\ undoRuns = "none"
    /\ reopenRecipients = FALSE
    /\ misled = FALSE

-----------------------------------------------------------------------------
(* The stack. *)

Visible(s) == Last(s)
InStack(s, p) == p \in ToSet(s)
IsRoot(s) == Len(s) = 1

\* The view keeps its first page, and refuses a page it already holds.
Pop(s) == IF IsRoot(s) THEN s ELSE Front(s)
PopToPage(s, p) == SubSeq(s, 1, SelectInSeq(s, LAMBDA q : q = p))
Push(s, p) == IF InStack(s, p) THEN s ELSE Append(s, p)

RevealPage(s, p) == IF InStack(s, p) THEN PopToPage(s, p) ELSE Push(s, p)

\* Slip: the pages above the busy page go with it.
FinishDropsPages(s) == IF InStack(s, "busy") THEN Pop(PopToPage(s, "busy")) ELSE s

FinishTransientPage(s) ==
    IF Visible(s) = "busy" THEN Pop(s)
    ELSE IF InStack(s, "busy") THEN Push(Pop(PopToPage(s, "busy")), Visible(s))
    ELSE s

\* The header of the visible page; the busy page has no route of its own.
Restored(s) == IF Visible(s) = "busy" THEN header ELSE Visible(s)

\* The pages a header may stand over: the busy page and the one that makes keys
\* appear under the header of the page before.
Fits(h, p) == h = p \/ p = "busy" \/ (p = "makeKey" /\ h = "recipients")

-----------------------------------------------------------------------------
(* What handlers do to the stack and the header. *)

Shows(s, h) == pages' = s /\ header' = h /\ misled' = FALSE

\* As Shows, by a callback that does not look at which page is visible.
ShowsBlindly(s, h) == pages' = s /\ header' = h /\ misled' = ~Fits(h, Visible(s))

\* The header is set, then the page is pushed: when the stack has it already it
\* stays where it is.
PushesUnder(p) ==
    /\ p \in WindowPageNames
    /\ InStack(pages, p) \/ Len(pages) < MaxDepth
    /\ ShowsBlindly(Push(pages, p), p)

Reveals(p) ==
    /\ p \in WindowPageNames
    /\ InStack(pages, p) \/ Len(pages) < MaxDepth
    /\ Shows(RevealPage(pages, p), p)

\* The list is shown and loaded again; this always enables the tools.
ShowsList ==
    /\ Shows(<<"root">>, "root")
    /\ entryShown' = "none"
    /\ toolsEnabled' = TRUE

SetBusy(on) == actionsBusy' = on /\ toolsEnabled' = ~on

gitVars == <<actionsBusy, gitRuns, reopenAfterBusy>>

-----------------------------------------------------------------------------
(* Opening pages. *)

OpenByShortcut(p) ==
    /\ p \in Shortcuts
    /\ WaitsForGit(p) => ~actionsBusy
    /\ PushesUnder(p)
    /\ UNCHANGED <<gitVars, toolsEnabled, entryShown, undoRuns, reopenRecipients>>

OpenDocument ==
    /\ Visible(pages) \in {"docs", "document"}
    /\ PushesUnder("document")
    /\ UNCHANGED <<gitVars, toolsEnabled, entryShown, undoRuns, reopenRecipients>>

OpenTools ==
    /\ toolsEnabled
    /\ Reveals("tools")
    /\ toolsEnabled' = TRUE
    /\ UNCHANGED <<gitVars, entryShown, undoRuns, reopenRecipients>>

OpenTool(p) ==
    /\ p \in Tools /\ Visible(pages) = "tools"
    /\ Reveals(p)
    /\ UNCHANGED <<gitVars, toolsEnabled, entryShown, undoRuns, reopenRecipients>>

OpenValuesOfField ==
    /\ Visible(pages) = "values"
    /\ Reveals("exact")
    /\ UNCHANGED <<gitVars, toolsEnabled, entryShown, undoRuns, reopenRecipients>>

\* A value is clicked: the list is searched for it.
ApplyRootSearch ==
    /\ Visible(pages) = "exact"
    /\ Shows(<<"root">>, "root")
    /\ entryShown' = "none"
    /\ UNCHANGED <<gitVars, toolsEnabled, undoRuns, reopenRecipients>>

OpenImport ==
    /\ Visible(pages) = "tools"
    /\ PushesUnder("import")
    /\ UNCHANGED <<gitVars, toolsEnabled, entryShown, undoRuns, reopenRecipients>>

\* The picker of stores opens them too, and does not wait for Git.
OpenRecipients ==
    /\ Reveals("recipients")
    /\ reopenRecipients' = FALSE
    /\ UNCHANGED <<gitVars, toolsEnabled, entryShown, undoRuns>>

\* By a shortcut, or from the recipients, whose row does not wait for Git.
OpenStoreGit ==
    /\ ~actionsBusy \/ Visible(pages) = "recipients"
    /\ Reveals("storeGit")
    /\ UNCHANGED <<gitVars, toolsEnabled, entryShown, undoRuns, reopenRecipients>>

\* The page that makes a key leaves the header alone.
OpenMakeKey ==
    /\ Visible(pages) = "recipients" /\ "makeKey" \in WindowPageNames
    /\ Len(pages) < MaxDepth
    /\ pages' = Push(pages, "makeKey")
    /\ reopenRecipients' = TRUE
    /\ UNCHANGED <<gitVars, header, misled, toolsEnabled, entryShown, undoRuns>>

OpenEntry ==
    /\ Visible(pages) \in {"root", "weak"}
    /\ PushesUnder("entry")
    /\ entryShown' = "reading"
    /\ UNCHANGED <<gitVars, toolsEnabled, undoRuns, reopenRecipients>>

NewEntry ==
    /\ ~actionsBusy
    /\ PushesUnder("entry")
    /\ entryShown' = "editor"
    /\ UNCHANGED <<gitVars, toolsEnabled, undoRuns, reopenRecipients>>

OpenRaw ==
    /\ ~actionsBusy
    /\ PushesUnder("raw")
    /\ UNCHANGED <<gitVars, toolsEnabled, entryShown, undoRuns, reopenRecipients>>

-----------------------------------------------------------------------------
(* Going back. *)

\* Slip: the header of the page below is not put back.
BackKeepsHeader ==
    /\ Visible(pages) = "busy"
    /\ pages' = Pop(pages)
    /\ misled' = FALSE
    /\ UNCHANGED <<gitVars, header, toolsEnabled, entryShown, undoRuns, reopenRecipients>>

BackFromBusy ==
    /\ Visible(pages) = "busy"
    /\ Shows(Pop(pages), Restored(Pop(pages)))
    /\ UNCHANGED <<gitVars, toolsEnabled, entryShown, undoRuns, reopenRecipients>>

\* By Back, or when the key is made: to the recipients, or only to their header.
CloseMakeKey ==
    /\ Visible(pages) = "makeKey"
    /\ LET below == Pop(pages)
       IN IF reopenRecipients THEN Shows(RevealPage(below, "recipients"), "recipients")
                              ELSE ShowsBlindly(below, "recipients")
    /\ reopenRecipients' = FALSE
    /\ UNCHANGED <<gitVars, toolsEnabled, entryShown, undoRuns>>

\* An entry that is not shown yet is opened again.
Back ==
    /\ Visible(pages) \notin {"busy", "makeKey"}
    /\ IF IsRoot(Pop(pages))
       THEN ShowsList
       ELSE /\ Shows(Pop(pages), Restored(Pop(pages)))
            /\ entryShown' = IF Visible(Pop(pages)) = "entry" /\ entryShown = "locked"
                             THEN "reading" ELSE entryShown
            /\ UNCHANGED toolsEnabled
    /\ UNCHANGED <<gitVars, undoRuns, reopenRecipients>>

GoHome ==
    /\ ShowsList
    /\ UNCHANGED <<gitVars, undoRuns, reopenRecipients>>

-----------------------------------------------------------------------------
(* Workers that end. *)

EntryIsRead ==
    /\ entryShown = "reading"
    /\ entryShown' \in {"editor", "locked"}
    /\ UNCHANGED <<gitVars, pages, header, misled, toolsEnabled, undoRuns, reopenRecipients>>

\* It cannot be read, or the dialog that asks for its key is closed.
EntryCannotBeRead ==
    /\ entryShown \in {"reading", "locked"}
    /\ ShowsList
    /\ UNCHANGED <<gitVars, undoRuns, reopenRecipients>>

\* The dialog for its key has unlocked it: it is opened, on whatever page.
EntryIsUnlocked ==
    /\ entryShown = "locked"
    /\ ShowsBlindly(pages, "entry")
    /\ entryShown' = "reading"
    /\ UNCHANGED <<gitVars, toolsEnabled, undoRuns, reopenRecipients>>

StartUndo ==
    /\ ~actionsBusy /\ undoRuns = "none"
    /\ undoRuns' = IF Visible(pages) \in {"entry", "raw"} THEN "editor" ELSE "list"
    /\ UNCHANGED <<gitVars, pages, header, misled, toolsEnabled, entryShown, reopenRecipients>>

\* An undo asked for in the editor opens the entry it restored, or the list.
UndoEnds ==
    /\ undoRuns # "none"
    /\ undoRuns' = "none"
    /\ \/ /\ undoRuns = "list"
          /\ Shows(pages, Restored(pages))
          /\ UNCHANGED <<entryShown, toolsEnabled>>
       \/ /\ undoRuns = "editor"
          /\ ShowsBlindly(pages, "entry")
          /\ entryShown' = "reading"
          /\ UNCHANGED toolsEnabled
       \/ /\ undoRuns = "editor"
          /\ ShowsList
       \/ UNCHANGED <<pages, header, misled, entryShown, toolsEnabled>>
    /\ UNCHANGED <<gitVars, reopenRecipients>>

\* The import succeeds: its page is closed if it is visible.
ImportEnds ==
    /\ Visible(pages) = "import"
    /\ Shows(Pop(pages), "tools")
    /\ UNCHANGED <<gitVars, toolsEnabled, entryShown, undoRuns, reopenRecipients>>

-----------------------------------------------------------------------------
(* Git operations. *)

Running == gitRuns.window + gitRuns.page
Begins(kind) ==
    /\ Running < MaxOperations
    /\ InStack(pages, "busy") \/ Len(pages) < MaxDepth
    /\ gitRuns' = [gitRuns EXCEPT ![kind] = @ + 1]
    /\ SetBusy(TRUE)

\* Synchronizing all stores, or restoring one from a repository.
BeginWindowOperation ==
    /\ ~actionsBusy
    /\ Begins("window")
    /\ Shows(Push(pages, "busy"), "busy")
    /\ UNCHANGED <<reopenAfterBusy, entryShown, undoRuns, reopenRecipients>>

\* The row of the Git page does not wait for other operations.
BeginPageOperation ==
    /\ Visible(pages) = "storeGit"
    /\ Begins("page")
    /\ pages' = Push(pages, "busy")
    /\ reopenAfterBusy' = TRUE
    /\ UNCHANGED <<header, misled, entryShown, undoRuns, reopenRecipients>>

Ends(kind) ==
    /\ gitRuns[kind] > 0
    /\ gitRuns' = [gitRuns EXCEPT ![kind] = @ - 1]
    /\ SetBusy(FALSE)

EndWindowOperation ==
    /\ Ends("window")
    /\ LET s == FinishTransientPage(pages) IN Shows(s, Restored(s))
    /\ UNCHANGED <<reopenAfterBusy, entryShown, undoRuns, reopenRecipients>>

\* Slip: an operation of the Git page removes its page only while it is visible.
EndUnderOthers ==
    /\ Ends("page")
    /\ LET s == IF Visible(pages) = "busy" THEN Pop(pages) ELSE pages
       IN ShowsBlindly(s, IF reopenAfterBusy THEN "storeGit" ELSE header)
    /\ reopenAfterBusy' = FALSE
    /\ UNCHANGED <<entryShown, undoRuns, reopenRecipients>>

EndPageOperation ==
    /\ Ends("page")
    /\ LET s == FinishTransientPage(pages)
       IN ShowsBlindly(s, IF reopenAfterBusy THEN "storeGit" ELSE header)
    /\ reopenAfterBusy' = FALSE
    /\ UNCHANGED <<entryShown, undoRuns, reopenRecipients>>

-----------------------------------------------------------------------------
UserSteps ==
    \/ \E p \in Shortcuts : OpenByShortcut(p)
    \/ \E p \in Tools : OpenTool(p)
    \/ OpenDocument
    \/ OpenTools
    \/ OpenValuesOfField
    \/ ApplyRootSearch
    \/ OpenImport
    \/ OpenRecipients
    \/ OpenStoreGit
    \/ OpenMakeKey
    \/ OpenEntry
    \/ NewEntry
    \/ OpenRaw
    \/ BackFromBusy
    \/ CloseMakeKey
    \/ Back
    \/ GoHome
    \/ StartUndo
    \/ BeginWindowOperation
    \/ BeginPageOperation

Answers ==
    \/ EntryIsRead
    \/ EntryCannotBeRead
    \/ EntryIsUnlocked
    \/ UndoEnds
    \/ ImportEnds
    \/ EndWindowOperation
    \/ EndPageOperation

Next == UserSteps \/ Answers

Spec == Init /\ [][Next]_windowVars

-----------------------------------------------------------------------------
(* Properties. *)

(* The header speaks of the visible page, whatever page is opened, closed or   *)
(* uncovered, in any order; it is wrong only after an answer that sets it      *)
(* without looking where the user is, or a page that is on the stack already.  *)
HeaderIsOfThePage == Fits(header, Visible(pages)) \/ misled

(* The actions are disabled, and the busy page is on the stack, only while     *)
(* some Git operation runs that will enable and remove them when it ends.      *)
ABusyWindowIsWorking == (actionsBusy \/ InStack(pages, "busy")) => Running > 0

(* Removing the busy page uncovers or keeps the visible page: a Git operation  *)
(* that ends never takes the user off another page.                            *)
FinishKeepsThePage ==
    [][gitRuns' # gitRuns /\ Visible(pages) # "busy"
           => Visible(pages') \in {Visible(pages), "busy"}]_windowVars
=============================================================================
