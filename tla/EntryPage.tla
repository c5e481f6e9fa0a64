------------------------------ MODULE EntryPage ------------------------------
(* The page that shows one entry, and what opens, edits and saves it.  The     *)
(* window has one such page and one entry that is opened; a worker reads the   *)
(* entry, and its answer counts if the entry is still the opened one.  While   *)
(* it is read the page shows a status message, but the rows under it, and what *)
(* they were filled from, are those of the entry before.  User names that are  *)
(* not in the text come from the last part of the label, as by default.        *)
EXTENDS Sequences, Naturals

CONSTANTS
    PageLabels,  \* labels of entries, the last part of a path in one directory
    NoLabel,
    TypedName,   \* a user name that is typed, never one of the labels
    MaxSteps     \* bound: what the user does, answers to dialogs apart

VARIABLES
    kept,        \* the text of every entry in the store
    stack,       \* pages above the list; "page" is any other page of the window
    opened,      \* the entry the window has opened, with where its user name is from
    display,     \* the entry page shows the rows, or a status message in their place
    editor,      \* the text the rows were filled from
    row,         \* the row of the user name
    raw,         \* the text of the raw page
    saved,       \* the text that was read or written last
    savedExists,
    backend,
    reads,       \* workers that read an entry
    prompts,     \* dialogs that ask for a key, to open an entry or to save
    undoing,     \* an undo runs, started on the entry page or elsewhere
    crossed,     \* history: labels whose page was used while a load of it was under way
    steps

pageVars == <<kept, stack, opened, display, editor, row, raw, saved, savedExists, backend,
              reads, prompts, undoing, crossed, steps>>
shownVars == <<editor, raw, saved, savedExists>>

\* A text: whose it is, whether the user changed it, and its user name line.
AnyLabel == PageLabels \cup {TypedName}
Users == {"none", "blank", "field"}
Texts == [of : AnyLabel \cup {NoLabel}, changed : BOOLEAN, user : Users]
Blank == [of |-> NoLabel, changed |-> FALSE, user |-> "none"]
First(e, user) == [of |-> e, changed |-> FALSE, user |-> user]

OpenedEntries == [label : AnyLabel, user : Users]
NoEntry == [label |-> NoLabel, user |-> "none"]
FromLabel(e) == [label |-> e, user |-> "none"]

Pages == {"entry", "raw", "page"}
Stacks == {<<>>} \cup {<<p>> : p \in Pages} \cup {p \in Pages \X Pages : p[1] # p[2]}
          \cup {p \in Pages \X Pages \X Pages : Pages = {p[1], p[2], p[3]}}

Reads == [id : 1..MaxSteps, value : OpenedEntries, text : Texts,
          at : {"reading", "read", "failed"}]
NoUndo == [id |-> 0, editing |-> FALSE]
Prompts == [id : 1..MaxSteps, for : {"open", "save"}, value : OpenedEntries \cup {NoEntry}]

TypeOK ==
    /\ kept \in [AnyLabel -> Texts]
    /\ stack \in Stacks
    /\ opened \in OpenedEntries \cup {NoEntry}
    /\ display \in {"loading", "editor"}
    /\ {editor, raw, saved} \subseteq Texts
    /\ row \in AnyLabel \cup {NoLabel}
    /\ savedExists \in BOOLEAN
    /\ backend \in {"integrated", "host"}
    /\ reads \subseteq Reads /\ prompts \subseteq Prompts
    /\ undoing \in [id : 0..MaxSteps, editing : BOOLEAN]
    /\ crossed \subseteq AnyLabel
    /\ steps \in 0..MaxSteps

Init ==
    /\ kept \in [AnyLabel -> {Blank} \cup {First(e, u) : e \in PageLabels, u \in {"none", "field"}}]
    /\ \A e \in AnyLabel : kept[e] = Blank \/ kept[e].of = e
    /\ stack = <<>> /\ opened = NoEntry /\ display = "editor"
    /\ editor = Blank /\ raw = Blank /\ saved = Blank /\ row = NoLabel
    /\ savedExists = FALSE
    /\ backend \in {"integrated", "host"}
    /\ reads = {} /\ prompts = {} /\ undoing = NoUndo /\ crossed = {}
    /\ steps = 0

-----------------------------------------------------------------------------
(* The editor. *)

Top == IF stack = <<>> THEN "list" ELSE stack[Len(stack)]

\* Slip: a page that is further down is pushed again.
PushedAgain(page) == IF stack # <<>> /\ stack[Len(stack)] = page THEN stack ELSE Append(stack, page)

\* push_navigation_page_if_needed: the view has no page twice.
Pushed(page) == IF \E i \in 1..Len(stack) : stack[i] = page THEN stack ELSE Append(stack, page)

Structured ==
    IF editor.user = "none" THEN editor
    ELSE [editor EXCEPT !.user = IF row = NoLabel THEN "blank" ELSE "field"]

Current == IF Top = "raw" THEN raw ELSE Structured

NameOf(value) ==
    CASE value.user = "field" -> TypedName
      [] value.user = "blank" -> NoLabel
      [] OTHER -> value.label

SyncEditor(text, value) ==
    /\ editor' = text
    /\ raw' = text
    /\ row' = IF text.user = "none" THEN NameOf(value)
              ELSE NameOf([label |-> NoLabel, user |-> text.user])
    /\ display' = "editor"

Pending(e) == e # NoLabel /\ \E t \in reads \cup prompts : t.value.label = e

Crossing(e) == crossed' = IF Pending(e) THEN crossed \cup {e} ELSE crossed

-----------------------------------------------------------------------------
(* Opening an entry. *)

Open(id, value, page, others) ==
    /\ opened' = value
    /\ display' = "loading"
    /\ row' = NoLabel
    /\ stack' = page
    /\ reads' = others \cup
           {[id |-> id, value |-> value, text |-> Blank, at |-> "reading"]}
    /\ UNCHANGED shownVars

\* From a row of the list, from a tool or from the desktop's search.
OpenEntry(e) ==
    /\ Open(steps', FromLabel(e), Pushed("entry"), reads)
    /\ Crossing(e)
    /\ UNCHANGED <<kept, backend, prompts, undoing>>

\* Back at the list nothing of the entry is left.
ShowList ==
    /\ stack' = <<>>
    /\ opened' = NoEntry
    /\ editor' = Blank /\ raw' = Blank /\ saved' = Blank /\ row' = NoLabel
    /\ savedExists' = FALSE
    /\ UNCHANGED <<display>>

GoHome ==
    /\ ShowList
    /\ UNCHANGED <<kept, backend, reads, prompts, undoing, crossed>>

ReadEntry(t) ==
    /\ t.at = "reading"
    /\ \/ /\ kept[t.value.label] # Blank
          /\ reads' = (reads \ {t}) \cup
                 {[t EXCEPT !.at = "read", !.text = kept[t.value.label]]}
       \/ reads' = (reads \ {t}) \cup {[t EXCEPT !.at = "failed"]}
    /\ UNCHANGED <<kept, stack, opened, display, shownVars, row, backend, prompts, undoing,
                   crossed>>

\* A key waits to be touched.
ShowProgress(t) ==
    /\ t.at = "reading"
    /\ opened = t.value
    /\ display' = "loading"
    /\ UNCHANGED <<kept, stack, opened, shownVars, row, backend, reads, prompts, undoing,
                   crossed>>

\* Slip: the answer is taken whatever is opened by then.
AnyIsOpened(t) == TRUE

IsOpened(t) == opened = t.value

\* The opened entry takes its user name from the text.
Refreshed(value, text) ==
    IF opened = value THEN [value EXCEPT !.user = text.user] ELSE opened

ShowRead(t) ==
    /\ opened' = Refreshed(t.value, t.text)
    /\ saved' = t.text
    /\ savedExists' = TRUE
    /\ SyncEditor(t.text, Refreshed(t.value, t.text))
    /\ reads' = reads \ {t}
    /\ UNCHANGED <<stack, backend, prompts, crossed>>

\* A locked key is asked for; with the host's programs any failure but that of a
\* missing entry makes the app turn to its own.
RecoverRead(t) ==
    \/ /\ backend = "integrated"
       /\ display' = "loading"
       /\ reads' = reads \ {t}
       /\ prompts' = prompts \cup {[id |-> t.id, for |-> "open", value |-> t.value]}
       /\ UNCHANGED <<stack, opened, shownVars, row, backend, crossed>>
    \/ /\ backend = "host"
       /\ backend' = "integrated"
       /\ Open(t.id, t.value, stack, reads \ {t})
       /\ UNCHANGED <<prompts, crossed>>

ShowReadFailure(t) ==
    /\ ShowList
    /\ reads' = reads \ {t}
    /\ UNCHANGED <<backend, prompts, crossed>>

HandleRead(t) ==
    /\ t.at # "reading"
    /\ \/ /\ IsOpened(t)
          /\ \/ t.at = "read" /\ ShowRead(t)
             \/ t.at = "failed" /\ (RecoverRead(t) \/ ShowReadFailure(t))
       \/ /\ ~IsOpened(t)
          /\ reads' = reads \ {t}
          /\ UNCHANGED <<stack, opened, display, shownVars, row, backend, prompts, crossed>>
    /\ UNCHANGED <<kept, undoing>>

\* Slip: a cancelled prompt leaves the page as it is.
CancelLeavesThePage ==
    UNCHANGED <<stack, opened, editor, raw, saved, row, savedExists, display>>

CancelOpening == ShowList

\* An unlocked key opens the entry the prompt was for, whatever is opened by then.
AnswerOpenPrompt(p) ==
    /\ p.for = "open"
    /\ prompts' = prompts \ {p}
    /\ \/ /\ Open(p.id, p.value, stack, reads)
          /\ crossed' = IF opened # p.value \/ (\E t \in reads : t.value.label = p.value.label)
                        THEN crossed \cup {p.value.label} ELSE crossed
       \/ /\ CancelOpening
          /\ UNCHANGED <<reads, crossed>>
    /\ UNCHANGED <<kept, backend, undoing>>

-----------------------------------------------------------------------------
(* Moving between pages. *)

ShowPage ==
    /\ Pushed("page") # stack
    /\ stack' = Pushed("page")
    /\ UNCHANGED <<kept, opened, display, shownVars, row, backend, reads, prompts, undoing,
                   crossed>>

Rest == IF stack = <<>> THEN <<>> ELSE SubSeq(stack, 1, Len(stack) - 1)

\* A page that was left while it loaded loads again.
Back ==
    /\ \/ /\ Rest = <<>>
          /\ ShowList
          /\ UNCHANGED <<reads, crossed>>
       \/ /\ Rest # <<>> /\ Rest[Len(Rest)] = "entry"
          /\ display = "loading" /\ opened # NoEntry
          /\ Open(steps', opened, Rest, reads)
          /\ Crossing(opened.label)
       \/ /\ Rest # <<>>
          /\ Rest[Len(Rest)] = "entry" => display = "editor" \/ opened = NoEntry
          /\ stack' = Rest
          /\ row' = IF Rest[Len(Rest)] = "entry" THEN NameOf(opened) ELSE row
          /\ UNCHANGED <<opened, display, shownVars, reads, crossed>>
    /\ UNCHANGED <<kept, backend, prompts, undoing>>

\* The shortcut works on every page.
ShowRaw ==
    /\ raw' = Structured
    /\ stack' = Pushed("raw")
    /\ UNCHANGED <<kept, opened, display, editor, saved, savedExists, row, backend, reads,
                   prompts, undoing, crossed>>

-----------------------------------------------------------------------------
(* Editing. *)

Editing == (Top = "entry" /\ display = "editor") \/ Top = "raw"

Edit ==
    /\ Editing
    /\ \/ /\ Top = "entry"
          /\ editor' = [editor EXCEPT !.changed = TRUE]
          /\ UNCHANGED <<raw, row>>
       \/ /\ Top = "entry"
          /\ row' \in AnyLabel \cup {NoLabel}
          /\ row' # row
          /\ editor.user # "none" => row' \notin PageLabels
          /\ UNCHANGED <<editor, raw>>
       \/ /\ Top = "raw"
          /\ \E u \in Users : raw' = [raw EXCEPT !.changed = TRUE, !.user = u]
          /\ UNCHANGED <<editor, row>>
    /\ UNCHANGED <<kept, stack, opened, display, saved, savedExists, backend, reads, prompts,
                   undoing, crossed>>

\* The template adds lines, the cleaning removes empty ones; the opened entry
\* takes its user name from the result.
ChangeFields ==
    /\ Editing
    /\ \E u \in IF Current.user = "field" THEN {"field"} ELSE {"none", "blank"} :
           LET text == [Current EXCEPT !.changed = TRUE, !.user = u]
               value == IF opened = NoEntry THEN NoEntry ELSE [opened EXCEPT !.user = u]
           IN  opened' = value /\ SyncEditor(text, value)
    /\ Crossing(opened.label)
    /\ UNCHANGED <<kept, stack, saved, savedExists, backend, reads, prompts, undoing>>

Revert ==
    /\ Top \in {"entry", "raw"}
    /\ Current # saved
    /\ SyncEditor(saved, opened)
    /\ Crossing(opened.label)
    /\ UNCHANGED <<kept, stack, opened, saved, savedExists, backend, reads, prompts, undoing>>

\* A new entry is opened over the one that is open.
NewEntry(e) ==
    /\ \E u \in {"none", "blank"} :
           /\ opened' = [label |-> e, user |-> u]
           /\ SyncEditor(First(e, u), [label |-> e, user |-> u])
           /\ saved' = First(e, u)
    /\ savedExists' = FALSE
    /\ stack' = Pushed("entry")
    /\ Crossing(e)
    /\ UNCHANGED <<kept, backend, reads, prompts, undoing>>

-----------------------------------------------------------------------------
(* Saving. *)

CanSave == opened # NoEntry /\ ~(opened.user = "none" /\ row = NoLabel)

Target == IF opened.user = "none" THEN row ELSE opened.label

\* The text of an entry that is renamed goes with it.
Moved(text) == IF text.of = opened.label THEN [text EXCEPT !.of = Target] ELSE text

CrossingSave ==
    crossed' = IF display = "loading" \/ Pending(opened.label) \/ opened.label \in crossed
               THEN crossed \cup {opened.label, Target}
               ELSE IF Pending(Target) THEN crossed \cup {Target} ELSE crossed

\* The page shows what was saved, and is left.
FinishSave ==
    LET text == Moved(Current)
        value == [label |-> Target, user |-> text.user]
    IN  IF Rest = <<>> THEN ShowList
        ELSE /\ opened' = value
             /\ SyncEditor(text, value)
             /\ saved' = text
             /\ savedExists' = TRUE
             /\ stack' = Rest

SaveFails ==
    /\ display' = "editor"
    /\ UNCHANGED <<stack, opened, shownVars, row>>

Writable == savedExists \/ kept[opened.label] = Blank

SaveNow ==
    /\ CanSave
    /\ CrossingSave
    /\ \/ /\ SaveFails
          /\ UNCHANGED kept
       \/ /\ Writable /\ Target # opened.label
          /\ kept' = [kept EXCEPT ![opened.label] = Current]
          /\ SaveFails
       \/ /\ Writable /\ Target = opened.label
          /\ kept' = [kept EXCEPT ![opened.label] = Current]
          /\ FinishSave
       \/ /\ Writable /\ Target # opened.label /\ kept[Target] = Blank
          /\ kept' = [kept EXCEPT ![opened.label] = Blank, ![Target] = Moved(Current)]
          /\ FinishSave
    /\ UNCHANGED <<backend, reads, undoing>>

Save ==
    /\ Top \in {"entry", "raw"}
    /\ \/ /\ SaveNow
          /\ UNCHANGED prompts
       \/ /\ CanSave
          /\ backend = "integrated"
          /\ prompts' = prompts \cup {[id |-> steps', for |-> "save", value |-> NoEntry]}
          /\ UNCHANGED <<kept, stack, opened, display, shownVars, row, backend, reads,
                         undoing, crossed>>

\* The save starts again, with what is opened and shown by then.
AnswerSavePrompt(p) ==
    /\ p.for = "save"
    /\ prompts' = prompts \ {p}
    /\ \/ SaveNow
       \/ UNCHANGED <<kept, stack, opened, display, shownVars, row, backend, reads, undoing,
                      crossed>>

-----------------------------------------------------------------------------
(* Undo; what it does to the files is EntryUndo's. *)

StartUndo ==
    /\ undoing = NoUndo
    /\ undoing' = [id |-> steps', editing |-> Top \in {"entry", "raw"}]
    /\ Top \in {"entry", "raw"} => Current = saved
    /\ UNCHANGED <<kept, stack, opened, display, shownVars, row, backend, reads, prompts,
                   crossed>>

\* An undo that was started on the page opens what it restored there.
EndUndo ==
    /\ undoing # NoUndo
    /\ undoing' = NoUndo
    /\ \/ /\ undoing.editing
          /\ \E e \in PageLabels :
                 \/ /\ kept' = [kept EXCEPT ![e] = First(e, "none")]
                    /\ Open(undoing.id, FromLabel(e), stack, reads)
                    /\ Crossing(e)
                 \/ /\ kept' = [kept EXCEPT ![e] = Blank]
                    /\ ShowList
                    /\ UNCHANGED <<reads, crossed>>
       \/ /\ ~undoing.editing
          /\ \E e \in PageLabels : \E text \in {Blank, First(e, "none")} :
                 kept' = [kept EXCEPT ![e] = text]
          /\ row' = IF Top = "entry" THEN NameOf(opened) ELSE row
          /\ UNCHANGED <<stack, opened, display, shownVars, reads, crossed>>
       \/ UNCHANGED <<kept, stack, opened, display, shownVars, row, reads, crossed>>
    /\ UNCHANGED <<backend, prompts>>

UserStep ==
    /\ steps < MaxSteps
    /\ steps' = steps + 1
    /\ \/ \E e \in PageLabels : OpenEntry(e) \/ NewEntry(e)
       \/ GoHome \/ Back \/ ShowPage \/ ShowRaw
       \/ Edit \/ ChangeFields \/ Revert \/ Save \/ StartUndo

Answer ==
    /\ UNCHANGED steps
    /\ \/ \E t \in reads : ReadEntry(t) \/ ShowProgress(t) \/ HandleRead(t)
       \/ \E p \in prompts : AnswerOpenPrompt(p) \/ AnswerSavePrompt(p)
       \/ EndUndo

Next == UserStep \/ Answer

Spec == Init /\ [][Next]_pageVars

-----------------------------------------------------------------------------
(* Properties. *)

(* What is shown for the opened entry, and what is kept under a label, is that *)
(* entry's text, in whatever order loads, prompts, saves and undos end.  The   *)
(* exception is a label whose page was used while a load of it was under way:  *)
(* saving, reverting or cleaning then takes the entry that was shown before.   *)
TextsStayWithTheirEntry ==
    /\ \A e \in AnyLabel \ crossed : kept[e] # Blank => kept[e].of = e
    /\ opened # NoEntry /\ display = "editor" /\ opened.label \notin crossed =>
           editor.of = opened.label /\ saved.of = opened.label

(* A page that says an entry is being opened has a worker that reads it, or a  *)
(* prompt whose answer opens it or leaves the page.                            *)
ALoadingEntryHasACarrier ==
    display = "loading" /\ opened # NoEntry /\ (\E i \in 1..Len(stack) : stack[i] = "entry") =>
        \/ \E t \in reads : t.value = opened
        \/ \E p \in prompts : p.for = "open"
=============================================================================
