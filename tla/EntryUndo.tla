------------------------------ MODULE EntryUndo ------------------------------
(***************************************************************************)
(* One window's undo stack over the entry files of its stores.  Deleting,  *)
(* moving to another store and undoing run in workers, a port call after   *)
(* another; saving the entry page and renaming a row run on the UI thread. *)
(*                                                                         *)
(*   crates/keycord-entries/src/undo.rs          the workers' operations   *)
(*   crates/keycord-entries/src/ui/undo.rs       popping and answering     *)
(*   crates/keycord-entries/src/ui/session.rs    the stack                 *)
(*   crates/keycord-entries/src/ui/list/row.rs   delete, move, rename      *)
(*   crates/keycord-entries/src/ui/page/mod.rs   save                      *)
(*   crates/keycord-entries/src/integrated.rs    the port                  *)
(***************************************************************************)
EXTENDS Naturals, Sequences

CONSTANTS
    Stores, Labels,
    Texts, Absent,   \* contents of an entry; Absent: there is no file
    NoPlace,
    Slots,           \* workers that may run at once
    Waits,           \* does the user wait for one answer before the next click
    MaxUndo,         \* MAX_UNDO_ACTIONS, 32 in the code
    MaxOps,          \* bound on operations
    MaxFailures      \* bound on failing calls

Places == Stores \X Labels

ASSUME UndoAssumption ==
    /\ Absent \notin Texts
    /\ NoPlace \notin Places
    /\ Waits \in BOOLEAN
    /\ MaxUndo \in Nat \ {0} /\ MaxOps \in Nat /\ MaxFailures \in Nat

Files == [Places -> Texts \cup {Absent}]

(* UndoAction, every variant with the fields of all.                       *)
Action(type, from, contents, to) ==
    [type |-> type, from |-> from, contents |-> contents, to |-> to]
Unavailable == Action("unavailable", NoPlace, Absent, NoPlace)
RestoreSavedEntry(from, contents, to) == Action("saved", from, contents, to)
RenameEntry(from, to) == Action("rename", from, Absent, to)
MoveEntryBetweenStores(from, to) == Action("move", from, Absent, to)
RestoreDeletedEntry(from, contents) == Action("deleted", from, contents, NoPlace)
Actions == [type : {"unavailable", "saved", "rename", "move", "deleted"},
            from : Places \cup {NoPlace}, contents : Texts \cup {Absent},
            to : Places \cup {NoPlace}]

(* An action on the stack, with the files around what it undoes (history). *)
Item(action, before, after) == [action |-> action, before |-> before, after |-> after]
Items == [action : Actions, before : Files, after : Files]
NoItem == Item(Unavailable, [p \in Places |-> Absent], [p \in Places |-> Absent])

(* What is left of a worker's task: "take" is read or removed, "put" is    *)
(* written with "contents".                                                *)
Plan(phase, take, put, contents) ==
    [phase |-> phase, take |-> take, put |-> put, contents |-> contents]
Idle == Plan("idle", NoPlace, NoPlace, Absent)
Phases == {"idle", "read", "check", "write", "remove", "rollback", "rename",
           "done", "failed"}
Plans == [phase : Phases, take : Places \cup {NoPlace},
          put : Places \cup {NoPlace}, contents : Texts \cup {Absent}]

Page(place, saved) == [place |-> place, saved |-> saved]
Closed == Page(NoPlace, Absent)

VARIABLES
    files,   \* the text each place decrypts to
    undo,    \* Seq(Items), the last is popped first
    page,    \* the entry page, with the text it was opened or saved with
    job,     \* [Slots -> Plans]
    cause,   \* [Slots -> what the job was started for]
    seen,    \* history: texts the user keeps; has a change no undo on the stack
    used     \* operations and failures so far

vars == <<files, undo, page, job, cause, seen, used>>

Causes == [kind : {"none", "delete", "move", "undo"}, item : Items, editing : BOOLEAN]
NoCause == [kind |-> "none", item |-> NoItem, editing |-> FALSE]

Quiet == \A s \in Slots : job[s] = Idle

TypeOK ==
    /\ files \in Files
    /\ undo \in Seq(Items) /\ Len(undo) <= MaxUndo
    /\ page \in [place : Places \cup {NoPlace}, saved : Texts \cup {Absent}]
    /\ job \in [Slots -> Plans]
    /\ cause \in [Slots -> Causes]
    /\ seen \in [kept : SUBSET Texts, unrecorded : BOOLEAN]
    /\ used \in [ops : 0..MaxOps, failures : 0..MaxFailures]

(* Entries have texts of their own, so that a copy is told from the entry.  *)
Init ==
    /\ files \in {f \in Files : \A p, q \in Places :
                     p # q /\ f[p] = f[q] => f[p] = Absent}
    /\ undo = <<>>
    /\ page = Closed
    /\ job = [s \in Slots |-> Idle]
    /\ cause = [s \in Slots |-> NoCause]
    /\ seen = [kept |-> {t \in Texts : \E p \in Places : files[p] = t},
               unrecorded |-> FALSE]
    /\ used = [ops |-> 0, failures |-> 0]

Ready == Waits => Quiet
Operate ==
    /\ used.ops < MaxOps
    /\ Ready
    /\ used' = [used EXCEPT !.ops = @ + 1]
OneFailure ==
    /\ used.failures < MaxFailures
    /\ used' = [used EXCEPT !.failures = @ + 1]
OperateAndFail ==
    /\ used.ops < MaxOps /\ used.failures < MaxFailures
    /\ Ready
    /\ used' = [ops |-> used.ops + 1, failures |-> used.failures + 1]

--------------------------------------------------------------------------------
(* The stack.                                                              *)

(* The oldest actions are dropped.                                         *)
Pushed(stack, item) ==
    LET all == Append(stack, item) IN
    IF Len(all) > MaxUndo THEN Tail(all) ELSE all

Top == undo[Len(undo)]

(* The calls that undo "a"; the check of an overwriting save always passes. *)
UndoPlan(a) ==
    CASE a.type = "saved" /\ a.contents = Absent ->
           Plan("remove", a.to, NoPlace, Absent)
      [] a.type = "saved" /\ a.contents # Absent ->
           IF a.from = a.to THEN Plan("write", NoPlace, a.from, a.contents)
                            ELSE Plan("check", a.to, a.from, a.contents)
      [] a.type = "rename" -> Plan("rename", a.to, a.from, Absent)
      [] a.type = "move" -> Plan("read", a.to, a.from, Absent)
      [] a.type = "deleted" -> Plan("check", NoPlace, a.from, a.contents)
      [] OTHER -> Idle

(* The place of the entry an undo brings back, if it brings one back.      *)
RestoredEntry(a) ==
    IF a.type = "saved" /\ a.contents = Absent THEN NoPlace ELSE a.from

--------------------------------------------------------------------------------
(* Clicks that start a worker.                                             *)

Start(s, plan, kind, item) ==
    /\ job[s] = Idle
    /\ job' = [job EXCEPT ![s] = plan]
    /\ cause' = [cause EXCEPT ![s] =
                   [kind |-> kind, item |-> item, editing |-> page # Closed]]

(* The row's Apply button of a move; nothing disables it while a move runs. *)
MoveEntryToStore(s, p, store) ==
    /\ Operate
    /\ page = Closed /\ files[p] # Absent /\ store # p[1]
    /\ Start(s, Plan("read", p, <<store, p[2]>>, Absent), "move",
             Item(MoveEntryBetweenStores(p, <<store, p[2]>>), files, files))
    /\ UNCHANGED <<files, undo, page, seen>>

DeleteEntry(s, p) ==
    /\ Operate
    /\ page = Closed /\ files[p] # Absent
    /\ Start(s, Plan("read", p, NoPlace, Absent), "delete",
             Item(RestoreDeletedEntry(p, Absent), files, files))
    /\ seen' = [seen EXCEPT !.kept = @ \ {files[p]}]
    /\ UNCHANGED <<files, undo, page>>

(* Undo with nothing unsaved in the editor.                                *)
ContextUndo(s) ==
    /\ Operate
    /\ undo # <<>> /\ Top.action # Unavailable
    /\ Start(s, UndoPlan(Top.action), "undo", Top)
    /\ undo' = SubSeq(undo, 1, Len(undo) - 1)
    /\ seen' = IF Top.action.type = "saved"
                 THEN [seen EXCEPT !.kept = @ \ {Top.after[Top.action.to]}]
                 ELSE seen
    /\ UNCHANGED <<files, page>>

UndoUnavailable ==
    /\ Operate
    /\ undo # <<>> /\ Top.action = Unavailable
    /\ undo' = SubSeq(undo, 1, Len(undo) - 1)
    /\ UNCHANGED <<files, page, job, cause, seen>>

--------------------------------------------------------------------------------
(* What a worker does, one file access a step.                             *)

Advance(s, phase) == job' = [job EXCEPT ![s].phase = phase]

ReadPasswordEntry(s) ==
    /\ job[s].phase = "read"
    /\ job' = [job EXCEPT
         ![s].contents = files[job[s].take],
         ![s].phase = IF files[job[s].take] = Absent THEN "failed"
                      ELSE IF cause[s].kind = "delete" THEN "remove" ELSE "check"]
    /\ cause' = IF cause[s].kind = "delete"
                  THEN [cause EXCEPT ![s].item.action =
                          RestoreDeletedEntry(job[s].take, files[job[s].take])]
                  ELSE cause
    /\ UNCHANGED <<files, undo, page, seen, used>>

(* No key opens it, say: a delete goes on without an undo.                 *)
ReadFails(s) ==
    /\ job[s].phase = "read" /\ files[job[s].take] # Absent
    /\ OneFailure
    /\ IF cause[s].kind = "delete"
         THEN /\ Advance(s, "remove")
              /\ cause' = [cause EXCEPT ![s].item.action = Unavailable]
         ELSE Advance(s, "failed") /\ UNCHANGED cause
    /\ UNCHANGED <<files, undo, page, seen>>

(* Slip: a save never looks whether the entry exists.                      *)
CheckNothing(s) ==
    /\ job[s].phase = "check"
    /\ Advance(s, "write")
    /\ UNCHANGED <<files, undo, page, cause, seen, used>>
CheckEntryIsNew(s) ==
    /\ job[s].phase = "check"
    /\ Advance(s, IF files[job[s].put] = Absent THEN "write" ELSE "failed")
    /\ UNCHANGED <<files, undo, page, cause, seen, used>>

SavePasswordEntry(s) ==
    /\ job[s].phase = "write"
    /\ files' = [files EXCEPT ![job[s].put] = job[s].contents]
    /\ Advance(s, IF job[s].take = NoPlace THEN "done" ELSE "remove")
    /\ UNCHANGED <<undo, page, cause, seen, used>>

(* Before the file is replaced, or after: the directory is synced last.    *)
SaveFails(s) ==
    /\ job[s].phase = "write"
    /\ OneFailure
    /\ files' \in {files, [files EXCEPT ![job[s].put] = job[s].contents]}
    /\ Advance(s, "failed")
    /\ UNCHANGED <<undo, page, cause, seen>>

RemoveFailed(s) == IF job[s].put = NoPlace THEN "failed" ELSE "rollback"
DeletePasswordEntry(s) ==
    /\ job[s].phase = "remove"
    /\ files' = [files EXCEPT ![job[s].take] = Absent]
    /\ Advance(s, IF files[job[s].take] = Absent THEN RemoveFailed(s) ELSE "done")
    /\ UNCHANGED <<undo, page, cause, seen, used>>

(* The file is still there, or it is gone and an empty directory is not.   *)
DeleteFails(s) ==
    /\ job[s].phase = "remove" /\ files[job[s].take] # Absent
    /\ OneFailure
    /\ \/ UNCHANGED <<files, seen>>
       \/ /\ files' = [files EXCEPT ![job[s].take] = Absent]
          /\ seen' = [seen EXCEPT !.unrecorded = TRUE]
    /\ Advance(s, RemoveFailed(s))
    /\ UNCHANGED <<undo, page, cause>>

RollBack(s) ==
    /\ job[s].phase = "rollback"
    /\ \/ files' = [files EXCEPT ![job[s].put] = Absent] /\ UNCHANGED used
       \/ OneFailure /\ UNCHANGED files
    /\ Advance(s, "failed")
    /\ UNCHANGED <<undo, page, cause, seen>>

Swapped(from, to) == [files EXCEPT ![from] = Absent, ![to] = files[from]]
RenamePasswordEntry(s) ==
    /\ job[s].phase = "rename"
    /\ IF files[job[s].take] # Absent /\ files[job[s].put] = Absent
         THEN /\ files' = Swapped(job[s].take, job[s].put)
              /\ \/ Advance(s, "done") /\ UNCHANGED used
                 \/ Advance(s, "failed") /\ OneFailure
         ELSE Advance(s, "failed") /\ UNCHANGED <<files, used>>
    /\ UNCHANGED <<undo, page, cause, seen>>

--------------------------------------------------------------------------------
(* The worker's answer on the UI thread.                                   *)

Finish(s) ==
    /\ job' = [job EXCEPT ![s] = Idle]
    /\ cause' = [cause EXCEPT ![s] = NoCause]

(* A row pushes through its window.                                        *)
RowDone(s) ==
    /\ job[s].phase = "done" /\ cause[s].kind \in {"delete", "move"}
    /\ undo' = Pushed(undo, [cause[s].item EXCEPT !.after = files])
    /\ seen' = [seen EXCEPT !.unrecorded = @ \/ cause[s].item.action = Unavailable]
    /\ Finish(s)
    /\ UNCHANGED <<files, page, used>>

(* The list was reloaded meanwhile: the row has no window to push to.      *)
DetachedRowDone(s) ==
    /\ job[s].phase = "done" /\ cause[s].kind \in {"delete", "move"}
    /\ OneFailure
    /\ seen' = [seen EXCEPT !.unrecorded = TRUE]
    /\ Finish(s)
    /\ UNCHANGED <<files, undo, page>>

UndoDone(s) ==
    /\ job[s].phase = "done" /\ cause[s].kind = "undo"
    /\ LET action == cause[s].item.action
           place == RestoredEntry(action)
       IN /\ page' = IF ~cause[s].editing THEN page
                     ELSE IF place = NoPlace \/ files[place] = Absent THEN Closed
                     ELSE Page(place, files[place])
          /\ seen' = IF action.type \in {"saved", "deleted"}
                       THEN [seen EXCEPT !.kept = @ \cup ({action.contents} \ {Absent})]
                       ELSE seen
    /\ Finish(s)
    /\ UNCHANGED <<files, undo, used>>

(* An error, or a worker that is gone.                                     *)
Clicked(c) == IF c.kind = "undo" THEN c.item.after ELSE c.item.before
Failed(s) ==
    /\ \/ job[s].phase = "failed" /\ UNCHANGED used
       \/ job[s] # Idle /\ job[s].phase # "failed" /\ OneFailure
    /\ undo' = IF cause[s].kind = "undo" THEN Pushed(undo, cause[s].item) ELSE undo
    /\ seen' = [seen EXCEPT !.unrecorded = @ \/ files # Clicked(cause[s])]
    /\ Finish(s)
    /\ UNCHANGED <<files, page>>

--------------------------------------------------------------------------------
(* The UI thread's own operations.                                         *)

(* A row that could not be read keeps no undo of its rename.               *)
RenameRow(p, label, readable) ==
    LET to == <<p[1], label>>
        action == IF readable THEN RenameEntry(p, to) ELSE Unavailable
    IN /\ Operate
       /\ page = Closed /\ files[p] # Absent /\ files[to] = Absent
       /\ files' = Swapped(p, to)
       /\ undo' = Pushed(undo, Item(action, files, files'))
       /\ seen' = [seen EXCEPT !.unrecorded = @ \/ ~readable]
       /\ UNCHANGED <<page, job, cause>>

(* Renamed, and then the directory it left cannot be removed.              *)
RenameRowFails(p, label) ==
    LET to == <<p[1], label>>
    IN /\ OperateAndFail
       /\ page = Closed /\ files[p] # Absent /\ files[to] = Absent
       /\ files' = Swapped(p, to)
       /\ seen' = [seen EXCEPT !.unrecorded = TRUE]
       /\ UNCHANGED <<undo, page, job, cause>>

OpenPage(p) ==
    /\ Ready /\ page = Closed /\ files[p] # Absent
    /\ page' = Page(p, files[p])
    /\ UNCHANGED <<files, undo, job, cause, seen, used>>

NewPage(p) ==
    /\ Ready /\ page = Closed
    /\ page' = Page(p, Absent)
    /\ UNCHANGED <<files, undo, job, cause, seen, used>>

ClosePage ==
    /\ Ready /\ page # Closed
    /\ page' = Closed
    /\ UNCHANGED <<files, undo, job, cause, seen, used>>

(* A text nobody has: the user tells her texts apart.                      *)
Fresh(text) ==
    /\ \A p \in Places : files[p] # text
    /\ \A i \in 1..Len(undo) :
         undo[i].action.contents # text /\ \A p \in Places : undo[i].after[p] # text

(* An entry that was there when the page opened may be overwritten; then   *)
(* the entry is renamed if the user name moved its label.                  *)
Saving(text) ==
    /\ page # Closed
    /\ Fresh(text) \/ text = page.saved
    /\ page.saved = Absent => files[page.place] = Absent
Written(text) == [files EXCEPT ![page.place] = text]
RenameTarget(label) == <<page.place[1], label>>
RenamedAfterSave(text, label) ==
    IF RenameTarget(label) = page.place THEN Written(text)
    ELSE [Written(text) EXCEPT ![page.place] = Absent, ![RenameTarget(label)] = text]

SavePageUndoneAt(text, label, place) ==
    /\ Operate /\ Saving(text)
    /\ RenameTarget(label) = page.place \/ files[RenameTarget(label)] = Absent
    /\ files' = RenamedAfterSave(text, label)
    /\ undo' = IF text = page.saved /\ RenameTarget(label) = page.place THEN undo
               ELSE Pushed(undo, Item(RestoreSavedEntry(page.place, page.saved, place),
                                      files, files'))
    /\ page' = Closed
    /\ seen' = [seen EXCEPT !.kept = (@ \ {page.saved}) \cup {text}]
    /\ UNCHANGED <<job, cause>>

(* Slip: the undo is for the place the entry had when the page was opened. *)
SavePageForOldLabel(text, label) == SavePageUndoneAt(text, label, page.place)
SavePage(text, label) == SavePageUndoneAt(text, label, RenameTarget(label))

(* The new text is saved but its entry cannot take the other label: the    *)
(* page stays as it was, and there is no undo.                             *)
SavePageUnrenamed(text, label) ==
    /\ Operate /\ Saving(text)
    /\ RenameTarget(label) # page.place /\ files[RenameTarget(label)] # Absent
    /\ files' = Written(text)
    /\ seen' = [seen EXCEPT !.kept = @ \ {page.saved}, !.unrecorded = TRUE]
    /\ UNCHANGED <<undo, page, job, cause>>

(* An error after the text was written, or after the entry was renamed.    *)
SavePageFails(text, label) ==
    /\ OperateAndFail /\ Saving(text)
    /\ \/ files' = Written(text)
       \/ files[RenameTarget(label)] = Absent /\ files' = RenamedAfterSave(text, label)
    /\ seen' = [seen EXCEPT !.kept = @ \ {page.saved}, !.unrecorded = TRUE]
    /\ UNCHANGED <<undo, page, job, cause>>

--------------------------------------------------------------------------------
WorkerStep(s) ==
    \/ ReadPasswordEntry(s) \/ CheckEntryIsNew(s) \/ SavePasswordEntry(s)
    \/ DeletePasswordEntry(s) \/ RollBack(s) \/ RenamePasswordEntry(s)
    \/ ReadFails(s) \/ SaveFails(s) \/ DeleteFails(s)
    \/ RowDone(s) \/ DetachedRowDone(s) \/ UndoDone(s) \/ Failed(s)

Next ==
    \/ \E s \in Slots :
         \/ WorkerStep(s)
         \/ \E p \in Places : DeleteEntry(s, p)
         \/ \E p \in Places, store \in Stores : MoveEntryToStore(s, p, store)
         \/ ContextUndo(s)
    \/ UndoUnavailable
    \/ \E p \in Places : OpenPage(p) \/ NewPage(p)
    \/ \E p \in Places, label \in Labels :
         \/ \E readable \in BOOLEAN : RenameRow(p, label, readable)
         \/ RenameRowFails(p, label)
    \/ ClosePage
    \/ \E text \in Texts, label \in Labels :
         SavePage(text, label) \/ SavePageUnrenamed(text, label)
         \/ SavePageFails(text, label)

Spec == Init /\ [][Next]_vars

--------------------------------------------------------------------------------
(* A text the user neither deleted, nor replaced, nor undid is in a file:   *)
(* a move writes before it removes and never removes the last copy, and no  *)
(* undo writes over or removes another entry.  This ends with the first     *)
(* change the stack has no undo for, and with a delete that fails after it  *)
(* removed the file (undo.rs, EntryUndoBackend).                            *)
EntriesSurvive ==
    seen.unrecorded \/ \A t \in seen.kept : \E p \in Places : files[p] = t

(* Undoing action after action leads back: the top of the stack undoes the  *)
(* last change, and each action below it the change before, as long as      *)
(* every change has an undo and nothing stopped half way (ui/undo.rs,       *)
(* session.rs, and the actions pushed by ui/page/mod.rs and ui/list/row.rs). *)
UndoReturnsTheFiles ==
    Quiet /\ ~seen.unrecorded =>
      /\ undo # <<>> => Top.after = files
      /\ \A i \in 2..Len(undo) : undo[i].before = undo[i - 1].after
================================================================================
