------------------------------ MODULE ToolPages ------------------------------
(* The tools over all entries: the browser of field values, the scan for weak  *)
(* passwords and the export.  Each takes the rows of the list, has a worker    *)
(* look which keys are locked, prompts for them one after the other, and has a *)
(* second worker read the entries.  Meanwhile the user may go elsewhere, and   *)
(* every unlocked key makes the list reload.  What the tools compute, and      *)
(* entries that cannot be read, are left out.                                  *)
EXTENDS Naturals

CONSTANTS
    ToolEntries,
    MaxMoves,    \* bound: pages opened, left or gone back to, and exports asked for
    MaxReloads,  \* bound: reloads of the list
    MaxLocked    \* bound: locked keys a tool meets

VARIABLES
    list,       \* number of the list's newest load, and the rows it has so far
    toolPage,   \* the visible page
    fields,     \* the browser: its load, the load of the list it is of, what it shows
    weak,       \* the scan: its run and what it shows
    exporting,  \* an export is under way
    asking,     \* the export's dialogs are on the screen
    toolTasks,  \* uses of the tools that are under way
    moves

toolVars == <<list, toolPage, fields, weak, exporting, asking, toolTasks, moves>>

\* Results are the set of the one set of entries they are of, or empty.
Nothing == {}
Rows == SUBSET ToolEntries

ToolTasks ==
    [tool : {"fields", "weak", "export"}, generation : Nat, requests : Rows,
     at : {"locks", "prompt", "reading", "read", "lost"}, left : 0..MaxLocked]

TypeOK ==
    /\ list \in [load : 1..(MaxReloads + 1), rows : Rows]
    /\ toolPage \in {"list", "tools", "fields", "weak", "entry"}
    /\ fields.shown \subseteq Rows
    /\ fields.source \in 0..(MaxReloads + 1)
    /\ weak.shown \subseteq Rows
    /\ {fields.busy, fields.partial, weak.busy, exporting, asking} \subseteq BOOLEAN
    /\ toolTasks \subseteq ToolTasks
    /\ moves \in 0..MaxMoves

Init ==
    /\ list = [load |-> 1, rows |-> {}]
    /\ toolPage = "list"
    /\ fields = [generation |-> 0, busy |-> FALSE, source |-> 0, shown |-> Nothing,
                 partial |-> FALSE]
    /\ weak = [generation |-> 0, busy |-> FALSE, shown |-> Nothing]
    /\ exporting = FALSE /\ asking = FALSE
    /\ toolTasks = {}
    /\ moves = 0

AdvancedToolsAreBusy == fields.busy \/ weak.busy \/ exporting

-----------------------------------------------------------------------------
(* Starting a tool. *)

\* What a tool starts with: the rows that are in the list by then.
Collect(tool, generation) ==
    {[tool |-> tool, generation |-> generation, requests |-> list.rows, at |-> "locks",
      left |-> 0]}

\* The browser is cleared when it is not of the newest load of the list.
Invalidated ==
    IF fields.source = list.load THEN fields
    ELSE [generation |-> fields.generation + 1, busy |-> FALSE, source |-> 0,
          shown |-> Nothing, partial |-> FALSE]

PrepareFields ==
    /\ toolPage = "tools"
    /\ ~AdvancedToolsAreBusy
    /\ toolPage' = "fields"
    /\ UNCHANGED <<weak, asking>>
    /\ \/ /\ Invalidated.shown # Nothing
          /\ fields' = Invalidated
          /\ UNCHANGED toolTasks
       \/ /\ Invalidated.shown = Nothing
          /\ fields' = [generation |-> Invalidated.generation + 1, busy |-> TRUE,
                        source |-> list.load, shown |-> Nothing,
                        partial |-> list.rows # ToolEntries]
          /\ toolTasks' = toolTasks \cup Collect("fields", Invalidated.generation + 1)

StartWeakScan ==
    /\ weak' = [generation |-> weak.generation + 1, busy |-> TRUE, shown |-> Nothing]
    /\ toolTasks' = toolTasks \cup Collect("weak", weak.generation + 1)

PrepareWeak ==
    /\ toolPage = "tools"
    /\ ~AdvancedToolsAreBusy
    /\ toolPage' = "weak"
    /\ fields' = Invalidated
    /\ StartWeakScan
    /\ UNCHANGED asking

\* The scan is made again when its page is shown and has no results.
RefreshWeakIfNeeded ==
    IF AdvancedToolsAreBusy \/ weak.shown # Nothing THEN UNCHANGED <<weak, toolTasks>>
    ELSE StartWeakScan

-----------------------------------------------------------------------------
(* Moving between pages. *)

OpenTools ==
    /\ toolPage = "list"
    /\ toolPage' = "tools"
    /\ fields' = Invalidated
    /\ UNCHANGED <<weak, toolTasks, asking>>

\* An entry that is opened from the results may be changed: they are dropped.
OpenWeakEntry ==
    /\ toolPage = "weak"
    /\ weak.shown # Nothing
    /\ toolPage' = "entry"
    /\ weak' = [weak EXCEPT !.generation = @ + 1, !.shown = Nothing]
    /\ UNCHANGED <<fields, toolTasks, asking>>

GoBack ==
    \/ /\ toolPage \in {"fields", "weak"}
       /\ toolPage' = "tools"
       /\ UNCHANGED <<fields, weak, toolTasks, asking>>
    \/ /\ toolPage = "entry"
       /\ toolPage' = "weak"
       /\ RefreshWeakIfNeeded
       /\ UNCHANGED <<fields, asking>>

\* On every page that is not one of the tools' the results are forgotten.
LeaveTools ==
    /\ toolPage # "list"
    /\ toolPage' = "list"
    /\ weak' = [generation |-> weak.generation + 1, busy |-> FALSE, shown |-> Nothing]
    /\ fields' = Invalidated
    /\ UNCHANGED <<toolTasks, asking>>

ConfirmExport ==
    /\ toolPage = "tools"
    /\ ~AdvancedToolsAreBusy
    /\ ~asking
    /\ asking' = TRUE
    /\ UNCHANGED <<toolPage, fields, weak, toolTasks>>

Move ==
    /\ moves < MaxMoves
    /\ moves' = moves + 1
    /\ \/ PrepareFields \/ PrepareWeak \/ OpenTools \/ OpenWeakEntry \/ GoBack \/ LeaveTools
       \/ ConfirmExport
    /\ UNCHANGED <<list, exporting>>

\* The file was chosen, or one of the dialogs cancelled.  The export does not
\* take the list's rows but collects the entries itself.
StartExport ==
    /\ asking
    /\ asking' = FALSE
    /\ \/ /\ ~AdvancedToolsAreBusy
          /\ exporting' = TRUE
          /\ toolTasks' = toolTasks \cup
                 {[tool |-> "export", generation |-> 0, requests |-> ToolEntries,
                   at |-> "locks", left |-> 0]}
       \/ UNCHANGED <<exporting, toolTasks>>
    /\ UNCHANGED <<list, toolPage, fields, weak, moves>>

-----------------------------------------------------------------------------
(* A use of a tool goes on. *)

Others(task) == toolTasks \ {task}
GoesTo(task, stage, left) ==
    toolTasks' = Others(task) \cup {[task EXCEPT !.at = stage, !.left = left]}

\* Slip: the answer of an older read is taken.
AnyIsCurrent(task) == TRUE

IsCurrent(task) ==
    CASE task.tool = "fields" -> task.generation = fields.generation
      [] task.tool = "weak" -> task.generation = weak.generation
      [] OTHER -> TRUE

ToolEnds(task) ==
    /\ fields' = IF task.tool = "fields" THEN [fields EXCEPT !.busy = FALSE] ELSE fields
    /\ weak' = IF task.tool = "weak" THEN [weak EXCEPT !.busy = FALSE] ELSE weak
    /\ exporting' = (exporting /\ task.tool # "export")

\* The tool gives up, if it is still the one that asked.
Abort(task) ==
    /\ toolTasks' = Others(task)
    /\ IF IsCurrent(task) THEN ToolEnds(task) ELSE UNCHANGED <<fields, weak, exporting>>

ShowResults(task) ==
    /\ toolTasks' = Others(task)
    /\ fields' = IF task.tool = "fields"
                 THEN [fields EXCEPT !.busy = FALSE, !.shown = {task.requests}]
                 ELSE fields
    /\ weak' = IF task.tool = "weak"
               THEN [weak EXCEPT !.busy = FALSE, !.shown = {task.requests}] ELSE weak
    /\ exporting' = (exporting /\ task.tool # "export")

ReadEntries(task) ==
    \/ /\ ~IsCurrent(task)
       /\ toolTasks' = Others(task)
       /\ UNCHANGED <<fields, weak, exporting>>
    \/ /\ IsCurrent(task)
       /\ task.requests = {} /\ task.tool # "export"
       /\ ShowResults(task)
    \/ /\ IsCurrent(task)
       /\ task.requests # {} \/ task.tool = "export"
       /\ GoesTo(task, "reading", 0)
       /\ UNCHANGED <<fields, weak, exporting>>

\* The first worker finds locked keys, or none, or dies.
CollectLockedKeys(task) ==
    /\ task.at = "locks"
    /\ \/ ReadEntries(task)
       \/ /\ \E locked \in 1..MaxLocked : GoesTo(task, "prompt", locked)
          /\ UNCHANGED <<fields, weak, exporting>>
       \/ Abort(task)
    /\ UNCHANGED <<list, moves>>

\* A key that was unlocked leads to the next prompt or to the reading, and then
\* to a reload of the list.
AnswerPrompt(task) ==
    /\ task.at = "prompt"
    /\ \/ /\ list.load <= MaxReloads
          /\ list' = [load |-> list.load + 1, rows |-> {}]
          /\ \/ /\ task.left > 1
                /\ GoesTo(task, "prompt", task.left - 1)
                /\ UNCHANGED <<fields, weak, exporting>>
             \/ /\ task.left = 1
                /\ ReadEntries(task)
       \/ /\ Abort(task)
          /\ UNCHANGED list
    /\ UNCHANGED moves

WorkerReads(task) ==
    /\ task.at = "reading"
    /\ \E outcome \in {"read", "lost"} : GoesTo(task, outcome, 0)
    /\ UNCHANGED <<list, fields, weak, exporting, moves>>

HandleResults(task) ==
    /\ task.at \in {"read", "lost"}
    /\ \/ /\ task.at = "read" /\ IsCurrent(task)
          /\ ShowResults(task)
       \/ /\ task.at = "lost" \/ ~IsCurrent(task)
          /\ Abort(task)
    /\ UNCHANGED <<list, moves>>

ToolStep(task) ==
    /\ CollectLockedKeys(task) \/ AnswerPrompt(task) \/ WorkerReads(task) \/ HandleResults(task)
    /\ UNCHANGED <<toolPage, asking>>

-----------------------------------------------------------------------------
(* The list: it reloads for other reasons too, and gets its rows bit by bit. *)

ReloadList ==
    /\ list.load <= MaxReloads
    /\ list' = [load |-> list.load + 1, rows |-> {}]
    /\ UNCHANGED <<toolPage, fields, weak, exporting, asking, toolTasks, moves>>

AppendRow ==
    /\ \E e \in ToolEntries \ list.rows : list' = [list EXCEPT !.rows = @ \cup {e}]
    /\ UNCHANGED <<toolPage, fields, weak, exporting, asking, toolTasks, moves>>

Next ==
    \/ Move
    \/ StartExport
    \/ \E task \in toolTasks : ToolStep(task)
    \/ ReloadList
    \/ AppendRow

Spec == Init /\ [][Next]_toolVars

-----------------------------------------------------------------------------
(* Properties. *)

(* The values the browser keeps for the list as it is now are of all its       *)
(* entries, whichever use of it, given up or not, ended last.  A browser that  *)
(* was opened while rows were still being appended is the exception: it counts *)
(* as current although it has only the rows there were.                        *)
KeptValuesAreComplete ==
    fields.shown # Nothing /\ fields.source = list.load /\ ~fields.partial =>
        fields.shown = {ToolEntries}

(* A tool is busy exactly while one use of it is under way that will end it,   *)
(* however prompts are answered and workers die; no two tools are busy at once. *)
ABusyToolIsWorking ==
    /\ fields.busy = (\E task \in toolTasks : task.tool = "fields" /\ IsCurrent(task))
    /\ weak.busy = (\E task \in toolTasks : task.tool = "weak" /\ IsCurrent(task))
    /\ exporting = (\E task \in toolTasks : task.tool = "export")
    /\ ~(fields.busy /\ weak.busy) /\ ~(exporting /\ (fields.busy \/ weak.busy))

=============================================================================
