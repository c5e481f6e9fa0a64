----------------------------- MODULE MCEntryPage -----------------------------
(* Instances for TLC of the store, whose entries are written here with the     *)
(* faults of the file system, of the page that opens and saves entries, and of *)
(* the text that its editor takes apart.  One of the three is chosen at the    *)
(* start and takes all the steps.                                              *)
EXTENDS MCRecipientStore

CONSTANTS
    bank, mail, PageLabels, NoLabel, TypedName, MaxSteps,
    url, phone, v1, v2, FieldNames, Filled, Empty, Passkey, NoName, Template, Opened, MaxLines,
    MaxEdits

VARIABLES
    focus,
    kept, stack, opened, display, editor, row, raw, saved, savedExists, backend, reads,
    prompts, undoing, crossed, steps,
    text, first, templates, fieldRows, user, otp, known, side, rawLines, clears, meant, mixed,
    edits

Page == INSTANCE EntryPage
Text == INSTANCE EntryText
            WITH file <- text, rows <- fieldRows, page <- side, raw <- rawLines

pageVars == <<kept, stack, opened, display, editor, row, raw, saved, savedExists, backend,
              reads, prompts, undoing, crossed, steps>>
textVars == <<text, first, templates, fieldRows, user, otp, known, side, rawLines, clears,
              meant, mixed, edits>>
allVars == <<focus, vars, pageVars, textVars>>

\* New entries start with a user name and a phone number; entries that are opened
\* have lines of every kind.
mcLine(kind, name) == [kind |-> kind, name |-> name, value |-> v1]
mcBlank(line) == [line EXCEPT !.value = Empty]
mcTemplate == <<mcBlank(mcLine("user", NoName)), mcBlank(mcLine("field", phone))>>
mcOpened == {mcLine("field", url), mcLine("user", NoName), mcLine("otp", NoName),
             mcLine("note", NoName)}

\* At the start there is one entry, or two without a user name in their text.
mcWith(name) == {l \in PageLabels : kept[l] = Page!First(l, name)}

AllInit ==
    /\ focus \in {"store", "page", "text"}
    /\ Init /\ Page!Init /\ Text!Init
    /\ focus # "page" =>
           backend = "host" /\ \A l \in PageLabels : kept[l] = Page!Blank
    /\ focus = "page" =>
           \/ Cardinality(mcWith("none")) = 1 /\ backend = "host" /\ mcWith("field") = {}
           \/ Cardinality(mcWith("field")) = 1 /\ backend = "integrated" /\ mcWith("none") = {}
           \/ PageLabels = mcWith("none") /\ backend = "integrated"
    /\ focus # "store" => \A l \in Labels : entry[l] = Absent
    /\ focus # "store" => gpgid = [d \in Dirs |-> NoFile]
    /\ focus # "text" => first = Empty /\ templates = <<>> /\ ~clears

AllNext ==
    /\ UNCHANGED focus
    /\ \/ /\ focus = "store"
          /\ Next
          /\ UNCHANGED <<pageVars, textVars>>
       \/ /\ focus = "page"
          /\ Page!Next
          /\ UNCHANGED <<vars, textVars>>
       \/ /\ focus = "text"
          /\ Text!Next
          /\ UNCHANGED <<vars, pageVars>>

AllSpec == AllInit /\ [][AllNext]_allVars

Interchangeable == Permutations(PageLabels)

(* Every variable of the three keeps its type. *)
TypesOK ==
    /\ focus = "store" => TypeOK
    /\ focus = "page" => Page!TypeOK
    /\ focus = "text" => Text!TypeOK

(* What is shown and saved is the text of the opened entry, the user's edits   *)
(* are in the lines they were made in, no more and no less, and the template   *)
(* only adds lines: see EntryPage for the first, EntryText for the others.     *)
TextsStayWithTheirEntry ==
    /\ focus = "page" => Page!TextsStayWithTheirEntry
    /\ focus = "text" => Text!EditsStayInTheirLine /\ Text!TemplateOnlyAdds

(* See EntryPage. *)
ALoadingEntryHasACarrier == focus = "page" => Page!ALoadingEntryHasACarrier
=============================================================================
