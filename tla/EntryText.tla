------------------------------ MODULE EntryText ------------------------------
(* The text of one entry and the editor over it.  The first line is the        *)
(* password or a stored passkey; the others are fields, a user name, a         *)
(* one-time password or notes.  The editor takes the text apart: it keeps the  *)
(* lines without their values, and a row per value; user name and one-time     *)
(* password have one row each, however many lines they have.  What it shows is *)
(* put together again whenever it is looked at.  White space is left out.      *)
EXTENDS Naturals, Sequences, FiniteSets, SequencesExt

CONSTANTS
    FieldNames,  \* names of fields
    Filled,      \* values of fields, user names and one-time passwords
    Empty,       \* no value
    Passkey,     \* a first line that is a passkey
    NoName,      \* lines that are not fields
    Template,    \* the lines new entries start with, from the preferences
    Opened,      \* lines the entry may have when it is opened
    MaxLines,    \* bound: lines of an entry that is opened
    MaxEdits     \* bound: what the user does

VARIABLES
    file,        \* the text as it was read or saved
    first,       \* the row of the password
    templates,   \* the lines without their values
    rows,        \* the rows of the fields, in the order they are shown
    user,        \* the row of the user name
    otp,         \* the one-time password: if there is one, its value, and an edit of it
    known,       \* the user name the opened entry has
    page,        \* the editor or the raw text
    raw,
    clears,      \* the preference to clean a text before it is saved
    meant,       \* history: the text the edits should have led to
    mixed,       \* history: a field was added to a text with a field under its notes
    edits

vars == <<file, first, templates, rows, user, otp, known, page, raw, clears, meant, mixed, edits>>
editor == <<first, templates, rows, user, otp>>

Value == Filled \cup {Empty}
Line == [kind : {"field"}, name : FieldNames, value : Value]
        \cup [kind : {"user", "otp", "note"}, name : {NoName}, value : Value]
Text == [first : Value \cup {Passkey}, lines : Seq(Line)]
Hidden == NoName
NoOtp == [has |-> FALSE, value |-> Empty, editing |-> FALSE, typed |-> Empty]

Places(kind, lines) == {i \in 1..Len(lines) : lines[i].kind = kind}
FirstPlace(kind, lines) == CHOOSE i \in Places(kind, lines) :
                               \A j \in Places(kind, lines) : i <= j
FirstValue(kind, lines) ==
    IF Places(kind, lines) = {} THEN Empty ELSE lines[FirstPlace(kind, lines)].value

TypeOK ==
    /\ {file, meant} \subseteq Text
    /\ first \in Value \cup {Passkey}
    /\ templates \in Seq(Line) /\ rows \in Seq(Value)
    /\ user \in Value \cup {Hidden} /\ known \in Value
    /\ otp \in [has : BOOLEAN, value : Value, editing : BOOLEAN, typed : Value]
    /\ page \in {"entry", "raw"}
    /\ raw \in Seq(Line)
    /\ {clears, mixed} \subseteq BOOLEAN
    /\ edits \in 0..MaxEdits

-----------------------------------------------------------------------------
(* Taking a text apart and putting it together. *)

WithoutValue(line) == IF line.kind = "note" THEN line ELSE [line EXCEPT !.value = Empty]

FieldValues(lines) ==
    LET IsField(line) == line.kind = "field"
        fields == SelectSeq(lines, IsField)
    IN  [i \in 1..Len(fields) |-> fields[i].value]

\* An empty one-time password waits for its secret.
OtpOf(lines) ==
    LET value == FirstValue("otp", lines)
    IN  IF Places("otp", lines) = {} THEN NoOtp
        ELSE [has |-> TRUE, value |-> value, editing |-> value = Empty, typed |-> value]

\* structured_pass_contents: the rows of the fields are taken in their order.
RowOf(lines, i) ==
    LET place == Cardinality({j \in 1..i : lines[j].kind = "field"})
    IN  IF place <= Len(rows) THEN rows[place] ELSE Empty

OtpValue == IF otp.editing THEN otp.typed ELSE otp.value

Composed ==
    [first |-> first,
     lines |-> [i \in 1..Len(templates) |->
                   [templates[i] EXCEPT !.value =
                       CASE templates[i].kind = "field" -> RowOf(templates, i)
                         [] templates[i].kind = "user" -> IF user = Hidden THEN Empty ELSE user
                         [] templates[i].kind = "otp" -> OtpValue
                         [] OTHER -> templates[i].value]]]

RawText == [first |-> first, lines |-> raw]
Current == IF page = "raw" THEN RawText ELSE Composed

SyncEditor(text) ==
    /\ first' = text.first
    /\ templates' = [i \in 1..Len(text.lines) |-> WithoutValue(text.lines[i])]
    /\ rows' = FieldValues(text.lines)
    /\ user' = FirstValue("user", text.lines)
    /\ otp' = OtpOf(text.lines)
    /\ raw' = IF text.first = Passkey THEN <<>> ELSE text.lines

-----------------------------------------------------------------------------
(* Cleaning a text, and adding the lines of the template to it. *)

IsKept(line) == line.kind = "note" \/ line.value # Empty

Cleaned(text) == [text EXCEPT !.lines = SelectSeq(text.lines, IsKept)]

\* Where a line is added: above the notes.
AboveNotes(lines) ==
    IF Places("note", lines) = {} THEN Len(lines) + 1 ELSE FirstPlace("note", lines)

SameLine(a, b) == a.kind = b.kind /\ a.name = b.name /\ a.kind # "note"
IsMissing(line, lines) ==
    /\ line.kind # "note"
    /\ \A i \in 1..Len(lines) : ~SameLine(lines[i], line)

\* Lines of the template are added one under the other; one that is added counts.
AddMissing(lines, line) ==
    IF IsMissing(line, lines) THEN InsertAt(lines, AboveNotes(lines), line) ELSE lines

Templated(text) == [text EXCEPT !.lines = FoldLeft(AddMissing, text.lines, Template)]
LacksTemplate(text) == \E i \in 1..Len(Template) : IsMissing(Template[i], text.lines)

-----------------------------------------------------------------------------
(* What the user does. *)

Editable == page = "entry" /\ first # Passkey

EditPassword ==
    /\ Editable
    /\ \E v \in Value \ {first} :
           first' = v /\ meant' = [meant EXCEPT !.first = v]
    /\ UNCHANGED <<file, templates, rows, user, otp, known, page, raw, mixed>>

EditField ==
    /\ page = "entry"
    /\ \E i \in 1..Len(rows), v \in Value :
           /\ v # rows[i]
           /\ rows' = [rows EXCEPT ![i] = v]
           /\ \E place \in Places("field", templates) :
                  /\ Cardinality({j \in 1..place : templates[j].kind = "field"}) = i
                  /\ meant' = [meant EXCEPT !.lines[place].value = v]
    /\ UNCHANGED <<file, first, templates, user, otp, known, page, raw, mixed>>

SetAll(kind, value) ==
    [meant EXCEPT !.lines = [i \in 1..Len(meant.lines) |->
        IF meant.lines[i].kind = kind THEN [meant.lines[i] EXCEPT !.value = value]
        ELSE meant.lines[i]]]

EditUser ==
    /\ Editable
    /\ Places("user", templates) # {} /\ user # Hidden
    /\ \E v \in Value \ {user} : user' = v /\ meant' = SetAll("user", v)
    /\ UNCHANGED <<file, first, templates, rows, otp, known, page, raw, mixed>>

\* Slip: a field is added under the last line.
AtTheEnd(lines) == Len(lines) + 1

\* dynamic_field_insert_index
FieldPlace(lines) == AboveNotes(lines)

NewLine(kind, name) == [kind |-> kind, name |-> name, value |-> Empty]
Added(text, line) == [text EXCEPT !.lines = InsertAt(text.lines, AboveNotes(text.lines), line)]

\* The line is added above the notes, the row under the other rows.
AddField ==
    /\ Editable
    /\ \E name \in FieldNames :
           LET line == NewLine("field", name)
           IN  /\ templates' = InsertAt(templates, FieldPlace(templates), line)
               /\ rows' = Append(rows, Empty)
               /\ meant' = Added(meant, line)
    /\ mixed' = (mixed \/ \E i \in Places("field", templates) : i > AboveNotes(templates))
    /\ UNCHANGED <<file, first, user, otp, known, page, raw>>

\* The shortcut works on the raw page as well, and replaces the text there.
AddOtp ==
    /\ ~otp.has
    /\ LET line == NewLine("otp", NoName)
       IN  /\ templates' = InsertAt(templates, AboveNotes(templates), line)
           /\ meant' = Added(meant, line)
           /\ raw' = IF first = Passkey THEN raw ELSE Added(Composed, line).lines
    /\ otp' = [has |-> TRUE, value |-> Empty, editing |-> TRUE, typed |-> Empty]
    /\ UNCHANGED <<file, first, rows, user, known, page, mixed>>

EditOtp ==
    /\ page = "entry" /\ otp.has
    /\ \/ /\ ~otp.editing
          /\ otp' = [otp EXCEPT !.editing = TRUE, !.typed = otp.value]
          /\ UNCHANGED meant
       \/ /\ otp.editing
          /\ \E v \in Value \ {otp.typed} :
                 otp' = [otp EXCEPT !.typed = v] /\ meant' = SetAll("otp", v)
       \/ /\ otp.editing /\ otp.typed # Empty
          /\ otp' = [otp EXCEPT !.value = otp.typed, !.editing = FALSE]
          /\ UNCHANGED meant
    /\ UNCHANGED <<file, first, templates, rows, user, known, page, raw, mixed>>

ShowRaw ==
    /\ Editable
    /\ page' = "raw"
    /\ raw' = Composed.lines
    /\ UNCHANGED <<file, editor, known, meant, mixed>>

EditRaw ==
    /\ page = "raw"
    /\ \/ \E i \in 1..Len(raw) : raw' = RemoveAt(raw, i)
       \/ \E line \in Opened : raw' = Append(raw, line)
    /\ UNCHANGED <<file, editor, known, page, meant, mixed>>

\* The raw text is thrown away, and so is a user name that was typed; a row
\* without a name is hidden.
Back ==
    /\ page = "raw"
    /\ page' = "entry"
    /\ user' = IF known = Empty THEN Hidden ELSE known
    /\ meant' = SetAll("user", known)
    /\ UNCHANGED <<file, first, templates, rows, otp, known, raw, mixed>>

Replace(text) ==
    /\ SyncEditor(text)
    /\ known' = FirstValue("user", text.lines)
    /\ meant' = text
    /\ mixed' = FALSE

CleanPassFile ==
    /\ first # Passkey
    /\ Cleaned(Current) # Current
    /\ Replace(Cleaned(Current))
    /\ UNCHANGED <<file, page>>

ApplyTemplate ==
    /\ first # Passkey
    /\ Templated(Current) # Current
    /\ Replace(Templated(Current))
    /\ UNCHANGED <<file, page>>

Revert ==
    /\ Current # file
    /\ SyncEditor(file)
    /\ meant' = file /\ mixed' = FALSE
    /\ UNCHANGED <<file, known, page>>

\* A one-time password of the editor without its secret refuses the save, on
\* either page.
Save ==
    /\ otp.has => OtpValue # Empty
    /\ LET text == IF clears THEN Cleaned(Current) ELSE Current
       IN  file' = text /\ Replace(text)
    /\ page' = "entry"

Init ==
    /\ file \in [first : Value \cup {Passkey}, lines : BoundedSeq(Opened, MaxLines)]
    /\ first = file.first
    /\ templates = [i \in 1..Len(file.lines) |-> WithoutValue(file.lines[i])]
    /\ rows = FieldValues(file.lines)
    /\ user = FirstValue("user", file.lines)
    /\ otp = OtpOf(file.lines)
    /\ raw = IF file.first = Passkey THEN <<>> ELSE file.lines
    /\ known = user
    /\ page = "entry" /\ clears \in BOOLEAN
    /\ meant = file /\ mixed = FALSE
    /\ edits = 0

Next ==
    /\ edits < MaxEdits
    /\ edits' = edits + 1
    /\ UNCHANGED clears
    /\ \/ EditPassword \/ EditField \/ EditUser
       \/ AddField \/ AddOtp \/ EditOtp
       \/ ShowRaw \/ EditRaw \/ Back
       \/ CleanPassFile \/ ApplyTemplate \/ Revert \/ Save

Spec == Init /\ [][Next]_vars

-----------------------------------------------------------------------------
(* Properties. *)

OneRowEach(lines) ==
    /\ Cardinality(Places("user", lines)) <= 1
    /\ Cardinality(Places("otp", lines)) <= 1

(* Whatever is edited, added, cleaned, reverted or saved in whatever order,    *)
(* the text the editor shows and saves is the text with exactly those changes: *)
(* every value stays in its line, and every note stays.  This leaves out texts *)
(* with two user names or two one-time passwords, which share a row, and texts *)
(* to which a field was added while they had one under their notes.            *)
EditsStayInTheirLine ==
    OneRowEach(meant.lines) /\ ~mixed => Composed = meant

(* Whatever the text is, its lines are all still there once the template was   *)
(* applied, in their order, nothing of the template is missing then, and       *)
(* applying it again, like cleaning again, changes nothing.                    *)
TemplateOnlyAdds ==
    LET new == Templated(Current)
        WasThere(line) == \E i \in 1..Len(Current.lines) : Current.lines[i] = line
    IN  /\ SelectSeq(new.lines, WasThere) = Current.lines
        /\ ~LacksTemplate(new) /\ Templated(new) = new
        /\ Cleaned(Cleaned(Current)) = Cleaned(Current)
=============================================================================
