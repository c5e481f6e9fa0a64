----------------------------- MODULE SettingsRows -----------------------------
(* The rows of the preferences page in every window, over the one file, or the  *)
(* one GSettings schema, the settings are kept in.  A row that is clicked is    *)
(* changed first and its setting written after; a write may fail.  A page       *)
(* follows the settings only when it is opened, which writes the template       *)
(* anew, and a file that cannot be parsed counts as one that says nothing.      *)
(* Left out: texts, the search in the page, the command of the host's backend,  *)
(* and what a changed setting makes the window reload.                          *)
EXTENDS Naturals

CONSTANTS
    SettingsWindows,
    MaxSettingClicks,   \* bound: clicks on rows
    MaxSettingFaults    \* bound: writes that fail, files that break, hosts that go

VARIABLES
    inFile,        \* the settings are in a file, or in GSettings
    stored,        \* what it says
    readable,      \* the file can be parsed
    hostAllowed,   \* the host may be asked
    shownIn,       \* windows whose page was opened
    settingRows,   \* each window's rows
    commandRow,    \* the row of the host's command is shown
    popover,       \* the generator's controls beside an entry, which each window has too
    confirming,    \* windows that ask whether to turn key sync on
    chosen,        \* history: what the user chose, or a failure told to them has left
    stale,         \* history: rows whose setting was changed elsewhere since
    overwritten,   \* history: settings were lost to a broken file or an outdated control
    settingCount

settingsVars == <<inFile, stored, readable, hostAllowed, shownIn, settingRows, commandRow,
                  popover, confirming, chosen, stale, overwritten, settingCount>>

\* "clear" stands for both check buttons, "sort" for both groups of radio buttons.
Switches == {"clear", "sort", "backend"}
Generator == {"length", "minimum"}
Settings == Switches \cup Generator \cup {"sync", "template"}

\* Two of each; a row that is not on one is on the other.
ValuesOf(s) == CASE s = "minimum" -> 0..2
                 [] s = "length" -> 1..2
                 [] OTHER -> 0..1

Off == 0
On == 1
HostCommand == 1   \* the second backend
NoText == 0        \* the empty template

Larger(m, n) == IF m > n THEN m ELSE n

\* A password has a character of some class, and room for all that is asked for.
Normalized(settings) ==
    LET minimum == Larger(settings["minimum"], 1)
    IN  [settings EXCEPT !["minimum"] = minimum, !["length"] = Larger(@, minimum)]

\* The template is not empty by default.
Defaults == [s \in Settings |-> IF s \in Generator \cup {"template"} THEN 1 ELSE 0]

\* What reading a setting gives.
Current == IF readable THEN stored ELSE Defaults

TypeOK ==
    /\ {inFile, readable, hostAllowed, overwritten} \subseteq BOOLEAN
    /\ \A f \in {stored, chosen} \cup {settingRows[w] : w \in SettingsWindows} :
           DOMAIN f = Settings /\ \A s \in Settings : f[s] \in ValuesOf(s)
    /\ ~inFile => readable
    /\ shownIn \subseteq SettingsWindows /\ confirming \subseteq shownIn
    /\ commandRow \in [SettingsWindows -> BOOLEAN]
    /\ popover \in [SettingsWindows -> [Generator -> 0..2]]
    /\ stale \subseteq SettingsWindows \X Settings
    /\ settingCount \in [clicks : 0..MaxSettingClicks, faults : 0..MaxSettingFaults]

GeneratorOf(settings) == [s \in Generator |-> settings[s]]

Init ==
    /\ inFile \in BOOLEAN /\ hostAllowed \in BOOLEAN
    /\ stored = Defaults /\ chosen = Defaults
    /\ readable = TRUE
    /\ shownIn = {} /\ confirming = {}
    /\ settingRows = [w \in SettingsWindows |-> [Defaults EXCEPT !["template"] = NoText]]
    /\ commandRow = [w \in SettingsWindows |-> FALSE]
    /\ popover = [w \in SettingsWindows |-> GeneratorOf(Defaults)]
    /\ stale = {} /\ overwritten = FALSE
    /\ settingCount = [clicks |-> 0, faults |-> 0]

Click(w) ==
    /\ w \in shownIn \ confirming
    /\ settingCount.clicks < MaxSettingClicks
    /\ settingCount' = [settingCount EXCEPT !.clicks = @ + 1]

Fault ==
    /\ settingCount.faults < MaxSettingFaults
    /\ settingCount' = [settingCount EXCEPT !.faults = @ + 1]

\* A click whose write fails.
FailingClick(w) ==
    /\ w \in shownIn \ confirming
    /\ settingCount.clicks < MaxSettingClicks /\ settingCount.faults < MaxSettingFaults
    /\ settingCount' = [clicks |-> settingCount.clicks + 1, faults |-> settingCount.faults + 1]

-----------------------------------------------------------------------------
(* Reading and writing. *)

\* load_file_prefs, change, save_file_prefs: a broken file loses what it said.
WritePreference(settings) ==
    /\ stored' = settings
    /\ readable' = TRUE
    /\ overwritten' = (overwritten \/ ~readable)

NothingWritten == UNCHANGED <<stored, readable, overwritten>>

\* The setting that is read is the one that is wanted, and nothing is written.
AlreadySo ==
    /\ UNCHANGED <<stored, readable>>
    /\ overwritten' = (overwritten \/ ~readable)

\* The setting is what the user wants now.
Chose(ss, settings) ==
    chosen' = [s \in Settings |-> IF s \in ss THEN settings[s] ELSE chosen[s]]

\* Other rows of a setting that is no longer what it was are outdated.
OutdatedBy(w) ==
    {row \in SettingsWindows \X Settings : row[1] # w /\ Current'[row[2]] # Current[row[2]]}

Fresh(w, ss) == stale' = (stale \ ({w} \X ss)) \cup OutdatedBy(w)

SetRow(w, s, v) == settingRows' = [settingRows EXCEPT ![w][s] = v]

ShowsCommand(settings) == settings["backend"] = HostCommand

-----------------------------------------------------------------------------
(* The rows. *)

\* Slip: a row is not put back when its setting could not be written.
ToggleWithoutWayBack(w, s) ==
    /\ s = "backend" => hostAllowed
    /\ \E v \in ValuesOf(s) \ {settingRows[w][s]} :
           \/ /\ Click(w)
              /\ IF v = Current[s] THEN AlreadySo ELSE WritePreference([Current EXCEPT ![s] = v])
              /\ SetRow(w, s, v)
              /\ Chose({s}, [Current EXCEPT ![s] = v])
           \/ /\ FailingClick(w)
              /\ v # Current[s]
              /\ NothingWritten
              /\ SetRow(w, s, v)
              /\ UNCHANGED chosen
    /\ commandRow' = IF s = "backend" THEN [commandRow EXCEPT ![w] = ShowsCommand(Current')]
                     ELSE commandRow
    /\ UNCHANGED <<inFile, hostAllowed, shownIn, popover, confirming>>
    /\ Fresh(w, {s})

Toggle(w, s) ==
    /\ s = "backend" => hostAllowed
    /\ \E v \in ValuesOf(s) \ {settingRows[w][s]} :
           \/ /\ Click(w)
              /\ IF v = Current[s] THEN AlreadySo ELSE WritePreference([Current EXCEPT ![s] = v])
              /\ SetRow(w, s, v)
              /\ Chose({s}, [Current EXCEPT ![s] = v])
           \/ /\ FailingClick(w)
              /\ v # Current[s]
              /\ NothingWritten
              /\ SetRow(w, s, Current[s])   \* put back
              /\ UNCHANGED chosen
    /\ commandRow' = IF s = "backend" THEN [commandRow EXCEPT ![w] = ShowsCommand(Current')]
                     ELSE commandRow
    /\ UNCHANGED <<inFile, hostAllowed, shownIn, popover, confirming>>
    /\ Fresh(w, {s})

ToggleCheck(w) == Toggle(w, "clear")

ToggleRadio(w) == Toggle(w, "sort")

SelectBackend(w) == Toggle(w, "backend")

\* The template is not put back: it is left for the user to type on.
EditTemplate(w) ==
    /\ \E text \in ValuesOf("template") \ {settingRows[w]["template"]} :
           /\ SetRow(w, "template", text)
           /\ \/ /\ Click(w)
                 /\ IF text = Current["template"] THEN AlreadySo
                    ELSE WritePreference([Current EXCEPT !["template"] = text])
                 /\ Chose({"template"}, [Current EXCEPT !["template"] = text])
                 /\ Fresh(w, {"template"})
              \/ /\ FailingClick(w)
                 /\ text # Current["template"]
                 /\ NothingWritten
                 /\ UNCHANGED chosen
                 /\ stale' = stale \cup {<<w, "template">>}
    /\ UNCHANGED <<inFile, hostAllowed, shownIn, commandRow, popover, confirming>>

\* A control writes all it shows, without looking what is stored.
ChangeGenerator(w) ==
    \E control \in {"page", "popover"}, s \in Generator : \E v \in ValuesOf(s) :
        LET shown == IF control = "page" THEN GeneratorOf(settingRows[w]) ELSE popover[w]
            wanted == Normalized([shown EXCEPT ![s] = v])
            with == [t \in Settings |-> IF t \in Generator THEN wanted[t] ELSE Current[t]]
            Show(settings) ==
                /\ settingRows' = [settingRows EXCEPT ![w] =
                       [t \in Settings |-> IF t \in Generator THEN settings[t] ELSE @[t]]]
                /\ popover' = [popover EXCEPT ![w] = GeneratorOf(settings)]
        IN  /\ v # shown[s]
            /\ \/ /\ Click(w)
                  /\ stored' = with
                  /\ readable' = TRUE
                  /\ overwritten' = (overwritten \/ ~readable
                                       \/ \E t \in Generator \ {s} : shown[t] # Current[t])
                  /\ Show(with)
                  /\ Chose(Generator, with)
               \/ /\ FailingClick(w)
                  \* GSettings keeps the values before the one that failed.
                  /\ \/ NothingWritten
                     \/ /\ ~inFile /\ wanted["length"] # Current["length"]
                        /\ stored' = [stored EXCEPT !["length"] = wanted["length"]]
                        /\ overwritten' = TRUE
                        /\ UNCHANGED readable
                  /\ Show(Current)
                  /\ UNCHANGED chosen
            /\ UNCHANGED <<inFile, hostAllowed, shownIn, commandRow, confirming>>
            /\ stale' = ((stale \ ({w} \X Generator)) \cup OutdatedBy(w))
                          \cup {<<w, t>> : t \in {t \in Generator : Current'[t] # settingRows'[w][t]}}

ToggleSync(w) ==
    /\ LET wanted == IF settingRows[w]["sync"] = On THEN Off ELSE On
       IN  \/ \* It is so already.
              /\ Click(w)
              /\ wanted = Current["sync"]
              /\ SetRow(w, "sync", wanted)
              /\ AlreadySo
              /\ Chose({"sync"}, Current)
              /\ UNCHANGED confirming
           \/ /\ Click(w)
              /\ wanted = On /\ Current["sync"] = Off
              /\ IF hostAllowed THEN /\ confirming' = confirming \cup {w}
                                     /\ SetRow(w, "sync", On)
                 ELSE UNCHANGED <<confirming, settingRows>>
              /\ NothingWritten
              /\ UNCHANGED chosen
           \/ /\ Click(w)
              /\ wanted = Off /\ Current["sync"] = On
              /\ WritePreference([Current EXCEPT !["sync"] = Off])
              /\ SetRow(w, "sync", Off)
              /\ Chose({"sync"}, [Current EXCEPT !["sync"] = Off])
              /\ UNCHANGED confirming
           \/ /\ FailingClick(w)
              /\ wanted = Off /\ Current["sync"] = On
              /\ NothingWritten
              /\ UNCHANGED <<settingRows, chosen, confirming>>
    /\ UNCHANGED <<inFile, hostAllowed, shownIn, commandRow, popover>>
    /\ Fresh(w, {"sync"})

\* Cancelled, or the sync or the write failed; or it is on.
AnswerSync(w) ==
    /\ w \in confirming
    /\ confirming' = confirming \ {w}
    /\ \/ /\ SetRow(w, "sync", Off)
          /\ NothingWritten
          /\ UNCHANGED chosen
       \/ /\ WritePreference([Current EXCEPT !["sync"] = On])
          /\ SetRow(w, "sync", On)
          /\ Chose({"sync"}, [Current EXCEPT !["sync"] = On])
    /\ UNCHANGED <<inFile, hostAllowed, shownIn, commandRow, popover, settingCount>>
    /\ stale' = stale \cup OutdatedBy(w)

-----------------------------------------------------------------------------
(* The page, and what changes beside it. *)

\* set_text deletes what the row of the template shows and inserts the template,
\* and the handler of the row runs after both: what it finds is not the setting.
RewritesTemplate(w) ==
    settingRows[w]["template"] # NoText /\ Current["template"] # NoText

\* Slip: the handler runs after the first of the two only.
EmptyTemplate(w) ==
    /\ WritePreference([Current EXCEPT !["template"] = NoText])
    /\ stale' = (stale \ ({w} \X Settings)) \cup (SettingsWindows \X {"template"})
    /\ UNCHANGED <<chosen, settingCount>>

\* The setting is emptied and written again; it stays as it is if the first write
\* fails, and empty if the second one does, of which the user is told.
WriteTemplateAnew(w) ==
    \/ /\ WritePreference(Current)
       /\ UNCHANGED <<chosen, settingCount>>
       /\ stale' = stale \ ({w} \X Settings)
    \/ /\ Fault
       /\ NothingWritten
       /\ UNCHANGED chosen
       /\ stale' = stale \ ({w} \X Settings)
    \/ /\ Fault
       /\ WritePreference([Current EXCEPT !["template"] = NoText])
       /\ chosen' = [chosen EXCEPT !["template"] = NoText]
       /\ stale' = (stale \ ({w} \X Settings)) \cup (SettingsWindows \X {"template"})

\* Every row is set; the handlers of all but the template's find their setting to
\* be so already.
RefreshSettings(w) ==
    /\ w \notin confirming
    /\ shownIn' = shownIn \cup {w}
    /\ settingRows' = [settingRows EXCEPT ![w] = Current]
    /\ commandRow' = [commandRow EXCEPT ![w] = ShowsCommand(Current)]
    /\ IF RewritesTemplate(w) THEN WriteTemplateAnew(w)
       ELSE /\ NothingWritten
            /\ UNCHANGED <<chosen, settingCount>>
            /\ stale' = stale \ ({w} \X Settings)
    /\ UNCHANGED <<inFile, hostAllowed, popover, confirming>>

\* A sync of the keys failed: no row is told.
HandleSyncFailure ==
    /\ Fault
    /\ Current["sync"] = On
    /\ WritePreference([Current EXCEPT !["sync"] = Off])
    /\ chosen' = [chosen EXCEPT !["sync"] = Off]
    /\ stale' = stale \cup (SettingsWindows \X {"sync"})
    /\ UNCHANGED <<inFile, hostAllowed, shownIn, settingRows, commandRow, popover, confirming>>

\* A hand at the file breaks it or mends it.
FileBreaks ==
    /\ Fault
    /\ inFile
    /\ readable' = ~readable
    /\ stale' = stale \cup
                    {row \in SettingsWindows \X Settings : Current'[row[2]] # Current[row[2]]}
    /\ UNCHANGED <<inFile, stored, hostAllowed, shownIn, settingRows, commandRow, popover,
                   confirming, chosen, overwritten>>

HostChanges ==
    /\ Fault
    /\ hostAllowed' = ~hostAllowed
    /\ UNCHANGED <<inFile, stored, readable, shownIn, settingRows, commandRow, popover,
                   confirming, chosen, stale, overwritten>>

Next ==
    \/ \E w \in SettingsWindows :
           \/ ToggleCheck(w) \/ ToggleRadio(w) \/ SelectBackend(w)
           \/ EditTemplate(w) \/ ChangeGenerator(w)
           \/ ToggleSync(w) \/ AnswerSync(w)
           \/ RefreshSettings(w)
    \/ HandleSyncFailure \/ FileBreaks \/ HostChanges

Spec == Init /\ [][Next]_settingsVars

-----------------------------------------------------------------------------
(* Properties. *)

(* A row shows what its setting is, whatever failed, was cancelled or confirmed *)
(* late, unless the setting was changed elsewhere since the row was clicked or  *)
(* its page opened, or the row asks whether to turn key sync on.  Left out: the *)
(* row of a template that could not be written, as it is typed or as the page   *)
(* is opened, which keeps its text and is not put back.                         *)
RowsShowTheSettings ==
    \A w \in shownIn, s \in Settings :
        <<w, s>> \notin stale /\ ~(s = "sync" /\ w \in confirming) =>
            /\ settingRows[w][s] = Current[s]
            /\ s = "backend" => commandRow[w] = ShowsCommand(Current)

(* The settings are what the user chose last, in whichever window, and opening  *)
(* a page changes none of them.  Where a write fails, of which a toast tells,   *)
(* they are what they were, but for a template that is emptied as a page is     *)
(* opened and then cannot be written again: it stays empty.  Left out: a broken *)
(* file, whose other settings the next write loses, be it that of the template  *)
(* as a page is opened; and the generator, whose outdated controls, or a        *)
(* failure in the middle, write values nobody chose.                            *)
ChoicesAreKept == ~overwritten => stored = chosen
=============================================================================
