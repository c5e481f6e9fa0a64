------------------------------ MODULE HostEntries ------------------------------
(* The operations on a store that the backend chosen in the preferences serves: *)
(* the Host backend looks at the files, validates and then runs `pass`, whose   *)
(* answers are external, and the store may change between its steps.  The       *)
(* Integrated backend's own steps are in EntryUndo and RecipientStore; here it  *)
(* takes one.  Passkeys may only lie where their name says.                     *)
EXTENDS Naturals, FiniteSets

CONSTANTS
    Labels,         \* entry labels of the store
    Escaping,       \* a label that would leave the store
    Shaped,         \* labels that look like a passkey's: <rp id>/<64 hex digits>
    Named,          \* for each label the passkey it names, or NoFile
    Root,           \* the relative directory of the store's own .gpg-id
    Nested,         \* one below it
    Texts,          \* ordinary contents
    Passkeys,       \* contents that are passkeys, kept as text
    Natives,        \* contents that are passkeys, kept as bytes
    Damaged,        \* contents recognised as a passkey that cannot be decoded
    NoFile,         \* no entry
    Dangling,       \* the entry is a symbolic link to nothing
    Callers,        \* threads that call the backend
    MaxCalls,       \* bound on calls
    MaxChanges      \* bound on changes by other programs and of the preference

VARIABLES
    file,           \* what each label's file decrypts to
    ids,            \* whether the store has a .gpg-id
    history,        \* whether it is a Git repository
    integrated,     \* the preference: which backend serves
    calls,          \* the last call of each thread, and how far it is
    strays,         \* labels whose passkey came there past the checks
    made,           \* calls so far
    changes         \* changes by others so far

hostVars == <<file, ids, history, integrated, calls, strays, made, changes>>

Contents == Texts \cup Passkeys \cup Natives \cup {Damaged}
Entries == Contents \cup {NoFile, Dangling}
Ops == {"read", "line", "save", "rename", "delete", "recipients"}
Writes == {"save", "rename", "delete"}
Answers == {"none", "ok", "invalid", "exists", "missing", "noKey", "locked", "incompatible",
            "other", "nested"}

\* label and to: the entry, and the one it is renamed to (or the directory of
\* the recipients); ran: whether a command that may change the store was run;
\* was and now: the file written to as that command found and left it; fresh:
\* the store had neither recipients nor history; raced: someone else changed
\* what the call had looked at.
Call == [op : Ops \cup {"none"}, label : Labels \cup {Escaping, Root, Nested},
         to : Labels \cup {Escaping}, content : Contents, overwrite : BOOLEAN,
         at : {"idle", "asked", "served", "look", "command", "init", "repository"},
         answer : Answers, ran : BOOLEAN, was : Entries, now : Entries,
         fresh : BOOLEAN, raced : BOOLEAN]

NoCall == [op |-> "none", label |-> Root, to |-> Escaping, content |-> Damaged,
           overwrite |-> FALSE, at |-> "idle", answer |-> "none", ran |-> FALSE,
           was |-> NoFile, now |-> NoFile, fresh |-> FALSE, raced |-> FALSE]

TypeOK ==
    /\ file \in [Labels -> Entries]
    /\ ids \in BOOLEAN /\ history \in BOOLEAN /\ integrated \in BOOLEAN
    /\ calls \in [Callers -> Call]
    /\ strays \subseteq Labels
    /\ made \in 0..MaxCalls /\ changes \in 0..MaxChanges

\* A passkey lies where its name says.
Init ==
    /\ file \in [Labels -> Entries]
    /\ \A l \in Labels : file[l] \in Passkeys \cup Natives => Named[l] = file[l]
    /\ ids \in BOOLEAN /\ history \in BOOLEAN /\ integrated = FALSE
    /\ calls = [c \in Callers |-> NoCall]
    /\ strays = {} /\ made = 0 /\ changes = 0

-------------------------------------------------------------------------------
(* What is checked before a command runs *)

\* A path with a part that leaves the store, or no part at all, is refused.
ValidLabel(label) == label \in Labels

LooksLikePasskey(label) == label \in Shaped

\* What is recognised as a passkey, and which can be read at all.
IsPasskey(content) == content \in Passkeys \cup Natives \cup {Damaged}

\* Its credential is the file's name and its relying party the folder's.
IsNamedAfter(label, content) == Named[label] = content

\* Slip: a label that another passkey could have is good enough.
ShapedMayLieAt(content, label) ==
    IsPasskey(content) => content # Damaged /\ LooksLikePasskey(label)

\* A passkey keeps its credential's name and its relying party's folder.
MayLieAt(content, label) ==
    IsPasskey(content) => content # Damaged /\ IsNamedAfter(label, content)

\* Slip: whether the file exists is asked through the link.
IsFreeThroughLinks(label) == file[label] \in {NoFile, Dangling}

\* Nothing may be there, not even a link to nothing.
IsFree(label) == file[label] = NoFile

\* Text is what can be shown; a native passkey is not.
IsText(content) == content \notin Natives

\* Only a password is copied.
IsPassword(content) == ~IsPasskey(content)

\* Slip: whatever can be shown can be copied.
CanBeUsedIfText(op, content) == IsText(content)

CanBeUsed(op, content) == IF op = "line" THEN IsPassword(content) ELSE IsText(content)

\* Which refusal the failure of a command is, by what it was to do.
Failure(op, message) ==
    CASE message = "missing" /\ op \in {"read", "line", "rename", "delete"} -> "missing"
      [] message = "exists" /\ op \in {"save", "rename"} -> "exists"
      [] message \in {"noKey", "locked", "incompatible"} -> message
      [] OTHER -> "other"

-------------------------------------------------------------------------------
(* Steps of a call *)

Set(c, call) == calls' = [calls EXCEPT ![c] = call]
Goes(c, at) == Set(c, [calls[c] EXCEPT !.at = at])

\* A call that has ended: what was asked matters no more, but for the properties.
Ended(call, answer) ==
    [NoCall EXCEPT !.op = call.op, !.answer = answer, !.fresh = call.fresh, !.raced = call.raced]
Ends(c, answer) == Set(c, Ended(calls[c], answer))

\* A command that ran over label and left it as after.
RanTo(call, label, after, answer) ==
    [Ended(call, answer) EXCEPT
        !.content = call.content, !.overwrite = call.overwrite, !.ran = TRUE,
        !.was = IF call.op = "rename" /\ call.label = call.to THEN NoFile ELSE file[label],
        !.now = after]

\* What others rely on changes under them: the calls that have looked at one of
\* the labels, or at the state of the store, and have not ended.
Relies(call, labels) ==
    /\ call.at \in {"look", "command", "init", "repository"}
    /\ call.label \in labels \/ call.to \in labels \/ call.op = "recipients"

Disturbed(old, c, labels) ==
    [d \in Callers |-> IF d # c /\ Relies(old[d], labels) THEN [old[d] EXCEPT !.raced = TRUE]
                                                         ELSE old[d]]

\* A call is given to the backend that the preferences name at that moment.
Dispatch(c, call) ==
    Set(c, [call EXCEPT !.at = IF integrated THEN "served" ELSE "asked"])

Ask(c, call) ==
    /\ calls[c].at = "idle" /\ made < MaxCalls
    /\ made' = made + 1
    /\ Dispatch(c, call)
    /\ UNCHANGED <<file, ids, history, integrated, strays, changes>>

Read(c) == \E op \in {"read", "line"}, l \in Labels \cup {Escaping} :
    Ask(c, [NoCall EXCEPT !.op = op, !.label = l])
Save(c) == \E l \in Labels \cup {Escaping}, content \in Contents, over \in BOOLEAN :
    Ask(c, [NoCall EXCEPT !.op = "save", !.label = l, !.content = content, !.overwrite = over])
Rename(c) == \E l, m \in Labels \cup {Escaping} :
    Ask(c, [NoCall EXCEPT !.op = "rename", !.label = l, !.to = m])
Delete(c) == \E l \in Labels \cup {Escaping} :
    Ask(c, [NoCall EXCEPT !.op = "delete", !.label = l])
SaveRecipients(c) == \E dir \in {Root, Nested, Escaping} :
    Ask(c, [NoCall EXCEPT !.op = "recipients", !.label = dir])

\* An imported passkey is saved as a new entry under the name it must have.
Import(c) == \E content \in Passkeys \cup Natives, l \in Labels :
    /\ Named[l] = content
    /\ Ask(c, [NoCall EXCEPT !.op = "save", !.label = l, !.content = content])

\* Slip: the destination of a rename is left to the command.
ValidateLeavingMovesToPass(c) ==
    LET call == calls[c]
        target == IF call.op = "rename" THEN call.to ELSE call.label
    IN  /\ call.at = "asked" /\ call.op # "recipients"
        /\ IF ~ValidLabel(call.label) \/ ~ValidLabel(target) THEN Ends(c, "invalid")
           ELSE IF call.op = "save" /\ ~call.overwrite /\ ~IsFree(target) THEN Ends(c, "exists")
           ELSE IF call.op = "save" /\ ~MayLieAt(call.content, target) THEN Ends(c, "other")
           ELSE Goes(c, IF call.op = "rename" /\ LooksLikePasskey(call.label) THEN "look" ELSE "command")
        /\ UNCHANGED <<file, ids, history, integrated, strays, made, changes>>

\* Labels are validated, then the destination, then what is saved; the entry to
\* rename is read first when its name could be a passkey's.
Validate(c) ==
    LET call == calls[c]
        target == IF call.op = "rename" THEN call.to ELSE call.label
        mustBeFree == IF call.op = "rename" THEN call.label # call.to
                      ELSE call.op = "save" /\ ~call.overwrite
    IN  /\ call.at = "asked" /\ call.op # "recipients"
        /\ IF ~ValidLabel(call.label) \/ ~ValidLabel(target) THEN Ends(c, "invalid")
           ELSE IF mustBeFree /\ ~IsFree(target) THEN Ends(c, "exists")
           ELSE IF call.op = "save" /\ ~MayLieAt(call.content, target) THEN Ends(c, "other")
           ELSE Goes(c, IF call.op = "rename" /\ LooksLikePasskey(call.label) THEN "look" ELSE "command")
        /\ UNCHANGED <<file, ids, history, integrated, strays, made, changes>>

\* `pass show` before a rename: the passkey must be allowed where it goes.
Look(c) ==
    LET call == calls[c] IN
    /\ call.at = "look"
    /\ \/ /\ file[call.label] \in Contents
          /\ IF MayLieAt(file[call.label], call.to) THEN Goes(c, "command") ELSE Ends(c, "other")
       \/ /\ file[call.label] \notin Contents
          /\ Ends(c, Failure("read", "missing"))
       \/ \E message \in {"noKey", "locked", "incompatible", "other"} :
              Ends(c, Failure("read", message))
    /\ UNCHANGED <<file, ids, history, integrated, strays, made, changes>>

\* `pass show` for a caller.
Show(c) ==
    LET call == calls[c] IN
    /\ call.at = "command" /\ call.op \in {"read", "line"}
    /\ \/ /\ file[call.label] \in Contents
          /\ IF CanBeUsed(call.op, file[call.label])
             THEN Set(c, [Ended(call, "ok") EXCEPT !.now = file[call.label]])
             ELSE Ends(c, "other")
       \/ /\ file[call.label] \notin Contents
          /\ Ends(c, Failure(call.op, "missing"))
       \/ \E message \in {"noKey", "locked", "incompatible", "other"} :
              Ends(c, Failure(call.op, message))
    /\ UNCHANGED <<file, ids, history, integrated, strays, made, changes>>

\* External: what `pass insert` may do.  It asks before it replaces, and answers
\* that all is well when the question was declined; it may fail after writing.
InsertOutcomes(call) ==
    LET old == file[call.label]
        done == [file |-> call.content, answer |-> "ok"]
        kept(answer) == [file |-> old, answer |-> answer]
    IN  {kept(Failure("save", "noKey")), kept(Failure("save", "other")),
         [file |-> call.content, answer |-> "other"]}
        \cup (IF ids THEN {done} ELSE {})
        \cup (IF old \in Contents /\ ~call.overwrite THEN {kept("ok"), kept("exists")} ELSE {})

Insert(c) ==
    LET call == calls[c] IN
    /\ call.at = "command" /\ call.op = "save"
    /\ \E outcome \in InsertOutcomes(call) :
           /\ outcome.file # file[call.label] => ids
           /\ file' = [file EXCEPT ![call.label] = outcome.file]
           /\ strays' = IF outcome.file = file[call.label] THEN strays ELSE strays \ {call.label}
           /\ calls' = [Disturbed(calls, c, {call.label})
                            EXCEPT ![c] = RanTo(call, call.label, outcome.file, outcome.answer)]
    /\ UNCHANGED <<ids, history, integrated, made, changes>>

\* External: what `pass mv` may do.
Move(c) ==
    LET call == calls[c]
        old == file[call.label]
        moved == [file EXCEPT ![call.label] = NoFile, ![call.to] = old]
        stray == old \in Contents /\ (call.raced \/ call.label \in strays)
        ran(answer, files) ==
            /\ file' = files
            /\ strays' = IF files = file THEN strays
                         ELSE (strays \ {call.label, call.to})
                                  \cup (IF stray THEN {call.to} ELSE {})
            /\ calls' = [Disturbed(calls, c, IF files = file THEN {} ELSE {call.label, call.to})
                             EXCEPT ![c] = RanTo(call, call.to, files[call.to], answer)]
    IN  /\ call.at = "command" /\ call.op = "rename"
        /\ \/ old \notin Contents /\ ran(Failure("rename", "missing"), file)
           \/ ran("other", file)
           \/ /\ old \in Contents /\ call.label # call.to
              /\ \/ ran("ok", moved) \/ ran("other", moved)
                 \/ file[call.to] # NoFile /\ (ran("ok", file) \/ ran("exists", file))
        /\ UNCHANGED <<ids, history, integrated, made, changes>>

\* External: what `pass rm -f` may do.
Remove(c) ==
    LET call == calls[c]
        ran(answer, after) ==
            /\ file' = [file EXCEPT ![call.label] = after]
            /\ strays' = IF after = NoFile THEN strays \ {call.label} ELSE strays
            /\ calls' = [Disturbed(calls, c, {call.label})
                             EXCEPT ![c] = RanTo(call, call.label, after, answer)]
    IN  /\ call.at = "command" /\ call.op = "delete"
        /\ \/ file[call.label] \notin Contents
                  /\ ran(Failure("delete", "missing"), file[call.label])
           \/ file[call.label] # NoFile /\ (ran("ok", NoFile) \/ ran("other", NoFile))
           \/ ran("other", file[call.label])
        /\ UNCHANGED <<ids, history, integrated, made, changes>>

-------------------------------------------------------------------------------
(* Recipients *)

\* What `pass init` can say went wrong.
RecipientFailures == {"noKey", "locked", "incompatible", "other"}

StoreIsEmpty == ~ids /\ \A l \in Labels : file[l] \in {NoFile, Dangling}

\* A nested .gpg-id is refused.  An empty store gets its .gpg-id, and a history,
\* without `pass`; a failure to make the history leaves the .gpg-id.
TryInitialize(c) ==
    LET call == calls[c]
        looked == [call EXCEPT !.fresh = ~ids /\ ~history]
        ends(answer) == calls' = [Disturbed(calls, c, {}) EXCEPT ![c] = Ended(looked, answer)]
    IN  /\ call.at = "asked" /\ call.op = "recipients"
        /\ \/ call.label = Escaping /\ Ends(c, "invalid") /\ UNCHANGED <<ids, history>>
           \/ call.label = Nested /\ Ends(c, "nested") /\ UNCHANGED <<ids, history>>
           \/ /\ call.label = Root /\ ~StoreIsEmpty
              /\ Set(c, [looked EXCEPT !.at = "init"]) /\ UNCHANGED <<ids, history>>
           \/ /\ call.label = Root /\ StoreIsEmpty
              /\ \/ Ends(c, "other") /\ UNCHANGED <<ids, history>>
                 \/ ids' = TRUE /\ history' = TRUE /\ ends("ok")
                 \/ ids' = TRUE /\ ~history /\ UNCHANGED history /\ ends("other")
        /\ UNCHANGED <<file, integrated, strays, made, changes>>

\* Slip: whether a history is to be made is asked after `pass init`.
PassInitFirst(c) ==
    /\ calls[c].at = "init"
    /\ ids' = TRUE
    /\ LET shouldInitializeGit == ~ids' /\ ~history IN
       calls' = [Disturbed(calls, c, {})
                    EXCEPT ![c] = IF shouldInitializeGit THEN [@ EXCEPT !.at = "repository"]
                                  ELSE Ended(@, "ok")]
    /\ UNCHANGED <<file, history, integrated, strays, made, changes>>

\* External: `pass init`.  Whether a history is to be made is seen before it runs.
PassInit(c) ==
    LET call == calls[c]
        shouldInitializeGit == ~ids /\ ~history
        becomes(new) == calls' = [Disturbed(calls, c, {}) EXCEPT ![c] = new]
    IN  /\ call.at = "init"
        /\ \/ /\ ids' = TRUE
              /\ becomes(IF shouldInitializeGit THEN [call EXCEPT !.at = "repository"]
                         ELSE Ended(call, "ok"))
           \/ /\ ids' \in {ids, TRUE}
              /\ \E answer \in RecipientFailures : becomes(Ended(call, answer))
        /\ UNCHANGED <<file, history, integrated, strays, made, changes>>

EnsureGitRepository(c) ==
    /\ calls[c].at = "repository"
    /\ \/ history' = TRUE
          /\ calls' = [Disturbed(calls, c, {}) EXCEPT ![c] = Ended(@, "ok")]
       \/ UNCHANGED history /\ Ends(c, "other")
    /\ UNCHANGED <<file, ids, integrated, strays, made, changes>>

-------------------------------------------------------------------------------
(* The other backend, other programs, and the preference *)

\* The Integrated backend checks the same, and does what it does at once.
Integrated(c) ==
    LET call == calls[c]
        target == IF call.op = "rename" THEN call.to ELSE call.label
        mustBeFree == IF call.op = "rename" THEN call.label # call.to
                      ELSE call.op = "save" /\ ~call.overwrite
        old == IF call.label \in Labels THEN file[call.label] ELSE NoFile
        written == CASE call.op = "save" -> [file EXCEPT ![target] = call.content]
                     [] call.op = "rename" -> [file EXCEPT ![call.label] = NoFile, ![target] = old]
                     [] OTHER -> [file EXCEPT ![target] = NoFile]
    IN  /\ call.at = "served" /\ call.op \in Writes
        /\ \/ /\ ValidLabel(call.label) /\ ValidLabel(target)
              /\ mustBeFree => IsFree(target)
              /\ call.op = "save" => ids /\ MayLieAt(call.content, target)
              /\ call.op = "rename" =>
                     old \in Contents /\ (LooksLikePasskey(call.label) => MayLieAt(old, target))
              /\ call.op = "delete" => old # NoFile
              /\ file' = written
              /\ strays' = (strays \ {call.label, target})
                               \cup (IF call.op = "rename" /\ call.label \in strays
                                     THEN {target} ELSE {})
              /\ calls' = [Disturbed(calls, c, {call.label, target})
                               EXCEPT ![c] = RanTo(call, target, written[target], "ok")]
           \/ /\ Ends(c, IF ~ValidLabel(call.label) \/ ~ValidLabel(target) THEN "invalid"
                         ELSE "other")
              /\ UNCHANGED <<file, strays>>
        /\ UNCHANGED <<ids, history, integrated, made, changes>>

\* What it shows and copies, and the recipients it saves at once.
IntegratedRead(c) ==
    LET call == calls[c]
        content == IF call.label \in Labels THEN file[call.label] ELSE NoFile
    IN  /\ calls[c].at = "served" /\ call.op \in {"read", "line"}
        /\ \/ /\ content \in Contents
              /\ CanBeUsed(call.op, content)
              /\ Set(c, [Ended(call, "ok") EXCEPT !.now = content])
           \/ Ends(c, "other")
        /\ UNCHANGED <<file, ids, history, integrated, strays, made, changes>>

IntegratedRecipients(c) ==
    /\ calls[c].at = "served" /\ calls[c].op = "recipients"
    /\ \/ /\ calls[c].label # Escaping
          /\ ids' = (ids \/ calls[c].label = Root)
          /\ history' = (history \/ ~ids)
          /\ calls' = [Disturbed(calls, c, {}) EXCEPT ![c] = Ended(@, "ok")]
       \/ Ends(c, "other") /\ UNCHANGED <<ids, history>>
    /\ UNCHANGED <<file, integrated, strays, made, changes>>

\* Another program adds, changes or deletes an entry; it keeps passkeys in place.
OtherProgram ==
    /\ changes < MaxChanges
    /\ changes' = changes + 1
    /\ \E l \in Labels, content \in Contents \cup {NoFile} :
           /\ ids /\ content # file[l]
           /\ content \in Contents => MayLieAt(content, l)
           /\ file' = [file EXCEPT ![l] = content]
           /\ strays' = strays \ {l}
           /\ calls' = [c \in Callers |-> IF Relies(calls[c], {l})
                                          THEN [calls[c] EXCEPT !.raced = TRUE] ELSE calls[c]]
    /\ UNCHANGED <<ids, history, integrated, made>>

ChangeBackend ==
    /\ changes < MaxChanges
    /\ changes' = changes + 1
    /\ integrated' = ~integrated
    /\ UNCHANGED <<file, ids, history, calls, strays, made>>

Next ==
    \/ \E c \in Callers :
           \/ Read(c) \/ Save(c) \/ Rename(c) \/ Delete(c) \/ SaveRecipients(c) \/ Import(c)
           \/ Validate(c) \/ Look(c) \/ Show(c) \/ Insert(c) \/ Move(c) \/ Remove(c)
           \/ TryInitialize(c) \/ PassInit(c) \/ EnsureGitRepository(c)
           \/ Integrated(c) \/ IntegratedRead(c) \/ IntegratedRecipients(c)
    \/ OtherProgram \/ ChangeBackend

Spec == Init /\ [][Next]_hostVars

-------------------------------------------------------------------------------
(* Properties *)

Undisturbed(call) == call.at = "idle" /\ ~call.raced

(* An entry, a link to nothing included, is replaced only by a save that may   *)
(* overwrite; a call that says it was refused has left the store alone; and    *)
(* one that says it went well has done what it was asked, unless someone else  *)
(* changed the entry between the look and the command (host.rs,                *)
(* reject_existing_destination).                                               *)
CallsKeepToTheirEntry ==
    \A c \in Callers :
        LET call == calls[c] IN
        Undisturbed(call) =>
            /\ call.ran /\ call.op = "save" /\ ~call.overwrite => call.was = NoFile
            /\ call.ran /\ call.op = "rename" => call.was = NoFile
            /\ call.answer \in {"invalid", "nested", "exists"} => ~call.ran
            /\ call.answer = "ok" /\ call.op = "save" => call.ran /\ call.now = call.content
            /\ call.answer = "ok" /\ call.op = "rename" => call.ran /\ call.now \in Contents
            /\ call.answer = "ok" /\ call.op = "delete" => call.ran /\ call.now = NoFile

(* A passkey lies where its name says, unless another program put it under a   *)
(* name while the entry of that name was looked at and moved; and none is ever *)
(* copied as a password (parse.rs, validate_entry_bytes_path).                 *)
PasskeysStayInTheirPlace ==
    /\ \A l \in Labels : file[l] \in Passkeys \cup Natives /\ Named[l] # file[l] => l \in strays
    /\ \A c \in Callers :
           calls[c].op = "line" /\ calls[c].answer = "ok" => calls[c].now \in Texts

(* Recipients that were saved for a new store give it its history              *)
(* (host.rs, save_store_recipients_with).                                      *)
NewStoresHaveAHistory ==
    \A c \in Callers :
        Undisturbed(calls[c]) /\ calls[c].op = "recipients" /\ calls[c].fresh
            /\ calls[c].answer = "ok" => history
===============================================================================
