------------------------------ MODULE AtomicFile ------------------------------
(* How a file is replaced: a file beside it is created, written, given its     *)
(* permissions and brought to the disk, and then renamed over the file, whose  *)
(* directory is brought to the disk at last.  Several threads may write one    *)
(* file, any call may fail, the process may die between two calls and the      *)
(* machine may lose its power.  Then the disk may have any of the files that   *)
(* were renamed since the directory was brought to it, and what was not        *)
(* brought to it is torn.                                                      *)
EXTENDS Naturals

CONSTANTS
    Writers,     \* threads that write the file
    Contents,    \* what they write
    Absent,      \* there is no file
    Torn,        \* a part of a content
    MaxWrites,   \* bound: writes
    MaxFaults    \* bound: calls that fail and stops

VARIABLES
    target,      \* the file
    onDisk,      \* what the disk may have in its place
    temps,       \* [Writers -> the file beside it]
    jobs,        \* [Writers -> what is written, how, and the next call]
    leftBehind,  \* files beside it that nothing removes
    count        \* history: writes and faults

fileVars == <<target, onDisk, temps, jobs, leftBehind, count>>

Modes == {"standard", "private"}
File(content, open, synced) == [content |-> content, open |-> open, synced |-> synced]
Files == [content : Contents \cup {Torn}, open : BOOLEAN, synced : BOOLEAN]
NoFile == File(Absent, FALSE, TRUE)
MaybeFiles == Files \cup {NoFile}

Calls == {"create", "write", "permit", "sync", "rename", "syncParent"}
Job(at, content, mode) == [at |-> at, content |-> content, mode |-> mode]
NoJob == Job("none", Absent, "standard")
Answered == Job("ok", Absent, "standard")
Idle == {NoJob, Answered}
Jobs == [at : Calls, content : Contents, mode : Modes] \cup Idle

TypeOK ==
    /\ target \in MaybeFiles
    /\ onDisk \in SUBSET MaybeFiles
    /\ temps \in [Writers -> MaybeFiles]
    /\ jobs \in [Writers -> Jobs]
    /\ leftBehind \in SUBSET Files
    /\ count \in [writes : 0..MaxWrites, faults : 0..MaxFaults]

Init ==
    /\ target \in {NoFile} \cup {File(c, open, TRUE) : c \in Contents, open \in BOOLEAN}
    /\ onDisk = {target}
    /\ temps = [w \in Writers |-> NoFile]
    /\ jobs = [w \in Writers |-> NoJob]
    /\ leftBehind = {}
    /\ count = [writes |-> 0, faults |-> 0]

-----------------------------------------------------------------------------
Begin(w, content, mode) ==
    /\ jobs[w] \in Idle
    /\ count.writes < MaxWrites
    /\ count' = [count EXCEPT !.writes = @ + 1]
    /\ jobs' = [jobs EXCEPT ![w] = Job("create", content, mode)]
    /\ UNCHANGED <<target, onDisk, temps, leftBehind>>

Proceed(w, from, to) ==
    /\ jobs[w].at = from
    /\ jobs' = [jobs EXCEPT ![w].at = to]

\* Its name is new, whatever other writes left behind.
CreateTemp(w) ==
    /\ Proceed(w, "create", "write")
    /\ temps' = [temps EXCEPT ![w] = File(Torn, jobs[w].mode = "standard", FALSE)]
    /\ UNCHANGED <<target, onDisk, leftBehind, count>>

WriteAll(w) ==
    /\ Proceed(w, "write", "permit")
    /\ temps' = [temps EXCEPT ![w].content = jobs[w].content]
    /\ UNCHANGED <<target, onDisk, leftBehind, count>>

ApplyTargetPermissions(w) ==
    /\ Proceed(w, "permit", "sync")
    /\ temps' = [temps EXCEPT ![w].open =
                    jobs[w].mode = "standard" /\ IF target = NoFile THEN @ ELSE target.open]
    /\ UNCHANGED <<target, onDisk, leftBehind, count>>

\* Slip: the file is not brought to the disk before it is renamed.
OnlyRenamed(w) ==
    /\ Proceed(w, "sync", "rename")
    /\ UNCHANGED <<target, onDisk, temps, leftBehind, count>>

SyncAll(w) ==
    /\ Proceed(w, "sync", "rename")
    /\ temps' = [temps EXCEPT ![w].synced = TRUE]
    /\ UNCHANGED <<target, onDisk, leftBehind, count>>

ReplaceFile(w) ==
    /\ Proceed(w, "rename", "syncParent")
    /\ target' = temps[w]
    /\ onDisk' = onDisk \cup {target'}
    /\ temps' = [temps EXCEPT ![w] = NoFile]
    /\ UNCHANGED <<leftBehind, count>>

\* Slip: the write is answered before its directory is brought to the disk.
AnswersAtOnce(w) ==
    /\ jobs[w].at = "syncParent"
    /\ jobs' = [jobs EXCEPT ![w] = Answered]
    /\ UNCHANGED <<target, onDisk, temps, leftBehind, count>>

SyncParentDir(w) ==
    /\ jobs[w].at = "syncParent"
    /\ onDisk' = {target}
    /\ jobs' = [jobs EXCEPT ![w] = Answered]
    /\ UNCHANGED <<target, temps, leftBehind, count>>

Fault ==
    /\ count.faults < MaxFaults
    /\ count' = [count EXCEPT !.faults = @ + 1]

\* What was created is removed, if that does not fail as well.
Fails(w) ==
    /\ jobs[w] \notin Idle
    /\ Fault
    /\ jobs' = [jobs EXCEPT ![w] = NoJob]
    /\ temps' = [temps EXCEPT ![w] = NoFile]
    /\ \/ UNCHANGED leftBehind
       \/ temps[w] # NoFile /\ leftBehind' = leftBehind \cup {temps[w]}
    /\ UNCHANGED <<target, onDisk>>

AllLeft == (leftBehind \cup {temps[w] : w \in Writers}) \ {NoFile}

Dies ==
    /\ Fault
    /\ jobs' = [w \in Writers |-> NoJob]
    /\ temps' = [w \in Writers |-> NoFile]

ProcessDies ==
    /\ Dies
    /\ leftBehind' = AllLeft
    /\ UNCHANGED <<target, onDisk>>

OnDisk(f) == IF f.synced THEN f ELSE File(Torn, f.open, TRUE)

PowerIsLost ==
    /\ Dies
    /\ target' \in {OnDisk(f) : f \in onDisk}
    /\ onDisk' = {target'}
    /\ leftBehind' = {OnDisk(f) : f \in AllLeft}

Next ==
    \/ \E w \in Writers :
           \/ \E content \in Contents, mode \in Modes : Begin(w, content, mode)
           \/ CreateTemp(w) \/ WriteAll(w) \/ ApplyTargetPermissions(w) \/ SyncAll(w)
           \/ ReplaceFile(w) \/ SyncParentDir(w) \/ Fails(w)
    \/ ProcessDies \/ PowerIsLost

Spec == Init /\ [][Next]_fileVars

-----------------------------------------------------------------------------
(* Properties. *)

\* The write as its caller sees it.
CallOf(job) ==
    CASE job \in Idle -> [at |-> job.at]
      [] job.at = "syncParent" -> [at |-> "taken", content |-> job.content]
      [] OTHER -> [at |-> "asked", content |-> job.content]

ContentsOf(files) == {f.content : f \in files}

Register == INSTANCE FileRegister
                WITH value <- target.content,
                     possible <- ContentsOf(onDisk),
                     calls <- [w \in Writers |-> CallOf(jobs[w])]

(* A file is written whole and at once, whoever else writes it, whatever call  *)
(* fails and wherever the process dies; a write that was answered is still     *)
(* there after the power was lost.                                             *)
ImplementsRegister == Register!Spec

(* The file is never torn, nor is what the disk has of it, and what is written  *)
(* privately can at no moment be read by others, not even in the file beside    *)
(* the one it is meant for.                                                     *)
FileIsWhole ==
    /\ target.content # Torn
    /\ \A f \in onDisk : f.content # Torn /\ f.synced
    /\ \A w \in Writers : jobs[w].mode = "private" => ~temps[w].open
=============================================================================
