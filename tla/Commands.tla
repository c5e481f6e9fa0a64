------------------------------ MODULE Commands ------------------------------
(* A program run for the window: a background task starts a child process,     *)
(* feeds its input and drains its two outputs in threads of their own, waits   *)
(* for it and for the threads, and its answer is handled on the main loop.     *)
(* The child does what it likes with its pipes, which hold little, and may     *)
(* leave a descendant behind that holds them open.  Bytes are only counted.    *)
(* Left out: what is logged, and the environment of the child.                 *)
EXTENDS Naturals

CONSTANTS
    PipeSize,   \* bytes a pipe holds
    MaxBytes    \* bound: bytes of the input, and of each output

VARIABLES
    task,       \* the background task: where it is, and what it answers
    child,      \* the child process, and the pipe that holds it
    pipe,       \* bytes in the pipes
    input,      \* bytes of the input that are not in its pipe yet
    written,    \* bytes the child wrote to its outputs
    taken,      \* bytes the readers of the outputs have
    threads,    \* the writer of the input and the readers of the outputs
    handled     \* the callback the main loop made

commandVars == <<task, child, pipe, input, written, taken, threads, handled>>

Outputs == {"stdout", "stderr"}
Pipes == Outputs \cup {"stdin"}

TypeOK ==
    /\ task \in [at : {"none", "start", "wait", "stdout", "stderr", "stdin", "ended", "died"},
                 answer : {"none", "output", "notStarted", "notWaited", "notRead", "notFed"}]
    /\ child \in [at : {"none", "runs", "heir", "ended"}, doing : Pipes \cup {"none"}]
    /\ pipe \in [Pipes -> 0..PipeSize]
    /\ input \in 0..MaxBytes
    /\ written \in [Outputs -> 0..MaxBytes] /\ taken \in [Outputs -> 0..MaxBytes]
    /\ threads \in [Pipes -> {"none", "works", "ok", "failed"}]
    /\ handled \in {"none", "result", "disconnect"}

Init ==
    /\ task = [at |-> "none", answer |-> "none"]
    /\ child = [at |-> "none", doing |-> "none"]
    /\ pipe = [p \in Pipes |-> 0]
    /\ input = 0
    /\ written = [p \in Outputs |-> 0] /\ taken = [p \in Outputs |-> 0]
    /\ threads = [p \in Pipes |-> "none"]
    /\ handled = "none"

-----------------------------------------------------------------------------
(* The task. *)

\* When there is no thread for the worker, the task is lost at once.
SpawnResultTask ==
    /\ task.at = "none"
    /\ \/ task' = [task EXCEPT !.at = "start"] /\ UNCHANGED handled
       \/ task' = [task EXCEPT !.at = "died"] /\ handled' = "disconnect"
    /\ UNCHANGED <<child, pipe, input, written, taken, threads>>

Answers(answer) == task' = [at |-> "ended", answer |-> answer]

Working(some) == [p \in Pipes |-> IF p \in some THEN "works" ELSE "none"]

\* The readers are started, then the writer if the command has an input; the
\* task panics at the first there is no thread for.
StartCommand ==
    /\ task.at = "start"
    /\ \/ /\ Answers("notStarted")
          /\ UNCHANGED <<child, input, threads>>
       \/ /\ child' = [child EXCEPT !.at = "runs"]
          /\ \/ /\ task' = [task EXCEPT !.at = "wait"]
                /\ \/ threads' = Working(Outputs) /\ UNCHANGED input
                   \/ threads' = Working(Pipes) /\ input' \in 0..MaxBytes
             \/ /\ task' = [task EXCEPT !.at = "died"]
                /\ \E some \in {{}, {"stdout"}, Outputs} : threads' = Working(some)
                /\ UNCHANGED input
    /\ UNCHANGED <<pipe, written, taken, handled>>

HasEnded == child.at \in {"heir", "ended"}

WaitForChild ==
    /\ task.at = "wait" /\ HasEnded
    /\ task' = [task EXCEPT !.at = "stdout"]
    /\ UNCHANGED <<child, pipe, input, written, taken, threads, handled>>

WaitFails ==
    /\ task.at = "wait"
    /\ Answers("notWaited")
    /\ UNCHANGED <<child, pipe, input, written, taken, threads, handled>>

Following(p) == IF p = "stdout" THEN "stderr" ELSE "stdin"

JoinReader(p) ==
    /\ task.at = p
    /\ \/ threads[p] = "ok" /\ task' = [task EXCEPT !.at = Following(p)]
       \/ threads[p] = "failed" /\ Answers("notRead")
    /\ UNCHANGED <<child, pipe, input, written, taken, threads, handled>>

JoinWriter ==
    /\ task.at = "stdin"
    /\ \/ threads["stdin"] \in {"none", "ok"} /\ Answers("output")
       \/ threads["stdin"] = "failed" /\ Answers("notFed")
    /\ UNCHANGED <<child, pipe, input, written, taken, threads, handled>>

\* The main loop looks every so often whether the task has answered or is lost.
Poll ==
    /\ handled = "none"
    /\ \/ task.at = "ended" /\ handled' = "result"
       \/ task.at = "died" /\ handled' = "disconnect"
    /\ UNCHANGED <<task, child, pipe, input, written, taken, threads>>

-----------------------------------------------------------------------------
(* The threads. *)

SomeoneHolds == child.at \in {"runs", "heir"}

\* Writing into a pipe that nobody can read any more fails.
WriteInput ==
    /\ threads["stdin"] = "works"
    /\ \/ /\ input > 0 /\ SomeoneHolds
          /\ pipe["stdin"] < PipeSize
          /\ pipe' = [pipe EXCEPT !["stdin"] = @ + 1]
          /\ input' = input - 1
          /\ UNCHANGED threads
       \/ /\ input = 0 \/ ~SomeoneHolds
          /\ threads' = [threads EXCEPT !["stdin"] = IF input = 0 THEN "ok" ELSE "failed"]
          /\ UNCHANGED <<pipe, input>>
    /\ UNCHANGED <<task, child, written, taken, handled>>

\* Slip: the outputs are read when the child has ended.
ReadsAtTheEnd(p) ==
    /\ threads[p] = "works" /\ task.at # "wait"
    /\ IF pipe[p] > 0
       THEN /\ taken' = [taken EXCEPT ![p] = @ + pipe[p]]
            /\ pipe' = [pipe EXCEPT ![p] = 0]
            /\ UNCHANGED threads
       ELSE /\ ~SomeoneHolds
            /\ threads' = [threads EXCEPT ![p] = "ok"]
            /\ UNCHANGED <<pipe, taken>>
    /\ UNCHANGED <<task, child, input, written, handled>>

\* A reader ends when its pipe is empty and nobody can write to it.
ReadOutput(p) ==
    /\ threads[p] = "works"
    /\ \/ /\ pipe[p] > 0
          /\ taken' = [taken EXCEPT ![p] = @ + pipe[p]]
          /\ pipe' = [pipe EXCEPT ![p] = 0]
          /\ UNCHANGED threads
       \/ /\ pipe[p] = 0 /\ ~SomeoneHolds
          /\ threads' = [threads EXCEPT ![p] = "ok"]
          /\ UNCHANGED <<pipe, taken>>
    /\ UNCHANGED <<task, child, input, written, handled>>

ReadFails(p) ==
    /\ threads[p] = "works"
    /\ threads' = [threads EXCEPT ![p] = "failed"]
    /\ UNCHANGED <<task, child, pipe, input, written, taken, handled>>

-----------------------------------------------------------------------------
(* The child. *)

IsFree == child = [at |-> "runs", doing |-> "none"]

\* It turns to one of its pipes, and is held there until it can read or write.
ChildTurnsTo(p) ==
    /\ IsFree
    /\ p \in Outputs => written[p] < MaxBytes
    /\ child' = [child EXCEPT !.doing = p]
    /\ UNCHANGED <<task, pipe, input, written, taken, threads, handled>>

ChildReads ==
    /\ child.doing = "stdin"
    /\ \/ /\ pipe["stdin"] > 0
          /\ pipe' = [pipe EXCEPT !["stdin"] = @ - 1]
       \/ /\ pipe["stdin"] = 0 /\ threads["stdin"] # "works"
          /\ UNCHANGED pipe
    /\ child' = [child EXCEPT !.doing = "none"]
    /\ UNCHANGED <<task, input, written, taken, threads, handled>>

\* A pipe that is not read any more ends the child.
ChildWrites(p) ==
    /\ child.doing = p
    /\ \/ /\ threads[p] = "works" /\ pipe[p] < PipeSize
          /\ pipe' = [pipe EXCEPT ![p] = @ + 1]
          /\ written' = [written EXCEPT ![p] = @ + 1]
          /\ child' = [child EXCEPT !.doing = "none"]
       \/ /\ threads[p] # "works"
          /\ child' = [at |-> "ended", doing |-> "none"]
          /\ UNCHANGED <<pipe, written>>
    /\ UNCHANGED <<task, input, taken, threads, handled>>

\* It ends when it likes; what it has started may keep its pipes for a while.
ChildEnds ==
    /\ \/ IsFree /\ \E at \in {"heir", "ended"} : child' = [child EXCEPT !.at = at]
       \/ child.at = "heir" /\ child' = [child EXCEPT !.at = "ended"]
    /\ UNCHANGED <<task, pipe, input, written, taken, threads, handled>>

\* All is over; the next command finds nothing of this one.
RunAnother ==
    /\ handled # "none" /\ ~SomeoneHolds /\ \A p \in Pipes : threads[p] # "works"
    /\ task' = [at |-> "none", answer |-> "none"]
    /\ child' = [at |-> "none", doing |-> "none"]
    /\ pipe' = [p \in Pipes |-> 0]
    /\ input' = 0
    /\ written' = [p \in Outputs |-> 0] /\ taken' = [p \in Outputs |-> 0]
    /\ threads' = [p \in Pipes |-> "none"]
    /\ handled' = "none"

-----------------------------------------------------------------------------
Faults == WaitFails \/ \E p \in Outputs : ReadFails(p)

Works ==
    \/ SpawnResultTask
    \/ StartCommand
    \/ WaitForChild
    \/ \E p \in Outputs : JoinReader(p) \/ ReadOutput(p) \/ ChildWrites(p)
    \/ JoinWriter
    \/ Poll
    \/ WriteInput
    \/ \E p \in Pipes : ChildTurnsTo(p)
    \/ ChildReads
    \/ ChildEnds
    \/ RunAnother

Next == Works \/ Faults

Spec == Init /\ [][Next]_commandVars

-----------------------------------------------------------------------------
(* Properties. *)

(* A command that succeeds gives all that the child wrote, and had all of its  *)
(* input taken, although it is the end of the child that is waited for first.  *)
AnswersAreWhole ==
    task.answer = "output" =>
        input = 0 /\ taken = written /\ \A p \in Outputs : pipe[p] = 0

(* The child, the threads and the task never all wait for one another, however *)
(* small the pipes are and in whatever order the child uses them.              *)
NobodyWaitsForEver == ENABLED Works

CommandsEndWell == AnswersAreWhole /\ NobodyWaitsForEver
=============================================================================
