----------------------------- MODULE FileRegister -----------------------------
(* What a write of a whole file promises: the file has one of the contents     *)
(* that were written, from one moment on, and a write that was answered is not *)
(* lost, not even when the machine loses its power.                            *)
EXTENDS Naturals

CONSTANTS Writers, Contents, Absent

VARIABLES
    value,      \* what the file has
    possible,   \* what it may have after the power was lost
    calls       \* [Writers -> what is being written]

vars == <<value, possible, calls>>

NoCall == [at |-> "none"]
Answered == [at |-> "ok"]
Idle == {NoCall, Answered}
Call(at, content) == [at |-> at, content |-> content]

Init ==
    /\ value \in Contents \cup {Absent}
    /\ possible = {value}
    /\ calls = [w \in Writers |-> NoCall]

Begin(w) ==
    /\ calls[w] \in Idle
    /\ \E c \in Contents : calls' = [calls EXCEPT ![w] = Call("asked", c)]
    /\ UNCHANGED <<value, possible>>

Take(w) ==
    /\ calls[w].at = "asked"
    /\ value' = calls[w].content
    /\ possible' = possible \cup {value'}
    /\ calls' = [calls EXCEPT ![w].at = "taken"]

\* Only a write that was taken is answered, and then nothing older comes back.
Answer(w) ==
    /\ calls[w].at = "taken"
    /\ possible' = {value}
    /\ calls' = [calls EXCEPT ![w] = Answered]
    /\ UNCHANGED value

\* A write that fails may have been taken.
Fail(w) ==
    /\ calls[w] \notin Idle
    /\ calls' = [calls EXCEPT ![w] = NoCall]
    /\ UNCHANGED <<value, possible>>

Stop ==
    /\ calls' = [w \in Writers |-> NoCall]
    /\ \/ UNCHANGED <<value, possible>>
       \/ value' \in possible /\ possible' = {value'}

Next == Stop \/ \E w \in Writers : Begin(w) \/ Take(w) \/ Answer(w) \/ Fail(w)

Spec == Init /\ [][Next]_vars
=============================================================================
