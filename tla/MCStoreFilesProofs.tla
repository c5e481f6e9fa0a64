--------------------------- MODULE MCStoreFilesProofs ---------------------------
(* A user who waits for each answer loses no text, and every undo leads back to *)
(* the files as they were (EntryUndo); and the backend that serves keeps to the *)
(* entry it was asked for, keeps passkeys in their place and gives new stores   *)
(* their history (HostEntries), for every value of the constants.               *)
EXTENDS MCStoreFiles, TLAPS

-----------------------------------------------------------------------------
(* Types *)

Undoable == {"saved", "rename", "move", "deleted"}

\* What can be undone has the places that its undo will use.
WellFormed(a) ==
    \/ a = Unavailable
    \/ /\ a.type \in Undoable /\ a.from \in Places
       /\ a.type # "deleted" => a.to \in Places

Formed ==
    /\ page = Closed \/ page.place \in Places
    /\ \A i \in 1..Len(undo) : WellFormed(undo[i].action)
    /\ \A s \in Slots :
          /\ WellFormed(cause[s].item.action)
          /\ job[s].phase \in {"read", "rename"} => job[s].take \in Places

TypeInv == TypeOK /\ Formed

LEMMA Constants ==
    /\ Absent \notin Texts /\ NoPlace \notin Places
    /\ MaxUndo \in Nat \ {0} /\ MaxOps \in Nat /\ MaxFailures \in Nat
BY UndoAssumption

LEMMA ActionTypes ==
    ASSUME NEW from \in Places, NEW to \in Places, NEW text \in Texts \cup {Absent}
    PROVE  /\ Unavailable \in Actions /\ WellFormed(Unavailable)
           /\ RestoreSavedEntry(from, text, to) \in Actions
           /\ WellFormed(RestoreSavedEntry(from, text, to))
           /\ RenameEntry(from, to) \in Actions /\ WellFormed(RenameEntry(from, to))
           /\ MoveEntryBetweenStores(from, to) \in Actions
           /\ WellFormed(MoveEntryBetweenStores(from, to))
           /\ RestoreDeletedEntry(from, text) \in Actions
           /\ WellFormed(RestoreDeletedEntry(from, text))
BY DEF Unavailable, RestoreSavedEntry, RenameEntry, MoveEntryBetweenStores,
       RestoreDeletedEntry, Action, Actions, WellFormed, Undoable

LEMMA NoItemType == NoItem \in Items /\ NoCause \in Causes /\ WellFormed(NoItem.action)
<1>1. [p \in Places |-> Absent] \in Files
  BY DEF Files
<1>2. Unavailable \in Actions
  BY DEF Unavailable, Action, Actions
<1>3. NoItem \in Items /\ NoItem.action = Unavailable
  BY <1>1, <1>2 DEF NoItem, Item, Items
<1> QED
  BY <1>3 DEF NoCause, Causes, WellFormed

LEMMA PlanTypes ==
    ASSUME NEW a \in Actions, WellFormed(a), a # Unavailable
    PROVE  /\ UndoPlan(a) \in Plans
           /\ UndoPlan(a).phase \in {"read", "rename"} => UndoPlan(a).take \in Places
<1>1. /\ a.type \in Undoable /\ a.from \in Places /\ a.contents \in Texts \cup {Absent}
      /\ a.to \in Places \cup {NoPlace} /\ (a.type # "deleted" => a.to \in Places)
  BY DEF WellFormed, Actions
<1>2. CASE a.type = "saved" /\ a.contents = Absent
  <2>1. UndoPlan(a) = Plan("remove", a.to, NoPlace, Absent)
    BY <1>2 DEF UndoPlan
  <2> QED
    BY <1>1, <1>2, <2>1 DEF Plan, Plans, Phases
<1>3. CASE a.type = "saved" /\ a.contents # Absent /\ a.from = a.to
  <2>1. UndoPlan(a) = Plan("write", NoPlace, a.from, a.contents)
    BY <1>3 DEF UndoPlan
  <2> QED
    BY <1>1, <1>3, <2>1 DEF Plan, Plans, Phases
<1>4. CASE a.type = "saved" /\ a.contents # Absent /\ a.from # a.to
  <2>1. UndoPlan(a) = Plan("check", a.to, a.from, a.contents)
    BY <1>4 DEF UndoPlan
  <2> QED
    BY <1>1, <1>4, <2>1 DEF Plan, Plans, Phases
<1>5. CASE a.type = "rename"
  <2>1. UndoPlan(a) = Plan("rename", a.to, a.from, Absent)
    BY <1>5 DEF UndoPlan
  <2> QED
    BY <1>1, <1>5, <2>1 DEF Plan, Plans, Phases
<1>6. CASE a.type = "move"
  <2>1. UndoPlan(a) = Plan("read", a.to, a.from, Absent)
    BY <1>6 DEF UndoPlan
  <2> QED
    BY <1>1, <1>6, <2>1 DEF Plan, Plans, Phases
<1>7. CASE a.type = "deleted"
  <2>1. UndoPlan(a) = Plan("check", NoPlace, a.from, a.contents)
    BY <1>7 DEF UndoPlan
  <2> QED
    BY <1>1, <1>7, <2>1 DEF Plan, Plans, Phases
<1> QED
  BY <1>1, <1>2, <1>3, <1>4, <1>5, <1>6, <1>7 DEF Undoable

LEMMA InitTypes == Init => TypeInv
<1> SUFFICES ASSUME Init PROVE TypeInv
  OBVIOUS
<1>1. Idle \in Plans /\ Idle.phase = "idle"
  BY DEF Idle, Plan, Plans, Phases
<1>2. page \in [place : Places \cup {NoPlace}, saved : Texts \cup {Absent}]
  BY DEF Init, Closed, Page
<1>3. undo \in Seq(Items) /\ Len(undo) = 0
  BY DEF Init
<1>4. /\ job \in [Slots -> Plans] /\ cause \in [Slots -> Causes]
      /\ \A s \in Slots : job[s] = Idle /\ cause[s] = NoCause
  BY <1>1, NoItemType DEF Init
<1>5. /\ seen \in [kept : SUBSET Texts, unrecorded : BOOLEAN]
      /\ used \in [ops : 0..MaxOps, failures : 0..MaxFailures] /\ files \in Files
  BY Constants DEF Init
<1>6. TypeOK
  BY <1>2, <1>3, <1>4, <1>5, Constants DEF TypeOK
<1>7. NoCause.item = NoItem
  BY DEF NoCause
<1> QED
  BY <1>1, <1>3, <1>4, <1>6, <1>7, NoItemType DEF TypeInv, Formed, Init

-----------------------------------------------------------------------------
(* The stack *)

LEMMA PushedFacts ==
    ASSUME NEW stack \in Seq(Items), Len(stack) <= MaxUndo, NEW it \in Items
    PROVE  /\ Pushed(stack, it) \in Seq(Items) /\ Len(Pushed(stack, it)) \in 1..MaxUndo
           /\ Pushed(stack, it)[Len(Pushed(stack, it))] = it
           /\ \/ /\ Len(Pushed(stack, it)) = Len(stack) + 1
                 /\ \A i \in 1..Len(stack) : Pushed(stack, it)[i] = stack[i]
              \/ /\ Len(Pushed(stack, it)) = Len(stack)
                 /\ \A i \in 1..(Len(stack) - 1) : Pushed(stack, it)[i] = stack[i + 1]
<1>1. PICK n : n = Len(stack)
  OBVIOUS
<1>2. PICK all : all = Append(stack, it)
  OBVIOUS
<1>3. /\ all \in Seq(Items) /\ Len(all) = n + 1 /\ all[n + 1] = it /\ n \in Nat
      /\ \A i \in 1..n : all[i] = stack[i]
  BY <1>1, <1>2
<1>4. CASE n + 1 > MaxUndo
  <2>1. Pushed(stack, it) = Tail(all) /\ n = MaxUndo
    BY <1>1, <1>2, <1>3, <1>4, Constants DEF Pushed
  <2>2. /\ Tail(all) \in Seq(Items) /\ Len(Tail(all)) = n
        /\ \A i \in 1..n : Tail(all)[i] = all[i + 1]
    BY <1>3
  <2>3. n \in 1..MaxUndo /\ n - 1 \in Nat
    BY <2>1, Constants
  <2>4. \A i \in 1..(n - 1) : Tail(all)[i] = stack[i + 1]
    BY <1>3, <2>2, <2>3
  <2> QED
    BY ONLY <1>1, <1>3, <2>1, <2>2, <2>3, <2>4
<1>5. CASE ~(n + 1 > MaxUndo)
  <2>1. Pushed(stack, it) = all
    BY <1>1, <1>2, <1>3, <1>5 DEF Pushed
  <2>2. n + 1 \in 1..MaxUndo
    BY <1>3, <1>5, Constants
  <2> QED
    BY ONLY <1>1, <1>3, <2>1, <2>2
<1> QED
  BY <1>4, <1>5

LEMMA PushedFormed ==
    ASSUME TypeInv, NEW it \in Items, WellFormed(it.action)
    PROVE  /\ Pushed(undo, it) \in Seq(Items) /\ Len(Pushed(undo, it)) <= MaxUndo
           /\ \A i \in 1..Len(Pushed(undo, it)) : WellFormed(Pushed(undo, it)[i].action)
<1>1. PICK n \in Nat : n = Len(undo)
  BY DEF TypeInv, TypeOK
<1>2. PICK r : r = Pushed(undo, it)
  OBVIOUS
<1>3. undo \in Seq(Items) /\ n <= MaxUndo /\ \A i \in 1..n : WellFormed(undo[i].action)
  BY <1>1 DEF TypeInv, TypeOK, Formed
<1>4. /\ r \in Seq(Items) /\ Len(r) \in 1..MaxUndo /\ r[Len(r)] = it
      /\ \/ Len(r) = n + 1 /\ \A i \in 1..n : r[i] = undo[i]
         \/ Len(r) = n /\ \A i \in 1..(n - 1) : r[i] = undo[i + 1]
  BY <1>1, <1>2, <1>3, PushedFacts
<1>5. PICK m \in Nat : m = Len(r)
  BY <1>4
<1>6. m <= MaxUndo
  BY <1>4, <1>5, Constants
<1>7. ASSUME NEW i \in 1..m PROVE WellFormed(r[i].action)
  <2>1. CASE i = m
    BY <1>4, <1>5, <2>1
  <2>2. CASE i # m /\ m = n + 1
    <3>1. i \in 1..n
      BY <1>1, <1>7, <2>2
    <3>2. r[i] = undo[i]
      BY <1>1, <1>4, <1>5, <2>2, <3>1
    <3> QED
      BY <1>3, <3>1, <3>2
  <2>3. CASE i # m /\ m # n + 1
    <3>1. i \in 1..(n - 1) /\ i + 1 \in 1..n
      BY <1>1, <1>4, <1>5, <1>7, <2>3
    <3>2. r[i] = undo[i + 1]
      BY <1>1, <1>4, <1>5, <2>3, <3>1
    <3> QED
      BY <1>3, <3>1, <3>2
  <2> QED
    BY <2>1, <2>2, <2>3
<1> QED
  BY <1>2, <1>4, <1>5, <1>6, <1>7

LEMMA PoppedFacts ==
    ASSUME NEW stack \in Seq(Items), stack # <<>>, NEW n, n = Len(stack)
    PROVE  /\ n \in Nat \ {0} /\ stack[n] \in Items
           /\ SubSeq(stack, 1, n - 1) \in Seq(Items) /\ Len(SubSeq(stack, 1, n - 1)) = n - 1
           /\ \A i \in 1..(n - 1) : SubSeq(stack, 1, n - 1)[i] = stack[i]
<1>1. n \in Nat \ {0}
  OBVIOUS
<1>2. stack[n] \in Items
  BY <1>1
<1>3. /\ SubSeq(stack, 1, n - 1) \in Seq(Items) /\ Len(SubSeq(stack, 1, n - 1)) = n - 1
      /\ \A i \in 1..(n - 1) : SubSeq(stack, 1, n - 1)[i] = stack[i]
  BY <1>1
<1> QED
  BY <1>1, <1>2, <1>3

-----------------------------------------------------------------------------
(* Every step keeps the types *)

LEMMA CountsKept ==
    ASSUME TypeInv, UNCHANGED used \/ Operate \/ OneFailure \/ OperateAndFail
    PROVE  used' \in [ops : 0..MaxOps, failures : 0..MaxFailures]
<1>1. /\ used.ops \in 0..MaxOps /\ used.failures \in 0..MaxFailures
      /\ used \in [ops : 0..MaxOps, failures : 0..MaxFailures]
  BY DEF TypeInv, TypeOK
<1>2. CASE UNCHANGED used
  BY <1>1, <1>2
<1>3. CASE Operate
  <2>1. used.ops + 1 \in 0..MaxOps
    BY <1>1, <1>3, Constants DEF Operate
  <2> QED
    BY <1>1, <1>3, <2>1 DEF Operate
<1>4. CASE OneFailure
  <2>1. used.failures + 1 \in 0..MaxFailures
    BY <1>1, <1>4, Constants DEF OneFailure
  <2> QED
    BY <1>1, <1>4, <2>1 DEF OneFailure
<1>5. CASE OperateAndFail
  <2>1. used.ops + 1 \in 0..MaxOps /\ used.failures + 1 \in 0..MaxFailures
    BY <1>1, <1>5, Constants DEF OperateAndFail
  <2> QED
    BY <1>1, <1>5, <2>1 DEF OperateAndFail
<1> QED
  BY <1>2, <1>3, <1>4, <1>5

\* A worker's phase, its text and its cause change, and the files.
LEMMA WorkerTypes ==
    ASSUME TypeInv, NEW s \in Slots, UNCHANGED <<undo, page>>,
           files' \in Files, used' \in [ops : 0..MaxOps, failures : 0..MaxFailures],
           seen' \in [kept : SUBSET Texts, unrecorded : BOOLEAN],
           NEW j \in Plans, NEW c \in Causes, WellFormed(c.item.action),
           j.phase \in {"read", "rename"} => j.take \in Places,
           job' = [job EXCEPT ![s] = j], cause' = [cause EXCEPT ![s] = c]
    PROVE  TypeInv'
<1>1. job' \in [Slots -> Plans] /\ cause' \in [Slots -> Causes]
  BY DEF TypeInv, TypeOK
<1>2. TypeOK'
  BY <1>1 DEF TypeInv, TypeOK
<1>3. ASSUME NEW r \in Slots
      PROVE  /\ WellFormed(cause'[r].item.action)
             /\ job'[r].phase \in {"read", "rename"} => job'[r].take \in Places
  <2>1. /\ job'[r] = (IF r = s THEN j ELSE job[r])
        /\ cause'[r] = (IF r = s THEN c ELSE cause[r])
    BY DEF TypeInv, TypeOK
  <2> QED
    BY <2>1 DEF TypeInv, Formed
<1>4. Formed'
  BY <1>3 DEF TypeInv, Formed
<1> QED
  BY <1>2, <1>4 DEF TypeInv

\* A worker's phase changes, and the files.
LEMMA AdvanceTypes ==
    ASSUME TypeInv, NEW s \in Slots, NEW phase \in Phases \ {"read", "rename"},
           Advance(s, phase), UNCHANGED <<undo, page, cause>>,
           files' \in Files, used' \in [ops : 0..MaxOps, failures : 0..MaxFailures],
           seen' \in [kept : SUBSET Texts, unrecorded : BOOLEAN]
    PROVE  TypeInv'
<1>1. job[s] \in Plans /\ cause[s] \in Causes /\ WellFormed(cause[s].item.action)
  BY DEF TypeInv, TypeOK, Formed
<1>2. PICK j : j = [job[s] EXCEPT !.phase = phase]
  OBVIOUS
<1>3. j \in Plans /\ j.phase = phase
  BY <1>1, <1>2 DEF Plans
<1>4. job' = [job EXCEPT ![s] = j] /\ cause' = [cause EXCEPT ![s] = cause[s]]
  BY <1>2 DEF Advance, TypeInv, TypeOK
<1> QED
  BY <1>1, <1>3, <1>4, WorkerTypes

LEMMA FinishTypes ==
    ASSUME TypeInv, NEW s \in Slots, Finish(s), files' \in Files,
           undo' \in Seq(Items), Len(undo') <= MaxUndo,
           \A i \in 1..Len(undo') : WellFormed(undo'[i].action),
           page' = Closed \/ page'.place \in Places,
           page' \in [place : Places \cup {NoPlace}, saved : Texts \cup {Absent}],
           used' \in [ops : 0..MaxOps, failures : 0..MaxFailures],
           seen' \in [kept : SUBSET Texts, unrecorded : BOOLEAN]
    PROVE  TypeInv'
<1>1. Idle \in Plans /\ Idle.phase = "idle"
  BY DEF Idle, Plan, Plans, Phases
<1>2. NoCause \in Causes /\ WellFormed(NoCause.item.action)
  BY NoItemType DEF NoCause
<1>3. /\ job' \in [Slots -> Plans] /\ cause' \in [Slots -> Causes]
      /\ \A r \in Slots : job'[r] = (IF r = s THEN Idle ELSE job[r])
      /\ \A r \in Slots : cause'[r] = (IF r = s THEN NoCause ELSE cause[r])
  BY <1>1, <1>2 DEF Finish, TypeInv, TypeOK
<1>4. TypeOK'
  BY <1>3 DEF TypeOK
<1>5. ASSUME NEW r \in Slots
      PROVE  /\ WellFormed(cause'[r].item.action)
             /\ job'[r].phase \in {"read", "rename"} => job'[r].take \in Places
  BY <1>1, <1>2, <1>3 DEF TypeInv, Formed
<1>6. Formed'
  BY <1>5 DEF Formed, WellFormed
<1> QED
  BY <1>4, <1>6 DEF TypeInv

\* The user's own steps on the files, the stack and the page.
LEMMA UserTypes ==
    ASSUME TypeInv, UNCHANGED <<job, cause>>, files' \in Files,
           undo' \in Seq(Items), Len(undo') <= MaxUndo,
           \A i \in 1..Len(undo') : WellFormed(undo'[i].action),
           page' = Closed \/ page'.place \in Places,
           page' \in [place : Places \cup {NoPlace}, saved : Texts \cup {Absent}],
           used' \in [ops : 0..MaxOps, failures : 0..MaxFailures],
           seen' \in [kept : SUBSET Texts, unrecorded : BOOLEAN]
    PROVE  TypeInv'
<1>1. TypeOK'
  BY DEF TypeInv, TypeOK
<1>2. Formed'
  BY DEF TypeInv, Formed, WellFormed
<1> QED
  BY <1>1, <1>2 DEF TypeInv

LEMMA FileTypes ==
    ASSUME TypeInv
    PROVE  /\ \A p \in Places : files[p] \in Texts \cup {Absent}
           /\ \A p : \A t \in Texts \cup {Absent} : [files EXCEPT ![p] = t] \in Files
           /\ \A p, q : \A t, u \in Texts \cup {Absent} :
                 [files EXCEPT ![p] = t, ![q] = u] \in Files
           /\ \A p \in Places : \A q : Swapped(p, q) \in Files
BY DEF TypeInv, TypeOK, Files, Swapped

LEMMA SeenTypes ==
    ASSUME TypeInv
    PROVE  /\ seen \in [kept : SUBSET Texts, unrecorded : BOOLEAN]
           /\ \A b \in BOOLEAN : [seen EXCEPT !.unrecorded = b] \in
                 [kept : SUBSET Texts, unrecorded : BOOLEAN]
           /\ \A S \in SUBSET Texts : [seen EXCEPT !.kept = S] \in
                 [kept : SUBSET Texts, unrecorded : BOOLEAN]
           /\ \A S \in SUBSET Texts : \A b \in BOOLEAN :
                 [seen EXCEPT !.kept = S, !.unrecorded = b] \in
                 [kept : SUBSET Texts, unrecorded : BOOLEAN]
           /\ seen.kept \in SUBSET Texts /\ seen.unrecorded \in BOOLEAN
BY DEF TypeInv, TypeOK

LEMMA StackTypes ==
    ASSUME TypeInv
    PROVE  /\ undo \in Seq(Items) /\ Len(undo) <= MaxUndo
           /\ \A i \in 1..Len(undo) : WellFormed(undo[i].action)
           /\ page = Closed \/ page.place \in Places
           /\ page \in [place : Places \cup {NoPlace}, saved : Texts \cup {Absent}]
BY DEF TypeInv, TypeOK, Formed

LEMMA WorkTypes ==
    ASSUME TypeInv, NEW s \in Slots
    PROVE  /\ job[s] \in Plans /\ cause[s] \in Causes /\ WellFormed(cause[s].item.action)
           /\ job[s].phase \in {"read", "rename"} => job[s].take \in Places
           /\ cause[s].item \in Items /\ cause[s].item.action \in Actions
           /\ cause[s].item.before \in Files /\ cause[s].item.after \in Files
<1>1. /\ job[s] \in Plans /\ cause[s] \in Causes /\ WellFormed(cause[s].item.action)
      /\ job[s].phase \in {"read", "rename"} => job[s].take \in Places
  BY DEF TypeInv, TypeOK, Formed
<1>2. cause[s].item \in Items
  BY <1>1 DEF Causes
<1> QED
  BY <1>1, <1>2 DEF Items

LEMMA StartTypes ==
    ASSUME TypeInv, NEW s \in Slots, NEW j \in Plans,
           j.phase \in {"read", "rename"} => j.take \in Places,
           NEW kind \in {"delete", "move", "undo"}, NEW it \in Items, WellFormed(it.action),
           Start(s, j, kind, it), Operate, UNCHANGED <<files, page>>,
           undo' \in Seq(Items), Len(undo') <= MaxUndo,
           \A i \in 1..Len(undo') : WellFormed(undo'[i].action),
           seen' \in [kept : SUBSET Texts, unrecorded : BOOLEAN]
    PROVE  TypeInv'
<1>1. PICK c : c = [kind |-> kind, item |-> it, editing |-> page # Closed]
  OBVIOUS
<1>2. c \in Causes /\ c.item = it
  BY <1>1 DEF Causes
<1>3. job' = [job EXCEPT ![s] = j] /\ cause' = [cause EXCEPT ![s] = c]
  BY <1>1 DEF Start
<1>4. used' \in [ops : 0..MaxOps, failures : 0..MaxFailures]
  BY CountsKept
<1>5. /\ job' \in [Slots -> Plans] /\ cause' \in [Slots -> Causes]
      /\ \A r \in Slots : job'[r] = (IF r = s THEN j ELSE job[r])
      /\ \A r \in Slots : cause'[r] = (IF r = s THEN c ELSE cause[r])
  BY <1>2, <1>3 DEF TypeInv, TypeOK
<1>6. TypeOK'
  BY <1>4, <1>5 DEF TypeInv, TypeOK
<1>7. ASSUME NEW r \in Slots
      PROVE  /\ WellFormed(cause'[r].item.action)
             /\ job'[r].phase \in {"read", "rename"} => job'[r].take \in Places
  BY <1>2, <1>5 DEF TypeInv, Formed
<1>8. Formed'
  BY <1>7 DEF TypeInv, Formed, WellFormed
<1> QED
  BY <1>6, <1>8 DEF TypeInv

LEMMA ReadTypes ==
    ASSUME TypeInv, NEW s \in Slots, ReadPasswordEntry(s) \/ ReadFails(s)
    PROVE  TypeInv'
<1>1. /\ job[s] \in Plans /\ cause[s] \in Causes /\ WellFormed(cause[s].item.action)
      /\ job[s].phase = "read" /\ job[s].take \in Places /\ cause[s].item \in Items
  BY WorkTypes DEF ReadPasswordEntry, ReadFails
<1>2. PICK text \in Texts \cup {Absent} : text = files[job[s].take]
  BY <1>1, FileTypes
<1>3. used' \in [ops : 0..MaxOps, failures : 0..MaxFailures]
  BY CountsKept DEF ReadPasswordEntry, ReadFails
<1>4. UNCHANGED <<files, undo, page, seen>> /\ files' \in Files
      /\ seen' \in [kept : SUBSET Texts, unrecorded : BOOLEAN]
  BY SeenTypes DEF ReadPasswordEntry, ReadFails, TypeInv, TypeOK
<1>5. ASSUME NEW a \in Actions, WellFormed(a)
      PROVE  /\ [cause[s] EXCEPT !.item.action = a] \in Causes
             /\ [cause[s] EXCEPT !.item.action = a].item.action = a
  BY <1>1, <1>5 DEF Causes, Items
<1>6. PICK a : a = RestoreDeletedEntry(job[s].take, text)
  OBVIOUS
<1>7. a \in Actions /\ WellFormed(a) /\ Unavailable \in Actions /\ WellFormed(Unavailable)
  BY <1>1, <1>6, ActionTypes
<1>8. CASE ReadPasswordEntry(s)
  <2>1. PICK phase \in Phases \ {"read", "rename"} :
           phase = IF files[job[s].take] = Absent THEN "failed"
                   ELSE IF cause[s].kind = "delete" THEN "remove" ELSE "check"
    BY DEF Phases
  <2>2. PICK j : j = [job[s] EXCEPT !.contents = text, !.phase = phase]
    OBVIOUS
  <2>3. j \in Plans /\ j.phase = phase
    BY <1>1, <2>2 DEF Plans
  <2>4. job' = [job EXCEPT ![s] = j]
    BY <1>2, <1>8, <2>1, <2>2 DEF ReadPasswordEntry, TypeInv, TypeOK
  <2>5. CASE cause[s].kind = "delete"
    <3>1. cause' = [cause EXCEPT ![s] = [cause[s] EXCEPT !.item.action = a]]
      BY <1>2, <1>6, <1>8, <2>5 DEF ReadPasswordEntry, TypeInv, TypeOK
    <3>2. PICK c : c = [cause[s] EXCEPT !.item.action = a]
      OBVIOUS
    <3>3. c \in Causes /\ WellFormed(c.item.action)
      BY <1>5, <1>7, <3>2
    <3> QED
      BY <1>3, <1>4, <2>1, <2>3, <2>4, <3>1, <3>2, <3>3, WorkerTypes
  <2>6. CASE cause[s].kind # "delete"
    <3>1. cause' = [cause EXCEPT ![s] = cause[s]]
      BY <1>8, <2>6 DEF ReadPasswordEntry, TypeInv, TypeOK
    <3> QED
      BY <1>1, <1>3, <1>4, <2>1, <2>3, <2>4, <3>1, WorkerTypes
  <2> QED
    BY <2>5, <2>6
<1>9. CASE ReadFails(s)
  <2>1. CASE cause[s].kind = "delete"
    <3>1. PICK j : j = [job[s] EXCEPT !.phase = "remove"]
      OBVIOUS
    <3>2. j \in Plans /\ j.phase = "remove"
      BY <1>1, <3>1 DEF Plans, Phases
    <3>3. job' = [job EXCEPT ![s] = j]
      BY <1>9, <2>1, <3>1 DEF ReadFails, Advance, TypeInv, TypeOK
    <3>4. PICK c : c = [cause[s] EXCEPT !.item.action = Unavailable]
      OBVIOUS
    <3>5. cause' = [cause EXCEPT ![s] = c]
      BY <1>9, <2>1, <3>4 DEF ReadFails, TypeInv, TypeOK
    <3>6. c \in Causes /\ WellFormed(c.item.action)
      BY <1>5, <1>7, <3>4
    <3> QED
      BY <1>3, <1>4, <3>2, <3>3, <3>5, <3>6, WorkerTypes
  <2>2. CASE cause[s].kind # "delete"
    <3>1. Advance(s, "failed") /\ UNCHANGED <<undo, page, cause>>
      BY <1>4, <1>9, <2>2 DEF ReadFails
    <3>2. "failed" \in Phases \ {"read", "rename"}
      BY DEF Phases
    <3> QED
      BY <1>3, <1>4, <3>1, <3>2, AdvanceTypes
  <2> QED
    BY <2>1, <2>2
<1> QED
  BY <1>8, <1>9

LEMMA FileStepTypes ==
    ASSUME TypeInv, NEW s \in Slots,
           \/ CheckEntryIsNew(s) \/ SavePasswordEntry(s) \/ SaveFails(s)
           \/ DeletePasswordEntry(s) \/ DeleteFails(s) \/ RollBack(s)
           \/ RenamePasswordEntry(s)
    PROVE  TypeInv'
<1>1. job[s] \in Plans /\ (job[s].phase = "rename" => job[s].take \in Places)
  BY WorkTypes
<1>2. used' \in [ops : 0..MaxOps, failures : 0..MaxFailures]
  <2>1. UNCHANGED used \/ OneFailure
    BY DEF CheckEntryIsNew, SavePasswordEntry, SaveFails, DeletePasswordEntry, DeleteFails,
           RollBack, RenamePasswordEntry
  <2> QED
    BY <2>1, CountsKept
<1>3. job[s].contents \in Texts \cup {Absent} /\ files \in Files
  BY <1>1 DEF Plans, TypeInv, TypeOK
<1>4. files' \in Files
  <2>1. CASE CheckEntryIsNew(s)
    BY <1>3, <2>1 DEF CheckEntryIsNew
  <2>2. CASE SavePasswordEntry(s)
    BY <1>3, <2>2, FileTypes DEF SavePasswordEntry
  <2>3. CASE SaveFails(s)
    <3>1. PICK saved : saved = [files EXCEPT ![job[s].put] = job[s].contents]
      OBVIOUS
    <3>2. saved \in Files
      BY <1>3, <3>1, FileTypes
    <3>3. files' = files \/ files' = saved
      BY <2>3, <3>1 DEF SaveFails
    <3> QED
      BY <1>3, <3>2, <3>3
  <2>4. CASE DeletePasswordEntry(s) \/ DeleteFails(s) \/ RollBack(s)
    <3>1. PICK p : UNCHANGED files \/ files' = [files EXCEPT ![p] = Absent]
      BY <2>4 DEF DeletePasswordEntry, DeleteFails, RollBack
    <3>2. [files EXCEPT ![p] = Absent] \in Files
      BY FileTypes
    <3> QED
      BY <1>3, <3>1, <3>2
  <2>7. CASE RenamePasswordEntry(s)
    BY <1>1, <1>3, <2>7, FileTypes DEF RenamePasswordEntry
  <2> QED
    BY <2>1, <2>2, <2>3, <2>4, <2>7
<1>5. seen' \in [kept : SUBSET Texts, unrecorded : BOOLEAN]
  BY SeenTypes DEF CheckEntryIsNew, SavePasswordEntry, SaveFails, DeletePasswordEntry,
       DeleteFails, RollBack, RenamePasswordEntry
<1>6. PICK phase \in Phases \ {"read", "rename"} : Advance(s, phase)
  BY DEF CheckEntryIsNew, SavePasswordEntry, SaveFails, DeletePasswordEntry,
       DeleteFails, RollBack, RenamePasswordEntry, Phases, RemoveFailed
<1>7. UNCHANGED <<undo, page, cause>>
  BY DEF CheckEntryIsNew, SavePasswordEntry, SaveFails, DeletePasswordEntry,
       DeleteFails, RollBack, RenamePasswordEntry
<1> QED
  BY <1>2, <1>4, <1>5, <1>6, <1>7, AdvanceTypes

LEMMA AnswerTypes ==
    ASSUME TypeInv, NEW s \in Slots,
           RowDone(s) \/ DetachedRowDone(s) \/ UndoDone(s) \/ Failed(s)
    PROVE  TypeInv'
<1>1. /\ cause[s] \in Causes /\ WellFormed(cause[s].item.action)
      /\ cause[s].item \in Items /\ cause[s].item.action \in Actions
  BY WorkTypes
<1>2. used' \in [ops : 0..MaxOps, failures : 0..MaxFailures]
  <2>1. UNCHANGED used \/ OneFailure
    BY DEF RowDone, DetachedRowDone, UndoDone, Failed
  <2> QED
    BY <2>1, CountsKept
<1>3. Finish(s) /\ UNCHANGED files /\ files' \in Files
  BY DEF RowDone, DetachedRowDone, UndoDone, Failed, TypeInv, TypeOK
<1>4. CASE RowDone(s)
  <2>1. PICK it : it = [cause[s].item EXCEPT !.after = files]
    OBVIOUS
  <2>2. it \in Items /\ WellFormed(it.action)
    BY <1>1, <2>1 DEF Items, TypeInv, TypeOK
  <2>3. /\ undo' \in Seq(Items) /\ Len(undo') <= MaxUndo
        /\ \A i \in 1..Len(undo') : WellFormed(undo'[i].action)
    BY <1>4, <2>1, <2>2, PushedFormed DEF RowDone
  <2>4. page' = page /\ seen' \in [kept : SUBSET Texts, unrecorded : BOOLEAN]
    BY <1>4, SeenTypes DEF RowDone
  <2> QED
    BY <1>2, <1>3, <2>3, <2>4, StackTypes, FinishTypes
<1>5. CASE DetachedRowDone(s)
  <2>1. /\ page' = page /\ undo' = undo
        /\ seen' \in [kept : SUBSET Texts, unrecorded : BOOLEAN]
    BY <1>5, SeenTypes DEF DetachedRowDone
  <2> QED
    BY <1>2, <1>3, <2>1, StackTypes, FinishTypes
<1>6. CASE UndoDone(s)
  <2>1. PICK action \in Actions : action = cause[s].item.action
    BY <1>1
  <2>2. PICK place \in Places \cup {NoPlace} : place = RestoredEntry(action)
    BY <2>1 DEF RestoredEntry, Actions
  <2>3. undo' = undo
    BY <1>6 DEF UndoDone
  <2>4. page' = IF ~cause[s].editing THEN page
                ELSE IF place = NoPlace \/ files[place] = Absent THEN Closed
                ELSE Page(place, files[place])
    BY <1>6, <2>1, <2>2 DEF UndoDone
  <2>5. /\ page' = Closed \/ page'.place \in Places
        /\ page' \in [place : Places \cup {NoPlace}, saved : Texts \cup {Absent}]
    <3>1. Closed \in [place : Places \cup {NoPlace}, saved : Texts \cup {Absent}]
      BY DEF Closed, Page
    <3>2. place # NoPlace =>
             /\ Page(place, files[place]).place \in Places
             /\ Page(place, files[place]) \in
                   [place : Places \cup {NoPlace}, saved : Texts \cup {Absent}]
      BY FileTypes DEF Page
    <3> QED
      BY <2>4, <3>1, <3>2, StackTypes
  <2>6. seen' \in [kept : SUBSET Texts, unrecorded : BOOLEAN]
    <3>1. seen.kept \cup ({action.contents} \ {Absent}) \in SUBSET Texts
      BY SeenTypes DEF Actions
    <3>2. seen' = IF action.type \in {"saved", "deleted"}
                    THEN [seen EXCEPT !.kept =
                          seen.kept \cup ({action.contents} \ {Absent})]
                    ELSE seen
      BY <1>6, <2>1 DEF UndoDone
    <3> QED
      BY <3>1, <3>2, SeenTypes
  <2> QED
    BY <1>2, <1>3, <2>3, <2>5, <2>6, StackTypes, FinishTypes
<1>7. CASE Failed(s)
  <2>1. page' = page /\ seen' \in [kept : SUBSET Texts, unrecorded : BOOLEAN]
    BY <1>7, SeenTypes DEF Failed
  <2>2. /\ undo' \in Seq(Items) /\ Len(undo') <= MaxUndo
        /\ \A i \in 1..Len(undo') : WellFormed(undo'[i].action)
    <3>1. undo' = Pushed(undo, cause[s].item) \/ undo' = undo
      BY <1>7 DEF Failed
    <3> QED
      BY <1>1, <3>1, StackTypes, PushedFormed
  <2> QED
    BY <1>2, <1>3, <2>1, <2>2, StackTypes, FinishTypes
<1> QED
  BY <1>4, <1>5, <1>6, <1>7

LEMMA ClickTypes ==
    ASSUME TypeInv, NEW s \in Slots, NEW p \in Places, NEW store \in Stores,
           MoveEntryToStore(s, p, store) \/ DeleteEntry(s, p)
    PROVE  TypeInv'
<1>1. PICK to \in Places : to = <<store, p[2]>>
  BY DEF Places
<1>2. Operate /\ UNCHANGED <<files, undo, page>> /\ files \in Files
  BY DEF MoveEntryToStore, DeleteEntry, TypeInv, TypeOK
<1>3. CASE MoveEntryToStore(s, p, store)
  <2>1. PICK j : j = Plan("read", p, to, Absent)
    OBVIOUS
  <2>2. j \in Plans /\ j.take \in Places
    BY <2>1 DEF Plan, Plans, Phases
  <2>3. PICK it : it = Item(MoveEntryBetweenStores(p, to), files, files)
    OBVIOUS
  <2>4. it.action = MoveEntryBetweenStores(p, to)
    BY <2>3 DEF Item
  <2>5. it \in Items /\ WellFormed(it.action)
    BY <1>2, <2>3, <2>4, ActionTypes DEF Item, Items
  <2>6. Start(s, j, "move", it)
    BY <1>1, <1>3, <2>1, <2>3 DEF MoveEntryToStore
  <2>7. seen' = seen
    BY <1>3 DEF MoveEntryToStore
  <2> QED
    BY <1>2, <2>2, <2>5, <2>6, <2>7, SeenTypes, StackTypes, StartTypes
<1>4. CASE DeleteEntry(s, p)
  <2>1. PICK j : j = Plan("read", p, NoPlace, Absent)
    OBVIOUS
  <2>2. j \in Plans /\ j.take \in Places
    BY <2>1 DEF Plan, Plans, Phases
  <2>3. PICK it : it = Item(RestoreDeletedEntry(p, Absent), files, files)
    OBVIOUS
  <2>4. it.action = RestoreDeletedEntry(p, Absent)
    BY <2>3 DEF Item
  <2>5. it \in Items /\ WellFormed(it.action)
    BY <1>2, <2>3, <2>4, ActionTypes DEF Item, Items
  <2>6. Start(s, j, "delete", it)
    BY <1>4, <2>1, <2>3 DEF DeleteEntry
  <2>7. seen' \in [kept : SUBSET Texts, unrecorded : BOOLEAN]
    BY <1>4, SeenTypes DEF DeleteEntry
  <2> QED
    BY <1>2, <2>2, <2>5, <2>6, <2>7, StackTypes, StartTypes
<1> QED
  BY <1>3, <1>4

\* What an undo pops.
LEMMA TopTypes ==
    ASSUME TypeInv, undo # <<>>
    PROVE  /\ Top \in Items /\ Top.action \in Actions /\ WellFormed(Top.action)
           /\ Top.before \in Files /\ Top.after \in Files
           /\ SubSeq(undo, 1, Len(undo) - 1) \in Seq(Items)
           /\ Len(SubSeq(undo, 1, Len(undo) - 1)) <= MaxUndo
           /\ \A i \in 1..Len(SubSeq(undo, 1, Len(undo) - 1)) :
                 WellFormed(SubSeq(undo, 1, Len(undo) - 1)[i].action)
<1>1. PICK n : n = Len(undo)
  OBVIOUS
<1>2. PICK r : r = SubSeq(undo, 1, n - 1)
  OBVIOUS
<1>3. undo \in Seq(Items) /\ n <= MaxUndo /\ \A i \in 1..n : WellFormed(undo[i].action)
  BY <1>1, StackTypes
<1>4. n \in Nat \ {0} /\ undo[n] \in Items /\ r \in Seq(Items) /\ Len(r) = n - 1
  BY <1>1, <1>2, <1>3, PoppedFacts
<1>5. \A i \in 1..(n - 1) : r[i] = undo[i]
  BY <1>1, <1>2, <1>3, PoppedFacts
<1>6. n \in 1..n /\ n - 1 <= MaxUndo /\ \A i \in 1..(n - 1) : i \in 1..n
  BY <1>3, <1>4, Constants
<1>7. Top = undo[n] /\ WellFormed(Top.action) /\ Top \in Items
  BY <1>1, <1>3, <1>4, <1>6 DEF Top
<1>8. \A i \in 1..Len(r) : WellFormed(r[i].action)
  BY <1>3, <1>4, <1>5, <1>6
<1> QED
  BY <1>1, <1>2, <1>4, <1>6, <1>7, <1>8 DEF Items

LEMMA ContextUndoTypes ==
    ASSUME TypeInv, NEW s \in Slots, ContextUndo(s)
    PROVE  TypeInv'
<1>1. Operate /\ undo # <<>> /\ Top.action # Unavailable /\ UNCHANGED <<files, page>>
  BY DEF ContextUndo
<1>2. PICK it : it = Top
  OBVIOUS
<1>3. it \in Items /\ it.action \in Actions /\ WellFormed(it.action)
  BY <1>1, <1>2, TopTypes
<1>4. PICK j : j = UndoPlan(it.action)
  OBVIOUS
<1>5. j \in Plans /\ (j.phase \in {"read", "rename"} => j.take \in Places)
  BY <1>1, <1>2, <1>3, <1>4, PlanTypes
<1>6. Start(s, j, "undo", it)
  BY <1>2, <1>4 DEF ContextUndo
<1>7. undo' = SubSeq(undo, 1, Len(undo) - 1)
  BY DEF ContextUndo
<1>8. seen' \in [kept : SUBSET Texts, unrecorded : BOOLEAN]
  <2>1. PICK t : t = Top.after[Top.action.to]
    OBVIOUS
  <2>2. seen.kept \ {t} \in SUBSET Texts
    BY SeenTypes
  <2>3. seen' = [seen EXCEPT !.kept = seen.kept \ {t}] \/ seen' = seen
    BY <2>1 DEF ContextUndo
  <2> QED
    BY <2>2, <2>3, SeenTypes
<1> QED
  BY <1>1, <1>3, <1>5, <1>6, <1>7, <1>8, TopTypes, StartTypes

LEMMA RowTypes ==
    ASSUME TypeInv, NEW p \in Places, NEW label \in Labels, NEW readable \in BOOLEAN,
           RenameRow(p, label, readable) \/ RenameRowFails(p, label)
    PROVE  TypeInv'
<1>1. PICK to \in Places : to = <<p[1], label>>
  BY DEF Places
<1>2. UNCHANGED <<page, job, cause>>
  BY DEF RenameRow, RenameRowFails
<1>3. used' \in [ops : 0..MaxOps, failures : 0..MaxFailures]
  BY CountsKept DEF RenameRow, RenameRowFails
<1>4. files' = Swapped(p, to) /\ files \in Files /\ files' \in Files
  BY <1>1, FileTypes DEF RenameRow, RenameRowFails, TypeInv, TypeOK
<1>5. seen' \in [kept : SUBSET Texts, unrecorded : BOOLEAN]
  BY SeenTypes DEF RenameRow, RenameRowFails
<1>6. /\ undo' \in Seq(Items) /\ Len(undo') <= MaxUndo
      /\ \A i \in 1..Len(undo') : WellFormed(undo'[i].action)
  <2>1. PICK a : a = IF readable THEN RenameEntry(p, to) ELSE Unavailable
    OBVIOUS
  <2>2. a \in Actions /\ WellFormed(a)
    BY <2>1, ActionTypes
  <2>3. PICK it : it = Item(a, files, files')
    OBVIOUS
  <2>4. it \in Items /\ WellFormed(it.action)
    BY <1>4, <2>2, <2>3 DEF Item, Items
  <2>5. undo' = Pushed(undo, it) \/ undo' = undo
    BY <1>1, <2>1, <2>3 DEF RenameRow, RenameRowFails
  <2> QED
    BY <2>4, <2>5, StackTypes, PushedFormed
<1> QED
  BY <1>2, <1>3, <1>4, <1>5, <1>6, StackTypes, UserTypes

LEMMA PageTypes ==
    ASSUME TypeInv,
           \/ \E p \in Places : OpenPage(p) \/ NewPage(p)
           \/ ClosePage \/ UndoUnavailable
    PROVE  TypeInv'
<1>1. UNCHANGED <<files, job, cause, seen>> /\ files' \in Files
  BY DEF OpenPage, NewPage, ClosePage, UndoUnavailable, TypeInv, TypeOK
<1>2. used' \in [ops : 0..MaxOps, failures : 0..MaxFailures]
  <2>1. UNCHANGED used \/ Operate
    BY DEF OpenPage, NewPage, ClosePage, UndoUnavailable
  <2> QED
    BY <2>1, CountsKept
<1>3. /\ undo' \in Seq(Items) /\ Len(undo') <= MaxUndo
      /\ \A i \in 1..Len(undo') : WellFormed(undo'[i].action)
  <2>1. \/ undo' = undo
        \/ undo # <<>> /\ undo' = SubSeq(undo, 1, Len(undo) - 1)
    BY DEF OpenPage, NewPage, ClosePage, UndoUnavailable
  <2> QED
    BY <2>1, StackTypes, TopTypes
<1>4. /\ page' = Closed \/ page'.place \in Places
      /\ page' \in [place : Places \cup {NoPlace}, saved : Texts \cup {Absent}]
  <2>1. page' = page \/ page' = Closed
        \/ \E p \in Places : page' = Page(p, files[p]) \/ page' = Page(p, Absent)
    BY DEF OpenPage, NewPage, ClosePage, UndoUnavailable
  <2>2. ASSUME NEW p \in Places, NEW t \in Texts \cup {Absent}
        PROVE  /\ Page(p, t).place \in Places
               /\ Page(p, t) \in
                      [place : Places \cup {NoPlace}, saved : Texts \cup {Absent}]
    BY DEF Page
  <2>3. Closed \in [place : Places \cup {NoPlace}, saved : Texts \cup {Absent}]
    BY DEF Closed, Page
  <2> QED
    BY <2>1, <2>2, <2>3, StackTypes, FileTypes
<1> QED
  BY <1>1, <1>2, <1>3, <1>4, SeenTypes, UserTypes

LEMMA SavedFileTypes ==
    ASSUME TypeInv, NEW text \in Texts, NEW label \in Labels, page # Closed
    PROVE  /\ page.place \in Places /\ RenameTarget(label) \in Places
           /\ page.saved \in Texts \cup {Absent}
           /\ Written(text) \in Files /\ RenamedAfterSave(text, label) \in Files
<1>1. page.place \in Places /\ page.saved \in Texts \cup {Absent}
  BY StackTypes
<1>2. RenameTarget(label) \in Places
  BY <1>1 DEF RenameTarget, Places
<1>3. Written(text) \in Files
  BY FileTypes DEF Written
<1>4. RenamedAfterSave(text, label) \in Files
  BY <1>3 DEF RenamedAfterSave, Files
<1> QED
  BY <1>1, <1>2, <1>3, <1>4

LEMMA SaveTypes ==
    ASSUME TypeInv, NEW text \in Texts, NEW label \in Labels,
           \/ SavePage(text, label) \/ SavePageUnrenamed(text, label)
           \/ SavePageFails(text, label)
    PROVE  TypeInv'
<1>1. page # Closed
  BY DEF SavePage, SavePageUndoneAt, SavePageUnrenamed, SavePageFails, Saving
<1>2. PICK to \in Places : to = RenameTarget(label)
  BY <1>1, SavedFileTypes
<1>3. page.place \in Places /\ page.saved \in Texts \cup {Absent}
  BY <1>1, SavedFileTypes
<1>4. used' \in [ops : 0..MaxOps, failures : 0..MaxFailures]
  BY CountsKept DEF SavePage, SavePageUndoneAt, SavePageUnrenamed, SavePageFails
<1>5. files' = Written(text) \/ files' = RenamedAfterSave(text, label)
  BY DEF SavePage, SavePageUndoneAt, SavePageUnrenamed, SavePageFails
<1>6. files \in Files /\ files' \in Files
  BY <1>1, <1>5, SavedFileTypes DEF TypeInv, TypeOK
<1>7. UNCHANGED <<job, cause>>
  BY DEF SavePage, SavePageUndoneAt, SavePageUnrenamed, SavePageFails
<1>8. seen' \in [kept : SUBSET Texts, unrecorded : BOOLEAN]
  <2>1. (seen.kept \ {page.saved}) \cup {text} \in SUBSET Texts
        /\ seen.kept \ {page.saved} \in SUBSET Texts
    BY SeenTypes
  <2>2. \/ seen' = [seen EXCEPT !.kept = (seen.kept \ {page.saved}) \cup {text}]
        \/ seen' = [seen EXCEPT !.kept = seen.kept \ {page.saved}, !.unrecorded = TRUE]
    BY DEF SavePage, SavePageUndoneAt, SavePageUnrenamed, SavePageFails
  <2> QED
    BY <2>1, <2>2, SeenTypes
<1>9. /\ undo' \in Seq(Items) /\ Len(undo') <= MaxUndo
      /\ \A i \in 1..Len(undo') : WellFormed(undo'[i].action)
  <2>1. PICK a : a = RestoreSavedEntry(page.place, page.saved, to)
    OBVIOUS
  <2>2. a \in Actions /\ WellFormed(a)
    BY <1>3, <2>1, ActionTypes
  <2>3. PICK it : it = Item(a, files, files')
    OBVIOUS
  <2>4. it \in Items /\ WellFormed(it.action)
    BY <1>6, <2>2, <2>3 DEF Item, Items
  <2>5. undo' = Pushed(undo, it) \/ undo' = undo
    BY <1>2, <2>1, <2>3 DEF SavePage, SavePageUndoneAt, SavePageUnrenamed, SavePageFails
  <2> QED
    BY <2>4, <2>5, StackTypes, PushedFormed
<1>10. page' = page \/ page' = Closed
  BY DEF SavePage, SavePageUndoneAt, SavePageUnrenamed, SavePageFails
<1>11. /\ page' = Closed \/ page'.place \in Places
       /\ page' \in [place : Places \cup {NoPlace}, saved : Texts \cup {Absent}]
  BY <1>10, StackTypes DEF Closed, Page
<1> QED
  BY <1>4, <1>6, <1>7, <1>8, <1>9, <1>11, UserTypes

LEMMA UndoTypes == TypeInv /\ [Next]_vars => TypeInv'
<1> SUFFICES ASSUME TypeInv, [Next]_vars PROVE TypeInv'
  OBVIOUS
<1>1. CASE UNCHANGED vars
  BY <1>1 DEF vars, TypeInv, TypeOK, Formed, WellFormed
<1>2. ASSUME NEW s \in Slots, WorkerStep(s) PROVE TypeInv'
  BY <1>2, ReadTypes, FileStepTypes, AnswerTypes DEF WorkerStep
<1>3. ASSUME NEW s \in Slots, NEW p \in Places,
             DeleteEntry(s, p) \/ \E store \in Stores : MoveEntryToStore(s, p, store)
      PROVE  TypeInv'
  <2>1. PICK store \in Stores : TRUE
    BY DEF Places
  <2> QED
    BY <1>3, <2>1, ClickTypes
<1>4. ASSUME NEW s \in Slots, ContextUndo(s) PROVE TypeInv'
  BY <1>4, ContextUndoTypes
<1>5. ASSUME NEW p \in Places, NEW label \in Labels,
             \/ \E readable \in BOOLEAN : RenameRow(p, label, readable)
             \/ RenameRowFails(p, label)
      PROVE  TypeInv'
  <2>1. CASE \E readable \in BOOLEAN : RenameRow(p, label, readable)
    BY <2>1, RowTypes
  <2>2. CASE RenameRowFails(p, label)
    BY <2>2, RowTypes
  <2> QED
    BY <1>5, <2>1, <2>2
<1>6. ASSUME NEW text \in Texts, NEW label \in Labels,
             \/ SavePage(text, label) \/ SavePageUnrenamed(text, label)
             \/ SavePageFails(text, label)
      PROVE  TypeInv'
  BY <1>6, SaveTypes
<1>7. CASE UndoUnavailable \/ ClosePage \/ \E p \in Places : OpenPage(p) \/ NewPage(p)
  BY <1>7, PageTypes
<1> QED
  BY <1>1, <1>2, <1>3, <1>4, <1>5, <1>6, <1>7 DEF Next

-----------------------------------------------------------------------------
(* What holds of the files, the stack and the one worker when the user waits   *)
(* for its answer before the next click                                        *)

\* Every kept text is in a file.
Keeps(keep, f) == \A t \in keep : \E p \in Places : f[p] = t

\* Undoing an item's action turns the files after it into the files before it.
Reverts(it) ==
    LET a == it.action IN
    /\ a.type \in Undoable
    /\ (a.type = "deleted") =>
          /\ a.contents # Absent /\ it.after[a.from] = Absent
          /\ it.before = [it.after EXCEPT ![a.from] = a.contents]
    /\ (a.type \in {"rename", "move"}) =>
          /\ a.from # a.to /\ it.after[a.from] = Absent
          /\ it.before = [it.after EXCEPT ![a.from] = it.after[a.to], ![a.to] = Absent]
    /\ (a.type = "saved" /\ a.contents = Absent) =>
          it.before = [it.after EXCEPT ![a.to] = Absent]
    /\ (a.type = "saved" /\ a.contents # Absent /\ a.from = a.to) =>
          it.before = [it.after EXCEPT ![a.from] = a.contents]
    /\ (a.type = "saved" /\ a.contents # Absent /\ a.from # a.to) =>
          /\ it.after[a.from] = Absent
          /\ it.before = [it.after EXCEPT ![a.from] = a.contents, ![a.to] = Absent]

\* The stack leads back from these files, one change after another.
Stacked(stack, now) ==
    /\ (stack # <<>>) => stack[Len(stack)].after = now
    /\ \A i \in 2..Len(stack) : stack[i].before = stack[i - 1].after
    /\ \A i \in 1..Len(stack) : Reverts(stack[i])

\* The entry page has the text of its file, if it was opened or saved with one.
Shows(pg, now) == (pg # Closed /\ pg.saved # Absent) => now[pg.place] = pg.saved

\* The files after the write, and after the removal, of what a worker has left.
Put(j, base) == IF j.put = NoPlace THEN base ELSE [base EXCEPT ![j.put] = j.contents]
Final(j, base) ==
    IF j.take = NoPlace THEN Put(j, base) ELSE [Put(j, base) EXCEPT ![j.take] = Absent]

\* It writes over nothing that is kept, and removes what is kept only once it
\* is elsewhere.
Careful(j, base, keep) ==
    /\ (j.phase \in {"check", "write", "rename", "rollback"}) => j.put \in Places
    /\ (j.phase \in {"read", "remove", "rename"}) => j.take \in Places
    /\ (j.phase \in {"read", "check", "write", "remove", "rollback", "rename"}) =>
           j.take # j.put
    /\ (j.phase \in {"write", "remove", "rollback"} /\ j.put # NoPlace) =>
           base[j.put] \notin keep
    /\ (j.phase \in {"read", "remove"} /\ j.put = NoPlace) => base[j.take] \notin keep
    /\ (j.phase \in {"check", "write", "remove"} /\ j.take # NoPlace /\ j.put # NoPlace) =>
          (base[j.take] \notin keep \/ j.contents = base[j.take])

\* If nothing fails it ends with the files that the click meant.
Heads(j, base, goal) ==
    /\ (j.phase \in {"write", "remove"}) => Final(j, base) = goal
    /\ (j.phase = "check" /\ base[j.put] = Absent) => Final(j, base) = goal
    /\ (j.phase = "read" /\ j.put = NoPlace) => Final(j, base) = goal
    /\ (j.phase = "read" /\ j.put # NoPlace /\ base[j.put] = Absent) =>
          [base EXCEPT ![j.put] = base[j.take], ![j.take] = Absent] = goal
    /\ (j.phase = "rename" /\ base[j.put] = Absent) =>
          [base EXCEPT ![j.take] = Absent, ![j.put] = base[j.take]] = goal

\* What it has done so far.
Reached(j, base, goal, f) ==
    /\ (j.phase \in {"read", "check", "write", "rename"}) => f = base
    /\ (j.phase \in {"remove", "rollback"}) => f = Put(j, base)
    /\ (j.phase = "done") => f = goal

Running(j, base, goal, f, keep) ==
    /\ Careful(j, base, keep) /\ Heads(j, base, goal)
    /\ Reached(j, base, goal, f) /\ Keeps(keep, f)

\* A row knows how to undo what it does before it is done.
RowKnows(j, c) ==
    /\ (c.kind # "undo") => j.phase # "rename"
    /\ (c.kind # "delete" /\ j.phase = "read") => j.put # NoPlace
    /\ (c.kind = "move") =>
          /\ c.item.action = MoveEntryBetweenStores(j.take, j.put)
          /\ j.take \in Places /\ j.put \in Places /\ j.take # j.put
          /\ (j.phase \in {"write", "remove", "rollback", "done"}) =>
                c.item.before[j.put] = Absent
    /\ (c.kind = "delete") =>
          /\ j.take \in Places /\ j.put = NoPlace /\ c.item.before[j.take] # Absent
          /\ (j.phase \notin {"read", "failed"}) =>
                c.item.action \in
                    {Unavailable, RestoreDeletedEntry(j.take, c.item.before[j.take])}

\* The files that a click on undo, move or delete means to lead to.
Goal(j, c) ==
    IF c.kind = "undo" THEN c.item.before
    ELSE IF c.kind = "move"
    THEN [c.item.before EXCEPT ![j.put] = c.item.before[j.take], ![j.take] = Absent]
    ELSE [c.item.before EXCEPT ![j.take] = Absent]

\* A job: the stack leads back from the files it began with, it heads for its goal,
\* and its item undoes what it will have done.
JobInv(j, c, stack, pg, f, keep) ==
    /\ c.kind \in {"delete", "move", "undo"}
    /\ Stacked(stack, c.item.before)
    /\ (c.kind = "undo") => Reverts(c.item)
    /\ (c.kind # "undo") => pg = Closed
    /\ c.editing = (pg # Closed)
    /\ Shows(pg, Clicked(c)) /\ Keeps(keep, Clicked(c))
    /\ RowKnows(j, c)
    /\ Running(j, Clicked(c), Goal(j, c), f, keep)

\* A user who waits starts no second one.
OneJob == \A r, s \in Slots : job[r] # Idle /\ job[s] # Idle => r = s

UndoInv ==
    /\ OneJob
    /\ ~seen.unrecorded =>
          /\ Keeps(seen.kept, files)
          /\ Quiet => Stacked(undo, files) /\ Shows(page, files)
          /\ \A s \in Slots : job[s] # Idle =>
                JobInv(job[s], cause[s], undo, page, files, seen.kept)

\* The two invariants follow.
LEMMA UndoInvSuffices ==
    ASSUME UndoInv PROVE EntriesSurvive /\ UndoReturnsTheFiles
<1>1. EntriesSurvive
  BY DEF UndoInv, Keeps, EntriesSurvive
<1>2. UndoReturnsTheFiles
  BY DEF UndoInv, Stacked, UndoReturnsTheFiles, Top
<1> QED
  BY <1>1, <1>2

-----------------------------------------------------------------------------
(* What a worker's step does to the files *)

LEMMA QuitStep ==
    ASSUME NEW j, NEW k, NEW base, NEW goal, NEW f, NEW keep,
           k.phase = "failed", Keeps(keep, f)
    PROVE  Running(k, base, goal, f, keep)
BY DEF Running, Careful, Heads, Reached

LEMMA PlanFields ==
    ASSUME NEW j \in Plans, NEW phase \in Phases, NEW text \in Texts \cup {Absent}
    PROVE  /\ [j EXCEPT !.phase = phase] \in Plans
           /\ [j EXCEPT !.phase = phase].phase = phase
           /\ [j EXCEPT !.phase = phase].take = j.take
           /\ [j EXCEPT !.phase = phase].put = j.put
           /\ [j EXCEPT !.phase = phase].contents = j.contents
           /\ [j EXCEPT !.contents = text, !.phase = phase] \in Plans
           /\ [j EXCEPT !.contents = text, !.phase = phase].phase = phase
           /\ [j EXCEPT !.contents = text, !.phase = phase].take = j.take
           /\ [j EXCEPT !.contents = text, !.phase = phase].put = j.put
           /\ [j EXCEPT !.contents = text, !.phase = phase].contents = text
BY DEF Plans

LEMMA SamePut ==
    ASSUME NEW j, NEW k, NEW base, k.take = j.take, k.put = j.put, k.contents = j.contents
    PROVE  Put(k, base) = Put(j, base) /\ Final(k, base) = Final(j, base)
BY DEF Put, Final

LEMMA CheckStep ==
    ASSUME NEW j \in Plans, NEW k, NEW base \in Files, NEW goal, NEW f, NEW keep \in
           SUBSET Texts,
           Running(j, base, goal, f, keep), j.phase = "check", f[j.put] = Absent,
           k.phase = "write", k.take = j.take, k.put = j.put, k.contents = j.contents
    PROVE  Running(k, base, goal, f, keep)
<1>1. /\ j.put \in Places /\ f = base /\ base[j.put] = Absent /\ j.take # j.put
      /\ Final(j, base) = goal /\ Keeps(keep, f)
      /\ (j.take # NoPlace /\ j.put # NoPlace) =>
            (base[j.take] \notin keep \/ j.contents = base[j.take])
  BY DEF Running, Careful, Heads, Reached
<1>2. Absent \notin keep
  BY Constants
<1>3. Careful(k, base, keep)
  BY <1>1, <1>2 DEF Careful
<1>4. Heads(k, base, goal) /\ Reached(k, base, goal, f)
  BY <1>1, SamePut DEF Heads, Reached
<1> QED
  BY <1>1, <1>3, <1>4 DEF Running

\* A write keeps what is kept, whether the worker goes on or not.
LEMMA WriteKeeps ==
    ASSUME NEW j \in Plans, NEW base \in Files, NEW goal, NEW f, NEW keep,
           Running(j, base, goal, f, keep), j.phase = "write"
    PROVE  /\ f = base /\ Put(j, base) = [f EXCEPT ![j.put] = j.contents]
           /\ Keeps(keep, Put(j, base)) /\ Put(j, base) \in Files
<1>1. j.put \in Places /\ f = base /\ base[j.put] \notin keep /\ Keeps(keep, f)
      /\ j.contents \in Texts \cup {Absent} /\ j.put # NoPlace
  BY Constants DEF Running, Careful, Reached, Plans
<1>2. Put(j, base) = [f EXCEPT ![j.put] = j.contents]
  BY <1>1 DEF Put
<1>3. \A p \in Places : p # j.put => Put(j, base)[p] = f[p]
  BY <1>1, <1>2 DEF Files
<1>4. Keeps(keep, Put(j, base))
  BY <1>1, <1>3 DEF Keeps
<1> QED
  BY <1>1, <1>2, <1>4 DEF Files

LEMMA WriteStep ==
    ASSUME NEW j \in Plans, NEW k, NEW base \in Files, NEW goal, NEW f, NEW keep,
           Running(j, base, goal, f, keep), j.phase = "write",
           k.phase = IF j.take = NoPlace THEN "done" ELSE "remove",
           k.take = j.take, k.put = j.put, k.contents = j.contents
    PROVE  Running(k, base, goal, Put(j, base), keep)
<1>1. /\ j.take # j.put /\ base[j.put] \notin keep /\ Final(j, base) = goal
      /\ j.put \in Places
      /\ (j.take # NoPlace /\ j.put # NoPlace) =>
            (base[j.take] \notin keep \/ j.contents = base[j.take])
      /\ j.take \in Places \cup {NoPlace} /\ j.put # NoPlace
  BY Constants DEF Running, Careful, Heads, Plans
<1>2. Keeps(keep, Put(j, base))
  BY WriteKeeps
<1>3. Careful(k, base, keep)
  BY <1>1 DEF Careful
<1>4. Heads(k, base, goal)
  BY <1>1, SamePut DEF Heads
<1>5. Reached(k, base, goal, Put(j, base))
  <2>1. Put(k, base) = Put(j, base)
    BY SamePut
  <2>2. j.take = NoPlace => Put(j, base) = goal
    BY <1>1 DEF Final
  <2> QED
    BY <2>1, <2>2 DEF Reached
<1> QED
  BY <1>2, <1>3, <1>4, <1>5 DEF Running

LEMMA RemoveKeeps ==
    ASSUME NEW j \in Plans, NEW base \in Files, NEW goal, NEW f \in Files,
           NEW keep \in SUBSET Texts,
           Running(j, base, goal, f, keep), j.phase = "remove"
    PROVE  /\ f = Put(j, base) /\ Final(j, base) = [f EXCEPT ![j.take] = Absent]
           /\ Keeps(keep, Final(j, base)) /\ Final(j, base) = goal
<1>1. /\ j.take \in Places /\ f = Put(j, base) /\ Keeps(keep, f) /\ Final(j, base) = goal
      /\ j.take # j.put /\ j.put \in Places \cup {NoPlace} /\ j.take # NoPlace
      /\ (j.put = NoPlace) => base[j.take] \notin keep
      /\ (j.take # NoPlace /\ j.put # NoPlace) =>
            (base[j.take] \notin keep \/ j.contents = base[j.take])
  BY Constants DEF Running, Careful, Reached, Heads, Plans
<1>2. Final(j, base) = [f EXCEPT ![j.take] = Absent]
  BY <1>1 DEF Final
<1>3. PICK g \in Files : g = [f EXCEPT ![j.take] = Absent]
  BY DEF Files
<1>4. \A p \in Places : p # j.take => g[p] = f[p]
  BY <1>3 DEF Files
<1>5. f[j.take] = base[j.take]
  BY <1>1 DEF Put, Files
<1>6. ASSUME NEW t \in keep PROVE \E p \in Places : g[p] = t
  <2>1. PICK p \in Places : f[p] = t
    BY <1>1 DEF Keeps
  <2>2. CASE p = j.take
    <3>1. j.put \in Places /\ j.contents = t
      BY <1>1, <1>5, <2>1, <2>2
    <3>2. f[j.put] = t
      BY <1>1, <3>1, Constants DEF Put, Files
    <3> QED
      BY <1>1, <1>4, <3>1, <3>2
  <2>3. CASE p # j.take
    BY <1>4, <2>1, <2>3
  <2> QED
    BY <2>2, <2>3
<1> QED
  BY <1>1, <1>2, <1>3, <1>6 DEF Keeps

\* A removal that failed to find the file, or to remove it, is rolled back.
LEMMA RemoveFailedStep ==
    ASSUME NEW j \in Plans, NEW k, NEW base \in Files, NEW goal, NEW f, NEW keep,
           Running(j, base, goal, f, keep), j.phase = "remove",
           k.phase = IF j.put = NoPlace THEN "failed" ELSE "rollback",
           k.take = j.take, k.put = j.put, k.contents = j.contents
    PROVE  Running(k, base, goal, f, keep)
<1>1. /\ j.take \in Places /\ f = Put(j, base) /\ Keeps(keep, f)
      /\ j.take # j.put /\ j.put \in Places \cup {NoPlace}
      /\ (j.put # NoPlace) => base[j.put] \notin keep
  BY DEF Running, Careful, Reached, Heads, Plans
<1>2. Careful(k, base, keep)
  BY <1>1 DEF Careful
<1>3. Heads(k, base, goal) /\ Reached(k, base, goal, f)
  BY <1>1, SamePut DEF Heads, Reached
<1> QED
  BY <1>1, <1>2, <1>3 DEF Running

LEMMA RollbackKeeps ==
    ASSUME NEW j \in Plans, NEW base \in Files, NEW goal, NEW f \in Files,
           NEW keep \in SUBSET Texts, Keeps(keep, base),
           Running(j, base, goal, f, keep), j.phase = "rollback"
    PROVE  Keeps(keep, [f EXCEPT ![j.put] = Absent])
<1>1. j.put \in Places /\ f = Put(j, base) /\ base[j.put] \notin keep /\ j.put # NoPlace
  BY Constants DEF Running, Careful, Reached
<1>2. PICK g : g = [f EXCEPT ![j.put] = Absent]
  OBVIOUS
<1>3. \A p \in Places : p # j.put => g[p] = base[p]
  BY <1>1, <1>2 DEF Put, Files
<1>4. Keeps(keep, g)
  BY <1>1, <1>3 DEF Keeps
<1> QED
  BY <1>2, <1>4

LEMMA SwapKeeps ==
    ASSUME NEW from \in Places, NEW to \in Places, NEW f, NEW keep \in SUBSET Texts,
           NEW g, f[to] = Absent, Keeps(keep, f), g[to] = f[from],
           \A p \in Places : (p # from /\ p # to) => g[p] = f[p]
    PROVE  Keeps(keep, g)
<1>1. ASSUME NEW t \in keep PROVE \E p \in Places : g[p] = t
  <2>1. PICK p \in Places : f[p] = t
    BY DEF Keeps
  <2>2. p # to
    BY <2>1, Constants
  <2> QED
    BY <2>1, <2>2
<1> QED
  BY <1>1 DEF Keeps

LEMMA ReadStep ==
    ASSUME NEW j \in Plans, NEW k, NEW base \in Files, NEW goal, NEW f, NEW keep \in
           SUBSET Texts,
           Running(j, base, goal, f, keep), j.phase = "read", base[j.take] # Absent,
           k.phase = IF j.put = NoPlace THEN "remove" ELSE "check",
           k.take = j.take, k.put = j.put,
           j.put # NoPlace => k.contents = base[j.take]
    PROVE  Running(k, base, goal, f, keep)
<1>1. /\ j.take \in Places /\ f = base /\ Keeps(keep, f) /\ j.take # NoPlace
      /\ j.take # j.put /\ j.put \in Places \cup {NoPlace}
      /\ (j.put = NoPlace) => (base[j.take] \notin keep /\ Final(j, base) = goal)
      /\ (j.put # NoPlace /\ base[j.put] = Absent) =>
            [base EXCEPT ![j.put] = base[j.take], ![j.take] = Absent] = goal
  BY Constants DEF Running, Careful, Reached, Heads, Plans
<1>2. Careful(k, base, keep)
  BY <1>1 DEF Careful
<1>3. CASE j.put = NoPlace
  <2>1. Put(k, base) = base /\ Final(k, base) = Final(j, base)
    BY <1>3 DEF Put, Final
  <2> QED
    BY <1>1, <1>2, <1>3, <2>1 DEF Running, Heads, Reached
<1>4. CASE j.put # NoPlace
  <2>0. Put(k, base) = [base EXCEPT ![j.put] = base[j.take]]
    BY <1>4 DEF Put
  <2>1. Final(k, base) = [base EXCEPT ![j.put] = base[j.take], ![j.take] = Absent]
    BY <1>1, <1>4, <2>0 DEF Final
  <2> QED
    BY <1>1, <1>2, <1>4, <2>1 DEF Running, Heads, Reached
<1> QED
  BY <1>3, <1>4

-----------------------------------------------------------------------------
(* Every step of the worker keeps the invariant *)

LEMMA JobAdvances ==
    ASSUME NEW j, NEW c, NEW k, NEW d, NEW stack, NEW pg, NEW f, NEW g, NEW keep,
           JobInv(j, c, stack, pg, f, keep), Running(k, Clicked(c), Goal(j, c), g, keep),
           k.take = j.take, k.put = j.put, d.kind = c.kind,
           d.item.before = c.item.before, d.item.after = c.item.after,
           d.editing = c.editing, c.kind = "undo" => d = c, RowKnows(k, d)
    PROVE  JobInv(k, d, stack, pg, g, keep)
<1>1. Clicked(d) = Clicked(c)
  BY DEF Clicked
<1>2. Goal(k, d) = Goal(j, c)
  BY DEF Goal
<1> QED
  BY <1>1, <1>2 DEF JobInv

\* What a row knows it still knows once it has written.
LEMMA RowStillKnows ==
    ASSUME NEW j, NEW k, NEW c, RowKnows(j, c), k.take = j.take, k.put = j.put,
           \/ k.phase = "failed"
           \/ /\ j.phase \in {"write", "remove", "rollback"}
              /\ k.phase \notin {"read", "rename"}
    PROVE  RowKnows(k, c)
BY DEF RowKnows

LEMMA WorkerInv ==
    ASSUME TypeInv, UndoInv, NEW s \in Slots, job[s] # Idle, UNCHANGED <<undo, page>>,
           seen'.kept = seen.kept, ~seen'.unrecorded => ~seen.unrecorded,
           NEW j, j # Idle, NEW c,
           job' = [job EXCEPT ![s] = j], cause' = [cause EXCEPT ![s] = c],
           /\ ~seen'.unrecorded
           /\ JobInv(job[s], cause[s], undo, page, files, seen.kept)
           => JobInv(j, c, undo, page, files', seen.kept)
    PROVE  UndoInv'
<1>1. /\ \A r \in Slots : job'[r] = (IF r = s THEN j ELSE job[r])
      /\ \A r \in Slots : cause'[r] = (IF r = s THEN c ELSE cause[r])
  BY DEF TypeInv, TypeOK
<1>2. \A r \in Slots : job[r] # Idle => r = s
  BY DEF UndoInv, OneJob
<1>3. OneJob'
  BY <1>1, <1>2 DEF OneJob
<1>4. ~Quiet'
  BY <1>1 DEF Quiet
<1>5. ASSUME ~seen'.unrecorded
      PROVE  /\ Keeps(seen'.kept, files')
             /\ \A r \in Slots : job'[r] # Idle =>
                   JobInv(job'[r], cause'[r], undo', page', files', seen'.kept)
  <2>1. JobInv(job[s], cause[s], undo, page, files, seen.kept)
    BY <1>5 DEF UndoInv
  <2>2. JobInv(j, c, undo, page, files', seen.kept)
    BY <1>5, <2>1
  <2>3. Keeps(seen.kept, files')
    BY <2>2 DEF JobInv, Running
  <2> QED
    BY <1>1, <1>2, <2>2, <2>3
<1> QED
  BY <1>3, <1>4, <1>5 DEF UndoInv

\* The worker goes on, or gives up.
LEMMA AdvanceInv ==
    ASSUME TypeInv, UndoInv, NEW s \in Slots, job[s].phase # "idle",
           NEW phase \in Phases \ {"idle", "read", "rename"}, Advance(s, phase),
           UNCHANGED <<undo, page, cause>>, NEW k, k = [job[s] EXCEPT !.phase = phase],
           seen'.kept = seen.kept, ~seen'.unrecorded => ~seen.unrecorded,
           /\ ~seen'.unrecorded
           /\ JobInv(job[s], cause[s], undo, page, files, seen.kept)
           => /\ Running(k, Clicked(cause[s]), Goal(job[s], cause[s]), files', seen.kept)
              /\ RowKnows(k, cause[s])
    PROVE  UndoInv'
<1>1. job[s] \in Plans /\ job[s] # Idle
  BY WorkTypes DEF Idle, Plan
<1>2. PICK j \in Plans : j = job[s]
  BY <1>1
<1>3. k.phase = phase /\ k.take = j.take /\ k.put = j.put
  BY <1>2 DEF Plans
<1>4. k # Idle
  BY <1>3 DEF Idle, Plan
<1>5. PICK c : c = cause[s]
  OBVIOUS
<1>6. job' = [job EXCEPT ![s] = k] /\ cause' = [cause EXCEPT ![s] = c]
  BY <1>5 DEF Advance, TypeInv, TypeOK
<1>7. ASSUME ~seen'.unrecorded, JobInv(j, c, undo, page, files, seen.kept)
      PROVE  JobInv(k, c, undo, page, files', seen.kept)
  <2>1. Running(k, Clicked(c), Goal(j, c), files', seen.kept) /\ RowKnows(k, c)
    BY <1>2, <1>5, <1>7
  <2>2. PICK g : g = files'
    OBVIOUS
  <2>3. PICK keep : keep = seen.kept
    OBVIOUS
  <2>4. Running(k, Clicked(c), Goal(j, c), g, keep) /\ JobInv(j, c, undo, page, files, keep)
    BY <1>7, <2>1, <2>2, <2>3
  <2>5. JobInv(k, c, undo, page, g, keep)
    BY ONLY <1>3, <2>1, <2>4, JobAdvances
  <2> QED
    BY <2>2, <2>3, <2>5
<1> QED
  BY <1>1, <1>2, <1>4, <1>5, <1>6, <1>7, WorkerInv

LEMMA ReadInv ==
    ASSUME TypeInv, UndoInv, NEW s \in Slots, ReadPasswordEntry(s) \/ ReadFails(s)
    PROVE  UndoInv'
<1>1. PICK j \in Plans : j = job[s]
  BY WorkTypes
<1>2. PICK c \in Causes : c = cause[s]
  BY WorkTypes
<1>3. /\ j.phase = "read" /\ job[s] # Idle /\ j.take \in Places
      /\ j.put \in Places \cup {NoPlace}
  BY <1>1, WorkTypes DEF ReadPasswordEntry, ReadFails, Idle, Plan, Plans
<1>4. /\ c.item \in Items /\ Clicked(c) \in Files /\ files \in Files
      /\ seen.kept \in SUBSET Texts
  BY <1>2, SeenTypes DEF Causes, Items, Clicked, TypeInv, TypeOK
<1>5. PICK text \in Texts \cup {Absent} : text = files[j.take]
  BY <1>3, FileTypes
<1>6. UNCHANGED <<undo, page, files, seen>>
  BY DEF ReadPasswordEntry, ReadFails
<1>7. CASE ReadFails(s) /\ c.kind # "delete"
  <2>1. PICK k : k = [j EXCEPT !.phase = "failed"]
    OBVIOUS
  <2>2. "failed" \in Phases \ {"idle", "read", "rename"}
    BY DEF Phases
  <2>3. k.phase = "failed" /\ k.take = j.take /\ k.put = j.put
    BY <2>1 DEF Plans
  <2>4. Advance(s, "failed") /\ UNCHANGED cause
    BY <1>2, <1>7 DEF ReadFails
  <2>5. ASSUME JobInv(j, c, undo, page, files, seen.kept)
        PROVE  Running(k, Clicked(c), Goal(j, c), files, seen.kept) /\ RowKnows(k, c)
    <3>1. Keeps(seen.kept, files) /\ RowKnows(j, c)
      BY <2>5 DEF JobInv, Running
    <3> QED
      BY <2>3, <3>1, QuitStep, RowStillKnows
  <2> QED
    BY <1>1, <1>2, <1>3, <1>6, <2>1, <2>2, <2>4, <2>5, AdvanceInv
<1>8. CASE ReadPasswordEntry(s) \/ (ReadFails(s) /\ c.kind = "delete")
  <2>1. PICK phase \in Phases :
           /\ phase # "idle"
           /\ phase = IF ReadFails(s) /\ c.kind = "delete" /\ text # Absent THEN "remove"
                      ELSE IF text = Absent THEN "failed"
                      ELSE IF c.kind = "delete" THEN "remove" ELSE "check"
    BY DEF Phases
  <2>2. PICK new \in {text, j.contents} :
           new = IF ReadPasswordEntry(s) THEN text ELSE j.contents
    OBVIOUS
  <2>3. PICK k : k = [j EXCEPT !.contents = new, !.phase = phase]
    OBVIOUS
  <2>4. /\ k.phase = phase /\ k.take = j.take /\ k.put = j.put /\ k.contents = new
        /\ k # Idle
    BY <2>1, <2>3 DEF Plans, Idle, Plan
  <2>5. PICK a : a = IF ReadPasswordEntry(s) THEN RestoreDeletedEntry(j.take, text)
                     ELSE Unavailable
    OBVIOUS
  <2>6. PICK d : d = IF c.kind = "delete" THEN [c EXCEPT !.item.action = a] ELSE c
    OBVIOUS
  <2>7. /\ d.kind = c.kind /\ d.item.before = c.item.before /\ d.item.after = c.item.after
        /\ d.editing = c.editing /\ (c.kind # "delete" => d = c)
        /\ (c.kind = "delete" => d.item.action = a)
    <3>1. CASE c.kind = "delete"
      <4>1. PICK i : i = [c.item EXCEPT !.action = a]
        OBVIOUS
      <4>2. i.before = c.item.before /\ i.after = c.item.after /\ i.action = a
        BY <1>4, <4>1 DEF Items
      <4>3. d = [c EXCEPT !.item = i]
        BY <2>6, <3>1, <4>1
      <4>4. d.kind = c.kind /\ d.item = i /\ d.editing = c.editing
        BY <4>3 DEF Causes
      <4> QED
        BY <3>1, <4>2, <4>4
    <3>2. CASE c.kind # "delete"
      BY <2>6, <3>2
    <3> QED
      BY <3>1, <3>2
  <2>8. job' = [job EXCEPT ![s] = k]
    <3>1. CASE ReadPasswordEntry(s)
      <4>1. phase = IF files[job[s].take] = Absent THEN "failed"
                    ELSE IF cause[s].kind = "delete" THEN "remove" ELSE "check"
        BY <1>1, <1>2, <1>5, <2>1
      <4>2. new = files[job[s].take]
        BY <1>1, <1>5, <2>2, <3>1
      <4> QED
        BY <1>1, <2>3, <3>1, <4>1, <4>2 DEF ReadPasswordEntry, TypeInv, TypeOK
    <3>2. CASE ~ReadPasswordEntry(s)
      <4>1. Advance(s, "remove") /\ text # Absent
        BY <1>1, <1>2, <1>5, <1>8, <3>2 DEF ReadFails
      <4>2. k = [j EXCEPT !.phase = "remove"]
        BY <1>8, <2>1, <2>2, <2>3, <3>2, <4>1 DEF Plans
      <4> QED
        BY <1>1, <4>1, <4>2 DEF Advance
    <3> QED
      BY <3>1, <3>2
  <2>9. cause' = [cause EXCEPT ![s] = d]
    <3>1. CASE ReadPasswordEntry(s) /\ c.kind = "delete"
      BY <1>1, <1>2, <1>5, <2>5, <2>6, <3>1 DEF ReadPasswordEntry, TypeInv, TypeOK
    <3>2. CASE ReadPasswordEntry(s) /\ c.kind # "delete"
      BY <1>1, <1>2, <2>6, <3>2 DEF ReadPasswordEntry, TypeInv, TypeOK
    <3>3. CASE ~ReadPasswordEntry(s)
      BY <1>2, <1>8, <2>5, <2>6, <3>3 DEF ReadFails, TypeInv, TypeOK
    <3> QED
      BY <3>1, <3>2, <3>3
  <2>10. ASSUME JobInv(j, c, undo, page, files, seen.kept)
         PROVE  JobInv(k, d, undo, page, files, seen.kept)
    <3>1. /\ Running(j, Clicked(c), Goal(j, c), files, seen.kept) /\ RowKnows(j, c)
          /\ c.kind \in {"delete", "move", "undo"}
      BY <2>10 DEF JobInv
    <3>2. files = Clicked(c) /\ Keeps(seen.kept, files)
      BY <1>3, <3>1 DEF Running, Reached
    <3>3. CASE phase = "failed"
      <4>1. ~(ReadFails(s) /\ c.kind = "delete") \/ text = Absent
        BY <2>1, <3>3
      <4>2. text = Absent
        BY <2>1, <3>3
      <4>3. c.kind # "delete"
        <5>1. c.kind = "delete" => c.item.before[j.take] # Absent
          BY <3>1 DEF RowKnows
        <5> QED
          BY <1>5, <3>2, <4>2, <5>1 DEF Clicked
      <4>4. RowKnows(k, d)
        BY <2>4, <2>7, <3>1, <3>3, <4>3, RowStillKnows
      <4>5. Running(k, Clicked(c), Goal(j, c), files, seen.kept)
        BY <2>4, <3>2, <3>3, QuitStep
      <4> QED
        BY <2>4, <2>7, <2>10, <4>4, <4>5, JobAdvances
    <3>4. CASE phase # "failed"
      <4>1. text # Absent /\ phase = IF c.kind = "delete" THEN "remove" ELSE "check"
        BY <2>1, <3>4
      <4>2. c.kind = "delete" <=> j.put = NoPlace
        BY <1>3, <3>1 DEF RowKnows
      <4>3. j.put # NoPlace => new = text
        BY <1>8, <2>2, <4>2
      <4>4. Running(k, Clicked(c), Goal(j, c), files, seen.kept)
        BY <1>3, <1>4, <1>5, <2>4, <3>1, <3>2, <4>1, <4>2, <4>3, ReadStep
      <4>5. RowKnows(k, d)
        <5>1. CASE c.kind = "delete"
          <6>1. text = c.item.before[j.take]
            BY <1>5, <3>2, <5>1 DEF Clicked
          <6>2. a \in {Unavailable, RestoreDeletedEntry(j.take, c.item.before[j.take])}
            BY <2>5, <6>1
          <6> QED
            BY <2>4, <2>7, <3>1, <4>1, <5>1, <6>2 DEF RowKnows
        <5>2. CASE c.kind # "delete"
          BY <2>4, <2>7, <3>1, <4>1, <5>2 DEF RowKnows
        <5> QED
          BY <5>1, <5>2
      <4> QED
        BY <2>4, <2>7, <2>10, <4>4, <4>5, JobAdvances
    <3> QED
      BY <3>3, <3>4
  <2> QED
    BY <1>1, <1>2, <1>3, <1>6, <2>4, <2>8, <2>9, <2>10, WorkerInv
<1> QED
  BY <1>7, <1>8

\* What is known of the worker's plan and of the files it began with.
LEMMA WorkerFacts ==
    ASSUME TypeInv, NEW s \in Slots
    PROVE  /\ job[s] \in Plans /\ Clicked(cause[s]) \in Files /\ files \in Files
           /\ seen.kept \in SUBSET Texts
           /\ cause[s].item.before \in Files /\ cause[s].item.after \in Files
BY WorkTypes, SeenTypes DEF Clicked, TypeInv, TypeOK

LEMMA JobFacts ==
    ASSUME NEW j, NEW c, NEW stack, NEW pg, NEW f, NEW keep,
           JobInv(j, c, stack, pg, f, keep)
    PROVE  /\ Running(j, Clicked(c), Goal(j, c), f, keep) /\ RowKnows(j, c)
           /\ Keeps(keep, f) /\ Keeps(keep, Clicked(c))
BY DEF JobInv, Running

LEMMA CheckInv ==
    ASSUME TypeInv, UndoInv, NEW s \in Slots, CheckEntryIsNew(s)
    PROVE  UndoInv'
<1>1. PICK j \in Plans : j = job[s]
  BY WorkTypes
<1>2. PICK c : c = cause[s]
  OBVIOUS
<1>3. PICK phase \in Phases \ {"idle", "read", "rename"} :
         phase = IF files[j.put] = Absent THEN "write" ELSE "failed"
  BY DEF Phases
<1>4. PICK k : k = [j EXCEPT !.phase = phase]
  OBVIOUS
<1>5. /\ k.phase = phase /\ k.take = j.take /\ k.put = j.put /\ k.contents = j.contents
      /\ j.phase = "check" /\ Clicked(c) \in Files /\ seen.kept \in SUBSET Texts
  BY <1>1, <1>2, <1>4, WorkerFacts DEF CheckEntryIsNew, Plans
<1>6. Advance(s, phase) /\ UNCHANGED <<files, undo, page, cause, seen>>
  BY <1>1, <1>3 DEF CheckEntryIsNew
<1>7. ASSUME JobInv(j, c, undo, page, files, seen.kept)
      PROVE  Running(k, Clicked(c), Goal(j, c), files, seen.kept) /\ RowKnows(k, c)
  <2>1. /\ Running(j, Clicked(c), Goal(j, c), files, seen.kept) /\ RowKnows(j, c)
        /\ Keeps(seen.kept, files)
    BY <1>7, JobFacts
  <2>2. CASE files[j.put] # Absent
    BY <1>3, <1>5, <2>1, <2>2, QuitStep, RowStillKnows
  <2>3. CASE files[j.put] = Absent
    <3>1. Running(k, Clicked(c), Goal(j, c), files, seen.kept)
      BY <1>3, <1>5, <2>1, <2>3, CheckStep
    <3>2. files = Clicked(c) /\ j.put \in Places
      BY <1>5, <2>1 DEF Running, Reached, Careful
    <3>3. c.kind # "undo" => c.item.before[j.put] = Absent
      BY <2>3, <3>2 DEF Clicked
    <3>4. RowKnows(k, c)
      <4>1. (c.kind = "delete") => ~(j.put \in Places)
        BY <2>1, Constants DEF RowKnows
      <4>2. CASE c.kind = "move"
        BY <1>3, <1>5, <2>1, <2>3, <3>3, <4>2 DEF RowKnows
      <4>3. CASE c.kind # "move"
        BY <1>3, <1>5, <2>1, <2>3, <3>2, <4>1, <4>3 DEF RowKnows
      <4> QED
        BY <4>2, <4>3
    <3> QED
      BY <3>1, <3>4
  <2> QED
    BY <2>2, <2>3
<1> QED
  BY <1>1, <1>2, <1>4, <1>5, <1>6, <1>7, AdvanceInv

LEMMA WriteInv ==
    ASSUME TypeInv, UndoInv, NEW s \in Slots, SavePasswordEntry(s) \/ SaveFails(s)
    PROVE  UndoInv'
<1>1. PICK j \in Plans : j = job[s]
  BY WorkTypes
<1>2. PICK c : c = cause[s]
  OBVIOUS
<1>3. PICK g : g = files'
  OBVIOUS
<1>4. PICK base \in Files : base = Clicked(c)
  BY <1>2, WorkerFacts
<1>5. j.phase = "write" /\ UNCHANGED <<undo, page, cause, seen>>
  BY <1>1 DEF SavePasswordEntry, SaveFails
<1>6. PICK keep : keep = seen.kept
  OBVIOUS
<1>7. ASSUME JobInv(j, c, undo, page, files, keep)
      PROVE  /\ Running(j, base, Goal(j, c), files, keep) /\ RowKnows(j, c)
             /\ Keeps(keep, files) /\ Keeps(keep, Put(j, base))
             /\ Put(j, base) = [files EXCEPT ![j.put] = j.contents]
  BY <1>4, <1>5, <1>7, JobFacts, WriteKeeps
<1>8. CASE SavePasswordEntry(s)
  <2>1. PICK phase \in Phases \ {"idle", "read", "rename"} :
           phase = IF j.take = NoPlace THEN "done" ELSE "remove"
    BY DEF Phases
  <2>2. PICK k : k = [j EXCEPT !.phase = phase]
    OBVIOUS
  <2>3. k.phase = phase /\ k.take = j.take /\ k.put = j.put /\ k.contents = j.contents
    BY <2>2 DEF Plans
  <2>4. Advance(s, phase) /\ g = [files EXCEPT ![j.put] = j.contents]
    BY <1>1, <1>3, <1>8, <2>1 DEF SavePasswordEntry
  <2>5. ASSUME JobInv(j, c, undo, page, files, keep)
        PROVE  Running(k, base, Goal(j, c), g, keep) /\ RowKnows(k, c)
    <3>1. /\ Running(j, base, Goal(j, c), files, keep) /\ RowKnows(j, c)
          /\ g = Put(j, base)
      BY <1>7, <2>4, <2>5
    <3>2. Running(k, base, Goal(j, c), g, keep)
      BY <1>5, <2>1, <2>3, <3>1, WriteStep
    <3>3. RowKnows(k, c)
      BY <1>5, <2>1, <2>3, <3>1, RowStillKnows
    <3> QED
      BY <3>2, <3>3
  <2> QED
    BY <1>1, <1>2, <1>3, <1>4, <1>5, <1>6, <2>2, <2>4, <2>5, AdvanceInv
<1>9. CASE SaveFails(s)
  <2>1. "failed" \in Phases \ {"idle", "read", "rename"}
    BY DEF Phases
  <2>2. PICK k : k = [j EXCEPT !.phase = "failed"]
    OBVIOUS
  <2>3. k.phase = "failed" /\ k.take = j.take /\ k.put = j.put
    BY <2>2 DEF Plans
  <2>4. Advance(s, "failed") /\ (g = files \/ g = [files EXCEPT ![j.put] = j.contents])
    BY <1>1, <1>3, <1>9 DEF SaveFails
  <2>5. ASSUME JobInv(j, c, undo, page, files, keep)
        PROVE  Running(k, base, Goal(j, c), g, keep) /\ RowKnows(k, c)
    <3>1. Keeps(keep, g) /\ RowKnows(j, c)
      BY <1>7, <2>4, <2>5
    <3> QED
      BY <2>3, <3>1, QuitStep, RowStillKnows
  <2> QED
    BY <1>1, <1>2, <1>3, <1>4, <1>5, <1>6, <2>1, <2>2, <2>4, <2>5, AdvanceInv
<1> QED
  BY <1>8, <1>9

LEMMA RemoveInv ==
    ASSUME TypeInv, UndoInv, NEW s \in Slots, DeletePasswordEntry(s) \/ DeleteFails(s)
    PROVE  UndoInv'
<1>1. PICK j \in Plans : j = job[s]
  BY WorkTypes
<1>2. PICK c : c = cause[s]
  OBVIOUS
<1>3. PICK g : g = files'
  OBVIOUS
<1>4. PICK base \in Files : base = Clicked(c)
  BY <1>2, WorkerFacts
<1>5. /\ j.phase = "remove" /\ UNCHANGED <<undo, page, cause>> /\ files \in Files
      /\ seen'.kept = seen.kept /\ (~seen'.unrecorded => ~seen.unrecorded)
      /\ seen.kept \in SUBSET Texts
  BY <1>1, SeenTypes DEF DeletePasswordEntry, DeleteFails, TypeInv, TypeOK
<1>6. PICK keep \in SUBSET Texts : keep = seen.kept
  BY <1>5
<1>7. ASSUME JobInv(j, c, undo, page, files, keep)
      PROVE  /\ Running(j, base, Goal(j, c), files, keep) /\ RowKnows(j, c)
             /\ Keeps(keep, Final(j, base)) /\ Final(j, base) = Goal(j, c)
             /\ Final(j, base) = [files EXCEPT ![j.take] = Absent]
  <2>1. Running(j, base, Goal(j, c), files, keep) /\ RowKnows(j, c)
    BY <1>4, <1>7, JobFacts
  <2> QED
    BY <1>4, <1>5, <1>6, <2>1, RemoveKeeps
<1>8. PICK failed \in Phases \ {"idle", "read", "rename"} :
         failed = IF j.put = NoPlace THEN "failed" ELSE "rollback"
  BY DEF Phases
<1>9. RemoveFailed(s) = failed
  BY <1>1, <1>8 DEF RemoveFailed
<1>10. ASSUME JobInv(j, c, undo, page, files, keep), NEW k, k = [j EXCEPT !.phase = failed]
       PROVE  Running(k, base, Goal(j, c), files, keep) /\ RowKnows(k, c)
  <2>1. k.phase = failed /\ k.take = j.take /\ k.put = j.put /\ k.contents = j.contents
    BY <1>10 DEF Plans
  <2>2. Running(j, base, Goal(j, c), files, keep) /\ RowKnows(j, c)
    BY <1>7, <1>10
  <2>3. Running(k, base, Goal(j, c), files, keep)
    BY <1>5, <1>8, <2>1, <2>2, RemoveFailedStep
  <2>4. RowKnows(k, c)
    BY <1>5, <1>8, <2>1, <2>2, RowStillKnows
  <2> QED
    BY <2>3, <2>4
<1>11. CASE DeletePasswordEntry(s) /\ files[j.take] # Absent
  <2>1. "done" \in Phases \ {"idle", "read", "rename"}
    BY DEF Phases
  <2>2. PICK k : k = [j EXCEPT !.phase = "done"]
    OBVIOUS
  <2>3. k.phase = "done" /\ k.take = j.take /\ k.put = j.put
    BY <2>2 DEF Plans
  <2>4. Advance(s, "done") /\ g = [files EXCEPT ![j.take] = Absent]
    BY <1>1, <1>3, <1>11 DEF DeletePasswordEntry
  <2>5. ASSUME JobInv(j, c, undo, page, files, keep)
        PROVE  Running(k, base, Goal(j, c), g, keep) /\ RowKnows(k, c)
    <3>1. Keeps(keep, g) /\ g = Goal(j, c) /\ RowKnows(j, c)
      BY <1>7, <2>4, <2>5
    <3>2. Running(k, base, Goal(j, c), g, keep)
      BY <2>3, <3>1 DEF Running, Careful, Heads, Reached
    <3>3. RowKnows(k, c)
      BY <1>5, <2>3, <3>1, RowStillKnows
    <3> QED
      BY <3>2, <3>3
  <2> QED
    BY <1>1, <1>2, <1>3, <1>4, <1>5, <1>6, <2>1, <2>2, <2>4, <2>5, AdvanceInv
<1>12. CASE DeletePasswordEntry(s) /\ files[j.take] = Absent
  <2>1. PICK k : k = [j EXCEPT !.phase = failed]
    OBVIOUS
  <2>2. Advance(s, failed) /\ g = [files EXCEPT ![j.take] = Absent]
    BY <1>1, <1>3, <1>9, <1>12 DEF DeletePasswordEntry
  <2>3. g = files
    BY <1>5, <1>12, <2>2 DEF Files
  <2>4. JobInv(j, c, undo, page, files, keep) =>
           Running(k, base, Goal(j, c), g, keep) /\ RowKnows(k, c)
    BY <1>10, <2>1, <2>3
  <2> QED
    BY <1>1, <1>2, <1>3, <1>4, <1>5, <1>6, <1>8, <2>1, <2>2, <2>4, AdvanceInv
<1>13. CASE DeleteFails(s)
  <2>1. PICK k : k = [j EXCEPT !.phase = failed]
    OBVIOUS
  <2>2. Advance(s, failed) /\ (g = files \/ seen'.unrecorded)
    BY <1>3, <1>5, <1>9, <1>13, SeenTypes DEF DeleteFails
  <2>3. (~seen'.unrecorded /\ JobInv(j, c, undo, page, files, keep)) =>
           (Running(k, base, Goal(j, c), g, keep) /\ RowKnows(k, c))
    BY <1>10, <2>1, <2>2
  <2> QED
    BY <1>1, <1>2, <1>3, <1>4, <1>5, <1>6, <1>8, <2>1, <2>2, <2>3, AdvanceInv
<1> QED
  BY <1>11, <1>12, <1>13

LEMMA RollBackInv ==
    ASSUME TypeInv, UndoInv, NEW s \in Slots, RollBack(s)
    PROVE  UndoInv'
<1>1. PICK j \in Plans : j = job[s]
  BY WorkTypes
<1>2. PICK c : c = cause[s]
  OBVIOUS
<1>3. PICK g : g = files'
  OBVIOUS
<1>4. PICK base \in Files : base = Clicked(c)
  BY <1>2, WorkerFacts
<1>5. PICK keep \in SUBSET Texts : keep = seen.kept
  BY SeenTypes
<1>6. j.phase = "rollback" /\ UNCHANGED <<undo, page, cause, seen>> /\ files \in Files
  BY <1>1 DEF RollBack, TypeInv, TypeOK
<1>7. "failed" \in Phases \ {"idle", "read", "rename"}
  BY DEF Phases
<1>8. PICK k : k = [j EXCEPT !.phase = "failed"]
  OBVIOUS
<1>9. k.phase = "failed" /\ k.take = j.take /\ k.put = j.put
  BY <1>8 DEF Plans
<1>10. Advance(s, "failed") /\ (g = files \/ g = [files EXCEPT ![j.put] = Absent])
  BY <1>1, <1>3 DEF RollBack
<1>11. ASSUME JobInv(j, c, undo, page, files, keep)
       PROVE  Running(k, base, Goal(j, c), g, keep) /\ RowKnows(k, c)
  <2>1. /\ Running(j, base, Goal(j, c), files, keep) /\ RowKnows(j, c)
        /\ Keeps(keep, files) /\ Keeps(keep, base)
    BY <1>4, <1>11, JobFacts
  <2>2. Keeps(keep, [files EXCEPT ![j.put] = Absent])
    BY <1>6, <2>1, RollbackKeeps
  <2>3. Keeps(keep, g)
    BY <1>10, <2>1, <2>2
  <2> QED
    BY <1>9, <2>1, <2>3, QuitStep, RowStillKnows
<1> QED
  BY <1>1, <1>2, <1>3, <1>4, <1>5, <1>6, <1>7, <1>8, <1>10, <1>11, AdvanceInv

LEMMA RenameInv ==
    ASSUME TypeInv, UndoInv, NEW s \in Slots, RenamePasswordEntry(s)
    PROVE  UndoInv'
<1>1. PICK j \in Plans : j = job[s]
  BY WorkTypes
<1>2. PICK c : c = cause[s]
  OBVIOUS
<1>3. PICK g : g = files'
  OBVIOUS
<1>4. PICK base \in Files : base = Clicked(c)
  BY <1>2, WorkerFacts
<1>5. PICK keep \in SUBSET Texts : keep = seen.kept
  BY SeenTypes
<1>6. j.phase = "rename" /\ UNCHANGED <<undo, page, cause, seen>> /\ files \in Files
  BY <1>1 DEF RenamePasswordEntry, TypeInv, TypeOK
<1>7. PICK phase \in {"done", "failed"} :
         /\ Advance(s, phase)
         /\ \/ /\ files[j.take] # Absent /\ files[j.put] = Absent
               /\ g = [files EXCEPT ![j.take] = Absent, ![j.put] = files[j.take]]
            \/ phase = "failed" /\ g = files
  BY <1>1, <1>3 DEF RenamePasswordEntry, Swapped
<1>8. phase \in Phases \ {"idle", "read", "rename"}
  BY DEF Phases
<1>9. PICK k : k = [j EXCEPT !.phase = phase]
  OBVIOUS
<1>10. k.phase = phase /\ k.take = j.take /\ k.put = j.put
  BY <1>9 DEF Plans
<1>11. ASSUME JobInv(j, c, undo, page, files, keep)
       PROVE  Running(k, base, Goal(j, c), g, keep) /\ RowKnows(k, c)
  <2>1. /\ Running(j, base, Goal(j, c), files, keep) /\ RowKnows(j, c)
        /\ Keeps(keep, files)
    BY <1>4, <1>11, JobFacts
  <2>2. /\ j.take \in Places /\ j.put \in Places /\ files = base
        /\ (base[j.put] = Absent) =>
              [base EXCEPT ![j.take] = Absent, ![j.put] = base[j.take]] = Goal(j, c)
    BY <1>6, <2>1 DEF Running, Careful, Heads, Reached
  <2>3. Keeps(keep, g)
    <3>1. CASE g = files
      BY <2>1, <3>1
    <3>2. CASE g # files
      <4>1. /\ g[j.put] = files[j.take] /\ files[j.put] = Absent
            /\ \A p \in Places : (p # j.take /\ p # j.put) => g[p] = files[p]
        BY <1>6, <1>7, <2>2, <3>2 DEF Files
      <4> QED
        BY <2>1, <2>2, <4>1, SwapKeeps
    <3> QED
      BY <3>1, <3>2
  <2>4. phase = "done" => g = Goal(j, c)
    BY <1>7, <2>2
  <2>5. Running(k, base, Goal(j, c), g, keep)
    BY <1>10, <2>3, <2>4 DEF Running, Careful, Heads, Reached
  <2>6. RowKnows(k, c)
    <3>1. c.kind = "undo"
      BY <1>6, <2>1 DEF RowKnows
    <3> QED
      BY <1>10, <3>1 DEF RowKnows
  <2> QED
    BY <2>5, <2>6
<1> QED
  BY <1>1, <1>2, <1>3, <1>4, <1>5, <1>6, <1>7, <1>8, <1>9, <1>11, AdvanceInv

-----------------------------------------------------------------------------
(* The stack leads back *)

LEMMA PushedStack ==
    ASSUME NEW stack \in Seq(Items), Len(stack) <= MaxUndo, NEW it \in Items,
           Stacked(stack, it.before), Reverts(it)
    PROVE  Stacked(Pushed(stack, it), it.after)
<1>1. PICK n \in Nat : n = Len(stack)
  OBVIOUS
<1>2. PICK r : r = Pushed(stack, it)
  OBVIOUS
<1>3. /\ r \in Seq(Items) /\ Len(r) \in 1..MaxUndo /\ r[Len(r)] = it
      /\ \/ Len(r) = n + 1 /\ \A i \in 1..n : r[i] = stack[i]
         \/ Len(r) = n /\ \A i \in 1..(n - 1) : r[i] = stack[i + 1]
  BY <1>1, <1>2, PushedFacts
<1>4. /\ n # 0 => stack[n].after = it.before
      /\ \A i \in 2..n : stack[i].before = stack[i - 1].after
      /\ \A i \in 1..n : Reverts(stack[i])
  BY <1>1 DEF Stacked
<1>5. CASE Len(r) = n + 1
  <2>1. \A i \in 1..n : r[i] = stack[i]
    BY <1>3, <1>5
  <2>2. r[n + 1] = it
    BY <1>3, <1>5
  <2>3. ASSUME NEW i \in 2..(n + 1) PROVE r[i].before = r[i - 1].after
    <3>1. CASE i = n + 1
      <4>1. i - 1 = n /\ n \in 1..n /\ n # 0
        BY <1>1, <2>3, <3>1
      <4> QED
        BY <1>4, <2>1, <2>2, <3>1, <4>1
    <3>2. CASE i # n + 1
      <4>1. i \in 2..n /\ i \in 1..n /\ i - 1 \in 1..n
        BY <1>1, <2>3, <3>2
      <4> QED
        BY <1>4, <2>1, <4>1
    <3> QED
      BY <3>1, <3>2
  <2>4. ASSUME NEW i \in 1..(n + 1) PROVE Reverts(r[i])
    <3>1. i = n + 1 \/ i \in 1..n
      BY <1>1, <2>4
    <3> QED
      BY <1>4, <2>1, <2>2, <3>1
  <2> QED
    BY <1>2, <1>5, <2>2, <2>3, <2>4 DEF Stacked
<1>6. CASE Len(r) = n /\ n # n + 1
  <2>1. \A i \in 1..(n - 1) : r[i] = stack[i + 1]
    BY <1>1, <1>3, <1>6
  <2>2. r[n] = it /\ n # 0
    BY <1>3, <1>6
  <2>3. ASSUME NEW i \in 2..n PROVE r[i].before = r[i - 1].after
    <3>1. CASE i = n
      <4>1. i - 1 \in 1..(n - 1) /\ (i - 1) + 1 = n
        BY <1>1, <2>3, <3>1
      <4>2. r[i - 1] = stack[n]
        BY <2>1, <4>1
      <4> QED
        BY <1>4, <2>2, <3>1, <4>2
    <3>2. CASE i # n
      <4>1. i \in 1..(n - 1) /\ i - 1 \in 1..(n - 1) /\ (i - 1) + 1 = i /\ (i + 1) - 1 = i
            /\ i + 1 \in 2..n
        BY <1>1, <2>3, <3>2
      <4>2. r[i - 1] = stack[i] /\ r[i] = stack[i + 1]
        BY <2>1, <4>1
      <4>3. stack[i + 1].before = stack[i].after
        BY <1>4, <4>1
      <4> QED
        BY <4>2, <4>3
    <3> QED
      BY <3>1, <3>2
  <2>4. ASSUME NEW i \in 1..n PROVE Reverts(r[i])
    <3>1. i = n \/ (i \in 1..(n - 1) /\ i + 1 \in 1..n)
      BY <1>1, <2>4
    <3> QED
      BY <1>4, <2>1, <2>2, <3>1
  <2> QED
    BY <1>2, <1>6, <2>2, <2>3, <2>4 DEF Stacked
<1> QED
  BY <1>1, <1>3, <1>5, <1>6

LEMMA PoppedStack ==
    ASSUME NEW stack \in Seq(Items), stack # <<>>, NEW now, Stacked(stack, now),
           NEW n, n = Len(stack)
    PROVE  /\ stack[n].after = now /\ Reverts(stack[n])
           /\ Stacked(SubSeq(stack, 1, n - 1), stack[n].before)
<1>1. PICK r : r = SubSeq(stack, 1, n - 1)
  OBVIOUS
<1>2. /\ n \in Nat \ {0} /\ Len(r) = n - 1 /\ r \in Seq(Items)
      /\ \A i \in 1..(n - 1) : r[i] = stack[i]
  BY <1>1, PoppedFacts
<1>3. /\ stack[n].after = now /\ n \in 1..n
      /\ \A i \in 2..n : stack[i].before = stack[i - 1].after
      /\ \A i \in 1..n : Reverts(stack[i])
  BY <1>2 DEF Stacked
<1>4. (r # <<>>) => r[Len(r)].after = stack[n].before
  <2>1. SUFFICES ASSUME r # <<>> PROVE r[Len(r)].after = stack[n].before
    OBVIOUS
  <2>2. n - 1 \in 1..(n - 1) /\ n \in 2..n
    BY <1>2, <2>1
  <2> QED
    BY <1>2, <1>3, <2>2
<1>5. ASSUME NEW i \in 2..Len(r) PROVE r[i].before = r[i - 1].after
  <2>1. i \in 2..n /\ i \in 1..(n - 1) /\ i - 1 \in 1..(n - 1)
    BY <1>2, <1>5
  <2> QED
    BY <1>2, <1>3, <2>1
<1>6. ASSUME NEW i \in 1..Len(r) PROVE Reverts(r[i])
  <2>1. i \in 1..n /\ i \in 1..(n - 1)
    BY <1>2, <1>6
  <2> QED
    BY <1>2, <1>3, <2>1
<1> QED
  BY <1>1, <1>3, <1>4, <1>5, <1>6 DEF Stacked

-----------------------------------------------------------------------------
(* The worker's answer *)

LEMMA FinishInv ==
    ASSUME TypeInv, UndoInv, NEW s \in Slots, job[s] # Idle, Finish(s),
           ~seen'.unrecorded => ~seen.unrecorded,
           /\ ~seen'.unrecorded
           /\ JobInv(job[s], cause[s], undo, page, files, seen.kept)
           => Keeps(seen'.kept, files') /\ Stacked(undo', files') /\ Shows(page', files')
    PROVE  UndoInv'
<1>1. \A r \in Slots : job'[r] = (IF r = s THEN Idle ELSE job[r])
  BY DEF Finish, TypeInv, TypeOK
<1>2. \A r \in Slots : job[r] # Idle => r = s
  BY DEF UndoInv, OneJob
<1>3. \A r \in Slots : job'[r] = Idle
  BY <1>1, <1>2
<1>4. ASSUME ~seen'.unrecorded
      PROVE  Keeps(seen'.kept, files') /\ Stacked(undo', files') /\ Shows(page', files')
  BY <1>4 DEF UndoInv
<1> QED
  BY <1>3, <1>4 DEF UndoInv, OneJob

LEMMA ReversalOfRow ==
    ASSUME NEW j, NEW c, NEW it, NEW f \in Files, c.item.before \in Files, it \in Items,
           RowKnows(j, c), c.kind \in {"delete", "move"}, j.phase = "done", f = Goal(j, c),
           it.action = c.item.action, it.action # Unavailable,
           it.before = c.item.before, it.after = f
    PROVE  Reverts(it)
<1>1. PICK base \in Files : base = c.item.before
  OBVIOUS
<1>2. CASE c.kind = "delete"
  <2>1. /\ j.take \in Places /\ base[j.take] # Absent
        /\ it.action = RestoreDeletedEntry(j.take, base[j.take])
        /\ f = [base EXCEPT ![j.take] = Absent]
    BY <1>1, <1>2 DEF RowKnows, Goal
  <2>2. /\ it.action.type = "deleted" /\ it.action.from = j.take
        /\ it.action.contents = base[j.take]
    BY <2>1 DEF RestoreDeletedEntry, Action
  <2>3. f[j.take] = Absent /\ base = [f EXCEPT ![j.take] = base[j.take]]
    BY <1>1, <2>1 DEF Files
  <2> QED
    BY <1>1, <2>1, <2>2, <2>3 DEF Reverts, Undoable
<1>3. CASE c.kind = "move"
  <2>1. /\ j.take \in Places /\ j.put \in Places /\ j.take # j.put /\ base[j.put] = Absent
        /\ it.action = MoveEntryBetweenStores(j.take, j.put)
        /\ f = [base EXCEPT ![j.put] = base[j.take], ![j.take] = Absent]
    BY <1>1, <1>3 DEF RowKnows, Goal
  <2>2. it.action.type = "move" /\ it.action.from = j.take /\ it.action.to = j.put
    BY <2>1 DEF MoveEntryBetweenStores, Action
  <2>3. f[j.take] = Absent /\ f[j.put] = base[j.take]
    BY <1>1, <2>1 DEF Files
  <2>4. base = [f EXCEPT ![j.take] = f[j.put], ![j.put] = Absent]
    BY <1>1, <2>1, <2>3 DEF Files
  <2> QED
    BY ZenonT(60), <1>1, <2>1, <2>2, <2>3, <2>4 DEF Reverts, Undoable
<1> QED
  BY <1>2, <1>3

LEMMA AnswerInv ==
    ASSUME TypeInv, UndoInv, NEW s \in Slots,
           RowDone(s) \/ DetachedRowDone(s) \/ UndoDone(s) \/ Failed(s)
    PROVE  UndoInv'
<1>1. PICK j \in Plans : j = job[s]
  BY WorkTypes
<1>2. PICK c : c = cause[s]
  OBVIOUS
<1>3. /\ c.item \in Items /\ c.item.before \in Files /\ c.item.after \in Files
      /\ files \in Files
      /\ undo \in Seq(Items) /\ Len(undo) <= MaxUndo
  BY <1>2, WorkTypes, StackTypes DEF TypeInv, TypeOK
<1>4. Finish(s) /\ job[s] # Idle /\ UNCHANGED files
  BY DEF RowDone, DetachedRowDone, UndoDone, Failed, Idle, Plan
<1>5. ~seen'.unrecorded => ~seen.unrecorded
  <2>1. CASE RowDone(s)
    BY <2>1, SeenTypes DEF RowDone
  <2>2. CASE DetachedRowDone(s)
    BY <2>2, SeenTypes DEF DetachedRowDone
  <2>3. CASE UndoDone(s)
    <3>1. seen' = seen \/ \E S : seen' = [seen EXCEPT !.kept = S]
      BY <2>3 DEF UndoDone
    <3> QED
      BY <3>1, SeenTypes
  <2>4. CASE Failed(s)
    BY <2>4, SeenTypes DEF Failed
  <2> QED
    BY <2>1, <2>2, <2>3, <2>4
<1>6. PICK keep \in SUBSET Texts : keep = seen.kept
  BY SeenTypes
<1>7. CASE RowDone(s)
  <2>1. PICK it : it = [c.item EXCEPT !.after = files]
    OBVIOUS
  <2>2. /\ it \in Items /\ it.action = c.item.action /\ it.before = c.item.before
        /\ it.after = files
    BY <1>3, <2>1 DEF Items
  <2>3. /\ undo' = Pushed(undo, it) /\ page' = page /\ j.phase = "done"
        /\ c.kind \in {"delete", "move"} /\ seen'.kept = keep
    BY <1>1, <1>2, <1>6, <1>7, <2>1, SeenTypes DEF RowDone
  <2>4. ~seen'.unrecorded => it.action # Unavailable
    BY <1>2, <1>7, <2>2, SeenTypes DEF RowDone
  <2>5. ASSUME ~seen'.unrecorded, JobInv(j, c, undo, page, files, keep)
        PROVE  Keeps(keep, files) /\ Stacked(Pushed(undo, it), files) /\ Shows(page, files)
    <3>1. /\ Keeps(keep, files) /\ RowKnows(j, c) /\ files = Goal(j, c)
          /\ Stacked(undo, it.before) /\ page = Closed
      BY <2>2, <2>3, <2>5 DEF JobInv, Running, Reached
    <3>2. Reverts(it)
      BY <1>3, <2>2, <2>3, <2>4, <2>5, <3>1, ReversalOfRow
    <3>3. Stacked(Pushed(undo, it), files)
      BY <1>3, <2>2, <3>1, <3>2, PushedStack
    <3> QED
      BY <3>1, <3>3 DEF Shows
  <2> QED
    BY <1>1, <1>2, <1>4, <1>5, <1>6, <2>3, <2>5, FinishInv
<1>8. CASE DetachedRowDone(s)
  <2>1. seen'.unrecorded
    BY <1>8, SeenTypes DEF DetachedRowDone
  <2> QED
    BY <1>4, <2>1, FinishInv
<1>9. CASE UndoDone(s)
  <2>1. PICK a \in Actions : a = c.item.action
    BY <1>2, WorkTypes
  <2>2. PICK place \in Places \cup {NoPlace} : place = RestoredEntry(a)
    BY <2>1 DEF RestoredEntry, Actions
  <2>3. /\ undo' = undo /\ j.phase = "done" /\ c.kind = "undo"
        /\ page' = IF ~c.editing THEN page
                   ELSE IF place = NoPlace \/ files[place] = Absent THEN Closed
                   ELSE Page(place, files[place])
    BY <1>1, <1>2, <1>9, <2>1, <2>2 DEF UndoDone
  <2>4. PICK new \in SUBSET Texts :
           /\ new = seen'.kept
           /\ \/ new = keep
              \/ /\ a.type \in {"saved", "deleted"}
                 /\ new = keep \cup ({a.contents} \ {Absent})
    <3>1. keep \cup ({a.contents} \ {Absent}) \in SUBSET Texts
      BY <2>1 DEF Actions
    <3>2. \/ seen' = seen
          \/ /\ a.type \in {"saved", "deleted"}
             /\ seen' = [seen EXCEPT !.kept = keep \cup ({a.contents} \ {Absent})]
      BY <1>2, <1>6, <1>9, <2>1 DEF UndoDone
    <3> QED
      BY <1>6, <3>1, <3>2, SeenTypes
  <2>5. ASSUME JobInv(j, c, undo, page, files, keep)
        PROVE  Keeps(new, files) /\ Stacked(undo, files) /\ Shows(page', files)
    <3>1. /\ Keeps(keep, files) /\ files = c.item.before /\ Stacked(undo, files)
          /\ Reverts(c.item) /\ c.editing = (page # Closed)
      BY <2>3, <2>5 DEF JobInv, Running, Reached, Goal
    <3>2. Shows(page', files)
      BY <2>3, <3>1 DEF Shows, Page, Closed
    <3>3. (a.type \in {"saved", "deleted"} /\ a.contents # Absent) =>
             (a.from \in Places /\ files[a.from] = a.contents)
      <4>1. SUFFICES ASSUME a.type \in {"saved", "deleted"}, a.contents # Absent
                     PROVE  a.from \in Places /\ files[a.from] = a.contents
        OBVIOUS
      <4>2. a.from \in Places
        BY <1>2, <2>1, <4>1, WorkTypes DEF WellFormed, Unavailable, Action
      <4>3. PICK f \in Files : f = c.item.after
        BY <1>3
      <4>4. \/ files = [f EXCEPT ![a.from] = a.contents]
            \/ a.from # a.to /\ files = [f EXCEPT ![a.from] = a.contents, ![a.to] = Absent]
        BY <2>1, <3>1, <4>1, <4>3 DEF Reverts
      <4> QED
        BY <4>2, <4>4 DEF Files
    <3>4. Keeps(new, files)
      BY <2>4, <3>1, <3>3 DEF Keeps
    <3> QED
      BY <3>1, <3>2, <3>4
  <2> QED
    BY <1>1, <1>2, <1>4, <1>5, <1>6, <2>3, <2>4, <2>5, FinishInv
<1>10. CASE Failed(s)
  <2>1. /\ page' = page /\ seen'.kept = keep
        /\ undo' = IF c.kind = "undo" THEN Pushed(undo, c.item) ELSE undo
        /\ (~seen'.unrecorded => files = Clicked(c))
    BY <1>2, <1>6, <1>10, SeenTypes DEF Failed
  <2>2. ASSUME ~seen'.unrecorded, JobInv(j, c, undo, page, files, keep)
        PROVE  Keeps(keep, files) /\ Stacked(undo', files) /\ Shows(page, files)
    <3>1. /\ Keeps(keep, files) /\ files = Clicked(c) /\ Shows(page, files)
          /\ Stacked(undo, c.item.before) /\ (c.kind = "undo" => Reverts(c.item))
      BY <2>1, <2>2 DEF JobInv, Running
    <3>2. CASE c.kind = "undo"
      <4>1. Stacked(Pushed(undo, c.item), c.item.after)
        BY <1>3, <3>1, <3>2, PushedStack
      <4> QED
        BY <2>1, <3>1, <3>2, <4>1 DEF Clicked
    <3>3. CASE c.kind # "undo"
      BY <2>1, <3>1, <3>3 DEF Clicked
    <3> QED
      BY <3>2, <3>3
  <2> QED
    BY <1>1, <1>2, <1>4, <1>5, <1>6, <2>1, <2>2, FinishInv
<1> QED
  BY <1>7, <1>8, <1>9, <1>10

-----------------------------------------------------------------------------
(* Clicks that start a worker *)

LEMMA StartInv ==
    ASSUME TypeInv, UndoInv, Quiet, NEW s \in Slots, NEW j, j # Idle, NEW c,
           job' = [job EXCEPT ![s] = j], cause' = [cause EXCEPT ![s] = c],
           ~seen'.unrecorded => ~seen.unrecorded,
           /\ Keeps(seen.kept, files) /\ Stacked(undo, files) /\ Shows(page, files)
           => JobInv(j, c, undo', page', files', seen'.kept)
    PROVE  UndoInv'
<1>1. /\ \A r \in Slots : job'[r] = (IF r = s THEN j ELSE Idle)
      /\ \A r \in Slots : cause'[r] = (IF r = s THEN c ELSE cause[r])
  BY DEF TypeInv, TypeOK, Quiet
<1>2. OneJob' /\ ~Quiet'
  BY <1>1 DEF OneJob, Quiet
<1>3. ASSUME ~seen'.unrecorded
      PROVE  /\ Keeps(seen'.kept, files')
             /\ \A r \in Slots : job'[r] # Idle =>
                   JobInv(job'[r], cause'[r], undo', page', files', seen'.kept)
  <2>1. JobInv(j, c, undo', page', files', seen'.kept)
    BY <1>3 DEF UndoInv
  <2>2. Keeps(seen'.kept, files')
    BY <2>1 DEF JobInv, Running
  <2> QED
    BY <1>1, <2>1, <2>2
<1> QED
  BY <1>2, <1>3 DEF UndoInv

\* What an undo will do turns the files after the change into those before.
LEMMA UndoStart ==
    ASSUME NEW it \in Items, NEW a \in Actions, a =
           it.action, WellFormed(a), a # Unavailable,
           Reverts(it), NEW keep \in SUBSET Texts, Keeps(keep, it.after),
           a.type = "saved" => it.after[a.to] \notin keep,
           NEW j, j = UndoPlan(a)
    PROVE  /\ Running(j, it.after, it.before, it.after, keep) /\ j.phase # "idle"
           /\ j.phase = "read" => j.put # NoPlace
<1>1. /\ a.type \in Undoable /\ a.from \in Places /\ a.contents \in Texts \cup {Absent}
      /\ a.to \in Places \cup {NoPlace} /\ (a.type # "deleted" => a.to \in Places)
  BY DEF WellFormed, Actions
<1>2. PICK base \in Files : base = it.after
  BY DEF Items
<1>3. PICK goal \in Files : goal = it.before
  BY DEF Items
<1>4. NoPlace \notin Places /\ Absent \notin keep /\ Keeps(keep, base)
  BY <1>2, Constants
<1>5. CASE a.type = "saved" /\ a.contents = Absent
  <2>1. j = Plan("remove", a.to, NoPlace, Absent)
    BY <1>5 DEF UndoPlan
  <2>2. j.phase = "remove" /\ j.take = a.to /\ j.put = NoPlace
    BY <2>1 DEF Plan
  <2>3. goal = [base EXCEPT ![a.to] = Absent] /\ base[a.to] \notin keep
    BY <1>2, <1>3, <1>5 DEF Reverts
  <2>4. Put(j, base) = base /\ Final(j, base) = goal
    BY <1>1, <1>4, <1>5, <2>2, <2>3 DEF Put, Final
  <2>5. Careful(j, base, keep)
    BY <1>1, <1>4, <1>5, <2>2, <2>3 DEF Careful
  <2> QED
    BY <1>2, <1>3, <1>4, <2>2, <2>4, <2>5 DEF Running, Heads, Reached
<1>6. CASE a.type = "saved" /\ a.contents # Absent /\ a.from = a.to
  <2>1. j = Plan("write", NoPlace, a.from, a.contents)
    BY <1>6 DEF UndoPlan
  <2>2. j.phase = "write" /\ j.take = NoPlace /\ j.put = a.from /\ j.contents = a.contents
    BY <2>1 DEF Plan
  <2>3. goal = [base EXCEPT ![a.from] = a.contents] /\ base[a.from] \notin keep
    BY <1>2, <1>3, <1>6 DEF Reverts
  <2>4. Final(j, base) = goal
    BY <1>1, <1>4, <2>2, <2>3 DEF Put, Final
  <2>5. Careful(j, base, keep)
    BY <1>1, <1>4, <2>2, <2>3 DEF Careful
  <2> QED
    BY <1>2, <1>3, <1>4, <2>2, <2>4, <2>5 DEF Running, Heads, Reached
<1>7. CASE a.type = "saved" /\ a.contents # Absent /\ a.from # a.to
  <2>1. j = Plan("check", a.to, a.from, a.contents)
    BY <1>7 DEF UndoPlan
  <2>2. j.phase = "check" /\ j.take = a.to /\ j.put = a.from /\ j.contents = a.contents
    BY <2>1 DEF Plan
  <2>3. /\ goal = [base EXCEPT ![a.from] = a.contents, ![a.to] = Absent]
        /\ base[a.to] \notin keep
    BY <1>2, <1>3, <1>7 DEF Reverts
  <2>4. Put(j, base) = [base EXCEPT ![a.from] = a.contents]
    BY <1>1, <1>4, <2>2 DEF Put
  <2>5. Final(j, base) = goal
    BY <1>1, <1>4, <1>7, <2>2, <2>3, <2>4 DEF Final
  <2>6. Careful(j, base, keep)
    BY <1>1, <1>4, <1>7, <2>2, <2>3 DEF Careful
  <2> QED
    BY <1>2, <1>3, <1>4, <2>2, <2>5, <2>6 DEF Running, Heads, Reached
<1>8. CASE a.type = "rename"
  <2>1. j = Plan("rename", a.to, a.from, Absent)
    BY <1>8 DEF UndoPlan
  <2>2. j.phase = "rename" /\ j.take = a.to /\ j.put = a.from
    BY <2>1 DEF Plan
  <2>3. goal = [base EXCEPT ![a.from] = base[a.to], ![a.to] = Absent] /\ a.from # a.to
    BY <1>2, <1>3, <1>8 DEF Reverts
  <2>4. [base EXCEPT ![a.to] = Absent, ![a.from] = base[a.to]] = goal
    BY <1>1, <1>8, <2>3 DEF Files
  <2>5. Careful(j, base, keep)
    BY <1>1, <1>4, <1>8, <2>2, <2>3 DEF Careful
  <2> QED
    BY <1>2, <1>3, <1>4, <2>2, <2>4, <2>5 DEF Running, Heads, Reached
<1>9. CASE a.type = "move"
  <2>1. j = Plan("read", a.to, a.from, Absent)
    BY <1>9 DEF UndoPlan
  <2>2. j.phase = "read" /\ j.take = a.to /\ j.put = a.from /\ j.put # NoPlace
    BY <1>1, <1>4, <2>1 DEF Plan
  <2>3. goal = [base EXCEPT ![a.from] = base[a.to], ![a.to] = Absent] /\ a.from # a.to
    BY <1>2, <1>3, <1>9 DEF Reverts
  <2>4. Careful(j, base, keep)
    BY <1>1, <1>4, <1>9, <2>2, <2>3 DEF Careful
  <2> QED
    BY <1>2, <1>3, <1>4, <2>2, <2>3, <2>4 DEF Running, Heads, Reached
<1>10. CASE a.type = "deleted"
  <2>1. j = Plan("check", NoPlace, a.from, a.contents)
    BY <1>10 DEF UndoPlan
  <2>2. j.phase = "check" /\ j.take = NoPlace /\ j.put = a.from /\ j.contents = a.contents
    BY <2>1 DEF Plan
  <2>3. goal = [base EXCEPT ![a.from] = a.contents]
    BY <1>2, <1>3, <1>10 DEF Reverts
  <2>4. Final(j, base) = goal
    BY <1>1, <1>4, <2>2, <2>3 DEF Put, Final
  <2>5. Careful(j, base, keep)
    BY <1>1, <1>4, <2>2 DEF Careful
  <2> QED
    BY <1>2, <1>3, <1>4, <2>2, <2>4, <2>5 DEF Running, Heads, Reached
<1> QED
  BY <1>1, <1>5, <1>6, <1>7, <1>8, <1>9, <1>10 DEF Undoable

LEMMA ContextUndoInv ==
    ASSUME TypeInv, UndoInv, Quiet, NEW s \in Slots, ContextUndo(s)
    PROVE  UndoInv'
<1>1. PICK it \in Items : it = Top
  BY TopTypes DEF ContextUndo
<1>2. PICK a \in Actions : a = it.action /\ WellFormed(a) /\ a # Unavailable
  BY <1>1, TopTypes DEF ContextUndo
<1>3. PICK j : j = UndoPlan(a)
  OBVIOUS
<1>4. PICK c : c = [kind |-> "undo", item |-> it, editing |-> page # Closed]
  OBVIOUS
<1>5. PICK rest : rest = SubSeq(undo, 1, Len(undo) - 1)
  OBVIOUS
<1>6. /\ job' = [job EXCEPT ![s] = j] /\ cause' = [cause EXCEPT ![s] = c]
      /\ undo' = rest /\ undo # <<>> /\ UNCHANGED <<files, page>>
  BY <1>1, <1>2, <1>3, <1>4, <1>5 DEF ContextUndo, Start
<1>7. PICK keep \in SUBSET Texts :
         /\ keep = seen'.kept /\ keep \subseteq seen.kept
         /\ (a.type = "saved") => it.after[a.to] \notin keep
  <2>1. PICK t : t = it.after[a.to]
    OBVIOUS
  <2>2. seen' = IF a.type = "saved" THEN [seen EXCEPT !.kept = seen.kept \ {t}] ELSE seen
    BY <1>1, <1>2, <2>1 DEF ContextUndo
  <2>3. seen'.kept = IF a.type = "saved" THEN seen.kept \ {t} ELSE seen.kept
    BY <2>2, SeenTypes
  <2> QED
    BY <2>1, <2>3, SeenTypes
<1>8. seen'.unrecorded = seen.unrecorded
  BY SeenTypes DEF ContextUndo
<1>9. ASSUME Keeps(seen.kept, files), Stacked(undo, files), Shows(page, files)
      PROVE  JobInv(j, c, rest, page, files, keep)
  <2>1. Reverts(it) /\ it.after = files /\ Stacked(rest, it.before)
    <3>1. PICK n : n = Len(undo)
      OBVIOUS
    <3>2. /\ undo \in Seq(Items) /\ undo # <<>> /\ it = undo[n]
          /\ rest = SubSeq(undo, 1, n - 1)
      BY <1>1, <1>5, <1>6, <3>1, StackTypes DEF Top
    <3> QED
      BY <1>9, <3>1, <3>2, PoppedStack
  <2>2. Keeps(keep, files)
    BY <1>7, <1>9 DEF Keeps
  <2>3. /\ Running(j, it.after, it.before, it.after, keep)
        /\ (j.phase = "read" => j.put # NoPlace)
    BY <1>2, <1>3, <1>7, <2>1, <2>2, UndoStart
  <2>4. /\ c.kind = "undo" /\ c.item = it /\ c.editing = (page # Closed)
        /\ Clicked(c) = it.after /\ Goal(j, c) = it.before
    BY <1>4 DEF Clicked, Goal
  <2>5. RowKnows(j, c)
    BY <2>3, <2>4 DEF RowKnows
  <2> QED
    BY <1>9, <2>1, <2>2, <2>3, <2>4, <2>5 DEF JobInv
<1>10. j # Idle
  BY <1>1, <1>2, <1>3, PlanTypes DEF UndoPlan, Plan, Idle, WellFormed, Undoable
<1> QED
  BY <1>6, <1>7, <1>8, <1>9, <1>10, StartInv

LEMMA MoveInv ==
    ASSUME TypeInv, UndoInv, Quiet, NEW s \in Slots, NEW p \in Places, NEW store \in Stores,
           MoveEntryToStore(s, p, store)
    PROVE  UndoInv'
<1>1. PICK to \in Places : to = <<store, p[2]>> /\ p # to
  BY DEF Places, MoveEntryToStore
<1>2. PICK j : j = Plan("read", p, to, Absent)
  OBVIOUS
<1>3. PICK it : it = Item(MoveEntryBetweenStores(p, to), files, files)
  OBVIOUS
<1>4. PICK c : c = [kind |-> "move", item |-> it, editing |-> page # Closed]
  OBVIOUS
<1>5. /\ job' = [job EXCEPT ![s] = j] /\ cause' = [cause EXCEPT ![s] = c]
      /\ UNCHANGED <<files, undo, page, seen>> /\ page = Closed
  BY <1>1, <1>2, <1>3, <1>4 DEF MoveEntryToStore, Start
<1>6. j.phase = "read" /\ j.take = p /\ j.put = to /\ j # Idle /\ NoPlace \notin Places
  BY <1>2, Constants DEF Plan, Idle
<1>7. /\ it.action = MoveEntryBetweenStores(p, to) /\ it.before = files
      /\ c.kind = "move" /\ c.item = it /\ c.editing = (page # Closed) /\ Clicked(c) = files
  BY <1>3, <1>4 DEF Item, Clicked
<1>8. ASSUME Keeps(seen.kept, files), Stacked(undo, files), Shows(page, files)
      PROVE  JobInv(j, c, undo, page, files, seen.kept)
  <2>1. Goal(j, c) = [files EXCEPT ![to] = files[p], ![p] = Absent]
    BY <1>6, <1>7 DEF Goal
  <2>2. Running(j, files, Goal(j, c), files, seen.kept)
    BY <1>1, <1>6, <1>8, <2>1 DEF Running, Careful, Heads, Reached
  <2>3. RowKnows(j, c)
    BY <1>1, <1>6, <1>7 DEF RowKnows
  <2> QED
    BY <1>5, <1>7, <1>8, <2>2, <2>3 DEF JobInv
<1> QED
  BY <1>5, <1>6, <1>8, StartInv

LEMMA DeleteInv ==
    ASSUME TypeInv, UndoInv, Quiet, NEW s \in Slots, NEW p \in Places, DeleteEntry(s, p)
    PROVE  UndoInv'
<1>1. PICK j : j = Plan("read", p, NoPlace, Absent)
  OBVIOUS
<1>2. PICK it : it = Item(RestoreDeletedEntry(p, Absent), files, files)
  OBVIOUS
<1>3. PICK c : c = [kind |-> "delete", item |-> it, editing |-> page # Closed]
  OBVIOUS
<1>4. /\ job' = [job EXCEPT ![s] = j] /\ cause' = [cause EXCEPT ![s] = c]
      /\ UNCHANGED <<files, undo, page>> /\ page = Closed /\ files[p] # Absent
  BY <1>1, <1>2, <1>3 DEF DeleteEntry, Start
<1>5. PICK keep : keep = seen.kept \ {files[p]}
  OBVIOUS
<1>6. seen'.kept = keep /\ seen'.unrecorded = seen.unrecorded
  BY <1>5, SeenTypes DEF DeleteEntry
<1>7. /\ j.phase = "read" /\ j.take = p /\ j.put = NoPlace /\ j # Idle /\ p # NoPlace
  BY <1>1, Constants DEF Plan, Idle
<1>8. /\ it.before = files /\ c.kind = "delete" /\ c.item = it
      /\ c.editing = (page # Closed) /\ Clicked(c) = files
  BY <1>2, <1>3 DEF Item, Clicked
<1>9. ASSUME Keeps(seen.kept, files), Stacked(undo, files), Shows(page, files)
      PROVE  JobInv(j, c, undo, page, files, keep)
  <2>1. Goal(j, c) = [files EXCEPT ![p] = Absent]
    BY <1>7, <1>8 DEF Goal
  <2>2. Final(j, files) = Goal(j, c)
    BY <1>7, <2>1 DEF Final, Put
  <2>3. files[p] \notin keep /\ Keeps(keep, files)
    BY <1>5, <1>9 DEF Keeps
  <2>4. Running(j, files, Goal(j, c), files, keep)
    BY <1>7, <2>2, <2>3 DEF Running, Careful, Heads, Reached
  <2>5. RowKnows(j, c)
    BY <1>4, <1>7, <1>8 DEF RowKnows
  <2> QED
    BY <1>4, <1>8, <1>9, <2>3, <2>4, <2>5 DEF JobInv
<1> QED
  BY <1>4, <1>6, <1>7, <1>9, StartInv

-----------------------------------------------------------------------------
(* The user's own steps *)

LEMMA UserInv ==
    ASSUME TypeInv, UndoInv, Quiet, UNCHANGED job, ~seen'.unrecorded => ~seen.unrecorded,
           /\ ~seen'.unrecorded
           /\ Keeps(seen.kept, files) /\ Stacked(undo, files) /\ Shows(page, files)
           => Keeps(seen'.kept, files') /\ Stacked(undo', files') /\ Shows(page', files')
    PROVE  UndoInv'
<1>1. \A r \in Slots : job'[r] = Idle
  BY DEF Quiet
<1>2. ASSUME ~seen'.unrecorded
      PROVE  Keeps(seen'.kept, files') /\ Stacked(undo', files') /\ Shows(page', files')
  BY <1>2 DEF UndoInv
<1> QED
  BY <1>1, <1>2 DEF UndoInv, OneJob

LEMMA PageInv ==
    ASSUME TypeInv, UndoInv, Quiet,
           \/ \E p \in Places : OpenPage(p) \/ NewPage(p)
           \/ ClosePage
    PROVE  UndoInv'
<1>1. UNCHANGED <<files, undo, job, seen>>
  BY DEF OpenPage, NewPage, ClosePage
<1>2. \/ page' = Closed
      \/ \E p \in Places : page' = Page(p, files[p]) \/ page' = Page(p, Absent)
  BY DEF OpenPage, NewPage, ClosePage
<1>3. Shows(page', files)
  BY <1>2 DEF Shows, Page, Closed
<1> QED
  BY <1>1, <1>3, UserInv

\* What cannot be undone is on the stack only after a change without an undo.
LEMMA UnavailableInv ==
    ASSUME TypeInv, UndoInv, Quiet, UndoUnavailable
    PROVE  UndoInv'
<1>1. UNCHANGED <<files, page, job, seen>> /\ undo # <<>> /\ Top.action = Unavailable
  BY DEF UndoUnavailable
<1>2. ASSUME Stacked(undo, files) PROVE FALSE
  <2>1. PICK n : n = Len(undo)
    OBVIOUS
  <2>2. Reverts(undo[n])
    BY <1>1, <1>2, <2>1, StackTypes, PoppedStack
  <2>3. undo[n].action = Unavailable
    BY <1>1, <2>1 DEF Top
  <2> QED
    BY <2>2, <2>3 DEF Reverts, Unavailable, Action, Undoable
<1> QED
  BY <1>1, <1>2, UserInv

LEMMA RowInv ==
    ASSUME TypeInv, UndoInv, Quiet, NEW p \in Places, NEW label \in Labels,
           NEW readable \in BOOLEAN, RenameRow(p, label, readable)
    PROVE  UndoInv'
<1>1. PICK to \in Places : to = <<p[1], label>>
  BY DEF Places
<1>2. PICK a : a = IF readable THEN RenameEntry(p, to) ELSE Unavailable
  OBVIOUS
<1>3. PICK g : g = files'
  OBVIOUS
<1>4. PICK it : it = Item(a, files, g)
  OBVIOUS
<1>5. /\ page = Closed /\ files[p] # Absent /\ files[to] = Absent
      /\ g = [files EXCEPT ![p] = Absent, ![to] = files[p]] /\ files \in Files
      /\ undo' = Pushed(undo, it) /\ UNCHANGED <<page, job>>
  BY <1>1, <1>2, <1>3, <1>4 DEF RenameRow, Swapped, TypeInv, TypeOK
<1>6. /\ seen'.kept = seen.kept /\ (~seen'.unrecorded => ~seen.unrecorded)
      /\ (~seen'.unrecorded => readable)
  BY SeenTypes DEF RenameRow
<1>7. PICK keep \in SUBSET Texts : keep = seen.kept
  BY SeenTypes
<1>8. it.action = a /\ it.before = files /\ it.after = g
  BY <1>4 DEF Item
<1>9. ASSUME readable, Keeps(keep, files), Stacked(undo, files)
      PROVE  Keeps(keep, g) /\ Stacked(Pushed(undo, it), g)
  <2>1. Keeps(keep, g) /\ p # to /\ g \in Files
    <3>1. p # to /\ g \in Files /\ g[to] = files[p]
          /\ \A q \in Places : (q # p /\ q # to) => g[q] = files[q]
      BY <1>5 DEF Files
    <3>2. files[to] = Absent /\ Keeps(keep, files)
      BY <1>5, <1>9
    <3> QED
      BY <3>1, <3>2, SwapKeeps
  <2>2. a = RenameEntry(p, to) /\ a \in Actions
    BY <1>2, <1>9, ActionTypes
  <2>3. a.type = "rename" /\ a.from = p /\ a.to = to
    BY <2>2 DEF RenameEntry, Action
  <2>4. g[p] = Absent /\ g[to] = files[p]
    BY <1>5, <2>1 DEF Files
  <2>5. files = [g EXCEPT ![p] = g[to], ![to] = Absent]
    BY <1>5, <2>1, <2>4 DEF Files
  <2>6. Reverts(it)
    BY <1>8, <2>1, <2>3, <2>4, <2>5 DEF Reverts, Undoable
  <2>7. it \in Items
    BY <1>4, <1>5, <2>1, <2>2 DEF Item, Items
  <2>8. Stacked(Pushed(undo, it), g)
    BY <1>8, <1>9, <2>6, <2>7, StackTypes, PushedStack
  <2> QED
    BY <2>1, <2>8
<1>10. Shows(page', g)
  BY <1>5 DEF Shows
<1> QED
  BY <1>3, <1>5, <1>6, <1>7, <1>9, <1>10, UserInv

\* A save keeps the text it writes, and its undo leads back.
LEMMA SaveInv ==
    ASSUME TypeInv, UndoInv, Quiet, NEW text \in Texts, NEW label \in Labels,
           SavePage(text, label)
    PROVE  UndoInv'
<1>1. page # Closed
  BY DEF SavePage, SavePageUndoneAt, Saving
<1>2. PICK to \in Places : to = RenameTarget(label)
  BY <1>1, SavedFileTypes
<1>3. PICK from \in Places : from = page.place
  BY <1>1, SavedFileTypes
<1>4. PICK saved \in Texts \cup {Absent} : saved = page.saved
  BY <1>1, SavedFileTypes
<1>5. PICK g \in Files : g = files'
  BY <1>1, SavedFileTypes DEF SavePage, SavePageUndoneAt
<1>6. PICK it : it = Item(RestoreSavedEntry(from, saved, to), files, g)
  OBVIOUS
<1>7. /\ (saved = Absent) => files[from] = Absent
      /\ (to # from) => files[to] = Absent
      /\ g = IF to = from THEN [files EXCEPT ![from] = text]
             ELSE [files EXCEPT ![from] = Absent, ![to] = text]
      /\ files \in Files
  <2>1. g = IF to = from THEN Written(text)
            ELSE [Written(text) EXCEPT ![from] = Absent, ![to] = text]
    BY <1>2, <1>3, <1>5 DEF SavePage, SavePageUndoneAt, RenamedAfterSave
  <2>2. Written(text) = [files EXCEPT ![from] = text] /\ files \in Files
    BY <1>3 DEF Written, TypeInv, TypeOK
  <2>3. [Written(text) EXCEPT ![from] = Absent, ![to] = text] =
           [files EXCEPT ![from] = Absent, ![to] = text]
    BY <2>2 DEF Files
  <2> QED
    BY <1>2, <1>3, <1>4, <2>1, <2>2, <2>3 DEF SavePage, SavePageUndoneAt, Saving
<1>8. /\ undo' = IF text = saved /\ to = from THEN undo ELSE Pushed(undo, it)
      /\ page' = Closed /\ UNCHANGED job
  BY <1>2, <1>3, <1>4, <1>5, <1>6 DEF SavePage, SavePageUndoneAt
<1>9. PICK keep \in SUBSET Texts : keep = seen.kept
  BY SeenTypes
<1>10. seen'.kept = (keep \ {saved}) \cup {text} /\ seen'.unrecorded = seen.unrecorded
  BY <1>4, <1>9, SeenTypes DEF SavePage, SavePageUndoneAt
<1>11. it.action = RestoreSavedEntry(from, saved, to) /\ it.before = files /\ it.after = g
  BY <1>6 DEF Item
<1>12. it \in Items
  BY <1>6, <1>7, ActionTypes DEF Item, Items
<1>13. ASSUME Keeps(keep, files), Stacked(undo, files), Shows(page, files)
       PROVE  Keeps((keep \ {saved}) \cup {text}, g) /\ Stacked(undo', g)
  <2>1. saved # Absent => files[from] = saved
    BY <1>1, <1>3, <1>4, <1>13 DEF Shows
  <2>2. g[to] = text
    BY <1>7 DEF Files
  <2>3. ASSUME NEW t \in keep \ {saved} PROVE \E p \in Places : g[p] = t
    <3>1. PICK p \in Places : files[p] = t
      BY <1>13 DEF Keeps
    <3>2. p # from /\ p # to
      BY <1>7, <2>1, <2>3, <3>1, Constants
    <3>3. g[p] = t
      BY <1>7, <3>1, <3>2 DEF Files
    <3> QED
      BY <3>3
  <2>4. Keeps((keep \ {saved}) \cup {text}, g)
    BY <2>2, <2>3 DEF Keeps
  <2>5. CASE text = saved /\ to = from
    <3>1. files[from] = text
      BY <2>1, <2>5, Constants
    <3>2. g = files
      BY <1>7, <2>5, <3>1 DEF Files
    <3> QED
      BY <1>8, <1>13, <2>4, <2>5, <3>2
  <2>6. CASE ~(text = saved /\ to = from)
    <3>1. /\ it.action.type = "saved" /\ it.action.from = from
          /\ it.action.contents = saved /\ it.action.to = to
      BY <1>11 DEF RestoreSavedEntry, Action
    <3>2. CASE saved = Absent
      <4>1. files = [g EXCEPT ![to] = Absent]
        BY <1>7, <3>2 DEF Files
      <4> QED
        BY <1>8, <1>11, <1>12, <1>13, <2>4, <2>6, <3>1, <3>2, <4>1, StackTypes, PushedStack
           DEF Reverts, Undoable
    <3>3. CASE saved # Absent /\ to = from
      <4>1. files = [g EXCEPT ![from] = saved]
        BY <1>7, <2>1, <3>3 DEF Files
      <4> QED
        BY <1>8, <1>11, <1>12, <1>13, <2>4, <2>6, <3>1, <3>3, <4>1, StackTypes, PushedStack
           DEF Reverts, Undoable
    <3>4. CASE saved # Absent /\ to # from
      <4>1. g[from] = Absent
        BY <1>7, <3>4 DEF Files
      <4>2. files = [g EXCEPT ![from] = saved, ![to] = Absent]
        BY <1>7, <2>1, <3>4 DEF Files
      <4> QED
        BY <1>8, <1>11, <1>12, <1>13, <2>4, <2>6, <3>1, <3>4, <4>1, <4>2, StackTypes,
           PushedStack
           DEF Reverts, Undoable
    <3> QED
      BY <3>2, <3>3, <3>4
  <2> QED
    BY <2>5, <2>6
<1>14. Shows(page', g)
  BY <1>8 DEF Shows
<1> QED
  BY <1>5, <1>8, <1>9, <1>10, <1>13, <1>14, UserInv

LEMMA UnrecordedInv ==
    ASSUME TypeInv, UndoInv, Quiet,
           \/ \E p \in Places, label \in Labels : RenameRowFails(p, label)
           \/ \E text \in Texts, label \in Labels :
                 SavePageUnrenamed(text, label) \/ SavePageFails(text, label)
    PROVE  UndoInv'
<1>1. UNCHANGED job /\ seen'.unrecorded
  BY SeenTypes DEF RenameRowFails, SavePageUnrenamed, SavePageFails
<1> QED
  BY <1>1, UserInv

-----------------------------------------------------------------------------
(* The invariant, and what follows *)

LEMMA UndoInit == Init => UndoInv
<1> SUFFICES ASSUME Init PROVE UndoInv
  OBVIOUS
<1>1. /\ \A s \in Slots : job[s] = Idle
      /\ undo = <<>> /\ page = Closed
      /\ seen.kept = {t \in Texts : \E p \in Places : files[p] = t}
  BY DEF Init
<1>2. Keeps(seen.kept, files) /\ Shows(page, files)
  BY <1>1 DEF Keeps, Shows
<1>3. Stacked(undo, files)
  BY <1>1 DEF Stacked
<1> QED
  BY <1>1, <1>2, <1>3 DEF UndoInv, OneJob

LEMMA UndoStep == Waits /\ TypeInv /\ UndoInv /\ [Next]_vars => UndoInv'
<1> SUFFICES ASSUME Waits, TypeInv, UndoInv, [Next]_vars PROVE UndoInv'
  OBVIOUS
<1>1. CASE UNCHANGED vars
  BY <1>1 DEF vars, UndoInv, OneJob, Quiet
<1>2. ASSUME NEW s \in Slots, WorkerStep(s) PROVE UndoInv'
  BY <1>2, ReadInv, CheckInv, WriteInv, RemoveInv, RollBackInv, RenameInv, AnswerInv
     DEF WorkerStep
<1>3. ASSUME NEW s \in Slots, NEW p \in Places, DeleteEntry(s, p) PROVE UndoInv'
  <2>1. Quiet
    BY <1>3 DEF DeleteEntry, Operate, Ready
  <2> QED
    BY <1>3, <2>1, DeleteInv
<1>4. ASSUME NEW s \in Slots, NEW p \in Places, NEW store \in Stores,
             MoveEntryToStore(s, p, store)
      PROVE  UndoInv'
  <2>1. Quiet
    BY <1>4 DEF MoveEntryToStore, Operate, Ready
  <2> QED
    BY <1>4, <2>1, MoveInv
<1>5. ASSUME NEW s \in Slots, ContextUndo(s) PROVE UndoInv'
  <2>1. Quiet
    BY <1>5 DEF ContextUndo, Operate, Ready
  <2> QED
    BY <1>5, <2>1, ContextUndoInv
<1>6. CASE UndoUnavailable
  <2>1. Quiet
    BY <1>6 DEF UndoUnavailable, Operate, Ready
  <2> QED
    BY <1>6, <2>1, UnavailableInv
<1>7. CASE ClosePage \/ \E p \in Places : OpenPage(p) \/ NewPage(p)
  <2>1. Quiet
    BY <1>7 DEF OpenPage, NewPage, ClosePage, Ready
  <2> QED
    BY <1>7, <2>1, PageInv
<1>8. ASSUME NEW p \in Places, NEW label \in Labels, NEW readable \in BOOLEAN,
             RenameRow(p, label, readable)
      PROVE  UndoInv'
  <2>1. Quiet
    BY <1>8 DEF RenameRow, Operate, Ready
  <2> QED
    BY <1>8, <2>1, RowInv
<1>9. ASSUME NEW p \in Places, NEW label \in Labels, RenameRowFails(p, label)
      PROVE  UndoInv'
  <2>1. Quiet
    BY <1>9 DEF RenameRowFails, OperateAndFail, Ready
  <2> QED
    BY <1>9, <2>1, UnrecordedInv
<1>10. ASSUME NEW text \in Texts, NEW label \in Labels, SavePage(text, label)
       PROVE  UndoInv'
  <2>1. Quiet
    BY <1>10 DEF SavePage, SavePageUndoneAt, Operate, Ready
  <2> QED
    BY <1>10, <2>1, SaveInv
<1>11. ASSUME NEW text \in Texts, NEW label \in Labels,
              SavePageUnrenamed(text, label) \/ SavePageFails(text, label)
       PROVE  UndoInv'
  <2>1. Quiet
    BY <1>11 DEF SavePageUnrenamed, SavePageFails, Operate, OperateAndFail, Ready
  <2> QED
    BY <1>11, <2>1, UnrecordedInv
<1> QED
  BY <1>1, <1>2, <1>3, <1>4, <1>5, <1>6, <1>7, <1>8, <1>9, <1>10, <1>11 DEF Next

-----------------------------------------------------------------------------
(* The backend *)

\* Nothing is not a content, and the name of a passkey looks like one.
NamesFit ==
    /\ MaxCalls \in Nat /\ MaxChanges \in Nat
    /\ NoFile \notin Host!Contents
    /\ \A l \in EntryLabels : mcNamed[l] = passkey => l \in Shaped

\* What an ended call says that nobody disturbed, and what it has shown.
Answered(call, now) ==
    /\ Host!Undisturbed(call) =>
          /\ (call.ran /\ call.op = "save" /\ ~call.overwrite) => call.was = NoFile
          /\ (call.ran /\ call.op = "rename") => call.was = NoFile
          /\ (call.answer \in {"invalid", "nested", "exists"}) => ~call.ran
          /\ (call.answer = "ok" /\ call.op = "save") =>
                 (call.ran /\ call.now = call.content)
          /\ (call.answer = "ok" /\ call.op = "rename") =>
                 (call.ran /\ call.now \in Host!Contents)
          /\ (call.answer = "ok" /\ call.op = "delete") => (call.ran /\ call.now = NoFile)
          /\ (call.op = "recipients" /\ call.fresh /\ call.answer = "ok") => now
    /\ (call.op = "line" /\ call.answer = "ok") => call.now = password

\* What a call that has looked relies on, as long as nobody disturbs it.
Checked(call, f) ==
    /\ (call.at \in {"look", "command"}) => call.label \in EntryLabels
    /\ (call.at \in {"look", "command"} /\ call.op = "rename") => call.to \in EntryLabels
    /\ (call.at = "look") => call.op = "rename"
    /\ (call.at \in {"init", "repository"}) => call.op = "recipients"
    /\ (call.at = "command" /\ call.op = "save") => Host!MayLieAt(call.content, call.label)
    /\ (call.at = "command" /\ call.op = "save" /\ ~call.overwrite /\ ~call.raced) =>
          f[call.label] = NoFile
    /\ (call.at \in {"look", "command"} /\ call.op = "rename" /\ call.label # call.to
            /\ ~call.raced) => f[call.to] = NoFile
    /\ (call.at = "command" /\ call.op =
        "rename" /\ call.label \in Shaped /\ ~call.raced) =>
          Host!MayLieAt(f[call.label], call.to)

CallInv(call, f, hasIds, hasHistory) ==
    /\ Answered(call, hasHistory) /\ Checked(call, f)
    /\ (call.at # "idle") => call.answer = "none"
    /\ (call.at \in {"asked", "served"}) => ~call.fresh
    /\ (call.at = "init" /\ call.fresh /\ ~call.raced) => (~hasIds /\ ~hasHistory)

\* Where a passkey lies that another program did not bring there.
Placed(f, known) ==
    \A l \in EntryLabels : (f[l] = passkey /\ mcNamed[l] # f[l]) => l \in known

HostInv ==
    /\ Host!TypeOK
    /\ \A c \in Callers : CallInv(calls[c], file, ids, history)
    /\ Placed(file, strays)

LEMMA HostInvSuffices ==
    ASSUME HostInv
    PROVE  /\ Host!CallsKeepToTheirEntry /\ Host!PasskeysStayInTheirPlace
           /\ Host!NewStoresHaveAHistory
<1>1. Host!CallsKeepToTheirEntry
  BY DEF HostInv, CallInv, Answered, Host!CallsKeepToTheirEntry
<1>2. Host!PasskeysStayInTheirPlace
  BY DEF HostInv, CallInv, Answered, Placed, Host!PasskeysStayInTheirPlace
<1>3. Host!NewStoresHaveAHistory
  BY DEF HostInv, CallInv, Answered, Host!NewStoresHaveAHistory
<1> QED
  BY <1>1, <1>2, <1>3

-----------------------------------------------------------------------------
(* What a step leaves of the other calls *)

LEMMA DisturbedCall ==
    ASSUME NEW old \in Host!Call, NEW f, NEW i, NEW h, CallInv(old, f, i, h),
           NEW g, NEW k \in BOOLEAN, NEW labels, NEW j,
           \A l \in EntryLabels : l \notin labels => g[l] = f[l], h => k,
           NEW new,
           new = IF Host!Relies(old, labels) THEN [old EXCEPT !.raced = TRUE] ELSE old
    PROVE  new \in Host!Call /\ CallInv(new, g, j, k)
<1>1. CASE Host!Relies(old, labels)
  <2>1. old.at \in {"look", "command", "init", "repository"}
    BY <1>1 DEF Host!Relies
  <2>2. /\ new \in Host!Call /\ new.raced /\ new.at = old.at /\ new.op = old.op
        /\ new.label = old.label
        /\ new.to = old.to /\ new.content = old.content /\ new.answer = old.answer
        /\ new.overwrite = old.overwrite /\ new.fresh = old.fresh
    BY <1>1 DEF Host!Call
  <2>3. Answered(new, k)
    BY <2>1, <2>2 DEF CallInv, Answered, Host!Undisturbed
  <2>4. Checked(new, g)
    BY <2>2 DEF CallInv, Checked
  <2> QED
    BY <2>1, <2>2, <2>3, <2>4 DEF CallInv
<1>2. CASE ~Host!Relies(old, labels)
  <2>1. new = old
    BY <1>2
  <2>2. Checked(old, f)
    BY DEF CallInv
  <2>3. old.at # "init"
    BY <1>2, <2>2 DEF Checked, Host!Relies
  <2>4. Checked(old, g)
    <3>1. old.at \in {"look", "command"} =>
              (old.label \notin labels /\ old.to \notin labels)
      BY <1>2 DEF Host!Relies
    <3>2. (old.at \in {"look", "command"}) => g[old.label] = f[old.label]
      BY <2>2, <3>1 DEF Checked
    <3>3. (old.at \in {"look", "command"} /\ old.op = "rename") => g[old.to] = f[old.to]
      BY <2>2, <3>1 DEF Checked
    <3> QED
      BY <2>2, <3>2, <3>3 DEF Checked
  <2>5. Answered(old, k)
    BY DEF CallInv, Answered
  <2> QED
    BY <2>1, <2>3, <2>4, <2>5 DEF CallInv
<1> QED
  BY <1>1, <1>2

LEMMA OwnStep ==
    ASSUME HostInv, NEW c \in Callers, NEW new \in Host!Call, calls' =
           [calls EXCEPT ![c] = new],
           UNCHANGED <<file, ids, history, strays>>, CallInv(new, file, ids, history),
           integrated' \in BOOLEAN, made' \in 0..MaxCalls, changes' \in 0..MaxChanges
    PROVE  HostInv'
<1>1. \A d \in Callers : calls'[d] = IF d = c THEN new ELSE calls[d]
  BY DEF HostInv, Host!TypeOK
<1>2. Host!TypeOK'
  BY DEF HostInv, Host!TypeOK
<1> QED
  BY <1>1, <1>2 DEF HostInv

LEMMA SharedStep ==
    ASSUME HostInv, NEW c \in Callers, NEW new \in Host!Call, NEW labels,
           calls' = [Host!Disturbed(calls, c, labels) EXCEPT ![c] = new],
           \A l \in EntryLabels : l \notin labels => file'[l] = file[l], history =>
               history',
           file' \in [EntryLabels -> Host!Entries], ids' \in BOOLEAN, history' \in BOOLEAN,
           strays' \subseteq EntryLabels, Placed(file', strays'),
           CallInv(new, file', ids', history'), UNCHANGED <<integrated, made, changes>>
    PROVE  HostInv'
<1>1. ASSUME NEW d \in Callers, d # c
      PROVE  calls'[d] \in Host!Call /\ CallInv(calls'[d], file', ids', history')
  <2>1. calls[d] \in Host!Call /\ CallInv(calls[d], file, ids, history)
    BY DEF HostInv, Host!TypeOK
  <2>2. calls'[d] = IF Host!Relies(calls[d], labels) THEN [calls[d] EXCEPT !.raced = TRUE]
                    ELSE calls[d]
    BY <1>1 DEF Host!Disturbed
  <2>3. PICK n : n = calls'[d]
    OBVIOUS
  <2>4. PICK old \in Host!Call : old = calls[d]
    BY <2>1
  <2>5. PICK g : g = file'
    OBVIOUS
  <2>6. PICK k \in BOOLEAN : k = history'
    OBVIOUS
  <2>7. PICK j : j = ids'
    OBVIOUS
  <2>8. n \in Host!Call /\ CallInv(n, g, j, k)
    BY SMTT(30), <2>1, <2>2, <2>3, <2>4, <2>5, <2>6, DisturbedCall
  <2> QED
    BY <2>3, <2>5, <2>6, <2>7, <2>8
<1>2. calls'[c] = new
  BY DEF Host!Disturbed
<1>3. calls' \in [Callers -> Host!Call]
  BY <1>1, <1>2 DEF Host!Disturbed
<1>4. Host!TypeOK'
  BY <1>3 DEF HostInv, Host!TypeOK
<1>5. \A d \in Callers : CallInv(calls'[d], file', ids', history')
  BY <1>1, <1>2
<1> QED
  BY <1>4, <1>5 DEF HostInv

-----------------------------------------------------------------------------
(* Calls that begin and end *)

LEMMA EndedFields ==
    ASSUME NEW call \in Host!Call, NEW answer \in Host!Answers
    PROVE  /\ Host!Ended(call, answer) \in Host!Call
           /\ Host!Ended(call, answer).op = call.op
           /\ Host!Ended(call, answer).answer = answer
           /\ Host!Ended(call, answer).fresh = call.fresh
           /\ Host!Ended(call, answer).raced = call.raced
           /\ Host!Ended(call, answer).at = "idle" /\ Host!Ended(call, answer).ran = FALSE
           /\ Host!Ended(call, answer).now = NoFile
<1>1. Host!NoCall \in Host!Call
  BY DEF Host!NoCall, Host!Call, Host!Contents, Host!Entries, Host!Answers
<1>2. call.op \in Host!Ops \cup {"none"} /\ call.fresh \in BOOLEAN /\ call.raced \in BOOLEAN
  BY DEF Host!Call
<1> QED
  BY ZenonT(60), <1>1, <1>2 DEF Host!Ended, Host!NoCall, Host!Call

\* A refusal, or a failure before any command that writes.
LEMMA Refused ==
    ASSUME NEW call \in Host!Call, NEW answer \in Host!Answers \ {"ok"}, NEW f, NEW i, NEW h
    PROVE  /\ Host!Ended(call, answer) \in Host!Call
           /\ CallInv(Host!Ended(call, answer), f, i, h)
<1>1. PICK e \in Host!Call :
          /\ e = Host!Ended(call, answer) /\ e.answer = answer /\ e.at = "idle"
          /\ e.ran = FALSE
  BY EndedFields
<1>2. Answered(e, h) /\ Checked(e, f)
  BY <1>1 DEF Answered, Checked
<1> QED
  BY <1>1, <1>2 DEF CallInv

LEMMA AskInv ==
    ASSUME HostInv, NamesFit, NEW c \in Callers, NEW call \in Host!Call, Host!Ask(c, call),
           call.answer = "none", ~call.fresh
    PROVE  HostInv'
<1>1. PICK at \in {"asked", "served"} : at = IF integrated THEN "served" ELSE "asked"
  OBVIOUS
<1>2. PICK new : new = [call EXCEPT !.at = at]
  OBVIOUS
<1>3. new \in Host!Call /\ new.at = at /\ new.answer = "none" /\ ~new.fresh
  BY <1>2 DEF Host!Call
<1>4. calls' = [calls EXCEPT ![c] = new]
  BY <1>1, <1>2 DEF Host!Ask, Host!Dispatch, Host!Set
<1>5. CallInv(new, file, ids, history)
  BY <1>3 DEF CallInv, Answered, Checked, Host!Undisturbed
<1>6. made' \in 0..MaxCalls
  BY DEF Host!Ask, NamesFit, HostInv, Host!TypeOK
<1>7. UNCHANGED <<file, ids, history, integrated, strays, changes>>
  BY DEF Host!Ask
<1> QED
  BY <1>3, <1>4, <1>5, <1>6, <1>7, OwnStep DEF HostInv, Host!TypeOK

LEMMA CallsBegin ==
    ASSUME HostInv, NamesFit, NEW c \in Callers,
           \/ Host!Read(c) \/ Host!Save(c) \/ Host!Rename(c) \/ Host!Delete(c)
           \/ Host!SaveRecipients(c) \/ Host!Import(c)
    PROVE  HostInv'
<1>1. Host!NoCall \in Host!Call /\ Host!NoCall.answer = "none" /\ ~Host!NoCall.fresh
  BY DEF Host!NoCall, Host!Call, Host!Contents, Host!Entries, Host!Answers
<1>2. PICK n \in Host!Call : n = Host!NoCall /\ n.answer = "none" /\ ~n.fresh
  BY <1>1
<1>3. CASE Host!Read(c)
  <2>1. PICK op \in {"read", "line"}, l \in EntryLabels \cup {Escaping} :
           Host!Ask(c, [n EXCEPT !.op = op, !.label = l])
    BY <1>2, <1>3 DEF Host!Read
  <2>2. PICK call : call = [n EXCEPT !.op = op, !.label = l]
    OBVIOUS
  <2>3. call \in Host!Call /\ call.answer = "none" /\ ~call.fresh
    BY ZenonT(60), <1>2, <2>2 DEF Host!Call, Host!Ops
  <2> QED
    BY <2>1, <2>2, <2>3, AskInv
<1>4. CASE Host!Save(c)
  <2>1. PICK l \in EntryLabels \cup {Escaping}, content \in Host!Contents, over \in
            BOOLEAN :
           Host!Ask(c, [n EXCEPT !.op = "save", !.label = l, !.content = content,
                                 !.overwrite = over])
    BY <1>2, <1>4 DEF Host!Save
  <2>2. PICK call : call = [n EXCEPT !.op = "save", !.label = l, !.content = content,
                                     !.overwrite = over]
    OBVIOUS
  <2>3. call \in Host!Call /\ call.answer = "none" /\ ~call.fresh
    BY ZenonT(60), <1>2, <2>2 DEF Host!Call, Host!Ops
  <2> QED
    BY <2>1, <2>2, <2>3, AskInv
<1>5. CASE Host!Rename(c)
  <2>1. PICK l \in EntryLabels \cup {Escaping}, m \in EntryLabels \cup {Escaping} :
           Host!Ask(c, [n EXCEPT !.op = "rename", !.label = l, !.to = m])
    BY <1>2, <1>5 DEF Host!Rename
  <2>2. PICK call : call = [n EXCEPT !.op = "rename", !.label = l, !.to = m]
    OBVIOUS
  <2>3. call \in Host!Call /\ call.answer = "none" /\ ~call.fresh
    BY ZenonT(60), <1>2, <2>2 DEF Host!Call, Host!Ops
  <2> QED
    BY <2>1, <2>2, <2>3, AskInv
<1>6. CASE Host!Delete(c)
  <2>1. PICK l \in EntryLabels \cup {Escaping} :
            Host!Ask(c, [n EXCEPT !.op = "delete", !.label = l])
    BY <1>2, <1>6 DEF Host!Delete
  <2>2. PICK call : call = [n EXCEPT !.op = "delete", !.label = l]
    OBVIOUS
  <2>3. call \in Host!Call /\ call.answer = "none" /\ ~call.fresh
    BY <1>2, <2>2 DEF Host!Call, Host!Ops
  <2> QED
    BY <2>1, <2>2, <2>3, AskInv
<1>7. CASE Host!SaveRecipients(c)
  <2>1. PICK dir \in {Root, Nested, Escaping} :
           Host!Ask(c, [n EXCEPT !.op = "recipients", !.label = dir])
    BY <1>2, <1>7 DEF Host!SaveRecipients
  <2>2. PICK call : call = [n EXCEPT !.op = "recipients", !.label = dir]
    OBVIOUS
  <2>3. call \in Host!Call /\ call.answer = "none" /\ ~call.fresh
    BY ZenonT(60), <1>2, <2>2 DEF Host!Call, Host!Ops
  <2> QED
    BY <2>1, <2>2, <2>3, AskInv
<1>8. CASE Host!Import(c)
  <2>1. PICK content \in {passkey}, l \in EntryLabels :
           Host!Ask(c, [n EXCEPT !.op = "save", !.label = l, !.content = content])
    BY <1>2, <1>8 DEF Host!Import
  <2>2. PICK call : call = [n EXCEPT !.op = "save", !.label = l, !.content = content]
    OBVIOUS
  <2>3. call \in Host!Call /\ call.answer = "none" /\ ~call.fresh
    BY <1>2, <2>2 DEF Host!Call, Host!Ops, Host!Contents
  <2> QED
    BY <2>1, <2>2, <2>3, AskInv
<1> QED
  BY <1>3, <1>4, <1>5, <1>6, <1>7, <1>8

LEMMA ValidateInv ==
    ASSUME HostInv, NEW c \in Callers, Host!Validate(c)
    PROVE  HostInv'
<1>1. PICK call \in Host!Call : call = calls[c]
  BY DEF HostInv, Host!TypeOK
<1>2. PICK target : target = IF call.op = "rename" THEN call.to ELSE call.label
  OBVIOUS
<1>3. call.at = "asked" /\ call.op # "recipients" /\ CallInv(call, file, ids, history)
  BY <1>1 DEF Host!Validate, HostInv
<1>4. UNCHANGED <<file, ids, history, integrated, strays, made, changes>>
  BY DEF Host!Validate
<1>5. ASSUME NEW new \in Host!Call, calls' = [calls EXCEPT ![c] = new],
             CallInv(new, file, ids, history)
      PROVE  HostInv'
  BY <1>4, <1>5, OwnStep DEF HostInv, Host!TypeOK
<1>6. CASE \E answer \in {"invalid", "exists", "other"} : Host!Ends(c, answer)
  <2>1. PICK answer \in Host!Answers \ {"ok"} : Host!Ends(c, answer)
    BY <1>6 DEF Host!Answers
  <2>2. calls' = [calls EXCEPT ![c] = Host!Ended(call, answer)]
    BY <1>1, <2>1 DEF Host!Ends, Host!Set
  <2> QED
    BY <1>5, <2>2, Refused
<1>7. CASE ~\E answer \in {"invalid", "exists", "other"} : Host!Ends(c, answer)
  <2>1. /\ call.label \in EntryLabels /\ target \in EntryLabels
        /\ (call.op = "rename" /\ call.label # call.to) => file[target] = NoFile
        /\ (call.op = "save" /\ ~call.overwrite) => file[target] = NoFile
        /\ (call.op = "save") => Host!MayLieAt(call.content, target)
        /\ Host!Goes(c, IF call.op =
                     "rename" /\ Host!LooksLikePasskey(call.label) THEN "look"
                        ELSE "command")
    BY <1>1, <1>2, <1>7 DEF Host!Validate, Host!ValidLabel, Host!IsFree
  <2>2. PICK at \in {"look", "command"} :
           at = IF call.op = "rename" /\ call.label \in Shaped THEN "look" ELSE "command"
    OBVIOUS
  <2>3. PICK new : new = [call EXCEPT !.at = at]
    OBVIOUS
  <2>4. new \in Host!Call /\ new.at = at /\ new.op = call.op /\ new.label = call.label
        /\ new.to = call.to /\ new.content = call.content /\ new.answer = call.answer
        /\ new.overwrite = call.overwrite /\ new.fresh = call.fresh
    BY <2>3 DEF Host!Call
  <2>5. calls' = [calls EXCEPT ![c] = new]
    BY <1>1, <2>1, <2>2, <2>3 DEF Host!Goes, Host!Set, Host!LooksLikePasskey
  <2>6. call.answer = "none"
    BY <1>3 DEF CallInv
  <2>7. Checked(new, file)
    BY <1>2, <2>1, <2>2, <2>4 DEF Checked
  <2>8. CallInv(new, file, ids, history)
    BY <2>4, <2>6, <2>7 DEF CallInv, Answered, Host!Undisturbed
  <2> QED
    BY <1>5, <2>4, <2>5, <2>8
<1> QED
  BY <1>6, <1>7

-----------------------------------------------------------------------------
(* Calls that look and show *)

LEMMA FailureAnswers ==
    ASSUME NEW op,
           NEW message \in {"missing", "exists", "noKey", "locked", "incompatible", "other"}
    PROVE  /\ Host!Failure(op, message) \in Host!Answers \ {"ok"}
           /\ Host!Failure(op, message) \notin {"invalid", "nested"}
           /\ message # "exists" => Host!Failure(op, message) # "exists"
BY DEF Host!Failure, Host!Answers

LEMMA LookInv ==
    ASSUME HostInv, NEW c \in Callers, Host!Look(c)
    PROVE  HostInv'
<1>1. PICK call \in Host!Call : call = calls[c]
  BY DEF HostInv, Host!TypeOK
<1>2. call.at = "look" /\ CallInv(call, file, ids, history)
  BY <1>1 DEF Host!Look, HostInv
<1>3. UNCHANGED <<file, ids, history, integrated, strays, made, changes>>
  BY DEF Host!Look
<1>4. ASSUME NEW new \in Host!Call, calls' = [calls EXCEPT ![c] = new],
             CallInv(new, file, ids, history)
      PROVE  HostInv'
  BY <1>3, <1>4, OwnStep DEF HostInv, Host!TypeOK
<1>5. CASE \E answer \in Host!Answers \ {"ok"} : Host!Ends(c, answer)
  <2>1. PICK answer \in Host!Answers \ {"ok"} : Host!Ends(c, answer)
    BY <1>5
  <2>2. calls' = [calls EXCEPT ![c] = Host!Ended(call, answer)]
    BY <1>1, <2>1 DEF Host!Ends, Host!Set
  <2> QED
    BY <1>4, <2>2, Refused
<1>6. CASE Host!MayLieAt(file[call.label], call.to) /\ Host!Goes(c, "command")
  <2>1. PICK new : new = [call EXCEPT !.at = "command"]
    OBVIOUS
  <2>2. /\ new \in Host!Call /\ new.at = "command" /\ new.op = call.op
        /\ new.label = call.label
        /\ new.to = call.to /\ new.content = call.content /\ new.answer = call.answer
        /\ new.overwrite = call.overwrite /\ new.fresh = call.fresh
        /\ new.raced = call.raced
    BY <2>1 DEF Host!Call
  <2>3. calls' = [calls EXCEPT ![c] = new]
    BY <1>1, <1>6, <2>1 DEF Host!Goes, Host!Set
  <2>4. call.op = "rename" /\ call.answer = "none" /\ Checked(call, file)
    BY <1>2 DEF CallInv, Checked
  <2>5. Checked(new, file)
    BY <1>2, <1>6, <2>2, <2>4 DEF Checked
  <2>6. CallInv(new, file, ids, history)
    BY <2>2, <2>4, <2>5 DEF CallInv, Answered, Host!Undisturbed
  <2> QED
    BY <1>4, <2>2, <2>3, <2>6
<1>7. \/ \E answer \in Host!Answers \ {"ok"} : Host!Ends(c, answer)
      \/ Host!MayLieAt(file[call.label], call.to) /\ Host!Goes(c, "command")
  <2>1. /\ "other" \in Host!Answers \ {"ok"}
        /\ Host!Failure("read", "missing") \in Host!Answers \ {"ok"}
        /\ \A message \in {"noKey", "locked", "incompatible", "other"} :
              Host!Failure("read", message) \in Host!Answers \ {"ok"}
    BY FailureAnswers DEF Host!Answers
  <2> QED
    BY <1>1, <2>1 DEF Host!Look
<1> QED
  BY <1>5, <1>6, <1>7

\* A call that shows what it was asked for.
LEMMA Shown ==
    ASSUME NEW call \in Host!Call, NEW content \in
           Host!Contents, Host!CanBeUsed(call.op, content),
           call.op \in {"read", "line"}, NEW new,
           new = [Host!Ended(call, "ok") EXCEPT !.now = content], NEW f, NEW i, NEW h
    PROVE  new \in Host!Call /\ CallInv(new, f, i, h)
<1>0. "ok" \in Host!Answers
  BY DEF Host!Answers
<1>1. PICK e \in Host!Call :
          /\ e = Host!Ended(call, "ok") /\ e.op = call.op /\ e.answer = "ok"
          /\ e.at = "idle" /\ e.ran = FALSE
  BY <1>0, EndedFields
<1>2. content \in Host!Entries
  BY DEF Host!Entries
<1>3. /\ new \in Host!Call /\ new.op = call.op /\ new.at = "idle" /\ new.ran = FALSE
      /\ new.now = content
  BY <1>1, <1>2 DEF Host!Call
<1>4. (call.op = "line") => content = password
  BY DEF Host!CanBeUsed, Host!IsPassword, Host!IsPasskey, Host!Contents
<1>5. Answered(new, h)
  BY <1>3, <1>4 DEF Answered
<1>6. Checked(new, f)
  BY <1>3 DEF Checked
<1> QED
  BY <1>3, <1>5, <1>6 DEF CallInv

LEMMA ShowInv ==
    ASSUME HostInv, NEW c \in Callers, Host!Show(c) \/ Host!IntegratedRead(c)
    PROVE  HostInv'
<1>1. PICK call \in Host!Call : call = calls[c]
  BY DEF HostInv, Host!TypeOK
<1>2. call.op \in {"read", "line"}
  BY <1>1 DEF Host!Show, Host!IntegratedRead
<1>3. UNCHANGED <<file, ids, history, integrated, strays, made, changes>>
  BY DEF Host!Show, Host!IntegratedRead
<1>4. ASSUME NEW new \in Host!Call, calls' = [calls EXCEPT ![c] = new],
             CallInv(new, file, ids, history)
      PROVE  HostInv'
  BY <1>3, <1>4, OwnStep DEF HostInv, Host!TypeOK
<1>5. CASE \E answer \in Host!Answers \ {"ok"} : Host!Ends(c, answer)
  <2>1. PICK answer \in Host!Answers \ {"ok"} : Host!Ends(c, answer)
    BY <1>5
  <2>2. calls' = [calls EXCEPT ![c] = Host!Ended(call, answer)]
    BY <1>1, <2>1 DEF Host!Ends, Host!Set
  <2> QED
    BY <1>4, <2>2, Refused
<1>6. CASE \E content \in Host!Contents :
          /\ Host!CanBeUsed(call.op, content)
          /\ Host!Set(c, [Host!Ended(call, "ok") EXCEPT !.now = content])
  <2>1. PICK content \in Host!Contents :
            /\ Host!CanBeUsed(call.op, content)
            /\ Host!Set(c, [Host!Ended(call, "ok") EXCEPT !.now = content])
    BY <1>6
  <2>2. PICK new : new = [Host!Ended(call, "ok") EXCEPT !.now = content]
    OBVIOUS
  <2>3. calls' = [calls EXCEPT ![c] = new]
    BY <2>1, <2>2 DEF Host!Set
  <2> QED
    BY <1>2, <1>4, <2>1, <2>2, <2>3, Shown
<1>7. \/ \E answer \in Host!Answers \ {"ok"} : Host!Ends(c, answer)
      \/ \E content \in Host!Contents :
          /\ Host!CanBeUsed(call.op, content)
          /\ Host!Set(c, [Host!Ended(call, "ok") EXCEPT !.now = content])
  <2>1. /\ "other" \in Host!Answers \ {"ok"}
        /\ Host!Failure(call.op, "missing") \in Host!Answers \ {"ok"}
        /\ \A message \in {"noKey", "locked", "incompatible", "other"} :
              Host!Failure(call.op, message) \in Host!Answers \ {"ok"}
    BY FailureAnswers DEF Host!Answers
  <2>2. CASE Host!Show(c)
    BY <1>1, <2>1, <2>2 DEF Host!Show
  <2>3. CASE Host!IntegratedRead(c)
    <3>1. PICK content :
              content = IF call.label \in EntryLabels THEN file[call.label] ELSE NoFile
      OBVIOUS
    <3>2. \/ /\ content \in Host!Contents /\ Host!CanBeUsed(call.op, content)
             /\ Host!Set(c, [Host!Ended(call, "ok") EXCEPT !.now = content])
          \/ Host!Ends(c, "other")
      BY <1>1, <2>3, <3>1 DEF Host!IntegratedRead
    <3> QED
      BY <2>1, <3>2
  <2> QED
    BY <2>2, <2>3
<1> QED
  BY <1>5, <1>6, <1>7

-----------------------------------------------------------------------------
(* Commands that write *)

LEMMA RanInv ==
    ASSUME NEW call \in Host!Call, NEW label, file[label] \in Host!Entries, NEW after \in
           Host!Entries,
           NEW answer \in Host!Answers, NEW new, new =
               Host!RanTo(call, label, after, answer),
           NEW f, NEW i, NEW h, call.op \in Host!Writes,
           ~call.raced =>
              /\ (call.op = "save" /\ ~call.overwrite) => file[label] = NoFile
              /\ (call.op = "rename" /\ call.label # call.to) => file[label] = NoFile
              /\ answer \notin {"invalid", "nested", "exists"}
              /\ (answer = "ok" /\ call.op = "save") => after = call.content
              /\ (answer = "ok" /\ call.op = "rename") => after \in Host!Contents
              /\ (answer = "ok" /\ call.op = "delete") => after = NoFile
    PROVE  new \in Host!Call /\ CallInv(new, f, i, h)
<1>1. /\ new \in Host!Call /\ new.op = call.op /\ new.answer = answer
      /\ new.raced = call.raced
      /\ new.at = "idle" /\ new.ran = TRUE /\ new.now = after /\ new.content = call.content
      /\ new.overwrite = call.overwrite
      /\ (call.op = "rename" /\ call.label = call.to) => new.was = NoFile
      /\ ~(call.op = "rename" /\ call.label = call.to) => new.was = file[label]
  <2>1. PICK e \in Host!Call :
            /\ e = Host!Ended(call, answer) /\ e.op = call.op /\ e.answer = answer
            /\ e.raced = call.raced /\ e.at = "idle"
    BY EndedFields
  <2>2. PICK was \in Host!Entries :
           was = IF call.op = "rename" /\ call.label = call.to THEN NoFile ELSE file[label]
    BY DEF Host!Entries
  <2>3. call.content \in Host!Contents /\ call.overwrite \in BOOLEAN
    BY DEF Host!Call
  <2>4. new = [e EXCEPT !.content = call.content, !.overwrite = call.overwrite,
                        !.ran = TRUE, !.was = was, !.now = after]
    BY <2>1, <2>2 DEF Host!RanTo
  <2> QED
    BY ZenonT(60), <2>1, <2>2, <2>3, <2>4 DEF Host!Call
<1>2. Answered(new, h)
  BY <1>1 DEF Answered, Host!Undisturbed, Host!Writes
<1>3. Checked(new, f)
  BY <1>1 DEF Checked
<1> QED
  BY <1>1, <1>2, <1>3 DEF CallInv

LEMMA InsertInv ==
    ASSUME HostInv, NamesFit, NEW c \in Callers, Host!Insert(c)
    PROVE  HostInv'
<1>1. PICK call \in Host!Call : call = calls[c]
  BY DEF HostInv, Host!TypeOK
<1>2. call.at = "command" /\ call.op = "save" /\ Checked(call, file)
  BY <1>1 DEF Host!Insert, HostInv, CallInv
<1>3. PICK label \in EntryLabels : label = call.label
  BY <1>2 DEF Checked
<1>4. PICK outcome \in Host!InsertOutcomes(call) :
         /\ file' = [file EXCEPT ![label] = outcome.file]
         /\ strays' = IF outcome.file = file[label] THEN strays ELSE strays \ {label}
         /\ calls' = [Host!Disturbed(calls, c, {label})
                        EXCEPT ![c] = Host!RanTo(call, label, outcome.file, outcome.answer)]
  BY <1>1, <1>3 DEF Host!Insert
<1>5. PICK old \in Host!Entries : old = file[label]
  BY <1>3 DEF HostInv, Host!TypeOK
<1>6. /\ outcome.file = old \/ outcome.file = call.content
      /\ outcome.answer \in Host!Answers
      /\ ~(old \in Host!Contents /\ ~call.overwrite) =>
            /\ outcome.answer \notin {"invalid", "nested", "exists"}
            /\ (outcome.answer = "ok") => outcome.file = call.content
  <2>1. PICK n \in Host!Answers \ {"ok"} : /\ n = Host!Failure("save", "noKey")
                                           /\ n \notin {"invalid", "nested", "exists"}
    BY FailureAnswers
  <2>2. PICK o \in Host!Answers \ {"ok"} : /\ o = Host!Failure("save", "other")
                                           /\ o \notin {"invalid", "nested", "exists"}
    BY FailureAnswers
  <2>3. \/ outcome = [file |-> old, answer |-> n]
        \/ outcome = [file |-> old, answer |-> o]
        \/ outcome = [file |-> call.content, answer |-> "other"]
        \/ outcome = [file |-> call.content, answer |-> "ok"]
        \/ /\ old \in Host!Contents /\ ~call.overwrite
           /\ \/ outcome = [file |-> old, answer |-> "ok"]
              \/ outcome = [file |-> old, answer |-> "exists"]
    BY <1>3, <1>4, <1>5, <2>1, <2>2 DEF Host!InsertOutcomes
  <2> QED
    BY <2>1, <2>2, <2>3 DEF Host!Answers
<1>7. call.content \in Host!Contents /\ Host!MayLieAt(call.content, label)
  BY <1>2, <1>3 DEF Checked, Host!Call
<1>8. PICK after \in Host!Entries : after = outcome.file
  BY <1>5, <1>6, <1>7 DEF Host!Entries
<1>9. PICK new : new = Host!RanTo(call, label, after, outcome.answer)
  OBVIOUS
<1>10. (~call.raced /\ ~call.overwrite) => old = NoFile
  BY <1>2, <1>3, <1>5 DEF Checked
<1>11. new \in Host!Call /\ CallInv(new, file', ids', history')
  <2>1. ~call.raced =>
           /\ (call.op = "save" /\ ~call.overwrite) => file[label] = NoFile
           /\ (call.op = "rename" /\ call.label # call.to) => file[label] = NoFile
           /\ outcome.answer \notin {"invalid", "nested", "exists"}
           /\ (outcome.answer = "ok" /\ call.op = "save") => after = call.content
           /\ (outcome.answer = "ok" /\ call.op = "rename") => after \in Host!Contents
           /\ (outcome.answer = "ok" /\ call.op = "delete") => after = NoFile
    BY <1>2, <1>5, <1>6, <1>8, <1>10 DEF NamesFit
  <2>2. PICK answer \in Host!Answers : answer = outcome.answer
    BY <1>6
  <2>3. call.op \in Host!Writes /\ file[label] \in Host!Entries
    BY <1>2, <1>5 DEF Host!Writes
  <2> QED
    BY <1>9, <2>1, <2>2, <2>3, RanInv
<1>12. file' \in [EntryLabels -> Host!Entries] /\ \A l \in EntryLabels : l \notin {label} =>
           file'[l] = file[l]
  BY <1>4, <1>8 DEF HostInv, Host!TypeOK
<1>13. strays' \subseteq EntryLabels
  BY <1>4 DEF HostInv, Host!TypeOK
<1>14. Placed(file', strays')
  <2>1. file'[label] = after
    BY <1>4, <1>8 DEF HostInv, Host!TypeOK
  <2>2. CASE after = old
    <3>1. strays' = strays /\ \A l \in EntryLabels : file'[l] = file[l]
      BY <1>4, <1>5, <1>8, <1>12, <2>1, <2>2
    <3> QED
      BY <3>1 DEF HostInv, Placed
  <2>3. CASE after # old
    <3>1. after = call.content /\ strays' = strays \ {label}
      BY <1>4, <1>5, <1>6, <1>8, <2>3
    <3>2. after = passkey => mcNamed[label] = after
      BY <1>7, <3>1 DEF Host!MayLieAt, Host!IsPasskey, Host!IsNamedAfter
    <3> QED
      BY <1>12, <2>1, <3>1, <3>2 DEF HostInv, Placed
  <2> QED
    BY <2>2, <2>3
<1>15. calls' = [Host!Disturbed(calls, c, {label}) EXCEPT ![c] = new]
  BY <1>4, <1>8, <1>9
<1>16. UNCHANGED <<ids, history, integrated, made, changes>>
  BY DEF Host!Insert
<1>17. ids' \in BOOLEAN /\ history' \in BOOLEAN
  BY <1>16 DEF HostInv, Host!TypeOK
<1> QED
  BY <1>11, <1>12, <1>13, <1>14, <1>15, <1>16, <1>17, SharedStep

LEMMA HostMoveInv ==
    ASSUME HostInv, NamesFit, NEW c \in Callers, Host!Move(c)
    PROVE  HostInv'
<1>1. PICK call \in Host!Call : call = calls[c]
  BY DEF HostInv, Host!TypeOK
<1>2. call.at = "command" /\ call.op = "rename" /\ Checked(call, file)
  BY <1>1 DEF Host!Move, HostInv, CallInv
<1>3. PICK label \in EntryLabels, to \in EntryLabels : label = call.label /\ to = call.to
  BY <1>2 DEF Checked
<1>4. PICK old \in Host!Entries : old = file[label]
  BY <1>3 DEF HostInv, Host!TypeOK
<1>5. PICK moved : moved = [file EXCEPT ![label] = NoFile, ![to] = old]
  OBVIOUS
<1> DEFINE Stray == old \in Host!Contents /\ (call.raced \/ label \in strays)
           Ran(answer, result) ==
               /\ file' = result
               /\ strays' = IF result = file THEN strays
                            ELSE (strays \ {label, to}) \cup (IF Stray THEN {to} ELSE {})
               /\ calls' = [Host!Disturbed(calls, c, IF result =
                                           file THEN {} ELSE {label, to})
                              EXCEPT ![c] = Host!RanTo(call, to, result[to], answer)]
           Fits(answer, result) ==
               /\ answer \in Host!Answers
               /\ \/ result = file
                  \/ result = moved /\ label # to /\ old \in Host!Contents
               /\ ~(label # to /\ file[to] # NoFile) =>
                     /\ answer \notin {"invalid", "nested", "exists"}
                     /\ (answer = "ok") => (result = moved /\ old \in Host!Contents)
<1>6. PICK answer, result : Ran(answer, result) /\ Fits(answer, result)
  <2>1. \/ Ran(Host!Failure("rename", "missing"), file)
        \/ Ran("other", file)
        \/ /\ old \in Host!Contents /\ label # to
           /\ \/ Ran("ok", moved) \/ Ran("other", moved)
              \/ file[to] # NoFile /\ (Ran("ok", file) \/ Ran("exists", file))
    BY <1>1, <1>3, <1>4, <1>5 DEF Host!Move
  <2>2. PICK missing \in Host!Answers \ {"ok"} :
            /\ missing = Host!Failure("rename", "missing")
            /\ missing \notin {"invalid", "nested", "exists"}
    BY FailureAnswers
  <2>3. CASE Ran(missing, file)
    <3>1. Fits(missing, file)
      BY <2>2
    <3> QED
      BY <2>3, <3>1
  <2>4. CASE Ran("other", file)
    <3>1. Fits("other", file)
      BY DEF Host!Answers
    <3> QED
      BY <2>4, <3>1
  <2>5. CASE old \in Host!Contents /\ label # to /\ Ran("ok", moved)
    <3>1. Fits("ok", moved)
      BY <2>5 DEF Host!Answers
    <3> QED
      BY <2>5, <3>1
  <2>6. CASE old \in Host!Contents /\ label # to /\ Ran("other", moved)
    <3>1. Fits("other", moved)
      BY <2>6 DEF Host!Answers
    <3> QED
      BY <2>6, <3>1
  <2>7. CASE label # to /\ file[to] # NoFile /\ Ran("ok", file)
    <3>1. Fits("ok", file)
      BY <2>7 DEF Host!Answers
    <3> QED
      BY <2>7, <3>1
  <2>8. CASE label # to /\ file[to] # NoFile /\ Ran("exists", file)
    <3>1. Fits("exists", file)
      BY <2>8 DEF Host!Answers
    <3> QED
      BY <2>8, <3>1
  <2> HIDE DEF Ran, Fits
  <2> QED
    BY <2>1, <2>2, <2>3, <2>4, <2>5, <2>6, <2>7, <2>8
<1>7. /\ file \in [EntryLabels -> Host!Entries] /\ strays \subseteq EntryLabels
      /\ NoFile \in Host!Entries
  BY DEF HostInv, Host!TypeOK, Host!Entries
<1>8. moved \in [EntryLabels -> Host!Entries] /\ moved[to] = old
      /\ (label # to => moved[label] = NoFile)
      /\ \A l \in EntryLabels : l \notin {label, to} => moved[l] = file[l]
  BY <1>5, <1>7
<1>9. result \in [EntryLabels -> Host!Entries] /\ \A l \in EntryLabels :
          l \notin {label, to} => result[l] = file[l]
  BY <1>6, <1>7, <1>8
<1>10. PICK after \in Host!Entries : after = result[to]
  BY <1>9
<1>11. PICK new : new = Host!RanTo(call, to, after, answer)
  OBVIOUS
<1>12. (~call.raced /\ label # to) => file[to] = NoFile
  BY <1>2, <1>3 DEF Checked
<1>13. new \in Host!Call /\ CallInv(new, file', ids', history')
  <2>1. ~call.raced =>
           /\ (call.op = "save" /\ ~call.overwrite) => file[to] = NoFile
           /\ (call.op = "rename" /\ call.label # call.to) => file[to] = NoFile
           /\ answer \notin {"invalid", "nested", "exists"}
           /\ (answer = "ok" /\ call.op = "save") => after = call.content
           /\ (answer = "ok" /\ call.op = "rename") => after \in Host!Contents
           /\ (answer = "ok" /\ call.op = "delete") => after = NoFile
    BY <1>2, <1>3, <1>6, <1>8, <1>10, <1>12
  <2>2. call.op \in Host!Writes /\ file[to] \in Host!Entries /\ answer \in Host!Answers
    BY <1>2, <1>6, <1>7 DEF Host!Writes
  <2> QED
    BY <1>11, <2>1, <2>2, RanInv
<1>14. strays' \subseteq EntryLabels
  BY <1>6, <1>7
<1>15. Placed(file', strays')
  <2>1. Placed(file, strays)
    BY DEF HostInv
  <2>2. CASE result = file
    BY <1>6, <2>1, <2>2
  <2>3. CASE result # file
    <3>1. /\ file' = moved /\ label # to /\ old \in Host!Contents
          /\ strays' = (strays \ {label, to}) \cup (IF Stray THEN {to} ELSE {})
      BY <1>6, <2>3
    <3>2. ASSUME old = passkey, mcNamed[to] # old, ~Stray
          PROVE  FALSE
      <4>1. ~call.raced /\ label \notin strays
        BY <3>1, <3>2
      <4>2. mcNamed[label] = old
        BY <1>4, <2>1, <3>2, <4>1 DEF Placed
      <4>3. label \in Shaped
        BY <3>2, <4>2 DEF NamesFit
      <4>4. Host!MayLieAt(old, to)
        BY <1>2, <1>3, <1>4, <4>1, <4>3 DEF Checked
      <4> QED
        BY <3>2, <4>4 DEF Host!MayLieAt, Host!IsPasskey, Host!IsNamedAfter
    <3>3. NoFile # passkey
      BY DEF NamesFit, Host!Contents
    <3> HIDE DEF Stray
    <3>4. ASSUME NEW l \in EntryLabels, moved[l] = passkey, mcNamed[l] # moved[l]
          PROVE  l \in strays'
      <4>1. CASE l = to
        BY <1>8, <3>1, <3>2, <3>4, <4>1
      <4>2. CASE l = label /\ l # to
        BY <1>8, <3>3, <3>4, <4>2
      <4>3. CASE l # label /\ l # to
        BY <1>8, <2>1, <3>1, <3>4, <4>3 DEF Placed
      <4> QED
        BY <4>1, <4>2, <4>3
    <3> QED
      BY <3>1, <3>4 DEF Placed
  <2> QED
    BY <2>2, <2>3
<1>16. PICK labels : /\ labels = IF result = file THEN {} ELSE {label, to}
                     /\ \A l \in EntryLabels : l \notin labels => result[l] = file[l]
  BY <1>9
<1>17. calls' = [Host!Disturbed(calls, c, labels) EXCEPT ![c] = new]
  BY <1>6, <1>10, <1>11, <1>16
<1>18. UNCHANGED <<ids, history, integrated, made, changes>>
  BY DEF Host!Move
<1>19. file' = result /\ ids' \in BOOLEAN /\ history' \in BOOLEAN /\ (history => history')
  BY <1>6, <1>18 DEF HostInv, Host!TypeOK
<1>20. file' \in [EntryLabels -> Host!Entries] /\ \A l \in EntryLabels : l \notin labels =>
           file'[l] = file[l]
  BY <1>9, <1>16, <1>19
<1> HIDE DEF Ran, Fits, Stray
<1> QED
  BY <1>13, <1>14, <1>15, <1>17, <1>18, <1>19, <1>20, SharedStep

LEMMA HostRemoveInv ==
    ASSUME HostInv, NamesFit, NEW c \in Callers, Host!Remove(c)
    PROVE  HostInv'
<1>1. PICK call \in Host!Call : call = calls[c]
  BY DEF HostInv, Host!TypeOK
<1>2. call.at = "command" /\ call.op = "delete" /\ Checked(call, file)
  BY <1>1 DEF Host!Remove, HostInv, CallInv
<1>3. PICK label \in EntryLabels : label = call.label
  BY <1>2 DEF Checked
<1>4. PICK old \in Host!Entries : old = file[label]
  BY <1>3 DEF HostInv, Host!TypeOK
<1> DEFINE Ran(answer, after) ==
               /\ file' = [file EXCEPT ![label] = after]
               /\ strays' = IF after = NoFile THEN strays \ {label} ELSE strays
               /\ calls' = [Host!Disturbed(calls, c, {label})
                              EXCEPT ![c] = Host!RanTo(call, label, after, answer)]
           Fits(answer, after) ==
               /\ answer \in Host!Answers /\ answer \notin {"invalid", "nested", "exists"}
               /\ after = old \/ after = NoFile
               /\ (answer = "ok") => after = NoFile
<1>5. PICK answer, after : Ran(answer, after) /\ Fits(answer, after)
  <2>1. \/ Ran(Host!Failure("delete", "missing"), old)
        \/ Ran("ok", NoFile) \/ Ran("other", NoFile) \/ Ran("other", old)
    BY <1>1, <1>3, <1>4 DEF Host!Remove
  <2>2. PICK missing \in Host!Answers \ {"ok"} :
            /\ missing = Host!Failure("delete", "missing")
            /\ missing \notin {"invalid", "nested", "exists"}
    BY FailureAnswers
  <2>3. /\ Fits(missing, old) /\ Fits("ok", NoFile) /\ Fits("other", NoFile)
        /\ Fits("other", old)
    BY <2>2 DEF Host!Answers
  <2> HIDE DEF Ran, Fits
  <2> QED
    BY <2>1, <2>2, <2>3
<1>6. after \in Host!Entries /\ answer \in Host!Answers
  BY <1>4, <1>5 DEF Host!Entries
<1>7. PICK new : new = Host!RanTo(call, label, after, answer)
  OBVIOUS
<1>8. new \in Host!Call /\ CallInv(new, file', ids', history')
  <2>1. ~call.raced =>
           /\ (call.op = "save" /\ ~call.overwrite) => file[label] = NoFile
           /\ (call.op = "rename" /\ call.label # call.to) => file[label] = NoFile
           /\ answer \notin {"invalid", "nested", "exists"}
           /\ (answer = "ok" /\ call.op = "save") => after = call.content
           /\ (answer = "ok" /\ call.op = "rename") => after \in Host!Contents
           /\ (answer = "ok" /\ call.op = "delete") => after = NoFile
    BY <1>2, <1>5
  <2>2. call.op \in Host!Writes /\ file[label] \in Host!Entries
    BY <1>2, <1>4 DEF Host!Writes
  <2> QED
    BY <1>6, <1>7, <2>1, <2>2, RanInv
<1>9. /\ file' \in [EntryLabels -> Host!Entries] /\ file'[label] = after
      /\ \A l \in EntryLabels : l \notin {label} => file'[l] = file[l]
  BY <1>5, <1>6 DEF HostInv, Host!TypeOK
<1>10. strays' \subseteq EntryLabels
  BY <1>5 DEF HostInv, Host!TypeOK
<1>11. Placed(file', strays')
  <2>1. Placed(file, strays)
    BY DEF HostInv
  <2>2. CASE after = NoFile
    <3>1. strays' = strays \ {label} /\ NoFile # passkey
      BY <1>5, <2>2 DEF NamesFit, Host!Contents
    <3> QED
      BY <1>9, <2>1, <2>2, <3>1 DEF Placed
  <2>3. CASE after # NoFile
    <3>1. strays' = strays /\ after = old
      BY <1>5, <2>3
    <3> QED
      BY <1>4, <1>9, <2>1, <3>1 DEF Placed
  <2> QED
    BY <2>2, <2>3
<1>12. calls' = [Host!Disturbed(calls, c, {label}) EXCEPT ![c] = new]
  BY <1>5, <1>7
<1>13. UNCHANGED <<ids, history, integrated, made, changes>>
  BY DEF Host!Remove
<1>14. ids' \in BOOLEAN /\ history' \in BOOLEAN /\ (history => history')
  BY <1>13 DEF HostInv, Host!TypeOK
<1> HIDE DEF Ran, Fits
<1> QED
  BY <1>8, <1>9, <1>10, <1>11, <1>12, <1>13, <1>14, SharedStep

-----------------------------------------------------------------------------
(* Recipients *)

\* Recipients that were saved, for a store that has its history if it was new.
LEMMA Accepted ==
    ASSUME NEW call \in Host!Call, call.op = "recipients", NEW f, NEW i, NEW h,
           (call.fresh /\ ~call.raced) => h
    PROVE  Host!Ended(call, "ok") \in Host!Call /\ CallInv(Host!Ended(call, "ok"), f, i, h)
<1>0. PICK ok \in Host!Answers : ok = "ok"
  BY DEF Host!Answers
<1>1. PICK e \in Host!Call : /\ e = Host!Ended(call, ok) /\ e.op = call.op /\ e.answer = ok
                             /\ e.at = "idle" /\ e.ran = FALSE
  BY EndedFields
<1>4. e.fresh = call.fresh
  BY <1>1, EndedFields
<1>5. e.raced = call.raced
  BY <1>1, EndedFields
<1>2. Answered(e, h)
  BY <1>0, <1>1, <1>4, <1>5 DEF Answered, Host!Undisturbed
<1>3. Checked(e, f)
  BY <1>1 DEF Checked
<1> QED
  BY <1>0, <1>1, <1>2, <1>3 DEF CallInv

\* A step on the state of the store leaves the entries alone.
LEMMA StoreStep ==
    ASSUME HostInv, NEW c \in Callers, NEW new \in Host!Call,
           calls' = [Host!Disturbed(calls, c, {}) EXCEPT ![c] = new],
           history => history', ids' \in BOOLEAN, history' \in BOOLEAN,
           CallInv(new, file, ids', history'),
           UNCHANGED <<file, integrated, strays, made, changes>>
    PROVE  HostInv'
<1>1. \A l \in EntryLabels : l \notin {} => file'[l] = file[l]
  OBVIOUS
<1>2. /\ file' \in [EntryLabels -> Host!Entries] /\ strays' \subseteq EntryLabels
      /\ Placed(file', strays')
      /\ CallInv(new, file', ids', history')
  BY DEF HostInv, Host!TypeOK
<1>3. PICK labels : labels = {}
  OBVIOUS
<1>4. calls' = [Host!Disturbed(calls, c, labels) EXCEPT ![c] = new]
  BY <1>3
<1>5. \A l \in EntryLabels : l \notin labels => file'[l] = file[l]
  BY <1>1, <1>3
<1>6. UNCHANGED <<integrated, made, changes>>
  OBVIOUS
<1> QED
  BY <1>2, <1>4, <1>5, <1>6, SharedStep

LEMMA TryInitializeInv ==
    ASSUME HostInv, NEW c \in Callers, Host!TryInitialize(c)
    PROVE  HostInv'
<1>1. PICK call \in Host!Call : call = calls[c]
  BY DEF HostInv, Host!TypeOK
<1>2. /\ call.at = "asked" /\ call.op = "recipients" /\ call.answer = "none"
  BY <1>1 DEF Host!TryInitialize, HostInv, CallInv
<1>3. UNCHANGED <<file, integrated, strays, made, changes>>
  BY DEF Host!TryInitialize
<1>4. ids \in BOOLEAN /\ history \in BOOLEAN
  BY DEF HostInv, Host!TypeOK
<1>5. PICK fresh \in BOOLEAN : fresh = (~ids /\ ~history)
  BY <1>4
<1>6. PICK looked : looked = [call EXCEPT !.fresh = fresh]
  OBVIOUS
<1>7. looked \in Host!Call /\ looked.op = "recipients" /\ looked.fresh = fresh
      /\ looked.answer = "none"
  BY <1>2, <1>6 DEF Host!Call
<1>8. \/ /\ \E answer \in Host!Answers \ {"ok"} : Host!Ends(c, answer)
         /\ UNCHANGED <<ids, history>>
      \/ /\ Host!Set(c, [looked EXCEPT !.at = "init"])
         /\ UNCHANGED <<ids, history>>
      \/ /\ ids' = TRUE /\ history' = TRUE
         /\ calls' = [Host!Disturbed(calls, c, {}) EXCEPT ![c] = Host!Ended(looked, "ok")]
      \/ /\ ids' = TRUE /\ ~history /\ UNCHANGED history
         /\ calls' = [Host!Disturbed(calls, c, {}) EXCEPT ![c] =
                      Host!Ended(looked, "other")]
  <2>1. {"invalid", "nested", "other"} \subseteq Host!Answers \ {"ok"}
    BY DEF Host!Answers
  <2> QED
    BY <1>1, <1>5, <1>6, <2>1 DEF Host!TryInitialize
<1>9. CASE /\ (\E answer \in Host!Answers \ {"ok"} : Host!Ends(c, answer))
           /\ UNCHANGED <<ids, history>>
  <2>1. PICK answer \in Host!Answers \ {"ok"} : Host!Ends(c, answer)
    BY <1>9
  <2>2. calls' = [calls EXCEPT ![c] = Host!Ended(call, answer)]
    BY <1>1, <2>1 DEF Host!Ends, Host!Set
  <2>3. /\ Host!Ended(call, answer) \in Host!Call
        /\ CallInv(Host!Ended(call, answer), file, ids, history)
    BY Refused
  <2>4. /\ integrated' \in BOOLEAN /\ made' \in 0..MaxCalls /\ changes' \in 0..MaxChanges
        /\ UNCHANGED <<file, ids, history, strays>>
    BY <1>3, <1>9 DEF HostInv, Host!TypeOK
  <2> QED
    BY <2>2, <2>3, <2>4, OwnStep
<1>10. CASE Host!Set(c, [looked EXCEPT !.at = "init"]) /\ UNCHANGED <<ids, history>>
  <2>1. PICK new : new = [looked EXCEPT !.at = "init"]
    OBVIOUS
  <2>2. /\ new \in Host!Call /\ new.at = "init" /\ new.op = "recipients"
        /\ new.fresh = fresh
        /\ new.answer = "none"
    BY <1>7, <2>1 DEF Host!Call
  <2>3. calls' = [calls EXCEPT ![c] = new]
    BY <1>10, <2>1 DEF Host!Set
  <2>4. Answered(new, history) /\ Checked(new, file)
    BY <2>2 DEF Answered, Host!Undisturbed, Checked
  <2>5. CallInv(new, file, ids, history)
    BY <1>5, <2>2, <2>4 DEF CallInv
  <2>6. /\ integrated' \in BOOLEAN /\ made' \in 0..MaxCalls /\ changes' \in 0..MaxChanges
        /\ UNCHANGED <<file, ids, history, strays>>
    BY <1>3, <1>10 DEF HostInv, Host!TypeOK
  <2> QED
    BY <2>2, <2>3, <2>5, <2>6, OwnStep
<1>11. CASE /\ ids' = TRUE /\ history' = TRUE
            /\ calls' = [Host!Disturbed(calls, c, {}) EXCEPT ![c] =
                         Host!Ended(looked, "ok")]
  <2>1. /\ Host!Ended(looked, "ok") \in Host!Call
        /\ CallInv(Host!Ended(looked, "ok"), file, ids', history')
    BY <1>7, <1>11, Accepted
  <2> QED
    BY <1>3, <1>11, <2>1, StoreStep
<1>12. CASE /\ ids' = TRUE /\ ~history /\ UNCHANGED history
            /\ calls' = [Host!Disturbed(calls, c, {}) EXCEPT ![c] =
                         Host!Ended(looked, "other")]
  <2>1. "other" \in Host!Answers \ {"ok"}
    BY DEF Host!Answers
  <2>2. /\ Host!Ended(looked, "other") \in Host!Call
        /\ CallInv(Host!Ended(looked, "other"), file, ids', history')
    BY <1>7, <2>1, Refused
  <2> QED
    BY <1>3, <1>4, <1>12, <2>2, StoreStep
<1> QED
  BY <1>8, <1>9, <1>10, <1>11, <1>12

LEMMA PassInitInv ==
    ASSUME HostInv, NEW c \in Callers, Host!PassInit(c)
    PROVE  HostInv'
<1>1. PICK call \in Host!Call : call = calls[c]
  BY DEF HostInv, Host!TypeOK
<1>2. /\ call.at = "init" /\ call.answer = "none" /\ CallInv(call, file, ids, history)
  BY <1>1 DEF Host!PassInit, HostInv, CallInv
<1>3. call.op = "recipients"
  BY <1>2 DEF CallInv, Checked
<1>4. UNCHANGED <<file, history, integrated, strays, made, changes>>
  BY DEF Host!PassInit
<1>5. ids \in BOOLEAN /\ history \in BOOLEAN
  BY DEF HostInv, Host!TypeOK
<1>6. \/ /\ ids' = TRUE
         /\ calls' = [Host!Disturbed(calls, c, {})
                        EXCEPT ![c] =
                            IF ~ids /\ ~history THEN [call EXCEPT !.at = "repository"]
                                      ELSE Host!Ended(call, "ok")]
      \/ /\ ids' \in BOOLEAN
         /\ \E answer \in Host!Answers \ {"ok"} :
               calls' = [Host!Disturbed(calls, c, {}) EXCEPT ![c] =
                         Host!Ended(call, answer)]
  <2>1. Host!RecipientFailures \subseteq Host!Answers \ {"ok"}
    BY DEF Host!RecipientFailures, Host!Answers
  <2> QED
    BY <1>1, <1>5, <2>1 DEF Host!PassInit
<1>7. CASE /\ ids' = TRUE
           /\ calls' = [Host!Disturbed(calls, c, {})
                          EXCEPT ![c] =
                              IF ~ids /\ ~history THEN [call EXCEPT !.at = "repository"]
                                        ELSE Host!Ended(call, "ok")]
  <2>1. CASE ~ids /\ ~history
    <3>1. PICK new : new = [call EXCEPT !.at = "repository"]
      OBVIOUS
    <3>2. /\ new \in Host!Call /\ new.at = "repository" /\ new.op = "recipients"
          /\ new.answer = "none"
      BY <1>2, <1>3, <3>1 DEF Host!Call
    <3>3. calls' = [Host!Disturbed(calls, c, {}) EXCEPT ![c] = new]
      BY <1>7, <2>1, <3>1
    <3>4. Answered(new, history') /\ Checked(new, file)
      BY <3>2 DEF Answered, Host!Undisturbed, Checked
    <3>5. CallInv(new, file, ids', history')
      BY <3>2, <3>4 DEF CallInv
    <3> QED
      BY <1>4, <1>5, <1>7, <3>2, <3>3, <3>5, StoreStep
  <2>2. CASE ~(~ids /\ ~history)
    <3>1. calls' = [Host!Disturbed(calls, c, {}) EXCEPT ![c] = Host!Ended(call, "ok")]
      BY <1>7, <2>2
    <3>2. (call.fresh /\ ~call.raced) => history'
      BY <1>2, <2>2 DEF CallInv
    <3>3. /\ Host!Ended(call, "ok") \in Host!Call
          /\ CallInv(Host!Ended(call, "ok"), file, ids', history')
      BY <1>3, <3>2, Accepted
    <3> QED
      BY <1>4, <1>5, <1>7, <3>1, <3>3, StoreStep
  <2> QED
    BY <2>1, <2>2
<1>8. CASE /\ ids' \in BOOLEAN
           /\ \E answer \in Host!Answers \ {"ok"} :
                 calls' = [Host!Disturbed(calls, c, {}) EXCEPT ![c] =
                           Host!Ended(call, answer)]
  <2>1. PICK answer \in Host!Answers \ {"ok"} :
           calls' = [Host!Disturbed(calls, c, {}) EXCEPT ![c] = Host!Ended(call, answer)]
    BY <1>8
  <2>2. /\ Host!Ended(call, answer) \in Host!Call
        /\ CallInv(Host!Ended(call, answer), file, ids', history')
    BY Refused
  <2> QED
    BY <1>4, <1>5, <1>8, <2>1, <2>2, StoreStep
<1> QED
  BY <1>6, <1>7, <1>8

LEMMA EnsureGitRepositoryInv ==
    ASSUME HostInv, NEW c \in Callers, Host!EnsureGitRepository(c)
    PROVE  HostInv'
<1>1. PICK call \in Host!Call : call = calls[c]
  BY DEF HostInv, Host!TypeOK
<1>2. call.op = "recipients"
  BY <1>1 DEF Host!EnsureGitRepository, HostInv, CallInv, Checked
<1>3. UNCHANGED <<file, ids, integrated, strays, made, changes>>
  BY DEF Host!EnsureGitRepository
<1>4. ids \in BOOLEAN /\ history \in BOOLEAN
  BY DEF HostInv, Host!TypeOK
<1>5. CASE history' = TRUE
           /\ calls' = [Host!Disturbed(calls, c, {}) EXCEPT ![c] = Host!Ended(call, "ok")]
  <2>1. /\ Host!Ended(call, "ok") \in Host!Call
        /\ CallInv(Host!Ended(call, "ok"), file, ids', history')
    BY <1>2, <1>5, Accepted
  <2> QED
    BY <1>3, <1>4, <1>5, <2>1, StoreStep
<1>6. CASE UNCHANGED history /\ Host!Ends(c, "other")
  <2>1. "other" \in Host!Answers \ {"ok"}
    BY DEF Host!Answers
  <2>2. calls' = [calls EXCEPT ![c] = Host!Ended(call, "other")]
    BY <1>1, <1>6 DEF Host!Ends, Host!Set
  <2>3. /\ Host!Ended(call, "other") \in Host!Call
        /\ CallInv(Host!Ended(call, "other"), file, ids, history)
    BY <2>1, Refused
  <2>4. /\ integrated' \in BOOLEAN /\ made' \in 0..MaxCalls /\ changes' \in 0..MaxChanges
        /\ UNCHANGED <<file, ids, history, strays>>
    BY <1>3, <1>6 DEF HostInv, Host!TypeOK
  <2> QED
    BY <2>2, <2>3, <2>4, OwnStep
<1>7. Host!Disturbed(calls, c, {})[c] = call
  BY <1>1 DEF Host!Disturbed
<1> QED
  BY <1>1, <1>5, <1>6, <1>7 DEF Host!EnsureGitRepository

LEMMA IntegratedRecipientsInv ==
    ASSUME HostInv, NEW c \in Callers, Host!IntegratedRecipients(c)
    PROVE  HostInv'
<1>1. PICK call \in Host!Call : call = calls[c]
  BY DEF HostInv, Host!TypeOK
<1>2. call.op = "recipients" /\ ~call.fresh
  BY <1>1 DEF Host!IntegratedRecipients, HostInv, CallInv
<1>3. UNCHANGED <<file, integrated, strays, made, changes>>
  BY DEF Host!IntegratedRecipients
<1>4. ids \in BOOLEAN /\ history \in BOOLEAN
  BY DEF HostInv, Host!TypeOK
<1>5. CASE /\ ids' = (ids \/ call.label = Root) /\ history' = (history \/ ~ids)
           /\ calls' = [Host!Disturbed(calls, c, {}) EXCEPT ![c] = Host!Ended(call, "ok")]
  <2>1. /\ Host!Ended(call, "ok") \in Host!Call
        /\ CallInv(Host!Ended(call, "ok"), file, ids', history')
    BY <1>2, Accepted
  <2>2. ids' \in BOOLEAN /\ history' \in BOOLEAN /\ (history => history')
    BY <1>5
  <2> QED
    BY <1>3, <1>5, <2>1, <2>2, StoreStep
<1>6. CASE UNCHANGED <<ids, history>> /\ Host!Ends(c, "other")
  <2>1. "other" \in Host!Answers \ {"ok"}
    BY DEF Host!Answers
  <2>2. calls' = [calls EXCEPT ![c] = Host!Ended(call, "other")]
    BY <1>1, <1>6 DEF Host!Ends, Host!Set
  <2>3. /\ Host!Ended(call, "other") \in Host!Call
        /\ CallInv(Host!Ended(call, "other"), file, ids, history)
    BY <2>1, Refused
  <2>4. /\ integrated' \in BOOLEAN /\ made' \in 0..MaxCalls /\ changes' \in 0..MaxChanges
        /\ UNCHANGED <<file, ids, history, strays>>
    BY <1>3, <1>6 DEF HostInv, Host!TypeOK
  <2> QED
    BY <2>2, <2>3, <2>4, OwnStep
<1>7. Host!Disturbed(calls, c, {})[c] = call
  BY <1>1 DEF Host!Disturbed
<1> QED
  BY <1>1, <1>5, <1>6, <1>7 DEF Host!IntegratedRecipients

-----------------------------------------------------------------------------
(* The other backend, other programs, and the preference *)

LEMMA IntegratedInv ==
    ASSUME HostInv, NamesFit, NEW c \in Callers, Host!Integrated(c)
    PROVE  HostInv'
<1>1. PICK call \in Host!Call : call = calls[c]
  BY DEF HostInv, Host!TypeOK
<1>2. PICK target : target = IF call.op = "rename" THEN call.to ELSE call.label
  OBVIOUS
<1>3. call.op \in Host!Writes
  BY <1>1 DEF Host!Integrated
<1>4. UNCHANGED <<ids, history, integrated, made, changes>>
  BY DEF Host!Integrated
<1>5. CASE /\ (\E answer \in Host!Answers \ {"ok"} : Host!Ends(c, answer))
           /\ UNCHANGED <<file, strays>>
  <2>1. PICK answer \in Host!Answers \ {"ok"} : Host!Ends(c, answer)
    BY <1>5
  <2>2. calls' = [calls EXCEPT ![c] = Host!Ended(call, answer)]
    BY <1>1, <2>1 DEF Host!Ends, Host!Set
  <2>3. /\ Host!Ended(call, answer) \in Host!Call
        /\ CallInv(Host!Ended(call, answer), file, ids, history)
    BY Refused
  <2>4. /\ integrated' \in BOOLEAN /\ made' \in 0..MaxCalls /\ changes' \in 0..MaxChanges
        /\ UNCHANGED <<file, ids, history, strays>>
    BY <1>4, <1>5 DEF HostInv, Host!TypeOK
  <2> QED
    BY <2>2, <2>3, <2>4, OwnStep
<1>6. CASE ~((\E answer \in Host!Answers \ {"ok"} :
              Host!Ends(c, answer)) /\ UNCHANGED <<file, strays>>)
  <2> DEFINE Old == IF call.label \in EntryLabels THEN file[call.label] ELSE NoFile
             Outcome ==
                CASE call.op = "save" -> [file EXCEPT ![target] = call.content]
                  [] call.op =
                      "rename" -> [file EXCEPT ![call.label] = NoFile, ![target] = Old]
                  [] OTHER -> [file EXCEPT ![target] = NoFile]
  <2>1. /\ call.label \in EntryLabels /\ target \in EntryLabels
        /\ (call.op = "rename" /\ call.label # call.to) => file[target] = NoFile
        /\ (call.op = "save" /\ ~call.overwrite) => file[target] = NoFile
        /\ (call.op = "save") => Host!MayLieAt(call.content, target)
        /\ (call.op = "rename") =>
              /\ Old \in Host!Contents
              /\ (call.label \in Shaped) => Host!MayLieAt(Old, target)
        /\ file' = Outcome
        /\ strays' = (strays \ {call.label, target})
                        \cup (IF call.op =
                              "rename" /\ call.label \in strays THEN {target} ELSE {})
        /\ calls' = [Host!Disturbed(calls, c, {call.label, target})
                        EXCEPT ![c] = Host!RanTo(call, target, Outcome[target], "ok")]
    <3>1. {"invalid", "other"} \subseteq Host!Answers \ {"ok"}
      BY DEF Host!Answers
    <3> QED
      BY <1>1, <1>2, <1>6, <3>1
         DEF Host!Integrated, Host!ValidLabel, Host!IsFree, Host!LooksLikePasskey
  <2>2. PICK label \in EntryLabels, to \in EntryLabels : label = call.label /\ to = target
    BY <2>1
  <2>3. PICK old \in Host!Entries : old = file[label] /\ old = Old
    BY <2>2 DEF HostInv, Host!TypeOK
  <2>4. /\ file \in [EntryLabels -> Host!Entries] /\ strays \subseteq EntryLabels
        /\ NoFile \in Host!Entries
    BY DEF HostInv, Host!TypeOK, Host!Entries
  <2>5. call.content \in Host!Entries
    BY DEF Host!Call, Host!Entries
  <2>6. Outcome = CASE call.op = "save" -> [file EXCEPT ![to] = call.content]
                    [] call.op = "rename" -> [file EXCEPT ![label] = NoFile, ![to] = old]
                    [] OTHER -> [file EXCEPT ![to] = NoFile]
    BY <2>2, <2>3
  <2>7. PICK g : g = Outcome
    OBVIOUS
  <2> HIDE DEF Outcome, Old
  <2>8. /\ g \in [EntryLabels -> Host!Entries]
        /\ \A l \in EntryLabels : l \notin {label, to} => g[l] = file[l]
        /\ (call.op = "save") => (g[to] = call.content)
        /\ (call.op = "rename") => (g[to] = old /\ (label # to => g[label] = NoFile))
        /\ (call.op = "delete") => (g[to] = NoFile)
    <3>1. CASE call.op = "save"
      <4>1. g = [file EXCEPT ![to] = call.content]
        BY <2>6, <2>7, <3>1
      <4> QED
        BY <2>4, <2>5, <3>1, <4>1
    <3>2. CASE call.op = "rename"
      <4>1. g = [file EXCEPT ![label] = NoFile, ![to] = old]
        BY <2>6, <2>7, <3>2
      <4> QED
        BY <2>4, <3>2, <4>1
    <3>3. CASE call.op = "delete"
      <4>1. g = [file EXCEPT ![to] = NoFile]
        BY <2>6, <2>7, <3>3
      <4> QED
        BY <2>4, <3>3, <4>1
    <3> QED
      BY <1>3, <3>1, <3>2, <3>3 DEF Host!Writes
  <2>9. (call.op # "rename") => label = to
    BY <1>2, <2>2
  <2>10. PICK after \in Host!Entries : after = g[to]
    BY <2>8
  <2>11. PICK new : new = Host!RanTo(call, to, after, "ok")
    OBVIOUS
  <2>12. new \in Host!Call /\ CallInv(new, file', ids', history')
    <3>1. PICK ok \in Host!Answers : ok = "ok"
      BY DEF Host!Answers
    <3>2. ~call.raced =>
             /\ (call.op = "save" /\ ~call.overwrite) => file[to] = NoFile
             /\ (call.op = "rename" /\ call.label # call.to) => file[to] = NoFile
             /\ ok \notin {"invalid", "nested", "exists"}
             /\ (ok = "ok" /\ call.op = "save") => after = call.content
             /\ (ok = "ok" /\ call.op = "rename") => after \in Host!Contents
             /\ (ok = "ok" /\ call.op = "delete") => after = NoFile
      BY <2>1, <2>2, <2>3, <2>8, <2>10, <3>1
    <3>3. file[to] \in Host!Entries
      BY <2>4
    <3> QED
      BY <1>3, <2>11, <3>1, <3>2, <3>3, RanInv
  <2>13. file' = g /\ calls' = [Host!Disturbed(calls, c, {label, to}) EXCEPT ![c] = new]
         /\ strays' = (strays \ {label, to})
                         \cup (IF call.op = "rename" /\ label \in strays THEN {to} ELSE {})
    BY <2>1, <2>2, <2>7, <2>10, <2>11
  <2>14. Placed(g, strays')
    <3>1. Placed(file, strays)
      BY DEF HostInv
    <3>2. NoFile # passkey
      BY DEF NamesFit, Host!Contents
    <3>3. ASSUME NEW l \in EntryLabels, g[l] = passkey, mcNamed[l] # g[l]
          PROVE  l \in strays'
      <4>1. CASE l \notin {label, to}
        <5>1. g[l] = file[l] /\ l \in strays
          BY <2>8, <3>1, <3>3, <4>1 DEF Placed
        <5> QED
          BY <2>13, <4>1, <5>1
      <4>2. CASE l = to /\ call.op = "save"
        BY <2>1, <2>2, <2>8, <3>3, <4>2 DEF Host!MayLieAt, Host!IsPasskey, Host!IsNamedAfter
      <4>3. CASE l = to /\ call.op = "delete"
        BY <2>8, <3>2, <3>3, <4>3
      <4>4. CASE l = to /\ call.op = "rename"
        <5>1. old = passkey /\ mcNamed[to] # old
          BY <2>8, <3>3, <4>4
        <5>2. CASE label \in strays
          BY <2>13, <4>4, <5>2
        <5>3. CASE label \notin strays
          <6>1. mcNamed[label] = old
            BY <2>3, <3>1, <5>1, <5>3 DEF Placed
          <6>2. label \in Shaped
            BY <5>1, <6>1 DEF NamesFit
          <6>3. Host!MayLieAt(old, to)
            BY <2>1, <2>2, <2>3, <4>4, <6>2
          <6> QED
            BY <5>1, <6>3 DEF Host!MayLieAt, Host!IsPasskey, Host!IsNamedAfter
        <5> QED
          BY <5>2, <5>3
      <4>5. CASE l = label /\ l # to
        BY <1>3, <2>8, <2>9, <3>2, <3>3, <4>5
      <4> QED
        BY <1>3, <4>1, <4>2, <4>3, <4>4, <4>5 DEF Host!Writes
    <3> QED
      BY <3>3 DEF Placed
  <2>15. /\ file' \in [EntryLabels -> Host!Entries] /\ ids' \in BOOLEAN
         /\ history' \in BOOLEAN
         /\ (history => history') /\ strays' \subseteq EntryLabels /\ Placed(file', strays')
         /\ \A l \in EntryLabels : l \notin {label, to} => file'[l] = file[l]
    BY <1>4, <2>4, <2>8, <2>13, <2>14 DEF HostInv, Host!TypeOK
  <2> QED
    BY <1>4, <2>12, <2>13, <2>15, SharedStep
<1> QED
  BY <1>5, <1>6

LEMMA OtherProgramInv ==
    ASSUME HostInv, NamesFit, Host!OtherProgram
    PROVE  HostInv'
<1>1. PICK l \in EntryLabels, content \in Host!Contents \cup {NoFile} :
         /\ (content \in Host!Contents) => Host!MayLieAt(content, l)
         /\ file' = [file EXCEPT ![l] = content]
         /\ strays' = strays \ {l}
         /\ calls' = [c \in Callers |-> IF Host!Relies(calls[c], {l})
                                        THEN [calls[c] EXCEPT !.raced = TRUE] ELSE calls[c]]
  BY DEF Host!OtherProgram
<1>2. UNCHANGED <<ids, history, integrated, made>> /\ changes' \in 0..MaxChanges
  BY DEF Host!OtherProgram, HostInv, Host!TypeOK, NamesFit
<1>3. /\ file' \in [EntryLabels -> Host!Entries] /\ file'[l] = content
      /\ \A m \in EntryLabels : m \notin {l} => file'[m] = file[m]
  BY <1>1 DEF HostInv, Host!TypeOK, Host!Entries
<1>4. ASSUME NEW c \in Callers
      PROVE  calls'[c] \in Host!Call /\ CallInv(calls'[c], file', ids', history')
  <2>1. PICK old \in Host!Call : old = calls[c] /\ CallInv(old, file, ids, history)
    BY DEF HostInv, Host!TypeOK
  <2>2. PICK new :
            /\ new = calls'[c]
            /\ new = IF Host!Relies(old, {l}) THEN [old EXCEPT !.raced = TRUE] ELSE old
    BY <1>1, <2>1
  <2>3. PICK g : g = file' /\ \A m \in EntryLabels : m \notin {l} => g[m] = file[m]
    BY <1>3
  <2>4. PICK k \in BOOLEAN : k = history' /\ (history => k)
    BY <1>2 DEF HostInv, Host!TypeOK
  <2>5. PICK j : j = ids'
    OBVIOUS
  <2>6. new \in Host!Call /\ CallInv(new, g, j, k)
    <3>1. PICK labels : labels = {l}
      OBVIOUS
    <3>2. /\ \A m \in EntryLabels : m \notin labels => g[m] = file[m]
          /\ new = IF Host!Relies(old, labels) THEN [old EXCEPT !.raced = TRUE] ELSE old
      BY <2>2, <2>3, <3>1
    <3> QED
      BY <2>1, <2>4, <3>2, DisturbedCall
  <2> QED
    BY <2>2, <2>3, <2>4, <2>5, <2>6
<1>5. calls' \in [Callers -> Host!Call]
  BY <1>1, <1>4
<1>6. Host!TypeOK'
  BY <1>1, <1>2, <1>3, <1>5 DEF HostInv, Host!TypeOK
<1>7. Placed(file', strays')
  <2>1. Placed(file, strays) /\ NoFile # passkey
    BY DEF HostInv, NamesFit, Host!Contents
  <2>2. (content = passkey) => mcNamed[l] = content
    BY <1>1 DEF Host!MayLieAt, Host!IsPasskey, Host!IsNamedAfter, Host!Contents
  <2> QED
    BY <1>1, <1>3, <2>1, <2>2 DEF Placed
<1> QED
  BY <1>4, <1>6, <1>7 DEF HostInv

LEMMA ChangeBackendInv ==
    ASSUME HostInv, NamesFit, Host!ChangeBackend
    PROVE  HostInv'
<1>1. UNCHANGED <<file, ids, history, calls, strays, made>>
      /\ integrated' = ~integrated /\ changes' \in 0..MaxChanges
  BY DEF Host!ChangeBackend, HostInv, Host!TypeOK, NamesFit
<1>2. Host!TypeOK'
  BY <1>1 DEF HostInv, Host!TypeOK
<1> QED
  BY <1>1, <1>2 DEF HostInv

-----------------------------------------------------------------------------

LEMMA HostStart ==
    ASSUME NamesFit, Host!Init
    PROVE  HostInv
<1>1. /\ Host!NoCall \in Host!Call /\ Host!NoCall.answer = "none" /\ Host!NoCall.at = "idle"
      /\ ~Host!NoCall.ran
      /\ Host!NoCall.op = "none"
  BY DEF Host!NoCall, Host!Call, Host!Contents, Host!Entries, Host!Answers
<1>2. CallInv(Host!NoCall, file, ids, history)
  BY <1>1 DEF CallInv, Answered, Checked
<1>3. Host!TypeOK
  <2>1. PICK n \in Host!Call : n = Host!NoCall
    BY <1>1
  <2>2. calls = [c \in Callers |-> n]
    BY <2>1 DEF Host!Init
  <2>3. calls \in [Callers -> Host!Call]
    BY <2>2
  <2>4. made \in 0..MaxCalls /\ changes \in 0..MaxChanges
    BY DEF Host!Init, NamesFit
  <2> QED
    BY <2>3, <2>4 DEF Host!Init, Host!TypeOK
<1>4. \A c \in Callers : CallInv(calls[c], file, ids, history)
  BY <1>2 DEF Host!Init
<1>5. Placed(file, strays)
  BY DEF Host!Init, Placed
<1> QED
  BY <1>3, <1>4, <1>5 DEF HostInv

LEMMA HostStep ==
    ASSUME HostInv, NamesFit, [Host!Next]_(Host!hostVars)
    PROVE  HostInv'
<1>1. CASE UNCHANGED Host!hostVars
  <2>1. UNCHANGED <<file, ids, history, integrated, calls, strays, made, changes>>
    BY <1>1 DEF Host!hostVars
  <2>2. Host!TypeOK'
    BY <2>1 DEF HostInv, Host!TypeOK
  <2>3. \A c \in Callers : CallInv(calls'[c], file', ids', history')
    BY <2>1 DEF HostInv
  <2>4. Placed(file', strays')
    BY <2>1 DEF HostInv
  <2> QED
    BY <2>2, <2>3, <2>4 DEF HostInv
<1>2. CASE Host!OtherProgram \/ Host!ChangeBackend
  BY <1>2, OtherProgramInv, ChangeBackendInv
<1>3. ASSUME NEW c \in Callers,
             \/ Host!Read(c) \/ Host!Save(c) \/ Host!Rename(c) \/ Host!Delete(c)
             \/ Host!SaveRecipients(c) \/ Host!Import(c)
             \/ Host!Validate(c) \/ Host!Look(c) \/ Host!Show(c)
             \/ Host!Insert(c) \/ Host!Move(c) \/ Host!Remove(c)
             \/ Host!TryInitialize(c) \/ Host!PassInit(c) \/ Host!EnsureGitRepository(c)
             \/ Host!Integrated(c) \/ Host!IntegratedRead(c) \/ Host!IntegratedRecipients(c)
      PROVE  HostInv'
  BY <1>3, CallsBegin, ValidateInv, LookInv, ShowInv, InsertInv, HostMoveInv, HostRemoveInv,
     TryInitializeInv, PassInitInv, EnsureGitRepositoryInv, IntegratedInv,
     IntegratedRecipientsInv
<1> QED
  BY <1>1, <1>2, <1>3 DEF Host!Next

-----------------------------------------------------------------------------
(* Both side by side *)

(* What the instance for TLC gives, too: nothing is not a content, and the name *)
(* of the passkey looks like one.                                               *)
HostBounds ==
    /\ MaxCalls \in Nat /\ MaxChanges \in Nat
    /\ NoFile \notin {password, passkey, Damaged}
    /\ own \in Shaped

LEMMA NamesDoFit == HostBounds => NamesFit
<1> SUFFICES ASSUME HostBounds PROVE NamesFit
  OBVIOUS
<1>1. NoFile \notin Host!Contents
  BY DEF HostBounds, Host!Contents
<1>2. \A l \in EntryLabels : (mcNamed[l] = passkey) => l \in Shaped
  BY DEF HostBounds, mcNamed
<1> QED
  BY <1>1, <1>2 DEF HostBounds, NamesFit

\* One of the two takes a step, and the other stays as it is.
LEMMA OneStepsTheOtherStays ==
    [AllNext]_allVars => ([Next]_vars /\ [Host!Next]_hostVars)
<1> SUFFICES ASSUME [AllNext]_allVars PROVE [Next]_vars /\ [Host!Next]_hostVars
  OBVIOUS
<1>1. CASE UNCHANGED allVars
  BY <1>1 DEF allVars
<1>2. CASE AllNext
  BY <1>2 DEF AllNext
<1> QED
  BY <1>1, <1>2

LEMMA UndoTypesAlways == AllSpec => []TypeInv
<1>1. AllInit => TypeInv
  BY InitTypes DEF AllInit
<1>2. TypeInv /\ [AllNext]_allVars => TypeInv'
  BY OneStepsTheOtherStays, UndoTypes
<1> QED
  BY <1>1, <1>2, PTL DEF AllSpec

LEMMA UndoAlways == ASSUME Waits PROVE AllSpec => []UndoInv
<1>1. AllInit => UndoInv
  BY UndoInit DEF AllInit
<1>2. TypeInv /\ UndoInv /\ [AllNext]_allVars => UndoInv'
  BY OneStepsTheOtherStays, UndoStep
<1> QED
  BY <1>1, <1>2, UndoTypesAlways, PTL DEF AllSpec

LEMMA HostAlways == ASSUME HostBounds PROVE AllSpec => []HostInv
<1>1. AllInit => HostInv
  BY HostStart, NamesDoFit DEF AllInit
<1>2. HostInv /\ [AllNext]_allVars => HostInv'
  <2> SUFFICES ASSUME HostInv, [AllNext]_allVars PROVE HostInv'
    OBVIOUS
  <2>1. [Host!Next]_(Host!hostVars)
    BY OneStepsTheOtherStays DEF hostVars, Host!hostVars
  <2> QED
    BY <2>1, HostStep, NamesDoFit
<1> QED
  BY <1>1, <1>2, PTL DEF AllSpec

\* The files, the stack, the page and the jobs keep to their sets, waits the user or
\* not, and the stack never outgrows its bound (ui/session.rs, push_undo_action).
THEOREM UndoTypesAreKept == AllSpec => []TypeOK
<1>1. TypeInv => TypeOK
  BY DEF TypeInv
<1> QED
  BY <1>1, UndoTypesAlways, PTL

\* Undo leads back: while each answer is awaited, the top of the stack puts back the
\* files as they were before the operation it undoes, whatever failed in between
\* (ui/undo.rs, undo.rs).
THEOREM UndoAlwaysLeadsBack == ASSUME Waits PROVE AllSpec => []UndoLeadsBack
<1>1. UndoInv => UndoLeadsBack
  BY UndoInvSuffices DEF UndoLeadsBack
<1> QED
  BY <1>1, UndoAlways, PTL

\* The backend that serves keeps to the entry it was asked for, leaves passkeys where
\* their names say, and gives a new store its history, whatever other programs and
\* `pass` do between its steps (host.rs); whether the user waits for undo is no matter.
THEOREM TheBackendIsSafe ==
    ASSUME HostBounds
    PROVE  AllSpec => [](/\ Host!CallsKeepToTheirEntry
                         /\ Host!PasskeysStayInTheirPlace
                         /\ Host!NewStoresHaveAHistory)
<1>1. HostInv => /\ Host!CallsKeepToTheirEntry
                 /\ Host!PasskeysStayInTheirPlace
                 /\ Host!NewStoresHaveAHistory
  BY HostInvSuffices
<1> QED
  BY <1>1, HostAlways, PTL

\* What the user did not delete or replace is still there, whoever serves, as long as
\* the user waits for each answer: at every step of every worker, and through every
\* failure until a change has no undo, each text the user keeps is in some file.  (The
\* run undo_moved_twice shows why the user must wait.)
THEOREM NothingIsEverLost ==
    ASSUME Waits, HostBounds
    PROVE  AllSpec => []NothingIsLost
<1>1. UndoInv /\ HostInv => NothingIsLost
  <2> SUFFICES ASSUME UndoInv, HostInv PROVE NothingIsLost
    OBVIOUS
  <2>1. EntriesSurvive
    BY UndoInvSuffices
  <2>2. /\ Host!TypeOK /\ Host!CallsKeepToTheirEntry
        /\ Host!PasskeysStayInTheirPlace /\ Host!NewStoresHaveAHistory
    BY HostInvSuffices DEF HostInv
  <2> QED
    BY <2>1, <2>2 DEF NothingIsLost
<1> QED
  BY <1>1, UndoAlways, HostAlways, PTL
=============================================================================
