---------------------------- MODULE MCKeySyncProofs ----------------------------
(* The theorems about KeySync, for any keys, windows and bounds; then the       *)
(* updater, the program in the menu, the setup of a card, the session's keys    *)
(* and the atomic replacement of a file keep their invariants; so all six that  *)
(* MCKeySync puts side by side have the properties that its runs check, for     *)
(* every value of the constants.                                                *)
EXTENDS MCKeySync, Sequences, FiniteSetTheorems, TLAPS

(* Key synchronisation *)

\* What a sync under way must never get wrong: it copies keys with a passphrase
\* only, it has seen every shared key on its source, and it deletes none.
Sound(j, common) ==
    /\ j.got \subseteq Keys
    /\ j.phase = "copy" => j.todo \subseteq j.got
    /\ j.phase \in {"target", "export", "copy"} => common \subseteq j.from
    /\ j.phase = "prune" => j.todo \cap common = {}

JobsSound == \A s \in Slots : Sound(job[s], seen.shared)

Inv == TypeOK /\ JobsSound /\ SharedKeysStay

-----------------------------------------------------------------------------
(* Jobs *)

LEMMA FreshJobs ==
    ASSUME NEW common, NEW on \in BOOLEAN, NEW pending \in BOOLEAN
    PROVE  /\ Idle \in Jobs /\ Sound(Idle, common)
           /\ Load(pending, on) \in Jobs /\ Sound(Load(pending, on), common)
           /\ \A dir \in Directions :
                Job("source", dir) \in Jobs /\ Sound(Job("source", dir), common)
<1>1. ASSUME NEW phase \in {"idle", "source", "done"}, NEW dir \in Directions
      PROVE  Job(phase, dir) \in Jobs /\ Sound(Job(phase, dir), common)
  BY DEF Job, Jobs, Phases, Sound
<1> QED
  BY <1>1 DEF Idle, Load, Directions

LEMMA FewerShared ==
    ASSUME NEW j, NEW common, NEW fewer \in SUBSET common, Sound(j, common)
    PROVE  Sound(j, fewer)
BY DEF Sound

\* One job changes.
LEMMA OneJob ==
    ASSUME job \in [Slots -> Jobs], JobsSound,
           NEW s \in Slots, NEW j \in Jobs, Sound(j, seen.shared),
           seen'.shared \subseteq seen.shared,
           job' = [job EXCEPT ![s] = j]
    PROVE  job' \in [Slots -> Jobs] /\ JobsSound'
<1>1. job' \in [Slots -> Jobs]
  OBVIOUS
<1>2. ASSUME NEW t \in Slots
      PROVE  Sound(job'[t], seen.shared)
  BY DEF JobsSound
<1>3. ASSUME NEW t \in Slots
      PROVE  Sound(job'[t], seen'.shared)
  BY <1>2, FewerShared
<1> QED
  BY <1>1, <1>3 DEF JobsSound

LEMMA SameJobs ==
    ASSUME JobsSound, job' = job, seen'.shared \subseteq seen.shared
    PROVE  JobsSound'
BY FewerShared DEF JobsSound

Cells ==
    /\ win \in [Windows -> [open : BOOLEAN, pending : BOOLEAN, queued : BOOLEAN]]
    /\ job \in [Slots -> Jobs]
    /\ JobsSound

\* The inventory starts and ends loads; each starts with a fresh job.
LEMMA Loads ==
    ASSUME Cells, NEW w \in Windows, NEW on \in BOOLEAN, NEW pending \in BOOLEAN,
           enabled \in BOOLEAN,
           seen'.shared \subseteq seen.shared,
           BeginLoad(w, pending) \/ FinishLoad(w, on)
    PROVE  Cells'
<1>1. w \in Slots
  BY DEF Slots
<1>2. win[w] \in [open : BOOLEAN, pending : BOOLEAN, queued : BOOLEAN]
  BY DEF Cells
<1>3. win' \in [Windows -> [open : BOOLEAN, pending : BOOLEAN, queued : BOOLEAN]]
  <2> DEFINE Win == [Windows -> [open : BOOLEAN, pending : BOOLEAN, queued : BOOLEAN]]
  <2>1. win \in Win
    BY DEF Cells
  <2>2. ASSUME NEW p \in BOOLEAN, NEW q \in BOOLEAN
        PROVE  /\ [win EXCEPT ![w].pending = p] \in Win
               /\ [win EXCEPT ![w].pending = p, ![w].queued = q] \in Win
    BY <2>1
  <2>3. \/ win' = win
        \/ \E p \in BOOLEAN : win' = [win EXCEPT ![w].pending = p]
        \/ \E p, q \in BOOLEAN : win' = [win EXCEPT ![w].pending = p, ![w].queued = q]
    BY DEF BeginLoad, FinishLoad
  <2>4. CASE \E p \in BOOLEAN : win' = [win EXCEPT ![w].pending = p]
    <3> PICK p \in BOOLEAN : win' = [win EXCEPT ![w].pending = p]
      BY <2>4
    <3> QED
      BY <2>2
  <2>5. CASE \E p, q \in BOOLEAN : win' = [win EXCEPT ![w].pending = p, ![w].queued = q]
    <3> PICK p \in BOOLEAN, q \in BOOLEAN :
               win' = [win EXCEPT ![w].pending = p, ![w].queued = q]
      BY <2>5
    <3> QED
      BY <2>2
  <2> QED
    BY <2>1, <2>3, <2>4, <2>5
<1>4. \/ job' = job
      \/ \E j \in Jobs : Sound(j, seen.shared) /\ job' = [job EXCEPT ![w] = j]
  <2>1. \A p, o \in BOOLEAN : Load(p, o) \in Jobs /\ Sound(Load(p, o), seen.shared)
    BY FreshJobs
  <2>2. Idle \in Jobs /\ Sound(Idle, seen.shared)
    BY FreshJobs
  <2> QED
    BY <1>2, <2>1, <2>2 DEF BeginLoad, FinishLoad
<1>5. job' \in [Slots -> Jobs] /\ JobsSound'
  BY <1>1, <1>4, OneJob, SameJobs DEF Cells
<1> QED
  BY <1>3, <1>5 DEF Cells

-----------------------------------------------------------------------------
(* The invariant *)

LEMMA InitInv == Init => Inv
<1> SUFFICES ASSUME Init PROVE Inv
  OBVIOUS
<1>1. \A s \in Slots : Idle \in Jobs /\ Sound(Idle, seen.shared)
  BY FreshJobs
<1>2. JobsSound
  BY <1>1 DEF Init, JobsSound
<1>3. SharedKeysStay
  BY DEF Init, SharedKeysStay
<1>4. job \in [Slots -> Jobs]
  BY <1>1 DEF Init
<1>5. making \in [Windows -> [key : SUBSET Keys, place : {"page", "entry"},
                              stored : BOOLEAN]]
  BY DEF Init, NoKey
<1>6. seen \in [kept : SUBSET Keys, shared : SUBSET Keys, disturbed : BOOLEAN]
  BY DEF Init
<1>7. used \in [ops : 0..MaxOps, failures : 0..MaxFailures]
  BY SyncAssumption DEF Init
<1> QED
  BY <1>2, <1>3, <1>4, <1>5, <1>6, <1>7 DEF Inv, TypeOK, Init

\* The parts that a step of a sync does not change.
LEMMA Counted ==
    ASSUME used \in [ops : 0..MaxOps, failures : 0..MaxFailures],
           Operate \/ OneFailure \/ UNCHANGED used
    PROVE  used' \in [ops : 0..MaxOps, failures : 0..MaxFailures]
<1>1. used.ops \in 0..MaxOps /\ used.failures \in 0..MaxFailures
  OBVIOUS
<1>2. CASE Operate
  <2>1. used.ops + 1 \in 0..MaxOps
    BY <1>1, <1>2, SyncAssumption DEF Operate
  <2> QED
    BY <1>2, <2>1 DEF Operate
<1>3. CASE OneFailure
  <2>1. used.failures + 1 \in 0..MaxFailures
    BY <1>1, <1>3, SyncAssumption DEF OneFailure
  <2> QED
    BY <1>3, <2>1 DEF OneFailure
<1> QED
  BY <1>2, <1>3

\* A call of a sync: it changes its own job and one side.
LEMMA SyncCalls ==
    ASSUME Inv, NEW s \in Slots, SyncStep(s) \/ CallFails(s)
    PROVE  Inv'
<1> DEFINE j == job[s]
<1>1. j \in Jobs /\ Sound(j, seen.shared)
  BY DEF Inv, TypeOK, JobsSound
<1>2. /\ Source(j.dir) \in {"app", "host"} /\ Target(j.dir) \in {"app", "host"}
      /\ has["app"] \in SUBSET All /\ has["host"] \in SUBSET All
  BY <1>1 DEF Inv, TypeOK, Source, Target
<1>3. UNCHANGED <<enabled, win, ui, making, seen>>
  BY DEF SyncStep, ListSource, ListTarget, ExportKey, AllExported, CopyKey, AllCopied,
         PruneKey, AllPruned, CallFails
<1>4. used' \in [ops : 0..MaxOps, failures : 0..MaxFailures]
  <2>1. OneFailure \/ UNCHANGED used
    BY DEF SyncStep, ListSource, ListTarget, ExportKey, AllExported, CopyKey, AllCopied,
           PruneKey, AllPruned, CallFails
  <2> QED
    BY <2>1, Counted DEF Inv, TypeOK
<1>5. SUFFICES /\ job' \in [Slots -> Jobs] /\ JobsSound'
               /\ has' \in [{"app", "host"} -> SUBSET All] /\ has'["app"] \subseteq Keys
               /\ SharedKeysStay'
  BY <1>3, <1>4 DEF Inv, TypeOK
<1>6. ASSUME NEW new \in Jobs, Sound(new, seen.shared), job' = [job EXCEPT ![s] = new]
      PROVE  job' \in [Slots -> Jobs] /\ JobsSound'
  BY <1>3, <1>6, OneJob DEF Inv, TypeOK
<1>7. ASSUME has' = has
      PROVE  /\ has' \in [{"app", "host"} -> SUBSET All] /\ has'["app"] \subseteq Keys
             /\ SharedKeysStay'
  BY <1>3, <1>7 DEF Inv, TypeOK, SharedKeysStay
<1> DEFINE Moved(new) == new \in Jobs /\ Sound(new, seen.shared) /\ job' = [job EXCEPT ![s] = new]
<1>8. job \in [Slots -> Jobs]
  BY DEF Inv, TypeOK
<1>9. CASE ListSource(s)
  <2> DEFINE new == [j EXCEPT !.from = has[Source(j.dir)], !.phase = "target"]
  <2>1. new \in Jobs
    BY <1>1, <1>2 DEF Jobs, Phases
  <2>2. seen.shared \subseteq has[Source(j.dir)]
    BY <1>2 DEF Inv, SharedKeysStay
  <2>3. new.from = has[Source(j.dir)] /\ new.phase = "target" /\ new.got = j.got
    BY <1>1 DEF Jobs
  <2>4. Sound(new, seen.shared)
    BY <1>1, <2>2, <2>3 DEF Sound
  <2>5. job' = [job EXCEPT ![s] = new] /\ has' = has
    BY <1>8, <1>9 DEF ListSource
  <2> QED
    BY <1>6, <1>7, <2>1, <2>4, <2>5
<1>10. CASE ListTarget(s)
  <2> DEFINE new == [j EXCEPT !.to = has[Target(j.dir)],
                              !.todo = j.from \ has[Target(j.dir)], !.phase = "export"]
  <2>1. new \in Jobs
    BY <1>1, <1>2 DEF Jobs, Phases
  <2>2. new.from = j.from /\ new.phase = "export" /\ new.got = j.got
    BY <1>1 DEF Jobs
  <2>3. Sound(new, seen.shared)
    BY <1>1, <1>10, <2>2 DEF Sound, ListTarget
  <2>4. job' = [job EXCEPT ![s] = new] /\ has' = has
    BY <1>8, <1>10 DEF ListTarget
  <2> QED
    BY <1>6, <1>7, <2>1, <2>3, <2>4
<1>11. ASSUME job' = [job EXCEPT ![s].phase = "failed"]
       PROVE  job' \in [Slots -> Jobs] /\ JobsSound'
  <2> DEFINE new == [j EXCEPT !.phase = "failed"]
  <2>1. new \in Jobs
    BY <1>1 DEF Jobs, Phases
  <2>2. new.phase = "failed" /\ new.got = j.got
    BY <1>1 DEF Jobs
  <2>3. Sound(new, seen.shared)
    BY <1>1, <2>2 DEF Sound
  <2>4. job' = [job EXCEPT ![s] = new]
    BY <1>8, <1>11
  <2> QED
    BY <1>6, <2>1, <2>3, <2>4
<1>12. ASSUME NEW k \in All, ExportKey(s, k)
       PROVE  job' \in [Slots -> Jobs] /\ JobsSound' /\ has' = has
  <2> DEFINE new == [j EXCEPT !.todo = @ \ {k}, !.got = @ \cup ({k} \ Open)]
  <2>1. CASE k \in has[Source(j.dir)]
    <3>1. new \in Jobs
      BY <1>1 DEF Jobs, All
    <3>2. /\ new.got = j.got \cup ({k} \ Open) /\ new.phase = "export"
          /\ new.from = j.from
      BY <1>1, <1>12 DEF Jobs, ExportKey
    <3>3. j.phase = "export" /\ {k} \ Open \subseteq Keys
      BY <1>12 DEF All, ExportKey
    <3>4. Sound(new, seen.shared)
      BY <1>1, <3>2, <3>3 DEF Sound
    <3>5. job' = [job EXCEPT ![s] = new] /\ has' = has
      BY <1>8, <1>12, <2>1 DEF ExportKey
    <3> QED
      BY <1>6, <3>1, <3>4, <3>5
  <2>2. CASE k \notin has[Source(j.dir)]
    BY <1>11, <1>12, <2>2 DEF ExportKey
  <2> QED
    BY <2>1, <2>2
<1>13. CASE AllExported(s)
  <2> DEFINE new == [j EXCEPT !.todo = j.got, !.phase = "copy"]
  <2>1. new \in Jobs
    BY <1>1 DEF Jobs, Phases
  <2>2. /\ new.todo = j.got /\ new.phase = "copy" /\ new.got = j.got
        /\ new.from = j.from
    BY <1>1 DEF Jobs
  <2>3. Sound(new, seen.shared)
    BY <1>1, <1>13, <2>2 DEF Sound, AllExported
  <2>4. job' = [job EXCEPT ![s] = new] /\ has' = has
    BY <1>8, <1>13 DEF AllExported
  <2> QED
    BY <1>6, <1>7, <2>1, <2>3, <2>4
<1>14. ASSUME NEW k \in All, CopyKey(s, k)
       PROVE  /\ job' \in [Slots -> Jobs] /\ JobsSound'
              /\ has' \in [{"app", "host"} -> SUBSET All] /\ has'["app"] \subseteq Keys
              /\ SharedKeysStay'
  <2> DEFINE new == [j EXCEPT !.todo = @ \ {k}]
  <2>1. new \in Jobs
    BY <1>1 DEF Jobs
  <2>2. /\ new.todo = j.todo \ {k} /\ new.phase = "copy" /\ new.got = j.got
        /\ new.from = j.from
    BY <1>1, <1>14 DEF Jobs, CopyKey
  <2>3. j.phase = "copy" /\ k \in j.todo
    BY <1>14 DEF CopyKey
  <2>4. Sound(new, seen.shared) /\ k \in Keys
    BY <1>1, <2>2, <2>3 DEF Sound
  <2>5. job' = [job EXCEPT ![s] = new]
    BY <1>8, <1>14 DEF CopyKey
  <2>6. has' = [has EXCEPT ![Target(j.dir)] = @ \cup {k}]
    BY <1>14 DEF CopyKey
  <2>7. has' \in [{"app", "host"} -> SUBSET All] /\ has'["app"] \subseteq Keys
    BY <1>2, <2>4, <2>6 DEF Inv, TypeOK, All
  <2>8. \A side \in {"app", "host"} : has[side] \subseteq has'[side]
    BY <1>2, <2>6 DEF Inv, TypeOK
  <2>9. SharedKeysStay'
    BY <1>3, <2>8 DEF Inv, SharedKeysStay
  <2> QED
    BY <1>6, <2>1, <2>4, <2>5, <2>7, <2>9
<1>15. CASE AllCopied(s)
  <2> DEFINE new == [j EXCEPT !.todo = j.to \ j.from, !.phase = "prune"]
  <2>1. new \in Jobs
    BY <1>1 DEF Jobs, Phases
  <2>2. new.todo = j.to \ j.from /\ new.phase = "prune" /\ new.got = j.got
    BY <1>1 DEF Jobs
  <2>3. Sound(new, seen.shared)
    BY <1>1, <1>15, <2>2 DEF Sound, AllCopied
  <2>4. job' = [job EXCEPT ![s] = new] /\ has' = has
    BY <1>8, <1>15 DEF AllCopied
  <2> QED
    BY <1>6, <1>7, <2>1, <2>3, <2>4
<1>16. ASSUME NEW k \in All, PruneKey(s, k)
       PROVE  /\ job' \in [Slots -> Jobs] /\ JobsSound'
              /\ has' \in [{"app", "host"} -> SUBSET All] /\ has'["app"] \subseteq Keys
              /\ SharedKeysStay'
  <2>1. j.phase = "prune" /\ k \in j.todo /\ k \notin seen.shared
    BY <1>1, <1>16 DEF PruneKey, Sound
  <2>2. has' = [has EXCEPT ![Target(j.dir)] = @ \ {k}]
    BY <1>16 DEF PruneKey
  <2>3. has' \in [{"app", "host"} -> SUBSET All] /\ has'["app"] \subseteq Keys
    BY <1>2, <2>2 DEF Inv, TypeOK
  <2>4. \A side \in {"app", "host"} : has[side] \ {k} \subseteq has'[side]
    BY <1>2, <2>2 DEF Inv, TypeOK
  <2>5. SharedKeysStay'
    BY <1>3, <2>1, <2>4 DEF Inv, SharedKeysStay
  <2>6. job' \in [Slots -> Jobs] /\ JobsSound'
    <3>1. CASE k \in has[Target(j.dir)]
      <4> DEFINE new == [j EXCEPT !.todo = @ \ {k}]
      <4>1. new \in Jobs
        BY <1>1 DEF Jobs
      <4>2. new.todo = j.todo \ {k} /\ new.phase = "prune" /\ new.got = j.got
        BY <1>1, <2>1 DEF Jobs
      <4>3. Sound(new, seen.shared)
        BY <1>1, <2>1, <4>2 DEF Sound
      <4>4. job' = [job EXCEPT ![s] = new]
        BY <1>8, <1>16, <3>1 DEF PruneKey
      <4> QED
        BY <1>6, <4>1, <4>3, <4>4
    <3>2. CASE k \notin has[Target(j.dir)]
      BY <1>11, <1>16, <3>2 DEF PruneKey
    <3> QED
      BY <3>1, <3>2
  <2> QED
    BY <2>3, <2>5, <2>6
<1>17. CASE AllPruned(s)
  <2> DEFINE new == [j EXCEPT !.phase = "done"]
  <2>1. new \in Jobs
    BY <1>1 DEF Jobs, Phases
  <2>2. new.phase = "done" /\ new.got = j.got
    BY <1>1 DEF Jobs
  <2>3. Sound(new, seen.shared)
    BY <1>1, <2>2 DEF Sound
  <2>4. job' = [job EXCEPT ![s] = new] /\ has' = has
    BY <1>8, <1>17 DEF AllPruned
  <2> QED
    BY <1>6, <1>7, <2>1, <2>3, <2>4
<1>18. CASE CallFails(s)
  BY <1>7, <1>11, <1>18 DEF CallFails
<1> QED
  BY <1>7, <1>9, <1>10, <1>12, <1>13, <1>14, <1>15, <1>16, <1>17, <1>18 DEF SyncStep

\* A step that leaves the jobs to Loads and the keys of the two sides alone.
LEMMA WindowSteps ==
    ASSUME Inv, NEW w \in Windows,
           \/ Refresh(w) \/ LoadAnswered(w) \/ LoadDies(w)
    PROVE  Inv'
<1>1. seen'.shared = seen.shared /\ seen' \in [kept : SUBSET Keys, shared : SUBSET Keys,
                                             disturbed : BOOLEAN]
  <2>1. seen \in [kept : SUBSET Keys, shared : SUBSET Keys, disturbed : BOOLEAN]
        /\ Disturbed \in BOOLEAN
    BY DEF Inv, TypeOK, Disturbed
  <2> QED
    BY <2>1 DEF Refresh, LoadAnswered, LoadDies
<1>2. Cells'
  <2>1. Cells /\ win[w].pending \in BOOLEAN /\ enabled \in BOOLEAN
    BY DEF Cells, Inv, TypeOK
  <2>2. \E pending, on \in BOOLEAN : BeginLoad(w, pending) \/ FinishLoad(w, on)
    BY <2>1 DEF Refresh, LoadAnswered, LoadDies
  <2> QED
    BY <1>1, <2>1, <2>2, Loads
<1>3. UNCHANGED <<has, ui, making>>
  BY DEF Refresh, LoadAnswered, LoadDies
<1>4. enabled' \in BOOLEAN
  BY DEF Refresh, LoadAnswered, LoadDies, Inv, TypeOK
<1>5. used' \in [ops : 0..MaxOps, failures : 0..MaxFailures]
  <2>1. Operate \/ OneFailure \/ UNCHANGED used
    BY DEF Refresh, LoadAnswered, LoadDies, Click
  <2> QED
    BY <2>1, Counted DEF Inv, TypeOK
<1>6. TypeOK'
  BY <1>1, <1>2, <1>3, <1>4, <1>5 DEF Inv, TypeOK, Cells
<1>7. SharedKeysStay'
  BY <1>1, <1>3 DEF Inv, SharedKeysStay
<1> QED
  BY <1>2, <1>6, <1>7 DEF Inv, Cells

\* Keys that are made in the app.
LEMMA NewKeys ==
    ASSUME Inv, NEW w \in Windows,
           \/ \E k \in Keys, place \in {"page", "entry"} : MakeKey(w, k, place)
           \/ StoreKey(w) \/ KeyMade(w) \/ KeyNotMade(w)
    PROVE  Inv'
<1> DEFINE Making == [key : SUBSET Keys, place : {"page", "entry"}, stored : BOOLEAN]
<1>1. making \in [Windows -> Making] /\ making[w] \in Making /\ NoKey \in Making
  BY DEF Inv, TypeOK, NoKey
<1>2. making' \in [Windows -> Making]
  <2>1. \A k \in Keys, place \in {"page", "entry"} :
          [key |-> {k}, place |-> place, stored |-> FALSE] \in Making
    OBVIOUS
  <2>2. [making[w] EXCEPT !.stored = TRUE] \in Making
    BY <1>1
  <2>3. \E new \in Making : making' = [making EXCEPT ![w] = new]
    BY <1>1, <2>1, <2>2 DEF MakeKey, StoreKey, KeyMade, KeyNotMade
  <2> QED
    BY <1>1, <2>3
<1>3. seen'.shared = seen.shared /\ seen' \in [kept : SUBSET Keys, shared : SUBSET Keys,
                                             disturbed : BOOLEAN]
  <2>1. seen \in [kept : SUBSET Keys, shared : SUBSET Keys, disturbed : BOOLEAN]
        /\ Disturbed \in BOOLEAN
    BY DEF Inv, TypeOK, Disturbed
  <2>2. \/ \E d \in BOOLEAN : seen' = [seen EXCEPT !.disturbed = d]
        \/ seen' = [seen EXCEPT !.kept = @ \cup making[w].key]
        \/ seen' = seen
    <3>1. making[w].stored \in BOOLEAN /\ seen.disturbed \in BOOLEAN
      BY <1>1, <2>1
    <3> QED
      BY <2>1, <3>1 DEF MakeKey, StoreKey, KeyMade, KeyNotMade
  <2>3. making[w].key \subseteq Keys
    BY <1>1
  <2> QED
    BY <2>1, <2>2, <2>3
<1>4. /\ has' \in [{"app", "host"} -> SUBSET All] /\ has'["app"] \subseteq Keys
      /\ \A side \in {"app", "host"} : has[side] \subseteq has'[side]
  <2>1. has' = has \/ has' = [has EXCEPT !["app"] = @ \cup making[w].key]
    BY DEF MakeKey, StoreKey, KeyMade, KeyNotMade
  <2> QED
    BY <1>1, <2>1 DEF Inv, TypeOK, All
<1>5. Cells'
  <2>1. Cells
    BY DEF Cells, Inv, TypeOK
  <2>2. CASE BeginLoad(w, TRUE)
    BY <1>3, <2>1, <2>2, Loads DEF Inv, TypeOK
  <2>3. CASE UNCHANGED <<job, win>>
    BY <1>3, <2>1, <2>3, SameJobs DEF Cells
  <2>4. CASE job' = [job EXCEPT ![Ui] = Job("source", "toHost")] /\ UNCHANGED win
    <3>1. Ui \in Slots /\ "toHost" \in Directions
      BY DEF Slots, Directions
    <3>2. /\ Job("source", "toHost") \in Jobs
          /\ Sound(Job("source", "toHost"), seen.shared)
      BY <3>1, FreshJobs
    <3> QED
      BY <1>3, <2>1, <2>4, <3>1, <3>2, OneJob DEF Cells
  <2> QED
    BY <2>2, <2>3, <2>4 DEF MakeKey, StoreKey, KeyMade, KeyNotMade
<1>6. /\ enabled' = enabled
      /\ ui' \in {"none", "startup", "import"} \cup Windows
  BY DEF MakeKey, StoreKey, KeyMade, KeyNotMade, Inv, TypeOK
<1>7. used' \in [ops : 0..MaxOps, failures : 0..MaxFailures]
  <2>1. Operate \/ OneFailure \/ UNCHANGED used
    BY DEF MakeKey, StoreKey, KeyMade, KeyNotMade, Click
  <2> QED
    BY <2>1, Counted DEF Inv, TypeOK
<1>8. TypeOK'
  BY <1>2, <1>3, <1>4, <1>5, <1>6, <1>7 DEF Inv, TypeOK, Cells
<1>9. SharedKeysStay'
  BY <1>3, <1>4 DEF Inv, SharedKeysStay
<1> QED
  BY <1>5, <1>8, <1>9 DEF Inv, Cells

\* A key is removed, from the app or on the host.
LEMMA RemovedKeys ==
    ASSUME Inv, NEW k \in All,
           \/ \E w \in Windows : k \in Keys /\ RemoveKey(w, k)
           \/ HostRemovesKey(k)
    PROVE  Inv'
<1>1. /\ seen' \in [kept : SUBSET Keys, shared : SUBSET Keys, disturbed : BOOLEAN]
      /\ seen'.shared = seen.shared \ {k}
  <2>1. /\ seen.kept \subseteq Keys /\ seen.shared \subseteq Keys
        /\ Disturbed \in BOOLEAN /\ Running \in BOOLEAN
    BY DEF Inv, TypeOK, Disturbed, Running
  <2>2. \E d \in BOOLEAN :
          seen' = [kept |-> seen.kept \ {k}, shared |-> seen.shared \ {k}, disturbed |-> d]
    <3>1. CASE \E w \in Windows : RemoveKey(w, k)
      BY <2>1, <3>1 DEF RemoveKey
    <3>2. CASE HostRemovesKey(k)
      <4>1. (Disturbed \/ Running) \in BOOLEAN
        OBVIOUS
      <4> QED
        BY <3>2, <4>1 DEF HostRemovesKey
    <3> QED
      BY <3>1, <3>2
  <2> QED
    BY <2>1, <2>2
<1>2. /\ has' \in [{"app", "host"} -> SUBSET All] /\ has'["app"] \subseteq Keys
      /\ \A side \in {"app", "host"} : has[side] \ {k} \subseteq has'[side]
  <2>1. \E side \in {"app", "host"} : has' = [has EXCEPT ![side] = @ \ {k}]
    BY DEF RemoveKey, HostRemovesKey
  <2> QED
    BY <2>1 DEF Inv, TypeOK
<1>3. Cells'
  <2>1. Cells /\ enabled \in BOOLEAN
    BY DEF Cells, Inv, TypeOK
  <2>2. CASE \E w \in Windows : BeginLoad(w, TRUE)
    BY <1>1, <2>1, <2>2, Loads
  <2>3. CASE UNCHANGED <<job, win>>
    BY <1>1, <2>1, <2>3, SameJobs DEF Cells
  <2> QED
    BY <2>2, <2>3 DEF RemoveKey, HostRemovesKey
<1>4. UNCHANGED <<enabled, ui, making>> /\ Operate
  BY DEF RemoveKey, HostRemovesKey, Click
<1>5. used' \in [ops : 0..MaxOps, failures : 0..MaxFailures]
  BY <1>4, Counted DEF Inv, TypeOK
<1>6. TypeOK'
  BY <1>1, <1>2, <1>3, <1>4, <1>5 DEF Inv, TypeOK, Cells
<1>7. SharedKeysStay'
  BY <1>1, <1>2 DEF Inv, SharedKeysStay
<1> QED
  BY <1>3, <1>6, <1>7 DEF Inv, Cells

\* Syncs on the UI thread begin and end, the process exits, the host changes.
LEMMA OtherSteps ==
    ASSUME Inv,
           \/ \E w \in Windows : NewWindow(w) \/ TurnOn(w) \/ TurnOff(w)
           \/ UiSyncEnds \/ Exit
           \/ \E s \in Slots : NotSaved(s)
           \/ \E k \in All : HostMakesKey(k)
    PROVE  Inv'
<1>1. /\ seen' \in [kept : SUBSET Keys, shared : SUBSET Keys, disturbed : BOOLEAN]
      /\ seen'.shared = seen.shared
  <2>1. /\ seen \in [kept : SUBSET Keys, shared : SUBSET Keys, disturbed : BOOLEAN]
        /\ seen.kept \subseteq Keys
        /\ Disturbed \in BOOLEAN /\ Running \in BOOLEAN /\ enabled \in BOOLEAN
    BY DEF Inv, TypeOK, Disturbed, Running
  <2>2. \/ \E d \in BOOLEAN : seen' = [seen EXCEPT !.disturbed = d]
        \/ \E d \in BOOLEAN : seen' = [seen EXCEPT !.kept = @ \cap has["host"], !.disturbed = d]
        \/ \E d \in BOOLEAN, k \in All :
             seen' = [seen EXCEPT !.kept = @ \cup ({k} \ Open), !.disturbed = d]
    BY <2>1 DEF NewWindow, TurnOn, TurnOff, UiSyncEnds, Exit, NotSaved, HostMakesKey
  <2> QED
    BY ZenonT(60), <2>1, <2>2 DEF All
<1>2. /\ has' \in [{"app", "host"} -> SUBSET All] /\ has'["app"] \subseteq Keys
      /\ \A side \in {"app", "host"} : has[side] \subseteq has'[side]
  <2>1. has' = has \/ \E k \in All : has' = [has EXCEPT !["host"] = @ \cup {k}]
    BY DEF NewWindow, TurnOn, TurnOff, UiSyncEnds, Exit, NotSaved, HostMakesKey
  <2> QED
    BY <2>1 DEF Inv, TypeOK
<1>3. Cells'
  <2>1. Cells /\ enabled \in BOOLEAN
    BY DEF Cells, Inv, TypeOK
  <2>2. /\ Ui \in Slots
        /\ Idle \in Jobs /\ Sound(Idle, seen.shared)
        /\ Job("source", "toApp") \in Jobs /\ Sound(Job("source", "toApp"), seen.shared)
    BY FreshJobs DEF Slots, Directions
  <2>3. ASSUME NEW new \in {Idle, Job("source", "toApp")}, job' = [job EXCEPT ![Ui] = new]
        PROVE  job' \in [Slots -> Jobs] /\ JobsSound'
    BY <1>1, <2>1, <2>2, <2>3, OneJob DEF Cells
  <2>4. ASSUME job' = job
        PROVE  job' \in [Slots -> Jobs] /\ JobsSound'
    BY <1>1, <2>1, <2>4, SameJobs DEF Cells
  <2>5. CASE \E w \in Windows : NewWindow(w)
    <3>1. win' \in [Windows -> [open : BOOLEAN, pending : BOOLEAN, queued : BOOLEAN]]
      BY ZenonT(60), <2>1, <2>5 DEF Cells, NewWindow
    <3> QED
      BY <2>3, <2>4, <2>5, <3>1 DEF Cells, NewWindow
  <2>6. CASE \/ \E w \in Windows : TurnOn(w) \/ TurnOff(w)
             \/ UiSyncEnds \/ \E k \in All : HostMakesKey(k)
    <3>1. \/ job' = job
          \/ \E new \in {Idle, Job("source", "toApp")} : job' = [job EXCEPT ![Ui] = new]
      BY <2>6 DEF TurnOn, TurnOff, UiSyncEnds, HostMakesKey
    <3>2. win' = win
      BY <2>6 DEF TurnOn, TurnOff, UiSyncEnds, HostMakesKey
    <3> QED
      BY <2>1, <2>3, <2>4, <3>1, <3>2 DEF Cells
  <2>7. CASE \E s \in Slots : NotSaved(s)
    <3>1. \/ \E w \in Windows : FinishLoad(w, enabled)
          \/ job' = [job EXCEPT ![Ui] = Idle] /\ win' = win
      BY <2>7 DEF NotSaved
    <3>2. CASE \E w \in Windows : FinishLoad(w, enabled)
      BY <1>1, <2>1, <3>2, Loads
    <3>3. CASE job' = [job EXCEPT ![Ui] = Idle] /\ win' = win
      BY <2>1, <2>3, <3>3 DEF Cells
    <3> QED
      BY <3>1, <3>2, <3>3
  <2>8. CASE Exit
    <3>1. job' = [s \in Slots |-> Idle]
          /\ win' = [w \in Windows |-> [open |-> FALSE, pending |-> FALSE, queued |-> FALSE]]
      BY <2>8 DEF Exit
    <3> QED
      BY <1>1, <2>2, <3>1 DEF Cells, JobsSound
  <2> QED
    BY <2>5, <2>6, <2>7, <2>8
<1>4. /\ enabled' \in BOOLEAN
      /\ ui' \in {"none", "startup", "import"} \cup Windows
  <2>1. enabled \in BOOLEAN /\ ui \in {"none", "startup", "import"} \cup Windows
    BY DEF Inv, TypeOK
  <2>2. ui' \in {"none", "startup", "import"} \cup Windows
    BY <2>1 DEF NewWindow, TurnOn, TurnOff, UiSyncEnds, Exit, NotSaved, HostMakesKey
  <2>3. CASE UiSyncEnds
    <3>1. (enabled \/ ui \in Windows) \in BOOLEAN /\ (enabled /\ ui \in Windows) \in BOOLEAN
      OBVIOUS
    <3> QED
      BY <2>2, <2>3, <3>1 DEF UiSyncEnds
  <2>4. CASE enabled' \in {enabled, FALSE}
    BY <2>1, <2>2, <2>4
  <2> QED
    BY <2>3, <2>4 DEF NewWindow, TurnOn, TurnOff, Exit, NotSaved, HostMakesKey
<1>5. making' \in [Windows -> [key : SUBSET Keys, place : {"page", "entry"},
                               stored : BOOLEAN]]
  <2>1. making' = making \/ making' = [w \in Windows |-> NoKey]
    BY DEF NewWindow, TurnOn, TurnOff, UiSyncEnds, Exit, NotSaved, HostMakesKey
  <2>2. NoKey \in [key : SUBSET Keys, place : {"page", "entry"}, stored : BOOLEAN]
    BY DEF NoKey
  <2>3. making \in [Windows -> [key : SUBSET Keys, place : {"page", "entry"},
                              stored : BOOLEAN]]
    BY DEF Inv, TypeOK
  <2> QED
    BY <2>1, <2>2, <2>3
<1>6. used' \in [ops : 0..MaxOps, failures : 0..MaxFailures]
  <2>1. Operate \/ OneFailure \/ UNCHANGED used
    BY DEF NewWindow, TurnOn, TurnOff, UiSyncEnds, Exit, NotSaved, HostMakesKey, Click
  <2> QED
    BY <2>1, Counted DEF Inv, TypeOK
<1>7. TypeOK'
  BY <1>1, <1>2, <1>3, <1>4, <1>5, <1>6 DEF Inv, TypeOK, Cells
<1>8. SharedKeysStay'
  BY <1>1, <1>2 DEF Inv, SharedKeysStay
<1> QED
  BY <1>3, <1>7, <1>8 DEF Inv, Cells

LEMMA StepInv == Inv /\ [Next]_vars => Inv'
<1> SUFFICES ASSUME Inv, [Next]_vars PROVE Inv'
  OBVIOUS
<1>1. CASE UNCHANGED vars
  <2>1. JobsSound'
    BY <1>1, SameJobs DEF vars, Inv
  <2> QED
    BY <1>1, <2>1 DEF vars, Inv, TypeOK, SharedKeysStay
<1>2. CASE \E s \in Slots : SyncStep(s) \/ CallFails(s)
  BY <1>2, SyncCalls
<1>3. CASE \E w \in Windows : Refresh(w) \/ LoadAnswered(w) \/ LoadDies(w)
  BY <1>3, WindowSteps
<1>4. CASE \E w \in Windows :
             \/ \E k \in Keys, place \in {"page", "entry"} : MakeKey(w, k, place)
             \/ StoreKey(w) \/ KeyMade(w) \/ KeyNotMade(w)
  BY <1>4, NewKeys
<1>5. CASE \/ \E w \in Windows : \E k \in Keys : RemoveKey(w, k)
           \/ \E k \in All : HostRemovesKey(k)
  BY <1>5, RemovedKeys DEF All
<1>6. CASE \/ \E w \in Windows : NewWindow(w) \/ TurnOn(w) \/ TurnOff(w)
           \/ UiSyncEnds \/ Exit
           \/ \E s \in Slots : NotSaved(s)
           \/ \E k \in All : HostMakesKey(k)
  BY <1>6, OtherSteps
<1> QED
  BY <1>1, <1>2, <1>3, <1>4, <1>5, <1>6 DEF Next

LEMMA InvAlways == Spec => []Inv
BY InitInv, StepInv, PTL DEF Spec

-----------------------------------------------------------------------------
(* The theorems *)

\* The app only ever holds keys with a passphrase, and every sync under way,
\* inventory load and key being made keeps its type
\* (store_ripasso_private_key_bytes refuses other keys).
THEOREM TypeCorrect == Spec => []TypeOK
<1>1. Inv => TypeOK
  BY DEF Inv
<1> QED
  BY <1>1, InvAlways, PTL

\* No number of syncs, in either direction, on any number of threads, however
\* they interleave, fail or are cut off, deletes a key that both sides had and
\* nobody removed (sync_host_private_keys_to_app, sync_app_private_keys_to_host).
THEOREM SyncsDeleteNoSharedKey == Spec => []SharedKeysStay
<1>1. Inv => SharedKeysStay
  BY DEF Inv
<1> QED
  BY <1>1, InvAlways, PTL

-----------------------------------------------------------------------------
(* What holds while nothing runs into anything else.                       *)

Agree(sides) == sides["app"] = sides["host"] \ Open

Calling(j) == j.phase \in {"source", "target", "export", "copy", "prune"}

\* How far a sync that runs alone has come.  The keys that may not be lost are
\* all on its source; when its copies are done, its target has its source's
\* keys and those it is about to prune.
OnCourse(j, sides, kept) ==
    /\ kept \subseteq sides[Source(j.dir)]
    /\ j.phase \in {"source", "target"} => j.got = {}
    /\ j.phase \in {"target", "export", "copy", "prune"} => j.from = sides[Source(j.dir)]
    /\ j.phase = "export" =>
         /\ j.to = sides[Target(j.dir)]
         /\ (j.from \ j.to) \ Open = j.got \cup (j.todo \ Open)
    /\ j.phase = "copy" =>
         sides[Target(j.dir)] \cup j.todo = j.to \cup (j.from \ Open)
    /\ j.phase = "prune" =>
         /\ sides[Target(j.dir)] = (j.from \ Open) \cup j.todo
         /\ j.todo \cap j.from = {}

\* A load that does not synchronize is done at once, and then tells nothing.
InStep(s, j, sides, kept, on) ==
    /\ Calling(j) => OnCourse(j, sides, kept)
    /\ j.phase = "done" /\ (on \/ s = Ui) => Agree(sides)

OneAtATime ==
    /\ \A s, t \in Slots : job[s] # Idle /\ job[t] # Idle => s = t
    /\ \A v, w \in Windows : making[v] # NoKey /\ making[w] # NoKey => v = w
    /\ \A s \in Slots, w \in Windows : job[s] = Idle \/ making[w] = NoKey

NothingWaits == \A w \in Windows : ~win[w].pending /\ ~win[w].queued

KeysKept == seen.kept \subseteq has["app"] \cup has["host"]

JobsInStep ==
    \A s \in Slots : job[s] # Idle =>
      Running /\ InStep(s, job[s], has, seen.kept, enabled)

Stored(m) == IF m.stored THEN m.key ELSE {}
MakingInStep ==
    \A w \in Windows : making[w] # NoKey =>
      /\ Running
      /\ Stored(making[w]) \subseteq has["app"]
      /\ enabled => has["app"] = (has["host"] \ Open) \cup Stored(making[w])

AtRest ==
    Settled /\ enabled => seen.kept \subseteq has["host"] /\ (Running => Agree(has))

Peace ==
    OneAtATime /\ NothingWaits /\ KeysKept /\ JobsInStep /\ MakingInStep /\ AtRest

\* Whoever lets each load and each new key finish finds the two sides in step.
Calm == ~seen.disturbed => Peace

-----------------------------------------------------------------------------
(* Three ways to be at peace: one sync runs, one key is made, nothing runs. *)

LEMMA OneSyncRuns ==
    ASSUME job \in [Slots -> Jobs], NEW s \in Slots, NEW new \in Jobs, new # Idle,
           job' = [job EXCEPT ![s] = new], \A t \in Slots \ {s} : job[t] = Idle,
           \A w \in Windows : making'[w] = NoKey,
           NothingWaits', Running', KeysKept',
           InStep(s, new, has', seen'.kept, enabled')
    PROVE  Peace'
<1>1. job'[s] = new /\ \A t \in Slots \ {s} : job'[t] = Idle
  OBVIOUS
<1>2. OneAtATime'
  BY <1>1 DEF OneAtATime
<1>3. JobsInStep'
  BY <1>1 DEF JobsInStep
<1>4. MakingInStep'
  BY DEF MakingInStep
<1>5. AtRest'
  BY <1>1 DEF AtRest, Settled
<1> QED
  BY <1>2, <1>3, <1>4, <1>5 DEF Peace

LEMMA OneKeyIsMade ==
    ASSUME \A s \in Slots : job'[s] = Idle, NEW w \in Windows,
           making'[w] # NoKey, \A v \in Windows \ {w} : making'[v] = NoKey,
           NothingWaits', Running', KeysKept', Stored(making'[w]) \subseteq has'["app"],
           enabled' => has'["app"] = (has'["host"] \ Open) \cup Stored(making'[w])
    PROVE  Peace'
<1>1. OneAtATime'
  BY DEF OneAtATime
<1>2. JobsInStep'
  BY DEF JobsInStep
<1>3. MakingInStep'
  BY DEF MakingInStep
<1>4. AtRest'
  BY DEF AtRest, Settled
<1> QED
  BY <1>1, <1>2, <1>3, <1>4 DEF Peace

LEMMA NothingRuns ==
    ASSUME Settled', NothingWaits', KeysKept',
           enabled' => seen'.kept \subseteq has'["host"] /\ (Running' => Agree(has'))
    PROVE  Peace'
BY DEF Peace, Settled, OneAtATime, JobsInStep, MakingInStep, AtRest

\* What the jobs are that a load or the UI thread starts with.
LEMMA FreshSyncs ==
    ASSUME NEW s \in Slots, NEW sides, NEW kept, NEW dir \in Directions,
           kept \subseteq sides[Source(dir)], NEW on
    PROVE  /\ Job("source", dir) \in Jobs /\ Job("source", dir) # Idle
           /\ InStep(s, Job("source", dir), sides, kept, on)
BY FreshJobs DEF Job, Idle, InStep, OnCourse, Calling

LEMMA DoneLoads ==
    ASSUME NEW w \in Windows, NEW sides, NEW kept
    PROVE  /\ Job("done", "toApp") \in Jobs /\ Job("done", "toApp") # Idle
           /\ InStep(w, Job("done", "toApp"), sides, kept, FALSE)
<1>1. w # Ui
  BY SyncAssumption
<1>2. Job("done", "toApp") \in Jobs
  BY DEF Job, Jobs, Phases, Directions
<1> QED
  BY <1>1, <1>2 DEF Job, Idle, InStep, Calling

-----------------------------------------------------------------------------
(* The steps of a sync.                                                    *)

LEMMA CallsStayInStep ==
    ASSUME Inv, Calm, ~seen'.disturbed, NEW s \in Slots, SyncStep(s) \/ CallFails(s)
    PROVE  Peace'
<1> DEFINE j == job[s]
           S == Source(j.dir)
           T == Target(j.dir)
<1>1. /\ UNCHANGED <<enabled, win, ui, making, seen>> /\ j.phase # "idle"
      /\ Running' = Running
  BY DEF SyncStep, ListSource, ListTarget, ExportKey, AllExported, CopyKey, AllCopied,
         PruneKey, AllPruned, CallFails, Running
<1>2. Peace
  BY <1>1 DEF Calm
<1>3. j # Idle /\ Idle.phase = "idle"
  BY <1>1 DEF Idle, Job
<1>4. /\ \A t \in Slots \ {s} : job[t] = Idle
      /\ \A w \in Windows : making[w] = NoKey
      /\ Running /\ InStep(s, j, has, seen.kept, enabled)
      /\ NothingWaits' /\ KeysKept
  BY <1>1, <1>2, <1>3 DEF Peace, OneAtATime, JobsInStep, NothingWaits
<1>5. /\ job \in [Slots -> Jobs] /\ j \in Jobs /\ seen.kept \subseteq Keys
      /\ has["app"] \subseteq Keys /\ has \in [{"app", "host"} -> SUBSET All]
  BY DEF Inv, TypeOK
<1>6. /\ S \in {"app", "host"} /\ T \in {"app", "host"} /\ S # T
      /\ S = "app" \/ T = "app"
      /\ has[S] \subseteq All /\ has[T] \subseteq All
  BY <1>5 DEF Source, Target, Jobs
<1>7. Keys \cap Open = {}
  BY SyncAssumption
<1>8. ASSUME NEW new \in Jobs, new.phase # "idle", job' = [job EXCEPT ![s] = new],
             KeysKept', InStep(s, new, has', seen.kept, enabled)
      PROVE  Peace'
  BY <1>1, <1>3, <1>4, <1>5, <1>8, OneSyncRuns
<1>9. ASSUME job' = [job EXCEPT ![s].phase = "failed"], KeysKept'
      PROVE  Peace'
  <2> DEFINE new == [j EXCEPT !.phase = "failed"]
  <2>1. new \in Jobs /\ new.phase = "failed" /\ job' = [job EXCEPT ![s] = new]
    BY <1>5, <1>9 DEF Jobs, Phases
  <2>2. InStep(s, new, has', seen.kept, enabled)
    BY <2>1 DEF InStep, Calling
  <2> QED
    BY <1>8, <1>9, <2>1, <2>2
<1>10. ASSUME has' = has
       PROVE  KeysKept'
  BY <1>1, <1>4, <1>10 DEF KeysKept
<1>11. Calling(j) => OnCourse(j, has, seen.kept)
  BY <1>4 DEF InStep
<1>12. CASE ListSource(s)
  <2> DEFINE new == [j EXCEPT !.from = has[S], !.phase = "target"]
  <2>1. /\ new \in Jobs /\ new.phase = "target" /\ new.from = has[S]
        /\ new.dir = j.dir /\ new.got = j.got
    BY <1>5, <1>6 DEF Jobs, Phases
  <2>2. job' = [job EXCEPT ![s] = new] /\ has' = has /\ j.phase = "source"
    BY <1>5, <1>12 DEF ListSource
  <2>3. OnCourse(new, has, seen.kept)
    BY <1>11, <2>1, <2>2 DEF OnCourse, Calling
  <2>4. InStep(s, new, has, seen.kept, enabled)
    BY <2>1, <2>3 DEF InStep
  <2> QED
    BY <1>8, <1>10, <2>1, <2>2, <2>4
<1>13. CASE ListTarget(s)
  <2> DEFINE new == [j EXCEPT !.to = has[T], !.todo = j.from \ has[T], !.phase = "export"]
  <2>1. /\ new \in Jobs /\ new.phase = "export" /\ new.from = j.from /\ new.to = has[T]
        /\ new.todo = j.from \ has[T] /\ new.dir = j.dir /\ new.got = j.got
    BY <1>5, <1>6 DEF Jobs, Phases
  <2>2. job' = [job EXCEPT ![s] = new] /\ has' = has /\ j.phase = "target"
    BY <1>5, <1>13 DEF ListTarget
  <2>3. OnCourse(new, has, seen.kept)
    BY <1>11, <2>1, <2>2 DEF OnCourse, Calling
  <2>4. InStep(s, new, has, seen.kept, enabled)
    BY <2>1, <2>3 DEF InStep
  <2> QED
    BY <1>8, <1>10, <2>1, <2>2, <2>4
<1>14. ASSUME NEW k \in All, ExportKey(s, k)
       PROVE  Peace'
  <2> DEFINE new == [j EXCEPT !.todo = @ \ {k}, !.got = @ \cup ({k} \ Open)]
  <2>1. CASE k \in has[S]
    <3>1. /\ new \in Jobs /\ new.phase = j.phase /\ new.from = j.from /\ new.to = j.to
          /\ new.todo = j.todo \ {k} /\ new.got = j.got \cup ({k} \ Open)
          /\ new.dir = j.dir
      BY <1>5 DEF Jobs, All
    <3>2. /\ job' = [job EXCEPT ![s] = new] /\ has' = has /\ j.phase = "export"
          /\ k \in j.todo
      BY <1>5, <1>14, <2>1 DEF ExportKey
    <3>3. new.got \cup (new.todo \ Open) = j.got \cup (j.todo \ Open)
      BY <3>1, <3>2
    <3>4. OnCourse(new, has, seen.kept)
      BY <1>11, <3>1, <3>2, <3>3 DEF OnCourse, Calling
    <3>5. InStep(s, new, has, seen.kept, enabled)
      BY <3>1, <3>2, <3>4 DEF InStep
    <3> QED
      BY <1>8, <1>10, <3>1, <3>2, <3>5
  <2>2. CASE k \notin has[S]
    BY <1>9, <1>10, <1>14, <2>2 DEF ExportKey
  <2> QED
    BY <2>1, <2>2
<1>15. CASE AllExported(s)
  <2> DEFINE new == [j EXCEPT !.todo = j.got, !.phase = "copy"]
  <2>1. /\ new \in Jobs /\ new.phase = "copy" /\ new.from = j.from /\ new.to = j.to
        /\ new.todo = j.got /\ new.dir = j.dir
    BY <1>5 DEF Jobs, Phases
  <2>2. /\ job' = [job EXCEPT ![s] = new] /\ has' = has /\ j.phase = "export"
        /\ j.todo = {}
    BY <1>5, <1>15 DEF AllExported
  <2>3. OnCourse(j, has, seen.kept)
    BY <1>11, <2>2 DEF Calling
  <2>4. j.to = has[T] /\ (j.from \ j.to) \ Open = j.got /\ j.from = has[S]
    BY <2>2, <2>3 DEF OnCourse
  <2>5. has[T] \cup new.todo = new.to \cup (new.from \ Open)
    BY <2>1, <2>4
  <2>6. OnCourse(new, has, seen.kept)
    BY <2>1, <2>2, <2>3, <2>5 DEF OnCourse
  <2>7. InStep(s, new, has, seen.kept, enabled)
    BY <2>1, <2>6 DEF InStep
  <2> QED
    BY <1>8, <1>10, <2>1, <2>2, <2>7
<1>16. ASSUME NEW k \in All, CopyKey(s, k)
       PROVE  Peace'
  <2> DEFINE new == [j EXCEPT !.todo = @ \ {k}]
  <2>1. /\ new \in Jobs /\ new.phase = j.phase /\ new.from = j.from /\ new.to = j.to
        /\ new.todo = j.todo \ {k} /\ new.got = j.got /\ new.dir = j.dir
    BY <1>5 DEF Jobs
  <2>2. /\ job' = [job EXCEPT ![s] = new] /\ j.phase = "copy" /\ k \in j.todo
        /\ has' = [has EXCEPT ![T] = @ \cup {k}]
    BY <1>5, <1>16 DEF CopyKey
  <2>3. has'[T] = has[T] \cup {k} /\ has'[S] = has[S]
    BY <1>5, <1>6, <2>2
  <2>4. OnCourse(j, has, seen.kept)
    BY <1>11, <2>2 DEF Calling
  <2>5. OnCourse(new, has', seen.kept)
    BY <2>1, <2>2, <2>3, <2>4 DEF OnCourse
  <2>6. InStep(s, new, has', seen.kept, enabled)
    BY <2>1, <2>2, <2>5 DEF InStep
  <2>7. KeysKept'
    <3>1. seen.kept \subseteq has'[S]
      BY <2>3, <2>4 DEF OnCourse
    <3> QED
      BY <1>1, <1>6, <3>1 DEF KeysKept
  <2> QED
    BY <1>8, <2>1, <2>2, <2>6, <2>7
<1>17. CASE AllCopied(s)
  <2> DEFINE new == [j EXCEPT !.todo = j.to \ j.from, !.phase = "prune"]
  <2>1. /\ new \in Jobs /\ new.phase = "prune" /\ new.from = j.from /\ new.to = j.to
        /\ new.todo = j.to \ j.from /\ new.dir = j.dir
    BY <1>5 DEF Jobs, Phases
  <2>2. /\ job' = [job EXCEPT ![s] = new] /\ has' = has /\ j.phase = "copy"
        /\ j.todo = {}
    BY <1>5, <1>17 DEF AllCopied
  <2>3. OnCourse(j, has, seen.kept)
    BY <1>11, <2>2 DEF Calling
  <2>4. has[T] = j.to \cup (j.from \ Open) /\ j.from = has[S]
    BY <2>2, <2>3 DEF OnCourse
  <2>5. has[T] \cap Open = {} \/ j.from \cap Open = {}
    BY <1>5, <1>6, <1>7, <2>4
  <2>6. has[T] = (new.from \ Open) \cup new.todo /\ new.todo \cap new.from = {}
    BY <2>1, <2>4, <2>5
  <2>7. OnCourse(new, has, seen.kept)
    BY <2>1, <2>2, <2>3, <2>6 DEF OnCourse
  <2>8. InStep(s, new, has, seen.kept, enabled)
    BY <2>1, <2>7 DEF InStep
  <2> QED
    BY <1>8, <1>10, <2>1, <2>2, <2>8
<1>18. ASSUME NEW k \in All, PruneKey(s, k)
       PROVE  Peace'
  <2> DEFINE new == [j EXCEPT !.todo = @ \ {k}]
  <2>1. /\ new \in Jobs /\ new.phase = j.phase /\ new.from = j.from /\ new.to = j.to
        /\ new.todo = j.todo \ {k} /\ new.got = j.got /\ new.dir = j.dir
    BY <1>5 DEF Jobs
  <2>2. /\ j.phase = "prune" /\ k \in j.todo /\ has' = [has EXCEPT ![T] = @ \ {k}]
    BY <1>18 DEF PruneKey
  <2>3. has'[T] = has[T] \ {k} /\ has'[S] = has[S]
    BY <1>5, <1>6, <2>2
  <2>4. OnCourse(j, has, seen.kept)
    BY <1>11, <2>2 DEF Calling
  <2>5. has[T] = (j.from \ Open) \cup j.todo /\ j.todo \cap j.from = {}
    BY <2>2, <2>4 DEF OnCourse
  <2>6. has'[T] = (j.from \ Open) \cup new.todo
    BY <2>1, <2>2, <2>3, <2>5
  <2>7. OnCourse(new, has', seen.kept)
    BY <2>1, <2>2, <2>3, <2>4, <2>5, <2>6 DEF OnCourse
  <2>8. InStep(s, new, has', seen.kept, enabled)
    BY <2>1, <2>2, <2>7 DEF InStep
  <2>9. KeysKept'
    <3>1. seen.kept \subseteq has'[S]
      BY <2>3, <2>4 DEF OnCourse
    <3> QED
      BY <1>1, <1>6, <3>1 DEF KeysKept
  <2>10. k \in has[T]
    BY <2>2, <2>5
  <2>11. job' = [job EXCEPT ![s] = new]
    BY <1>5, <1>18, <2>10 DEF PruneKey
  <2> QED
    BY <1>8, <2>1, <2>2, <2>8, <2>9, <2>11
<1>19. CASE AllPruned(s)
  <2> DEFINE new == [j EXCEPT !.phase = "done"]
  <2>1. new \in Jobs /\ new.phase = "done"
    BY <1>5 DEF Jobs, Phases
  <2>2. /\ job' = [job EXCEPT ![s] = new] /\ has' = has /\ j.phase = "prune"
        /\ j.todo = {}
    BY <1>5, <1>19 DEF AllPruned
  <2>3. has[T] = has[S] \ Open
    BY <1>11, <2>2 DEF OnCourse, Calling
  <2>4. Agree(has)
    <3>1. has["app"] \cap Open = {}
      BY <1>5, <1>7
    <3>2. (S = "app" /\ T = "host") \/ (S = "host" /\ T = "app")
      BY <1>6
    <3> QED
      BY <2>3, <3>1, <3>2 DEF Agree
  <2>5. InStep(s, new, has, seen.kept, enabled)
    BY <2>1, <2>4 DEF InStep, Calling
  <2> QED
    BY <1>8, <1>10, <2>1, <2>2, <2>5
<1>20. CASE CallFails(s)
  BY <1>9, <1>10, <1>20 DEF CallFails
<1> QED
  BY <1>12, <1>13, <1>14, <1>15, <1>16, <1>17, <1>18, <1>19, <1>20 DEF SyncStep

-----------------------------------------------------------------------------
(* Clicks, made keys, loads: whoever is not disturbed starts from rest.    *)

LEMMA LoadBegins ==
    ASSUME Inv, Peace, \A t \in Slots : job[t] = Idle,
           NEW w \in Windows, Running,
           NEW pending \in BOOLEAN, BeginLoad(w, pending),
           enabled' = enabled, \A v \in Windows : making'[v] = NoKey, KeysKept',
           enabled => seen'.kept \subseteq has'[IF pending THEN "app" ELSE "host"]
    PROVE  Peace'
<1>1. /\ job \in [Slots -> Jobs] /\ w \in Slots /\ enabled \in BOOLEAN
      /\ win \in [Windows -> [open : BOOLEAN, pending : BOOLEAN, queued : BOOLEAN]]
  BY DEF Inv, TypeOK, Slots
<1>2. /\ job' = [job EXCEPT ![w] = Load(pending, enabled)]
      /\ win' = [win EXCEPT ![w].pending = FALSE]
  BY <1>1 DEF BeginLoad
<1>3. NothingWaits'
  BY <1>1, <1>2 DEF Peace, NothingWaits
<1>4. Running'
  BY <1>1, <1>2 DEF Running
<1> DEFINE new == Load(pending, enabled)
<1>5. new \in Jobs /\ new # Idle /\ InStep(w, new, has', seen'.kept, enabled)
  <2>1. CASE enabled
    <3>1. PICK dir \in Directions :
            /\ new = Job("source", dir)
            /\ Source(dir) = (IF pending THEN "app" ELSE "host")
      BY <2>1 DEF Load, Source, Directions
    <3>2. seen'.kept \subseteq has'[Source(dir)]
      BY <2>1, <3>1
    <3> QED
      BY <1>1, <3>1, <3>2, FreshSyncs
  <2>2. CASE ~enabled
    <3>1. new = Job("done", "toApp") /\ enabled = FALSE
      BY <1>1, <2>2 DEF Load
    <3> QED
      BY <3>1, DoneLoads
  <2> QED
    BY <2>1, <2>2
<1> QED
  BY <1>1, <1>2, <1>3, <1>4, <1>5, OneSyncRuns

LEMMA UiSyncBegins ==
    ASSUME Inv, \A t \in Slots : job[t] = Idle, NEW dir \in Directions,
           job' = [job EXCEPT ![Ui] = Job("source", dir)],
           \A v \in Windows : making'[v] = NoKey,
           NothingWaits', Running', KeysKept', seen'.kept \subseteq has'[Source(dir)]
    PROVE  Peace'
<1>1. job \in [Slots -> Jobs] /\ Ui \in Slots
  BY DEF Inv, TypeOK, Slots
<1> DEFINE new == Job("source", dir)
<1>2. new \in Jobs /\ new # Idle /\ InStep(Ui, new, has', seen'.kept, enabled')
  BY <1>1, FreshSyncs
<1> QED
  BY <1>1, <1>2, OneSyncRuns

\* A load that was answered and has nothing queued behind it.
LEMMA LoadEnds ==
    ASSUME Inv, Peace, NEW s \in Slots, job[s] # Idle,
           job' = [job EXCEPT ![s] = Idle], UNCHANGED <<win, has, making>>,
           seen'.kept = seen.kept, enabled' => Agree(has)
    PROVE  Peace'
<1>1. /\ job \in [Slots -> Jobs] /\ seen.kept \subseteq Keys
      /\ has["app"] \subseteq Keys
  BY DEF Inv, TypeOK
<1>2. Settled'
  <2>1. \A t \in Slots : job'[t] = Idle
    BY <1>1 DEF Peace, OneAtATime
  <2>2. \A w \in Windows : making'[w] = NoKey
    BY DEF Peace, OneAtATime
  <2> QED
    BY <2>1, <2>2 DEF Settled
<1>3. NothingWaits' /\ KeysKept'
  BY DEF Peace, NothingWaits, KeysKept
<1>4. enabled' => seen'.kept \subseteq has'["host"] /\ Agree(has')
  <2>1. has' = has
    OBVIOUS
  <2>2. Agree(has) => seen.kept \subseteq has["host"]
    BY <1>1 DEF Agree, Peace, KeysKept
  <2> QED
    BY <2>1, <2>2
<1> QED
  BY <1>2, <1>3, <1>4, NothingRuns

\* At rest with the sync on and a window open, each side has every kept key.
LEMMA RestingSides ==
    ASSUME Inv, Peace, Settled, enabled
    PROVE  /\ seen.kept \subseteq has["host"]
           /\ Running => seen.kept \subseteq has["app"] /\ Agree(has)
<1>1. seen.kept \subseteq Keys /\ Keys \cap Open = {}
  BY SyncAssumption DEF Inv, TypeOK
<1> QED
  BY <1>1 DEF Peace, AtRest, Agree

LEMMA ClicksStayInStep ==
    ASSUME Inv, Calm, ~seen'.disturbed, NEW w \in Windows,
           \/ Refresh(w) \/ NewWindow(w) \/ TurnOn(w) \/ TurnOff(w)
           \/ \E k \in Keys : RemoveKey(w, k)
           \/ \E k \in Keys, place \in {"page", "entry"} : MakeKey(w, k, place)
    PROVE  Peace'
<1>1. seen'.disturbed = Disturbed
  <2>1. seen \in [kept : SUBSET Keys, shared : SUBSET Keys, disturbed : BOOLEAN]
    BY DEF Inv, TypeOK
  <2>2. \A d \in BOOLEAN : [seen EXCEPT !.disturbed = d].disturbed = d
    BY <2>1
  <2>3. Disturbed \in BOOLEAN
    BY <2>1 DEF Disturbed
  <2>4. CASE \E k \in Keys : RemoveKey(w, k)
    BY <2>4 DEF RemoveKey
  <2>5. CASE TurnOn(w)
    BY <2>1, <2>3, <2>5 DEF TurnOn
  <2>6. CASE seen' = [seen EXCEPT !.disturbed = Disturbed]
    BY <2>2, <2>3, <2>6
  <2> QED
    BY <2>4, <2>5, <2>6 DEF Refresh, NewWindow, TurnOff, MakeKey
<1>2. Settled /\ Peace
  BY <1>1 DEF Disturbed, Calm
<1>3. /\ \A t \in Slots : job[t] = Idle
      /\ \A v \in Windows : making[v] = NoKey
      /\ NothingWaits /\ KeysKept
  BY <1>2 DEF Settled, Peace
<1>4. /\ enabled \in BOOLEAN /\ seen.kept \subseteq Keys /\ has["app"] \subseteq Keys
      /\ win \in [Windows -> [open : BOOLEAN, pending : BOOLEAN, queued : BOOLEAN]]
      /\ has \in [{"app", "host"} -> SUBSET All]
      /\ seen \in [kept : SUBSET Keys, shared : SUBSET Keys, disturbed : BOOLEAN]
  BY DEF Inv, TypeOK
<1>5. enabled => /\ seen.kept \subseteq has["host"]
                 /\ Running => seen.kept \subseteq has["app"] /\ Agree(has)
  BY <1>2, RestingSides
<1>6. win[w].open => Running
  BY DEF Running
<1>7. CASE Refresh(w)
  <2>1. seen'.kept = seen.kept /\ has' = has /\ making' = making /\ enabled' = enabled
    BY <1>4, <1>7 DEF Refresh
  <2>2. Running /\ BeginLoad(w, FALSE)
    BY <1>3, <1>4, <1>6, <1>7 DEF Refresh, Click, NothingWaits
  <2>3. KeysKept'
    BY <1>3, <2>1 DEF KeysKept
  <2> QED
    BY <1>2, <1>3, <1>5, <2>1, <2>2, <2>3, LoadBegins
<1>8. ASSUME NEW k \in Keys, RemoveKey(w, k)
      PROVE  Peace'
  <2>1. /\ seen'.kept = seen.kept \ {k} /\ making' = making /\ enabled' = enabled
        /\ has'["app"] = has["app"] \ {k} /\ has'["host"] = has["host"]
        /\ Running /\ BeginLoad(w, TRUE)
    BY <1>4, <1>6, <1>8 DEF RemoveKey, Click
  <2>2. KeysKept'
    BY <1>3, <2>1 DEF KeysKept
  <2>3. enabled => seen'.kept \subseteq has'["app"]
    BY <1>5, <1>6, <2>1
  <2> QED
    BY <1>2, <1>3, <2>1, <2>2, <2>3, LoadBegins
<1>9. CASE NewWindow(w)
  <2>1. /\ has' = has /\ seen'.kept = seen.kept /\ making' = making
        /\ enabled' = enabled /\ win' = [win EXCEPT ![w].open = TRUE]
    BY <1>4, <1>9 DEF NewWindow
  <2>2. Running' /\ NothingWaits' /\ KeysKept'
    BY <1>3, <1>4, <2>1 DEF Running, NothingWaits, KeysKept
  <2>3. CASE enabled
    <3>1. job' = [job EXCEPT ![Ui] = Job("source", "toApp")] /\ Source("toApp") = "host"
      BY <1>9, <2>3 DEF NewWindow, Source
    <3> QED
      BY <1>3, <1>5, <2>1, <2>2, <2>3, <3>1, UiSyncBegins DEF Directions
  <2>4. CASE ~enabled
    <3>1. job' = job
      BY <1>9, <2>4 DEF NewWindow
    <3>2. Settled'
      BY <1>2, <2>1, <3>1 DEF Settled
    <3> QED
      BY <2>1, <2>2, <2>4, <3>2, NothingRuns
  <2> QED
    BY <2>3, <2>4
<1>10. CASE TurnOn(w)
  <2>1. /\ has' = has /\ seen'.kept = seen.kept \cap has["host"] /\ making' = making
        /\ win' = win /\ job' = [job EXCEPT ![Ui] = Job("source", "toApp")]
        /\ win[w].open /\ Source("toApp") = "host"
    BY <1>4, <1>10 DEF TurnOn, Click, Source
  <2>2. Running' /\ NothingWaits' /\ KeysKept'
    BY <1>3, <1>6, <2>1 DEF Running, NothingWaits, KeysKept
  <2>3. seen'.kept \subseteq has'["host"]
    BY <2>1
  <2> QED
    BY <1>3, <2>1, <2>2, <2>3, UiSyncBegins DEF Directions
<1>11. CASE TurnOff(w)
  <2>1. /\ has' = has /\ seen'.kept = seen.kept /\ making' = making /\ job' = job
        /\ win' = win /\ enabled' = FALSE
    BY <1>4, <1>11 DEF TurnOff
  <2>2. Settled' /\ NothingWaits' /\ KeysKept'
    BY <1>2, <1>3, <2>1 DEF Settled, NothingWaits, KeysKept
  <2> QED
    BY <2>1, <2>2, NothingRuns
<1>12. ASSUME NEW k \in Keys, NEW place \in {"page", "entry"}, MakeKey(w, k, place)
       PROVE  Peace'
  <2> DEFINE new == [key |-> {k}, place |-> place, stored |-> FALSE]
  <2>1. /\ has' = has /\ seen'.kept = seen.kept /\ job' = job /\ win' = win
        /\ enabled' = enabled /\ win[w].open /\ making' = [making EXCEPT ![w] = new]
    BY <1>4, <1>12 DEF MakeKey, Click
  <2>2. new # NoKey /\ Stored(new) = {}
    BY DEF NoKey, Stored
  <2>3. making'[w] = new /\ \A v \in Windows \ {w} : making'[v] = NoKey
    BY <1>3, <2>1 DEF Inv, TypeOK
  <2>4. NothingWaits' /\ Running' /\ KeysKept'
    BY <1>3, <1>6, <2>1 DEF Running, NothingWaits, KeysKept
  <2>5. /\ Stored(making'[w]) \subseteq has'["app"]
        /\ enabled' => has'["app"] = (has'["host"] \ Open) \cup Stored(making'[w])
    BY <1>5, <1>6, <2>1, <2>2, <2>3 DEF Agree
  <2>6. making'[w] # NoKey /\ \A s \in Slots : job'[s] = Idle
    BY <1>3, <2>1, <2>2, <2>3
  <2> QED
    BY <2>3, <2>4, <2>5, <2>6, OneKeyIsMade
<1> QED
  BY <1>7, <1>8, <1>9, <1>10, <1>11, <1>12

LEMMA LoadsStayInStep ==
    ASSUME Inv, Calm, ~seen'.disturbed, NEW w \in Windows,
           LoadAnswered(w) \/ LoadDies(w)
    PROVE  Peace'
<1>1. seen \in [kept : SUBSET Keys, shared : SUBSET Keys, disturbed : BOOLEAN]
  BY DEF Inv, TypeOK
<1>2. LoadAnswered(w) /\ seen' = seen
  BY <1>1 DEF LoadAnswered, LoadDies
<1>3. Peace /\ w \in Slots /\ job[w].phase \in {"done", "failed"}
  BY <1>2 DEF Calm, Slots, LoadAnswered
<1>4. job[w] # Idle
  BY <1>3 DEF Idle, Job
<1>5. /\ job' = [job EXCEPT ![w] = Idle] /\ UNCHANGED <<win, has, making>>
      /\ enabled' = (enabled /\ job[w].phase = "done")
  BY <1>2, <1>3 DEF LoadAnswered, FinishLoad, Peace, NothingWaits
<1>6. enabled' => Agree(has)
  BY <1>3, <1>4, <1>5 DEF Peace, JobsInStep, InStep
<1> QED
  BY <1>2, <1>3, <1>4, <1>5, <1>6, LoadEnds

LEMMA UiSyncsStayInStep ==
    ASSUME Inv, Calm, ~seen'.disturbed,
           UiSyncEnds \/ \E s \in Slots : NotSaved(s)
    PROVE  Peace'
<1>1. seen \in [kept : SUBSET Keys, shared : SUBSET Keys, disturbed : BOOLEAN]
      /\ enabled \in BOOLEAN
  BY DEF Inv, TypeOK
<1>2. CASE UiSyncEnds
  <2>1. /\ seen'.kept = seen.kept
        /\ seen'.disturbed = (seen.disturbed \/ (enabled' /\ job[Ui].phase = "failed"))
    BY <1>1, <1>2 DEF UiSyncEnds
  <2>2. Peace /\ ~(enabled' /\ job[Ui].phase = "failed") /\ Ui \in Slots
    BY <2>1 DEF Calm, Slots
  <2>3. /\ job[Ui].phase \in {"done", "failed"} /\ job' = [job EXCEPT ![Ui] = Idle]
        /\ UNCHANGED <<win, has, making>>
    BY <1>2 DEF UiSyncEnds
  <2>4. job[Ui] # Idle
    BY <2>3 DEF Idle, Job
  <2>5. enabled' => Agree(has)
    BY <2>2, <2>3, <2>4 DEF Peace, JobsInStep, InStep
  <2> QED
    BY <2>1, <2>2, <2>3, <2>4, <2>5, LoadEnds
<1>3. ASSUME NEW s \in Slots, NotSaved(s)
      PROVE  Peace'
  <2>1. /\ seen'.kept = seen.kept /\ seen'.disturbed = (seen.disturbed \/ enabled)
        /\ enabled' = enabled /\ UNCHANGED <<has, making>>
    BY <1>1, <1>3 DEF NotSaved
  <2>2. Peace /\ ~enabled
    BY <2>1 DEF Calm
  <2>3. job[s].phase \in {"done", "failed"}
    BY <1>3 DEF NotSaved
  <2>4. job[s] # Idle
    BY <2>3 DEF Idle, Job
  <2>5. job' = [job EXCEPT ![s] = Idle] /\ UNCHANGED win
    BY <1>3, <2>2 DEF NotSaved, FinishLoad, Peace, NothingWaits
  <2> QED
    BY <2>1, <2>2, <2>4, <2>5, LoadEnds
<1> QED
  BY <1>2, <1>3

LEMMA MadeKeysStayInStep ==
    ASSUME Inv, Calm, ~seen'.disturbed, NEW w \in Windows,
           StoreKey(w) \/ KeyMade(w) \/ KeyNotMade(w)
    PROVE  Peace'
<1> DEFINE m == making[w]
<1>1. /\ seen \in [kept : SUBSET Keys, shared : SUBSET Keys, disturbed : BOOLEAN]
      /\ seen.disturbed \in BOOLEAN /\ seen.kept \subseteq Keys
      /\ enabled \in BOOLEAN /\ has["app"] \subseteq Keys
      /\ has \in [{"app", "host"} -> SUBSET All]
      /\ making \in [Windows -> [key : SUBSET Keys, place : {"page", "entry"},
                                 stored : BOOLEAN]]
      /\ m.key \subseteq Keys /\ m.stored \in BOOLEAN
      /\ Keys \cap Open = {}
  BY SyncAssumption DEF Inv, TypeOK
<1>2. Peace
  <2>1. seen.disturbed => seen'.disturbed
    BY <1>1 DEF StoreKey, KeyMade, KeyNotMade
  <2> QED
    BY <2>1 DEF Calm
<1>3. m # NoKey
  <2>1. m.stored => m # NoKey
    BY DEF NoKey
  <2> QED
    BY <2>1 DEF StoreKey, KeyMade, KeyNotMade
<1>4. /\ \A s \in Slots : job[s] = Idle
      /\ \A v \in Windows \ {w} : making[v] = NoKey
      /\ NothingWaits /\ KeysKept /\ Running
      /\ Stored(m) \subseteq has["app"]
      /\ enabled => has["app"] = (has["host"] \ Open) \cup Stored(m)
  BY <1>2, <1>3 DEF Peace, OneAtATime, MakingInStep
<1>5. CASE StoreKey(w)
  <2>1. /\ UNCHANGED <<enabled, win, job, seen>> /\ ~m.stored
        /\ has' = [has EXCEPT !["app"] = @ \cup m.key]
        /\ making' = [making EXCEPT ![w].stored = TRUE]
    BY <1>5 DEF StoreKey
  <2>2. /\ has'["app"] = has["app"] \cup m.key /\ has'["host"] = has["host"]
        /\ making'[w].stored /\ making'[w].key = m.key
        /\ \A v \in Windows \ {w} : making'[v] = NoKey
    BY <1>1, <1>4, <2>1
  <2>3. making'[w] # NoKey /\ Stored(making'[w]) = m.key /\ Stored(m) = {}
    BY <2>1, <2>2 DEF NoKey, Stored
  <2>4. NothingWaits' /\ Running' /\ KeysKept'
    BY <1>4, <2>1, <2>2 DEF NothingWaits, Running, KeysKept
  <2>5. enabled' => has'["app"] = (has'["host"] \ Open) \cup Stored(making'[w])
    BY <1>4, <2>1, <2>2, <2>3
  <2> QED
    BY <1>4, <2>1, <2>2, <2>3, <2>4, <2>5, OneKeyIsMade
<1>6. CASE KeyMade(w)
  <2>1. /\ m.stored /\ making' = [making EXCEPT ![w] = NoKey]
        /\ seen'.kept = seen.kept \cup m.key /\ has' = has /\ enabled' = enabled
    BY <1>1, <1>6 DEF KeyMade
  <2>2. \A v \in Windows : making'[v] = NoKey
    BY <1>1, <1>4, <2>1
  <2>3. m.key \subseteq has["app"]
    BY <1>4, <2>1 DEF Stored
  <2>4. KeysKept'
    BY <1>4, <2>1, <2>3 DEF KeysKept
  <2>5. enabled => seen'.kept \subseteq has'["app"]
    BY <1>1, <1>4, <2>1, <2>3 DEF KeysKept
  <2>6. CASE m.place = "page"
    <3>1. BeginLoad(w, TRUE)
      BY <1>6, <2>6 DEF KeyMade
    <3> QED
      BY <1>2, <1>4, <2>1, <2>2, <2>4, <2>5, <3>1, LoadBegins
  <2>7. CASE m.place # "page" /\ enabled
    <3>1. /\ job' = [job EXCEPT ![Ui] = Job("source", "toHost")] /\ UNCHANGED win
          /\ Source("toHost") = "app"
      BY <1>6, <2>7 DEF KeyMade, Source
    <3>2. NothingWaits' /\ Running'
      BY <1>4, <3>1 DEF NothingWaits, Running
    <3> QED
      BY <1>4, <2>2, <2>4, <2>5, <2>7, <3>1, <3>2, UiSyncBegins DEF Directions
  <2>8. CASE m.place # "page" /\ ~enabled
    <3>1. UNCHANGED <<job, win, enabled>>
      BY <1>6, <2>8 DEF KeyMade
    <3>2. NothingWaits' /\ Settled'
      BY <1>4, <2>2, <3>1 DEF NothingWaits, Settled
    <3> QED
      BY <2>4, <2>8, <3>1, <3>2, NothingRuns
  <2> QED
    BY <2>6, <2>7, <2>8
<1>7. CASE KeyNotMade(w)
  <2>1. /\ making' = [making EXCEPT ![w] = NoKey] /\ seen'.kept = seen.kept
        /\ seen'.disturbed = (seen.disturbed \/ m.stored)
        /\ UNCHANGED <<has, enabled, win, job>>
    BY <1>1, <1>7 DEF KeyNotMade
  <2>2. ~m.stored /\ Stored(m) = {}
    BY <2>1 DEF Stored
  <2>3. \A v \in Windows : making'[v] = NoKey
    BY <1>1, <1>4, <2>1
  <2>4. Settled' /\ NothingWaits' /\ KeysKept'
    BY <1>4, <2>1, <2>3 DEF Settled, NothingWaits, KeysKept
  <2>5. enabled' => seen'.kept \subseteq has'["host"] /\ Agree(has')
    BY <1>1, <1>4, <2>1, <2>2 DEF KeysKept, Agree
  <2> QED
    BY <2>4, <2>5, NothingRuns
<1> QED
  BY <1>5, <1>6, <1>7

\* The process exits, and the host's keys change, when nothing of the app runs.
LEMMA WorldStaysInStep ==
    ASSUME Inv, Calm, ~seen'.disturbed,
           Exit \/ \E k \in All : HostMakesKey(k) \/ HostRemovesKey(k)
    PROVE  Peace'
<1>1. /\ seen \in [kept : SUBSET Keys, shared : SUBSET Keys, disturbed : BOOLEAN]
      /\ has \in [{"app", "host"} -> SUBSET All]
      /\ Disturbed \in BOOLEAN /\ Running \in BOOLEAN
  BY DEF Inv, TypeOK, Disturbed, Running
<1>2. ~Disturbed
  <2>1. (Disturbed \/ Running) \in BOOLEAN
    OBVIOUS
  <2>2. \A d \in BOOLEAN : [seen EXCEPT !.disturbed = d].disturbed = d
    BY <1>1
  <2>3. CASE Exit
    BY <1>1, <2>2, <2>3 DEF Exit
  <2>4. ASSUME NEW k \in All, HostMakesKey(k)
        PROVE  seen'.disturbed = (Disturbed \/ Running)
    BY <1>1, <2>1, <2>4 DEF HostMakesKey
  <2>5. ASSUME NEW k \in All, HostRemovesKey(k)
        PROVE  seen'.disturbed = (Disturbed \/ Running)
    BY <1>1, <2>1, <2>5 DEF HostRemovesKey
  <2> QED
    BY <2>3, <2>4, <2>5
<1>3. Settled /\ Peace
  BY <1>2 DEF Disturbed, Calm
<1>4. enabled => seen.kept \subseteq has["host"]
  BY <1>3, RestingSides
<1>5. NothingWaits /\ KeysKept
  BY <1>3 DEF Peace
<1>6. CASE Exit
  <2>1. /\ win' = [w \in Windows |-> [open |-> FALSE, pending |-> FALSE, queued |-> FALSE]]
        /\ job' = [s \in Slots |-> Idle] /\ making' = [w \in Windows |-> NoKey]
        /\ has' = has /\ enabled' = enabled /\ seen'.kept = seen.kept
    BY <1>1, <1>6 DEF Exit
  <2>2. Settled' /\ NothingWaits' /\ KeysKept' /\ ~Running'
    BY <1>5, <2>1 DEF Settled, NothingWaits, KeysKept, Running
  <2> QED
    BY <1>4, <2>1, <2>2, NothingRuns
<1>7. ASSUME NEW k \in All, HostMakesKey(k)
      PROVE  Peace'
  <2>1. /\ UNCHANGED <<win, job, making, enabled>>
        /\ has'["app"] = has["app"] /\ has'["host"] = has["host"] \cup {k}
        /\ seen'.kept \subseteq seen.kept \cup {k}
        /\ seen'.disturbed = (Disturbed \/ Running)
    <3>1. (Disturbed \/ Running) \in BOOLEAN
      OBVIOUS
    <3> QED
      BY <1>1, <1>7, <3>1 DEF HostMakesKey
  <2>2. Settled' /\ NothingWaits' /\ KeysKept' /\ ~Running'
    BY <1>3, <1>5, <2>1 DEF Settled, NothingWaits, KeysKept, Running
  <2>3. enabled' => seen'.kept \subseteq has'["host"]
    BY <1>4, <2>1
  <2> QED
    BY <2>2, <2>3, NothingRuns
<1>8. ASSUME NEW k \in All, HostRemovesKey(k)
      PROVE  Peace'
  <2>1. /\ UNCHANGED <<win, job, making, enabled>>
        /\ has'["app"] = has["app"] /\ has'["host"] = has["host"] \ {k}
        /\ seen'.kept = seen.kept \ {k}
        /\ seen'.disturbed = (Disturbed \/ Running)
    BY <1>1, <1>8 DEF HostRemovesKey
  <2>2. Settled' /\ NothingWaits' /\ KeysKept' /\ ~Running'
    BY <1>3, <1>5, <2>1 DEF Settled, NothingWaits, KeysKept, Running
  <2>3. enabled' => seen'.kept \subseteq has'["host"]
    BY <1>4, <2>1
  <2> QED
    BY <2>2, <2>3, NothingRuns
<1> QED
  BY <1>6, <1>7, <1>8

-----------------------------------------------------------------------------
(* The second invariant *)

LEMMA InitCalm == Init => Calm
<1> SUFFICES ASSUME Init PROVE Peace
  BY DEF Calm
<1>1. /\ \A s \in Slots : job[s] = Idle
      /\ \A w \in Windows : making[w] = NoKey /\ ~win[w].open
                            /\ ~win[w].pending /\ ~win[w].queued
  BY DEF Init
<1>2. /\ seen.kept = (has["app"] \cup has["host"]) \cap Keys
      /\ enabled => has["app"] = has["host"] \cap Keys
  BY DEF Init
<1>3. KeysKept /\ (enabled => seen.kept \subseteq has["host"])
  BY <1>2 DEF KeysKept
<1> QED
  BY <1>1, <1>3 DEF Peace, OneAtATime, NothingWaits, JobsInStep, MakingInStep, AtRest,
                    Running

LEMMA StepCalm == Inv /\ Calm /\ [Next]_vars => Calm'
<1> SUFFICES ASSUME Inv, Calm, [Next]_vars, ~seen'.disturbed
             PROVE  Peace'
  BY DEF Calm
<1>1. CASE UNCHANGED vars
  BY <1>1 DEF vars, Calm, Peace, OneAtATime, NothingWaits, KeysKept, JobsInStep,
              MakingInStep, AtRest, Running, Settled
<1>2. CASE \E s \in Slots : SyncStep(s) \/ CallFails(s)
  BY <1>2, CallsStayInStep
<1>3. CASE \E w \in Windows :
             \/ Refresh(w) \/ NewWindow(w) \/ TurnOn(w) \/ TurnOff(w)
             \/ \E k \in Keys : RemoveKey(w, k)
             \/ \E k \in Keys, place \in {"page", "entry"} : MakeKey(w, k, place)
  BY <1>3, ClicksStayInStep
<1>4. CASE \E w \in Windows : LoadAnswered(w) \/ LoadDies(w)
  BY <1>4, LoadsStayInStep
<1>5. CASE \E w \in Windows : StoreKey(w) \/ KeyMade(w) \/ KeyNotMade(w)
  BY <1>5, MadeKeysStayInStep
<1>6. CASE UiSyncEnds \/ \E s \in Slots : NotSaved(s)
  BY <1>6, UiSyncsStayInStep
<1>7. CASE Exit \/ \E k \in All : HostMakesKey(k) \/ HostRemovesKey(k)
  BY <1>7, WorldStaysInStep
<1> QED
  BY <1>1, <1>2, <1>3, <1>4, <1>5, <1>6, <1>7 DEF Next

LEMMA CalmAlways == Spec => []Calm
<1>1. Spec => []Inv
  BY InvAlways
<1> QED
  BY <1>1, InitCalm, StepCalm, PTL DEF Spec

-----------------------------------------------------------------------------
(* The theorems about undisturbed users *)

\* No key is lost by the calls of a sync: as long as each load and each new key
\* is let finish, a key that was there or was made, and that nobody removed, is
\* on the app's side or the host's at every moment, whichever call fails and
\* whichever way the sync goes (sync_host_private_keys_to_app deletes only what
\* its source's list lacks, after every copy).
THEOREM KeysAreNotLost == Spec => []KeysSurvive
<1>1. Calm => KeysSurvive
  BY DEF Calm, Peace, KeysKept, KeysSurvive
<1> QED
  BY <1>1, CalmAlways, PTL

\* When the sync is on and nothing runs, the app has the host's keys with a
\* passphrase and no other, whatever was made, removed, turned on or off and
\* failed before, as long as nobody went on without waiting: every change is
\* followed by a sync in the direction that carries it.
THEOREM RestingSidesAgree == Spec => []SidesAgree
<1>1. Calm => SidesAgree
  BY DEF Calm, Peace, AtRest, Agree, SidesAgree
<1> QED
  BY <1>1, CalmAlways, PTL

-----------------------------------------------------------------------------
(* The components beside it *)

(* Bounds that the instance for TLC gives, too: all else of the model is free.   *)
UpdaterBounds == MaxRuns \in Nat /\ MaxUpdateFaults \in Nat
InstallBounds ==
    /\ Versions \subseteq Nat \ {Install!None, Install!Half}
    /\ MaxInstallSteps \in Nat /\ MaxInstallFaults \in Nat
CardBounds == MaxCardUses \in Nat /\ MaxCardFaults \in Nat

-----------------------------------------------------------------------------
(* The updater *)

\* What a worker goes through that downloads.
DownloadStages == {"starting", "opening", "reading", "flushed", "verified"}

CheckingRun(run) == updater.is = "checking" /\ updater.run = run
ReadyRun(run) == updater.is = "ready" /\ updater.download = run

\* The messages of a run, at most one and only from a worker that has ended.
InboxInv(run) ==
    \A m \in inbox : m.run = run =>
        /\ worker[run] = "ended"
        /\ \A n \in inbox : n.run = run => n = m
        /\ m.what = "checked" => CheckingRun(run)
        /\ m.what = "ready" /\ Update!DownloadingRun(run) /\ open =>
               folder[run] = "complete" \/ run \in lost

\* What the worker of a run does, and what is in its directory meanwhile.
WorkerInv(run) ==
    /\ run > lastRun => worker[run] = "off"
    /\ worker[run] = "off" => folder[run] = "none"
    /\ worker[run] \in Update!Modes => CheckingRun(run)
    /\ worker[run] \in DownloadStages =>
           /\ run \in cancelled \/ Update!DownloadingRun(run)
           /\ folder[run] # "complete"
    /\ worker[run] \in {"starting", "opening"} => folder[run] # "partial"
    /\ worker[run] \in {"flushed", "verified"} /\ run \in cancelled =>
           folder[run] # "partial"
    /\ worker[run] = "ended" /\ ~Update!InUse(run) => folder[run] \in {"none", "empty"}

\* What the controller waits for, or offers.
ControllerInv(run) ==
    /\ CheckingRun(run) =>
           /\ folder[run] = "none"
           /\ worker[run] \in Update!Modes \/ \E m \in inbox :
                  m.run = run /\ m.what = "checked"
    /\ Update!DownloadingRun(run) =>
           worker[run] \in DownloadStages \/ \E m \in inbox :
               m.run = run /\ m.what # "checked"
    /\ ReadyRun(run) =>
           /\ updater.release = run /\ worker[run] = "ended"
           /\ open => folder[run] = "complete" \/ run \in lost

RunInv(run) == InboxInv(run) /\ WorkerInv(run) /\ ControllerInv(run)

UpdateInv == Update!TypeOK /\ (open => launched = 0) /\ \A run \in Update!Runs : RunInv(run)

\* The cells of the states the controller may be in.
LEMMA UpdaterCells ==
    /\ Update!Idle \in Update!UpdateStates /\ Update!Idle.is = "idle"
    /\ Update!Installing \in Update!UpdateStates /\ Update!Installing.is = "installing"
    /\ \A m \in Update!Modes, r \in Update!Runs :
          /\ Update!Checking(m, r) \in Update!UpdateStates
          /\ Update!Downloading(m, r) \in Update!UpdateStates
          /\ Update!Checking(m, r).is = "checking" /\ Update!Checking(m, r).run = r
          /\ Update!Downloading(m, r).is = "downloading" /\ Update!Downloading(m, r).run = r
    /\ \A r, d \in Update!Runs :
           /\ Update!Ready(r, d) \in Update!UpdateStates /\ Update!Ready(r, d).is = "ready"
           /\ Update!Ready(r, d).release = r /\ Update!Ready(r, d).download = d
<1>1. \A m \in Update!Modes, r \in Update!Runs :
          /\ Update!Checking(m, r).is = "checking" /\ Update!Checking(m, r).run = r
          /\ Update!Downloading(m, r).is = "downloading" /\ Update!Downloading(m, r).run = r
  BY DEF Update!Checking, Update!Downloading
<1>2. \A r, d \in Update!Runs :
          /\ Update!Ready(r, d).is = "ready" /\ Update!Ready(r, d).release = r
          /\ Update!Ready(r, d).download = d
  BY DEF Update!Ready
<1>3. Update!Idle.is = "idle" /\ Update!Installing.is = "installing"
  BY DEF Update!Idle, Update!Installing
<1>4. /\ Update!Idle \in Update!UpdateStates /\ Update!Installing \in Update!UpdateStates
      /\ \A m \in Update!Modes, r \in Update!Runs :
            Update!Checking(m, r) \in Update!UpdateStates /\ Update!Downloading(m, r) \in
                Update!UpdateStates
      /\ \A r, d \in Update!Runs : Update!Ready(r, d) \in Update!UpdateStates
  BY DEF Update!UpdateStates
<1> QED
  BY <1>1, <1>2, <1>3, <1>4

LEMMA UpdateStart == ASSUME UpdaterBounds, Update!Init PROVE UpdateInv
<1>1. Update!TypeOK
  <2>1. /\ lastRun \in 0..MaxRuns /\ launched \in 0..MaxRuns
        /\ updateFaults \in 0..MaxUpdateFaults
    BY DEF UpdaterBounds, Update!Init
  <2>2. updater \in Update!UpdateStates
    BY UpdaterCells DEF Update!Init
  <2> QED
    BY <2>1, <2>2 DEF Update!Init, Update!TypeOK, Update!WorkerStages
<1>2. updater.is = "idle" /\ inbox = {} /\ cancelled = {} /\ launched = 0
      /\ \A run \in Update!Runs : worker[run] = "off" /\ folder[run] = "none"
  BY DEF Update!Init, Update!Idle
<1> QED
  BY <1>1, <1>2 DEF UpdateInv, RunInv, InboxInv, WorkerInv, ControllerInv, CheckingRun,
     Update!DownloadingRun, ReadyRun, Update!Modes, DownloadStages

LEMMA UpdaterIs ==
    ASSUME Update!TypeOK
    PROVE  /\ updater.is \in {"idle", "installing", "checking", "downloading", "ready"}
           /\ updater.is = "ready" =>
                  updater.download \in Update!Runs /\ updater.release \in Update!Runs
           /\ updater.is \in {"checking", "downloading"} =>
                 LET u == [updater EXCEPT !.mode = "manual"]
                 IN  /\ updater.run \in Update!Runs /\ u \in Update!UpdateStates
                     /\ u.is = updater.is /\ u.run = updater.run
<1>1. CASE updater = Update!Idle \/ updater = Update!Installing
  BY <1>1, UpdaterCells
<1>2. CASE \E r, d \in Update!Runs : updater = Update!Ready(r, d)
  BY <1>2, UpdaterCells
<1>3. ASSUME NEW m \in Update!Modes, NEW r \in Update!Runs, updater = Update!Checking(m, r)
      PROVE  /\ updater.is = "checking" /\ updater.run = r
             /\ [updater EXCEPT !.mode = "manual"] = Update!Checking("manual", r)
  BY <1>3 DEF Update!Checking
<1>4. ASSUME NEW m \in Update!Modes, NEW r \in Update!Runs, updater =
                 Update!Downloading(m, r)
      PROVE  /\ updater.is = "downloading" /\ updater.run = r
             /\ [updater EXCEPT !.mode = "manual"] = Update!Downloading("manual", r)
  BY <1>4 DEF Update!Downloading
<1>5. "manual" \in Update!Modes
  BY DEF Update!Modes
<1>6. CASE \E m \in Update!Modes, r \in Update!Runs : updater = Update!Checking(m, r)
  <2>1. PICK m \in Update!Modes, r \in Update!Runs : updater = Update!Checking(m, r)
    BY <1>6
  <2>2. /\ updater.is = "checking" /\ updater.run = r
        /\ [updater EXCEPT !.mode = "manual"] = Update!Checking("manual", r)
    BY <1>3, <2>1
  <2> QED
    BY <1>5, <2>2, UpdaterCells
<1>7. CASE \E m \in Update!Modes, r \in Update!Runs : updater = Update!Downloading(m, r)
  <2>1. PICK m \in Update!Modes, r \in Update!Runs : updater = Update!Downloading(m, r)
    BY <1>7
  <2>2. /\ updater.is = "downloading" /\ updater.run = r
        /\ [updater EXCEPT !.mode = "manual"] = Update!Downloading("manual", r)
    BY <1>4, <2>1
  <2> QED
    BY <1>5, <2>2, UpdaterCells
<1> QED
  BY <1>1, <1>2, <1>6, <1>7 DEF Update!TypeOK, Update!UpdateStates

\* A run that a step is not about.
LEMMA RunKept ==
    ASSUME NEW run \in Update!Runs, RunInv(run),
           worker'[run] = worker[run], folder'[run] = folder[run],
           {m \in inbox' : m.run = run} = {m \in inbox : m.run = run},
           run > lastRun' => run > lastRun,
           run \in cancelled' <=> run \in cancelled, run \in lost => run \in lost',
           CheckingRun(run)' <=> CheckingRun(run), Update!DownloadingRun(run)' <=>
               Update!DownloadingRun(run),
           ReadyRun(run)' <=> ReadyRun(run),
           ReadyRun(run) => updater'.release = updater.release,
           launched = run => launched' = run, open' => open
    PROVE  RunInv(run)'
<1>1. \A m : m \in inbox' /\ m.run = run <=> m \in inbox /\ m.run = run
  OBVIOUS
<1>2. Update!InUse(run) => Update!InUse(run)'
  BY DEF Update!InUse, CheckingRun, Update!DownloadingRun, ReadyRun
<1>3. InboxInv(run)'
  BY <1>1 DEF RunInv, InboxInv
<1>4. WorkerInv(run)'
  BY <1>2 DEF RunInv, WorkerInv
<1>5. ControllerInv(run)'
  BY <1>1 DEF RunInv, ControllerInv
<1> QED
  BY <1>3, <1>4, <1>5 DEF RunInv

\* A check starts, or its worker cannot be: the run is the newest one, of which there
\* was nothing yet.
LEMMA CheckBegins ==
    ASSUME UpdaterBounds, UpdateInv, NEW mode \in
           Update!Modes, NEW cleaned, Update!BeginCheck(mode, cleaned),
           \/ updater.is = "idle" /\ cleaned = folder
           \/ updater.is = "ready" /\ cleaned = Update!CleanedUp(updater.download),
           UNCHANGED <<inbox, cancelled, lost, launched, open>>,
           confirming' \in BOOLEAN, autoStarted' \in BOOLEAN
    PROVE  UpdateInv'
<1> DEFINE q == lastRun + 1
<1>1. Update!TypeOK /\ q \in Update!Runs /\ q \in Nat /\ lastRun' = q /\ lastRun \in Nat
  BY DEF UpdateInv, Update!TypeOK, Update!BeginCheck, Update!Runs, UpdaterBounds
<1>2. /\ \A run \in Update!Runs :
             folder'[run] = folder[run] \/ (ReadyRun(run) /\ folder'[run] = "none")
      /\ folder' \in [Update!Runs -> {"none", "empty", "partial", "complete"}]
  <2>1. folder' = cleaned
    BY DEF Update!BeginCheck
  <2>2. CASE updater.is = "idle" /\ cleaned = folder
    BY <1>1, <2>1, <2>2 DEF Update!TypeOK
  <2>3. CASE updater.is = "ready" /\ cleaned = Update!CleanedUp(updater.download)
    <3>1. folder' = [folder EXCEPT ![updater.download] = "none"]
      BY <2>1, <2>3 DEF Update!CleanedUp
    <3> QED
      BY <1>1, <2>3, <3>1, UpdaterIs DEF Update!TypeOK, ReadyRun
  <2> QED
    BY <2>2, <2>3
<1>3. PICK started \in BOOLEAN :
         /\ updater' = IF started THEN Update!Checking(mode, q) ELSE Update!Idle
         /\ worker' = IF started THEN [worker EXCEPT ![q] = mode] ELSE worker
         /\ dialog' \in BOOLEAN
         /\ updateFaults' \in 0..MaxUpdateFaults
  <2>1. dialog' \in BOOLEAN
    BY <1>1 DEF Update!BeginCheck, Update!PresentDialog, Update!ForceClose, Update!TypeOK
  <2>2. Update!Fault \/ Update!NoFault
    BY DEF Update!BeginCheck
  <2>3. updateFaults' \in 0..MaxUpdateFaults
    BY <1>1, <2>2 DEF Update!Fault, Update!NoFault, Update!TypeOK, UpdaterBounds
  <2>4. \E started \in BOOLEAN :
           /\ updater' = IF started THEN Update!Checking(mode, q) ELSE Update!Idle
           /\ worker' = IF started THEN [worker EXCEPT ![q] = mode] ELSE worker
    BY DEF Update!BeginCheck
  <2> QED
    BY <2>1, <2>3, <2>4
<1>4. /\ updater' \in Update!UpdateStates
      /\ started => updater'.is = "checking" /\ updater'.run = q
      /\ ~started => updater'.is = "idle"
  BY <1>1, <1>3, UpdaterCells
<1>5. worker' \in [Update!Runs -> Update!WorkerStages]
      /\ \A run \in Update!Runs :
             worker'[run] = IF run = q /\ started THEN mode ELSE worker[run]
  BY <1>1, <1>3 DEF Update!TypeOK, Update!WorkerStages
<1>6. Update!TypeOK'
  <2>1. lastRun' \in 0..MaxRuns
    BY <1>1 DEF Update!Runs
  <2> QED
    BY <1>1, <1>2, <1>3, <1>4, <1>5, <2>1 DEF Update!TypeOK
<1> HIDE DEF q
<1>7. \A run \in Update!Runs : RunInv(run)
  BY DEF UpdateInv
<1>8. \A run \in Update!Runs : ~ Update!DownloadingRun(run) /\ ~ CheckingRun(run)
  BY DEF Update!DownloadingRun, CheckingRun
<1>9. \A run \in Update!Runs :
          /\ ~ Update!DownloadingRun(run)' /\ ~ ReadyRun(run)'
          /\ CheckingRun(run)' => run = q /\ started
  BY <1>4 DEF Update!DownloadingRun, CheckingRun, ReadyRun
<1>10. ASSUME NEW run \in Update!Runs, run = q PROVE RunInv(run)'
  <2>1. worker[run] = "off" /\ ~ \E m \in inbox : m.run = run
    BY <1>1, <1>7, <1>10 DEF RunInv, WorkerInv, InboxInv, q
  <2>2. folder[run] = "none"
    BY <1>7, <1>10, <2>1 DEF RunInv, WorkerInv
  <2>3. folder'[run] = "none" /\ inbox' = inbox
    BY <1>2, <2>2
  <2>4. started => CheckingRun(run)' /\ worker'[run] \in Update!Modes /\ worker'[run] = mode
    BY <1>4, <1>5, <1>10 DEF CheckingRun
  <2>5. ~started => worker'[run] = "off"
    BY <1>5, <2>1
  <2>6. WorkerInv(run)'
    BY <1>1, <1>10, <2>3, <2>4, <2>5 DEF WorkerInv, Update!Modes, DownloadStages
  <2>7. InboxInv(run)'
    BY <2>1, <2>3 DEF InboxInv
  <2>8. ControllerInv(run)'
    BY <1>9, <2>3, <2>4 DEF ControllerInv
  <2> QED
    BY <2>6, <2>7, <2>8 DEF RunInv
<1>11. ASSUME NEW run \in Update!Runs, run # q PROVE RunInv(run)'
  <2>1. /\ worker'[run] = worker[run] /\ inbox' = inbox /\ RunInv(run)
        /\ (run > lastRun' => run > lastRun)
    BY <1>1, <1>5, <1>7, <1>11 DEF Update!Runs, q
  <2>2. ~ Update!DownloadingRun(run)' /\ ~ ReadyRun(run)' /\ ~ CheckingRun(run)'
    BY <1>9, <1>11
  <2>3. InboxInv(run)'
    BY <1>8, <2>1, <2>2 DEF RunInv, InboxInv
  <2>4. ControllerInv(run)'
    BY <2>2 DEF ControllerInv
  <2>5. WorkerInv(run)'
    <3>1. Update!InUse(run) => Update!InUse(run)' \/ ReadyRun(run)
      BY <1>8 DEF Update!InUse, ReadyRun, CheckingRun, Update!DownloadingRun
    <3>2. CASE ReadyRun(run)
      <4>1. worker[run] = "ended" /\ folder'[run] = "none"
        BY <1>2, <2>1, <3>2
           DEF RunInv, ControllerInv, Update!BeginCheck, Update!CleanedUp, ReadyRun,
               Update!TypeOK
      <4> QED
        BY <2>1, <4>1 DEF RunInv, WorkerInv, Update!Modes, DownloadStages
    <3>3. CASE ~ReadyRun(run)
      BY <1>2, <1>8, <2>1, <3>1, <3>3 DEF RunInv, WorkerInv
    <3> QED
      BY <3>2, <3>3
  <2> QED
    BY <2>3, <2>4, <2>5 DEF RunInv
<1> QED
  BY <1>6, <1>10, <1>11 DEF UpdateInv

\* A worker takes a step; only its own run is touched.
LEMMA WorkerSteps ==
    ASSUME UpdateInv, NEW q \in Update!Runs, NEW stage \in Update!WorkerStages,
           NEW content \in {"none", "empty", "partial", "complete"},
           NEW sent \in SUBSET Update!UpdateMessages, \A m \in sent : m.run = q,
           worker' = [worker EXCEPT ![q] = stage], folder' = [folder EXCEPT ![q] = content],
           inbox' = inbox \cup sent, updateFaults' \in 0..MaxUpdateFaults,
           UNCHANGED <<updater, dialog, confirming, autoStarted, lastRun, cancelled, lost,
                       launched, open>>,
           RunInv(q)'
    PROVE  UpdateInv'
<1>1. Update!TypeOK'
  BY DEF UpdateInv, Update!TypeOK
<1>2. ASSUME NEW run \in Update!Runs, run # q PROVE RunInv(run)'
  <2>1. worker'[run] = worker[run] /\ folder'[run] = folder[run] /\ RunInv(run)
    BY <1>2 DEF UpdateInv, Update!TypeOK
  <2>2. {m \in inbox' : m.run = run} = {m \in inbox : m.run = run}
    BY <1>2
  <2>3. /\ CheckingRun(run)' <=> CheckingRun(run)
        /\ Update!DownloadingRun(run)' <=> Update!DownloadingRun(run)
        /\ ReadyRun(run)' <=> ReadyRun(run)
    BY DEF CheckingRun, Update!DownloadingRun, ReadyRun
  <2> QED
    BY <2>1, <2>2, <2>3, RunKept
<1> QED
  BY <1>1, <1>2 DEF UpdateInv

LEMMA WorkerGoesOn ==
    ASSUME UpdateInv, NEW q \in Update!Runs, worker[q] \in DownloadStages, NEW stage \in
           DownloadStages,
           NEW content \in {"none", "empty", "partial"},
           worker' = [worker EXCEPT ![q] = stage], folder' = [folder EXCEPT ![q] = content],
           UNCHANGED <<inbox, updateFaults>>, Update!DownloadUnchanged,
           stage \in {"starting", "opening"} => content # "partial",
           stage \in {"flushed", "verified"} /\ q \in cancelled => content # "partial"
    PROVE  UpdateInv'
<1>1. Update!TypeOK /\ RunInv(q)
  BY DEF UpdateInv
<1>2. worker'[q] = stage /\ folder'[q] = content
  BY <1>1 DEF Update!TypeOK
<1>3. UNCHANGED <<updater, dialog, confirming, autoStarted, lastRun, cancelled, lost,
                  launched, open, inbox>>
  BY DEF Update!DownloadUnchanged
<1>4. /\ CheckingRun(q)' <=> CheckingRun(q)
      /\ Update!DownloadingRun(q)' <=> Update!DownloadingRun(q)
      /\ ReadyRun(q)' <=> ReadyRun(q)
  BY <1>3 DEF CheckingRun, Update!DownloadingRun, ReadyRun
<1>5. ~ \E m \in inbox : m.run = q
  BY <1>1 DEF RunInv, InboxInv, DownloadStages
<1>6. ~CheckingRun(q) /\ ~ReadyRun(q)
  BY <1>1, <1>5 DEF RunInv, ControllerInv, DownloadStages, Update!Modes
<1>7. InboxInv(q)'
  BY <1>3, <1>5 DEF InboxInv
<1>8. WorkerInv(q)'
  BY <1>1, <1>2, <1>3, <1>4 DEF RunInv, WorkerInv, DownloadStages, Update!Modes
<1>9. ControllerInv(q)'
  BY <1>2, <1>4, <1>6 DEF ControllerInv
<1> DEFINE sent == {}
<1>10. /\ stage \in Update!WorkerStages /\ sent \subseteq Update!UpdateMessages
       /\ inbox' = inbox \cup sent
  BY <1>3 DEF DownloadStages, Update!WorkerStages
<1>11. updateFaults' \in 0..MaxUpdateFaults
  BY <1>1 DEF Update!TypeOK
<1>12. RunInv(q)' /\ content \in {"none", "empty", "partial", "complete"}
  BY <1>7, <1>8, <1>9 DEF RunInv
<1>13. sent \in SUBSET Update!UpdateMessages /\ \A m \in sent : m.run = q
  OBVIOUS
<1> HIDE DEF sent
<1> QED
  BY <1>3, <1>10, <1>11, <1>12, <1>13, WorkerSteps

\* A worker ends and says so: with a file that may stay only if its download is
\* not cancelled.
LEMMA WorkerEnds ==
    ASSUME UpdateInv, NEW q \in Update!Runs, NEW m \in Update!UpdateMessages, m.run = q,
           NEW content \in {"none", "empty", "partial", "complete"},
           worker' = [worker EXCEPT ![q] = "ended"], folder' =
               [folder EXCEPT ![q] = content],
           inbox' = inbox \cup {m}, updateFaults' \in
               0..MaxUpdateFaults, Update!DownloadUnchanged,
           \/ m.what = "checked" /\ worker[q] \in Update!Modes /\ content = folder[q]
           \/ m.what # "checked" /\ worker[q] \in DownloadStages,
           m.what = "ready" => content = "complete",
           content \in {"none", "empty"} \/ q \notin cancelled
    PROVE  UpdateInv'
<1>1. Update!TypeOK /\ RunInv(q)
  BY DEF UpdateInv
<1>2. worker'[q] = "ended" /\ folder'[q] = content
  BY <1>1 DEF Update!TypeOK
<1>3. UNCHANGED <<updater, dialog, confirming, autoStarted, lastRun, cancelled, lost,
                  launched, open>>
  BY DEF Update!DownloadUnchanged
<1>4. /\ CheckingRun(q)' <=> CheckingRun(q)
      /\ Update!DownloadingRun(q)' <=> Update!DownloadingRun(q)
      /\ ReadyRun(q)' <=> ReadyRun(q)
  BY <1>3 DEF CheckingRun, Update!DownloadingRun, ReadyRun
<1>5. \A n \in inbox' : n.run = q => n = m
  BY <1>1 DEF RunInv, InboxInv, DownloadStages, Update!Modes
<1>6. ~ReadyRun(q) /\ ~(CheckingRun(q) /\ Update!DownloadingRun(q))
  BY <1>1
     DEF RunInv, ControllerInv, DownloadStages, Update!Modes, CheckingRun,
         Update!DownloadingRun
<1>7. m.what = "checked" => CheckingRun(q) /\ folder[q] = "none"
  BY <1>1 DEF RunInv, WorkerInv, ControllerInv, DownloadStages, Update!Modes
<1>8. m.what # "checked" => ~CheckingRun(q)
  BY <1>1 DEF RunInv, ControllerInv, InboxInv, DownloadStages, Update!Modes
<1>9. InboxInv(q)'
  BY <1>2, <1>3, <1>4, <1>5, <1>7 DEF InboxInv
<1>10. WorkerInv(q)'
  <2>1. q <= lastRun
    BY <1>1 DEF RunInv, WorkerInv, DownloadStages, Update!Modes, Update!TypeOK, Update!Runs
  <2>2. content \in {"none", "empty"} \/ Update!InUse(q)'
    <3>1. CASE m.what = "checked"
      BY <1>7, <3>1
    <3>2. CASE m.what # "checked" /\ q \notin cancelled
      <4>1. Update!DownloadingRun(q)
        BY <1>1, <3>2 DEF RunInv, WorkerInv
      <4> QED
        BY <1>4, <4>1 DEF Update!DownloadingRun, Update!InUse
    <3> QED
      BY <3>1, <3>2
  <2>3. ~(q > lastRun)
    BY <1>1, <2>1 DEF Update!TypeOK, Update!Runs
  <2> QED
    BY <1>2, <1>3, <2>2, <2>3 DEF WorkerInv, DownloadStages, Update!Modes
<1>11. ControllerInv(q)'
  <2>1. Update!DownloadingRun(q) => m.what # "checked"
    BY <1>6, <1>7
  <2> QED
    BY <1>2, <1>4, <1>6, <1>7, <1>8, <2>1 DEF ControllerInv
<1> DEFINE sent == {m}
<1>12. /\ "ended" \in Update!WorkerStages /\ sent \in SUBSET Update!UpdateMessages
       /\ \A n \in sent : n.run = q
  BY DEF Update!WorkerStages
<1> HIDE DEF sent
<1>13. RunInv(q)'
  BY <1>9, <1>10, <1>11 DEF RunInv
<1>14. inbox' = inbox \cup sent
  BY DEF sent
<1> QED
  BY <1>3, <1>12, <1>13, <1>14, WorkerSteps

LEMMA WorkerKeeps ==
    ASSUME UpdaterBounds, UpdateInv, NEW q \in Update!Runs, Update!Worker(q)
    PROVE  UpdateInv'
<1>1. Update!TypeOK /\ RunInv(q) /\ folder[q] \in {"none", "empty", "partial", "complete"}
  BY DEF UpdateInv, Update!TypeOK
<1>2. updateFaults' = updateFaults \/ Update!Fault => updateFaults' \in 0..MaxUpdateFaults
  BY <1>1 DEF Update!TypeOK, Update!Fault, UpdaterBounds
<1>3. \A what \in {"ready", "cancelled", "failed"} :
         /\ [run |-> q, what |-> what] \in Update!UpdateMessages
         /\ [run |-> q, what |-> what].run = q /\ [run |-> q, what |-> what].what = what
  BY DEF Update!UpdateMessages
<1>4. folder = [folder EXCEPT ![q] = folder[q]]
  BY <1>1 DEF Update!TypeOK
<1>5. Update!PartialRemoved(q) =
         [folder EXCEPT ![q] = IF folder[q] = "partial" THEN "empty" ELSE folder[q]]
  BY DEF Update!PartialRemoved
<1>6. worker[q] \in DownloadStages => q \in cancelled \/ Update!DownloadingRun(q)
  BY <1>1 DEF RunInv, WorkerInv
<1>a. CASE Update!FetchUpdateRelease(q)
  <2>1. PICK found \in Update!Findings :
           inbox' = inbox \cup
               {[run |-> q, what |-> "checked", mode |-> worker[q], found |-> found]}
    BY <1>a DEF Update!FetchUpdateRelease
  <2> DEFINE m == [run |-> q, what |-> "checked", mode |-> worker[q], found |-> found]
  <2>2. m \in Update!UpdateMessages /\ m.run = q /\ m.what = "checked"
    BY <1>a DEF Update!UpdateMessages, Update!FetchUpdateRelease
  <2>3. inbox' = inbox \cup {m}
    BY <2>1
  <2> HIDE DEF m
  <2>4. /\ worker[q] \in Update!Modes /\ worker' = [worker EXCEPT ![q] = "ended"]
        /\ folder' = folder /\ Update!DownloadUnchanged /\ updateFaults' = updateFaults
    BY <1>a DEF Update!FetchUpdateRelease, Update!DownloadUnchanged
  <2>5. folder[q] = "none"
    BY <1>1, <2>4 DEF RunInv, WorkerInv, ControllerInv
  <2> QED
    BY <1>2, <1>4, <2>2, <2>3, <2>4, <2>5, WorkerEnds
<1>b. ASSUME NEW what \in {"ready", "cancelled", "failed"},
             NEW content \in {"none", "empty", "partial", "complete"},
             Update!EndDownload(q, what), folder' =
                 [folder EXCEPT ![q] = content], Update!DownloadUnchanged,
             updateFaults' = updateFaults \/ Update!Fault, worker[q] \in DownloadStages,
             what = "ready" => content = "complete",
             content \in {"none", "empty"} \/ q \notin cancelled
      PROVE  UpdateInv'
  <2> DEFINE m == [run |-> q, what |-> what]
  <2>1. m \in Update!UpdateMessages /\ m.run = q /\ m.what = what
    BY <1>3
  <2>2. inbox' = inbox \cup {m} /\ worker' = [worker EXCEPT ![q] = "ended"]
    BY <1>b DEF Update!EndDownload, Update!Send
  <2> HIDE DEF m
  <2>3. updateFaults' \in 0..MaxUpdateFaults
    BY <1>2, <1>b
  <2> QED
    BY <1>b, <2>1, <2>2, <2>3, WorkerEnds
<1>c. CASE Update!PrepareDownload(q)
  <2>1. /\ worker[q] = "starting" /\ Update!DownloadUnchanged
        /\ folder[q] \in {"none", "empty"}
    BY <1>1, <1>c DEF Update!PrepareDownload, RunInv, WorkerInv, DownloadStages
  <2>2. CASE Update!GoOn(q, "opening") /\ folder' = [folder EXCEPT ![q] = "empty"]
    BY <2>1, <2>2, WorkerGoesOn DEF Update!GoOn, DownloadStages
  <2>3. CASE Update!FailDownload(q) /\ UNCHANGED folder
    BY <1>4, <1>b, <2>1, <2>3 DEF Update!FailDownload, DownloadStages
  <2> QED
    BY <1>c, <2>2, <2>3 DEF Update!PrepareDownload
<1>d. CASE Update!OpenPartialFile(q)
  <2>1. worker[q] = "opening" /\ Update!DownloadUnchanged /\ folder[q] \in {"none", "empty"}
    BY <1>1, <1>d DEF Update!OpenPartialFile, RunInv, WorkerInv, DownloadStages
  <2>2. CASE Update!GoOn(q, "reading") /\ folder' = [folder EXCEPT ![q] = "partial"]
    BY <2>1, <2>2, WorkerGoesOn DEF Update!GoOn, DownloadStages
  <2>3. CASE Update!EndDownload(q, "failed") /\ UNCHANGED <<folder, updateFaults>>
    BY <1>4, <1>b, <2>1, <2>3 DEF DownloadStages
  <2>4. CASE Update!FailDownload(q) /\ UNCHANGED folder
    BY <1>4, <1>b, <2>1, <2>4 DEF Update!FailDownload, DownloadStages
  <2> QED
    BY <1>d, <2>2, <2>3, <2>4 DEF Update!OpenPartialFile
<1>e. ASSUME Update!StopIfCancelled(q), worker[q] \in
                 DownloadStages, Update!DownloadUnchanged
      PROVE  UpdateInv'
  <2> DEFINE content == IF folder[q] = "partial" THEN "empty" ELSE folder[q]
  <2>1. content \in {"none", "empty"}
    BY <1>1, <1>e DEF RunInv, WorkerInv
  <2>2. /\ folder' = [folder EXCEPT ![q] = content] /\ Update!EndDownload(q, "cancelled")
        /\ updateFaults' = updateFaults
    BY <1>5, <1>e DEF Update!StopIfCancelled, Update!NoFault
  <2> HIDE DEF content
  <2> QED
    BY <1>b, <1>e, <2>1, <2>2
<1>f. CASE Update!ReadUpdate(q)
  <2>1. worker[q] = "reading" /\ Update!DownloadUnchanged
    BY <1>f DEF Update!ReadUpdate
  <2>2. CASE Update!StopIfCancelled(q)
    BY <1>e, <2>1, <2>2 DEF DownloadStages
  <2>3. folder[q] \in {"none", "empty", "partial"}
    BY <1>1, <2>1 DEF RunInv, WorkerInv, DownloadStages
  <2>4. CASE q \notin cancelled /\ Update!GoOn(q, "flushed") /\ UNCHANGED folder
    BY <1>4, <2>1, <2>3, <2>4, WorkerGoesOn DEF Update!GoOn, DownloadStages
  <2>5. CASE q \notin cancelled /\ Update!FailDownload(q) /\ UNCHANGED folder
    BY <1>1, <1>4, <1>b, <2>1, <2>5 DEF Update!FailDownload, DownloadStages
  <2> QED
    BY <1>f, <2>2, <2>4, <2>5 DEF Update!ReadUpdate
<1>g. CASE Update!VerifyUpdate(q)
  <2>1. worker[q] = "flushed" /\ Update!DownloadUnchanged
    BY <1>g DEF Update!VerifyUpdate
  <2>2. CASE Update!StopIfCancelled(q)
    BY <1>e, <2>1, <2>2 DEF DownloadStages
  <2>3. folder[q] \in {"none", "empty", "partial"}
    BY <1>1, <2>1 DEF RunInv, WorkerInv, DownloadStages
  <2>4. CASE q \notin cancelled /\ Update!GoOn(q, "verified") /\ UNCHANGED folder
    BY <1>4, <2>1, <2>3, <2>4, WorkerGoesOn DEF Update!GoOn, DownloadStages
  <2>5. CASE /\ q \notin cancelled /\ Update!EndDownload(q, "failed")
             /\ updateFaults' = updateFaults \/ Update!Fault
             /\ folder' = Update!PartialRemoved(q)
    <3> DEFINE content == IF folder[q] = "partial" THEN "empty" ELSE folder[q]
    <3>1. content \in {"none", "empty"}
      BY <2>3
    <3>2. folder' = [folder EXCEPT ![q] = content]
      BY <1>5, <2>5
    <3> HIDE DEF content
    <3> QED
      BY <1>b, <2>1, <2>5, <3>1, <3>2 DEF DownloadStages
  <2> QED
    BY <1>g, <2>2, <2>4, <2>5 DEF Update!VerifyUpdate, Update!FailDownload, Update!NoFault
<1>h. CASE Update!FinalizeUpdate(q)
  <2>1. worker[q] = "verified" /\ Update!DownloadUnchanged /\ updateFaults' = updateFaults
    BY <1>h DEF Update!FinalizeUpdate, Update!NoFault
  <2>2. CASE folder[q] = "partial" /\ folder' = [folder EXCEPT ![q] = "complete"]
             /\ Update!EndDownload(q, "ready")
    <3>1. q \notin cancelled
      BY <1>1, <2>1, <2>2 DEF RunInv, WorkerInv
    <3> QED
      BY <1>b, <2>1, <2>2, <3>1 DEF DownloadStages
  <2>3. CASE folder[q] # "partial" /\ Update!EndDownload(q, "failed") /\ UNCHANGED folder
    <3>1. folder[q] \in {"none", "empty"}
      BY <1>1, <2>1, <2>3 DEF RunInv, WorkerInv, DownloadStages
    <3> QED
      BY <1>4, <1>b, <2>1, <2>3, <3>1 DEF DownloadStages
  <2> QED
    BY <1>h, <2>2, <2>3 DEF Update!FinalizeUpdate
<1> QED
  BY <1>a, <1>c, <1>d, <1>f, <1>g, <1>h DEF Update!Worker

\* What the controller is busy with, or goes on to, is one run.
IsAt(u, run) ==
    \/ u.is \in {"checking", "downloading"} /\ u.run = run
    \/ u.is = "ready" /\ u.download = run
    \/ u.is \in {"idle", "installing"}

\* A step about one run; the invariant is kept for all others.
LEMMA OthersKept ==
    ASSUME UpdateInv, NEW q \in Update!Runs, Update!TypeOK', open' => open /\ launched' = 0,
           \A run \in Update!Runs \ {q} :
               /\ worker'[run] = worker[run] /\ folder'[run] = folder[run]
               /\ run \in cancelled' <=> run \in cancelled,
           \A m : m.run # q => (m \in inbox' <=> m \in inbox),
           lastRun' = lastRun, lost \subseteq lost', launched' # launched => open,
           updater' = updater \/ (IsAt(updater, q) /\ IsAt(updater', q)),
           RunInv(q)'
    PROVE  UpdateInv'
<1>1. ASSUME NEW run \in Update!Runs, run # q PROVE RunInv(run)'
  <2>1. {m \in inbox' : m.run = run} = {m \in inbox : m.run = run}
    BY <1>1
  <2>2. /\ CheckingRun(run)' <=> CheckingRun(run)
        /\ Update!DownloadingRun(run)' <=> Update!DownloadingRun(run)
        /\ ReadyRun(run)' <=> ReadyRun(run)
        /\ ReadyRun(run) => updater'.release = updater.release
    BY <1>1 DEF CheckingRun, Update!DownloadingRun, ReadyRun, IsAt
  <2>3. launched = run => launched' = run
    BY DEF UpdateInv, Update!Runs
  <2>4. RunInv(run)
    BY DEF UpdateInv
  <2>5. /\ worker'[run] = worker[run] /\ folder'[run] = folder[run]
        /\ run \in cancelled' <=> run \in cancelled
    <3>1. run \in Update!Runs \ {q}
      BY <1>1
    <3>2. \A other \in Update!Runs \ {q} :
             /\ worker'[other] = worker[other] /\ folder'[other] = folder[other]
             /\ other \in cancelled' <=> other \in cancelled
      OBVIOUS
    <3> QED
      BY ONLY <3>1, <3>2
  <2>6. /\ run > lastRun' => run > lastRun
        /\ run \in lost => run \in lost'
        /\ open' => open
    OBVIOUS
  <2> QED
    BY ONLY <2>1, <2>2, <2>3, <2>4, <2>5, <2>6, RunKept
<1> QED
  BY <1>1 DEF UpdateInv

\* The worker of a run whose message is read has ended and has sent no other.
LEMMA MessageFacts ==
    ASSUME UpdateInv, NEW m \in inbox
    PROVE  /\ m \in Update!UpdateMessages /\ m.run \in Update!Runs
           /\ worker[m.run] = "ended"
           /\ \A n \in inbox : n.run = m.run => n = m
           /\ m.what = "checked" => CheckingRun(m.run) /\ m.mode \in Update!Modes
           /\ m.what = "ready" /\ Update!DownloadingRun(m.run) /\ open =>
                  folder[m.run] = "complete" \/ m.run \in lost
           /\ ~(m.run > lastRun)
<1>1. /\ m \in Update!UpdateMessages /\ m.run \in Update!Runs
      /\ (m.what = "checked" => m.mode \in Update!Modes)
  BY DEF UpdateInv, Update!TypeOK, Update!UpdateMessages
<1>2. RunInv(m.run)
  BY <1>1 DEF UpdateInv
<1> QED
  BY <1>1, <1>2 DEF RunInv, InboxInv, WorkerInv

\* A message is read: nothing of its run is left in the inbox, and the controller may
\* leave the run, start its download or offer its file.
LEMMA MessageRead ==
    ASSUME UpdateInv, open, NEW m \in inbox, inbox' = inbox \ {m},
           UNCHANGED <<lastRun, lost, launched, open, cancelled>>, Update!TypeOK',
           \A run \in Update!Runs \ {m.run} :
               worker'[run] = worker[run] /\ folder'[run] = folder[run],
           worker'[m.run] \in {"ended", "starting"},
           updater' = updater \/ (IsAt(updater, m.run) /\ IsAt(updater', m.run)),
           ~CheckingRun(m.run)',
           worker'[m.run] = "starting" <=> Update!DownloadingRun(m.run)',
           worker'[m.run] = "starting" => folder'[m.run] = "empty",
           ReadyRun(m.run)' =>
               /\ updater'.release = m.run
               /\ folder'[m.run] = "complete" \/ m.run \in lost,
           folder'[m.run] \in {"none", "empty"} \/ ReadyRun(m.run)'
    PROVE  UpdateInv'
<1> DEFINE q == m.run
<1>1. /\ q \in Update!Runs /\ worker[q] = "ended" /\ ~(q > lastRun)
      /\ \A n \in inbox : n.run = q => n = m
  BY MessageFacts
<1>2. ~ \E n \in inbox' : n.run = q
  BY <1>1
<1> HIDE DEF q
<1>3. InboxInv(q)'
  BY <1>2 DEF InboxInv
<1>4. WorkerInv(q)'
  BY <1>1 DEF WorkerInv, Update!Modes, DownloadStages, Update!InUse, ReadyRun, q
<1>5. ControllerInv(q)'
  BY <1>1 DEF ControllerInv, DownloadStages, Update!DownloadingRun, ReadyRun, q
<1>6. \A n : n.run # q => (n \in inbox' <=> n \in inbox)
  BY DEF q
<1>7. launched = 0
  BY DEF UpdateInv
<1>8. RunInv(q)'
  BY <1>3, <1>4, <1>5 DEF RunInv
<1>9. /\ open' => open /\ launched' = 0
      /\ \A run \in Update!Runs \ {q} :
             /\ worker'[run] = worker[run] /\ folder'[run] = folder[run]
             /\ run \in cancelled' <=> run \in cancelled
      /\ updater' = updater \/ (IsAt(updater, q) /\ IsAt(updater', q))
  BY <1>7 DEF q
<1> QED
  BY <1>1, <1>6, <1>8, <1>9, OthersKept

LEMMA MessagesKeep ==
    ASSUME UpdaterBounds, UpdateInv, Update!HandleWorkerMessage
    PROVE  UpdateInv'
<1>1. PICK m \in inbox :
         /\ inbox' = inbox \ {m}
         /\ \/ Update!HandleCheckFinished(m) \/ Update!HandleDownloadReady(m)
            \/ Update!HandleDownloadCancelled(m) \/ Update!HandleDownloadFailed(m)
  BY DEF Update!HandleWorkerMessage
<1> DEFINE q == m.run
<1>2. /\ open /\ UNCHANGED <<confirming, autoStarted, lastRun, lost, launched, open>>
      /\ Update!TypeOK /\ RunInv(q)
      /\ q \in Update!Runs /\ worker[q] = "ended"
      /\ \A n \in inbox : n.run = q => n = m
      /\ m.what = "checked" => CheckingRun(q) /\ m.mode \in Update!Modes
      /\ m.what = "ready" /\ Update!DownloadingRun(q) =>
             folder[q] = "complete" \/ q \in lost
  BY MessageFacts DEF Update!HandleWorkerMessage, UpdateInv
<1>3. /\ folder[q] \in {"none", "empty", "partial", "complete"}
      /\ inbox' \subseteq Update!UpdateMessages
      /\ dialog \in BOOLEAN
  BY <1>1, <1>2 DEF Update!TypeOK
<1>4. m.what # "checked" => ~CheckingRun(q)
  BY <1>2 DEF RunInv, ControllerInv, Update!Modes
<1>5. ~Update!InUse(q) => folder[q] \in {"none", "empty"}
  BY <1>2 DEF RunInv, WorkerInv
<1>6. launched = 0 /\ launched # q
  BY <1>2 DEF UpdateInv, Update!Runs
<1> HIDE DEF q
<1>a. ASSUME updater' = updater, worker' = worker, folder' = folder, cancelled' = cancelled,
             dialog' \in BOOLEAN, updateFaults' = updateFaults,
             ~CheckingRun(q), ~Update!DownloadingRun(q)
      PROVE  UpdateInv'
  <2>1. Update!TypeOK'
    BY <1>2, <1>3, <1>a DEF Update!TypeOK
  <2>2. /\ CheckingRun(q)' <=> CheckingRun(q)
        /\ Update!DownloadingRun(q)' <=> Update!DownloadingRun(q)
        /\ ReadyRun(q)' <=> ReadyRun(q)
    BY <1>a DEF CheckingRun, Update!DownloadingRun, ReadyRun
  <2>3. ReadyRun(q) => updater.release = q /\ (folder[q] = "complete" \/ q \in lost)
    BY <1>2 DEF RunInv, ControllerInv
  <2>4. folder[q] \in {"none", "empty"} \/ ReadyRun(q)
    BY <1>5, <1>6, <1>a DEF Update!InUse, CheckingRun, Update!DownloadingRun, ReadyRun
  <2> QED
    BY <1>1, <1>2, <1>a, <2>1, <2>2, <2>3, <2>4, MessageRead DEF q
<1>b. CASE Update!HandleCheckFinished(m)
  <2>1. /\ m.what = "checked" /\ CheckingRun(q) /\ m.mode \in Update!Modes
        /\ cancelled' = cancelled
    BY <1>2, <1>b DEF Update!HandleCheckFinished
  <2>2. folder[q] = "none" /\ IsAt(updater, q)
    BY <1>2, <2>1 DEF RunInv, ControllerInv, CheckingRun, IsAt
  <2>3. CASE Update!StartDownload(q, m.mode)
    <3>1. folder' = [folder EXCEPT ![q] = "empty"]
      BY <2>3 DEF Update!StartDownload
    <3>2. PICK started \in BOOLEAN :
             /\ updater' = IF started THEN Update!Downloading(m.mode, q) ELSE Update!Idle
             /\ worker' = IF started THEN [worker EXCEPT ![q] = "starting"] ELSE worker
             /\ IF started THEN Update!NoFault ELSE Update!Fault
      BY <2>3 DEF Update!StartDownload
    <3>3. /\ updater' \in Update!UpdateStates
          /\ started => updater'.is = "downloading" /\ updater'.run = q
          /\ ~started => updater'.is = "idle"
      BY <1>2, <2>1, <3>2, UpdaterCells
    <3>4. updateFaults' \in 0..MaxUpdateFaults
      BY <1>2, <3>2 DEF Update!TypeOK, Update!Fault, Update!NoFault, UpdaterBounds
    <3>5. dialog' \in BOOLEAN
      BY <2>3 DEF Update!StartDownload, Update!PresentDialog, Update!ForceClose
    <3>6. /\ worker' \in [Update!Runs -> Update!WorkerStages]
          /\ folder' \in [Update!Runs -> {"none", "empty", "partial", "complete"}]
      BY <1>2, <3>1, <3>2 DEF Update!TypeOK, Update!WorkerStages
    <3>7. Update!TypeOK'
      BY <1>2, <1>3, <2>1, <3>3, <3>4, <3>5, <3>6 DEF Update!TypeOK
    <3>8. /\ folder'[q] = "empty" /\ worker'[q] = IF started THEN "starting" ELSE "ended"
          /\ \A run \in Update!Runs \ {q} :
                 worker'[run] = worker[run] /\ folder'[run] = folder[run]
      BY <1>2, <3>1, <3>2 DEF Update!TypeOK
    <3>9. /\ ~CheckingRun(q)' /\ ~ReadyRun(q)' /\ (Update!DownloadingRun(q)' <=> started)
          /\ IsAt(updater', q)
      BY <3>3 DEF CheckingRun, ReadyRun, Update!DownloadingRun, IsAt
    <3> QED
      BY <1>1, <1>2, <2>1, <2>2, <3>7, <3>8, <3>9, MessageRead DEF q
  <2>4. CASE /\ updater' = Update!Idle /\ Update!ForceClose
             /\ UNCHANGED <<worker, folder, updateFaults>>
    <3>1. Update!TypeOK'
      BY <1>2, <1>3, <2>1, <2>4, UpdaterCells DEF Update!TypeOK, Update!ForceClose
    <3>2. /\ ~CheckingRun(q)' /\ ~ReadyRun(q)' /\ ~Update!DownloadingRun(q)'
          /\ IsAt(updater', q)
      BY <2>4, UpdaterCells DEF CheckingRun, ReadyRun, Update!DownloadingRun, IsAt
    <3> QED
      BY <1>1, <1>2, <2>1, <2>2, <2>4, <3>1, <3>2, MessageRead DEF q
  <2> QED
    BY <1>b, <2>1, <2>3, <2>4 DEF Update!HandleCheckFinished, CheckingRun, q
<1>c. CASE Update!HandleDownloadReady(m)
  <2>1. /\ m.what = "ready" /\ UNCHANGED <<worker, folder, cancelled, updateFaults>>
        /\ ~CheckingRun(q)
    BY <1>4, <1>c DEF Update!HandleDownloadReady
  <2>2. CASE Update!DownloadingRun(q)
    <3>1. updater' = Update!Ready(q, q) /\ dialog' = TRUE
      BY <1>c, <2>2
         DEF Update!HandleDownloadReady, Update!PresentDialog, Update!DownloadingRun, q
    <3>2. updater' \in Update!UpdateStates /\ updater'.is = "ready" /\ updater'.release = q
          /\ updater'.download = q
      BY <1>2, <3>1, UpdaterCells
    <3>3. Update!TypeOK'
      BY <1>2, <1>3, <2>1, <3>1, <3>2 DEF Update!TypeOK
    <3>4. /\ ~CheckingRun(q)' /\ ReadyRun(q)' /\ ~Update!DownloadingRun(q)'
          /\ IsAt(updater, q) /\ IsAt(updater', q)
      BY <2>2, <3>2 DEF CheckingRun, ReadyRun, Update!DownloadingRun, IsAt
    <3> QED
      BY <1>1, <1>2, <2>1, <2>2, <3>2, <3>3, <3>4, MessageRead DEF q
  <2>3. CASE ~Update!DownloadingRun(q)
    BY <1>a, <1>3, <1>c, <2>1, <2>3 DEF Update!HandleDownloadReady, q
  <2> QED
    BY <2>2, <2>3
<1>d. CASE Update!HandleDownloadCancelled(m) \/ Update!HandleDownloadFailed(m)
  <2>1. /\ m.what # "checked" /\ UNCHANGED <<worker, cancelled, updateFaults>>
        /\ ~CheckingRun(q)
        /\ dialog' \in BOOLEAN
    BY <1>3, <1>4, <1>d
       DEF Update!HandleDownloadCancelled, Update!HandleDownloadFailed, Update!ForceClose
  <2>2. CASE Update!DownloadingRun(q)
    <3>1. updater' = Update!Idle /\ folder' = [folder EXCEPT ![q] = "none"]
      BY <1>d, <2>2
         DEF Update!HandleDownloadCancelled, Update!HandleDownloadFailed, Update!CleanedUp,
             q
    <3>2. Update!TypeOK' /\ folder'[q] = "none" /\ \A run \in Update!Runs \ {q} :
              folder'[run] = folder[run]
      BY <1>2, <1>3, <2>1, <3>1, UpdaterCells DEF Update!TypeOK
    <3>3. /\ ~CheckingRun(q)' /\ ~ReadyRun(q)' /\ ~Update!DownloadingRun(q)'
          /\ IsAt(updater, q) /\ IsAt(updater', q)
      BY <2>2, <3>1, UpdaterCells DEF CheckingRun, ReadyRun, Update!DownloadingRun, IsAt
    <3> QED
      BY <1>1, <1>2, <2>1, <3>2, <3>3, MessageRead DEF q
  <2>3. CASE ~Update!DownloadingRun(q)
    BY <1>a, <1>d, <2>1, <2>3
       DEF Update!HandleDownloadCancelled, Update!HandleDownloadFailed, q
  <2> QED
    BY <2>2, <2>3
<1> QED
  BY <1>1, <1>b, <1>c, <1>d

\* A step that at most lets the user see the run there is, or ends the program.
LEMMA RunsStay ==
    ASSUME UpdateInv, Update!TypeOK', open' => open,
           UNCHANGED <<worker, inbox, cancelled, folder, lost, lastRun, launched>>,
           \/ updater' = updater
           \/ /\ updater.is \in {"checking", "downloading"}
              /\ updater' = [updater EXCEPT !.mode = "manual"]
    PROVE  UpdateInv'
<1>1. /\ updater'.is = updater.is
      /\ updater.is \in {"checking", "downloading"} => updater'.run = updater.run
      /\ updater.is = "ready" => updater' = updater
  BY UpdaterIs DEF UpdateInv
<1>2. ASSUME NEW run \in Update!Runs PROVE RunInv(run)'
  <2>1. /\ CheckingRun(run)' <=> CheckingRun(run)
        /\ Update!DownloadingRun(run)' <=> Update!DownloadingRun(run)
        /\ ReadyRun(run)' <=> ReadyRun(run)
        /\ ReadyRun(run) => updater'.release = updater.release
    BY <1>1 DEF CheckingRun, Update!DownloadingRun, ReadyRun
  <2>2. RunInv(run)
    BY DEF UpdateInv
  <2> QED
    BY <2>1, <2>2, RunKept
<1> QED
  BY <1>2 DEF UpdateInv

LEMMA ChecksKeep ==
    ASSUME UpdaterBounds, UpdateInv, Update!CheckForUpdates \/ Update!AfterWindowPresented
    PROVE  UpdateInv'
<1>1. PICK mode \in Update!Modes :
         \/ Update!StartCheck(mode)
         \/ UNCHANGED <<updater, dialog, lastRun, worker, folder, updateFaults>>
  BY DEF Update!CheckForUpdates, Update!AfterWindowPresented, Update!Modes
<1>2. Update!TypeOK /\ UNCHANGED <<confirming, inbox, cancelled, lost, launched, open>>
      /\ confirming' \in BOOLEAN /\ autoStarted' \in BOOLEAN
  BY DEF Update!CheckForUpdates, Update!AfterWindowPresented, UpdateInv, Update!TypeOK
<1>3. CASE \/ UNCHANGED <<updater, dialog, lastRun, worker, folder, updateFaults>>
           \/ Update!PresentDialog /\ UNCHANGED <<updater, lastRun, worker, folder, updateFaults>>
  <2>1. Update!TypeOK'
    BY <1>2, <1>3 DEF Update!TypeOK, Update!PresentDialog
  <2> QED
    BY <1>2, <1>3, <2>1, RunsStay
<1>4. CASE updater.is = "idle" /\ Update!BeginCheck(mode, folder)
  BY <1>2, <1>4, CheckBegins
<1>5. CASE /\ updater.is = "ready"
           /\ Update!BeginCheck(mode, Update!CleanedUp(updater.download))
  <2>1. PICK cleaned : cleaned = Update!CleanedUp(updater.download)
    OBVIOUS
  <2> QED
    BY <1>2, <1>5, <2>1, CheckBegins
<1>6. CASE Update!JoinRun(mode)
  <2>1. updater' \in Update!UpdateStates
    BY <1>2, <1>6, UpdaterIs DEF Update!JoinRun
  <2>2. Update!TypeOK'
    BY <1>2, <1>6, <2>1 DEF Update!TypeOK, Update!JoinRun, Update!PresentDialog
  <2> QED
    BY <1>2, <1>6, <2>2, RunsStay DEF Update!JoinRun
<1> QED
  BY <1>1, <1>3, <1>4, <1>5, <1>6 DEF Update!StartCheck

\* A download is given up, its directory goes and its worker will see the flag.
LEMMA DownloadLeft ==
    ASSUME UpdateInv, open, updater.is \in {"downloading", "ready"}, NEW q \in Update!Runs,
           IsAt(updater, q), folder' = Update!CleanedUp(q),
           cancelled' = IF updater.is =
               "downloading" THEN cancelled \cup {q} ELSE cancelled,
           dialog' \in BOOLEAN, open' \in BOOLEAN,
           UNCHANGED <<confirming, autoStarted, lastRun, worker, inbox, lost, launched,
                       updateFaults>>,
           (updater' = updater /\ ~open') \/ (updater.is = "downloading" /\ updater' = Update!Idle)
    PROVE  UpdateInv'
<1>1. Update!TypeOK /\ RunInv(q) /\ launched = 0
  BY DEF UpdateInv
<1>2. folder' = [folder EXCEPT ![q] = "none"]
  BY DEF Update!CleanedUp
<1>3. /\ folder' \in [Update!Runs -> {"none", "empty", "partial", "complete"}]
      /\ folder'[q] = "none" /\ \A run \in Update!Runs \ {q} : folder'[run] = folder[run]
  BY <1>1, <1>2 DEF Update!TypeOK
<1>4. /\ cancelled' \subseteq Update!Runs
      /\ \A run \in Update!Runs \ {q} : run \in cancelled' <=> run \in cancelled
      /\ Update!DownloadingRun(q) => q \in cancelled'
      /\ q \in cancelled => q \in cancelled'
  BY <1>1 DEF Update!TypeOK, Update!DownloadingRun
<1>5. updater' \in Update!UpdateStates
  BY <1>1, UpdaterCells DEF Update!TypeOK
<1>6. Update!TypeOK'
  BY <1>1, <1>3, <1>4, <1>5 DEF Update!TypeOK
<1>7. /\ ~CheckingRun(q) /\ ~CheckingRun(q)'
      /\ Update!DownloadingRun(q)' => Update!DownloadingRun(q) /\ ~open'
      /\ ReadyRun(q)' => ReadyRun(q) /\ updater' = updater
  BY UpdaterCells DEF CheckingRun, Update!DownloadingRun, ReadyRun
<1>8. InboxInv(q)'
  BY <1>1, <1>7 DEF RunInv, InboxInv
<1>9. WorkerInv(q)'
  <2>1. worker[q] \notin Update!Modes
    BY <1>1, <1>7 DEF RunInv, WorkerInv
  <2>2. worker[q] \in DownloadStages => q \in cancelled'
    BY <1>1, <1>4 DEF RunInv, WorkerInv
  <2>3. q > lastRun => worker[q] = "off"
    BY <1>1 DEF RunInv, WorkerInv
  <2> QED
    BY <1>3, <2>1, <2>2, <2>3 DEF WorkerInv
<1>a. ControllerInv(q)'
  <2>1. ReadyRun(q)' => ~open' /\ updater'.release = q /\ worker[q] = "ended"
    BY <1>1, <1>7, UpdaterCells DEF RunInv, ControllerInv, ReadyRun
  <2>2. Update!DownloadingRun(q)' =>
            worker[q] \in DownloadStages \/ \E m \in inbox : m.run = q /\ m.what # "checked"
    BY <1>1, <1>7 DEF RunInv, ControllerInv
  <2> QED
    BY <1>7, <2>1, <2>2 DEF ControllerInv
<1>b. RunInv(q)'
  BY <1>8, <1>9, <1>a DEF RunInv
<1>c. updater' = updater \/ IsAt(updater', q)
  BY UpdaterCells DEF IsAt
<1> QED
  BY <1>1, <1>3, <1>4, <1>6, <1>b, <1>c, OthersKept

LEMMA ClosingKeeps ==
    ASSUME UpdateInv, Update!CloseDialog \/ Update!Shutdown PROVE UpdateInv'
<1>1. /\ open /\ Update!TypeOK /\ dialog' \in BOOLEAN /\ open' \in BOOLEAN
      /\ UNCHANGED <<confirming, autoStarted, lastRun, worker, inbox, lost, launched,
                     updateFaults>>
      /\ (updater' = updater /\ ~open') \/ Update!CloseDialog
  BY DEF Update!CloseDialog, Update!Shutdown, Update!ForceClose, UpdateInv, Update!TypeOK
<1>2. CASE updater.is = "downloading"
  <2>1. updater.run \in Update!Runs /\ IsAt(updater, updater.run)
    BY <1>1, <1>2, UpdaterIs DEF IsAt
  <2>2. /\ folder' = Update!CleanedUp(updater.run)
        /\ cancelled' = cancelled \cup {updater.run}
        /\ (updater' = updater /\ ~open') \/ updater' = Update!Idle
    BY <1>2 DEF Update!CloseDialog, Update!Shutdown
  <2>3. PICK q \in Update!Runs : q = updater.run
    BY <2>1
  <2> QED
    BY <1>1, <1>2, <2>1, <2>2, <2>3, DownloadLeft
<1>3. CASE updater.is = "ready" /\ Update!Shutdown
  <2>1. updater.download \in Update!Runs /\ IsAt(updater, updater.download)
    BY <1>1, <1>3, UpdaterIs DEF IsAt
  <2>2. /\ folder' = Update!CleanedUp(updater.download) /\ cancelled' = cancelled
        /\ updater' = updater /\ ~open'
    BY <1>3 DEF Update!Shutdown
  <2>3. PICK q \in Update!Runs : q = updater.download
    BY <2>1
  <2> QED
    BY <1>1, <1>3, <2>1, <2>2, <2>3, DownloadLeft
<1>4. CASE updater.is # "downloading" /\ (updater.is # "ready" \/ Update!CloseDialog)
  <2>1. UNCHANGED <<updater, folder, cancelled>>
    BY <1>4 DEF Update!CloseDialog, Update!Shutdown
  <2>2. Update!TypeOK'
    BY <1>1, <2>1 DEF Update!TypeOK
  <2> QED
    BY <1>1, <2>1, <2>2, RunsStay
<1> QED
  BY <1>2, <1>3, <1>4

LEMMA LaunchKeeps ==
    ASSUME UpdaterBounds, UpdateInv, open, updater.is =
           "ready", Update!LaunchUpdate(updater.download),
           confirming' \in BOOLEAN,
           UNCHANGED <<autoStarted, lastRun, worker, inbox, cancelled, folder, lost>>
    PROVE  UpdateInv'
<1>q. PICK q \in Update!Runs : q = updater.download
  BY UpdaterIs DEF UpdateInv
<1>1. /\ Update!TypeOK /\ launched = 0 /\ q \in Update!Runs /\ IsAt(updater, q)
      /\ ReadyRun(q) /\ RunInv(q)
  BY <1>q DEF UpdateInv, IsAt, ReadyRun
<1>2. CASE /\ Update!NoFault /\ updater' = Update!Installing /\ Update!ForceClose
           /\ launched' = q /\ open' = FALSE
  <2>1. updater' \in Update!UpdateStates /\ updater'.is = "installing"
    BY <1>2, UpdaterCells
  <2>2. launched' \in 0..MaxRuns
    BY <1>1, <1>2 DEF Update!Runs
  <2>3. Update!TypeOK'
    BY <1>1, <1>2, <2>1, <2>2 DEF Update!TypeOK, Update!NoFault, Update!ForceClose
  <2>4. ~CheckingRun(q) /\ ~Update!DownloadingRun(q)
    BY DEF CheckingRun, Update!DownloadingRun
  <2>5. /\ ~CheckingRun(q)' /\ ~Update!DownloadingRun(q)' /\ ~ReadyRun(q)'
        /\ Update!InUse(q)' /\ IsAt(updater', q)
    BY <1>2, <2>1 DEF CheckingRun, Update!DownloadingRun, ReadyRun, Update!InUse, IsAt
  <2>6. InboxInv(q)'
    BY <1>1, <2>4, <2>5 DEF RunInv, InboxInv
  <2>7. WorkerInv(q)'
    BY <1>1, <2>4, <2>5 DEF RunInv, WorkerInv
  <2>8. ControllerInv(q)'
    BY <2>5 DEF ControllerInv
  <2>9. RunInv(q)'
    BY <2>6, <2>7, <2>8 DEF RunInv
  <2> QED
    BY <1>1, <1>2, <2>3, <2>5, <2>9, OthersKept
<1>3. CASE (Update!Fault \/ Update!NoFault) /\ UNCHANGED <<updater, dialog, launched, open>>
  <2>1. Update!TypeOK'
    BY <1>1, <1>3 DEF Update!TypeOK, Update!Fault, Update!NoFault, UpdaterBounds
  <2> QED
    BY <1>3, <2>1, RunsStay
<1> QED
  BY <1>q, <1>2, <1>3 DEF Update!LaunchUpdate

LEMMA InstallsKeep ==
    ASSUME UpdaterBounds, UpdateInv, Update!BeginInstallFlow \/ Update!AnswerConfirmation
    PROVE  UpdateInv'
<1>1. /\ Update!TypeOK /\ open /\ confirming' \in BOOLEAN
      /\ UNCHANGED <<autoStarted, inbox, cancelled, lost>>
  BY DEF UpdateInv, Update!TypeOK, Update!BeginInstallFlow, Update!AnswerConfirmation
<1>2. CASE /\ updater.is = "ready" /\ Update!LaunchUpdate(updater.download)
           /\ UNCHANGED <<lastRun, worker, folder>>
  BY <1>1, <1>2, LaunchKeeps
<1>3. CASE UNCHANGED <<updater, dialog, lastRun, worker, folder, launched, open,
                       updateFaults>>
  <2>1. Update!TypeOK'
    BY <1>1, <1>3 DEF Update!TypeOK
  <2> QED
    BY <1>1, <1>3, <2>1, RunsStay
<1>4. CASE /\ updater.is = "ready"
           /\ Update!BeginCheck("manual", Update!CleanedUp(updater.download))
           /\ UNCHANGED <<confirming, launched, open>>
  <2>1. PICK cleaned : cleaned = Update!CleanedUp(updater.download)
    OBVIOUS
  <2>2. autoStarted' \in BOOLEAN /\ "manual" \in Update!Modes
    BY <1>1 DEF Update!TypeOK, Update!Modes
  <2> QED
    BY <1>1, <1>4, <2>1, <2>2, CheckBegins
<1> QED
  BY <1>2, <1>3, <1>4 DEF Update!BeginInstallFlow, Update!AnswerConfirmation

LEMMA LossKeeps ==
    ASSUME UpdateInv, NEW q \in Update!Runs, Update!LoseDownload(q), UpdaterBounds
    PROVE  UpdateInv'
<1>1. Update!TypeOK /\ RunInv(q) /\ launched = 0 /\ open
  BY DEF UpdateInv, Update!LoseDownload
<1>2. folder' = [folder EXCEPT ![q] = "none"] /\ lost' = lost \cup {q}
      /\ UNCHANGED <<updater, dialog, confirming, autoStarted, lastRun, worker, inbox,
                     cancelled, launched, open>>
  BY DEF Update!LoseDownload, Update!CleanedUp
<1>3. updateFaults' \in 0..MaxUpdateFaults
  BY <1>1 DEF Update!LoseDownload, Update!Fault, Update!TypeOK, UpdaterBounds
<1>4. Update!TypeOK'
  BY <1>1, <1>2, <1>3 DEF Update!TypeOK
<1>5. folder'[q] = "none" /\ \A run \in Update!Runs \ {q} : folder'[run] = folder[run]
  BY <1>1, <1>2 DEF Update!TypeOK
<1>6. /\ CheckingRun(q)' <=> CheckingRun(q)
      /\ Update!DownloadingRun(q)' <=> Update!DownloadingRun(q)
      /\ ReadyRun(q)' <=> ReadyRun(q)
  BY <1>2 DEF CheckingRun, Update!DownloadingRun, ReadyRun
<1>7. InboxInv(q)'
  BY <1>1, <1>2, <1>6 DEF RunInv, InboxInv
<1>8. WorkerInv(q)'
  BY <1>1, <1>2, <1>5, <1>6 DEF RunInv, WorkerInv
<1>9. ControllerInv(q)'
  BY <1>1, <1>2, <1>5, <1>6 DEF RunInv, ControllerInv
<1>a. RunInv(q)'
  BY <1>7, <1>8, <1>9 DEF RunInv
<1> QED
  BY <1>1, <1>2, <1>4, <1>5, <1>a, OthersKept

LEMMA UpdateStep ==
    ASSUME UpdaterBounds, UpdateInv, [Update!Next]_(Update!updaterVars)
    PROVE  UpdateInv'
<1>1. CASE UNCHANGED Update!updaterVars
  <2>1. Update!TypeOK'
    BY <1>1 DEF UpdateInv, Update!TypeOK, Update!updaterVars
  <2> QED
    BY <1>1, <2>1, RunsStay DEF Update!updaterVars
<1>2. CASE Update!CheckForUpdates \/ Update!AfterWindowPresented
  BY <1>2, ChecksKeep
<1>3. CASE Update!HandleWorkerMessage
  BY <1>3, MessagesKeep
<1>4. CASE Update!CloseDialog \/ Update!Shutdown
  BY <1>4, ClosingKeeps
<1>5. CASE Update!BeginInstallFlow \/ Update!AnswerConfirmation
  BY <1>5, InstallsKeep
<1>6. ASSUME NEW run \in Update!Runs, Update!Worker(run) \/ Update!LoseDownload(run)
      PROVE  UpdateInv'
  BY <1>6, WorkerKeeps, LossKeeps
<1> QED
  BY <1>1, <1>2, <1>3, <1>4, <1>5, <1>6 DEF Update!Next

LEMMA UpdateShows ==
    ASSUME UpdateInv
    PROVE  Update!OnlyTheReleaseIsKept /\ Update!ABusyUpdaterHasACarrier
<1>1. \A run \in Update!Runs : RunInv(run)
  BY DEF UpdateInv
<1>2. Update!OnlyTheReleaseIsKept
  <2>1. ASSUME open, updater.is = "ready"
        PROVE  /\ updater.release = updater.download
               /\ Update!MatchesRelease(updater.download) \/ updater.download \in lost
    <3>1. updater.download \in Update!Runs
      BY <2>1, UpdaterIs DEF UpdateInv
    <3> QED
      BY <1>1, <2>1, <3>1 DEF RunInv, ControllerInv, ReadyRun, Update!MatchesRelease
  <2>2. \A run \in Update!Runs :
           worker[run] = "ended" /\ ~Update!InUse(run) => folder[run] \in {"none", "empty"}
    BY <1>1 DEF RunInv, WorkerInv
  <2> QED
    BY <2>1, <2>2 DEF Update!OnlyTheReleaseIsKept
<1>3. Update!ABusyUpdaterHasACarrier
  <2>1. SUFFICES ASSUME updater.is \in {"checking", "downloading"}
                 PROVE  \/ worker[updater.run] \notin {"off", "ended"}
                        \/ \E message \in inbox :
                              /\ message.run = updater.run
                              /\ (message.what = "checked") = (updater.is = "checking")
    BY DEF Update!ABusyUpdaterHasACarrier
  <2>2. updater.run \in Update!Runs
    BY <2>1, UpdaterIs DEF UpdateInv
  <2>3. ControllerInv(updater.run)
    BY <1>1, <2>2 DEF RunInv
  <2>4. CASE updater.is = "checking"
    BY <2>3, <2>4 DEF ControllerInv, CheckingRun, Update!Modes
  <2>5. CASE updater.is = "downloading"
    BY <2>3, <2>5 DEF ControllerInv, Update!DownloadingRun, DownloadStages
  <2> QED
    BY <2>1, <2>4, <2>5
<1> QED
  BY <1>2, <1>3

-----------------------------------------------------------------------------
(* The program in the application menu *)

\* What a part is when it is done.
Wanted == IF work.kind = "add" THEN Install!Installer ELSE Install!None

\* While something is added or removed nothing has ended well, and every part that
\* had its turn is as it should be.
MenuInv ==
    /\ work.kind = "none" => work.next = 1
    /\ work.kind # "none" =>
           /\ outcome.is = "none"
           /\ work.by = "app" => app.at # "off"
           /\ \A i \in 1..7 : i < work.next => parts[Install!Parts[i]] = Wanted

InstallInv ==
    Install!TypeOK /\ MenuInv /\ Install!WhatEndsWellIsWhole /\ Install!TheRunningProgramIsWhole

LEMMA PartFacts ==
    /\ Len(Install!Parts) = 7
    /\ \A i \in 1..7 : Install!Parts[i] \in Install!PartNames
    /\ \A i, j \in 1..7 : Install!Parts[i] = Install!Parts[j] => i = j
    /\ \A p \in Install!PartNames : \E i \in 1..7 : Install!Parts[i] = p
    /\ "binary" \in Install!PartNames /\ "desktop" \in Install!PartNames
<1>1. Len(Install!Parts) = 7 /\ DOMAIN Install!Parts = 1..7
  BY DEF Install!Parts
<1>2. /\ \A i \in 1..7 : Install!Parts[i] \in Install!PartNames
      /\ \A p \in Install!PartNames : \E i \in 1..7 : Install!Parts[i] = p
  BY <1>1 DEF Install!PartNames
<1>3. \A i, j \in 1..7 : Install!Parts[i] = Install!Parts[j] => i = j
  BY DEF Install!Parts
<1>4. Install!Parts[1] = "binary" /\ Install!Parts[2] = "desktop"
  BY DEF Install!Parts
<1> QED
  BY <1>1, <1>2, <1>3, <1>4

LEMMA InstallCells ==
    ASSUME InstallBounds, Install!TypeOK
    PROVE  /\ Install!Installer \in Versions \cup {Install!None}
           /\ Wanted \in Versions \cup {Install!None}
           /\ app.at \in {"off", "idle", "quitting"}
           /\ app.version \in Versions \cup {Install!None}
           /\ app.from \in {"elsewhere", "place", "gone"}
           /\ work.next \in 1..8 /\ work.kind \in {"none", "add", "remove"}
           /\ work.by \in {"app", "helper"}
           /\ Install!NoWork \in
                  [kind : {"none", "add", "remove"}, by : {"app", "helper"}, next : 1..8]
           /\ Install!NoWork.kind = "none" /\ Install!NoWork.next = 1
           /\ Install!Label \in {"add", "remove"}
           /\ Install!Step \/ Install!Fault =>
                  installCount' \in [steps : 0..MaxInstallSteps, faults : 0..MaxInstallFaults]
<1>1. Install!Step \/ Install!Fault =>
          installCount' \in [steps : 0..MaxInstallSteps, faults : 0..MaxInstallFaults]
  BY DEF Install!TypeOK, Install!Step, Install!Fault, InstallBounds
<1>2. Install!NoWork \in
          [kind : {"none", "add", "remove"}, by : {"app", "helper"}, next : 1..8]
      /\ Install!NoWork.kind = "none" /\ Install!NoWork.next = 1
  BY DEF Install!NoWork
<1>3. Install!Label \in {"add", "remove"}
  BY DEF Install!Label
<1>4. work.next \in 1..8
  BY PartFacts DEF Install!TypeOK
<1>5. /\ Install!Installer \in Versions \cup {Install!None}
      /\ Wanted \in Versions \cup {Install!None}
  BY DEF Install!Installer, Wanted, Install!TypeOK
<1> QED
  BY <1>1, <1>2, <1>3, <1>4, <1>5 DEF Install!TypeOK

LEMMA InstallStart == ASSUME InstallBounds, Install!Init PROVE InstallInv
<1>1. Install!TypeOK
  <2>1. title \in {"add", "remove"}
    BY DEF Install!Init, Install!Label
  <2>2. installCount \in [steps : 0..MaxInstallSteps, faults : 0..MaxInstallFaults]
    BY DEF Install!Init, InstallBounds
  <2>3. work \in [kind : {"none", "add", "remove"}, by : {"app", "helper"}, next :
                  1..(Len(Install!Parts) + 1)]
    BY PartFacts DEF Install!Init, Install!NoWork
  <2>4. parts \in [Install!PartNames -> Versions \cup {Install!None, Install!Half}]
    BY DEF Install!Init
  <2> QED
    BY <2>1, <2>2, <2>3, <2>4 DEF Install!Init, Install!TypeOK
<1> QED
  BY <1>1
     DEF Install!Init, InstallInv, MenuInv, Install!NoWork, Install!WhatEndsWellIsWhole,
         Install!TheRunningProgramIsWhole

\* The program as a step leaves it.
LEMMA AppTyped ==
    ASSUME InstallBounds, Install!TypeOK
    PROVE  /\ Install!Unlinked \in
                  [at : {"off", "idle", "quitting"}, version : Versions \cup {Install!None},
                                    from : {"elsewhere", "place", "gone"}]
           /\ Install!Unlinked.at = app.at /\ Install!Unlinked.version = app.version
           /\ Install!Unlinked.from # "place"
<1>1. app \in [at : {"off", "idle", "quitting"}, version : Versions \cup {Install!None},
               from : {"elsewhere", "place", "gone"}]
  BY DEF Install!TypeOK
<1> QED
  BY <1>1 DEF Install!Unlinked

LEMMA PartsKeep ==
    ASSUME InstallBounds, InstallInv, Install!AddPart \/ Install!RemovePart
    PROVE  InstallInv'
<1> DEFINE part == Install!Parts[work.next]
<1>1. Install!TypeOK /\ MenuInv
  BY DEF InstallInv
<1>2. work.next \in 1..7 /\ work.kind \in {"add", "remove"} /\ part \in Install!PartNames
  BY <1>1, InstallCells, PartFacts DEF Install!AddPart, Install!RemovePart
<1>3. /\ parts' = [parts EXCEPT ![part] = Wanted]
      /\ work' = [work EXCEPT !.next = @ + 1]
      /\ UNCHANGED <<helper, title, outcome, installCount>>
  BY DEF Install!AddPart, Install!RemovePart, Wanted
<1> HIDE DEF part
<1>4. /\ parts' \in [Install!PartNames -> Versions \cup {Install!None, Install!Half}]
      /\ parts'[part] = Wanted /\ \A p \in Install!PartNames \ {part} : parts'[p] = parts[p]
  BY <1>1, <1>2, <1>3, InstallCells DEF Install!TypeOK
<1>5. /\ work' \in [kind : {"none", "add", "remove"}, by : {"app", "helper"}, next : 1..8]
      /\ work'.next = work.next + 1 /\ work'.kind = work.kind /\ work'.by = work.by
  BY <1>1, <1>2, <1>3, PartFacts DEF Install!TypeOK
<1>6. /\ app' \in [at : {"off", "idle", "quitting"}, version : Versions \cup {Install!None},
                   from : {"elsewhere", "place", "gone"}]
      /\ app'.at = app.at /\ app'.version = app.version
      /\ app' = app \/ (work.kind = "remove" /\ part = "binary" /\ app'.from # "place")
  BY <1>1, AppTyped DEF Install!TypeOK, Install!AddPart, Install!RemovePart, part
<1>7. Install!TypeOK'
  BY <1>1, <1>3, <1>4, <1>5, <1>6, PartFacts DEF Install!TypeOK
<1>8. Wanted' = Wanted
  BY <1>3, <1>5, <1>6 DEF Wanted, Install!Installer
<1>9. MenuInv'
  <2>1. ASSUME NEW i \in 1..7, i < work'.next PROVE parts'[Install!Parts[i]] = Wanted'
    <3>1. CASE i = work.next
      BY <1>4, <1>8, <3>1 DEF part
    <3>2. CASE i # work.next
      <4>1. i < work.next
        BY <1>2, <1>5, <2>1, <3>2
      <4>2. Install!Parts[i] \in Install!PartNames \ {part}
        BY <1>2, <3>2, PartFacts DEF part
      <4> QED
        BY <1>1, <1>2, <1>4, <1>8, <4>1, <4>2 DEF MenuInv
    <3> QED
      BY <3>1, <3>2
  <2> QED
    BY <1>1, <1>2, <1>3, <1>5, <1>6, <2>1 DEF MenuInv
<1>a. Install!WhatEndsWellIsWhole'
  BY <1>1, <1>2, <1>3 DEF MenuInv, Install!WhatEndsWellIsWhole
<1>b. Install!TheRunningProgramIsWhole'
  <2>1. CASE part = "binary"
    <3>1. Install!AddPart => ~(app.at # "off" /\ app.from = "place")
      BY <2>1 DEF Install!AddPart, Install!IsBusy, part
    <3>2. Install!RemovePart => app'.from # "place"
      BY <1>1, <2>1, AppTyped DEF Install!RemovePart, part
    <3>3. Install!AddPart => app' = app
      BY DEF Install!AddPart
    <3> QED
      BY <3>1, <3>2, <3>3 DEF Install!TheRunningProgramIsWhole
  <2>2. CASE part # "binary"
    <3>1. parts'["binary"] = parts["binary"]
      BY <1>4, <2>2, PartFacts
    <3> QED
      BY <1>6, <2>2, <3>1 DEF InstallInv, Install!TheRunningProgramIsWhole
  <2> QED
    BY <2>1, <2>2
<1> QED
  BY <1>7, <1>9, <1>a, <1>b DEF InstallInv

\* Something ends: a part at most is left half written, and what is said of the
\* parts that ended well holds.
LEMMA EndKeeps ==
    ASSUME InstallBounds, InstallInv, NEW is \in
           {"added", "removed", "failed"}, Install!Answered(is),
           parts' \in [Install!PartNames -> Versions \cup {Install!None, Install!Half}],
           installCount' \in [steps : 0..MaxInstallSteps, faults : 0..MaxInstallFaults],
           is = "added" => \A p \in Install!PartNames : parts'[p] = Install!Installer,
           is = "removed" => \A p \in Install!PartNames : parts'[p] = Install!None,
           \/ parts'["binary"] = parts["binary"]
           \/ ~(app.at # "off" /\ app.from = "place")
    PROVE  InstallInv'
<1>1. Install!TypeOK /\ Install!Installer \in Versions \cup {Install!None}
  BY InstallCells DEF InstallInv
<1>2. /\ outcome' =
             [is |-> is, version |-> IF is =
              "added" THEN Install!Installer ELSE Install!None]
      /\ work' = Install!NoWork
  BY DEF Install!Answered, Install!EndWork
<1>3. /\ outcome' \in
             [is : {"none", "added", "removed", "failed"}, version :
              Versions \cup {Install!None}]
      /\ outcome'.is = is /\ (is = "added" => outcome'.version = Install!Installer)
  BY <1>1, <1>2
<1>4. work' \in [kind : {"none", "add", "remove"}, by : {"app", "helper"}, next : 1..8]
      /\ work'.kind = "none" /\ work'.next = 1
  BY <1>1, <1>2, InstallCells
<1>5. title' \in {"add", "remove"}
  <2>1. Install!Label' \in {"add", "remove"}
    BY DEF Install!Label
  <2> QED
    BY <1>1, <2>1 DEF Install!Answered, Install!TypeOK
<1>6. helper' \in
          [at : {"none", "starting", "installing"}, version : Versions \cup {Install!None}]
  BY <1>1 DEF Install!Answered, Install!TypeOK
<1>7. \/ app' = app
      \/ /\ is = "added"
         /\ app' = [at |-> "idle", version |-> parts'["binary"], from |-> "place"]
  BY DEF Install!Answered
<1>8. /\ app' \in [at : {"off", "idle", "quitting"}, version : Versions \cup {Install!None},
                   from : {"elsewhere", "place", "gone"}]
      /\ app' = app \/ app'.version = parts'["binary"]
  <2>1. is = "added" => parts'["binary"] \in Versions \cup {Install!None}
    BY <1>1, PartFacts
  <2> QED
    BY <1>1, <1>7, <2>1 DEF Install!TypeOK
<1>9. Install!TypeOK'
  BY <1>3, <1>4, <1>5, <1>6, <1>8, PartFacts DEF Install!TypeOK
<1>a. MenuInv'
  BY <1>4 DEF MenuInv
<1>b. Install!WhatEndsWellIsWhole'
  BY <1>3 DEF Install!WhatEndsWellIsWhole
<1>c. Install!TheRunningProgramIsWhole'
  BY <1>8 DEF InstallInv, Install!TheRunningProgramIsWhole
<1> QED
  BY <1>9, <1>a, <1>b, <1>c DEF InstallInv

LEMMA EndsKeep ==
    ASSUME InstallBounds, InstallInv, Install!AllDone \/ Install!PartFails
    PROVE  InstallInv'
<1>1. Install!TypeOK /\ MenuInv
  BY DEF InstallInv
<1>2. CASE Install!AllDone /\ work.kind # "none"
  <2>1. work.next = 8
    BY <1>1, <1>2, InstallCells, PartFacts DEF Install!AllDone
  <2>2. \A p \in Install!PartNames : parts[p] = Wanted
    BY <1>1, <1>2, <2>1, PartFacts DEF MenuInv
  <2>3. parts' = parts /\ installCount' = installCount
    BY <1>2 DEF Install!AllDone
  <2>4. CASE work.kind = "add"
    <3>1. Install!Answered("added") /\ \A p \in Install!PartNames :
              parts'[p] = Install!Installer
      BY <1>2, <2>2, <2>3, <2>4 DEF Install!AllDone, Wanted
    <3> QED
      BY <1>1, <2>3, <3>1, EndKeeps DEF Install!TypeOK
  <2>5. CASE work.kind # "add"
    <3>1. Install!Answered("removed") /\ \A p \in Install!PartNames :
              parts'[p] = Install!None
      BY <1>2, <2>2, <2>3, <2>5 DEF Install!AllDone, Wanted
    <3> QED
      BY <1>1, <2>3, <3>1, EndKeeps DEF Install!TypeOK
  <2> QED
    BY <2>4, <2>5
<1>3. CASE Install!PartFails
  <2>1. /\ work.next \in 1..7 /\ Install!Parts[work.next] \in Install!PartNames
        /\ Install!Answered("failed")
    BY <1>1, <1>3, InstallCells, PartFacts DEF Install!PartFails
  <2>2. installCount' \in [steps : 0..MaxInstallSteps, faults : 0..MaxInstallFaults]
    BY <1>1, <1>3, InstallCells DEF Install!PartFails, Install!TypeOK
  <2>3. \/ parts' = parts
        \/ /\ ~Install!IsBusy(Install!Parts[work.next])
           /\ parts' = [parts EXCEPT ![Install!Parts[work.next]] = Install!Half]
    BY <1>3 DEF Install!PartFails
  <2>4. parts' \in [Install!PartNames -> Versions \cup {Install!None, Install!Half}]
    BY <1>1, <2>1, <2>3 DEF Install!TypeOK
  <2>5. \/ parts'["binary"] = parts["binary"]
        \/ ~(app.at # "off" /\ app.from = "place")
    <3>1. CASE Install!Parts[work.next] = "binary"
      BY <2>3, <3>1 DEF Install!IsBusy
    <3>2. CASE Install!Parts[work.next] # "binary"
      BY <1>1, <2>1, <2>3, <3>2, PartFacts DEF Install!TypeOK
    <3> QED
      BY <3>1, <3>2
  <2> QED
    BY <2>1, <2>2, <2>4, <2>5, EndKeeps
<1>4. CASE Install!AllDone /\ work.kind = "none"
  BY <1>1, <1>4, PartFacts DEF Install!AllDone, MenuInv
<1> QED
  BY <1>2, <1>3, <1>4

\* A step that leaves the parts alone.
LEMMA OthersStay ==
    ASSUME InstallBounds, InstallInv, Install!TypeOK', UNCHANGED parts,
           \/ UNCHANGED <<work, outcome>>
           \/ /\ outcome'.is = "none"
              /\ work' = Install!NoWork \/ (work'.next =
                                            1 /\ (work'.by = "app" => app'.at # "off")),
           work.kind # "none" /\ work' = work =>
               Wanted' = Wanted /\ (work.by = "app" => app'.at # "off"),
           app' = app \/ ~(app'.at # "off" /\ app'.from = "place")
             \/ parts["binary"] = app'.version
    PROVE  InstallInv'
<1>1. Install!TypeOK /\ MenuInv
  BY DEF InstallInv
<1>2. MenuInv'
  <2>1. CASE UNCHANGED <<work, outcome>>
    BY <1>1, <2>1 DEF MenuInv
  <2>2. CASE /\ outcome'.is = "none"
             /\ work' = Install!NoWork \/ (work'.next =
                                           1 /\ (work'.by = "app" => app'.at # "off"))
    <3>1. work'.next = 1 /\ (work'.kind # "none" /\ work'.by = "app" => app'.at # "off")
      BY <1>1, <2>2, InstallCells
    <3>2. ~ \E i \in 1..7 : i < work'.next
      BY <3>1
    <3> QED
      BY <2>2, <3>1, <3>2 DEF MenuInv
  <2> QED
    BY <2>1, <2>2
<1>3. Install!WhatEndsWellIsWhole'
  BY DEF InstallInv, Install!WhatEndsWellIsWhole
<1>4. Install!TheRunningProgramIsWhole'
  BY DEF InstallInv, Install!TheRunningProgramIsWhole
<1> QED
  BY <1>2, <1>3, <1>4 DEF InstallInv

LEMMA AppsKeep ==
    ASSUME InstallBounds, InstallInv,
           Install!StartProgram \/ Install!AppQuits \/ Install!RefreshTools \/ Install!LaunchUpdate
    PROVE  InstallInv'
<1>1. Install!TypeOK /\ MenuInv /\ Install!Label' \in {"add", "remove"}
  BY DEF InstallInv, Install!Label
<1>2. installCount' \in [steps : 0..MaxInstallSteps, faults : 0..MaxInstallFaults]
  BY <1>1, InstallCells
     DEF Install!StartProgram, Install!AppQuits, Install!RefreshTools,
         Install!LaunchUpdate, Install!TypeOK
<1>3. /\ UNCHANGED <<parts, work, outcome>>
      /\ title' \in {"add", "remove"}
  BY <1>1, InstallCells
     DEF Install!StartProgram, Install!AppQuits, Install!RefreshTools,
         Install!LaunchUpdate, Install!TypeOK
<1>4. CASE Install!StartProgram
  <2>1. PICK version \in Versions, from \in {"place", "elsewhere"} :
           /\ app' = [at |-> "idle", version |-> version, from |-> from]
           /\ from = "place" => version = parts["binary"]
    BY <1>4 DEF Install!StartProgram
  <2>2. helper' = helper /\ app.at = "off"
    BY <1>4 DEF Install!StartProgram
  <2>3. /\ app' \in [at : {"off", "idle", "quitting"}, version :
                     Versions \cup {Install!None},
                     from : {"elsewhere", "place", "gone"}]
        /\ app'.at = "idle" /\ (app'.from = "place" => parts["binary"] = app'.version)
    BY <2>1
  <2>4. Install!TypeOK'
    BY <1>1, <1>2, <1>3, <2>2, <2>3 DEF Install!TypeOK
  <2>5. work.kind # "none" => Wanted' = Wanted
    BY <1>1, <1>3, <2>2 DEF MenuInv, Wanted, Install!Installer
  <2> QED
    BY <1>3, <2>3, <2>4, <2>5, OthersStay
<1>5. CASE Install!AppQuits
  <2>1. app' = [at |-> "off", version |-> Install!None, from |-> "elsewhere"]
    BY <1>5 DEF Install!AppQuits
  <2>2. helper' = helper /\ (work = Install!NoWork \/ work.by = "helper")
    BY <1>5 DEF Install!AppQuits
  <2>3. /\ app' \in [at : {"off", "idle", "quitting"}, version :
                     Versions \cup {Install!None},
                     from : {"elsewhere", "place", "gone"}]
        /\ app'.at = "off"
    BY <2>1
  <2>4. Install!TypeOK'
    BY <1>1, <1>2, <1>3, <2>2, <2>3 DEF Install!TypeOK
  <2>5. work.kind # "none" => Wanted' = Wanted /\ work.by = "helper"
    BY <1>1, <1>3, <2>2, InstallCells DEF Wanted, Install!Installer
  <2> QED
    BY <1>3, <2>3, <2>4, <2>5, OthersStay
<1>6. CASE Install!RefreshTools
  <2>1. UNCHANGED <<app, helper>>
    BY <1>6 DEF Install!RefreshTools
  <2>2. Install!TypeOK'
    BY <1>1, <1>2, <1>3, <2>1 DEF Install!TypeOK
  <2>3. Wanted' = Wanted
    BY <1>3, <2>1 DEF Wanted, Install!Installer
  <2>4. work.kind # "none" /\ work.by = "app" => app'.at # "off"
    BY <1>1, <2>1 DEF MenuInv
  <2> QED
    BY <1>3, <2>1, <2>2, <2>3, <2>4, OthersStay
<1>7. CASE Install!LaunchUpdate
  <2>1. work.kind = "none" /\ app' = [app EXCEPT !.at = "quitting"] /\ app.at = "idle"
    BY <1>1, <1>7, InstallCells DEF Install!LaunchUpdate
  <2>2. helper' \in
            [at : {"none", "starting", "installing"}, version :
             Versions \cup {Install!None}]
    BY <1>7 DEF Install!LaunchUpdate
  <2>3. /\ app' \in [at : {"off", "idle", "quitting"}, version :
                     Versions \cup {Install!None},
                     from : {"elsewhere", "place", "gone"}]
        /\ app'.from = app.from /\ app'.version = app.version
    BY <1>1, <2>1 DEF Install!TypeOK
  <2>4. Install!TypeOK'
    BY <1>1, <1>2, <1>3, <2>2, <2>3 DEF Install!TypeOK
  <2>5. ~(app'.at # "off" /\ app'.from = "place") \/ parts["binary"] = app'.version
    BY <2>1, <2>3 DEF InstallInv, Install!TheRunningProgramIsWhole
  <2> QED
    BY <1>3, <2>1, <2>4, <2>5, OthersStay
<1> QED
  BY <1>4, <1>5, <1>6, <1>7

LEMMA WorksKeep ==
    ASSUME InstallBounds, InstallInv, Install!ClickRow \/ Install!RunAutoInstall \/ Install!WorkerDies
    PROVE  InstallInv'
<1>1. Install!TypeOK /\ MenuInv
  BY DEF InstallInv
<1>2. /\ installCount' \in [steps : 0..MaxInstallSteps, faults : 0..MaxInstallFaults]
      /\ UNCHANGED <<parts, title>>
  BY <1>1, InstallCells
     DEF Install!ClickRow, Install!RunAutoInstall, Install!WorkerDies, Install!TypeOK
<1>3. outcome' = [is |-> "none", version |-> Install!None]
  BY DEF Install!ClickRow, Install!RunAutoInstall, Install!WorkerDies, Install!Begin
<1>4. /\ outcome' \in
             [is : {"none", "added", "removed", "failed"}, version :
              Versions \cup {Install!None}]
      /\ outcome'.is = "none"
  BY <1>3
<1>5. CASE Install!ClickRow \/ Install!RunAutoInstall
  <2>1. PICK kind \in {"add", "remove"}, by \in {"app", "helper"} :
           /\ work' = [kind |-> kind, by |-> by, next |-> 1]
           /\ by = "app" => app.at = "idle"
    BY <1>5 DEF Install!ClickRow, Install!RunAutoInstall, Install!Begin
  <2>2. app' = app
    BY <1>5 DEF Install!ClickRow, Install!RunAutoInstall
  <2>3. helper' \in
            [at : {"none", "starting", "installing"}, version :
             Versions \cup {Install!None}]
    BY <1>1, <1>5 DEF Install!ClickRow, Install!RunAutoInstall, Install!TypeOK
  <2>4. /\ work' \in [kind : {"none", "add", "remove"}, by : {"app", "helper"}, next : 1..8]
        /\ work'.next = 1 /\ (work'.by = "app" => app'.at # "off") /\ work'.kind # "none"
    BY <2>1, <2>2
  <2>5. Install!TypeOK'
    BY <1>1, <1>2, <1>4, <2>2, <2>3, <2>4, PartFacts DEF Install!TypeOK
  <2>6. work.kind # "none" /\ work' = work =>
            Wanted' = Wanted /\ (work.by = "app" => app'.at # "off")
    <3>1. helper'.version = helper.version
      BY <1>1, <1>5 DEF Install!ClickRow, Install!RunAutoInstall, Install!TypeOK
    <3> QED
      BY <2>2, <2>4, <3>1 DEF Wanted, Install!Installer
  <2> QED
    BY <1>2, <1>4, <2>2, <2>4, <2>5, <2>6, OthersStay
<1>6. CASE Install!WorkerDies
  <2>1. work' = Install!NoWork /\ work.kind # "none"
    BY <1>6 DEF Install!WorkerDies
  <2>2. app' = app \/ app' = [at |-> "off", version |-> Install!None, from |-> "elsewhere"]
    BY <1>6 DEF Install!WorkerDies
  <2>3. helper' \in
            [at : {"none", "starting", "installing"}, version :
             Versions \cup {Install!None}]
    BY <1>1, <1>6 DEF Install!WorkerDies, Install!TypeOK
  <2>4. /\ app' \in [at : {"off", "idle", "quitting"}, version :
                     Versions \cup {Install!None},
                     from : {"elsewhere", "place", "gone"}]
        /\ app' = app \/ app'.at = "off"
    BY <1>1, <2>2 DEF Install!TypeOK
  <2>5. work' \in [kind : {"none", "add", "remove"}, by : {"app", "helper"}, next : 1..8]
        /\ work' # work
    BY <1>1, <2>1, InstallCells
  <2>6. Install!TypeOK'
    BY <1>1, <1>2, <1>4, <2>3, <2>4, <2>5, PartFacts DEF Install!TypeOK
  <2> QED
    BY <1>2, <1>4, <2>1, <2>4, <2>5, <2>6, OthersStay
<1> QED
  BY <1>5, <1>6

LEMMA InstallStep ==
    ASSUME InstallBounds, InstallInv, [Install!Next]_(Install!installVars)
    PROVE  InstallInv'
<1>1. CASE UNCHANGED Install!installVars
  BY <1>1
     DEF InstallInv, Install!TypeOK, MenuInv, Install!WhatEndsWellIsWhole,
         Install!TheRunningProgramIsWhole,
     Wanted, Install!Installer, Install!installVars
<1>2. CASE Install!AddPart \/ Install!RemovePart
  BY <1>2, PartsKeep
<1>3. CASE Install!AllDone \/ Install!PartFails
  BY <1>3, EndsKeep
<1>4. CASE Install!StartProgram \/ Install!AppQuits \/ Install!RefreshTools \/ Install!LaunchUpdate
  BY <1>4, AppsKeep
<1>5. CASE Install!ClickRow \/ Install!RunAutoInstall \/ Install!WorkerDies
  BY <1>5, WorksKeep
<1> QED
  BY <1>1, <1>2, <1>3, <1>4, <1>5 DEF Install!Next

-----------------------------------------------------------------------------
(* Cards *)

CardStates ==
    [connected : BOOLEAN, pin : Smartcard!Pins, tries : 0..Smartcard!Tries,
     adminTries : 0..Smartcard!Tries, keys : Smartcard!KeyPairs, certificate : BOOLEAN]

\* Setups that have not generated their keys.
Early == {"pin", "admin", "generate"}
\* Those that have: the admin PIN was accepted.
Late == {"fingerprints", "certify", "certifyDefault", "ensure", "ensureSet", "ensureAgain",
         "validate", "store", "ok"}

PendingJobs == {task \in cardJobs : task.at \in Early}
JobsOf(w) == {task \in cardJobs : task.kind = "setup" /\ task.window = w}
Entry(task) == [card |-> task.card, keys |-> task.keys]

\* What a job may be: alone with its card, unless the card is shared, it has the tries
\* it left the card with.
CardJobInv(task) ==
    /\ task.at = "store" /\ Entry(task) \notin superseded =>
           Smartcard!Names(task.keys, card[task.card])
    /\ task.card \notin shared =>
            /\ \A other \in cardJobs : other.card = task.card => other = task
            /\ task.kind = "setup" /\ task.at \in Late =>
                   card[task.card].adminTries = Smartcard!Tries
            /\ task.kind = "setup" /\ task.at \in {"validate", "store", "ok"} =>
                    card[task.card].pin = task.pin /\ card[task.card].tries =
                        Smartcard!Tries

\* Every key that was generated was paid for by a setup or by a change from outside.
CardCountInv ==
    /\ IsFiniteSet(cardJobs)
    /\ cardCount.keys + Cardinality(PendingJobs) <= 1 + cardCount.uses + cardCount.faults

RunningInv(w) ==
    /\ page[w].inFlight => \E task : JobsOf(w) = {task}
    /\ ~page[w].inFlight => JobsOf(w) = {}

CardInv ==
    /\ Smartcard!TypeOK /\ CardCountInv /\ Smartcard!StoredKeysAreOnTheirCard
    /\ \A task \in cardJobs : CardJobInv(task)
    /\ \A w \in CardWindows : RunningInv(w)

LEMMA CardCells ==
    ASSUME CardBounds, Smartcard!TypeOK
    PROVE  /\ \A c \in Cards : card[c] \in CardStates /\ card[c].keys \in Smartcard!KeyPairs
           /\ \A task \in cardJobs :
                 /\ task \in Smartcard!CardJobs /\ task.window \in CardWindows
                 /\ task.card \in Cards
                 /\ task.pin \in Smartcard!Pins /\ task.keys \in Smartcard!KeyPairs
           /\ stored \subseteq Smartcard!StoredKeys
           /\ superseded \subseteq Smartcard!StoredKeys
           /\ \A s \in stored : s.card \in Cards /\ s.keys \in Smartcard!KeyPairs
           /\ Smartcard!NoKeys \in Smartcard!KeyPairs /\ "default" \in Smartcard!Pins
           /\ Smartcard!Tries = 3
<1>1. /\ \A c \in Cards : card[c] \in CardStates /\ card[c].keys \in Smartcard!KeyPairs
  BY DEF Smartcard!TypeOK, CardStates
<1>2. \A task \in cardJobs :
          /\ task \in Smartcard!CardJobs /\ task.window \in CardWindows
          /\ task.card \in Cards
          /\ task.pin \in Smartcard!Pins /\ task.keys \in Smartcard!KeyPairs
  BY DEF Smartcard!TypeOK, Smartcard!CardJobs
<1>3. stored \subseteq Smartcard!StoredKeys /\ superseded \subseteq Smartcard!StoredKeys
  BY DEF Smartcard!TypeOK
<1>4. \A s \in stored : s.card \in Cards /\ s.keys \in Smartcard!KeyPairs
  BY <1>3 DEF Smartcard!StoredKeys
<1>5. /\ Smartcard!NoKeys \in Smartcard!KeyPairs /\ "default" \in Smartcard!Pins
      /\ Smartcard!Tries = 3
  <2>1. 0 \in 0..Smartcard!MaxKeys
    BY DEF CardBounds, Smartcard!MaxKeys
  <2> QED
    BY <2>1
       DEF Smartcard!NoKeys, Smartcard!NoKey, Smartcard!KeyPairs, Smartcard!Pins,
           Smartcard!Tries
<1> QED
  BY <1>1, <1>2, <1>3, <1>4, <1>5

\* What a PIN does to a card.
LEMMA PinFacts ==
    ASSUME NEW k \in CardStates, NEW pin \in Smartcard!Pins
    PROVE  /\ Smartcard!AfterPin(k, pin) \in CardStates
           /\ Smartcard!AfterPin(k, pin).keys = k.keys
           /\ Smartcard!AfterPin(k, pin).adminTries = k.adminTries
           /\ Smartcard!AfterPin(k, pin).pin = k.pin
           /\ Smartcard!Accepts(k, pin) =>
                  Smartcard!AfterPin(k, pin).tries = Smartcard!Tries /\ k.pin = pin
           /\ Smartcard!WithPin(k, pin) \in CardStates
           /\ Smartcard!WithPin(k, pin).keys = k.keys
           /\ Smartcard!WithPin(k, pin).adminTries = k.adminTries
           /\ Smartcard!WithPin(k, pin).pin = pin
           /\ Smartcard!WithPin(k, pin).tries = Smartcard!Tries
<1> DEFINE remaining == CASE Smartcard!Accepts(k, pin) -> Smartcard!Tries
                          [] Smartcard!Refuses(k, pin) -> k.tries - 1
                          [] OTHER -> 0
<1>1. /\ remaining \in 0..Smartcard!Tries
      /\ (Smartcard!Accepts(k, pin) => remaining = Smartcard!Tries)
  BY DEF Smartcard!Accepts, Smartcard!Refuses, CardStates, Smartcard!Tries
<1>2. Smartcard!AfterPin(k, pin) = [k EXCEPT !.tries = remaining]
  BY DEF Smartcard!AfterPin
<1> HIDE DEF remaining
<1>3. Smartcard!Tries \in 0..Smartcard!Tries
  BY DEF Smartcard!Tries
<1> QED
  BY <1>1, <1>2, <1>3 DEF CardStates, Smartcard!Accepts, Smartcard!WithPin

LEMMA AdminFacts ==
    ASSUME NEW k \in CardStates, NEW task
    PROVE  /\ Smartcard!AfterAdmin(k, task) \in CardStates
           /\ Smartcard!AfterAdmin(k, task).keys = k.keys
           /\ Smartcard!AfterAdmin(k, task).pin = k.pin
           /\ Smartcard!AfterAdmin(k, task).tries = k.tries
           /\ Smartcard!AcceptsAdmin(k, task) =>
                  Smartcard!AfterAdmin(k, task).adminTries = Smartcard!Tries
<1> DEFINE remaining == CASE Smartcard!AcceptsAdmin(k, task) -> Smartcard!Tries
                          [] k.adminTries > 0 /\ ~task.admin -> k.adminTries - 1
                          [] OTHER -> 0
<1>1. /\ remaining \in 0..Smartcard!Tries
      /\ (Smartcard!AcceptsAdmin(k, task) => remaining = Smartcard!Tries)
  BY DEF Smartcard!AcceptsAdmin, CardStates, Smartcard!Tries
<1>2. Smartcard!AfterAdmin(k, task) = [k EXCEPT !.adminTries = remaining]
  BY DEF Smartcard!AfterAdmin
<1> HIDE DEF remaining
<1> QED
  BY <1>1, <1>2 DEF CardStates

LEMMA CardStart == ASSUME CardBounds, Smartcard!Init PROVE CardInv
<1>1. Smartcard!MaxKeys \in Nat /\ 1 \in 0..Smartcard!MaxKeys /\ 0 \in 0..Smartcard!MaxKeys
  BY DEF CardBounds, Smartcard!MaxKeys
<1>2. /\ Smartcard!NoKeys \in Smartcard!KeyPairs
      /\ [signing |-> 1, decryption |-> 1] \in Smartcard!KeyPairs
  BY <1>1 DEF Smartcard!NoKeys, Smartcard!NoKey, Smartcard!KeyPairs
<1>3. card \in [Cards -> CardStates]
  <2>1. PICK old \in SUBSET Cards, withCert \in SUBSET Cards, pin \in Smartcard!Pins :
           card = [c \in Cards |->
               [connected |-> TRUE, pin |-> pin, tries |-> Smartcard!Tries,
                adminTries |-> Smartcard!Tries,
                keys |-> IF c \in old THEN [signing |-> 1, decryption |-> 1] ELSE
                    Smartcard!NoKeys,
                certificate |-> c \in old \cap withCert]]
    BY DEF Smartcard!Init
  <2>2. ASSUME NEW c \in Cards PROVE card[c] \in CardStates
    <3> DEFINE keys ==
        IF c \in old THEN [signing |-> 1, decryption |-> 1] ELSE Smartcard!NoKeys
    <3> DEFINE certificate == c \in old \cap withCert
    <3>1. keys \in Smartcard!KeyPairs
      BY <1>2
    <3>2. certificate \in BOOLEAN
      OBVIOUS
    <3>3. card[c] =
              [connected |-> TRUE, pin |-> pin, tries |-> Smartcard!Tries,
               adminTries |-> Smartcard!Tries,
                     keys |-> keys, certificate |-> certificate]
      BY <2>1
    <3> HIDE DEF keys, certificate
    <3>4. Smartcard!Tries \in 0..Smartcard!Tries
      BY DEF Smartcard!Tries
    <3> QED
      BY <3>1, <3>2, <3>3, <3>4 DEF CardStates
  <2> QED
    BY <2>1, <2>2
<1>4. Smartcard!TypeOK
  <2>1. cardCount \in
            [uses : 0..MaxCardUses, faults : 0..MaxCardFaults, keys : 0..Smartcard!MaxKeys]
    BY <1>1 DEF Smartcard!Init, CardBounds
  <2>2. picking \in [CardWindows -> Smartcard!Tokens]
    BY DEF Smartcard!Init, Smartcard!Tokens
  <2>3. page \in [CardWindows -> [visible : BOOLEAN, token :
                                  Cards \cup {Smartcard!NoCard}, inFlight : BOOLEAN]]
    BY DEF Smartcard!Init
  <2> QED
    BY <1>3, <2>1, <2>2, <2>3 DEF Smartcard!Init, Smartcard!TypeOK, CardStates
<1>5. CardCountInv
  <2>1. PendingJobs = {} /\ cardJobs = {}
    BY DEF Smartcard!Init, PendingJobs
  <2>2. IsFiniteSet({}) /\ Cardinality({}) = 0
    BY FS_EmptySet
  <2> QED
    BY <2>1, <2>2 DEF Smartcard!Init, CardCountInv
<1> QED
  BY <1>4, <1>5
     DEF Smartcard!Init, CardInv, Smartcard!StoredKeysAreOnTheirCard, RunningInv, JobsOf

\* The jobs of a window when one of them goes on.
LEMMA JobsOfNext ==
    ASSUME CardInv, NEW task \in cardJobs, NEW next, next.kind = task.kind, next.window =
           task.window,
           Smartcard!GoesOn(task, next), UNCHANGED page
    PROVE  \A w \in CardWindows : RunningInv(w)'
<1>1. ASSUME NEW w \in CardWindows PROVE RunningInv(w)'
  <2>1. RunningInv(w)
    BY DEF CardInv
  <2>2. CASE task.kind = "setup" /\ task.window = w
    <3>1. task \in JobsOf(w)
      BY <2>2 DEF JobsOf
    <3>2. page[w].inFlight
      BY <2>1, <3>1 DEF RunningInv
    <3>3. JobsOf(w) = {task}
      BY <2>1, <3>1, <3>2 DEF RunningInv
    <3>4. JobsOf(w)' = {next}
      BY <2>2, <3>3 DEF JobsOf, Smartcard!GoesOn
    <3> QED
      BY <3>2, <3>4 DEF RunningInv
  <2>3. CASE ~(task.kind = "setup" /\ task.window = w)
    <3>1. JobsOf(w)' = JobsOf(w)
      BY <2>3 DEF JobsOf, Smartcard!GoesOn
    <3> QED
      BY <2>1, <3>1 DEF RunningInv
  <2> QED
    BY <2>2, <2>3
<1> QED
  BY <1>1

\* The setups that have not generated their keys when one of them goes on.
LEMMA CountNext ==
    ASSUME CardInv, CardBounds, NEW task \in
           cardJobs, NEW next, Smartcard!GoesOn(task, next),
           cardCount' \in [uses : Nat, faults : Nat, keys : Nat],
           cardCount'.uses = cardCount.uses,
           \/ /\ cardCount'.keys = cardCount.keys /\ cardCount'.faults >= cardCount.faults
              /\ next.at \in Early => task.at \in Early
           \/ /\ cardCount'.keys =
               cardCount.keys + 1 /\ cardCount'.faults >= cardCount.faults
              /\ task.at \in Early /\ next.at \notin Early
    PROVE  CardCountInv'
<1>1. CardCountInv /\ cardCount \in [uses : Nat, faults : Nat, keys : Nat]
  BY DEF CardInv, Smartcard!TypeOK, CardBounds, Smartcard!MaxKeys
<1>2. IsFiniteSet(cardJobs \ {task}) /\ IsFiniteSet(cardJobs')
  BY <1>1, FS_RemoveElement, FS_AddElement DEF CardCountInv, Smartcard!GoesOn
<1>3. PendingJobs \subseteq cardJobs /\ IsFiniteSet(PendingJobs)
  BY <1>1, FS_Subset DEF CardCountInv, PendingJobs
<1>4. Cardinality(PendingJobs) \in Nat
  BY <1>3, FS_CardinalityType
<1> DEFINE rest == PendingJobs \ {task}
<1>5. IsFiniteSet(rest) /\ Cardinality(rest) =
          IF task.at \in Early THEN Cardinality(PendingJobs) - 1
                               ELSE Cardinality(PendingJobs)
  <2>1. task \in PendingJobs <=> task.at \in Early
    BY DEF PendingJobs
  <2> QED
    BY <1>3, <2>1, FS_RemoveElement
<1>6. PendingJobs' = IF next.at \in Early THEN rest \cup {next} ELSE rest
  BY DEF PendingJobs, Smartcard!GoesOn
<1>7. Cardinality(rest) \in Nat
  BY <1>5, FS_CardinalityType
<1> HIDE DEF rest
<1>8. /\ Cardinality(PendingJobs') <= IF next.at \in Early THEN Cardinality(rest) + 1
                                      ELSE Cardinality(rest)
      /\ Cardinality(PendingJobs') \in Nat
  <2>1. /\ IsFiniteSet(rest \cup {next})
        /\ Cardinality(rest \cup {next}) = IF next \in rest THEN Cardinality(rest)
                                                          ELSE Cardinality(rest) + 1
    BY <1>5, FS_AddElement
  <2>2. Cardinality(rest \cup {next}) <= Cardinality(rest) + 1
        /\ Cardinality(rest \cup {next}) \in Nat /\ Cardinality(rest) <= Cardinality(rest)
    BY <1>7, <2>1
  <2> QED
    BY <1>6, <1>7, <2>2
<1>9. cardCount'.keys + Cardinality(PendingJobs') <= 1 + cardCount'.uses + cardCount'.faults
  BY <1>1, <1>4, <1>5, <1>7, <1>8 DEF CardCountInv
<1> QED
  BY <1>2, <1>9 DEF CardCountInv

\* A job goes on: only its own card is touched, and its keys stay unless those stored
\* for it are superseded.
LEMMA JobGoesOn ==
    ASSUME CardBounds, CardInv, NEW task \in cardJobs, NEW next \in
           Smartcard!CardJobs, NEW k \in CardStates,
           next.kind = task.kind, next.window = task.window, next.card = task.card,
           Smartcard!GoesOn(task, next), card' = [card EXCEPT ![task.card] = k],
           UNCHANGED <<counting, page, picking, mistried, shared>>,
           superseded \subseteq superseded', superseded' \subseteq Smartcard!StoredKeys,
           \/ k.keys = card[task.card].keys
           \/ Smartcard!KeysFor(task.card) \subseteq superseded',
           \/ stored' = stored
           \/ /\ stored' = stored \cup {Entry(task)}
              /\ Entry(task) \notin superseded' => Smartcard!Names(task.keys, k),
           cardCount' \in [uses : 0..MaxCardUses, faults : 0..MaxCardFaults, keys : Nat],
           cardCount'.uses = cardCount.uses,
           \/ /\ cardCount'.keys = cardCount.keys /\ cardCount'.faults >= cardCount.faults
              /\ next.at \in Early => task.at \in Early
           \/ /\ cardCount'.keys =
               cardCount.keys + 1 /\ cardCount'.faults >= cardCount.faults
              /\ task.at \in Early /\ next.at \notin Early,
           next.at = "store" /\ Entry(next) \notin superseded' =>
               Smartcard!Names(next.keys, k),
           task.card \notin shared /\ next.kind = "setup" /\ next.at \in Late =>
                k.adminTries = Smartcard!Tries,
           task.card \notin shared /\ next.kind =
               "setup" /\ next.at \in {"validate", "store", "ok"} =>
                k.pin = next.pin /\ k.tries = Smartcard!Tries
    PROVE  CardInv'
<1>1. /\ Smartcard!TypeOK /\ task \in Smartcard!CardJobs /\ task.card \in Cards
      /\ task.keys \in Smartcard!KeyPairs
  BY CardCells DEF CardInv
<1>2. cardCount' \in [uses : Nat, faults : Nat, keys : Nat]
  BY DEF CardBounds
<1>3. CardCountInv'
  BY <1>2, CountNext
<1>4. cardCount' \in
          [uses : 0..MaxCardUses, faults : 0..MaxCardFaults, keys : 0..Smartcard!MaxKeys]
  <2>1. Cardinality(PendingJobs') \in Nat
    <3>1. PendingJobs' \subseteq cardJobs' /\ IsFiniteSet(cardJobs')
      BY <1>3 DEF CardCountInv, PendingJobs
    <3> QED
      BY <3>1, FS_Subset, FS_CardinalityType
  <2>2. cardCount'.keys <= 1 + cardCount'.uses + cardCount'.faults
    BY <1>2, <1>3, <2>1 DEF CardCountInv
  <2> QED
    BY <2>2 DEF Smartcard!MaxKeys, CardBounds
<1>5. card' \in [Cards -> CardStates] /\ card'[task.card] = k
      /\ \A c \in Cards \ {task.card} : card'[c] = card[c]
  BY <1>1 DEF Smartcard!TypeOK, CardStates
<1>6. stored' \subseteq Smartcard!StoredKeys
  BY <1>1 DEF Smartcard!TypeOK, Smartcard!StoredKeys, Entry
<1>7. cardJobs' \subseteq Smartcard!CardJobs
  BY <1>1 DEF Smartcard!TypeOK, Smartcard!GoesOn
<1>8. Smartcard!TypeOK'
  BY <1>1, <1>4, <1>5, <1>6, <1>7 DEF Smartcard!TypeOK, CardStates
<1>9. ASSUME NEW s \in
                 Smartcard!StoredKeys, s \notin superseded',
                 Smartcard!Names(s.keys, card[s.card]),
             s \in stored \/ \E j \in cardJobs : j.at = "store" /\ s = Entry(j)
      PROVE  Smartcard!Names(s.keys, card'[s.card])
  <2>1. s.card \in Cards /\ s.keys \in Smartcard!KeyPairs
    BY DEF Smartcard!StoredKeys
  <2>2. CASE s.card # task.card
    BY <1>5, <1>9, <2>1, <2>2
  <2>3. CASE s.card = task.card /\ k.keys = card[task.card].keys
    BY <1>5, <1>9, <2>3 DEF Smartcard!Names
  <2>4. CASE s.card = task.card /\ Smartcard!KeysFor(task.card) \subseteq superseded'
    <3>1. s \in Smartcard!KeysFor(task.card)
      <4>1. CASE s \in stored
        BY <2>4, <4>1 DEF Smartcard!KeysFor
      <4>2. CASE \E j \in cardJobs : j.at = "store" /\ s = Entry(j)
        <5>1. PICK j \in cardJobs : j.at = "store" /\ s = Entry(j)
          BY <4>2
        <5>2. s.card = j.card /\ s = [card |-> task.card, keys |-> j.keys]
          BY <2>4, <5>1 DEF Entry
        <5> QED
          BY <2>4, <5>1, <5>2 DEF Smartcard!KeysFor
      <4> QED
        BY <1>9, <4>1, <4>2
    <3> QED
      BY <1>9, <2>4, <3>1
  <2> QED
    BY <2>2, <2>3, <2>4
<1>tried. Smartcard!StoredKeysAreOnTheirCard'
  <2>1. ASSUME NEW s \in stored', s \notin superseded'
        PROVE  Smartcard!Names(s.keys, card[s.card])'
    <3>1. CASE s \in stored
      <4>1. Smartcard!Names(s.keys, card[s.card]) /\ s \in Smartcard!StoredKeys
        BY <1>1, <2>1, <3>1, CardCells DEF CardInv, Smartcard!StoredKeysAreOnTheirCard
      <4>2. Smartcard!Names(s.keys, card'[s.card])
        BY <1>9, <2>1, <3>1, <4>1
      <4> QED
        BY <4>2 DEF Smartcard!Names
    <3>2. CASE s \notin stored
      <4>1. s = Entry(task) /\ Smartcard!Names(task.keys, k)
        BY <2>1, <3>2
      <4>2. s.card = task.card /\ s.keys = task.keys
        BY <4>1 DEF Entry
      <4> QED
        BY <1>5, <4>1, <4>2 DEF Smartcard!Names
    <3> QED
      BY <3>1, <3>2
  <2>2. ~mistried'
    BY DEF CardInv, Smartcard!StoredKeysAreOnTheirCard
  <2> QED
    BY <2>1, <2>2 DEF Smartcard!StoredKeysAreOnTheirCard
<1>b. CardJobInv(next)'
  <2>1. ASSUME task.card \notin shared
        PROVE  \A other \in cardJobs' : other.card = task.card => other = next
    BY <2>1 DEF CardInv, CardJobInv, Smartcard!GoesOn
  <2>2. Smartcard!Names(next.keys, k) => Smartcard!Names(next.keys, card[next.card])'
    BY <1>5 DEF Smartcard!Names
  <2>3. Entry(next)' = Entry(next) /\ card'[next.card] = k
    BY <1>5 DEF Entry
  <2> QED
    BY <2>1, <2>2, <2>3 DEF CardJobInv
<1>c. ASSUME NEW j \in cardJobs \ {task} PROVE CardJobInv(j)'
  <2>1. /\ CardJobInv(j) /\ CardJobInv(task) /\ j.card \in Cards
        /\ j.keys \in Smartcard!KeyPairs /\ Entry(j) \in Smartcard!StoredKeys
    BY <1>1, CardCells DEF CardInv, Smartcard!StoredKeys, Entry
  <2>2. j.at = "store" /\ Entry(j) \notin superseded' =>
            Smartcard!Names(j.keys, card[j.card])'
    <3>1. SUFFICES ASSUME j.at = "store", Entry(j) \notin superseded'
                   PROVE  Smartcard!Names(j.keys, card[j.card])'
      OBVIOUS
    <3>2. Entry(j).card = j.card /\ Entry(j).keys = j.keys
      BY DEF Entry
    <3>3. Smartcard!Names(j.keys, card[j.card])
      BY <2>1, <3>1 DEF CardJobInv
    <3>4. Smartcard!Names(Entry(j).keys, card'[Entry(j).card])
      BY <1>9, <2>1, <3>1, <3>2, <3>3
    <3> QED
      BY <3>2, <3>4 DEF Smartcard!Names
  <2>3. ASSUME j.card \notin shared
        PROVE  j.card # task.card /\ card'[j.card] = card[j.card]
    <3>1. j.card # task.card
      BY <1>c, <2>1, <2>3 DEF CardJobInv
    <3> QED
      BY <1>5, <2>1, <3>1
  <2>4. Entry(j)' = Entry(j)
    BY DEF Entry
  <2>5. j.card \notin shared => \A other \in cardJobs' : other.card = j.card => other = j
    BY <2>1, <2>3 DEF CardJobInv, Smartcard!GoesOn
  <2> QED
    BY <2>1, <2>2, <2>3, <2>4, <2>5 DEF CardJobInv
<1>d. \A j \in cardJobs' : CardJobInv(j)'
  BY <1>b, <1>c DEF Smartcard!GoesOn
<1>e. \A w \in CardWindows : RunningInv(w)'
  BY JobsOfNext
<1> QED
  BY <1>3, <1>8, <1>tried, <1>d, <1>e DEF CardInv

LEMMA FaultCounted ==
    ASSUME CardBounds, Smartcard!TypeOK, cardCount' = cardCount \/ Smartcard!Fault
    PROVE  /\ cardCount' \in [uses : 0..MaxCardUses, faults : 0..MaxCardFaults, keys : Nat]
           /\ cardCount' \in
                  [uses : 0..MaxCardUses, faults : 0..MaxCardFaults, keys :
                   0..Smartcard!MaxKeys]
           /\ cardCount'.uses = cardCount.uses /\ cardCount'.keys = cardCount.keys
           /\ cardCount'.faults >= cardCount.faults
<1>1. /\ cardCount' \in
             [uses : 0..MaxCardUses, faults : 0..MaxCardFaults, keys : 0..Smartcard!MaxKeys]
      /\ cardCount'.uses = cardCount.uses /\ cardCount'.keys = cardCount.keys
      /\ cardCount'.faults >= cardCount.faults
  BY DEF CardBounds, Smartcard!TypeOK, Smartcard!Fault
<1>2. Smartcard!MaxKeys \in Nat
  BY DEF Smartcard!MaxKeys, CardBounds
<1> QED
  BY <1>1, <1>2

\* A job goes on with the keys its card has.
LEMMA StageStep ==
    ASSUME CardBounds, CardInv, NEW task \in cardJobs, NEW next \in
           Smartcard!CardJobs, NEW k \in CardStates,
           next.kind = task.kind, next.window = task.window, next.card = task.card,
           next.pin =
               task.pin, Smartcard!GoesOn(task, next), Smartcard!OnCard(task, k), k.keys =
                   card[task.card].keys,
           UNCHANGED <<counting, page, picking, stored, superseded, mistried, shared>>,
           cardCount' = cardCount \/ Smartcard!Fault,
           next.at \in Early => task.at \in Early,
           next.at = "store" => Smartcard!Names(next.keys, k),
           next.at \in Late =>
               \/ k.adminTries = Smartcard!Tries
               \/ task.at \in Late /\ k.adminTries = card[task.card].adminTries,
           next.at \in {"validate", "store", "ok"} =>
               \/ k.pin = task.pin /\ k.tries = Smartcard!Tries
               \/ task.at \in {"validate", "store"} /\ k = card[task.card]
    PROVE  CardInv'
<1>1. Smartcard!TypeOK /\ CardJobInv(task) /\ superseded \subseteq Smartcard!StoredKeys
  BY DEF CardInv, Smartcard!TypeOK
<1>2. /\ cardCount' \in [uses : 0..MaxCardUses, faults : 0..MaxCardFaults, keys : Nat]
      /\ cardCount'.uses = cardCount.uses /\ cardCount'.keys = cardCount.keys
      /\ cardCount'.faults >= cardCount.faults
  BY <1>1, FaultCounted
<1>3. task.card \notin shared /\ next.kind = "setup" /\ next.at \in Late =>
          k.adminTries = Smartcard!Tries
  BY <1>1 DEF CardJobInv
<1>4. task.card \notin shared /\ next.kind =
          "setup" /\ next.at \in {"validate", "store", "ok"} =>
           k.pin = next.pin /\ k.tries = Smartcard!Tries
  BY <1>1 DEF CardJobInv
<1>5. card' = [card EXCEPT ![task.card] = k]
  BY DEF Smartcard!OnCard
<1> QED
  BY <1>1, <1>2, <1>3, <1>4, <1>5, JobGoesOn

\* The same where the job is only said to go to a stage.
LEMMA StageReached ==
    ASSUME CardBounds, CardInv, NEW task \in cardJobs, NEW stage \in Smartcard!Stages
    PROVE  LET next == [task EXCEPT !.at = stage]
           IN  /\ next \in Smartcard!CardJobs /\ next.kind = task.kind
               /\ next.window = task.window
               /\ next.card = task.card /\ next.pin = task.pin /\ next.keys = task.keys
               /\ next.at = stage
               /\ Smartcard!GoesTo(task, stage) <=> Smartcard!GoesOn(task, next)
<1>1. task \in Smartcard!CardJobs
  BY CardCells DEF CardInv
<1>2. [task EXCEPT !.at = stage] \in Smartcard!CardJobs
  BY <1>1 DEF Smartcard!CardJobs
<1> QED
  BY <1>1, <1>2 DEF Smartcard!CardJobs, Smartcard!GoesTo

LEMMA GoesToStep ==
    ASSUME CardBounds, CardInv, NEW task \in cardJobs, NEW stage \in
           Smartcard!Stages, NEW k \in CardStates,
           Smartcard!GoesTo(task, stage), Smartcard!OnCard(task, k), k.keys =
               card[task.card].keys,
           UNCHANGED <<counting, page, picking, stored, superseded, mistried, shared>>,
           cardCount' = cardCount \/ Smartcard!Fault,
           stage \in Early => task.at \in Early,
           stage = "store" => Smartcard!Names(task.keys, k),
           stage \in Late =>
               \/ k.adminTries = Smartcard!Tries
               \/ task.at \in Late /\ k.adminTries = card[task.card].adminTries,
           stage \in {"validate", "store", "ok"} =>
               \/ k.pin = task.pin /\ k.tries = Smartcard!Tries
               \/ task.at \in {"validate", "store"} /\ k = card[task.card]
    PROVE  CardInv'
<1>1. PICK next \in Smartcard!CardJobs :
         /\ next.kind = task.kind /\ next.window = task.window
         /\ next.card = task.card /\ next.pin = task.pin /\ next.keys = task.keys
         /\ next.at = stage /\ Smartcard!GoesOn(task, next)
  BY StageReached
<1> QED
  BY <1>1, StageStep

\* The PIN is tried: the job goes to one stage, to another, or fails.
LEMMA PinStep ==
    ASSUME CardBounds, CardInv, NEW task \in cardJobs,
           NEW active \in Smartcard!CardJobs, NEW inactive \in Smartcard!CardJobs,
           Smartcard!RequestedPinIsActive(task, active, inactive),
           active.kind = task.kind, active.window = task.window, active.card = task.card,
           active.pin = task.pin,
           inactive.kind = task.kind, inactive.window = task.window, inactive.card =
               task.card,
           inactive.pin = task.pin,
           UNCHANGED <<counting, page, picking, stored, superseded, mistried, shared,
                       cardCount>>,
           active.at \in Early \cup {"validate"}, inactive.at \in Early \cup
               {"ensureSet", "failed"},
           active.at \in Early \/ inactive.at \in Early => task.at \in Early,
           active.at = "validate" \/ inactive.at = "ensureSet" => task.at \in Late
    PROVE  CardInv'
<1> DEFINE k == Smartcard!AfterPin(card[task.card], task.pin)
<1>1. card[task.card] \in CardStates /\ task.pin \in Smartcard!Pins
  BY CardCells DEF CardInv
<1>2. /\ k \in CardStates /\ k.keys = card[task.card].keys
      /\ k.adminTries = card[task.card].adminTries
      /\ Smartcard!Accepts(card[task.card], task.pin) =>
             k.tries = Smartcard!Tries /\ k.pin = task.pin
  BY <1>1, PinFacts
<1>3. Smartcard!OnCard(task, k)
  BY DEF Smartcard!RequestedPinIsActive
<1>4. \/ Smartcard!Accepts(card[task.card], task.pin) /\ Smartcard!GoesOn(task, active)
      \/ Smartcard!GoesOn(task, inactive)
      \/ Smartcard!GoesTo(task, "failed")
  BY DEF Smartcard!RequestedPinIsActive
<1>5. Late \cap Early = {} /\ {"failed"} \cap (Early \cup Late) = {} /\ "validate" \in Late
      /\ "store" \notin Early /\ "ok" \notin Early /\ "validate" \notin Early
      /\ "failed" \in Smartcard!Stages
  BY DEF Late, Early, Smartcard!Stages
<1> HIDE DEF k
<1>6. CASE Smartcard!Accepts(card[task.card], task.pin) /\ Smartcard!GoesOn(task, active)
  BY <1>2, <1>3, <1>5, <1>6, StageStep
<1>7. CASE Smartcard!GoesOn(task, inactive)
  BY <1>2, <1>3, <1>5, <1>7, StageStep
<1>8. CASE Smartcard!GoesTo(task, "failed")
  BY <1>2, <1>3, <1>5, <1>8, GoesToStep
<1> QED
  BY <1>4, <1>6, <1>7, <1>8

\* The admin PIN is entered, and the requested PIN set.
LEMMA SetPinStep ==
    ASSUME CardBounds, CardInv, NEW task \in cardJobs, NEW stage \in
           {"generate", "ensureAgain"},
           Smartcard!SetRequestedPin(task, stage), stage = "generate" => task.at \in Early,
           UNCHANGED <<counting, page, picking, stored, superseded, mistried, shared>>
    PROVE  CardInv'
<1> DEFINE k == Smartcard!AfterAdmin(card[task.card], task)
<1>1. /\ card[task.card] \in CardStates /\ task.pin \in Smartcard!Pins
      /\ "default" \in Smartcard!Pins
  BY CardCells DEF CardInv
<1>2. /\ k \in CardStates /\ k.keys = card[task.card].keys
      /\ Smartcard!AcceptsAdmin(card[task.card], task) => k.adminTries = Smartcard!Tries
  BY <1>1, AdminFacts
<1>3. {"failed", "generate", "ensureAgain"} \subseteq Smartcard!Stages
      /\ {"failed"} \cap (Early \cup Late) = {} /\ "ensureAgain" \notin Early
  BY DEF Late, Early, Smartcard!Stages
<1> HIDE DEF k
<1>4. /\ Smartcard!WithPin(k, task.pin) \in CardStates
      /\ Smartcard!WithPin(k, task.pin).keys = k.keys
      /\ Smartcard!WithPin(k, task.pin).adminTries = k.adminTries
      /\ Smartcard!AfterPin(k, "default") \in CardStates
      /\ Smartcard!AfterPin(k, "default").keys = k.keys
  BY <1>1, <1>2, PinFacts
<1>5. \/ /\ Smartcard!OnCard(task, k) /\ Smartcard!GoesTo(task, "failed")
         /\ UNCHANGED cardCount
      \/ /\ Smartcard!AcceptsAdmin(card[task.card], task)
         /\ Smartcard!OnCard(task, Smartcard!WithPin(k, task.pin))
         /\ Smartcard!GoesTo(task, stage)
         /\ cardCount' = cardCount \/ Smartcard!Fault
      \/ /\ Smartcard!OnCard(task, Smartcard!AfterPin(k, "default"))
         /\ Smartcard!GoesTo(task, "failed") /\ Smartcard!Fault
  BY DEF Smartcard!SetRequestedPin, k
<1>6. CASE /\ Smartcard!OnCard(task, k) /\ Smartcard!GoesTo(task, "failed")
           /\ UNCHANGED cardCount
  BY <1>2, <1>3, <1>6, GoesToStep
<1>7. CASE /\ Smartcard!AcceptsAdmin(card[task.card], task)
           /\ Smartcard!OnCard(task, Smartcard!WithPin(k, task.pin))
           /\ Smartcard!GoesTo(task, stage)
           /\ cardCount' = cardCount \/ Smartcard!Fault
  BY <1>2, <1>3, <1>4, <1>7, GoesToStep
<1>8. CASE /\ Smartcard!OnCard(task, Smartcard!AfterPin(k, "default"))
           /\ Smartcard!GoesTo(task, "failed") /\ Smartcard!Fault
  BY <1>2, <1>3, <1>4, <1>8, GoesToStep
<1> QED
  BY <1>5, <1>6, <1>7, <1>8

LEMMA TransactionsKeep ==
    ASSUME CardBounds, CardInv, NEW task \in cardJobs, Smartcard!Setup(task)
    PROVE  CardInv'
<1> DEFINE k == card[task.card]
<1>1. /\ Smartcard!TypeOK /\ CardJobInv(task) /\ task \in Smartcard!CardJobs
      /\ k \in CardStates /\ k.keys \in Smartcard!KeyPairs
      /\ task.card \in Cards /\ task.pin \in Smartcard!Pins /\ "default" \in Smartcard!Pins
      /\ card = [card EXCEPT ![task.card] = k]
  BY CardCells DEF CardInv, Smartcard!TypeOK
<1>2. UNCHANGED <<counting, page, picking, stored, mistried, shared>>
  BY DEF Smartcard!Setup
<1>3. /\ Smartcard!Stages = Early \cup Late \cup {"failed"}
      /\ Late \cap Early = {} /\ {"failed"} \cap (Early \cup Late) = {}
  BY DEF Smartcard!Stages, Early, Late
<1> HIDE DEF k
<1>tried. CASE Smartcard!TryPin(task)
  <2> DEFINE active == [task EXCEPT !.at = "admin", !.active = TRUE]
             inactive == [task EXCEPT !.at = "admin"]
  <2>1. /\ active \in Smartcard!CardJobs /\ active.kind = task.kind
        /\ active.window = task.window
        /\ active.card = task.card /\ active.pin = task.pin /\ active.at = "admin"
        /\ inactive \in Smartcard!CardJobs /\ inactive.kind = task.kind
        /\ inactive.window = task.window
        /\ inactive.card = task.card /\ inactive.pin = task.pin /\ inactive.at = "admin"
    BY <1>1 DEF Smartcard!CardJobs, Smartcard!Stages
  <2>2. Smartcard!RequestedPinIsActive(task, active, inactive) /\ task.at = "pin"
        /\ UNCHANGED <<superseded, cardCount>>
    BY <1>tried DEF Smartcard!TryPin
  <2> HIDE DEF active, inactive
  <2>3. "admin" \in Early /\ "pin" \in Early /\ "admin" \notin {"validate", "ensureSet"}
    BY DEF Early
  <2> QED
    BY <1>2, <2>1, <2>2, <2>3, PinStep
<1>b. CASE Smartcard!EnterAdminPin(task)
  <2>1. task.at \in Early /\ superseded' = superseded /\ "generate" \in Early
    BY <1>b DEF Smartcard!EnterAdminPin, Early
  <2>2. CASE task.active
    <3> DEFINE stage == IF Smartcard!AcceptsAdmin(k, task) THEN "generate" ELSE "failed"
    <3>1. /\ Smartcard!OnCard(task, Smartcard!AfterAdmin(k, task))
          /\ Smartcard!GoesTo(task, stage) /\ UNCHANGED cardCount
      BY <1>b, <2>2 DEF Smartcard!EnterAdminPin, k
    <3>2. /\ Smartcard!AfterAdmin(k, task) \in CardStates
          /\ Smartcard!AfterAdmin(k, task).keys = k.keys
      BY <1>1, AdminFacts
    <3>3. /\ stage \in Smartcard!Stages /\ stage \notin Late
          /\ stage \notin {"validate", "store", "ok"}
      BY <1>3, <2>1
    <3> HIDE DEF stage
    <3> QED
      BY <1>2, <2>1, <3>1, <3>2, <3>3, GoesToStep DEF k
  <2>3. CASE ~task.active
    <3>1. Smartcard!SetRequestedPin(task, "generate")
      BY <1>b, <2>3 DEF Smartcard!EnterAdminPin
    <3> QED
      BY <1>2, <2>1, <3>1, SetPinStep
  <2> QED
    BY <2>2, <2>3
<1>c. CASE Smartcard!GenerateKeys(task)
  <2> DEFINE tried == Smartcard!AfterAdmin(k, task)
             n == cardCount.keys + 1
  <2>1. /\ tried \in CardStates /\ tried.keys = k.keys
        /\ (Smartcard!AcceptsAdmin(k, task) => tried.adminTries = Smartcard!Tries)
    BY <1>1, AdminFacts
  <2>2. task.at = "generate" /\ task.at \in Early
    BY <1>c DEF Smartcard!GenerateKeys, Early
  <2>3. CASE ~Smartcard!AcceptsAdmin(k, task)
    <3>1. /\ Smartcard!OnCard(task, tried) /\ Smartcard!GoesTo(task, "failed")
          /\ UNCHANGED <<superseded, cardCount>>
      BY <1>c, <2>3 DEF Smartcard!GenerateKeys, k
    <3> QED
      BY <1>2, <1>3, <2>1, <3>1, GoesToStep DEF k
  <2>4. CASE Smartcard!AcceptsAdmin(k, task)
    <3>1. superseded' = superseded \cup Smartcard!KeysFor(task.card)
      BY <1>c, <2>4 DEF Smartcard!GenerateKeys, k
    <3>2. /\ Smartcard!KeysFor(task.card) \subseteq Smartcard!StoredKeys
          /\ superseded \subseteq Smartcard!StoredKeys
      BY <1>1, CardCells DEF Smartcard!KeysFor, Smartcard!StoredKeys, CardInv
    <3>3. n \in 0..Smartcard!MaxKeys /\ n \in Nat
      <4>1. IsFiniteSet(PendingJobs)
        BY FS_Subset DEF CardInv, CardCountInv, PendingJobs
      <4>2. task \in PendingJobs
        BY <2>2 DEF PendingJobs
      <4>3. Cardinality(PendingJobs) \in Nat /\ Cardinality(PendingJobs) # 0
        BY <4>1, <4>2, FS_CardinalityType, FS_EmptySet
      <4>4. /\ cardCount.keys \in Nat
            /\ cardCount.uses \in 0..MaxCardUses /\ cardCount.faults \in 0..MaxCardFaults
            /\ Smartcard!MaxKeys = MaxCardUses + MaxCardFaults + 1
        BY <1>1 DEF Smartcard!TypeOK, Smartcard!MaxKeys, CardBounds
      <4> QED
        BY <4>3, <4>4 DEF CardInv, CardCountInv, CardBounds
    <3>4. CASE /\ Smartcard!OnCard(task,
                                   [tried EXCEPT !.keys =
                                    [signing |-> n, decryption |-> n]])
               /\ Smartcard!GoesOn(task, [task EXCEPT !.at = "fingerprints", !.made = n])
               /\ cardCount' = [cardCount EXCEPT !.keys = n]
      <4> DEFINE made == [tried EXCEPT !.keys = [signing |-> n, decryption |-> n]]
                 next == [task EXCEPT !.at = "fingerprints", !.made = n]
      <4>1. made \in CardStates /\ made.adminTries = Smartcard!Tries
        BY <2>1, <2>4, <3>3 DEF CardStates, Smartcard!KeyPairs
      <4>2. /\ next \in Smartcard!CardJobs /\ next.kind = task.kind
            /\ next.window = task.window
            /\ next.card = task.card /\ next.at = "fingerprints"
        BY <1>1, <3>3 DEF Smartcard!CardJobs, Smartcard!Stages
      <4>3. /\ cardCount' \in [uses : 0..MaxCardUses, faults : 0..MaxCardFaults, keys : Nat]
            /\ cardCount'.uses = cardCount.uses /\ cardCount'.keys = cardCount.keys + 1
            /\ cardCount'.faults >= cardCount.faults
        BY <1>1, <3>3, <3>4 DEF Smartcard!TypeOK, CardBounds
      <4>4. card' = [card EXCEPT ![task.card] = made] /\ Smartcard!GoesOn(task, next)
        BY <3>4 DEF Smartcard!OnCard
      <4> HIDE DEF made, next, n, tried
      <4>5. "fingerprints" \notin Early /\ "fingerprints" \notin {"store", "validate", "ok"}
        BY DEF Early
      <4> QED
        BY <1>2, <2>2, <3>1, <3>2, <4>1, <4>2, <4>3, <4>4, <4>5, JobGoesOn
    <3>5. CASE /\ cardCount.faults < MaxCardFaults
               /\ Smartcard!OnCard(task, [tried EXCEPT !.keys.signing = n])
               /\ Smartcard!GoesTo(task, "failed")
               /\ cardCount' = [cardCount EXCEPT !.keys = n, !.faults = @ + 1]
      <4> DEFINE half == [tried EXCEPT !.keys.signing = n]
      <4>1. half \in CardStates
        BY <2>1, <3>3 DEF CardStates, Smartcard!KeyPairs
      <4>2. /\ cardCount' \in [uses : 0..MaxCardUses, faults : 0..MaxCardFaults, keys : Nat]
            /\ cardCount'.uses = cardCount.uses /\ cardCount'.keys = cardCount.keys + 1
            /\ cardCount'.faults >= cardCount.faults
        <5>1. /\ cardCount \in
                     [uses : 0..MaxCardUses, faults : 0..MaxCardFaults, keys :
                      0..Smartcard!MaxKeys]
              /\ cardCount.faults + 1 \in 0..MaxCardFaults
              /\ cardCount.faults + 1 >= cardCount.faults
          BY <1>1, <3>5 DEF Smartcard!TypeOK, CardBounds
        <5>2. cardCount' =
                  [uses |-> cardCount.uses, faults |-> cardCount.faults + 1, keys |-> n]
          BY <3>5, <5>1
        <5> QED
          BY <3>3, <5>1, <5>2
      <4>3. card' = [card EXCEPT ![task.card] = half] /\ Smartcard!GoesTo(task, "failed")
        BY <3>5 DEF Smartcard!OnCard
      <4> HIDE DEF half, n, tried
      <4>4. "failed" \in Smartcard!Stages
        BY DEF Smartcard!Stages
      <4>5. PICK next \in Smartcard!CardJobs :
               /\ next.kind = task.kind /\ next.window = task.window
               /\ next.card = task.card
               /\ next.at = "failed" /\ Smartcard!GoesOn(task, next)
        BY <4>3, <4>4, StageReached
      <4> QED
        BY <1>2, <1>3, <2>2, <3>1, <3>2, <4>1, <4>2, <4>3, <4>5, JobGoesOn
    <3> QED
      BY <1>c, <2>4, <3>4, <3>5 DEF Smartcard!GenerateKeys, k
  <2> QED
    BY <2>3, <2>4
<1>d. CASE Smartcard!ReadFingerprints(task)
  <2>1. /\ task.at = "fingerprints" /\ task.at \in Late /\ card' = card
        /\ Smartcard!OnCard(task, k) /\ UNCHANGED <<superseded, cardCount>>
    BY <1>1, <1>d DEF Smartcard!ReadFingerprints, Smartcard!OnCard, Late
  <2>2. CASE Smartcard!GoesOn(task, [task EXCEPT !.at = "certify", !.keys = k.keys])
    <3> DEFINE next == [task EXCEPT !.at = "certify", !.keys = k.keys]
    <3>1. /\ next \in Smartcard!CardJobs /\ next.kind = task.kind
          /\ next.window = task.window
          /\ next.card = task.card /\ next.pin = task.pin /\ next.at = "certify"
      BY <1>1 DEF Smartcard!CardJobs, Smartcard!Stages
    <3>2. "certify" \notin Early
      BY DEF Early
    <3>3. Smartcard!GoesOn(task, next)
      BY <2>2
    <3> HIDE DEF next
    <3> QED
      BY <1>1, <1>2, <2>1, <3>1, <3>2, <3>3, StageStep DEF k
  <2>3. CASE Smartcard!GoesTo(task, "failed")
    BY <1>1, <1>2, <1>3, <2>1, <2>3, GoesToStep DEF k
  <2> QED
    BY <1>d, <2>2, <2>3 DEF Smartcard!ReadFingerprints, k
<1>e. CASE Smartcard!Certify(task)
  <2>1. PICK pin \in Smartcard!Pins, stage \in {"ensure", "certifyDefault", "failed"} :
           /\ Smartcard!OnCard(task, Smartcard!AfterPin(k, pin))
           /\ Smartcard!GoesTo(task, stage)
    BY <1>1, <1>e DEF Smartcard!Certify, k
  <2>2. task.at \in Late /\ UNCHANGED <<superseded, cardCount>>
    BY <1>e DEF Smartcard!Certify, Late
  <2>3. /\ Smartcard!AfterPin(k, pin) \in CardStates
        /\ Smartcard!AfterPin(k, pin).keys = k.keys
        /\ Smartcard!AfterPin(k, pin).adminTries = k.adminTries
    BY <1>1, PinFacts
  <2>4. stage \in Smartcard!Stages /\ stage \notin Early
    BY DEF Smartcard!Stages, Early
  <2> QED
    BY <1>2, <2>1, <2>2, <2>3, <2>4, GoesToStep DEF k
<1>f. CASE Smartcard!EnsurePin(task)
  <2>1. task.at \in Late /\ superseded' = superseded
    BY <1>f DEF Smartcard!EnsurePin, Late
  <2>2. CASE task.at = "ensureSet" /\ Smartcard!SetRequestedPin(task, "ensureAgain")
    BY <1>2, <2>1, <2>2, SetPinStep
  <2>3. CASE task.at \in {"ensure", "ensureAgain"}
    <3> DEFINE active == [task EXCEPT !.at = "validate"]
               stage == IF task.at = "ensure" THEN "ensureSet" ELSE "failed"
               inactive == [task EXCEPT !.at = stage]
    <3>1. stage \in {"ensureSet", "failed"} /\ stage \in Smartcard!Stages
      BY DEF Smartcard!Stages
    <3>2. /\ Smartcard!RequestedPinIsActive(task, active, inactive) /\ UNCHANGED cardCount
      BY <1>f, <2>3 DEF Smartcard!EnsurePin
    <3> HIDE DEF stage
    <3>3. /\ active \in Smartcard!CardJobs /\ active.kind = task.kind
          /\ active.window = task.window
          /\ active.card = task.card /\ active.pin = task.pin /\ active.at = "validate"
          /\ inactive \in Smartcard!CardJobs /\ inactive.kind = task.kind
          /\ inactive.window = task.window
          /\ inactive.card = task.card /\ inactive.pin = task.pin /\ inactive.at = stage
      BY <1>1, <3>1 DEF Smartcard!CardJobs, Smartcard!Stages
    <3> HIDE DEF active, inactive
    <3>4. {"validate", "ensureSet", "failed"} \cap Early = {}
      BY DEF Early
    <3> QED
      BY <1>2, <2>1, <3>1, <3>2, <3>3, <3>4, PinStep
  <2> QED
    BY <1>f, <2>2, <2>3 DEF Smartcard!EnsurePin
<1>g. CASE Smartcard!ValidateHardwareKeyMaterial(task)
  <2>1. PICK stage \in {"store", "failed"} :
           /\ Smartcard!GoesTo(task, stage)
           /\ stage = "store" => Smartcard!Names(task.keys, k)
    BY <1>g DEF Smartcard!ValidateHardwareKeyMaterial, k
  <2>2. /\ task.at = "validate" /\ task.at \in Late
        /\ Smartcard!OnCard(task, k) /\ UNCHANGED <<superseded, cardCount>>
    BY <1>1, <1>g DEF Smartcard!ValidateHardwareKeyMaterial, Smartcard!OnCard, Late
  <2>3. stage \in Smartcard!Stages /\ stage \notin Early
    BY DEF Smartcard!Stages, Early
  <2> QED
    BY <1>1, <1>2, <2>1, <2>2, <2>3, GoesToStep DEF k
<1> QED
  BY <1>tried, <1>b, <1>c, <1>d, <1>e, <1>f, <1>g DEF Smartcard!Setup

LEMMA JobsEndKeep ==
    ASSUME CardBounds, CardInv, NEW task \in
           cardJobs, Smartcard!SetupFails(task) \/ Smartcard!StoreKey(task)
    PROVE  CardInv'
<1> DEFINE k == card[task.card]
<1>1. /\ Smartcard!TypeOK /\ CardJobInv(task) /\ task \in Smartcard!CardJobs
      /\ k \in CardStates
      /\ card = [card EXCEPT ![task.card] = k]
  BY CardCells DEF CardInv, Smartcard!TypeOK
<1>2. UNCHANGED <<counting, page, picking, mistried, shared, card, superseded>>
  BY DEF Smartcard!SetupFails, Smartcard!StoreKey
<1>3. /\ {"ok", "failed"} \subseteq Smartcard!Stages /\ "failed" \notin Early \cup Late
      /\ "ok" \notin Early /\ "store" \in Late
  BY DEF Smartcard!Stages, Early, Late
<1>4. Smartcard!OnCard(task, k)
  BY <1>1, <1>2 DEF Smartcard!OnCard
<1> HIDE DEF k
<1>5. CASE Smartcard!SetupFails(task)
  <2>1. /\ Smartcard!GoesTo(task, "failed") /\ stored' = stored
        /\ (cardCount' = cardCount \/ Smartcard!Fault)
    BY <1>5 DEF Smartcard!SetupFails
  <2> QED
    BY <1>1, <1>2, <1>3, <1>4, <2>1, GoesToStep DEF k
<1>6. CASE Smartcard!StoreKey(task)
  <2>1. /\ task.at = "store" /\ stored' = stored \cup {Entry(task)}
        /\ Smartcard!GoesTo(task, "ok") /\ cardCount' = cardCount
    BY <1>6 DEF Smartcard!StoreKey, Entry
  <2>2. PICK next \in Smartcard!CardJobs :
           /\ next.kind = task.kind /\ next.window = task.window
           /\ next.card = task.card /\ next.pin = task.pin
           /\ next.at = "ok" /\ Smartcard!GoesOn(task, next)
    BY <1>3, <2>1, StageReached
  <2>3. /\ cardCount' \in [uses : 0..MaxCardUses, faults : 0..MaxCardFaults, keys : Nat]
        /\ cardCount'.uses = cardCount.uses /\ cardCount'.keys = cardCount.keys
        /\ cardCount'.faults >= cardCount.faults
    BY <1>1, <2>1, FaultCounted
  <2>4. Entry(task) \notin superseded => Smartcard!Names(task.keys, k)
    BY <1>1, <2>1 DEF CardJobInv, k
  <2>5. task.card \notin shared /\ next.kind = "setup" =>
             k.adminTries = Smartcard!Tries /\ k.pin = next.pin /\ k.tries = Smartcard!Tries
    BY <1>1, <1>3, <2>1, <2>2 DEF CardJobInv, k
  <2>6. superseded \subseteq superseded' /\ superseded' \subseteq Smartcard!StoredKeys
    BY <1>1, <1>2 DEF Smartcard!TypeOK
  <2>7. card' = [card EXCEPT ![task.card] = k]
    BY <1>4 DEF Smartcard!OnCard
  <2> QED
    BY <1>1, <1>2, <1>3, <2>1, <2>2, <2>3, <2>4, <2>5, <2>6, <2>7, JobGoesOn DEF k
<1> QED
  BY <1>5, <1>6

\* A card that keeps its keys, and one that is left as it is unless it is shared.
LEMMA CardsMove ==
    ASSUME CardBounds, CardInv, Smartcard!TypeOK', UNCHANGED <<cardJobs, stored, mistried>>,
           superseded \subseteq superseded', shared \subseteq shared',
           \A w \in CardWindows : page'[w].inFlight = page[w].inFlight,
           cardCount'.keys - cardCount.keys <=
               (cardCount'.uses - cardCount.uses) + (cardCount'.faults - cardCount.faults),
           \A c \in Cards :
               /\ card'[c].keys = card[c].keys \/ Smartcard!KeysFor(c) \subseteq superseded'
               /\ \/ card'[c].pin = card[c].pin /\ card'[c].tries = card[c].tries
                     /\ card'[c].adminTries = card[c].adminTries
                  \/ c \in shared'
                  \/ ~ \E task \in cardJobs : task.card = c
    PROVE  CardInv'
<1>1. Smartcard!TypeOK
  BY DEF CardInv
<1>2. CardCountInv'
  <2>1. PendingJobs' = PendingJobs /\ CardCountInv
    BY DEF PendingJobs, CardInv
  <2>2. IsFiniteSet(PendingJobs)
    BY <2>1, FS_Subset DEF CardCountInv, PendingJobs
  <2>3. Cardinality(PendingJobs) \in Nat
    BY <2>2, FS_CardinalityType
  <2>4. /\ cardCount \in [uses : Nat, faults : Nat, keys : Nat]
        /\ cardCount' \in [uses : Nat, faults : Nat, keys : Nat]
    BY <1>1 DEF Smartcard!TypeOK, Smartcard!MaxKeys, CardBounds
  <2>5. cardCount'.keys + Cardinality(PendingJobs) <= 1 + cardCount'.uses + cardCount'.faults
    BY <2>1, <2>3, <2>4 DEF CardCountInv
  <2> QED
    BY <2>1, <2>5 DEF CardCountInv
<1>3. ASSUME NEW s, s.card \in Cards, Smartcard!Names(s.keys, card[s.card]),
             s \in Smartcard!KeysFor(s.card), s \notin superseded'
      PROVE  Smartcard!Names(s.keys, card'[s.card])
  BY <1>3 DEF Smartcard!Names
<1>4. Smartcard!StoredKeysAreOnTheirCard'
  <2>1. ASSUME NEW s \in stored, s \notin superseded'
        PROVE  Smartcard!Names(s.keys, card[s.card])'
    <3>1. /\ s.card \in Cards /\ Smartcard!Names(s.keys, card[s.card])
          /\ s \in Smartcard!KeysFor(s.card)
      BY <1>1, <2>1, CardCells
         DEF CardInv, Smartcard!StoredKeysAreOnTheirCard, Smartcard!KeysFor
    <3>2. Smartcard!Names(s.keys, card'[s.card])
      BY <1>3, <2>1, <3>1
    <3> QED
      BY <3>2 DEF Smartcard!Names
  <2> QED
    BY <2>1 DEF CardInv, Smartcard!StoredKeysAreOnTheirCard
<1>5. ASSUME NEW task \in cardJobs PROVE CardJobInv(task)'
  <2>1. CardJobInv(task) /\ task.card \in Cards
    BY <1>1, CardCells DEF CardInv
  <2>2. task.at = "store" /\ Entry(task) \notin superseded' =>
            Smartcard!Names(task.keys, card[task.card])'
    <3>1. SUFFICES ASSUME task.at = "store", Entry(task) \notin superseded'
                   PROVE  Smartcard!Names(task.keys, card[task.card])'
      OBVIOUS
    <3>2. Entry(task).card = task.card /\ Entry(task).keys = task.keys
      BY DEF Entry
    <3>3. /\ Entry(task) \in Smartcard!KeysFor(task.card)
          /\ Smartcard!Names(task.keys, card[task.card])
      BY <2>1, <3>1 DEF Smartcard!KeysFor, Entry, CardJobInv
    <3>4. Smartcard!Names(task.keys, card'[task.card])
      BY <1>3, <2>1, <3>1, <3>2, <3>3
    <3> QED
      BY <3>4 DEF Smartcard!Names
  <2>3. ASSUME task.card \notin shared'
        PROVE  /\ task.card \notin shared /\ card'[task.card].pin = card[task.card].pin
               /\ card'[task.card].tries = card[task.card].tries
               /\ card'[task.card].adminTries = card[task.card].adminTries
    BY <2>1, <2>3
  <2>4. Entry(task)' = Entry(task)
    BY DEF Entry
  <2> QED
    BY <2>1, <2>2, <2>3, <2>4 DEF CardJobInv
<1>6. ASSUME NEW w \in CardWindows PROVE RunningInv(w)'
  <2>1. JobsOf(w)' = JobsOf(w)
    BY DEF JobsOf
  <2> QED
    BY <2>1 DEF CardInv, RunningInv
<1> QED
  BY <1>2, <1>4, <1>5, <1>6 DEF CardInv

LEMMA PagesKeep ==
    ASSUME CardBounds, CardInv, NEW w \in CardWindows,
           Smartcard!SetupConnectedKey(w) \/ Smartcard!LeaveSetup(w) \/ Smartcard!ImportFromFile(w)
    PROVE  CardInv'
<1>1. /\ Smartcard!TypeOK
      /\ UNCHANGED <<card, counting, cardJobs, stored, superseded, mistried, shared>>
  BY DEF CardInv, Smartcard!SetupConnectedKey, Smartcard!LeaveSetup,
     Smartcard!ImportFromFile
<1>2. /\ page' \in
             [CardWindows -> [visible : BOOLEAN, token :
                              Cards \cup {Smartcard!NoCard}, inFlight : BOOLEAN]]
      /\ \A x \in CardWindows : page'[x].inFlight = page[x].inFlight
  <2>1. CASE page' = page
    BY <1>1, <2>1 DEF Smartcard!TypeOK
  <2>2. CASE \E c \in Cards : page' = [page EXCEPT ![w].visible = TRUE, ![w].token = c]
    <3>1. PICK c \in Cards : page' = [page EXCEPT ![w].visible = TRUE, ![w].token = c]
      BY <2>2
    <3>2. page \in [CardWindows -> [visible : BOOLEAN, token :
                                    Cards \cup {Smartcard!NoCard}, inFlight : BOOLEAN]]
      BY <1>1 DEF Smartcard!TypeOK
    <3>3. page[w] \in
              [visible : BOOLEAN, token : Cards \cup {Smartcard!NoCard}, inFlight : BOOLEAN]
      BY <3>2
    <3>4. /\ page'[w] = [[page[w] EXCEPT !.visible = TRUE] EXCEPT !.token = c]
          /\ DOMAIN page' = CardWindows
          /\ \A x \in CardWindows \ {w} : page'[x] = page[x]
          /\ page' = [x \in CardWindows |-> page'[x]]
      BY <3>1, <3>2
    <3>5. /\ page'[w] \in
                 [visible : BOOLEAN, token : Cards \cup {Smartcard!NoCard},
                  inFlight : BOOLEAN]
          /\ page'[w].inFlight = page[w].inFlight
      BY <3>3, <3>4
    <3> QED
      BY ZenonT(60), <3>2, <3>4, <3>5
  <2>3. CASE page' = [page EXCEPT ![w].visible = FALSE]
    BY <1>1, <2>3 DEF Smartcard!TypeOK
  <2> QED
    BY <2>1, <2>2, <2>3
       DEF Smartcard!SetupConnectedKey, Smartcard!LeaveSetup, Smartcard!ImportFromFile
<1>3. picking' \in [CardWindows -> Smartcard!Tokens]
  <2>1. CASE picking' = picking
    BY <1>1, <2>1 DEF Smartcard!TypeOK
  <2>2. CASE \E c \in Cards : picking' = [picking EXCEPT ![w] = Smartcard!Token(c)]
    <3>1. \A c \in Cards : Smartcard!Token(c) \in Smartcard!Tokens
      BY <1>1, CardCells DEF Smartcard!Token, Smartcard!Tokens
    <3> QED
      BY <1>1, <2>2, <3>1 DEF Smartcard!TypeOK
  <2> QED
    BY <2>1, <2>2
       DEF Smartcard!SetupConnectedKey, Smartcard!LeaveSetup, Smartcard!ImportFromFile
<1>4. /\ cardCount' \in
             [uses : 0..MaxCardUses, faults : 0..MaxCardFaults, keys : 0..Smartcard!MaxKeys]
      /\ cardCount'.keys - cardCount.keys <=
            (cardCount'.uses - cardCount.uses) + (cardCount'.faults - cardCount.faults)
  <2>1. cardCount' = cardCount \/ Smartcard!UseCounted
    BY DEF Smartcard!SetupConnectedKey, Smartcard!LeaveSetup, Smartcard!ImportFromFile
  <2> QED
    BY <1>1, <2>1 DEF Smartcard!TypeOK, Smartcard!UseCounted, Smartcard!MaxKeys, CardBounds
<1>5. Smartcard!TypeOK'
  BY <1>1, <1>2, <1>3, <1>4 DEF Smartcard!TypeOK
<1> QED
  BY <1>1, <1>2, <1>4, <1>5, CardsMove

\* A job is added, with a card that is shared if it had one.
LEMMA JobBegins ==
    ASSUME CardBounds, CardInv, NEW w \in CardWindows, NEW task \in
           Smartcard!CardJobs, task.window = w,
           cardJobs' = cardJobs \cup {task},
           shared' = IF \E other \in cardJobs :
               other.card = task.card THEN shared \cup {task.card}
                     ELSE shared,
           UNCHANGED <<card, counting, stored, superseded, mistried>>,
           picking' \in [CardWindows -> Smartcard!Tokens],
           \/ /\ task.kind = "import" /\ task.at = "validate" /\ page' = page
              /\ cardCount' = cardCount \/ Smartcard!UseCounted
           \/ /\ task.kind = "setup" /\ task.at =
               "pin" /\ ~page[w].inFlight /\ Smartcard!UseCounted
              /\ page' = [page EXCEPT ![w].inFlight = TRUE]
    PROVE  CardInv'
<1>1. Smartcard!TypeOK /\ CardCountInv /\ task.card \in Cards
  BY DEF CardInv, Smartcard!CardJobs
<1>2. /\ cardCount \in
             [uses : 0..MaxCardUses, faults : 0..MaxCardFaults, keys : 0..Smartcard!MaxKeys]
      /\ cardCount \in [uses : Nat, faults : Nat, keys : Nat]
  BY <1>1 DEF Smartcard!TypeOK, Smartcard!MaxKeys, CardBounds
<1>3. /\ cardCount' \in
             [uses : 0..MaxCardUses, faults : 0..MaxCardFaults, keys : 0..Smartcard!MaxKeys]
      /\ cardCount' \in [uses : Nat, faults : Nat, keys : Nat]
      /\ cardCount'.keys = cardCount.keys /\ cardCount'.faults = cardCount.faults
      /\ cardCount'.uses >= cardCount.uses
      /\ task.kind = "setup" => cardCount'.uses = cardCount.uses + 1
  <2>1. CASE cardCount' = cardCount /\ task.kind # "setup"
    BY <1>2, <2>1
  <2>2. CASE Smartcard!UseCounted
    <3>1. cardCount.uses + 1 \in 0..MaxCardUses /\ cardCount.uses + 1 >= cardCount.uses
      BY <1>2, <2>2 DEF Smartcard!UseCounted, CardBounds
    <3>2. cardCount' = [uses |-> cardCount.uses + 1, faults |-> cardCount.faults,
                        keys |-> cardCount.keys]
      BY <1>2, <2>2 DEF Smartcard!UseCounted
    <3> QED
      BY <1>2, <3>1, <3>2
  <2>3. (cardCount' = cardCount /\ task.kind # "setup") \/ Smartcard!UseCounted
    OBVIOUS
  <2> QED
    BY <2>1, <2>2, <2>3
<1>4. page' \in
          [CardWindows -> [visible : BOOLEAN, token :
                           Cards \cup {Smartcard!NoCard}, inFlight : BOOLEAN]]
  <2>1. page \in [CardWindows -> [visible : BOOLEAN, token :
                                  Cards \cup {Smartcard!NoCard}, inFlight : BOOLEAN]]
    BY <1>1 DEF Smartcard!TypeOK
  <2>2. page' = page \/ page' = [page EXCEPT ![w].inFlight = TRUE]
    OBVIOUS
  <2> DEFINE taken == [page[w] EXCEPT !.inFlight = TRUE]
  <2>3. taken \in
            [visible : BOOLEAN, token : Cards \cup {Smartcard!NoCard}, inFlight : BOOLEAN]
    <3>1. page[w] \in
              [visible : BOOLEAN, token : Cards \cup {Smartcard!NoCard}, inFlight : BOOLEAN]
      BY <2>1
    <3> QED
      BY ONLY <3>1
  <2>4. page' = page \/ page' = [page EXCEPT ![w] = taken]
    BY <2>2
  <2> HIDE DEF taken
  <2> QED
    BY <2>1, <2>3, <2>4
<1>5. Smartcard!TypeOK'
  BY <1>1, <1>3, <1>4 DEF Smartcard!TypeOK
<1>6. /\ "validate" \notin Early /\ "validate" # "store"
      /\ "pin" \notin Late \cup {"store", "validate", "ok"}
  BY DEF Early, Late
<1>7. CardCountInv'
  <2>1. IsFiniteSet(cardJobs') /\ IsFiniteSet(PendingJobs)
    BY <1>1, FS_AddElement, FS_Subset DEF CardCountInv, PendingJobs
  <2>2. PendingJobs' =
            PendingJobs \/ (PendingJobs' = PendingJobs \cup {task} /\ task.kind = "setup")
    BY <1>6 DEF PendingJobs
  <2>3. Cardinality(PendingJobs) \in Nat
    BY <2>1, FS_CardinalityType
  <2>4. /\ IsFiniteSet(PendingJobs \cup {task})
        /\ Cardinality(PendingJobs \cup {task}) =
               IF task \in PendingJobs THEN Cardinality(PendingJobs)
                                       ELSE Cardinality(PendingJobs) + 1
    BY <2>1, FS_AddElement
  <2>5. \/ Cardinality(PendingJobs') = Cardinality(PendingJobs)
        \/ Cardinality(PendingJobs') = Cardinality(PendingJobs) + 1 /\ task.kind = "setup"
    BY <2>2, <2>4
  <2>6. cardCount'.keys + Cardinality(PendingJobs') <= 1 + cardCount'.uses + cardCount'.faults
    BY <1>1, <1>2, <1>3, <2>3, <2>5 DEF CardCountInv
  <2> QED
    BY <2>1, <2>6 DEF CardCountInv
<1>8. Smartcard!StoredKeysAreOnTheirCard'
  BY DEF CardInv, Smartcard!StoredKeysAreOnTheirCard, Smartcard!Names
<1>9. ASSUME NEW j \in cardJobs' PROVE CardJobInv(j)'
  <2>1. CASE j \in cardJobs
    <3>1. CardJobInv(j)
      BY <2>1 DEF CardInv
    <3>2. /\ Entry(j)' = Entry(j)
          /\ (Smartcard!Names(j.keys, card[j.card])' <=>
              Smartcard!Names(j.keys, card[j.card]))
      BY DEF Entry, Smartcard!Names
    <3>3. j.card \notin shared' => j.card \notin shared /\ j.card # task.card
      BY <2>1
    <3> QED
      BY <3>1, <3>2, <3>3 DEF CardJobInv
  <2>2. CASE j = task /\ task \notin cardJobs
    <3>1. j.card \notin shared' => \A other \in cardJobs' : other.card = j.card => other = j
      BY <2>2
    <3>2. j.at # "store" /\ (j.kind = "setup" => j.at = "pin")
      BY <2>2
    <3> QED
      BY <1>6, <3>1, <3>2 DEF CardJobInv
  <2> QED
    BY <2>1, <2>2
<1>tried. ASSUME NEW x \in CardWindows PROVE RunningInv(x)'
  <2>1. RunningInv(x)
    BY DEF CardInv
  <2>2. CASE task.kind = "import"
    <3>1. JobsOf(x)' = JobsOf(x)
      BY <2>2 DEF JobsOf
    <3> QED
      BY <2>1, <2>2, <3>1 DEF RunningInv
  <2>3. CASE task.kind = "setup" /\ x = w
    <3>1. JobsOf(x) = {} /\ page'[x].inFlight
      BY <1>1, <2>1, <2>3 DEF RunningInv, Smartcard!TypeOK
    <3>2. JobsOf(x)' = {task}
      BY <2>3, <3>1 DEF JobsOf
    <3> QED
      BY <3>1, <3>2 DEF RunningInv
  <2>4. CASE task.kind = "setup" /\ x # w
    <3>1. JobsOf(x)' = JobsOf(x)
      BY <2>4 DEF JobsOf
    <3>2. page'[x] = page[x]
      BY <1>1, <2>4 DEF Smartcard!TypeOK
    <3> QED
      BY <2>1, <3>1, <3>2 DEF RunningInv
  <2> QED
    BY <2>2, <2>3, <2>4
<1> QED
  BY <1>5, <1>7, <1>8, <1>9, <1>tried DEF CardInv

LEMMA BeginningsKeep ==
    ASSUME CardBounds, CardInv, NEW w \in CardWindows,
           Smartcard!StartGeneration(w) \/ Smartcard!AddConnectedKey(w) \/ Smartcard!FileIsChosen(w)
    PROVE  CardInv'
<1>1. Smartcard!TypeOK /\ Smartcard!MaxKeys \in Nat /\ 0 \in 0..Smartcard!MaxKeys
      /\ UNCHANGED <<card, counting, stored, superseded, mistried>>
  BY DEF CardInv, Smartcard!StartGeneration, Smartcard!AddConnectedKey,
     Smartcard!FileIsChosen, Smartcard!MaxKeys, CardBounds
<1>2. ASSUME NEW kind \in {"setup", "import"}, NEW c \in Cards, NEW pin \in
                 Smartcard!Pins, NEW admin \in BOOLEAN,
             NEW keys \in Smartcard!KeyPairs, NEW stage \in {"pin", "validate"},
             Smartcard!BeginJob(w, kind, c, pin, admin, keys, stage)
      PROVE  \E task \in Smartcard!CardJobs :
                /\ task.window = w /\ task.kind = kind /\ task.card = c /\ task.at = stage
                /\ cardJobs' = cardJobs \cup {task}
                /\ shared' = IF \E other \in cardJobs : other.card = task.card
                             THEN shared \cup {task.card} ELSE shared
  <2> DEFINE task == [kind |-> kind, window |-> w, card |-> c, pin |-> pin, admin |-> admin,
                      active |-> FALSE, made |-> Smartcard!NoKey, keys |-> keys,
                      at |-> stage]
  <2>1. /\ task \in Smartcard!CardJobs /\ task.window = w /\ task.kind = kind
        /\ task.card = c /\ task.at = stage
    BY <1>1 DEF Smartcard!CardJobs, Smartcard!Stages, Smartcard!NoKey
  <2>2. /\ cardJobs' = cardJobs \cup {task}
        /\ shared' = IF \E other \in cardJobs :
               other.card = c THEN shared \cup {c} ELSE shared
    BY <1>2 DEF Smartcard!BeginJob
  <2> HIDE DEF task
  <2> QED
    BY <2>1, <2>2
<1>3. CASE Smartcard!StartGeneration(w)
  <2>1. /\ page[w].token \in Cards /\ ~page[w].inFlight /\ Smartcard!UseCounted
        /\ page' = [page EXCEPT ![w].inFlight = TRUE]
        /\ picking' \in [CardWindows -> Smartcard!Tokens]
    BY <1>1, <1>3 DEF Smartcard!StartGeneration, Smartcard!TypeOK
  <2>2. PICK pin \in Smartcard!Pins, admin \in BOOLEAN :
           Smartcard!BeginJob(w, "setup", page[w].token, pin, admin, Smartcard!NoKeys,
                              "pin")
    BY <1>3 DEF Smartcard!StartGeneration
  <2>3. Smartcard!NoKeys \in Smartcard!KeyPairs
    BY <1>1, CardCells
  <2>4. PICK task \in Smartcard!CardJobs :
                /\ task.window = w /\ task.kind = "setup" /\ task.at = "pin"
                /\ cardJobs' = cardJobs \cup {task}
                /\ shared' = IF \E other \in cardJobs : other.card = task.card
                             THEN shared \cup {task.card} ELSE shared
    BY <1>2, <2>1, <2>2, <2>3
  <2> QED
    BY <1>1, <2>1, <2>4, JobBegins
<1>4. ASSUME NEW c \in Cards, NEW keys \in
                 Smartcard!KeyPairs, Smartcard!BeginImport(w, c, keys), page' = page,
             cardCount' =
                 cardCount \/ Smartcard!UseCounted, picking' \in
                     [CardWindows -> Smartcard!Tokens]
      PROVE  CardInv'
  <2>1. PICK kind \in {"setup", "import"}, pin \in Smartcard!Pins, admin \in
            BOOLEAN, stage \in {"pin", "validate"} :
           kind = "import" /\ stage =
               "validate" /\ Smartcard!BeginJob(w, kind, c, pin, admin, keys, stage)
    BY <1>4 DEF Smartcard!BeginImport, Smartcard!Pins
  <2>2. PICK task \in Smartcard!CardJobs :
                /\ task.window = w /\ task.kind = "import" /\ task.at = "validate"
                /\ cardJobs' = cardJobs \cup {task}
                /\ shared' = IF \E other \in cardJobs : other.card = task.card
                             THEN shared \cup {task.card} ELSE shared
    BY <1>2, <1>4, <2>1
  <2> QED
    BY <1>1, <1>4, <2>2, JobBegins
<1>5. CASE Smartcard!AddConnectedKey(w)
  <2>1. /\ page' = page /\ Smartcard!UseCounted
        /\ picking' \in [CardWindows -> Smartcard!Tokens]
        /\ \E c \in Cards : Smartcard!BeginImport(w, c, card[c].keys)
    BY <1>1, <1>5 DEF Smartcard!AddConnectedKey, Smartcard!TypeOK
  <2> QED
    BY <1>1, <1>4, <2>1, CardCells
<1>6. CASE Smartcard!FileIsChosen(w)
  <2>1. /\ page' = page /\ cardCount' = cardCount
        /\ picking' = [picking EXCEPT ![w] = Smartcard!NoCard]
        /\ picking[w] # Smartcard!NoCard
        /\ Smartcard!BeginImport(w, picking[w].card,
                                 picking[w].keys) \/ UNCHANGED <<cardJobs, shared>>
    BY <1>6 DEF Smartcard!FileIsChosen
  <2>2. /\ picking' \in [CardWindows -> Smartcard!Tokens] /\ picking[w].card \in Cards
        /\ picking[w].keys \in Smartcard!KeyPairs
    <3>1. picking[w] \in [at : {"token"}, card : Cards, keys : Smartcard!KeyPairs]
      BY <1>1, <2>1 DEF Smartcard!TypeOK, Smartcard!Tokens
    <3>2. Smartcard!NoCard \in Smartcard!Tokens
      BY DEF Smartcard!Tokens
    <3> QED
      BY <1>1, <2>1, <3>1, <3>2 DEF Smartcard!TypeOK
  <2>3. CASE Smartcard!BeginImport(w, picking[w].card, picking[w].keys)
    BY <1>4, <2>1, <2>2, <2>3
  <2>4. CASE UNCHANGED <<cardJobs, shared>>
    <3>1. Smartcard!TypeOK'
      BY <1>1, <2>1, <2>2, <2>4 DEF Smartcard!TypeOK
    <3>2. cardCount'.keys - cardCount.keys <=
             (cardCount'.uses - cardCount.uses) + (cardCount'.faults - cardCount.faults)
      BY <1>1, <2>1 DEF Smartcard!TypeOK, CardBounds
    <3> QED
      BY <1>1, <2>1, <2>4, <3>1, <3>2, CardsMove
  <2> QED
    BY <2>1, <2>3, <2>4
<1> QED
  BY <1>3, <1>5, <1>6

\* A job whose end is seen goes, and with a setup the page is free again.
LEMMA FinishKeeps ==
    ASSUME CardBounds, CardInv, NEW task \in cardJobs, Smartcard!Finish(task) PROVE CardInv'
<1>1. /\ Smartcard!TypeOK /\ CardCountInv /\ task.window \in CardWindows
      /\ task \in Smartcard!CardJobs
      /\ cardJobs' = cardJobs \ {task}
      /\ UNCHANGED <<card, counting, picking, stored, superseded, mistried, shared,
                     cardCount>>
  BY CardCells DEF CardInv, Smartcard!Finish
<1>2. /\ page' \in
             [CardWindows -> [visible : BOOLEAN, token :
                              Cards \cup {Smartcard!NoCard}, inFlight : BOOLEAN]]
      /\ task.kind = "setup" => ~page'[task.window].inFlight
      /\ task.kind # "setup" => page' = page
      /\ \A w \in CardWindows \ {task.window} : page'[w] = page[w]
  <2> DEFINE remaining ==
      IF task.at =
          "ok" THEN [visible |-> FALSE, token |-> Smartcard!NoCard, inFlight |-> FALSE]
                          ELSE [page[task.window] EXCEPT !.inFlight = FALSE]
  <2>1. page \in [CardWindows -> [visible : BOOLEAN, token :
                                  Cards \cup {Smartcard!NoCard}, inFlight : BOOLEAN]]
    BY <1>1 DEF Smartcard!TypeOK
  <2>2. /\ remaining \in
               [visible : BOOLEAN, token : Cards \cup {Smartcard!NoCard}, inFlight :
                BOOLEAN]
        /\ ~remaining.inFlight
    BY <1>1, <2>1
  <2>3. /\ task.kind = "setup" => page' = [page EXCEPT ![task.window] = remaining]
        /\ task.kind # "setup" => page' = page
    <3>1. task.kind \in {"setup", "import"}
      BY <1>1 DEF Smartcard!CardJobs
    <3> QED
      BY <1>1, <2>1, <3>1 DEF Smartcard!Finish
  <2> HIDE DEF remaining
  <2> QED
    BY <1>1, <2>1, <2>2, <2>3
<1>3. Smartcard!TypeOK'
  BY <1>1, <1>2 DEF Smartcard!TypeOK
<1>4. CardCountInv'
  <2>1. IsFiniteSet(cardJobs') /\ IsFiniteSet(PendingJobs)
    BY <1>1, FS_RemoveElement, FS_Subset DEF CardCountInv, PendingJobs
  <2>2. PendingJobs' \subseteq PendingJobs
    BY <1>1 DEF PendingJobs
  <2>3. Cardinality(PendingJobs') <= Cardinality(PendingJobs)
        /\ Cardinality(PendingJobs) \in Nat /\ Cardinality(PendingJobs') \in Nat
    BY <2>1, <2>2, FS_Subset, FS_CardinalityType
  <2>4. cardCount \in [uses : Nat, faults : Nat, keys : Nat]
    BY <1>1 DEF Smartcard!TypeOK, Smartcard!MaxKeys, CardBounds
  <2> QED
    BY <1>1, <2>1, <2>3, <2>4 DEF CardCountInv
<1>5. Smartcard!StoredKeysAreOnTheirCard'
  BY <1>1 DEF CardInv, Smartcard!StoredKeysAreOnTheirCard, Smartcard!Names
<1>6. ASSUME NEW j \in cardJobs' PROVE CardJobInv(j)'
  BY <1>1 DEF CardInv, CardJobInv, Smartcard!Names, Entry
<1>7. ASSUME NEW w \in CardWindows PROVE RunningInv(w)'
  <2>1. RunningInv(w)
    BY DEF CardInv
  <2>2. CASE task.kind = "setup" /\ task.window = w
    <3>1. task \in JobsOf(w)
      BY <2>2 DEF JobsOf
    <3>2. JobsOf(w) = {task}
      BY <2>1, <3>1 DEF RunningInv
    <3>3. JobsOf(w)' = {}
      BY <1>1, <3>2 DEF JobsOf
    <3> QED
      BY <1>2, <2>2, <3>3 DEF RunningInv
  <2>3. CASE ~(task.kind = "setup" /\ task.window = w)
    <3>1. JobsOf(w)' = JobsOf(w)
      BY <1>1, <2>3 DEF JobsOf
    <3>2. page'[w].inFlight = page[w].inFlight
      BY <1>2, <2>3
    <3> QED
      BY <2>1, <3>1, <3>2 DEF RunningInv
  <2> QED
    BY <2>2, <2>3
<1> QED
  BY <1>3, <1>4, <1>5, <1>6, <1>7 DEF CardInv

LEMMA UsesKeep ==
    ASSUME CardBounds, CardInv, NEW s \in stored, Smartcard!UseCard(s) PROVE CardInv'
<1>1. /\ Smartcard!TypeOK /\ s.card \in Cards
      /\ UNCHANGED <<counting, page, picking, cardJobs, stored, superseded>>
      /\ Smartcard!UseCounted
      /\ shared' = shared \cup {task.card : task \in {j \in cardJobs : j.card = s.card}}
  BY CardCells DEF CardInv, Smartcard!UseCard
<1>2. mistried' = mistried
  BY DEF Smartcard!UseCard, Smartcard!TriesItsCard
<1>3. PICK pin \in Smartcard!Pins :
          card' = card \/ card' =
              [card EXCEPT ![s.card] = Smartcard!AfterPin(card[s.card], pin)]
  BY DEF Smartcard!UseCard, Smartcard!TriesItsCard, Smartcard!Tried, Smartcard!Pins
<1>4. /\ Smartcard!AfterPin(card[s.card], pin) \in CardStates
      /\ Smartcard!AfterPin(card[s.card], pin).keys = card[s.card].keys
  BY <1>1, CardCells, PinFacts
<1>5. /\ card' \in [Cards -> CardStates]
      /\ \A c \in Cards : card'[c].keys = card[c].keys /\ (c # s.card => card'[c] = card[c])
  BY <1>1, <1>3, <1>4 DEF Smartcard!TypeOK, CardStates
<1>6. shared' \subseteq Cards /\ shared \subseteq shared'
      /\ ((\E task \in cardJobs : task.card = s.card) => s.card \in shared')
  BY <1>1 DEF Smartcard!TypeOK
<1>7. /\ cardCount' \in
             [uses : 0..MaxCardUses, faults : 0..MaxCardFaults, keys : 0..Smartcard!MaxKeys]
      /\ cardCount'.keys - cardCount.keys <=
            (cardCount'.uses - cardCount.uses) + (cardCount'.faults - cardCount.faults)
  BY <1>1 DEF Smartcard!TypeOK, Smartcard!UseCounted, Smartcard!MaxKeys, CardBounds
<1>8. Smartcard!TypeOK'
  BY <1>1, <1>2, <1>5, <1>6, <1>7 DEF Smartcard!TypeOK, CardStates
<1>9. \A c \in Cards : \/ card'[c].pin = card[c].pin /\ card'[c].tries = card[c].tries
                          /\ card'[c].adminTries = card[c].adminTries
                       \/ c \in shared'
                       \/ ~ \E task \in cardJobs : task.card = c
  BY <1>5, <1>6
<1> QED
  BY <1>1, <1>2, <1>5, <1>6, <1>7, <1>8, <1>9, CardsMove

LEMMA ChangesKeep ==
    ASSUME CardBounds, CardInv, NEW c \in
           Cards, Smartcard!MoveCard(c) \/ Smartcard!SetUpElsewhere(c)
    PROVE  CardInv'
<1>1. Smartcard!TypeOK /\ UNCHANGED <<counting, page, picking, cardJobs, stored, mistried>>
      /\ card[c] \in CardStates /\ c \in Cards
  BY CardCells DEF CardInv, Smartcard!MoveCard, Smartcard!SetUpElsewhere
<1>2. CASE Smartcard!MoveCard(c)
  <2>1. UNCHANGED <<superseded, shared>> /\ Smartcard!Fault
        /\ card' = [card EXCEPT ![c].connected = ~@]
    BY <1>2 DEF Smartcard!MoveCard
  <2>2. (~card[c].connected) \in BOOLEAN
    OBVIOUS
  <2>3. /\ card' \in [Cards -> CardStates]
        /\ \A d \in Cards : /\ card'[d].keys = card[d].keys /\ card'[d].pin = card[d].pin
                            /\ card'[d].tries = card[d].tries
                            /\ card'[d].adminTries = card[d].adminTries
    <3> DEFINE moved == [card[c] EXCEPT !.connected = ~card[c].connected]
    <3>1. card' = [card EXCEPT ![c] = moved]
      BY <2>1
    <3>2. /\ moved \in CardStates /\ moved.keys = card[c].keys /\ moved.pin = card[c].pin
          /\ moved.tries = card[c].tries /\ moved.adminTries = card[c].adminTries
      BY <1>1, <2>2 DEF CardStates
    <3> HIDE DEF moved
    <3> QED
      BY <1>1, <3>1, <3>2 DEF Smartcard!TypeOK, CardStates
  <2>4. /\ cardCount' \in
               [uses : 0..MaxCardUses, faults : 0..MaxCardFaults, keys :
                0..Smartcard!MaxKeys]
        /\ cardCount'.keys - cardCount.keys <=
              (cardCount'.uses - cardCount.uses) + (cardCount'.faults - cardCount.faults)
    BY <1>1, <2>1 DEF Smartcard!TypeOK, Smartcard!Fault, Smartcard!MaxKeys, CardBounds
  <2>5. Smartcard!TypeOK'
    BY <1>1, <2>1, <2>3, <2>4 DEF Smartcard!TypeOK, CardStates
  <2> QED
    BY <1>1, <2>1, <2>3, <2>4, <2>5, CardsMove
<1>3. CASE Smartcard!SetUpElsewhere(c)
  <2> DEFINE n == cardCount.keys + 1
  <2>1. /\ cardCount.faults < MaxCardFaults
        /\ cardCount' = [cardCount EXCEPT !.faults = @ + 1, !.keys = n]
        /\ superseded' = superseded \cup Smartcard!KeysFor(c) /\ shared' = shared \cup {c}
    BY <1>3 DEF Smartcard!SetUpElsewhere
  <2>2. PICK certificate \in BOOLEAN, pin \in Smartcard!Pins :
           card' = [card EXCEPT ![c] = [Smartcard!WithPin(card[c], pin) EXCEPT
                        !.keys = [signing |-> n, decryption |-> n], !.certificate =
                            certificate]]
    BY <1>3 DEF Smartcard!SetUpElsewhere
  <2>3. /\ cardCount \in
               [uses : 0..MaxCardUses, faults : 0..MaxCardFaults, keys :
                0..Smartcard!MaxKeys]
        /\ cardCount \in [uses : Nat, faults : Nat, keys : Nat] /\ Smartcard!MaxKeys \in Nat
        /\ Smartcard!MaxKeys = MaxCardUses + MaxCardFaults + 1
    BY <1>1 DEF Smartcard!TypeOK, Smartcard!MaxKeys, CardBounds
  <2>4. n \in 0..Smartcard!MaxKeys
    <3>1. Cardinality(PendingJobs) \in Nat
      <4>1. IsFiniteSet(PendingJobs)
        BY FS_Subset DEF CardInv, CardCountInv, PendingJobs
      <4> QED
        BY <4>1, FS_CardinalityType
    <3> QED
      BY <2>1, <2>3, <3>1 DEF CardInv, CardCountInv, CardBounds
  <2>5. /\ cardCount' \in
               [uses : 0..MaxCardUses, faults : 0..MaxCardFaults, keys :
                0..Smartcard!MaxKeys]
        /\ cardCount'.keys - cardCount.keys <=
              (cardCount'.uses - cardCount.uses) + (cardCount'.faults - cardCount.faults)
    <3>1. /\ cardCount.faults + 1 \in 0..MaxCardFaults
          /\ (cardCount.keys + 1) - cardCount.keys
                <= (cardCount.uses - cardCount.uses) + ((cardCount.faults + 1) - cardCount.faults)
      BY <2>1, <2>3 DEF CardBounds
    <3>2. cardCount' =
              [uses |-> cardCount.uses, faults |-> cardCount.faults + 1, keys |-> n]
      BY <2>1, <2>3
    <3> QED
      BY <2>3, <2>4, <3>1, <3>2
  <2>6. /\ card' \in [Cards -> CardStates] /\ \A d \in Cards \ {c} : card'[d] = card[d]
    <3> DEFINE keys == [signing |-> n, decryption |-> n]
               made == [Smartcard!WithPin(card[c], pin) EXCEPT !.keys =
                        keys, !.certificate = certificate]
    <3>1. keys \in Smartcard!KeyPairs /\ Smartcard!WithPin(card[c], pin) \in CardStates
      BY <1>1, <2>4, PinFacts DEF Smartcard!KeyPairs
    <3> HIDE DEF keys
    <3>2. made \in CardStates
      BY <3>1 DEF CardStates
    <3>3. card' = [card EXCEPT ![c] = made]
      BY <2>2 DEF keys
    <3> HIDE DEF made
    <3> QED
      BY <1>1, <3>2, <3>3 DEF Smartcard!TypeOK, CardStates
  <2>7. superseded' \subseteq Smartcard!StoredKeys
    BY <1>1, <2>1, CardCells DEF Smartcard!KeysFor, Smartcard!StoredKeys
  <2>8. Smartcard!TypeOK'
    BY <1>1, <2>1, <2>5, <2>6, <2>7 DEF Smartcard!TypeOK, CardStates
  <2>9. \A d \in Cards :
            card'[d].keys = card[d].keys \/ Smartcard!KeysFor(d) \subseteq superseded'
    BY <2>1, <2>6
  <2> QED
    BY <1>1, <2>1, <2>5, <2>6, <2>8, <2>9, CardsMove
<1> QED
  BY <1>2, <1>3

LEMMA CardStep ==
    ASSUME CardBounds, CardInv, [Smartcard!Next]_(Smartcard!cardVars)
    PROVE  CardInv'
<1>1. CASE UNCHANGED Smartcard!cardVars
  <2>1. Smartcard!TypeOK' /\ Smartcard!TypeOK
    BY <1>1 DEF CardInv, Smartcard!TypeOK, Smartcard!cardVars
  <2>2. cardCount'.keys - cardCount.keys <=
            (cardCount'.uses - cardCount.uses) + (cardCount'.faults - cardCount.faults)
    BY <1>1, <2>1 DEF Smartcard!TypeOK, Smartcard!cardVars, Smartcard!MaxKeys, CardBounds
  <2> QED
    BY <1>1, <2>1, <2>2, CardsMove DEF Smartcard!cardVars
<1>2. ASSUME NEW task \in cardJobs,
             \/ Smartcard!Setup(task) \/ Smartcard!SetupFails(task)
             \/ Smartcard!StoreKey(task) \/ Smartcard!Finish(task)
      PROVE  CardInv'
  BY <1>2, TransactionsKeep, JobsEndKeep, FinishKeeps
<1>3. ASSUME NEW w \in CardWindows,
             \/ Smartcard!SetupConnectedKey(w) \/ Smartcard!LeaveSetup(w) \/ Smartcard!StartGeneration(w)
             \/ Smartcard!AddConnectedKey(w) \/ Smartcard!ImportFromFile(w) \/ Smartcard!FileIsChosen(w)
      PROVE  CardInv'
  BY <1>3, PagesKeep, BeginningsKeep
<1>4. ASSUME NEW s \in stored, Smartcard!UseCard(s) PROVE CardInv'
  BY <1>4, UsesKeep
<1>5. ASSUME NEW c \in Cards, Smartcard!MoveCard(c) \/ Smartcard!SetUpElsewhere(c)
      PROVE  CardInv'
  BY <1>5, ChangesKeep
<1> QED
  BY <1>1, <1>2, <1>3, <1>4, <1>5 DEF Smartcard!Next

LEMMA CardShows ==
    ASSUME CardInv
    PROVE  /\ Smartcard!StoredKeysAreOnTheirCard /\ Smartcard!AddedKeysHaveTheirPin
           /\ Smartcard!ABusySetupIsRunning
<1>1. Smartcard!AddedKeysHaveTheirPin
  BY DEF CardInv, CardJobInv, Smartcard!AddedKeysHaveTheirPin, Late
<1>2. ASSUME NEW w \in CardWindows
      PROVE  Cardinality(JobsOf(w)) = IF page[w].inFlight THEN 1 ELSE 0
  <2>1. CASE page[w].inFlight
    <3>1. PICK task : JobsOf(w) = {task}
      BY <2>1 DEF CardInv, RunningInv
    <3> QED
      BY <2>1, <3>1, FS_Singleton
  <2>2. CASE ~page[w].inFlight
    BY <2>2, FS_EmptySet DEF CardInv, RunningInv
  <2> QED
    BY <2>1, <2>2
<1>3. Smartcard!ABusySetupIsRunning
  <2>1. ASSUME NEW w \in CardWindows
        PROVE  Cardinality({task \in cardJobs : task.kind = "setup" /\ task.window = w})
                   = IF page[w].inFlight THEN 1 ELSE 0
    BY <1>2 DEF JobsOf
  <2> QED
    BY <2>1, Zenon DEF Smartcard!ABusySetupIsRunning, Cardinality, Smartcard!Cardinality
<1> QED
  BY <1>1, <1>3 DEF CardInv

-----------------------------------------------------------------------------
(* The session's keys *)

SessionBounds == IdleTicks \in Nat /\ MaxTicks \in Nat /\ MaxKeyJobs \in Nat

KeyTimes == Session!NotCached..MaxTicks
KeyEntries == [SessionKeyIds -> KeyTimes]

\* A prompt that asks for a passphrase tries a passphrase, and a PIN a card.
PromptsKeepTheirKind ==
    \A p \in Prompts : prompts[p].at \in Session!Kinds => prompts[p].kind = prompts[p].at

\* What is cached has the time of its last use: nothing else moved it.
CachesHaveTheLastUse ==
    \A kind \in Session!Kinds, key \in SessionKeyIds :
        cache[kind][key] \in {Session!NotCached, lastUse[kind][key]}

\* A key with a passphrase is unlocked, or was read and will be.
Remembered(key) ==
    \/ cache["password"][key] # Session!NotCached
    \/ \E p \in Prompts : /\ prompts[p].at = "unlocked" /\ prompts[p].kind = "password"
                          /\ prompts[p].key = key
    \/ \E task \in keyJobs : task.is = "import" /\ task.at # "store" /\ task.key = key

Forgetting(key) == [is |-> "remove", key |-> key, at |-> "forget"]

\* Whatever is remembered of a key that is gone is about to be forgotten.
RemovalsForget ==
    \A key \in SessionKeyIds \ (keyFile \cup raced) :
        Remembered(key) => Forgetting(key) \in keyJobs

SessionInv ==
    /\ Session!TypeOK
    /\ PromptsKeepTheirKind /\ CachesHaveTheLastUse /\ RemovalsForget
    /\ idleUse = {} /\ Session!PromptsAnswerOnce

LEMMA SessionStart == ASSUME SessionBounds, Session!Init PROVE SessionInv
<1>1. Session!NotCached \in KeyTimes
  BY DEF SessionBounds, KeyTimes, Session!NotCached
<1>2. Session!Locked \in [Session!Kinds -> KeyEntries] /\ \A kind \in Session!Kinds, key \in
          SessionKeyIds :
          Session!Locked[kind][key] = Session!NotCached
  BY <1>1 DEF Session!Locked, KeyEntries
<1>3. \A p \in Prompts : prompts[p] = Session!NoPrompt /\ prompts[p].at = "none"
  BY DEF Session!Init, Session!NoPrompt
<1>4. Session!TypeOK
  BY <1>2, <1>3
     DEF Session!Init, Session!TypeOK, SessionBounds, KeyEntries, KeyTimes,
         Session!PromptStates
<1>5. \A key \in SessionKeyIds : ~Remembered(key)
  BY <1>2, <1>3 DEF Session!Init, Remembered, Session!Kinds
<1> QED
  BY <1>2, <1>3, <1>4, <1>5
     DEF Session!Init, SessionInv, PromptsKeepTheirKind, CachesHaveTheLastUse,
         RemovalsForget,
         Session!PromptsAnswerOnce, Session!Kinds

(* The caches *)

LEMMA PrunedFacts ==
    ASSUME SessionBounds, Session!TypeOK, NEW kind \in Session!Kinds
    PROVE  /\ Session!Pruned(cache[kind]) \in KeyEntries
           /\ \A key \in SessionKeyIds :
                  Session!Pruned(cache[kind])[key] \in {Session!NotCached, cache[kind][key]}
           /\ \A key \in SessionKeyIds : Session!IsCached(kind, key) =>
                  cache[kind][key] # Session!NotCached /\ ~(clock - cache[kind][key] >= IdleTicks)
BY DEF Session!TypeOK, Session!Pruned, Session!IsCached, Session!IsExpired, KeyEntries,
   KeyTimes, Session!NotCached, SessionBounds

\* No more is cached than before, and nothing counts as a use.
OnlyDrops ==
    /\ cache' \in [Session!Kinds -> KeyEntries]
    /\ lastUse' \in [Session!Kinds -> KeyEntries]
    /\ \A kind \in Session!Kinds, key \in SessionKeyIds :
           /\ cache'[kind][key] \in {Session!NotCached, cache[kind][key]}
           /\ lastUse'[kind][key] = lastUse[kind][key]

\* No more is cached than before, except for one key that is used now.
OnlyAdds(aKind, aKey) ==
    /\ cache' \in [Session!Kinds -> KeyEntries]
    /\ lastUse' \in [Session!Kinds -> KeyEntries]
    /\ cache'[aKind][aKey] = clock /\ lastUse'[aKind][aKey] = clock
    /\ \A kind \in Session!Kinds, key \in SessionKeyIds : kind # aKind \/ key # aKey =>
           /\ cache'[kind][key] \in {Session!NotCached, cache[kind][key]}
           /\ lastUse'[kind][key] = lastUse[kind][key]

LEMMA PeekDrops ==
    ASSUME SessionBounds, Session!TypeOK, NEW kinds, Session!Peek(kinds)
    PROVE  OnlyDrops
<1>1. \A kind \in Session!Kinds : cache[kind] \in KeyEntries /\ lastUse[kind] \in KeyEntries
  BY DEF Session!TypeOK, KeyEntries, KeyTimes
<1> QED
  BY <1>1, PrunedFacts DEF Session!Peek, OnlyDrops, Session!TypeOK, KeyEntries, KeyTimes

LEMMA SameDrops == ASSUME Session!TypeOK, UNCHANGED <<cache, lastUse>> PROVE OnlyDrops
BY DEF OnlyDrops, Session!TypeOK, KeyEntries, KeyTimes

LEMMA RemoveDrops ==
    ASSUME SessionBounds, Session!TypeOK, NEW key \in
           SessionKeyIds, Session!RemoveCached(key)
    PROVE  OnlyDrops /\ cache'["password"][key] = Session!NotCached
<1>1. \A kind \in Session!Kinds :
          /\ cache'[kind] = [Session!Pruned(cache[kind]) EXCEPT ![key] = Session!NotCached]
          /\ Session!Pruned(cache[kind]) \in KeyEntries
  BY PrunedFacts DEF Session!RemoveCached
<1>2. \A kind \in Session!Kinds :
          /\ cache'[kind] \in KeyEntries /\ cache'[kind][key] = Session!NotCached
          /\ \A k \in SessionKeyIds : k # key =>
                 cache'[kind][k] = Session!Pruned(cache[kind])[k]
  <2>1. Session!NotCached \in KeyTimes
    BY DEF KeyTimes, Session!NotCached, SessionBounds
  <2>2. ASSUME NEW entries \in KeyEntries
        PROVE  /\ [entries EXCEPT ![key] = Session!NotCached] \in KeyEntries
               /\ [entries EXCEPT ![key] = Session!NotCached][key] = Session!NotCached
               /\ \A k \in SessionKeyIds : k # key =>
                      [entries EXCEPT ![key] = Session!NotCached][k] = entries[k]
    BY <2>1 DEF KeyEntries
  <2>3. ASSUME NEW kind \in Session!Kinds
        PROVE  /\ cache'[kind] \in KeyEntries /\ cache'[kind][key] = Session!NotCached
               /\ \A k \in SessionKeyIds : k # key =>
                      cache'[kind][k] = Session!Pruned(cache[kind])[k]
    <3> DEFINE entries == Session!Pruned(cache[kind])
    <3>1. /\ entries \in KeyEntries
          /\ cache'[kind] = [entries EXCEPT ![key] = Session!NotCached]
      BY <1>1
    <3> HIDE DEF entries
    <3>2. /\ cache'[kind] \in KeyEntries /\ cache'[kind][key] = Session!NotCached
          /\ \A k \in SessionKeyIds : k # key => cache'[kind][k] = entries[k]
      BY <2>2, <3>1
    <3> QED
      BY <3>2 DEF entries
  <2> QED
    BY <2>3
<1>3. cache' = [kind \in Session!Kinds |-> cache'[kind]]
  BY DEF Session!RemoveCached
<1> QED
  BY <1>2, <1>3, PrunedFacts
     DEF Session!RemoveCached, OnlyDrops, Session!TypeOK, KeyEntries, KeyTimes,
         Session!Kinds

LEMMA InsertAdds ==
    ASSUME SessionBounds, Session!TypeOK, NEW kind \in Session!Kinds, NEW key \in
           SessionKeyIds, Session!Insert(kind, key)
    PROVE  OnlyAdds(kind, key)
<1> DEFINE new == [Session!Pruned(cache[kind]) EXCEPT ![key] = clock]
           touched == [lastUse[kind] EXCEPT ![key] = clock]
<1>1. /\ clock \in KeyTimes /\ cache \in [Session!Kinds -> KeyEntries]
      /\ lastUse \in [Session!Kinds -> KeyEntries]
  BY DEF Session!TypeOK, KeyTimes, Session!NotCached, SessionBounds, KeyEntries
<1>2. /\ new \in KeyEntries /\ new[key] = clock
      /\ \A k \in SessionKeyIds : k # key => new[k] = Session!Pruned(cache[kind])[k]
  BY <1>1, PrunedFacts DEF KeyEntries
<1>3. /\ touched \in KeyEntries /\ touched[key] = clock
      /\ \A k \in SessionKeyIds : k # key => touched[k] = lastUse[kind][k]
  BY <1>1 DEF KeyEntries
<1>4. cache' = [cache EXCEPT ![kind] = new] /\ lastUse' = [lastUse EXCEPT ![kind] = touched]
  BY DEF Session!Insert
<1> HIDE DEF new, touched
<1>5. /\ cache'[kind] = new /\ lastUse'[kind] = touched
      /\ \A k \in Session!Kinds : k # kind =>
             cache'[k] = cache[k] /\ lastUse'[k] = lastUse[k]
      /\ cache' \in [Session!Kinds -> KeyEntries]
      /\ lastUse' \in [Session!Kinds -> KeyEntries]
  BY <1>1, <1>2, <1>3, <1>4
<1> QED
  BY <1>2, <1>3, <1>5, PrunedFacts DEF OnlyAdds

LEMMA LastUseKept ==
    ASSUME CachesHaveTheLastUse,
           OnlyDrops \/ \E kind \in Session!Kinds, key \in SessionKeyIds :
               OnlyAdds(kind, key)
    PROVE  CachesHaveTheLastUse'
BY DEF CachesHaveTheLastUse, OnlyDrops, OnlyAdds

\* A step that remembers no key that is gone, and ends no removal, keeps the
\* invariant on removals.
LEMMA ForgettingKept ==
    ASSUME RemovalsForget, keyFile \subseteq keyFile', raced \subseteq raced',
           \A key \in SessionKeyIds \ (keyFile' \cup raced') :
               /\ Remembered(key)' => Remembered(key)
               /\ Forgetting(key) \in keyJobs => Forgetting(key) \in keyJobs'
    PROVE  RemovalsForget'
BY DEF RemovalsForget, Forgetting

(* The prompts *)

PromptRecords == Session!PromptStates \ {Session!NoPrompt}
Stages == {"dialog", "closing", "idle", "resolve", "password", "card", "unlocked",
           "ok", "failed", "answered"}

LEMMA PromptFacts ==
    ASSUME Session!TypeOK, NEW p \in Prompts, prompts[p].at # "none"
    PROVE  /\ prompts[p] \in
                  [key : SessionKeyIds, kind : Session!Kinds, submitted : BOOLEAN, at :
                   Stages]
           /\ prompts[p].key \in SessionKeyIds /\ prompts[p].kind \in Session!Kinds
           /\ \A stage \in Stages :
                  /\ [prompts[p] EXCEPT !.at = stage] \in Session!PromptStates
                  /\ [prompts[p] EXCEPT !.at = stage].at = stage
                  /\ [prompts[p] EXCEPT !.at = stage].key = prompts[p].key
                  /\ [prompts[p] EXCEPT !.at = stage].kind = prompts[p].kind
<1> DEFINE Records ==
    [key : SessionKeyIds, kind : Session!Kinds, submitted : BOOLEAN, at : Stages]
<1>1. Session!PromptStates = {Session!NoPrompt} \cup Records
  BY DEF Session!PromptStates, Stages
<1>2. prompts[p] # Session!NoPrompt
  BY DEF Session!NoPrompt
<1>3. prompts[p] \in Records
  BY <1>1, <1>2 DEF Session!TypeOK
<1>4. ASSUME NEW stage \in Stages
      PROVE  /\ [prompts[p] EXCEPT !.at = stage] \in Records
             /\ [prompts[p] EXCEPT !.at = stage].at = stage
             /\ [prompts[p] EXCEPT !.at = stage].key = prompts[p].key
             /\ [prompts[p] EXCEPT !.at = stage].kind = prompts[p].kind
  BY <1>3
<1> QED
  BY <1>1, <1>3, <1>4

\* A prompt that goes on keeps its key and kind and is told apart from the rest.
LEMMA PromptGoesOn ==
    ASSUME Session!TypeOK, NEW p \in Prompts, prompts[p].at # "none",
           NEW stage \in Stages, Session!At(p, stage)
    PROVE  /\ prompts' \in [Prompts -> Session!PromptStates]
           /\ prompts'[p].at = stage
           /\ prompts'[p].key = prompts[p].key /\ prompts'[p].kind = prompts[p].kind
           /\ \A q \in Prompts : q # p => prompts'[q] = prompts[q]
<1> DEFINE new == [prompts[p] EXCEPT !.at = stage]
<1>1. prompts' = [prompts EXCEPT ![p] = new]
  BY DEF Session!At
<1>2. /\ new \in Session!PromptStates /\ new.at = stage /\ new.key = prompts[p].key
      /\ new.kind = prompts[p].kind
  BY PromptFacts
<1> HIDE DEF new
<1> QED
  BY <1>1, <1>2 DEF Session!TypeOK

\* Every step of a prompt, as far as the other invariants look at it.
LEMMA PromptSteps ==
    ASSUME SessionBounds, SessionInv, NEW p \in Prompts, Session!Prompt(p)
    PROVE  SessionInv'
<1> USE DEF SessionInv
<1>0. UNCHANGED <<keyFile, cardDir, cards, keyJobs, keyJobCount, clock, idleUse, raced>>
  BY DEF Session!Prompt
<1>1. CASE Session!PromptUnlock(p)
  <2>1. PICK key \in SessionKeyIds :
          prompts' = [prompts EXCEPT ![p] =
             [key |-> key, kind |-> Session!UnlockKind(key), submitted |-> FALSE,
              at |-> "dialog"]]
    BY <1>1 DEF Session!PromptUnlock
  <2> DEFINE new ==
      [key |-> key, kind |-> Session!UnlockKind(key), submitted |-> FALSE, at |-> "dialog"]
  <2>2. Session!UnlockKind(key) \in Session!Kinds
    BY DEF Session!UnlockKind, Session!Kinds
  <2>3. new \in Session!PromptStates /\ new.at = "dialog"
    BY <2>2 DEF Session!PromptStates
  <2> HIDE DEF new
  <2>4. /\ prompts' \in [Prompts -> Session!PromptStates] /\ prompts'[p].at = "dialog"
        /\ \A q \in Prompts : q # p => prompts'[q] = prompts[q]
    BY <2>1, <2>3 DEF Session!TypeOK, new
  <2>5. prompts[p].at = "none" /\ UNCHANGED <<answers, cache, lastUse>>
    BY <1>1 DEF Session!PromptUnlock, Session!NoPrompt
  <2>6. /\ Session!TypeOK' /\ PromptsKeepTheirKind' /\ Session!PromptsAnswerOnce'
        /\ CachesHaveTheLastUse'
    BY <1>0, <2>4, <2>5
       DEF Session!TypeOK, PromptsKeepTheirKind, Session!PromptsAnswerOnce,
           CachesHaveTheLastUse, Session!Kinds
  <2>7. RemovalsForget'
    BY <1>0, <2>4, <2>5, ForgettingKept DEF Remembered
  <2> QED
    BY <1>0, <2>6, <2>7
<1>2. CASE Session!SubmitDialog(p)
  <2> DEFINE new == [prompts[p] EXCEPT !.submitted = TRUE, !.at = "closing"]
  <2>1. prompts' = [prompts EXCEPT ![p] = new] /\ prompts[p].at = "dialog"
    BY <1>2 DEF Session!SubmitDialog
  <2>2. new \in Session!PromptStates /\ new.at = "closing"
    <3>1. prompts[p] \in
              [key : SessionKeyIds, kind : Session!Kinds, submitted : BOOLEAN, at : Stages]
      BY <2>1, PromptFacts
    <3>2. new \in [key : SessionKeyIds, kind : Session!Kinds, submitted : BOOLEAN, at :
                   Stages]
          /\ new.at = "closing"
      BY <3>1 DEF Stages
    <3> QED
      BY <3>2 DEF Session!PromptStates, Stages
  <2> HIDE DEF new
  <2>3. /\ prompts' \in [Prompts -> Session!PromptStates] /\ prompts'[p].at = "closing"
        /\ \A q \in Prompts : q # p => prompts'[q] = prompts[q]
    BY <2>1, <2>2 DEF Session!TypeOK
  <2>4. UNCHANGED <<answers, cache, lastUse>>
    BY <1>2 DEF Session!SubmitDialog
  <2>5. /\ Session!TypeOK' /\ PromptsKeepTheirKind' /\ Session!PromptsAnswerOnce'
        /\ CachesHaveTheLastUse'
    BY <1>0, <2>1, <2>3, <2>4
       DEF Session!TypeOK, PromptsKeepTheirKind, Session!PromptsAnswerOnce,
           CachesHaveTheLastUse, Session!Kinds
  <2>6. RemovalsForget'
    BY <1>0, <2>3, <2>4, ForgettingKept DEF Remembered
  <2> QED
    BY <1>0, <2>5, <2>6
<1>3. ASSUME NEW stage \in Stages, Session!At(p, stage), prompts[p].at # "none",
             stage \in Session!Kinds => prompts[p].kind = stage,
             UNCHANGED <<cache, lastUse>>,
             stage = "unlocked" /\ prompts[p].kind = "password" =>
                 prompts[p].key \in keyFile,
             \/ UNCHANGED answers /\ stage # "answered" /\ prompts[p].at # "answered"
             \/ Session!Answer(p) /\ stage = "answered" /\ prompts[p].at # "answered"
      PROVE  SessionInv'
  <2>1. /\ prompts' \in [Prompts -> Session!PromptStates] /\ prompts'[p].at = stage
        /\ prompts'[p].key = prompts[p].key /\ prompts'[p].kind = prompts[p].kind
        /\ \A q \in Prompts : q # p => prompts'[q] = prompts[q]
    BY <1>3, PromptGoesOn
  <2>2. /\ answers' \in [Prompts -> Nat]
        /\ answers'[p] = IF stage = "answered" THEN 1 ELSE 0
        /\ \A q \in Prompts : q # p => answers'[q] = answers[q]
    BY <1>3 DEF Session!Answer, Session!TypeOK, Session!PromptsAnswerOnce
  <2>3. Session!TypeOK' /\ CachesHaveTheLastUse'
    BY <1>0, <1>3, <2>1, <2>2 DEF Session!TypeOK, CachesHaveTheLastUse
  <2>4. PromptsKeepTheirKind' /\ Session!PromptsAnswerOnce'
    BY <1>3, <2>1, <2>2 DEF PromptsKeepTheirKind, Session!PromptsAnswerOnce
  <2>5. \A key \in SessionKeyIds \ (keyFile' \cup raced') : Remembered(key)' =>
            Remembered(key)
    BY <1>0, <1>3, <2>1 DEF Remembered
  <2>6. RemovalsForget'
    BY <1>0, <2>5, ForgettingKept
  <2> QED
    BY <1>0, <2>3, <2>4, <2>6
<1>4. CASE Session!CancelDialog(p)
  BY <1>3, <1>4 DEF Session!CancelDialog, Stages, Session!Kinds
<1>5. CASE Session!DialogClosed(p)
  BY <1>3, <1>5 DEF Session!DialogClosed, Stages, Session!Kinds
<1>6. CASE Session!StartUnlock(p)
  BY <1>3, <1>6 DEF Session!StartUnlock, Stages, Session!Kinds
<1>7. CASE Session!Resolve(p)
  <2> DEFINE kind == Session!ResolveUnlockable(prompts[p].key)
             stage == IF kind = prompts[p].kind THEN kind ELSE "failed"
  <2>1. /\ prompts[p].at = "resolve" /\ Session!At(p, stage)
        /\ UNCHANGED <<answers, cache, lastUse>>
    BY <1>7 DEF Session!Resolve
  <2>2. prompts[p].kind \in Session!Kinds
    BY <2>1, PromptFacts
  <2>3. stage \in Stages /\ stage \notin {"unlocked", "answered"}
        /\ (stage \in Session!Kinds => prompts[p].kind = stage)
    BY <2>2 DEF Session!Kinds, Stages
  <2> HIDE DEF stage
  <2> QED
    BY <1>3, <2>1, <2>3
<1>8. CASE Session!Verify(p)
  <2>1. prompts[p].at \in Session!Kinds /\ prompts[p].kind = prompts[p].at
    BY <1>8 DEF Session!Verify, PromptsKeepTheirKind
  <2> QED
    BY <1>3, <1>8, <2>1 DEF Session!Verify, Stages, Session!Kinds
<1>9. CASE Session!CacheUnlocked(p)
  <2>1. /\ prompts[p].at = "unlocked" /\ Session!At(p, "ok") /\ UNCHANGED answers
        /\ prompts[p].kind \in Session!Kinds /\ prompts[p].key \in SessionKeyIds
        /\ Session!Insert(prompts[p].kind, prompts[p].key)
    BY <1>9, PromptFacts DEF Session!CacheUnlocked
  <2>2. OnlyAdds(prompts[p].kind, prompts[p].key)
    BY <2>1, InsertAdds
  <2>3. /\ prompts' \in [Prompts -> Session!PromptStates] /\ prompts'[p].at = "ok"
        /\ \A q \in Prompts : q # p => prompts'[q] = prompts[q]
    BY <2>1, PromptGoesOn DEF Stages
  <2>4. Session!TypeOK'
    BY <1>0, <2>1, <2>2, <2>3 DEF Session!TypeOK, OnlyAdds, KeyEntries, KeyTimes
  <2>5. CachesHaveTheLastUse'
    BY <2>1, <2>2, LastUseKept
  <2>6. PromptsKeepTheirKind' /\ Session!PromptsAnswerOnce'
    BY <2>1, <2>3 DEF PromptsKeepTheirKind, Session!PromptsAnswerOnce, Session!Kinds
  <2>7. \A key \in SessionKeyIds : Remembered(key)' => Remembered(key)
    BY <1>0, <2>1, <2>2, <2>3 DEF Remembered, OnlyAdds, Session!Kinds
  <2>8. RemovalsForget'
    BY <1>0, <2>7, ForgettingKept
  <2> QED
    BY <1>0, <2>4, <2>5, <2>6, <2>8
<1>10. CASE Session!FinishUnlock(p)
  BY <1>3, <1>10 DEF Session!FinishUnlock, Stages, Session!Kinds
<1> QED
  BY <1>1, <1>2, <1>4, <1>5, <1>6, <1>7, <1>8, <1>9, <1>10 DEF Session!Prompt

(* Imports, removals and uses *)

\* What a step of a job leaves to the other invariants.
LEMMA JobLeaves ==
    ASSUME SessionInv, UNCHANGED <<cards, prompts, answers, keyJobCount, clock>>,
           keyFile' \subseteq SessionKeyIds, raced' \subseteq SessionKeyIds, idleUse' = {},
           cardDir' \in [SessionKeyIds -> {"none", "half", "whole"}],
           keyJobs' \subseteq Session!KeyJobs,
           OnlyDrops \/ \E kind \in Session!Kinds, key \in SessionKeyIds :
               OnlyAdds(kind, key),
           RemovalsForget'
    PROVE  SessionInv'
<1>1. cache' \in [Session!Kinds -> KeyEntries] /\ lastUse' \in [Session!Kinds -> KeyEntries]
  BY DEF OnlyDrops, OnlyAdds
<1> QED
  BY <1>1, LastUseKept
     DEF SessionInv, Session!TypeOK, KeyEntries, KeyTimes, PromptsKeepTheirKind,
         Session!PromptsAnswerOnce

Onward(task, stage) == [task EXCEPT !.at = stage]

LEMMA GoesOnward ==
    ASSUME NEW task, NEW stage, Session!JobGoesTo(task, stage)
    PROVE  keyJobs' = (keyJobs \ {task}) \cup {Onward(task, stage)}
BY DEF Session!JobGoesTo, Onward

LEMMA KeyJobFacts ==
    ASSUME Session!TypeOK, NEW task \in keyJobs
    PROVE  /\ task \in Session!KeyJobs /\ task.key \in SessionKeyIds
           /\ task.is = "remove" =>
                   /\ Onward(task, "forget") = Forgetting(task.key)
                   /\ Forgetting(task.key) \in Session!KeyJobs
           /\ task.is = "remove" /\ task.at = "forget" => task = Forgetting(task.key)
           /\ task.is = "import" => /\ Onward(task, "unlock") \in Session!KeyJobs
                                    /\ Onward(task, "cache") \in Session!KeyJobs
           /\ task.is = "importCard" => Onward(task, "public") \in Session!KeyJobs
           /\ task.is = "use" => Onward(task, "borrow") \in Session!KeyJobs
           /\ \A stage : /\ Onward(task, stage).is = task.is
                         /\ Onward(task, stage).key = task.key
                         /\ Onward(task, stage).at = stage
<1>1. task \in Session!KeyJobs
  BY DEF Session!TypeOK
<1>2. CASE task.is = "remove"
  <2>1. task \in [is : {"remove"}, key : SessionKeyIds, at : {"find", "forget"}]
    BY <1>1, <1>2 DEF Session!KeyJobs
  <2> QED
    BY <1>2, <2>1 DEF Session!KeyJobs, Forgetting, Onward
<1>3. CASE task.is = "import"
  <2>1. task \in [is : {"import"}, key : SessionKeyIds, at : {"store", "unlock", "cache"}]
    BY <1>1, <1>3 DEF Session!KeyJobs
  <2> QED
    BY <1>3, <2>1 DEF Session!KeyJobs, Onward
<1>4. CASE task.is = "importCard"
  <2>1. task \in [is : {"importCard"}, key : SessionKeyIds, at : {"manifest", "public"}]
    BY <1>1, <1>4 DEF Session!KeyJobs
  <2> QED
    BY <1>4, <2>1 DEF Session!KeyJobs, Onward
<1>5. CASE task.is = "use"
  <2>1. task \in [is : {"use"}, key : SessionKeyIds, at : {"ready", "borrow"}]
    BY <1>1, <1>5 DEF Session!KeyJobs
  <2> QED
    BY <1>5, <2>1 DEF Session!KeyJobs, Onward
<1> QED
  BY <1>1, <1>2, <1>3, <1>4, <1>5 DEF Session!KeyJobs

LEMMA ForgettingIs == \A key : Forgetting(key).is = "remove" /\ Forgetting(key).key = key
                               /\ Forgetting(key).at = "forget"
BY DEF Forgetting

LEMMA JobSteps ==
    ASSUME SessionBounds, SessionInv, NEW task \in keyJobs, Session!Job(task)
    PROVE  SessionInv'
<1>0. /\ UNCHANGED <<cards, prompts, answers, keyJobCount, clock>>
      /\ Session!TypeOK /\ idleUse = {} /\ RemovalsForget
      /\ keyJobs \subseteq Session!KeyJobs
      /\ keyFile \subseteq SessionKeyIds /\ raced \subseteq SessionKeyIds
      /\ cardDir \in [SessionKeyIds -> {"none", "half", "whole"}]
      /\ task.key \in SessionKeyIds
  BY KeyJobFacts DEF Session!Job, SessionInv, Session!TypeOK
<1>1. CASE Session!RemoveFile(task)
  <2>1. /\ task.is = "remove" /\ task.at = "find"
        /\ UNCHANGED <<cache, lastUse, idleUse, raced>>
    BY <1>1 DEF Session!RemoveFile
  <2>2. \/ /\ keyFile' \in {keyFile, keyFile \ {task.key}}
           /\ keyJobs' = (keyJobs \ {task}) \cup {Forgetting(task.key)}
        \/ keyFile' = keyFile /\ keyJobs' = keyJobs \ {task}
    BY <1>0, <1>1, <2>1, KeyJobFacts, GoesOnward DEF Session!RemoveFile, Session!EndJob
  <2>3. cardDir' \in [SessionKeyIds -> {"none", "half", "whole"}]
    BY <1>0, <1>1 DEF Session!RemoveFile
  <2>4. keyJobs' \subseteq Session!KeyJobs /\ keyFile' \subseteq SessionKeyIds
    BY <1>0, <2>1, <2>2, KeyJobFacts
  <2>5. \A key \in SessionKeyIds :
          /\ Remembered(key)' => Remembered(key)
          /\ Forgetting(key) \in keyJobs => Forgetting(key) \in keyJobs'
    BY <1>0, <2>1, <2>2, ForgettingIs DEF Remembered
  <2>6. RemovalsForget'
    BY <1>0, <2>1, <2>2, <2>5 DEF RemovalsForget
  <2> QED
    BY <1>0, <2>1, <2>3, <2>4, <2>6, SameDrops, JobLeaves
<1>2. CASE Session!ForgetRemoved(task)
  <2>1. /\ task.is = "remove" /\ task.at = "forget"
        /\ UNCHANGED <<keyFile, cardDir, idleUse>>
        /\ keyJobs' = keyJobs \ {task} /\ task = Forgetting(task.key)
        /\ raced' = IF Session!MayCache(task.key) THEN raced \cup {task.key} ELSE raced
    BY <1>0, <1>2, KeyJobFacts DEF Session!ForgetRemoved, Session!EndJob
  <2>2. OnlyDrops /\ cache'["password"][task.key] = Session!NotCached
    BY <1>0, <1>2, RemoveDrops DEF Session!ForgetRemoved
  <2>3. \A key \in SessionKeyIds : key # task.key =>
          /\ Remembered(key)' => Remembered(key)
          /\ Forgetting(key) \in keyJobs => Forgetting(key) \in keyJobs'
    BY <1>0, <2>1, <2>2, ForgettingIs DEF Remembered, OnlyDrops, Session!Kinds
  <2>4. \A p \in Prompts : prompts[p].at = "unlocked" => prompts[p] # Session!NoPrompt
    BY DEF Session!NoPrompt
  <2>5. task.key \notin raced' => ~Remembered(task.key)'
    BY <1>0, <2>1, <2>2, <2>4 DEF Remembered, Session!MayCache
  <2>6. RemovalsForget'
    BY <1>0, <2>1, <2>3, <2>5 DEF RemovalsForget
  <2>7. raced' \subseteq SessionKeyIds /\ keyJobs' \subseteq Session!KeyJobs
    BY <1>0, <2>1
  <2> QED
    BY <1>0, <2>1, <2>2, <2>6, <2>7, JobLeaves
<1>3. CASE Session!ImportKey(task)
  <2>1. task.is = "import" /\ UNCHANGED <<cardDir, idleUse, raced>>
    BY <1>3 DEF Session!ImportKey
  <2>2. \A key : Forgetting(key) # task
    BY <2>1, ForgettingIs
  <2>3. CASE task.at = "store" /\ keyFile' = keyFile \cup {task.key}
             /\ Session!JobGoesTo(task, "unlock") /\ UNCHANGED <<cache, lastUse>>
    <3>1. keyJobs' \subseteq Session!KeyJobs
      BY <1>0, <2>1, <2>3, KeyJobFacts, GoesOnward
    <3>2. \A key \in SessionKeyIds \ (keyFile' \cup raced') :
            /\ Remembered(key)' => Remembered(key)
            /\ Forgetting(key) \in keyJobs => Forgetting(key) \in keyJobs'
      BY <1>0, <2>1, <2>2, <2>3, KeyJobFacts, GoesOnward DEF Remembered
    <3>3. RemovalsForget'
      BY <1>0, <2>1, <2>3, <3>2, ForgettingKept
    <3> QED
      BY <1>0, <2>1, <2>3, <3>1, <3>3, SameDrops, JobLeaves
  <2>4. CASE /\ task.at = "unlock"
             /\ (Session!JobGoesTo(task, "cache") \/ Session!EndJob(task))
             /\ UNCHANGED <<keyFile, cache, lastUse>>
    <3>1. keyJobs' \subseteq Session!KeyJobs
      BY <1>0, <2>1, <2>4, KeyJobFacts, GoesOnward DEF Session!EndJob
    <3>2. \A key \in SessionKeyIds :
            /\ Remembered(key)' => Remembered(key)
            /\ Forgetting(key) \in keyJobs => Forgetting(key) \in keyJobs'
      BY <1>0, <2>1, <2>2, <2>4, KeyJobFacts, GoesOnward DEF Remembered, Session!EndJob
    <3>3. RemovalsForget'
      BY <1>0, <2>1, <2>4, <3>2, ForgettingKept
    <3> QED
      BY <1>0, <2>1, <2>4, <3>1, <3>3, SameDrops, JobLeaves
  <2>5. CASE /\ task.at = "cache" /\ Session!Insert("password", task.key)
             /\ Session!EndJob(task)
             /\ UNCHANGED keyFile
    <3>1. OnlyAdds("password", task.key)
      BY <1>0, <2>5, InsertAdds DEF Session!Kinds
    <3>2. \A key \in SessionKeyIds :
            /\ Remembered(key)' => Remembered(key)
            /\ Forgetting(key) \in keyJobs => Forgetting(key) \in keyJobs'
      BY <1>0, <2>1, <2>2, <2>5, <3>1
         DEF Remembered, OnlyAdds, Session!EndJob, Session!Kinds
    <3>3. RemovalsForget'
      BY <1>0, <2>1, <2>5, <3>2, ForgettingKept
    <3>4. keyJobs' \subseteq Session!KeyJobs
      BY <1>0, <2>5 DEF Session!EndJob
    <3> QED
      BY <1>0, <2>1, <2>5, <3>1, <3>3, <3>4, JobLeaves DEF Session!Kinds
  <2> QED
    BY <1>3, <2>3, <2>4, <2>5 DEF Session!ImportKey
<1>4. CASE Session!ImportCard(task)
  <2>1. task.is = "importCard" /\ UNCHANGED <<keyFile, cache, lastUse, idleUse, raced>>
    BY <1>4 DEF Session!ImportCard
  <2>2. Session!JobGoesTo(task, "public") \/ Session!EndJob(task)
    BY <1>4 DEF Session!ImportCard
  <2>3. cardDir' \in [SessionKeyIds -> {"none", "half", "whole"}]
    BY <1>0, <1>4 DEF Session!ImportCard
  <2>4. keyJobs' \subseteq Session!KeyJobs
    BY <1>0, <2>1, <2>2, KeyJobFacts, GoesOnward DEF Session!EndJob
  <2>5. \A key \in SessionKeyIds :
          /\ Remembered(key)' => Remembered(key)
          /\ Forgetting(key) \in keyJobs => Forgetting(key) \in keyJobs'
    BY <1>0, <2>1, <2>2, KeyJobFacts, GoesOnward, ForgettingIs
       DEF Remembered, Session!EndJob
  <2>6. RemovalsForget'
    BY <1>0, <2>1, <2>5, ForgettingKept
  <2> QED
    BY <1>0, <2>1, <2>3, <2>4, <2>6, SameDrops, JobLeaves
<1>5. CASE Session!EnsureReady(task)
  <2>1. /\ task.is = "use" /\ UNCHANGED <<keyFile, cardDir, idleUse, raced>>
        /\ Session!JobGoesTo(task, "borrow") \/ Session!EndJob(task)
        /\ \E kinds : Session!Peek(kinds)
    BY <1>5 DEF Session!EnsureReady
  <2>2. OnlyDrops
    BY <1>0, <2>1, PeekDrops
  <2>3. keyJobs' \subseteq Session!KeyJobs
    BY <1>0, <2>1, KeyJobFacts, GoesOnward DEF Session!EndJob
  <2>4. \A key \in SessionKeyIds :
          /\ Remembered(key)' => Remembered(key)
          /\ Forgetting(key) \in keyJobs => Forgetting(key) \in keyJobs'
    BY <1>0, <2>1, <2>2, KeyJobFacts, GoesOnward, ForgettingIs
       DEF Remembered, OnlyDrops, Session!EndJob, Session!Kinds
  <2>5. RemovalsForget'
    BY <1>0, <2>1, <2>4, ForgettingKept
  <2> QED
    BY <1>0, <2>1, <2>2, <2>3, <2>5, JobLeaves
<1>6. CASE Session!Borrow(task)
  <2>1. /\ task.is = "use" /\ UNCHANGED <<keyFile, cardDir, raced>>
        /\ keyJobs' = keyJobs \ {task}
    BY <1>6 DEF Session!Borrow, Session!EndJob
  <2>2. PICK kind \in Session!Kinds :
          IF Session!IsCached(kind, task.key)
          THEN /\ Session!Insert(kind, task.key)
               /\ idleUse' = IF clock - lastUse[kind][task.key] >= IdleTicks
                             THEN idleUse \cup {task.key} ELSE idleUse
          ELSE /\ Session!Peek({kind})
               /\ UNCHANGED idleUse
    BY <1>6 DEF Session!Borrow
  <2>3. \/ OnlyDrops
        \/ OnlyAdds(kind, task.key) /\ cache[kind][task.key] # Session!NotCached
    BY <1>0, <2>2, PeekDrops, InsertAdds, PrunedFacts
  <2>4. idleUse' = {}
    <3>1. CASE Session!IsCached(kind, task.key)
      <4>1. /\ cache[kind][task.key] # Session!NotCached
            /\ ~(clock - cache[kind][task.key] >= IdleTicks)
        BY <1>0, <3>1, PrunedFacts
      <4>2. lastUse[kind][task.key] = cache[kind][task.key]
        BY <1>0, <4>1 DEF SessionInv, CachesHaveTheLastUse
      <4> QED
        BY <1>0, <2>2, <3>1, <4>1, <4>2
    <3>2. CASE ~Session!IsCached(kind, task.key)
      BY <1>0, <2>2, <3>2
    <3> QED
      BY <3>1, <3>2
  <2>5. \A key \in SessionKeyIds :
          /\ Remembered(key)' => Remembered(key)
          /\ Forgetting(key) \in keyJobs => Forgetting(key) \in keyJobs'
    BY <1>0, <2>1, <2>3, ForgettingIs DEF Remembered, OnlyDrops, OnlyAdds, Session!Kinds
  <2>6. RemovalsForget'
    BY <1>0, <2>1, <2>5, ForgettingKept
  <2>7. keyJobs' \subseteq Session!KeyJobs
    BY <1>0, <2>1
  <2> QED
    BY <1>0, <2>1, <2>3, <2>4, <2>6, <2>7, JobLeaves
<1> QED
  BY <1>1, <1>2, <1>3, <1>4, <1>5, <1>6 DEF Session!Job

LEMMA JobsBegin == ASSUME SessionBounds, SessionInv, Session!BeginJob PROVE SessionInv'
<1>1. PICK key \in SessionKeyIds, start \in {<<"remove", "find">>, <<"import", "store">>,
                                     <<"importCard", "manifest">>, <<"use", "ready">>} :
          keyJobs' = keyJobs \cup {[is |-> start[1], key |-> key, at |-> start[2]]}
  BY DEF Session!BeginJob
<1> DEFINE new == [is |-> start[1], key |-> key, at |-> start[2]]
<1>2. new \in Session!KeyJobs /\ (new.is = "import" => new.at = "store")
  BY DEF Session!KeyJobs
<1> HIDE DEF new
<1>3. keyJobs' = keyJobs \cup {new}
  BY <1>1 DEF new
<1>4. keyJobCount' \in 0..MaxKeyJobs
  BY DEF Session!BeginJob, SessionInv, Session!TypeOK, SessionBounds
<1>5. UNCHANGED <<keyFile, cardDir, cards, cache, prompts, answers, clock, lastUse, idleUse,
                  raced>>
  BY DEF Session!BeginJob
<1>6. Session!TypeOK'
  BY <1>2, <1>3, <1>4, <1>5 DEF SessionInv, Session!TypeOK
<1>7. RemovalsForget'
  BY <1>2, <1>3, <1>5, ForgettingKept DEF SessionInv, Remembered
<1> QED
  BY <1>5, <1>6, <1>7
     DEF SessionInv, PromptsKeepTheirKind, CachesHaveTheLastUse, Session!PromptsAnswerOnce

LEMMA TimePasses ==
    ASSUME SessionBounds, SessionInv, Session!MoveCard \/ Session!Tick
    PROVE  SessionInv'
<1>1. clock' \in 0..MaxTicks /\ cards' \subseteq SessionKeyIds
  BY DEF Session!MoveCard, Session!Tick, SessionInv, Session!TypeOK, SessionBounds
<1>2. UNCHANGED <<keyFile, cardDir, cache, prompts, answers, keyJobs, keyJobCount, lastUse,
                  idleUse, raced>>
  BY DEF Session!MoveCard, Session!Tick
<1>3. Session!TypeOK'
  BY <1>1, <1>2 DEF SessionInv, Session!TypeOK
<1>4. RemovalsForget'
  BY <1>2 DEF SessionInv, RemovalsForget, Remembered
<1> QED
  BY <1>2, <1>3, <1>4
     DEF SessionInv, PromptsKeepTheirKind, CachesHaveTheLastUse, Session!PromptsAnswerOnce

LEMMA SessionStep ==
    ASSUME SessionBounds, SessionInv, [Session!Next]_(Session!sessionVars)
    PROVE  SessionInv'
<1>1. CASE UNCHANGED Session!sessionVars
  BY <1>1
     DEF Session!sessionVars, SessionInv, Session!TypeOK, PromptsKeepTheirKind,
         CachesHaveTheLastUse,
              RemovalsForget, Remembered, Session!PromptsAnswerOnce
<1> QED
  BY <1>1, PromptSteps, JobsBegin, JobSteps, TimePasses DEF Session!Next

LEMMA SessionShows ==
    ASSUME SessionInv
    PROVE  /\ Session!TypeOK
           /\ Session!UnlockedKeysAreStoredAndFresh
           /\ Session!PromptsAnswerOnce
BY DEF SessionInv, Session!UnlockedKeysAreStoredAndFresh, RemovalsForget, Remembered,
   Forgetting

-----------------------------------------------------------------------------
(* The atomic replacement of a file *)

\* A part of a content is none of the contents, and no file is neither.
FileBounds ==
    /\ Torn \notin Contents /\ Absent \notin Contents /\ Absent # Torn
    /\ MaxWrites \in Nat /\ MaxFaults \in Nat

\* The file beside the one that is written is as far as its writer has come.
TempOf(w) ==
    /\ jobs[w].at \in {"none", "ok", "create", "syncParent"} => temps[w] = Replace!NoFile
    /\ jobs[w].at \in {"write", "permit", "sync", "rename"} => temps[w] \in Replace!Files
    /\ jobs[w].at \in {"permit", "sync", "rename"} => temps[w].content = jobs[w].content
    /\ jobs[w].at = "rename" => temps[w].synced
    /\ jobs[w].mode = "private" => ~temps[w].open

WholeFiles == {f \in Replace!MaybeFiles : f.content # Torn /\ f.synced}

FileInv ==
    /\ Replace!TypeOK
    /\ target \in onDisk /\ onDisk \subseteq WholeFiles
    /\ \A w \in Writers : TempOf(w)

LEMMA FileFacts ==
    ASSUME FileBounds
    PROVE  /\ Replace!NoFile \in WholeFiles /\ Replace!NoFile.open = FALSE
           /\ Replace!NoFile.content = Absent
           /\ \A c \in Contents, readable \in BOOLEAN :
                  Replace!File(c, readable, TRUE) \in WholeFiles
           /\ \A f \in WholeFiles : Replace!OnDisk(f) = f
           /\ \A f \in Replace!MaybeFiles :
                  /\ f.open \in BOOLEAN /\ f.synced \in BOOLEAN
                  /\ Replace!OnDisk(f) \in Replace!MaybeFiles \cup Replace!Files
           /\ \A f \in Replace!Files : Replace!OnDisk(f) \in Replace!Files
           /\ \A f \in Replace!MaybeFiles : f # Replace!NoFile => f \in Replace!Files
           /\ Replace!NoFile \notin Replace!Files
<1>1. \A c, readable, synced : /\ Replace!File(c, readable, synced).content = c
                               /\ Replace!File(c, readable, synced).open = readable
                               /\ Replace!File(c, readable, synced).synced = synced
  BY DEF Replace!File
<1>2. \A c \in Contents \cup {Torn}, readable \in BOOLEAN, synced \in BOOLEAN :
          Replace!File(c, readable, synced) \in Replace!Files
  BY DEF Replace!File, Replace!Files
<1>3. /\ Replace!NoFile.content = Absent /\ Replace!NoFile.open = FALSE
      /\ Replace!NoFile.synced = TRUE
      /\ Replace!NoFile \in Replace!MaybeFiles
  <2>1. Replace!NoFile = [content |-> Absent, open |-> FALSE, synced |-> TRUE]
    BY DEF Replace!NoFile, Replace!File
  <2>2. Replace!NoFile \in Replace!MaybeFiles
    BY DEF Replace!MaybeFiles
  <2> QED
    BY <2>1, <2>2
<1>4. Replace!NoFile \in WholeFiles
  BY <1>3 DEF WholeFiles, FileBounds
<1>5. ASSUME NEW c \in Contents, NEW readable \in BOOLEAN
      PROVE  Replace!File(c, readable, TRUE) \in WholeFiles
  <2> DEFINE f == [content |-> c, open |-> readable, synced |-> TRUE]
  <2>1. f \in Replace!Files /\ f.content = c /\ f.synced = TRUE
    BY DEF Replace!Files
  <2>2. Replace!File(c, readable, TRUE) = f
    BY DEF Replace!File
  <2> HIDE DEF f
  <2>3. f \in Replace!MaybeFiles /\ f.content # Torn
    BY <2>1 DEF Replace!MaybeFiles, FileBounds
  <2>4. f \in WholeFiles
    BY <2>1, <2>3 DEF WholeFiles
  <2> QED
    BY <2>2, <2>4
<1>6. \A f \in WholeFiles : Replace!OnDisk(f) = f
  BY DEF WholeFiles, Replace!OnDisk
<1>7. \A f \in Replace!Files : f.open \in BOOLEAN /\ f.synced \in BOOLEAN
  BY DEF Replace!Files
<1>8. \A f \in Replace!MaybeFiles : f.open \in BOOLEAN /\ f.synced \in BOOLEAN
  BY <1>3, <1>7 DEF Replace!MaybeFiles
<1>9. \A f \in Replace!Files : Replace!OnDisk(f) \in Replace!Files
  BY <1>2, <1>7 DEF Replace!OnDisk
<1>10. Replace!OnDisk(Replace!NoFile) = Replace!NoFile
  BY <1>3 DEF Replace!OnDisk
<1>11. \A f \in Replace!MaybeFiles : f # Replace!NoFile => f \in Replace!Files
  BY DEF Replace!MaybeFiles
<1>12. \A f \in Replace!Files : f.content \in Contents \cup {Torn}
  BY DEF Replace!Files
<1>13. Replace!NoFile \notin Replace!Files
  BY <1>3, <1>12 DEF FileBounds
<1> QED
  BY <1>3, <1>4, <1>5, <1>6, <1>8, <1>9, <1>10, <1>11, <1>13 DEF Replace!MaybeFiles

LEMMA JobFacts ==
    /\ \A j \in Replace!Jobs : j.at \in Replace!Calls \cup {"none", "ok"}
    /\ \A j \in Replace!Jobs : j.at \in Replace!Calls <=> j \notin Replace!Idle
    /\ \A j \in Replace!Jobs : j.at \in Replace!Calls =>
           /\ j \in [at : Replace!Calls, content : Contents, mode : Replace!Modes]
           /\ j.content \in Contents /\ j.mode \in Replace!Modes
    /\ \A j \in Replace!Idle : j.at \in {"none", "ok"} /\ j.mode = "standard"
    /\ Replace!NoJob \in Replace!Jobs /\ Replace!Answered \in Replace!Jobs
    /\ Replace!NoJob \in Replace!Idle /\ Replace!Answered \in Replace!Idle
BY DEF Replace!Jobs, Replace!Calls, Replace!Idle, Replace!NoJob, Replace!Answered,
   Replace!Job, Replace!Modes

LEMMA FileStart == ASSUME FileBounds, Replace!Init PROVE FileInv
<1>1. target \in WholeFiles
  <2>1. target = Replace!NoFile \/ \E c \in Contents, readable \in BOOLEAN :
            target = Replace!File(c, readable, TRUE)
    BY DEF Replace!Init, Replace!File
  <2> QED
    BY <2>1, FileFacts
<1>2. count \in [writes : 0..MaxWrites, faults : 0..MaxFaults]
  BY DEF Replace!Init, FileBounds
<1>3. Replace!TypeOK
  BY <1>1, <1>2, FileFacts, JobFacts
     DEF Replace!Init, Replace!TypeOK, WholeFiles, Replace!MaybeFiles
<1>4. \A w \in Writers : TempOf(w)
  BY FileFacts, JobFacts DEF Replace!Init, TempOf, Replace!NoJob, Replace!Job
<1> QED
  BY <1>1, <1>3, <1>4 DEF Replace!Init, FileInv

\* What one writer's step does to its job and its file is all that has to be
\* looked at when it is not the step that replaces the file.
LEMMA OneWriter ==
    ASSUME FileBounds, FileInv, NEW w \in Writers, NEW j \in Replace!Jobs, NEW t \in
           Replace!MaybeFiles,
           jobs' = [jobs EXCEPT ![w] = j], temps' = [temps EXCEPT ![w] = t],
           TempOf(w)'
    PROVE  /\ jobs' \in [Writers -> Replace!Jobs]
           /\ temps' \in [Writers -> Replace!MaybeFiles]
           /\ jobs'[w] = j /\ temps'[w] = t
           /\ \A v \in Writers : TempOf(v)'
BY DEF FileInv, Replace!TypeOK, TempOf

LEMMA Faults ==
    ASSUME FileBounds, Replace!TypeOK, Replace!Fault
    PROVE  count' \in [writes : 0..MaxWrites, faults : 0..MaxFaults]
BY DEF FileBounds, Replace!TypeOK, Replace!Fault

LEMMA Begins ==
    ASSUME FileBounds, FileInv, NEW w \in Writers, NEW c \in Contents, NEW mode \in
           Replace!Modes,
           Replace!Begin(w, c, mode)
    PROVE  FileInv'
<1>1. /\ Replace!Job("create", c, mode) \in Replace!Jobs
      /\ Replace!Job("create", c, mode).at = "create"
  BY DEF Replace!Job, Replace!Jobs, Replace!Calls
<1>2. temps[w] = Replace!NoFile
  BY JobFacts DEF Replace!Begin, FileInv, TempOf
<1>3. temps' = [temps EXCEPT ![w] = Replace!NoFile] /\ Replace!NoFile \in Replace!MaybeFiles
  BY <1>2 DEF Replace!Begin, FileInv, Replace!TypeOK, Replace!MaybeFiles
<1>4. jobs' = [jobs EXCEPT ![w] = Replace!Job("create", c, mode)]
  BY DEF Replace!Begin
<1>5. jobs'[w] = Replace!Job("create", c, mode) /\ temps'[w] = Replace!NoFile
  BY <1>3, <1>4 DEF FileInv, Replace!TypeOK
<1>6. TempOf(w)'
  BY <1>1, <1>5, FileFacts DEF TempOf
<1>7. count' \in [writes : 0..MaxWrites, faults : 0..MaxFaults]
  BY DEF Replace!Begin, FileInv, Replace!TypeOK, FileBounds
<1> QED
  BY <1>1, <1>3, <1>4, <1>6, <1>7, OneWriter DEF Replace!Begin, FileInv, Replace!TypeOK

\* The four calls before the rename.
LEMMA Prepares ==
    ASSUME FileBounds, FileInv, NEW w \in Writers,
           Replace!CreateTemp(w) \/ Replace!WriteAll(w) \/ Replace!ApplyTargetPermissions(w) \/ Replace!SyncAll(w)
    PROVE  /\ FileInv' /\ jobs[w].at \in Replace!Calls \ {"syncParent"}
           /\ \E at \in Replace!Calls \ {"syncParent"} : jobs' = [jobs EXCEPT ![w].at = at]
<1> DEFINE Next1(at) == [jobs[w] EXCEPT !.at = at]
<1>1. jobs[w].at \in {"create", "write", "permit", "sync"}
  BY DEF Replace!CreateTemp, Replace!WriteAll, Replace!ApplyTargetPermissions,
     Replace!SyncAll, Replace!Proceed
<1>2. /\ jobs[w] \in [at : Replace!Calls, content : Contents, mode : Replace!Modes]
      /\ jobs[w].content \in Contents /\ jobs[w].mode \in Replace!Modes
      /\ temps[w] \in Replace!MaybeFiles /\ target \in Replace!MaybeFiles
  BY <1>1, JobFacts DEF FileInv, Replace!TypeOK, Replace!Calls
<1>3. \A at \in Replace!Calls : /\ Next1(at) \in Replace!Jobs /\ Next1(at).at = at
                                /\ Next1(at).content = jobs[w].content
                                /\ Next1(at).mode = jobs[w].mode
  BY <1>2 DEF Replace!Jobs
<1>4. \A at : jobs' = [jobs EXCEPT ![w].at = at] => jobs' = [jobs EXCEPT ![w] = Next1(at)]
  OBVIOUS
<1> HIDE DEF Next1
<1>5. CASE Replace!CreateTemp(w)
  <2>1. jobs' = [jobs EXCEPT ![w] = Next1("write")]
    BY <1>4, <1>5 DEF Replace!CreateTemp, Replace!Proceed
  <2> DEFINE t == Replace!File(Torn, jobs[w].mode = "standard", FALSE)
  <2>2. /\ t \in Replace!Files /\ t \in Replace!MaybeFiles
        /\ t.open = (jobs[w].mode = "standard")
    BY DEF Replace!File, Replace!Files, Replace!MaybeFiles
  <2>3. temps' = [temps EXCEPT ![w] = t]
    BY <1>5 DEF Replace!CreateTemp
  <2>4. jobs'[w] = Next1("write") /\ temps'[w] = t
    BY <2>1, <2>3 DEF FileInv, Replace!TypeOK
  <2>5. TempOf(w)'
    BY <1>3, <2>2, <2>4 DEF TempOf, Replace!Calls
  <2> HIDE DEF t
  <2>8. UNCHANGED <<target, onDisk, leftBehind, count>>
    BY <1>5 DEF Replace!CreateTemp
  <2>9. /\ jobs' \in [Writers -> Replace!Jobs] /\ temps' \in [Writers -> Replace!MaybeFiles]
        /\ \A v \in Writers : TempOf(v)'
    BY <1>1, <1>3, <1>5, <2>1, <2>2, <2>3, <2>5, OneWriter DEF Replace!Calls
  <2>10. FileInv'
    BY <2>8, <2>9 DEF FileInv, Replace!TypeOK
  <2>11. \E at \in Replace!Calls \ {"syncParent"} : jobs' = [jobs EXCEPT ![w].at = at]
    BY <1>5 DEF Replace!CreateTemp, Replace!Proceed, Replace!Calls
  <2> QED
    BY <1>1, <2>10, <2>11 DEF Replace!Calls
<1>6. CASE Replace!WriteAll(w)
  <2>1. jobs' = [jobs EXCEPT ![w] = Next1("permit")] /\ jobs[w].at = "write"
    BY <1>4, <1>6 DEF Replace!WriteAll, Replace!Proceed
  <2> DEFINE t == [temps[w] EXCEPT !.content = jobs[w].content]
  <2>2. /\ t \in Replace!Files /\ t \in Replace!MaybeFiles /\ t.open = temps[w].open
        /\ t.content = jobs[w].content
    BY <1>2, <2>1 DEF Replace!Files, Replace!MaybeFiles, FileInv, TempOf
  <2>3. temps' = [temps EXCEPT ![w] = t]
    BY <1>6 DEF Replace!WriteAll
  <2>4. jobs'[w] = Next1("permit") /\ temps'[w] = t
    BY <2>1, <2>3 DEF FileInv, Replace!TypeOK
  <2>5. TempOf(w)'
    BY <1>3, <2>2, <2>4 DEF TempOf, Replace!Calls, FileInv
  <2> HIDE DEF t
  <2>8. UNCHANGED <<target, onDisk, leftBehind, count>>
    BY <1>6 DEF Replace!WriteAll
  <2>9. /\ jobs' \in [Writers -> Replace!Jobs] /\ temps' \in [Writers -> Replace!MaybeFiles]
        /\ \A v \in Writers : TempOf(v)'
    BY <1>1, <1>3, <1>6, <2>1, <2>2, <2>3, <2>5, OneWriter DEF Replace!Calls
  <2>10. FileInv'
    BY <2>8, <2>9 DEF FileInv, Replace!TypeOK
  <2>11. \E at \in Replace!Calls \ {"syncParent"} : jobs' = [jobs EXCEPT ![w].at = at]
    BY <1>6 DEF Replace!WriteAll, Replace!Proceed, Replace!Calls
  <2> QED
    BY <1>1, <2>10, <2>11 DEF Replace!Calls
<1>7. CASE Replace!ApplyTargetPermissions(w)
  <2>1. jobs' = [jobs EXCEPT ![w] = Next1("sync")] /\ jobs[w].at = "permit"
    BY <1>4, <1>7 DEF Replace!ApplyTargetPermissions, Replace!Proceed
  <2> DEFINE readable == jobs[w].mode = "standard"
                           /\ IF target = Replace!NoFile THEN temps[w].open ELSE target.open
             t == [temps[w] EXCEPT !.open = readable]
  <2>2. temps[w] \in Replace!Files
    BY <1>2, <2>1, FileFacts DEF FileInv, TempOf
  <2>3. readable \in BOOLEAN /\ (jobs[w].mode = "private" => readable = FALSE)
    OBVIOUS
  <2>4. temps' = [temps EXCEPT ![w] = t]
    BY <1>7 DEF Replace!ApplyTargetPermissions
  <2> HIDE DEF readable
  <2>5. /\ t \in Replace!Files /\ t \in Replace!MaybeFiles /\ t.open = readable
        /\ t.content = temps[w].content
    BY <2>2, <2>3 DEF Replace!Files, Replace!MaybeFiles
  <2>6. jobs'[w] = Next1("sync") /\ temps'[w] = t
    BY <2>1, <2>4 DEF FileInv, Replace!TypeOK
  <2>7. TempOf(w)'
    BY <1>3, <2>1, <2>3, <2>5, <2>6 DEF TempOf, Replace!Calls, FileInv
  <2> HIDE DEF t
  <2>8. UNCHANGED <<target, onDisk, leftBehind, count>>
    BY <1>7 DEF Replace!ApplyTargetPermissions
  <2>9. /\ jobs' \in [Writers -> Replace!Jobs] /\ temps' \in [Writers -> Replace!MaybeFiles]
        /\ \A v \in Writers : TempOf(v)'
    BY <1>1, <1>3, <1>7, <2>1, <2>4, <2>5, <2>7, OneWriter DEF Replace!Calls
  <2>10. FileInv'
    BY <2>8, <2>9 DEF FileInv, Replace!TypeOK
  <2>11. \E at \in Replace!Calls \ {"syncParent"} : jobs' = [jobs EXCEPT ![w].at = at]
    BY <1>7 DEF Replace!ApplyTargetPermissions, Replace!Proceed, Replace!Calls
  <2> QED
    BY <1>1, <2>10, <2>11 DEF Replace!Calls
<1>8. CASE Replace!SyncAll(w)
  <2>1. jobs' = [jobs EXCEPT ![w] = Next1("rename")] /\ jobs[w].at = "sync"
    BY <1>4, <1>8 DEF Replace!SyncAll, Replace!Proceed
  <2> DEFINE t == [temps[w] EXCEPT !.synced = TRUE]
  <2>2. /\ t \in Replace!Files /\ t \in Replace!MaybeFiles /\ t.open = temps[w].open
        /\ t.content = temps[w].content /\ t.synced
    BY <2>1 DEF Replace!Files, Replace!MaybeFiles, FileInv, TempOf
  <2>3. temps' = [temps EXCEPT ![w] = t]
    BY <1>8 DEF Replace!SyncAll
  <2>4. jobs'[w] = Next1("rename") /\ temps'[w] = t
    BY <2>1, <2>3 DEF FileInv, Replace!TypeOK
  <2>5. TempOf(w)'
    BY <1>3, <2>1, <2>2, <2>4 DEF TempOf, Replace!Calls, FileInv
  <2> HIDE DEF t
  <2>8. UNCHANGED <<target, onDisk, leftBehind, count>>
    BY <1>8 DEF Replace!SyncAll
  <2>9. /\ jobs' \in [Writers -> Replace!Jobs] /\ temps' \in [Writers -> Replace!MaybeFiles]
        /\ \A v \in Writers : TempOf(v)'
    BY <1>1, <1>3, <1>8, <2>1, <2>2, <2>3, <2>5, OneWriter DEF Replace!Calls
  <2>10. FileInv'
    BY <2>8, <2>9 DEF FileInv, Replace!TypeOK
  <2>11. \E at \in Replace!Calls \ {"syncParent"} : jobs' = [jobs EXCEPT ![w].at = at]
    BY <1>8 DEF Replace!SyncAll, Replace!Proceed, Replace!Calls
  <2> QED
    BY <1>1, <2>10, <2>11 DEF Replace!Calls
<1> QED
  BY <1>5, <1>6, <1>7, <1>8

\* The rename puts the content of its writer in the file's place, at once.
LEMMA Replaces ==
    ASSUME FileBounds, FileInv, NEW w \in Writers, Replace!ReplaceFile(w)
    PROVE  FileInv' /\ target'.content = jobs[w].content
<1>1. /\ jobs[w].at = "rename" /\ jobs[w] \in Replace!Jobs
      /\ jobs[w] \in [at : Replace!Calls, content : Contents, mode : Replace!Modes]
  BY JobFacts
     DEF Replace!ReplaceFile, Replace!Proceed, FileInv, Replace!TypeOK, Replace!Calls
<1>2. temps[w] \in Replace!Files /\ temps[w].content \in Contents /\ temps[w].synced
      /\ temps[w].content = jobs[w].content
  BY <1>1 DEF FileInv, TempOf
<1>3. temps[w] \in WholeFiles
  BY <1>2 DEF WholeFiles, Replace!MaybeFiles, FileBounds
<1> DEFINE j == [jobs[w] EXCEPT !.at = "syncParent"]
<1>4. j \in Replace!Jobs /\ j.at = "syncParent" /\ j.mode = jobs[w].mode
  BY <1>1 DEF Replace!Jobs, Replace!Calls
<1>5. jobs' = [jobs EXCEPT ![w] = j] /\ temps' = [temps EXCEPT ![w] = Replace!NoFile]
  BY DEF Replace!ReplaceFile, Replace!Proceed
<1>6. jobs'[w] = j /\ temps'[w] = Replace!NoFile
  BY <1>5 DEF FileInv, Replace!TypeOK
<1> HIDE DEF j
<1>7. TempOf(w)'
  BY <1>4, <1>6, FileFacts DEF TempOf
<1>8. Replace!NoFile \in Replace!MaybeFiles
  BY DEF Replace!MaybeFiles
<1>9. /\ target' = temps[w] /\ onDisk' = onDisk \cup {target'}
      /\ UNCHANGED <<leftBehind, count>>
  BY DEF Replace!ReplaceFile
<1>10. target' \in onDisk' /\ onDisk' \subseteq WholeFiles /\ target' \in Replace!MaybeFiles
  BY <1>3, <1>9 DEF FileInv, WholeFiles
<1>11. onDisk' \in SUBSET Replace!MaybeFiles
  BY <1>10 DEF WholeFiles
<1> QED
  BY <1>2, <1>4, <1>5, <1>7, <1>8, <1>9, <1>10, <1>11, OneWriter DEF FileInv, Replace!TypeOK

LEMMA Answers ==
    ASSUME FileBounds, FileInv, NEW w \in Writers, Replace!SyncParentDir(w)
    PROVE  FileInv'
<1>1. /\ jobs[w].at = "syncParent" /\ temps[w] = Replace!NoFile
      /\ Replace!NoFile \in Replace!MaybeFiles
  BY DEF Replace!SyncParentDir, FileInv, TempOf, Replace!MaybeFiles
<1>2. /\ jobs' = [jobs EXCEPT ![w] = Replace!Answered]
      /\ temps' = [temps EXCEPT ![w] = Replace!NoFile]
  BY <1>1 DEF Replace!SyncParentDir, FileInv, Replace!TypeOK
<1>3. jobs'[w] = Replace!Answered /\ temps'[w] = Replace!NoFile
  BY <1>2 DEF FileInv, Replace!TypeOK
<1>4. TempOf(w)'
  BY <1>3, FileFacts, JobFacts DEF TempOf
<1>5. target' \in onDisk' /\ onDisk' \subseteq WholeFiles
  BY DEF Replace!SyncParentDir, FileInv
<1> QED
  BY <1>1, <1>2, <1>4, <1>5, JobFacts, OneWriter
     DEF Replace!SyncParentDir, FileInv, Replace!TypeOK, WholeFiles

LEMMA Failures ==
    ASSUME FileBounds, FileInv, NEW w \in Writers, Replace!Fails(w)
    PROVE  FileInv'
<1>1. /\ jobs' = [jobs EXCEPT ![w] = Replace!NoJob]
      /\ temps' = [temps EXCEPT ![w] = Replace!NoFile]
      /\ Replace!NoFile \in Replace!MaybeFiles /\ temps[w] \in Replace!MaybeFiles
  BY DEF Replace!Fails, FileInv, Replace!TypeOK, Replace!MaybeFiles
<1>2. jobs'[w] = Replace!NoJob /\ temps'[w] = Replace!NoFile
  BY <1>1 DEF FileInv, Replace!TypeOK
<1>3. TempOf(w)'
  BY <1>2, FileFacts, JobFacts DEF TempOf
<1>4. leftBehind' \in SUBSET Replace!Files
  BY <1>1, FileFacts DEF Replace!Fails, FileInv, Replace!TypeOK
<1>5. count' \in [writes : 0..MaxWrites, faults : 0..MaxFaults]
  BY Faults DEF Replace!Fails, FileInv
<1> QED
  BY <1>1, <1>3, <1>4, <1>5, JobFacts, OneWriter DEF Replace!Fails, FileInv, Replace!TypeOK

LEMMA Stops ==
    ASSUME FileBounds, FileInv, Replace!ProcessDies \/ Replace!PowerIsLost
    PROVE  FileInv'
<1>1. /\ jobs' = [v \in Writers |-> Replace!NoJob]
      /\ temps' = [v \in Writers |-> Replace!NoFile]
      /\ count' \in [writes : 0..MaxWrites, faults : 0..MaxFaults]
  BY Faults DEF Replace!ProcessDies, Replace!PowerIsLost, Replace!Dies, FileInv
<1>2. \A v \in Writers : TempOf(v)'
  BY <1>1, FileFacts, JobFacts DEF TempOf
<1>3. Replace!AllLeft \subseteq Replace!Files
  BY FileFacts DEF Replace!AllLeft, FileInv, Replace!TypeOK
<1>4. leftBehind' \in SUBSET Replace!Files
  BY <1>3, FileFacts DEF Replace!ProcessDies, Replace!PowerIsLost
<1>5. target' \in onDisk' /\ onDisk' \subseteq WholeFiles
  <2>1. CASE Replace!ProcessDies
    BY <2>1 DEF Replace!ProcessDies, FileInv
  <2>2. CASE Replace!PowerIsLost
    <3>1. target' \in WholeFiles
      BY <2>2, FileFacts DEF Replace!PowerIsLost, FileInv
    <3> QED
      BY <2>2, <3>1 DEF Replace!PowerIsLost
  <2> QED
    BY <2>1, <2>2
<1>6. jobs' \in [Writers -> Replace!Jobs] /\ temps' \in [Writers -> Replace!MaybeFiles]
  BY <1>1, JobFacts DEF Replace!MaybeFiles
<1> QED
  BY <1>1, <1>2, <1>4, <1>5, <1>6 DEF FileInv, Replace!TypeOK, WholeFiles

LEMMA FileStep ==
    ASSUME FileBounds, FileInv, [Replace!Next]_(Replace!fileVars)
    PROVE  FileInv'
<1>1. CASE UNCHANGED Replace!fileVars
  BY <1>1 DEF Replace!fileVars, FileInv, Replace!TypeOK, TempOf
<1>2. CASE \E w \in Writers : \E c \in Contents, mode \in Replace!Modes :
               Replace!Begin(w, c, mode)
  BY <1>2, Begins
<1>3. CASE \E w \in Writers : Replace!CreateTemp(w) \/ Replace!WriteAll(w)
                              \/ Replace!ApplyTargetPermissions(w) \/ Replace!SyncAll(w)
  BY <1>3, Prepares
<1>4. CASE \E w \in Writers :
               Replace!ReplaceFile(w) \/ Replace!SyncParentDir(w) \/ Replace!Fails(w)
  BY <1>4, Replaces, Answers, Failures
<1>5. CASE Replace!ProcessDies \/ Replace!PowerIsLost
  BY <1>5, Stops
<1> QED
  BY <1>1, <1>2, <1>3, <1>4, <1>5 DEF Replace!Next

LEMMA FileShows == ASSUME FileInv PROVE Replace!TypeOK /\ Replace!FileIsWhole
BY DEF FileInv, Replace!FileIsWhole, TempOf, WholeFiles

(* The register it implements *)

LEMMA OneCall ==
    ASSUME FileInv, NEW w \in Writers, NEW j, jobs' = [jobs EXCEPT ![w] = j]
    PROVE  [v \in Writers |-> Replace!CallOf(jobs[v])]'
             = [[v \in Writers |-> Replace!CallOf(jobs[v])] EXCEPT ![w] = Replace!CallOf(j)]
BY DEF FileInv, Replace!TypeOK

LEMMA CallFacts ==
    /\ Replace!CallOf(Replace!NoJob) = Replace!Register!NoCall
    /\ Replace!CallOf(Replace!Answered) = Replace!Register!Answered
    /\ \A j \in Replace!Idle : Replace!CallOf(j) \in Replace!Register!Idle
    /\ \A j \in Replace!Jobs : j.at \in Replace!Calls \ {"syncParent"} =>
           Replace!CallOf(j) = Replace!Register!Call("asked", j.content)
    /\ \A j \in Replace!Jobs : j.at = "syncParent" =>
           Replace!CallOf(j) = Replace!Register!Call("taken", j.content)
    /\ \A c : \A at \in {"asked", "taken"} :
           Replace!Register!Call(at, c) \notin Replace!Register!Idle
<1>1. Replace!NoJob.at = "none" /\ Replace!Answered.at = "ok" /\ \A j \in Replace!Idle :
          j.at \in {"none", "ok"}
  BY DEF Replace!NoJob, Replace!Answered, Replace!Job, Replace!Idle
<1>2. \A j \in Replace!Jobs : j.at \in Replace!Calls => j \notin Replace!Idle
  BY JobFacts
<1>3. \A j \in Replace!Idle : Replace!CallOf(j) = [at |-> j.at]
  BY <1>1 DEF Replace!CallOf
<1>4. \A j : j \notin Replace!Idle =>
        Replace!CallOf(j) = IF j.at =
            "syncParent" THEN [at |-> "taken", content |-> j.content]
                                                   ELSE [at |-> "asked",
                                                         content |-> j.content]
  BY DEF Replace!CallOf
<1>5. \A c : \A at \in {"asked", "taken"} : Replace!Register!Call(at, c).at = at
  BY DEF Replace!Register!Call
<1>6. \A k \in Replace!Register!Idle : k.at \in {"none", "ok"}
  BY DEF Replace!Register!Idle, Replace!Register!NoCall, Replace!Register!Answered
<1>7. \A c : \A at \in {"asked", "taken"} :
          Replace!Register!Call(at, c) \notin Replace!Register!Idle
  BY <1>5, <1>6
<1> QED
  BY <1>1, <1>2, <1>3, <1>4, <1>7, JobFacts
     DEF Replace!Register!NoCall, Replace!Register!Answered, Replace!Register!Idle,
         Replace!Register!Call, Replace!Calls, Replace!Idle

LEMMA RegisterStart == ASSUME FileBounds, Replace!Init PROVE Replace!Register!Init
<1>1. target.content \in Contents \cup {Absent}
  BY DEF Replace!Init, Replace!NoFile, Replace!File
<1> QED
  BY <1>1, CallFacts DEF Replace!Init, Replace!Register!Init, Replace!ContentsOf

LEMMA RegisterStep ==
    ASSUME FileBounds, FileInv, [Replace!Next]_(Replace!fileVars)
    PROVE  [Replace!Register!Next]_(Replace!Register!vars)
<1> DEFINE calls == [v \in Writers |-> Replace!CallOf(jobs[v])]
<1>1. CASE UNCHANGED Replace!fileVars
  BY <1>1 DEF Replace!fileVars, Replace!Register!vars
<1>2. ASSUME NEW w \in Writers, NEW c \in Contents, NEW mode \in
                 Replace!Modes, Replace!Begin(w, c, mode)
      PROVE  Replace!Register!Begin(w)
  <2> DEFINE j == Replace!Job("create", c, mode)
  <2>1. calls' = [calls EXCEPT ![w] = Replace!CallOf(j)]
    BY <1>2, OneCall DEF Replace!Begin
  <2>2. Replace!CallOf(j) = Replace!Register!Call("asked", c)
    BY CallFacts DEF Replace!Job, Replace!Jobs, Replace!Calls
  <2>3. calls[w] \in Replace!Register!Idle
    BY <1>2, CallFacts DEF Replace!Begin
  <2> QED
    BY <1>2, <2>1, <2>2, <2>3 DEF Replace!Begin, Replace!Register!Begin
<1>3. ASSUME NEW w \in Writers,
             Replace!CreateTemp(w) \/ Replace!WriteAll(w) \/ Replace!ApplyTargetPermissions(w) \/ Replace!SyncAll(w)
      PROVE  UNCHANGED Replace!Register!vars
  <2>1. PICK at \in Replace!Calls \ {"syncParent"} : jobs' = [jobs EXCEPT ![w].at = at]
    BY <1>3, Prepares
  <2> DEFINE j == [jobs[w] EXCEPT !.at = at]
  <2>2. jobs[w] \in Replace!Jobs /\ jobs[w].at \in Replace!Calls \ {"syncParent"}
    BY <1>3, Prepares DEF FileInv, Replace!TypeOK
  <2>3. j \in Replace!Jobs /\ j.at = at /\ j.content = jobs[w].content
    BY <2>2, JobFacts DEF Replace!Jobs
  <2>4. Replace!CallOf(j) = Replace!CallOf(jobs[w])
    BY <2>2, <2>3, CallFacts
  <2>5. jobs' = [jobs EXCEPT ![w] = j]
    BY <2>1
  <2>6. calls' = [calls EXCEPT ![w] = Replace!CallOf(j)]
    BY <2>5, OneCall
  <2>7. calls' = calls
    BY <2>4, <2>6
  <2>8. UNCHANGED <<target, onDisk>>
    BY <1>3
       DEF Replace!CreateTemp, Replace!WriteAll, Replace!ApplyTargetPermissions,
           Replace!SyncAll
  <2> QED
    BY <2>7, <2>8 DEF Replace!Register!vars
<1>4. ASSUME NEW w \in Writers, Replace!ReplaceFile(w)
      PROVE  Replace!Register!Take(w)
  <2> DEFINE j == [jobs[w] EXCEPT !.at = "syncParent"]
  <2>1. jobs[w] \in Replace!Jobs /\ jobs[w].at = "rename" /\ jobs' = [jobs EXCEPT ![w] = j]
    BY <1>4 DEF Replace!ReplaceFile, Replace!Proceed, FileInv, Replace!TypeOK
  <2>2. j \in Replace!Jobs /\ j.at = "syncParent" /\ j.content = jobs[w].content
    BY <2>1, JobFacts DEF Replace!Jobs, Replace!Calls
  <2>3. calls[w] = Replace!Register!Call("asked", jobs[w].content)
    BY <2>1, CallFacts DEF Replace!Calls
  <2>4. Replace!CallOf(j) = Replace!Register!Call("taken", jobs[w].content)
    BY <2>2, CallFacts
  <2>5. calls' = [calls EXCEPT ![w] = Replace!CallOf(j)]
    BY <2>1, OneCall
  <2>6. calls[w].at = "asked" /\ calls[w].content = jobs[w].content
        /\ Replace!CallOf(j) = [calls[w] EXCEPT !.at = "taken"]
    BY <2>3, <2>4 DEF Replace!Register!Call
  <2>7. target'.content = jobs[w].content
    BY <1>4, Replaces
  <2>8. Replace!ContentsOf(onDisk)' = Replace!ContentsOf(onDisk) \cup {target'.content}
    BY <1>4 DEF Replace!ReplaceFile, Replace!ContentsOf
  <2>9. calls' = [calls EXCEPT ![w].at = "taken"]
    BY <2>5, <2>6
  <2> QED
    BY <2>6, <2>7, <2>8, <2>9 DEF Replace!Register!Take
<1>5. ASSUME NEW w \in Writers, Replace!SyncParentDir(w)
      PROVE  Replace!Register!Answer(w)
  <2>1. /\ jobs[w] \in Replace!Jobs /\ jobs[w].at = "syncParent"
        /\ jobs' = [jobs EXCEPT ![w] = Replace!Answered]
    BY <1>5 DEF Replace!SyncParentDir, FileInv, Replace!TypeOK
  <2>2. calls' = [calls EXCEPT ![w] = Replace!CallOf(Replace!Answered)]
    BY <2>1, OneCall
  <2>3. calls[w].at = "taken"
    BY <2>1, CallFacts DEF Replace!Register!Call
  <2>4. target' = target /\ Replace!ContentsOf(onDisk)' = {target.content}
    BY <1>5 DEF Replace!SyncParentDir, Replace!ContentsOf
  <2> QED
    BY <2>2, <2>3, <2>4, CallFacts DEF Replace!Register!Answer
<1>6. ASSUME NEW w \in Writers, Replace!Fails(w)
      PROVE  Replace!Register!Fail(w)
  <2>1. /\ jobs[w] \in Replace!Jobs /\ jobs[w].at \in Replace!Calls
        /\ jobs' = [jobs EXCEPT ![w] = Replace!NoJob]
    BY <1>6, JobFacts DEF Replace!Fails, FileInv, Replace!TypeOK
  <2>2. calls' = [calls EXCEPT ![w] = Replace!CallOf(Replace!NoJob)]
    BY <2>1, OneCall
  <2>3. calls[w] \notin Replace!Register!Idle
    BY <2>1, CallFacts
  <2> QED
    BY <1>6, <2>2, <2>3, CallFacts DEF Replace!Fails, Replace!Register!Fail
<1>7. ASSUME Replace!ProcessDies \/ Replace!PowerIsLost
      PROVE  Replace!Register!Stop
  <2>1. calls' = [v \in Writers |-> Replace!Register!NoCall]
    BY <1>7, CallFacts DEF Replace!ProcessDies, Replace!PowerIsLost, Replace!Dies
  <2>2. CASE Replace!ProcessDies
    BY <2>1, <2>2 DEF Replace!ProcessDies, Replace!Register!Stop
  <2>3. CASE Replace!PowerIsLost
    <3>1. PICK f \in onDisk : target' = Replace!OnDisk(f)
      BY <2>3 DEF Replace!PowerIsLost
    <3>2. target' = f
      BY <3>1, FileFacts DEF FileInv
    <3>3. target'.content \in Replace!ContentsOf(onDisk)
      BY <3>2 DEF Replace!ContentsOf
    <3>4. Replace!ContentsOf(onDisk)' = {target'.content}
      BY <2>3 DEF Replace!PowerIsLost, Replace!ContentsOf
    <3> QED
      BY <2>1, <3>3, <3>4 DEF Replace!Register!Stop
  <2> QED
    BY <1>7, <2>2, <2>3
<1> HIDE DEF calls
<1> QED
  BY <1>1, <1>2, <1>3, <1>4, <1>5, <1>6, <1>7 DEF Replace!Next, Replace!Register!Next

-----------------------------------------------------------------------------
(* All six *)

AllBounds == SessionBounds /\ UpdaterBounds /\ FileBounds /\ InstallBounds /\ CardBounds

\* The invariants of the six together: the first is that of KeySync.
AllInv == Inv /\ SessionInv /\ UpdateInv /\ FileInv /\ InstallInv /\ CardInv

LEMMA AllStart == ASSUME AllBounds, AllInit PROVE AllInv
<1>1. /\ Init /\ Session!Init /\ Update!Init
      /\ Replace!Init /\ Install!Init /\ Smartcard!Init
  BY DEF AllInit
<1> QED
  BY <1>1, InitInv, SessionStart, UpdateStart, FileStart, InstallStart, CardStart
     DEF AllBounds, AllInv

\* A step of one of the six leaves the variables of the others.
LEMMA EachStepsOrStays ==
    ASSUME [AllNext]_allVars
    PROVE  /\ [Next]_vars
           /\ [Session!Next]_(Session!sessionVars)
           /\ [Update!Next]_(Update!updaterVars)
           /\ [Replace!Next]_(Replace!fileVars)
           /\ [Install!Next]_(Install!installVars)
           /\ [Smartcard!Next]_(Smartcard!cardVars)
<1>1. /\ sessionVars = Session!sessionVars /\ updaterVars = Update!updaterVars
      /\ replaceVars = Replace!fileVars /\ installVars = Install!installVars
      /\ cardSetupVars = Smartcard!cardVars
  BY DEF sessionVars, Session!sessionVars, updaterVars, Update!updaterVars, replaceVars,
         Replace!fileVars, installVars, Install!installVars, cardSetupVars, Smartcard!cardVars
<1>2. sessionVars' = (Session!sessionVars)' /\ updaterVars' = (Update!updaterVars)'
  BY DEF sessionVars, Session!sessionVars, updaterVars, Update!updaterVars
<1>3. /\ replaceVars' = (Replace!fileVars)' /\ installVars' = (Install!installVars)'
      /\ cardSetupVars' = (Smartcard!cardVars)'
  BY DEF replaceVars, Replace!fileVars, installVars, Install!installVars,
         cardSetupVars, Smartcard!cardVars
<1>4. /\ Next \/ UNCHANGED vars
      /\ Session!Next \/ UNCHANGED sessionVars
      /\ Update!Next \/ UNCHANGED updaterVars
      /\ Replace!Next \/ UNCHANGED replaceVars
      /\ Install!Next \/ UNCHANGED installVars
      /\ Smartcard!Next \/ UNCHANGED cardSetupVars
  BY DEF AllNext, allVars
<1> QED
  BY <1>1, <1>2, <1>3, <1>4

LEMMA AllStep == ASSUME AllBounds, AllInv, [AllNext]_allVars PROVE AllInv'
<1> USE DEF AllBounds, AllInv
<1>1. Inv'
  BY EachStepsOrStays, StepInv
<1>2. SessionInv'
  BY EachStepsOrStays, SessionStep
<1>3. UpdateInv'
  BY EachStepsOrStays, UpdateStep
<1>4. FileInv'
  BY EachStepsOrStays, FileStep
<1>5. InstallInv'
  BY EachStepsOrStays, InstallStep
<1>6. CardInv'
  BY EachStepsOrStays, CardStep
<1> QED
  BY <1>1, <1>2, <1>3, <1>4, <1>5, <1>6

LEMMA AllInvAlways == ASSUME AllBounds PROVE AllSpec => []AllInv
<1>1. AllInit => AllInv
  BY AllStart
<1>2. AllInv /\ [AllNext]_allVars => AllInv'
  BY AllStep
<1> QED
  BY <1>1, <1>2, PTL DEF AllSpec

-----------------------------------------------------------------------------
(* The theorems, for the six under one clock of steps, whichever of them is     *)
(* looked at                                                                    *)

\* Every variable of the six keeps its type, with any number of keys, windows,
\* prompts, writers, updates, cards and failures.
THEOREM AllTypesAreKept == ASSUME AllBounds PROVE AllSpec => []TypesOK
<1>1. AllInv => TypesOK
  <2>1. ASSUME AllInv
        PROVE  /\ TypeOK /\ Session!TypeOK /\ Update!TypeOK
               /\ Replace!TypeOK /\ Install!TypeOK /\ Smartcard!TypeOK
    BY <2>1, SessionShows, FileShows DEF AllInv, Inv, UpdateInv, InstallInv, CardInv
  <2> QED
    BY <2>1 DEF TypesOK
<1> QED
  BY <1>1, AllInvAlways, PTL

\* A key that is unlocked in the session is one that is stored and was used within
\* the idle time, although cached keys are looked up, removed and replaced by
\* other threads meanwhile; a key stored for a card is on that card, and a
\* key is added only under the PIN that the card asks for (key_store/cache.rs;
\* ui/key_management/hardware.rs).
THEOREM UnlockedKeysAreReal == ASSUME AllBounds PROVE AllSpec => []UnlockedKeysAreStoredAndFresh
<1>1. AllInv => UnlockedKeysAreStoredAndFresh
  BY SessionShows, CardShows DEF AllInv, UnlockedKeysAreStoredAndFresh
<1> QED
  BY <1>1, AllInvAlways, PTL

\* Whoever asked for a key to be unlocked is told once: not again by a dialog that
\* closes after the answer, nor by a worker that dies (ui/key_unlock.rs).
THEOREM PromptsAreAnsweredOnce == ASSUME AllBounds PROVE AllSpec => []PromptsAnswerOnce
<1>1. AllInv => PromptsAnswerOnce
  BY SessionShows DEF AllInv, PromptsAnswerOnce
<1> QED
  BY <1>1, AllInvAlways, PTL

\* What is offered to be installed is the download of the release that was asked
\* for, whole or lost since; a file that is replaced is whole at any moment; the
\* program in the menu is whole where adding it ended well, and so is the
\* program that runs (updater.rs; secure_fs.rs; local_install.rs).
THEOREM NothingHalfIsKept == ASSUME AllBounds PROVE AllSpec => []OnlyWholeFilesAreKept
<1>1. AllInv => OnlyWholeFilesAreKept
  BY UpdateShows, FileShows DEF AllBounds, AllInv, InstallInv, OnlyWholeFilesAreKept
<1> QED
  BY <1>1, AllInvAlways, PTL

\* An updater that shows itself busy has a worker or a message under way that ends
\* it, and a card page that shows a setup runs one, and only one (updater.rs;
\* ui/key_management/hardware.rs).
THEOREM BusyMeansCarried == ASSUME AllBounds PROVE AllSpec => []WhatIsBusyHasACarrier
<1>1. AllInv => WhatIsBusyHasACarrier
  BY UpdateShows, CardShows DEF AllInv, WhatIsBusyHasACarrier
<1> QED
  BY <1>1, AllInvAlways, PTL

\* Beside whatever the other five do, a file is written whole and at once or not at
\* all, wherever a call fails, the process dies or the power is lost, and a write
\* that was answered stays (secure_fs.rs, write_atomic_file).
THEOREM FilesAreRegisters == ASSUME AllBounds PROVE AllSpec => ImplementsRegister
<1>1. AllInit => Replace!Register!Init
  BY RegisterStart DEF AllBounds, AllInit
<1>2. AllInv /\ [AllNext]_allVars => [Replace!Register!Next]_(Replace!Register!vars)
  BY EachStepsOrStays, RegisterStep DEF AllBounds, AllInv
<1> QED
  BY <1>1, <1>2, AllInvAlways, PTL
     DEF AllSpec, ImplementsRegister, Replace!ImplementsRegister, Replace!Register!Spec
=============================================================================
