------------------------------ MODULE KeySync ------------------------------
(***************************************************************************)
(* The app's private keys and the host's GnuPG keys, kept alike.  A sync   *)
(* is a sequence of calls (list, list, export, store, delete) without a    *)
(* lock; it runs in the worker that loads a window's key inventory, or on  *)
(* the UI thread.  It goes from the host to the app unless this window     *)
(* changed a key since its last load.                                      *)
(*                                                                         *)
(*   crates/keycord-keys/src/sync.rs               the sync                *)
(*   crates/keycord-keys/src/store/storage.rs      the app's key files     *)
(*   crates/keycord-keys/src/ui/key_management     inventory, new keys     *)
(*   crates/keycord-preferences/src/ui/settings.rs turning the sync on     *)
(*   crates/keycord-entries/src/ui/page/mod.rs     keys in pass files      *)
(*   src/window/build/mod.rs                       a new window            *)
(***************************************************************************)
EXTENDS Naturals

CONSTANTS
    Keys,         \* keys with a passphrase
    Open,         \* keys without one: the app cannot store them
    Windows,
    Ui,           \* the sync that runs on the UI thread
    MaxOps,       \* bound on clicks, new windows and changes on the host
    MaxFailures   \* bound on failing calls, dying workers and crashes

ASSUME SyncAssumption ==
    /\ Keys \cap Open = {}
    /\ Ui \notin Windows
    /\ MaxOps \in Nat /\ MaxFailures \in Nat

Slots == Windows \cup {Ui}
All == Keys \cup Open
Directions == {"toApp", "toHost"}
Source(dir) == IF dir = "toApp" THEN "host" ELSE "app"
Target(dir) == IF dir = "toApp" THEN "app" ELSE "host"

Phases == {"idle", "source", "target", "export", "copy", "prune", "done", "failed"}
Jobs == [phase : Phases, dir : Directions, from : SUBSET All, to : SUBSET All,
         todo : SUBSET All, got : SUBSET All]
Job(phase, dir) ==
    [phase |-> phase, dir |-> dir, from |-> {}, to |-> {}, todo |-> {}, got |-> {}]
Idle == Job("idle", "toApp")

NoKey == [key |-> {}, place |-> "page", stored |-> FALSE]

VARIABLES
    has,       \* [{"app", "host"} -> SUBSET All]
    enabled,   \* the preference
    win,       \* [Windows -> open, a key changed, a load is queued]
    job,       \* [Slots -> Jobs]: what the load's sync has to do
    ui,        \* why the UI thread synchronizes; a window: to turn the sync on
    making,    \* [Windows -> the key being generated or imported]
    seen,      \* history, see the properties
    used

vars == <<has, enabled, win, job, ui, making, seen, used>>

Settled ==
    /\ \A s \in Slots : job[s] = Idle
    /\ \A w \in Windows : making[w] = NoKey
Running == \E w \in Windows : win[w].open

TypeOK ==
    /\ has \in [{"app", "host"} -> SUBSET All] /\ has["app"] \subseteq Keys
    /\ enabled \in BOOLEAN
    /\ win \in [Windows -> [open : BOOLEAN, pending : BOOLEAN, queued : BOOLEAN]]
    /\ job \in [Slots -> Jobs]
    /\ ui \in {"none", "startup", "import"} \cup Windows
    /\ making \in [Windows -> [key : SUBSET Keys, place : {"page", "entry"},
                               stored : BOOLEAN]]
    /\ seen \in [kept : SUBSET Keys, shared : SUBSET Keys, disturbed : BOOLEAN]
    /\ used \in [ops : 0..MaxOps, failures : 0..MaxFailures]

Init ==
    /\ has \in {h \in [{"app", "host"} -> SUBSET All] : h["app"] \subseteq Keys}
    /\ enabled \in BOOLEAN
    /\ enabled => has["app"] = has["host"] \cap Keys
    /\ win = [w \in Windows |-> [open |-> FALSE, pending |-> FALSE, queued |-> FALSE]]
    /\ job = [s \in Slots |-> Idle]
    /\ ui = "none"
    /\ making = [w \in Windows |-> NoKey]
    /\ seen = [kept |-> (has["app"] \cup has["host"]) \cap Keys,
               shared |-> has["app"] \cap has["host"], disturbed |-> FALSE]
    /\ used = [ops |-> 0, failures |-> 0]

Operate == used.ops < MaxOps /\ used' = [used EXCEPT !.ops = @ + 1]
OneFailure ==
    /\ used.failures < MaxFailures
    /\ used' = [used EXCEPT !.failures = @ + 1]

\* A click in a window: the UI thread is not in a sync of its own.
UiFree == ui = "none"
Click(w) == win[w].open /\ UiFree /\ Operate

\* History: something happened that a sync or a new key did not wait for.
Disturbed == seen.disturbed \/ ~Settled

-----------------------------------------------------------------------------
(* A sync, a call a step.                                                  *)

ListSource(s) ==
    /\ job[s].phase = "source"
    /\ job' = [job EXCEPT ![s].from = has[Source(job[s].dir)], ![s].phase = "target"]
    /\ UNCHANGED <<has, enabled, win, ui, making, seen, used>>

ListTarget(s) ==
    /\ job[s].phase = "target"
    /\ job' = [job EXCEPT ![s].to = has[Target(job[s].dir)],
                          ![s].todo = job[s].from \ has[Target(job[s].dir)],
                          ![s].phase = "export"]
    /\ UNCHANGED <<has, enabled, win, ui, making, seen, used>>

\* Slip: a key without passphrase is exported too.
ExportEveryKey(s, k) ==
    /\ job[s].phase = "export" /\ k \in job[s].todo
    /\ job' = IF k \in has[Source(job[s].dir)]
                THEN [job EXCEPT ![s].todo = @ \ {k}, ![s].got = @ \cup {k}]
                ELSE [job EXCEPT ![s].phase = "failed"]
    /\ UNCHANGED <<has, enabled, win, ui, making, seen, used>>
\* A key without passphrase is skipped; a key that is gone fails the sync.
ExportKey(s, k) ==
    /\ job[s].phase = "export" /\ k \in job[s].todo
    /\ job' = IF k \in has[Source(job[s].dir)]
                THEN [job EXCEPT ![s].todo = @ \ {k}, ![s].got = @ \cup ({k} \ Open)]
                ELSE [job EXCEPT ![s].phase = "failed"]
    /\ UNCHANGED <<has, enabled, win, ui, making, seen, used>>

AllExported(s) ==
    /\ job[s].phase = "export" /\ job[s].todo = {}
    /\ job' = [job EXCEPT ![s].todo = job[s].got, ![s].phase = "copy"]
    /\ UNCHANGED <<has, enabled, win, ui, making, seen, used>>

CopyKey(s, k) ==
    /\ job[s].phase = "copy" /\ k \in job[s].todo
    /\ has' = [has EXCEPT ![Target(job[s].dir)] = @ \cup {k}]
    /\ job' = [job EXCEPT ![s].todo = @ \ {k}]
    /\ UNCHANGED <<enabled, win, ui, making, seen, used>>

\* Slip: what was not copied is deleted, whether or not the source has it.
PruneUncopied(s) ==
    /\ job[s].phase = "copy" /\ job[s].todo = {}
    /\ job' = [job EXCEPT ![s].todo = job[s].to \ job[s].got, ![s].phase = "prune"]
    /\ UNCHANGED <<has, enabled, win, ui, making, seen, used>>
AllCopied(s) ==
    /\ job[s].phase = "copy" /\ job[s].todo = {}
    /\ job' = [job EXCEPT ![s].todo = job[s].to \ job[s].from, ![s].phase = "prune"]
    /\ UNCHANGED <<has, enabled, win, ui, making, seen, used>>

\* Slip: keys are only added.
PruneNothing(s, k) ==
    /\ job[s].phase = "prune" /\ k \in job[s].todo
    /\ job' = [job EXCEPT ![s].todo = @ \ {k}]
    /\ UNCHANGED <<has, enabled, win, ui, making, seen, used>>
\* Deleting a key that is gone fails the sync.
PruneKey(s, k) ==
    /\ job[s].phase = "prune" /\ k \in job[s].todo
    /\ has' = [has EXCEPT ![Target(job[s].dir)] = @ \ {k}]
    /\ job' = IF k \in has[Target(job[s].dir)]
                THEN [job EXCEPT ![s].todo = @ \ {k}]
                ELSE [job EXCEPT ![s].phase = "failed"]
    /\ UNCHANGED <<enabled, win, ui, making, seen, used>>

AllPruned(s) ==
    /\ job[s].phase = "prune" /\ job[s].todo = {}
    /\ job' = [job EXCEPT ![s].phase = "done"]
    /\ UNCHANGED <<has, enabled, win, ui, making, seen, used>>

\* Any call: gpg, the agent, the disk.
CallFails(s) ==
    /\ job[s].phase \notin {"idle", "done", "failed"}
    /\ OneFailure
    /\ job' = [job EXCEPT ![s].phase = "failed"]
    /\ UNCHANGED <<has, enabled, win, ui, making, seen>>

-----------------------------------------------------------------------------
(* The key inventory of a window: one load runs, one more may wait.        *)

\* Slip: the sync of a load always comes from the host.
LoadFromHost(pending, on) == IF on THEN Job("source", "toApp") ELSE Job("done", "toApp")
Load(pending, on) ==
    IF on THEN Job("source", IF pending THEN "toHost" ELSE "toApp")
          ELSE Job("done", "toApp")

BeginLoad(w, pending) ==
    IF job[w] = Idle
      THEN /\ job' = [job EXCEPT ![w] = Load(pending, enabled)]
           /\ win' = [win EXCEPT ![w].pending = FALSE]
      ELSE /\ win' = [win EXCEPT ![w].pending = pending, ![w].queued = TRUE]
           /\ UNCHANGED job

FinishLoad(w, on) ==
    IF win[w].queued
      THEN /\ job' = [job EXCEPT ![w] = Load(win[w].pending, on)]
           /\ win' = [win EXCEPT ![w].pending = FALSE, ![w].queued = FALSE]
      ELSE job' = [job EXCEPT ![w] = Idle] /\ UNCHANGED win

\* The recipients page is opened or reloaded.
Refresh(w) ==
    /\ Click(w)
    /\ BeginLoad(w, win[w].pending)
    /\ seen' = [seen EXCEPT !.disturbed = Disturbed]
    /\ UNCHANGED <<has, enabled, ui, making>>

\* A sync that failed turns the sync off.
LoadAnswered(w) ==
    /\ UiFree
    /\ job[w].phase \in {"done", "failed"}
    /\ enabled' = (enabled /\ job[w].phase = "done")
    /\ FinishLoad(w, enabled')
    /\ UNCHANGED <<has, ui, making, seen, used>>

\* A worker that is gone has no result: the sync stays on.
LoadDies(w) ==
    /\ UiFree
    /\ job[w] # Idle
    /\ OneFailure
    /\ FinishLoad(w, enabled)
    /\ seen' = [seen EXCEPT !.disturbed = TRUE]
    /\ UNCHANGED <<has, enabled, ui, making>>

-----------------------------------------------------------------------------
(* Keys made, imported and removed in the app.                             *)

\* On the recipients page or, an armored key, from a pass file.
MakeKey(w, k, place) ==
    /\ Click(w)
    /\ making[w] = NoKey
    /\ making' = [making EXCEPT ![w] = [key |-> {k}, place |-> place, stored |-> FALSE]]
    /\ seen' = [seen EXCEPT !.disturbed = Disturbed]
    /\ UNCHANGED <<has, enabled, win, job, ui>>

StoreKey(w) ==
    /\ making[w] # NoKey /\ ~making[w].stored
    /\ has' = [has EXCEPT !["app"] = @ \cup making[w].key]
    /\ making' = [making EXCEPT ![w].stored = TRUE]
    /\ UNCHANGED <<enabled, win, job, ui, seen, used>>

\* The user is told that there is a new key.
KeyMade(w) ==
    /\ UiFree
    /\ making[w].stored
    /\ making' = [making EXCEPT ![w] = NoKey]
    /\ seen' = [seen EXCEPT !.kept = @ \cup making[w].key]
    /\ IF making[w].place = "page"
         THEN BeginLoad(w, TRUE) /\ UNCHANGED ui
         ELSE /\ UNCHANGED win
              /\ IF enabled
                   THEN ui' = "import" /\ job' = [job EXCEPT ![Ui] = Job("source", "toHost")]
                   ELSE UNCHANGED <<ui, job>>
    /\ UNCHANGED <<has, enabled, used>>

\* Not stored, or stored and then not unlocked, or the worker is gone.
KeyNotMade(w) ==
    /\ UiFree
    /\ making[w] # NoKey
    /\ OneFailure
    /\ making' = [making EXCEPT ![w] = NoKey]
    /\ seen' = [seen EXCEPT !.disturbed = @ \/ making[w].stored]
    /\ UNCHANGED <<has, enabled, win, job, ui>>

RemoveKey(w, k) ==
    /\ Click(w)
    /\ k \in has["app"]
    /\ has' = [has EXCEPT !["app"] = @ \ {k}]
    /\ BeginLoad(w, TRUE)
    /\ seen' = [kept |-> seen.kept \ {k}, shared |-> seen.shared \ {k},
                disturbed |-> Disturbed]
    /\ UNCHANGED <<enabled, ui, making>>

-----------------------------------------------------------------------------
(* Syncs on the UI thread.                                                 *)

NewWindow(w) ==
    /\ ~win[w].open /\ UiFree /\ Operate
    /\ win' = [win EXCEPT ![w].open = TRUE]
    /\ IF enabled
         THEN ui' = "startup" /\ job' = [job EXCEPT ![Ui] = Job("source", "toApp")]
         ELSE UNCHANGED <<ui, job>>
    /\ seen' = [seen EXCEPT !.disturbed = Disturbed]
    /\ UNCHANGED <<has, enabled, making>>

\* The dialog has warned that keys only the app has may be removed; another
\* window may have turned the sync on meanwhile.
TurnOn(w) ==
    /\ Click(w)
    /\ ui' = w
    /\ job' = [job EXCEPT ![Ui] = Job("source", "toApp")]
    /\ seen' = [seen EXCEPT !.kept = @ \cap has["host"], !.disturbed = Disturbed]
    /\ UNCHANGED <<has, enabled, win, making>>

TurnOff(w) ==
    /\ Click(w)
    /\ enabled
    /\ enabled' = FALSE
    /\ seen' = [seen EXCEPT !.disturbed = Disturbed]
    /\ UNCHANGED <<has, win, job, ui, making>>

UiSyncEnds ==
    /\ job[Ui].phase \in {"done", "failed"}
    /\ enabled' = IF job[Ui].phase = "done" THEN enabled \/ ui \in Windows
                                           ELSE enabled /\ ui \in Windows
    /\ job' = [job EXCEPT ![Ui] = Idle]
    /\ ui' = "none"
    /\ seen' = [seen EXCEPT !.disturbed = @ \/ (enabled' /\ job[Ui].phase = "failed")]
    /\ UNCHANGED <<has, win, making, used>>

\* The sync failed, or is to be turned on, and the preference is not saved.
NotSaved(s) ==
    /\ OneFailure
    /\ \/ s \in Windows /\ UiFree /\ job[s].phase = "failed"
          /\ FinishLoad(s, enabled)
          /\ UNCHANGED ui
       \/ /\ s = Ui
          /\ job[s].phase = "failed" \/ (job[s].phase = "done" /\ ui \in Windows)
          /\ job' = [job EXCEPT ![s] = Idle]
          /\ ui' = "none"
          /\ UNCHANGED win
    /\ seen' = [seen EXCEPT !.disturbed = @ \/ enabled]
    /\ UNCHANGED <<has, enabled, making>>

-----------------------------------------------------------------------------
(* The world around.                                                       *)

\* The process ends, or is ended, wherever it is.
Exit ==
    /\ Running
    /\ OneFailure
    /\ win' = [w \in Windows |-> [open |-> FALSE, pending |-> FALSE, queued |-> FALSE]]
    /\ job' = [s \in Slots |-> Idle]
    /\ ui' = "none"
    /\ making' = [w \in Windows |-> NoKey]
    /\ seen' = [seen EXCEPT !.disturbed = Disturbed]
    /\ UNCHANGED <<has, enabled>>

\* Somebody uses gpg.
HostMakesKey(k) ==
    /\ Operate
    /\ k \notin has["host"]
    /\ has' = [has EXCEPT !["host"] = @ \cup {k}]
    /\ seen' = [seen EXCEPT !.kept = @ \cup ({k} \ Open),
                            !.disturbed = Disturbed \/ Running]
    /\ UNCHANGED <<enabled, win, job, ui, making>>

HostRemovesKey(k) ==
    /\ Operate
    /\ k \in has["host"]
    /\ has' = [has EXCEPT !["host"] = @ \ {k}]
    /\ seen' = [kept |-> seen.kept \ {k}, shared |-> seen.shared \ {k},
                disturbed |-> Disturbed \/ Running]
    /\ UNCHANGED <<enabled, win, job, ui, making>>

-----------------------------------------------------------------------------
SyncStep(s) ==
    \/ ListSource(s) \/ ListTarget(s)
    \/ \E k \in All : ExportKey(s, k) \/ CopyKey(s, k) \/ PruneKey(s, k)
    \/ AllExported(s) \/ AllCopied(s) \/ AllPruned(s)

Next ==
    \/ \E s \in Slots : SyncStep(s) \/ CallFails(s) \/ NotSaved(s)
    \/ \E w \in Windows :
         \/ Refresh(w) \/ LoadAnswered(w) \/ LoadDies(w)
         \/ \E k \in Keys, place \in {"page", "entry"} : MakeKey(w, k, place)
         \/ StoreKey(w) \/ KeyMade(w) \/ KeyNotMade(w)
         \/ \E k \in Keys : RemoveKey(w, k)
         \/ NewWindow(w) \/ TurnOn(w) \/ TurnOff(w)
    \/ UiSyncEnds \/ Exit
    \/ \E k \in All : HostMakesKey(k) \/ HostRemovesKey(k)

Spec == Init /\ [][Next]_vars

-----------------------------------------------------------------------------
(* Properties.                                                             *)

\* A key that both sides had when the app started stays on both until somebody
\* removes it, whatever syncs of either direction, in however many windows, run
\* into each other, fail half-way or die: each deletes only what its own two
\* lists tell it (sync_host_private_keys_to_app, sync_app_private_keys_to_host).
SharedKeysStay == \A side \in {"app", "host"} : seen.shared \subseteq has[side]

\* A key that was there or was made, and that nobody removed or was warned
\* about, is still on one side, whichever calls fail.  This is for users who let
\* a load and a new key finish before they go on: a key made while a load lists
\* both sides may be deleted again by that load.
KeysSurvive == seen.disturbed \/ seen.kept \subseteq has["app"] \cup has["host"]

\* Under the same condition, while the sync is on and nothing runs, the app has
\* the host's keys with a passphrase and no other: a change made on either side
\* has reached the other (notify_key_changed, start_recipient_key_inventory_load).
SidesAgree ==
    Settled /\ Running /\ enabled /\ ~seen.disturbed => has["app"] = has["host"] \ Open
=============================================================================
