------------------------------- MODULE Updater -------------------------------
(* The self-updater: one controller on the UI thread and a worker thread for   *)
(* every check and every download.  A run is a check and the download it leads *)
(* to; both carry the run's number, and so does every message they send.  The  *)
(* user can close the dialog, ask again, install or quit between any two steps *)
(* of a worker, so a message may arrive for a run the controller has left.     *)
(* The progress bar and the wording of dialogs are left out.                   *)
EXTENDS Naturals, FiniteSets

CONSTANTS
    MaxRuns,         \* bound: checks started
    MaxUpdateFaults  \* bound: spawns, launches and files that fail or go missing

VARIABLES
    updater,      \* what the controller is doing
    dialog,       \* an update dialog is on the screen
    confirming,   \* the dialog that asks about unsaved changes is on the screen
    autoStarted,  \* the check after the first window was started
    lastRun,      \* number of the newest run
    worker,       \* run -> where its worker is
    inbox,        \* messages the workers sent and the controller has not read
    cancelled,    \* runs whose cancel flag is set
    folder,       \* run -> what is in its private download directory
    lost,         \* runs whose file something else removed
    launched,     \* run whose file was started as the install helper, or 0
    open,         \* the application runs
    updateFaults

updaterVars == <<updater, dialog, confirming, autoStarted, lastRun, worker, inbox,
                 cancelled, folder, lost, launched, open, updateFaults>>

Runs == 1..MaxRuns

Modes == {"automatic", "manual"}

Idle == [is |-> "idle"]
Checking(mode, run) == [is |-> "checking", mode |-> mode, run |-> run]
Downloading(mode, run) == [is |-> "downloading", mode |-> mode, run |-> run]
\* the release comes from the controller's state, the download from the message
Ready(release, download) == [is |-> "ready", release |-> release, download |-> download]
Installing == [is |-> "installing"]

UpdateStates ==
    {Idle, Installing} \cup {Ready(a, b) : a, b \in Runs}
      \cup {Checking(m, r) : m \in Modes, r \in Runs}
      \cup {Downloading(m, r) : m \in Modes, r \in Runs}

\* What a check finds: a release that can be downloaded, one without a usable
\* digest or whose download directory cannot be made, none, or an error.
Findings == {"release", "refused", "none", "error"}

UpdateMessages ==
    [run : Runs, what : {"checked"}, mode : Modes, found : Findings]
      \cup [run : Runs, what : {"ready", "cancelled", "failed"}]

\* a worker that checks keeps the mode it was started with; one that downloads
\* goes from starting to verified
WorkerStages == Modes \cup {"off", "starting", "opening", "reading", "flushed",
                            "verified", "ended"}

TypeOK ==
    /\ updater \in UpdateStates
    /\ dialog \in BOOLEAN /\ confirming \in BOOLEAN /\ autoStarted \in BOOLEAN
    /\ lastRun \in 0..MaxRuns
    /\ worker \in [Runs -> WorkerStages]
    /\ inbox \subseteq UpdateMessages
    /\ cancelled \subseteq Runs
    /\ folder \in [Runs -> {"none", "empty", "partial", "complete"}]
    /\ lost \subseteq Runs
    /\ launched \in 0..MaxRuns
    /\ open \in BOOLEAN
    /\ updateFaults \in 0..MaxUpdateFaults

Init ==
    /\ updater = Idle
    /\ dialog = FALSE /\ confirming = FALSE /\ autoStarted = FALSE
    /\ lastRun = 0
    /\ worker = [r \in Runs |-> "off"]
    /\ inbox = {} /\ cancelled = {} /\ lost = {}
    /\ folder = [r \in Runs |-> "none"]
    /\ launched = 0
    /\ open = TRUE
    /\ updateFaults = 0

Fault == updateFaults < MaxUpdateFaults /\ updateFaults' = updateFaults + 1
NoFault == UNCHANGED updateFaults

\* The file is there, with the size and the SHA-256 digest of the release.
MatchesRelease(download) == folder[download] = "complete"

PresentDialog == dialog' = TRUE
ForceClose == dialog' = FALSE

CleanedUp(run) == [folder EXCEPT ![run] = "none"]

-----------------------------------------------------------------------------
(* Checking. *)

\* A new run; the dialog shows it when the user asked.  A worker that cannot
\* be spawned ends it at once.
BeginCheck(mode, cleaned) ==
    /\ lastRun < MaxRuns
    /\ lastRun' = lastRun + 1
    /\ \/ /\ NoFault
          /\ updater' = Checking(mode, lastRun + 1)
          /\ worker' = [worker EXCEPT ![lastRun + 1] = mode]
          /\ IF mode = "manual" THEN PresentDialog ELSE UNCHANGED dialog
       \/ /\ Fault
          /\ updater' = Idle
          /\ ForceClose
          /\ UNCHANGED worker
    /\ folder' = cleaned

\* Slip: the second request gets a number of its own.
JoinAsNewRun(mode) ==
    /\ mode = "manual"
    /\ updater.is \in {"checking", "downloading"}
    /\ lastRun < MaxRuns
    /\ lastRun' = lastRun + 1
    /\ updater' = [updater EXCEPT !.mode = "manual", !.run = lastRun + 1]
    /\ PresentDialog
    /\ UNCHANGED <<worker, folder, updateFaults>>

\* A second request joins the run there is; only a manual one shows itself.
JoinRun(mode) ==
    /\ mode = "manual"
    /\ updater.is \in {"checking", "downloading"}
    /\ updater' = [updater EXCEPT !.mode = "manual"]
    /\ PresentDialog
    /\ UNCHANGED <<lastRun, worker, folder, updateFaults>>

StartCheck(mode) ==
    \/ /\ updater.is = "idle"
       /\ BeginCheck(mode, folder)
    \/ JoinRun(mode)
    \/ /\ updater.is = "ready"
       /\ MatchesRelease(updater.download)
       /\ mode = "manual"
       /\ PresentDialog
       /\ UNCHANGED <<updater, lastRun, worker, folder, updateFaults>>
    \/ /\ updater.is = "ready"
       /\ ~MatchesRelease(updater.download)
       /\ BeginCheck(mode, CleanedUp(updater.download))

CheckForUpdates ==
    /\ open
    /\ StartCheck("manual")
    /\ UNCHANGED <<confirming, autoStarted, inbox, cancelled, lost, launched, open>>

AfterWindowPresented ==
    /\ open
    /\ ~autoStarted
    /\ autoStarted' = TRUE
    /\ \/ StartCheck("automatic")
       \/ /\ \/ updater.is \in {"checking", "downloading", "installing"}
             \/ updater.is = "ready" /\ MatchesRelease(updater.download)
          /\ UNCHANGED <<updater, dialog, lastRun, worker, folder, updateFaults>>
    /\ UNCHANGED <<confirming, inbox, cancelled, lost, launched, open>>

\* The worker asks for the releases and answers with the mode it was started
\* with, whatever joined it since.
FetchUpdateRelease(run) ==
    /\ open
    /\ worker[run] \in Modes
    /\ \E found \in Findings :
         inbox' = inbox \cup {[run |-> run, what |-> "checked", mode |-> worker[run],
                               found |-> found]}
    /\ worker' = [worker EXCEPT ![run] = "ended"]
    /\ UNCHANGED <<updater, dialog, confirming, autoStarted, lastRun, cancelled,
                   folder, lost, launched, open, updateFaults>>

\* A directory of its own for the file, then a worker that downloads into it.
StartDownload(run, mode) ==
    /\ folder' = [folder EXCEPT ![run] = "empty"]
    /\ \/ /\ NoFault
          /\ updater' = Downloading(mode, run)
          /\ worker' = [worker EXCEPT ![run] = "starting"]
          /\ PresentDialog
       \/ /\ Fault
          /\ updater' = Idle
          /\ ForceClose
          /\ UNCHANGED worker

HandleCheckFinished(message) ==
    /\ message.what = "checked"
    /\ IF updater.is = "checking" /\ updater.run = message.run
       THEN \/ /\ message.found = "release"
               /\ StartDownload(message.run, message.mode)
            \/ /\ message.found # "release"
               /\ updater' = Idle
               /\ ForceClose
               /\ UNCHANGED <<worker, folder, updateFaults>>
       ELSE UNCHANGED <<updater, dialog, worker, folder, updateFaults>>
    /\ UNCHANGED cancelled

-----------------------------------------------------------------------------
(* The worker of a download: perform_download call by call. *)

DownloadUnchanged == UNCHANGED <<updater, dialog, confirming, autoStarted, lastRun,
                                 cancelled, lost, launched, open>>

Send(run, what) == inbox' = inbox \cup {[run |-> run, what |-> what]}

GoOn(run, stage) ==
    /\ worker' = [worker EXCEPT ![run] = stage]
    /\ UNCHANGED <<inbox, updateFaults>>

EndDownload(run, what) ==
    /\ worker' = [worker EXCEPT ![run] = "ended"]
    /\ Send(run, what)

FailDownload(run) ==
    /\ Fault
    /\ EndDownload(run, "failed")

\* The partial file is removed, the directory stays.
PartialRemoved(run) ==
    [folder EXCEPT ![run] = IF @ = "partial" THEN "empty" ELSE @]

StopIfCancelled(run) ==
    /\ run \in cancelled
    /\ NoFault
    /\ EndDownload(run, "cancelled")
    /\ folder' = PartialRemoved(run)

\* create_dir_all makes the directory again if the controller removed it.
PrepareDownload(run) ==
    /\ open
    /\ worker[run] = "starting"
    /\ \/ GoOn(run, "opening") /\ folder' = [folder EXCEPT ![run] = "empty"]
       \/ FailDownload(run) /\ UNCHANGED folder
    /\ DownloadUnchanged

OpenPartialFile(run) ==
    /\ open
    /\ worker[run] = "opening"
    /\ \/ /\ folder[run] # "none"
          /\ GoOn(run, "reading")
          /\ folder' = [folder EXCEPT ![run] = "partial"]
       \/ /\ folder[run] = "none"
          /\ EndDownload(run, "failed")
          /\ UNCHANGED <<folder, updateFaults>>
       \/ FailDownload(run) /\ UNCHANGED folder
    /\ DownloadUnchanged

\* One pass of the loop: look at the flag, then read to the end or fail.
ReadUpdate(run) ==
    /\ open
    /\ worker[run] = "reading"
    /\ \/ StopIfCancelled(run)
       \/ run \notin cancelled /\ GoOn(run, "flushed") /\ UNCHANGED folder
       \/ run \notin cancelled /\ FailDownload(run) /\ UNCHANGED folder
    /\ DownloadUnchanged

\* The last look at the flag, then the size and the digest of the partial file.
VerifyUpdate(run) ==
    /\ open
    /\ worker[run] = "flushed"
    /\ \/ StopIfCancelled(run)
       \/ /\ run \notin cancelled
          /\ folder[run] = "partial"
          /\ GoOn(run, "verified")
          /\ UNCHANGED folder
       \/ /\ run \notin cancelled
          /\ IF folder[run] = "partial" THEN FailDownload(run)
             ELSE EndDownload(run, "failed") /\ NoFault
          /\ folder' = PartialRemoved(run)
    /\ DownloadUnchanged

\* The rename fails when the directory is gone.
FinalizeUpdate(run) ==
    /\ open
    /\ worker[run] = "verified"
    /\ \/ /\ folder[run] = "partial"
          /\ folder' = [folder EXCEPT ![run] = "complete"]
          /\ EndDownload(run, "ready")
       \/ /\ folder[run] # "partial"
          /\ EndDownload(run, "failed")
          /\ UNCHANGED folder
    /\ NoFault
    /\ DownloadUnchanged

-----------------------------------------------------------------------------
(* The controller reads its messages. *)

DownloadingRun(run) == updater.is = "downloading" /\ updater.run = run

\* Slip: whichever run the file is of.
HandleAnyDownloadReady(message) ==
    /\ message.what = "ready"
    /\ IF updater.is = "downloading"
       THEN /\ updater' = Ready(updater.run, message.run)
            /\ PresentDialog
       ELSE UNCHANGED <<updater, dialog>>
    /\ UNCHANGED <<worker, folder, cancelled, updateFaults>>

HandleDownloadReady(message) ==
    /\ message.what = "ready"
    /\ IF DownloadingRun(message.run)
       THEN /\ updater' = Ready(updater.run, message.run)
            /\ PresentDialog
       ELSE UNCHANGED <<updater, dialog>>
    /\ UNCHANGED <<worker, folder, cancelled, updateFaults>>

HandleDownloadCancelled(message) ==
    /\ message.what = "cancelled"
    /\ IF DownloadingRun(message.run)
       THEN /\ updater' = Idle
            /\ folder' = CleanedUp(message.run)
       ELSE UNCHANGED <<updater, folder>>
    /\ UNCHANGED <<dialog, worker, cancelled, updateFaults>>

HandleDownloadFailed(message) ==
    /\ message.what = "failed"
    /\ IF DownloadingRun(message.run)
       THEN /\ updater' = Idle
            /\ ForceClose
            /\ folder' = CleanedUp(message.run)
       ELSE UNCHANGED <<updater, dialog, folder>>
    /\ UNCHANGED <<worker, cancelled, updateFaults>>

HandleWorkerMessage ==
    /\ open
    /\ \E message \in inbox :
         /\ inbox' = inbox \ {message}
         /\ \/ HandleCheckFinished(message)
            \/ HandleDownloadReady(message)
            \/ HandleDownloadCancelled(message)
            \/ HandleDownloadFailed(message)
    /\ UNCHANGED <<confirming, autoStarted, lastRun, lost, launched, open>>

-----------------------------------------------------------------------------
(* The user, the install helper, and the rest of the system. *)

\* Closing the dialog gives up a download, but not a check.
CloseDialog ==
    /\ open
    /\ dialog
    /\ ForceClose
    /\ IF updater.is = "downloading"
       THEN /\ updater' = Idle
            /\ cancelled' = cancelled \cup {updater.run}
            /\ folder' = CleanedUp(updater.run)
       ELSE UNCHANGED <<updater, cancelled, folder>>
    /\ UNCHANGED <<confirming, autoStarted, lastRun, worker, inbox, lost, launched,
                   open, updateFaults>>

\* Starting the file fails when it is missing, and may fail anyway.
LaunchUpdate(download) ==
    \/ /\ MatchesRelease(download)
       /\ NoFault
       /\ updater' = Installing
       /\ ForceClose
       /\ launched' = download
       /\ open' = FALSE
    \/ /\ IF MatchesRelease(download) THEN Fault ELSE NoFault
       /\ UNCHANGED <<updater, dialog, launched, open>>

\* The install button: the file is looked at again; unsaved changes in any
\* window are asked about first.
BeginInstallFlow ==
    /\ open
    /\ dialog
    /\ updater.is = "ready"
    /\ \/ /\ ~MatchesRelease(updater.download)
          /\ BeginCheck("manual", CleanedUp(updater.download))
          /\ UNCHANGED <<confirming, launched, open>>
       \/ /\ MatchesRelease(updater.download)
          /\ ~confirming
          /\ confirming' = TRUE
          /\ UNCHANGED <<updater, dialog, lastRun, worker, folder, launched, open, updateFaults>>
       \/ /\ MatchesRelease(updater.download)
          /\ LaunchUpdate(updater.download)
          /\ UNCHANGED <<confirming, lastRun, worker, folder>>
    /\ UNCHANGED <<autoStarted, inbox, cancelled, lost>>

\* The answer starts whatever download is ready by then.
AnswerConfirmation ==
    /\ open
    /\ confirming
    /\ confirming' = FALSE
    /\ \/ /\ updater.is = "ready"
          /\ LaunchUpdate(updater.download)
       \/ UNCHANGED <<updater, dialog, launched, open, updateFaults>>
    /\ UNCHANGED <<autoStarted, lastRun, worker, inbox, cancelled, folder, lost>>

\* Quitting cancels a download and removes a file nobody will install.
Shutdown ==
    /\ open
    /\ open' = FALSE
    /\ cancelled' = IF updater.is = "downloading" THEN cancelled \cup {updater.run}
                    ELSE cancelled
    /\ folder' = CASE updater.is = "downloading" -> CleanedUp(updater.run)
                   [] updater.is = "ready" -> CleanedUp(updater.download)
                   [] OTHER -> folder
    /\ UNCHANGED <<updater, dialog, confirming, autoStarted, lastRun, worker, inbox,
                   lost, launched, updateFaults>>

\* The file is in the user's cache directory: a cleaner may remove it.
LoseDownload(run) ==
    /\ open
    /\ folder[run] \in {"partial", "complete"}
    /\ Fault
    /\ folder' = CleanedUp(run)
    /\ lost' = lost \cup {run}
    /\ UNCHANGED <<updater, dialog, confirming, autoStarted, lastRun, worker, inbox,
                   cancelled, launched, open>>

Worker(run) ==
    \/ FetchUpdateRelease(run)
    \/ PrepareDownload(run)
    \/ OpenPartialFile(run)
    \/ ReadUpdate(run)
    \/ VerifyUpdate(run)
    \/ FinalizeUpdate(run)

Next ==
    \/ CheckForUpdates
    \/ AfterWindowPresented
    \/ HandleWorkerMessage
    \/ CloseDialog
    \/ BeginInstallFlow
    \/ AnswerConfirmation
    \/ Shutdown
    \/ \E run \in Runs : Worker(run) \/ LoseDownload(run)

Spec == Init /\ [][Next]_updaterVars

-----------------------------------------------------------------------------
(* Properties. *)

InUse(run) ==
    \/ updater.is \in {"checking", "downloading"} /\ updater.run = run
    \/ updater.is = "ready" /\ updater.download = run
    \/ launched = run

(* What can be installed is the file of the release the dialog names, whole and *)
(* verified, unless something outside removed it: a message of an earlier       *)
(* download never makes its file the one to install.  Every other download, one *)
(* that was given up, failed or was replaced, leaves no file behind: the        *)
(* controller removes the directory while the worker may be making it again,    *)
(* writing or renaming, and still no partial or finished file stays once the    *)
(* worker has ended.                                                            *)
OnlyTheReleaseIsKept ==
    /\ open /\ updater.is = "ready" =>
         /\ updater.release = updater.download
         /\ MatchesRelease(updater.download) \/ updater.download \in lost
    /\ \A run \in Runs :
         worker[run] = "ended" /\ ~InUse(run) => folder[run] \in {"none", "empty"}

(* While the updater refuses new checks because it is checking or downloading,  *)
(* a worker of that very run is active or its last message waits to be read,    *)
(* whatever was joined, cancelled, failed or could not be spawned before.       *)
ABusyUpdaterHasACarrier ==
    open /\ updater.is \in {"checking", "downloading"} =>
        \/ worker[updater.run] \notin {"off", "ended"}
        \/ \E message \in inbox :
             /\ message.run = updater.run
             /\ (message.what = "checked") = (updater.is = "checking")

=============================================================================
