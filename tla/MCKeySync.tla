----------------------------- MODULE MCKeySync -----------------------------
(* Instances for TLC of KeySync, of the session's keys, the updater, the        *)
(* program in the application menu, the atomic replacement of a file and the    *)
(* setup of a card: one of them is chosen at the start and takes all the steps, *)
(* for they share nothing.                                                      *)
EXTENDS KeySync, TLC

CONSTANTS
    k1, k2, o1, left, right, thread, a, b,
    SessionKeyIds, Prompts, IdleTicks, MaxTicks, MaxKeyJobs,
    MaxRuns, MaxUpdateFaults,
    Writers, Contents, Absent, Torn, MaxWrites, MaxFaults,
    Versions, MaxInstallSteps, MaxInstallFaults,
    CardWindows, Cards, card1, MaxCardUses, MaxCardFaults

VARIABLES
    focus,
    keyFile, cardDir, cards, cache, prompts, answers, keyJobs, keyJobCount, clock, lastUse,
    idleUse, raced,
    updater, dialog, confirming, autoStarted, lastRun, worker, inbox, cancelled, folder, lost,
    launched, open, updateFaults,
    target, onDisk, temps, jobs, leftBehind, count,
    parts, app, helper, work, title, outcome, installCount,
    card, counting, page, picking, cardJobs, stored, superseded, mistried, shared,
    cardCount

Session == INSTANCE SessionKeys
Update == INSTANCE Updater
Replace == INSTANCE AtomicFile
Install == INSTANCE LocalInstall
Smartcard == INSTANCE CardSetup

Interchangeable == Permutations(Keys) \cup Permutations(Windows)

sessionVars == <<keyFile, cardDir, cards, cache, prompts, answers, keyJobs, keyJobCount,
                 clock, lastUse, idleUse, raced>>
updaterVars == <<updater, dialog, confirming, autoStarted, lastRun, worker, inbox,
                 cancelled, folder, lost, launched, open, updateFaults>>
replaceVars == <<target, onDisk, temps, jobs, leftBehind, count>>
installVars == <<parts, app, helper, work, title, outcome, installCount>>
cardSetupVars == <<card, counting, page, picking, cardJobs, stored, superseded, mistried, shared,
                   cardCount>>
allVars == <<focus, vars, sessionVars, updaterVars, replaceVars, installVars, cardSetupVars>>

AllInit ==
    /\ focus \in {"sync", "session", "updater", "file", "install", "card"}
    /\ Init /\ Session!Init /\ Update!Init /\ Replace!Init /\ Install!Init /\ Smartcard!Init
    /\ focus # "sync" => has["host"] = {} /\ has["app"] = {} /\ ~enabled
    /\ focus # "session" => keyFile = {} /\ cards = {}
    /\ focus # "file" => target = Replace!NoFile
    /\ focus # "install" => parts["binary"] = Install!None
    /\ focus # "card" => ~counting /\ \A c \in Cards :
           card[c].keys = Smartcard!NoKeys /\ card[c].pin = "default"

AllNext ==
    /\ UNCHANGED focus
    /\ \/ /\ focus = "sync"
          /\ Next
          /\ UNCHANGED <<sessionVars, updaterVars, replaceVars, installVars, cardSetupVars>>
       \/ /\ focus = "session"
          /\ Session!Next
          /\ UNCHANGED <<vars, updaterVars, replaceVars, installVars, cardSetupVars>>
       \/ /\ focus = "updater"
          /\ Update!Next
          /\ UNCHANGED <<vars, sessionVars, replaceVars, installVars, cardSetupVars>>
       \/ /\ focus = "file"
          /\ Replace!Next
          /\ UNCHANGED <<vars, sessionVars, updaterVars, installVars, cardSetupVars>>
       \/ /\ focus = "install"
          /\ Install!Next
          /\ UNCHANGED <<vars, sessionVars, updaterVars, replaceVars, cardSetupVars>>
       \/ /\ focus = "card"
          /\ Smartcard!Next
          /\ UNCHANGED <<vars, sessionVars, updaterVars, replaceVars, installVars>>

AllSpec == AllInit /\ [][AllNext]_allVars

(* Every variable of the six keeps its type. *)
TypesOK ==
    /\ focus = "sync" => TypeOK
    /\ focus = "session" => Session!TypeOK
    /\ focus = "updater" => Update!TypeOK
    /\ focus = "file" => Replace!TypeOK
    /\ focus = "install" => Install!TypeOK
    /\ focus = "card" => Smartcard!TypeOK

(* See SessionKeys, and the first two properties of CardSetup. *)
UnlockedKeysAreStoredAndFresh ==
    /\ focus = "session" => Session!UnlockedKeysAreStoredAndFresh
    /\ focus = "card" => Smartcard!StoredKeysAreOnTheirCard /\ Smartcard!AddedKeysHaveTheirPin
PromptsAnswerOnce == focus = "session" => Session!PromptsAnswerOnce

(* What is kept on disk is whole: see OnlyTheReleaseIsKept of Updater,          *)
(* FileIsWhole of AtomicFile, and of LocalInstall both properties.              *)
OnlyWholeFilesAreKept ==
    /\ focus = "updater" => Update!OnlyTheReleaseIsKept
    /\ focus = "file" => Replace!FileIsWhole
    /\ focus = "install" =>
           Install!WhatEndsWellIsWhole /\ Install!TheRunningProgramIsWhole

(* See ABusyUpdaterHasACarrier of Updater and ABusySetupIsRunning of CardSetup. *)
WhatIsBusyHasACarrier ==
    /\ focus = "updater" => Update!ABusyUpdaterHasACarrier
    /\ focus = "card" => Smartcard!ABusySetupIsRunning

(* See AtomicFile. *)
ImplementsRegister == Replace!ImplementsRegister
=============================================================================
