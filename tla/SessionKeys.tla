----------------------------- MODULE SessionKeys -----------------------------
(* Managed private keys and the keys unlocked for the session.  A key with a   *)
(* passphrase is one file, a hardware key a directory of two files, and a      *)
(* connected card may offer a key that is not stored at all.  What was         *)
(* unlocked is kept in two caches, one for keys with a passphrase and one for  *)
(* cards, and is dropped when it lay unused for too long.  A prompt asks for   *)
(* the passphrase or PIN and starts a worker; keys are imported, used and      *)
(* removed by other workers meanwhile.  The contents of certificates and the   *)
(* wording of dialogs are left out.                                            *)
EXTENDS Integers

CONSTANTS
    SessionKeyIds,  \* fingerprints
    Prompts,        \* unlock prompts that may be shown
    IdleTicks,      \* time after which an unlocked key that was not used is dropped
    MaxTicks,       \* bound: ticks of the clock
    MaxKeyJobs      \* bound: imports, removals and uses

VARIABLES
    keyFile,     \* keys with a file of their own
    cardDir,     \* key -> its directory: "none", "half" (no public key yet) or "whole"
    cards,       \* keys whose card is connected
    cache,       \* kind of key -> key -> time of its last use, NotCached when locked
    prompts,     \* prompt -> its key, what it asks for, and where it is
    answers,     \* prompt -> how often its caller was told the outcome
    keyJobs,     \* imports, removals and uses under way
    keyJobCount,
    clock,
    lastUse,     \* key -> when its secret was last unlocked or used
    idleUse,     \* keys that were used although they lay idle for too long
    raced        \* keys removed while an unlock or import of them was under way

sessionVars == <<keyFile, cardDir, cards, cache, prompts, answers, keyJobs, keyJobCount,
                 clock, lastUse, idleUse, raced>>

NotCached == -1
Kinds == {"password", "card"}
NoPrompt == [at |-> "none"]

PromptStates ==
    {NoPrompt} \cup
    [key : SessionKeyIds, kind : Kinds, submitted : BOOLEAN,
     at : {"dialog", "closing", "idle", "resolve", "password", "card", "unlocked",
           "ok", "failed", "answered"}]

KeyJobs ==
    [is : {"remove"}, key : SessionKeyIds, at : {"find", "forget"}]
      \cup [is : {"import"}, key : SessionKeyIds, at : {"store", "unlock", "cache"}]
      \cup [is : {"importCard"}, key : SessionKeyIds, at : {"manifest", "public"}]
      \cup [is : {"use"}, key : SessionKeyIds, at : {"ready", "borrow"}]

TypeOK ==
    /\ keyFile \subseteq SessionKeyIds /\ cards \subseteq SessionKeyIds
    /\ cardDir \in [SessionKeyIds -> {"none", "half", "whole"}]
    /\ cache \in [Kinds -> [SessionKeyIds -> NotCached..MaxTicks]]
    /\ prompts \in [Prompts -> PromptStates]
    /\ answers \in [Prompts -> Nat]
    /\ keyJobs \subseteq KeyJobs
    /\ keyJobCount \in 0..MaxKeyJobs
    /\ clock \in 0..MaxTicks
    /\ lastUse \in [Kinds -> [SessionKeyIds -> NotCached..MaxTicks]]
    /\ idleUse \subseteq SessionKeyIds /\ raced \subseteq SessionKeyIds

Locked == [kind \in Kinds |-> [key \in SessionKeyIds |-> NotCached]]

Init ==
    /\ keyFile \in SUBSET SessionKeyIds /\ cards \in SUBSET SessionKeyIds
    /\ cardDir = [key \in SessionKeyIds |-> "none"]
    /\ cache = Locked /\ lastUse = Locked
    /\ prompts = [p \in Prompts |-> NoPrompt]
    /\ answers = [p \in Prompts |-> 0]
    /\ keyJobs = {} /\ keyJobCount = 0 /\ clock = 0
    /\ idleUse = {} /\ raced = {}

-----------------------------------------------------------------------------
(* The caches.  Every access first drops what lay idle. *)

IsExpired(entry) == clock - entry >= IdleTicks

Pruned(entries) ==
    [key \in SessionKeyIds |-> IF IsExpired(entries[key]) THEN NotCached ELSE entries[key]]

Insert(kind, key) ==
    /\ cache' = [cache EXCEPT ![kind] = [Pruned(@) EXCEPT ![key] = clock]]
    /\ lastUse' = [lastUse EXCEPT ![kind][key] = clock]

\* Slip: looking whether a key is unlocked counts as a use of it.
PeekIsUse(kinds) ==
    /\ cache' = [kind \in Kinds |-> IF kind \notin kinds THEN cache[kind] ELSE
                   [key \in SessionKeyIds |->
                       IF Pruned(cache[kind])[key] = NotCached THEN NotCached ELSE clock]]
    /\ UNCHANGED lastUse

\* Looking whether a key is unlocked is no use of it.
Peek(kinds) ==
    /\ cache' = [kind \in Kinds |-> IF kind \in kinds THEN Pruned(cache[kind]) ELSE cache[kind]]
    /\ UNCHANGED lastUse

IsCached(kind, key) == Pruned(cache[kind])[key] # NotCached

\* Slip: only what a hardware key unlocked is forgotten.
RemoveCachedCard(key) ==
    /\ cache' = [cache EXCEPT !["card"] = [Pruned(@) EXCEPT ![key] = NotCached]]
    /\ UNCHANGED lastUse

\* Both caches forget the key.
RemoveCached(key) ==
    /\ cache' = [kind \in Kinds |-> [Pruned(cache[kind]) EXCEPT ![key] = NotCached]]
    /\ UNCHANGED lastUse

-----------------------------------------------------------------------------
(* What is stored.  The file of a key comes before its directory; a directory  *)
(* that lacks a file is an error, not a key that is not stored, so that a      *)
(* connected card does not stand in for it.                                    *)

FindStored(key) ==
    CASE key \in keyFile -> "password"
      [] key \notin keyFile /\ cardDir[key] = "whole" -> "card"
      [] key \notin keyFile /\ cardDir[key] = "half" -> "invalid"
      [] OTHER -> "not stored"

ResolveUnlockable(key) ==
    IF FindStored(key) = "not stored" /\ key \in cards THEN "card" ELSE FindStored(key)

\* What the prompt asks for; it skips what it cannot read.
UnlockKind(key) ==
    CASE FindStored(key) \in Kinds -> FindStored(key)
      [] FindStored(key) \notin Kinds /\ key \in cards -> "card"
      [] OTHER -> "password"

-----------------------------------------------------------------------------
(* Prompts. *)

At(p, stage) == prompts' = [prompts EXCEPT ![p].at = stage]

Answer(p) == answers' = [answers EXCEPT ![p] = @ + 1]

PromptUnlock(p) ==
    /\ prompts[p] = NoPrompt
    /\ \E key \in SessionKeyIds :
         prompts' = [prompts EXCEPT ![p] =
             [key |-> key, kind |-> UnlockKind(key), submitted |-> FALSE, at |-> "dialog"]]
    /\ UNCHANGED <<answers, cache, lastUse>>

\* A submitted dialog is closed by force; its closed handler runs either way.
SubmitDialog(p) ==
    /\ prompts[p].at = "dialog"
    /\ prompts' = [prompts EXCEPT ![p].submitted = TRUE, ![p].at = "closing"]
    /\ UNCHANGED <<answers, cache, lastUse>>

CancelDialog(p) ==
    /\ prompts[p].at = "dialog"
    /\ At(p, "closing")
    /\ UNCHANGED <<answers, cache, lastUse>>

\* Slip: the closing dialog answers although it was submitted.
ClosedAlwaysAnswers(p) ==
    /\ prompts[p].at = "closing"
    /\ Answer(p)
    /\ At(p, IF prompts[p].submitted THEN "idle" ELSE "answered")
    /\ UNCHANGED <<cache, lastUse>>

DialogClosed(p) ==
    /\ prompts[p].at = "closing"
    /\ UNCHANGED <<cache, lastUse>>
    /\ \/ /\ ~prompts[p].submitted
          /\ Answer(p)
          /\ At(p, "answered")
       \/ /\ prompts[p].submitted
          /\ At(p, "idle")
          /\ UNCHANGED answers

\* The worker starts when the main loop is idle, if it can be spawned.
StartUnlock(p) ==
    /\ prompts[p].at = "idle"
    /\ \E stage \in {"resolve", "failed"} : At(p, stage)
    /\ UNCHANGED <<answers, cache, lastUse>>

\* The key is looked up again: it may not be what the prompt asked for any more.
Resolve(p) ==
    /\ prompts[p].at = "resolve"
    /\ LET kind == ResolveUnlockable(prompts[p].key)
       IN  At(p, IF kind = prompts[p].kind THEN kind ELSE "failed")
    /\ UNCHANGED <<answers, cache, lastUse>>

\* A right passphrase for the file as it is then, or a PIN the card accepts; the
\* worker may die instead.
Verify(p) ==
    /\ prompts[p].at \in Kinds
    /\ \/ /\ IF prompts[p].at = "password" THEN prompts[p].key \in keyFile
             ELSE prompts[p].key \in cards
          /\ At(p, "unlocked")
       \/ At(p, "failed")
    /\ UNCHANGED <<answers, cache, lastUse>>

CacheUnlocked(p) ==
    /\ prompts[p].at = "unlocked"
    /\ Insert(prompts[p].kind, prompts[p].key)
    /\ At(p, "ok")
    /\ UNCHANGED answers

FinishUnlock(p) ==
    /\ prompts[p].at \in {"ok", "failed"}
    /\ Answer(p)
    /\ At(p, "answered")
    /\ UNCHANGED <<cache, lastUse>>

Prompt(p) ==
    /\ \/ PromptUnlock(p) \/ SubmitDialog(p) \/ CancelDialog(p) \/ DialogClosed(p)
       \/ StartUnlock(p) \/ Resolve(p) \/ Verify(p) \/ CacheUnlocked(p) \/ FinishUnlock(p)
    /\ UNCHANGED <<keyFile, cardDir, cards, keyJobs, keyJobCount, clock, idleUse, raced>>

-----------------------------------------------------------------------------
(* Imports, removals and uses. *)

BeginJob ==
    /\ keyJobCount < MaxKeyJobs
    /\ keyJobCount' = keyJobCount + 1
    /\ \E key \in SessionKeyIds, start \in {<<"remove", "find">>, <<"import", "store">>,
                                     <<"importCard", "manifest">>, <<"use", "ready">>} :
         /\ keyJobs' = keyJobs \cup {[is |-> start[1], key |-> key, at |-> start[2]]}
         /\ start[1] = "importCard" => key \in cards
    /\ UNCHANGED <<keyFile, cardDir, cards, cache, prompts, answers, clock, lastUse,
                   idleUse, raced>>

EndJob(job) == keyJobs' = keyJobs \ {job}
JobGoesTo(job, stage) == keyJobs' = (keyJobs \ {job}) \cup {[job EXCEPT !.at = stage]}

\* An unlock or import of the key that has read it and will still cache it.
MayCache(key) ==
    \/ \E p \in Prompts : prompts[p] # NoPrompt /\ prompts[p].key = key
                          /\ prompts[p].at = "unlocked"
    \/ \E job \in keyJobs : job.key = key /\ job.is = "import" /\ job.at # "store"

\* The file goes, or the directory when there is no file; then what was unlocked.
RemoveFile(job) ==
    /\ job.is = "remove" /\ job.at = "find"
    /\ \/ /\ FindStored(job.key) = "password"
          /\ keyFile' = keyFile \ {job.key}
          /\ UNCHANGED cardDir
          /\ JobGoesTo(job, "forget")
       \/ /\ FindStored(job.key) = "card"
          /\ cardDir' = [cardDir EXCEPT ![job.key] = "none"]
          /\ UNCHANGED keyFile
          /\ JobGoesTo(job, "forget")
       \/ /\ EndJob(job)
          /\ UNCHANGED <<keyFile, cardDir>>
    /\ UNCHANGED <<cache, lastUse, idleUse, raced>>

ForgetRemoved(job) ==
    /\ job.is = "remove" /\ job.at = "forget"
    /\ RemoveCached(job.key)
    /\ raced' = IF MayCache(job.key) THEN raced \cup {job.key} ELSE raced
    /\ EndJob(job)
    /\ UNCHANGED <<keyFile, cardDir, idleUse>>

\* An import stores the key before it tries the passphrase.
ImportKey(job) ==
    /\ job.is = "import"
    /\ UNCHANGED <<cardDir, idleUse, raced>>
    /\ \/ /\ job.at = "store"
          /\ keyFile' = keyFile \cup {job.key}
          /\ JobGoesTo(job, "unlock")
          /\ UNCHANGED <<cache, lastUse>>
       \/ /\ job.at = "unlock"
          /\ JobGoesTo(job, "cache") \/ EndJob(job)
          /\ UNCHANGED <<keyFile, cache, lastUse>>
       \/ /\ job.at = "cache"
          /\ Insert("password", job.key)
          /\ EndJob(job)
          /\ UNCHANGED keyFile

\* Directory and manifest, then the public key; each may fail and leave the rest.
ImportCard(job) ==
    /\ job.is = "importCard"
    /\ \/ /\ job.at = "manifest"
          /\ job.key \in cards
          /\ cardDir' = [cardDir EXCEPT ![job.key] = IF @ = "whole" THEN @ ELSE "half"]
          /\ JobGoesTo(job, "public")
       \/ /\ job.at = "public"
          /\ cardDir' = [cardDir EXCEPT ![job.key] = "whole"]
          /\ EndJob(job)
       \/ /\ EndJob(job)
          /\ UNCHANGED cardDir
    /\ UNCHANGED <<keyFile, cache, lastUse, idleUse, raced>>

\* Before it opens an entry an operation looks whether the key is unlocked, in
\* the cache of keys with a passphrase first and without regard to what is stored.
EnsureReady(job) ==
    /\ job.is = "use" /\ job.at = "ready"
    /\ LET kind == IF IsCached("password", job.key) THEN "password"
                   ELSE ResolveUnlockable(job.key)
       IN  /\ Peek(IF kind = "card" THEN Kinds ELSE {"password"})
           /\ IF kind \in Kinds /\ IsCached(kind, job.key)
              THEN JobGoesTo(job, "borrow") ELSE EndJob(job)
    /\ UNCHANGED <<keyFile, cardDir, idleUse, raced>>

\* Taking the unlocked key for an entry is a use, and finds it locked if it lay
\* idle until now.
Borrow(job) ==
    /\ job.is = "use" /\ job.at = "borrow"
    /\ \E kind \in Kinds :
         IF IsCached(kind, job.key)
         THEN /\ Insert(kind, job.key)
              /\ idleUse' = IF clock - lastUse[kind][job.key] >= IdleTicks
                            THEN idleUse \cup {job.key} ELSE idleUse
         ELSE /\ Peek({kind})
              /\ UNCHANGED idleUse
    /\ EndJob(job)
    /\ UNCHANGED <<keyFile, cardDir, raced>>

Job(job) ==
    /\ \/ RemoveFile(job) \/ ForgetRemoved(job) \/ ImportKey(job) \/ ImportCard(job)
       \/ EnsureReady(job) \/ Borrow(job)
    /\ UNCHANGED <<cards, prompts, answers, keyJobCount, clock>>

-----------------------------------------------------------------------------
\* A card is put in or taken out; what was unlocked with it stays cached.
MoveCard ==
    /\ clock < MaxTicks
    /\ clock' = clock + 1
    /\ \E key \in SessionKeyIds :
         cards' = IF key \in cards THEN cards \ {key} ELSE cards \cup {key}
    /\ UNCHANGED <<keyFile, cardDir, cache, prompts, answers, keyJobs, keyJobCount, lastUse,
                   idleUse, raced>>

Tick ==
    /\ clock < MaxTicks
    /\ clock' = clock + 1
    /\ UNCHANGED <<keyFile, cardDir, cards, cache, prompts, answers, keyJobs, keyJobCount,
                   lastUse, idleUse, raced>>

Next ==
    \/ \E p \in Prompts : Prompt(p)
    \/ BeginJob
    \/ \E job \in keyJobs : Job(job)
    \/ MoveCard
    \/ Tick

Spec == Init /\ [][Next]_sessionVars

-----------------------------------------------------------------------------
(* Properties. *)

(* A key with a passphrase that is not stored any more is not unlocked either, *)
(* once its removal has ended; an unlock or import of it that was under way    *)
(* meanwhile is the exception, for it caches what it read before.  And no key  *)
(* is used after it lay idle for too long, however often operations looked     *)
(* whether it is unlocked.                                                     *)
UnlockedKeysAreStoredAndFresh ==
    /\ \A key \in SessionKeyIds \ (keyFile \cup raced) :
         cache["password"][key] # NotCached =>
             [is |-> "remove", key |-> key, at |-> "forget"] \in keyJobs
    /\ idleUse = {}

(* Whoever asked for an unlock is told the outcome exactly once, although the  *)
(* dialog's closed handler, the worker's answer and its death all may tell it. *)
PromptsAnswerOnce ==
    \A p \in Prompts : answers[p] = IF prompts[p].at = "answered" THEN 1 ELSE 0

=============================================================================
