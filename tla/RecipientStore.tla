--------------------------- MODULE RecipientStore ---------------------------
(***************************************************************************)
(* One password store on disk and the integrated backend's operations on   *)
(* it, as worker threads run them: saving the recipients of a directory    *)
(* (which re-encrypts every entry in its scope), saving an entry, deleting *)
(* it and renaming it.  Nothing in the code serialises two workers.        *)
(*                                                                         *)
(*   crates/keycord-stores/src/integrated.rs   the re-encrypting save      *)
(*   crates/keycord-stores/src/paths.rs        scopes, .gpg-id rollback    *)
(*   crates/keycord-entries/src/integrated.rs  entries, layered encryption *)
(***************************************************************************)
EXTENDS RecipientScopes

CONSTANTS
    Managed,    \* keys whose private part the app manages
    Threads,    \* worker threads
    Renames,    \* <<from, to>> pairs of labels a rename may use
    MayFail,    \* BOOLEAN: file-system and crypto calls may fail
    MayCrash,   \* BOOLEAN: the process may die between two steps
    MaxLayers,  \* bound on the layers of an entry when a save starts
    NoJob

RecipientJob == [dir : Dirs, file : Files]
EntryJob == [label : Labels, file : Files, secret : Secrets]

ASSUME StoreAssumption ==
    /\ Managed \subseteq Keys
    /\ Renames \subseteq Labels \X Labels
    /\ MayFail \in BOOLEAN
    /\ MayCrash \in BOOLEAN
    /\ MaxLayers \in Nat
    /\ NoJob \notin RecipientJob \cup EntryJob

VARIABLES
    gpgid,      \* [Dirs -> Files \cup {NoFile}], the .gpg-id files on disk
    entry,      \* [Labels -> Blob \cup {Absent}], the .gpg files on disk
    unlocked,   \* managed keys unlocked in this session
    pc,         \* [Threads -> where the worker stands]
    job,        \* [Threads -> what the worker was asked to do]
    todo,       \* [Threads -> entries still to read, later to rewrite]
    plain,      \* [Threads -> entries decrypted so far, held in memory]
    prev        \* [Threads -> .gpg-id contents to roll back to]

vars == <<gpgid, entry, unlocked, pc, job, todo, plain, prev>>
disk == <<gpgid, entry>>

-----------------------------------------------------------------------------
(* Scopes and encryption *)

Present == {l \in Labels : entry[l] # Absent}

ScopeOf(l) == ScopeIn(gpgid, l)

\* An OpenPGP context for the recipients can be built: there is one, and every
\* one of them is in the key ring of managed keys.
CryptoLoads(f) == f.ids # <<>> /\ Ids(f) \subseteq Managed

Peel(b, n) == [secret |-> b.secret,
               layers |-> SubSeq(b.layers, n + 1, Len(b.layers))]

OpensAny(b) == Len(b.layers) > 0 /\ unlocked \cap b.layers[1] # {}

OpensAll(b, ids) ==
    /\ 0 < Len(ids) /\ Len(ids) <= Len(b.layers)
    /\ \A i \in 1..Len(ids) : ids[i] \in unlocked /\ ids[i] \in b.layers[i]

RequiresAll(l) == ScopeOf(l) # NoDir /\ gpgid[ScopeOf(l)].req = "all"

OpenedBy(l) ==
    IF RequiresAll(l) THEN OpensAll(entry[l], gpgid[ScopeOf(l)].ids)
                      ELSE OpensAny(entry[l])

\* How many layers a read peels off: what is below is taken for the text.
PeeledBy(l) == IF RequiresAll(l) THEN Len(gpgid[ScopeOf(l)].ids) ELSE 1

\* What reading an entry returns: at most one text, none when it is an error.
ReadResults(l) ==
    IF entry[l] = Absent \/ ~OpenedBy(l) THEN {} ELSE {Peel(entry[l], PeeledBy(l))}

-----------------------------------------------------------------------------
NothingRead == [l \in Labels |-> Absent]

Idle(t) ==
    /\ pc' = [pc EXCEPT ![t] = "idle"]
    /\ job' = [job EXCEPT ![t] = NoJob]
    /\ todo' = [todo EXCEPT ![t] = {}]
    /\ plain' = [plain EXCEPT ![t] = NothingRead]
    /\ prev' = [prev EXCEPT ![t] = NoFile]

Consistent(l) == ConsistentIn(gpgid, entry, l)

\* A store some pass client left in order: every entry is encrypted for the
\* recipients that govern it.
Init ==
    /\ gpgid \in [Dirs -> Files \cup {NoFile}]
    /\ entry \in [Labels -> {Absent} \cup
                     {[secret |-> s, layers |-> Layers(f)] : s \in Secrets, f \in Files}]
    /\ \A l \in Present : Consistent(l)
    /\ unlocked = {}
    /\ pc = [t \in Threads |-> "idle"]
    /\ job = [t \in Threads |-> NoJob]
    /\ todo = [t \in Threads |-> {}]
    /\ plain = [t \in Threads |-> NothingRead]
    /\ prev = [t \in Threads |-> NoFile]

-----------------------------------------------------------------------------
(* Saving the recipients of a directory *)

\* Slip: every entry below the directory, nested scopes included.
BeginNestedRecipientSave(t, d, f) ==
    /\ pc[t] = "idle"
    /\ d = Root \/ gpgid[d] # NoFile
    /\ \A l \in Present : ScopeOf(l) # NoDir /\ Len(entry[l].layers) <= MaxLayers
    /\ pc' = [pc EXCEPT ![t] = "reading"]
    /\ job' = [job EXCEPT ![t] = [dir |-> d, file |-> f]]
    /\ todo' = [todo EXCEPT ![t] = {l \in Present : \E i \in DOMAIN Chain[l] : Chain[l][i] = d}]
    /\ plain' = [plain EXCEPT ![t] = NothingRead]
    /\ UNCHANGED <<gpgid, entry, unlocked, prev>>

\* The entries governed by the directory's .gpg-id are collected before any of
\* them is read.  An entry that no .gpg-id governs fails the whole save.  The
\* page offers the root and the directories that already have a .gpg-id.
BeginRecipientSave(t, d, f) ==
    /\ pc[t] = "idle"
    /\ d = Root \/ gpgid[d] # NoFile
    /\ \A l \in Present : ScopeOf(l) # NoDir /\ Len(entry[l].layers) <= MaxLayers
    /\ pc' = [pc EXCEPT ![t] = "reading"]
    /\ job' = [job EXCEPT ![t] = [dir |-> d, file |-> f]]
    /\ todo' = [todo EXCEPT ![t] = {l \in Present : ScopeOf(l) = d}]
    /\ plain' = [plain EXCEPT ![t] = NothingRead]
    /\ UNCHANGED <<gpgid, entry, unlocked, prev>>

\* Slip: an entry that cannot be read is passed over.
ReadEntrySkipping(t, l) ==
    /\ pc[t] = "reading"
    /\ l \in todo[t]
    /\ \/ \E b \in ReadResults(l) : plain' = [plain EXCEPT ![t][l] = b]
       \/ ReadResults(l) = {} /\ plain' = plain
    /\ todo' = [todo EXCEPT ![t] = @ \ {l}]
    /\ UNCHANGED <<gpgid, entry, unlocked, pc, job, prev>>

ReadEntry(t, l) ==
    /\ pc[t] = "reading"
    /\ l \in todo[t]
    /\ \E b \in ReadResults(l) : plain' = [plain EXCEPT ![t][l] = b]
    /\ todo' = [todo EXCEPT ![t] = @ \ {l}]
    /\ UNCHANGED <<gpgid, entry, unlocked, pc, job, prev>>

\* Slip: a locked entry is waited for instead of refused.
RejectUnlessLocked(t) ==
    /\ pc[t] = "reading"
    /\ todo[t] = {} /\ ~CryptoLoads(job[t].file)
    /\ Idle(t)
    /\ UNCHANGED <<gpgid, entry, unlocked>>

\* One entry that cannot be read (gone, locked, not for this key) ends the save
\* before anything is written; so do recipients the app has no key for.
RejectRecipientSave(t) ==
    /\ pc[t] = "reading"
    /\ \/ \E l \in todo[t] : ReadResults(l) = {}
       \/ todo[t] = {} /\ ~CryptoLoads(job[t].file)
       \/ MayFail
    /\ Idle(t)
    /\ UNCHANGED <<gpgid, entry, unlocked>>

WriteRecipientFile(t) ==
    /\ pc[t] = "reading"
    /\ todo[t] = {}
    /\ CryptoLoads(job[t].file)
    /\ gpgid' = [gpgid EXCEPT ![job[t].dir] = job[t].file]
    /\ prev' = [prev EXCEPT ![t] = gpgid[job[t].dir]]
    /\ todo' = [todo EXCEPT ![t] = {l \in Labels : plain[t][l] # Absent}]
    /\ pc' = [pc EXCEPT ![t] = "writing"]
    /\ UNCHANGED <<entry, unlocked, job, plain>>

\* The atomic write can report an error after the rename took place (syncing
\* the directory fails); this error returns before the rollback is armed.
WriteRecipientFileFails(t) ==
    /\ MayFail
    /\ pc[t] = "reading"
    /\ todo[t] = {}
    /\ CryptoLoads(job[t].file)
    /\ \/ gpgid' = gpgid
       \/ gpgid' = [gpgid EXCEPT ![job[t].dir] = job[t].file]
    /\ Idle(t)
    /\ UNCHANGED <<entry, unlocked>>

\* Slip: the ciphertext on disk is encrypted again, not the decrypted text.
ReencryptWrapping(t, l) ==
    /\ pc[t] = "writing"
    /\ l \in todo[t]
    /\ entry' = [entry EXCEPT ![l] = Encrypt(job[t].file, entry[l])]
    /\ todo' = [todo EXCEPT ![t] = @ \ {l}]
    /\ UNCHANGED <<gpgid, unlocked, pc, job, plain, prev>>

Reencrypt(t, l) ==
    /\ pc[t] = "writing"
    /\ l \in todo[t]
    /\ entry' = [entry EXCEPT ![l] = Encrypt(job[t].file, plain[t][l])]
    /\ todo' = [todo EXCEPT ![t] = @ \ {l}]
    /\ UNCHANGED <<gpgid, unlocked, pc, job, plain, prev>>

\* Encrypting or writing one entry fails, before or after its file is replaced.
ReencryptFails(t, l) ==
    /\ MayFail
    /\ pc[t] = "writing"
    /\ l \in todo[t]
    /\ \/ entry' = entry
       \/ entry' = [entry EXCEPT ![l] = Encrypt(job[t].file, plain[t][l])]
    /\ pc' = [pc EXCEPT ![t] = "rollback"]
    /\ UNCHANGED <<gpgid, unlocked, job, todo, plain, prev>>

\* The previous .gpg-id is written back (or the new one removed) and the result
\* ignored.  Entries rewritten so far keep their new ciphertext.
Rollback(t) ==
    /\ pc[t] = "rollback"
    /\ \/ gpgid' = [gpgid EXCEPT ![job[t].dir] = prev[t]]
       \/ MayFail /\ gpgid' = gpgid
    /\ Idle(t)
    /\ UNCHANGED <<entry, unlocked>>

FinishRecipientSave(t) ==
    /\ pc[t] = "writing"
    /\ todo[t] = {}
    /\ Idle(t)
    /\ UNCHANGED <<gpgid, entry, unlocked>>

-----------------------------------------------------------------------------
(* Entry operations *)

\* The checks of save_entry_bytes and the recipients it encrypts for.
BeginEntrySave(t, l, s, overwrite) ==
    /\ pc[t] = "idle"
    /\ l \in Present => overwrite
    /\ ScopeOf(l) # NoDir
    /\ CryptoLoads(gpgid[ScopeOf(l)])
    /\ pc' = [pc EXCEPT ![t] = "saving"]
    /\ job' = [job EXCEPT ![t] =
                 [label |-> l, file |-> gpgid[ScopeOf(l)], secret |-> s]]
    /\ UNCHANGED <<gpgid, entry, unlocked, todo, plain, prev>>

Sealed(j) == Encrypt(j.file, [secret |-> j.secret, layers |-> <<>>])

WriteEntry(t) ==
    /\ pc[t] = "saving"
    /\ entry' = [entry EXCEPT ![job[t].label] = Sealed(job[t])]
    /\ Idle(t)
    /\ UNCHANGED <<gpgid, unlocked>>

WriteEntryFails(t) ==
    /\ MayFail
    /\ pc[t] = "saving"
    /\ \/ entry' = entry
       \/ entry' = [entry EXCEPT ![job[t].label] = Sealed(job[t])]
    /\ Idle(t)
    /\ UNCHANGED <<gpgid, unlocked>>

DeleteEntry(t, l) ==
    /\ pc[t] = "idle"
    /\ l \in Present
    /\ entry' = [entry EXCEPT ![l] = Absent]
    /\ UNCHANGED <<gpgid, unlocked, pc, job, todo, plain, prev>>

\* The file is renamed as it is, whatever .gpg-id governs its new place.
RenameEntry(t, from, to) ==
    /\ pc[t] = "idle"
    /\ from \in Present /\ to \notin Present
    /\ entry' = [entry EXCEPT ![to] = entry[from], ![from] = Absent]
    /\ UNCHANGED <<gpgid, unlocked, pc, job, todo, plain, prev>>

-----------------------------------------------------------------------------
(* The session *)

UnlockKey(k) ==
    /\ k \in Managed \ unlocked
    /\ unlocked' = unlocked \cup {k}
    /\ UNCHANGED <<gpgid, entry, pc, job, todo, plain, prev>>

\* The idle timeout of the secret cache, or clearing it.
LockKey(k) ==
    /\ k \in unlocked
    /\ unlocked' = unlocked \ {k}
    /\ UNCHANGED <<gpgid, entry, pc, job, todo, plain, prev>>

\* The process dies: the files stay, everything in memory is gone.
Crash ==
    /\ MayCrash
    /\ unlocked' = {}
    /\ pc' = [t \in Threads |-> "idle"]
    /\ job' = [t \in Threads |-> NoJob]
    /\ todo' = [t \in Threads |-> {}]
    /\ plain' = [t \in Threads |-> NothingRead]
    /\ prev' = [t \in Threads |-> NoFile]
    /\ UNCHANGED disk

\* The steps of a worker once it has a job.
WorkerStep(t) ==
    \/ \E l \in Labels : ReadEntry(t, l)
    \/ RejectRecipientSave(t)
    \/ WriteRecipientFile(t)
    \/ WriteRecipientFileFails(t)
    \/ \E l \in Labels : Reencrypt(t, l)
    \/ \E l \in Labels : ReencryptFails(t, l)
    \/ Rollback(t)
    \/ FinishRecipientSave(t)
    \/ WriteEntry(t)
    \/ WriteEntryFails(t)

Next ==
    \/ \E t \in Threads :
        \/ \E d \in Dirs, f \in Files : BeginRecipientSave(t, d, f)
        \/ \E l \in Labels, s \in Secrets, o \in BOOLEAN : BeginEntrySave(t, l, s, o)
        \/ \E l \in Labels : DeleteEntry(t, l)
        \/ \E r \in Renames : RenameEntry(t, r[1], r[2])
        \/ WorkerStep(t)
    \/ \E k \in Keys : UnlockKey(k) \/ LockKey(k)
    \/ Crash

Spec == Init /\ [][Next]_vars

\* A worker thread that has a job is scheduled until the job ends.
FairSpec == Spec /\ \A t \in Threads : WF_vars(WorkerStep(t))

-----------------------------------------------------------------------------
(* Properties *)

\* Every variable has its type, and a worker without a job keeps nothing of the
\* job it had: the decrypted entries are dropped on every way out of a save
\* (they live in a local of save_store_recipients_for_relative_dir_with).
TypeOK ==
    /\ gpgid \in [Dirs -> Files \cup {NoFile}]
    /\ entry \in [Labels -> Blob \cup {Absent}]
    /\ unlocked \subseteq Managed
    /\ pc \in [Threads -> {"idle", "reading", "writing", "rollback", "saving"}]
    /\ job \in [Threads -> RecipientJob \cup EntryJob \cup {NoJob}]
    /\ todo \in [Threads -> SUBSET Labels]
    /\ plain \in [Threads -> [Labels -> Blob \cup {Absent}]]
    /\ prev \in [Threads -> Files \cup {NoFile}]
    /\ \A t \in Threads :
        /\ pc[t] = "idle" => job[t] = NoJob
        /\ pc[t] = "saving" => job[t] \in EntryJob
        /\ pc[t] \in {"reading", "writing", "rollback"} => job[t] \in RecipientJob
        /\ pc[t] \in {"idle", "saving"} => plain[t] = NothingRead
        /\ pc[t] \in {"writing", "rollback"} => \A l \in todo[t] : plain[t][l] # Absent

Quiet == \A t \in Threads : pc[t] = "idle"

\* Between two operations every entry is encrypted exactly for the recipients of
\* the nearest .gpg-id: what re-encrypting a scope, and only that scope, and
\* encrypting a saved entry for its scope are for.
EntriesMatchRecipients == Quiet => \A l \in Present : Consistent(l)

\* Between two operations, whoever has every recipient's key unlocked reads the
\* secret that was saved and not a wrapped inner layer of it, whichever of the
\* two private-key requirements the .gpg-id had and has.
QuietReadsReturnTheSecret ==
    Quiet => \A l \in Present :
        ScopeOf(l) # NoDir /\ Ids(gpgid[ScopeOf(l)]) \subseteq unlocked
            => ReadResults(l) = {[secret |-> entry[l].secret, layers |-> <<>>]}

\* When a recipient save is about to report success, every entry its directory
\* governs starts with the layers of the new recipients, whatever earlier saves
\* that failed or died half-way had left there.
SavedScopeIsUnified ==
    \A t \in Threads : pc[t] = "writing" /\ todo[t] = {} =>
        \A l \in Present : ScopeOf(l) = job[t].dir =>
            LET new == Layers(job[t].file)
            IN  Len(new) <= Len(entry[l].layers) /\ SubSeq(entry[l].layers, 1, Len(new)) = new

\* A key that every .gpg-id lists opens every entry, alone, at every moment:
\* concurrent saves, renames, failures half-way and crashes may leave an entry
\* encrypted for the wrong recipients but never lock that key out.
CommonKeyOpens ==
    \A k \in Keys :
        (\A f \in Files : f.req = "any" /\ k \in Ids(f)) =>
            \A l \in Present : Len(entry[l].layers) = 1 /\ k \in entry[l].layers[1]

\* Every operation a worker thread was given comes to an end, even when the
\* entries it was to read are locked and stay so.
JobsEnd == \A t \in Threads : pc[t] # "idle" ~> pc[t] = "idle"

\* When re-encrypting has failed and the previous .gpg-id is about to be put
\* back, the entries rewritten so far are again as that file requires.
RewrittenEntriesAreRestored ==
    \A t \in Threads : pc[t] = "rollback" =>
        \A l \in Present : plain[t][l] # Absent /\ l \notin todo[t] =>
            entry[l] = Encrypt(prev[t], plain[t][l])

-----------------------------------------------------------------------------
(* What the store promises, seen through a save in progress: until the save  *)
(* ends, the recipients and entries it replaces still count as they were.    *)

Saving == {t \in Threads : pc[t] \in {"writing", "rollback"}}

RcpView == [d \in Dirs |->
    IF \E t \in Saving : job[t].dir = d
    THEN prev[CHOOSE t \in Saving : job[t].dir = d]
    ELSE gpgid[d]]

SealedView == [l \in Labels |->
    IF \E t \in Saving : plain[t][l] # Absent
    THEN LET t == CHOOSE t \in Saving : plain[t][l] # Absent
         IN  Encrypt(prev[t], plain[t][l])
    ELSE entry[l]]

V == INSTANCE RecipientVault WITH rcp <- RcpView, sealed <- SealedView

\* One worker at a time, and nothing failing, the store implements the vault:
\* the steps of a save amount to one replacement of recipients and seals.
ImplementsVault == V!VaultSpec
=============================================================================
