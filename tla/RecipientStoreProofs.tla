------------------------ MODULE RecipientStoreProofs ------------------------
(***************************************************************************)
(* Theorems about RecipientStore, for every choice of directories, labels, *)
(* keys, recipient files and workers.                                      *)
(***************************************************************************)
EXTENDS RecipientStore, SequenceTheorems, WellFoundedInduction, TLAPS

-----------------------------------------------------------------------------
(* The operators of RecipientScopes *)

\* A set of positions that is not empty has a least element.
LEMMA LeastPosition ==
    ASSUME NEW T, T \subseteq Nat, T # {}
    PROVE  \E x \in T : \A y \in T : x <= y
<1>1. PICK x \in T : \A y \in T : ~ (<<y, x>> \in OpToRel(<, Nat))
  BY NatLessThanWellFounded, WFMin
<1>2. \A y \in T : ~ (y < x)
  BY <1>1, Zenon DEF OpToRel
<1> QED
  BY <1>2

\* The scope of a label is the directory at the least position that has a file.
LEMMA ScopeInIsNearest ==
    ASSUME NEW g \in [Dirs -> Files \cup {NoFile}], NEW l \in Labels,
           ScopeDepths(g, l) # {}
    PROVE  \E i \in ScopeDepths(g, l) :
              /\ ScopeIn(g, l) = Chain[l][i]
              /\ \A j \in ScopeDepths(g, l) : i <= j
<1>1. ScopeDepths(g, l) \subseteq Nat
  BY ChainAssumption DEF ScopeDepths
<1>2. \E i \in ScopeDepths(g, l) : \A j \in ScopeDepths(g, l) : i <= j
  BY <1>1, LeastPosition
<1> DEFINE i == CHOOSE i \in ScopeDepths(g, l) : \A j \in ScopeDepths(g, l) : i <= j
<1>3. i \in ScopeDepths(g, l) /\ \A j \in ScopeDepths(g, l) : i <= j
  BY <1>2
<1>4. ScopeIn(g, l) = Chain[l][i]
  BY DEF ScopeIn
<1> QED
  BY <1>3, <1>4

\* A scope is no directory at all or one whose .gpg-id exists.
LEMMA ScopeInType ==
    ASSUME NEW g \in [Dirs -> Files \cup {NoFile}], NEW l \in Labels
    PROVE  /\ ScopeIn(g, l) \in Dirs \cup {NoDir}
           /\ ScopeIn(g, l) # NoDir => g[ScopeIn(g, l)] \in Files
<1>1. CASE ScopeDepths(g, l) = {}
  BY <1>1 DEF ScopeIn
<1>2. CASE ScopeDepths(g, l) # {}
  <2>1. PICK i \in ScopeDepths(g, l) : ScopeIn(g, l) = Chain[l][i]
    BY <1>2, ScopeInIsNearest
  <2>2. Chain[l][i] \in Dirs /\ g[Chain[l][i]] # NoFile
    BY ChainAssumption, ElementOfSeq DEF ScopeDepths
  <2> QED
    BY <2>1, <2>2
<1> QED
  BY <1>1, <1>2

\* What encrypting for a recipient file puts around a text.
LEMMA LayersType ==
    ASSUME NEW f \in RecipientFile
    PROVE  /\ Layers(f) \in Seq(SUBSET Keys)
           /\ f.req = "any" => Layers(f) = <<Ids(f)>>
           /\ f.req = "all" => Len(Layers(f)) = Len(f.ids)
<1>1. f.ids \in Seq(Keys) /\ Ids(f) \subseteq Keys
  BY DEF RecipientFile, Ids
<1>2. CASE f.req = "all"
  <2>1. Layers(f) = [i \in 1..Len(f.ids) |-> {f.ids[i]}]
    BY <1>2 DEF Layers
  <2>2. \A i \in 1..Len(f.ids) : {f.ids[i]} \in SUBSET Keys
    BY <1>1
  <2> QED
    BY <1>1, <1>2, <2>1, <2>2
<1>3. CASE f.req = "any"
  BY <1>1, <1>3 DEF Layers
<1> QED
  BY <1>2, <1>3 DEF RecipientFile

LEMMA EncryptType ==
    ASSUME NEW f \in RecipientFile, NEW b \in Blob
    PROVE  /\ Encrypt(f, b) \in Blob
           /\ b.layers = <<>> => Encrypt(f, b) = [secret |-> b.secret, layers |-> Layers(f)]
<1>1. Layers(f) \in Seq(SUBSET Keys)
  BY LayersType
<1>2. b.layers \in Seq(SUBSET Keys) /\ b.secret \in Secrets
  BY DEF Blob
<1>3. Layers(f) \o b.layers \in Seq(SUBSET Keys)
  BY <1>1, <1>2, ConcatProperties
<1>4. b.layers = <<>> => Layers(f) \o b.layers = Layers(f)
  BY <1>1, ConcatEmptySeq
<1> QED
  BY <1>2, <1>3, <1>4 DEF Encrypt, Blob

\* Peeling off layers an entry has leaves an entry.
LEMMA PeelType ==
    ASSUME NEW b \in Blob, NEW n \in Nat, n <= Len(b.layers)
    PROVE  /\ Peel(b, n) \in Blob
           /\ Peel(b, n).secret = b.secret
           /\ Len(Peel(b, n).layers) = Len(b.layers) - n
<1>1. b.layers \in Seq(SUBSET Keys) /\ b.secret \in Secrets
  BY DEF Blob
<1>2. Len(b.layers) \in Nat /\ \A i \in (n + 1)..Len(b.layers) : b.layers[i] \in SUBSET Keys
  BY <1>1, ElementOfSeq
<1> DEFINE rest == SubSeq(b.layers, n + 1, Len(b.layers))
<1>3. rest \in Seq(SUBSET Keys) /\ Len(rest) = Len(b.layers) - n
  BY <1>2, SubSeqProperties
<1> QED
  BY <1>1, <1>3 DEF Peel, Blob

-----------------------------------------------------------------------------
(* Type correctness *)

\* What a read returns is the entry less the layers it peeled off.
LEMMA ReadResultsType ==
    ASSUME gpgid \in [Dirs -> Files \cup {NoFile}],
           entry \in [Labels -> Blob \cup {Absent}],
           NEW l \in Labels, NEW b \in ReadResults(l)
    PROVE  /\ entry[l] \in Blob
           /\ b \in Blob
           /\ b.secret = entry[l].secret
           /\ b = Peel(entry[l], PeeledBy(l))
           /\ PeeledBy(l) \in Nat
           /\ Len(b.layers) = Len(entry[l].layers) - PeeledBy(l)
<1>1. entry[l] \in Blob /\ OpenedBy(l) /\ b = Peel(entry[l], PeeledBy(l))
  BY DEF ReadResults
<1>2. PeeledBy(l) \in Nat /\ PeeledBy(l) <= Len(entry[l].layers)
  <2>1. CASE RequiresAll(l)
    <3>1. gpgid[ScopeOf(l)] \in Files
      BY <2>1, ScopeInType DEF RequiresAll, ScopeOf
    <3>2. gpgid[ScopeOf(l)].ids \in Seq(Keys)
      BY <3>1, FileAssumption DEF RecipientFile
    <3> QED
      BY <1>1, <2>1, <3>2 DEF OpenedBy, PeeledBy, OpensAll
  <2>2. CASE ~RequiresAll(l)
    <3>1. entry[l].layers \in Seq(SUBSET Keys)
      BY <1>1 DEF Blob
    <3> QED
      BY <1>1, <2>2, <3>1 DEF OpenedBy, PeeledBy, OpensAny
  <2> QED
    BY <2>1, <2>2
<1> QED
  BY <1>1, <1>2, PeelType

\* The recipients of a job are among the files that may be saved.
LEMMA JobFile ==
    ASSUME TypeOK, NEW t \in Threads, pc[t] # "idle"
    PROVE  job[t].file \in Files /\ job[t].file \in RecipientFile
<1>1. job[t] \in RecipientJob \cup EntryJob
  BY DEF TypeOK
<1> QED
  BY <1>1, FileAssumption DEF RecipientJob, EntryJob

\* Putting down a job keeps the types, whatever happens to the disk.
LEMMA IdleType ==
    ASSUME TypeOK, NEW t \in Threads, Idle(t),
           gpgid' \in [Dirs -> Files \cup {NoFile}],
           entry' \in [Labels -> Blob \cup {Absent}], unlocked' = unlocked
    PROVE  TypeOK'
  BY DEF TypeOK, Idle, NothingRead

\* What a save writes for an entry is an entry.
LEMMA ReencryptedType ==
    ASSUME TypeOK, NEW t \in Threads, pc[t] = "writing", NEW l \in Labels,
           plain[t][l] # Absent
    PROVE  Encrypt(job[t].file, plain[t][l]) \in Blob
<1>1. plain[t][l] \in Blob
  BY DEF TypeOK
<1> QED
  BY <1>1, JobFile, EncryptType

LEMMA SealedType ==
    ASSUME TypeOK, NEW t \in Threads, pc[t] = "saving"
    PROVE  /\ job[t].label \in Labels
           /\ Sealed(job[t]) = [secret |-> job[t].secret, layers |-> Layers(job[t].file)]
           /\ Sealed(job[t]) \in Blob
<1>1. job[t] \in EntryJob
  BY DEF TypeOK
<1>2. job[t].label \in Labels /\ job[t].secret \in Secrets
  BY <1>1 DEF EntryJob
<1>3. [secret |-> job[t].secret, layers |-> <<>>] \in Blob
  BY <1>2 DEF Blob
<1> QED
  BY <1>2, <1>3, JobFile, EncryptType DEF Sealed

LEMMA InitType == Init => TypeOK
<1> SUFFICES ASSUME Init PROVE TypeOK
  OBVIOUS
<1>1. \A s \in Secrets, f \in Files : [secret |-> s, layers |-> Layers(f)] \in Blob
  BY FileAssumption, LayersType DEF Blob
<1>2. entry \in [Labels -> Blob \cup {Absent}]
  BY <1>1 DEF Init
<1> QED
  BY <1>2 DEF Init, TypeOK, NothingRead

LEMMA StepType == TypeOK /\ [Next]_vars => TypeOK'
<1> SUFFICES ASSUME TypeOK, [Next]_vars PROVE TypeOK'
  OBVIOUS
<1>a. ASSUME NEW t \in Threads, NEW d \in Dirs, NEW f \in Files, BeginRecipientSave(t, d, f)
      PROVE  TypeOK'
  <2>1. [dir |-> d, file |-> f] \in RecipientJob
    BY DEF RecipientJob
  <2> QED
    BY <1>a, <2>1 DEF TypeOK, BeginRecipientSave, NothingRead, Present
<1>b. ASSUME NEW t \in Threads, NEW l \in Labels, ReadEntry(t, l)
      PROVE  TypeOK'
  <2>1. PICK b \in ReadResults(l) : plain' = [plain EXCEPT ![t][l] = b]
    BY <1>b DEF ReadEntry
  <2>2. b \in Blob
    BY ReadResultsType DEF TypeOK
  <2> QED
    BY <1>b, <2>1, <2>2 DEF TypeOK, ReadEntry
<1>c. ASSUME NEW t \in Threads, RejectRecipientSave(t)
      PROVE  TypeOK'
  BY <1>c, IdleType DEF RejectRecipientSave, TypeOK
<1>d. ASSUME NEW t \in Threads, WriteRecipientFile(t)
      PROVE  TypeOK'
  <2>1. job[t] \in RecipientJob
    BY <1>d DEF WriteRecipientFile, TypeOK
  <2>2. job[t].dir \in Dirs /\ job[t].file \in Files
    BY <2>1 DEF RecipientJob
  <2> QED
    BY <1>d, <2>1, <2>2 DEF TypeOK, WriteRecipientFile
<1>e. ASSUME NEW t \in Threads, WriteRecipientFileFails(t)
      PROVE  TypeOK'
  <2>1. gpgid' \in [Dirs -> Files \cup {NoFile}]
    BY <1>e, JobFile DEF WriteRecipientFileFails, TypeOK
  <2> QED
    BY <1>e, <2>1, IdleType DEF WriteRecipientFileFails, TypeOK
<1>f. ASSUME NEW t \in Threads, NEW l \in Labels, Reencrypt(t, l)
      PROVE  TypeOK'
  <2>1. Encrypt(job[t].file, plain[t][l]) \in Blob
    BY <1>f, ReencryptedType DEF Reencrypt, TypeOK
  <2> QED
    BY <1>f, <2>1 DEF TypeOK, Reencrypt
<1>g. ASSUME NEW t \in Threads, NEW l \in Labels, ReencryptFails(t, l)
      PROVE  TypeOK'
  <2>1. Encrypt(job[t].file, plain[t][l]) \in Blob
    BY <1>g, ReencryptedType DEF ReencryptFails, TypeOK
  <2>2. entry' \in [Labels -> Blob \cup {Absent}]
    BY <1>g, <2>1 DEF TypeOK, ReencryptFails
  <2> QED
    BY <1>g, <2>2 DEF TypeOK, ReencryptFails
<1>h. ASSUME NEW t \in Threads, Rollback(t)
      PROVE  TypeOK'
  <2>1. gpgid' \in [Dirs -> Files \cup {NoFile}]
    BY <1>h DEF Rollback, TypeOK
  <2> QED
    BY <1>h, <2>1, IdleType DEF Rollback, TypeOK
<1>i. ASSUME NEW t \in Threads, FinishRecipientSave(t)
      PROVE  TypeOK'
  BY <1>i, IdleType DEF FinishRecipientSave, TypeOK
<1>j. ASSUME NEW t \in Threads, WriteEntry(t) \/ WriteEntryFails(t)
      PROVE  TypeOK'
  <2>1. pc[t] = "saving" /\ Idle(t) /\ gpgid' = gpgid /\ unlocked' = unlocked
    BY <1>j DEF WriteEntry, WriteEntryFails
  <2>2. entry' = entry \/ entry' = [entry EXCEPT ![job[t].label] = Sealed(job[t])]
    BY <1>j DEF WriteEntry, WriteEntryFails
  <2>3. entry' \in [Labels -> Blob \cup {Absent}]
    BY <2>1, <2>2, SealedType DEF TypeOK
  <2> QED
    BY <2>1, <2>3, IdleType DEF TypeOK
<1>k. ASSUME NEW t \in Threads, NEW l \in Labels, NEW s \in Secrets, NEW o \in BOOLEAN,
             BeginEntrySave(t, l, s, o)
      PROVE  TypeOK'
  <2>1. gpgid[ScopeOf(l)] \in Files
    BY <1>k, ScopeInType DEF BeginEntrySave, ScopeOf, TypeOK
  <2>2. [label |-> l, file |-> gpgid[ScopeOf(l)], secret |-> s] \in EntryJob
    BY <2>1 DEF EntryJob
  <2> QED
    BY <1>k, <2>2 DEF TypeOK, BeginEntrySave
<1>l. ASSUME NEW t \in Threads, NEW l \in Labels, DeleteEntry(t, l)
      PROVE  TypeOK'
  BY <1>l DEF TypeOK, DeleteEntry
<1>m. ASSUME NEW t \in Threads, NEW r \in Renames, RenameEntry(t, r[1], r[2])
      PROVE  TypeOK'
  BY <1>m, StoreAssumption DEF TypeOK, RenameEntry, Present
<1>n. ASSUME NEW k \in Keys, UnlockKey(k) \/ LockKey(k)
      PROVE  TypeOK'
  BY <1>n DEF TypeOK, UnlockKey, LockKey
<1>o. ASSUME Crash
      PROVE  TypeOK'
  BY <1>o DEF TypeOK, Crash, disk, NothingRead
<1>p. ASSUME UNCHANGED vars
      PROVE  TypeOK'
  BY <1>p DEF TypeOK, vars
<1> QED
  BY <1>a, <1>b, <1>c, <1>d, <1>e, <1>f, <1>g, <1>h, <1>i, <1>j, <1>k, <1>l, <1>m,
     <1>n, <1>o, <1>p DEF Next, WorkerStep

\* Type correctness, and that a worker without a job holds no decrypted entry.
THEOREM TypeCorrect == Spec => []TypeOK
<1> QED
  BY InitType, StepType, PTL DEF Spec

-----------------------------------------------------------------------------
(* The key that every recipient file lists *)

\* The recipient files all ask for any one key, and k is one of them.
CommonKey(k) == k \in Keys /\ \A f \in Files : f.req = "any" /\ k \in Ids(f)

\* A ciphertext of one layer that k peels off.
OpensWith(b, k) == Len(b.layers) = 1 /\ k \in b.layers[1]

\* Stronger than the property: the texts held by a save are fully decrypted, so
\* that encrypting them again gives one layer and not two.
CommonInv(k) ==
    /\ TypeOK
    /\ \A l \in Labels : entry[l] # Absent => OpensWith(entry[l], k)
    /\ \A t \in Threads, l \in Labels : plain[t][l] # Absent => plain[t][l].layers = <<>>

LEMMA CommonLayers ==
    ASSUME NEW k, CommonKey(k), NEW f \in Files, NEW s
    PROVE  /\ Layers(f) = <<Ids(f)>>
           /\ OpensWith([secret |-> s, layers |-> Layers(f)], k)
<1>1. Layers(f) = <<Ids(f)>> /\ k \in Ids(f)
  BY FileAssumption, LayersType DEF CommonKey
<1> QED
  BY <1>1 DEF OpensWith

LEMMA CommonInit == ASSUME NEW k, CommonKey(k), Init PROVE CommonInv(k)
<1>1. \A l \in Labels : entry[l] # Absent => OpensWith(entry[l], k)
  BY CommonLayers DEF Init
<1> QED
  BY <1>1, InitType DEF CommonInv, Init, NothingRead

\* No entry asks for all keys, so every read peels one layer off.
LEMMA CommonRead ==
    ASSUME NEW k, CommonKey(k), CommonInv(k), NEW l \in Labels, NEW b \in ReadResults(l)
    PROVE  b.layers = <<>>
<1>1. ~RequiresAll(l)
  BY ScopeInType DEF RequiresAll, ScopeOf, CommonKey, CommonInv, TypeOK
<1>2. PeeledBy(l) = 1 /\ b \in Blob /\ Len(b.layers) = Len(entry[l].layers) - 1 /\ entry[l] \in Blob
  BY <1>1, ReadResultsType DEF PeeledBy, CommonInv, TypeOK
<1>3. Len(entry[l].layers) = 1
  BY <1>2, AbsentAssumption DEF CommonInv, OpensWith
<1>4. b.layers \in Seq(SUBSET Keys)
  BY <1>2 DEF Blob
<1> QED
  BY <1>2, <1>3, <1>4, EmptySeq

LEMMA CommonStep ==
    ASSUME NEW k, CommonKey(k), CommonInv(k), [Next]_vars
    PROVE  CommonInv(k)'
<1>t. TypeOK /\ TypeOK'
  BY StepType DEF CommonInv
<1> DEFINE Entries == \A l \in Labels : entry[l] # Absent => OpensWith(entry[l], k)
           Texts == \A t \in Threads, l \in Labels :
                       plain[t][l] # Absent => plain[t][l].layers = <<>>
<1>i. Entries /\ Texts
  BY DEF CommonInv
\* Rewriting an entry from a decrypted text, and writing a new one.
<1>r. ASSUME NEW t \in Threads, pc[t] = "writing", NEW l \in Labels, plain[t][l] # Absent
      PROVE  OpensWith(Encrypt(job[t].file, plain[t][l]), k)
  <2>1. plain[t][l] \in Blob /\ plain[t][l].layers = <<>>
    BY <1>t, <1>i, <1>r DEF TypeOK
  <2>2. job[t].file \in Files /\ job[t].file \in RecipientFile
    BY <1>t, <1>r, JobFile
  <2> QED
    BY <2>1, <2>2, EncryptType, CommonLayers
<1>w. ASSUME NEW t \in Threads, pc[t] = "saving"
      PROVE  job[t].label \in Labels /\ OpensWith(Sealed(job[t]), k)
  BY <1>t, <1>w, SealedType, JobFile, CommonLayers
<1>z. ASSUME NEW t \in Threads, Idle(t)
      PROVE  Texts'
  BY <1>t, <1>i, <1>z DEF Idle, NothingRead, TypeOK
<1>a. ASSUME NEW t \in Threads, NEW d \in Dirs, NEW f \in Files, BeginRecipientSave(t, d, f)
      PROVE  Entries' /\ Texts'
  BY <1>t, <1>i, <1>a DEF BeginRecipientSave, NothingRead, TypeOK
<1>b. ASSUME NEW t \in Threads, NEW l \in Labels, ReadEntry(t, l)
      PROVE  Entries' /\ Texts'
  <2>1. PICK b \in ReadResults(l) : plain' = [plain EXCEPT ![t][l] = b]
    BY <1>b DEF ReadEntry
  <2>2. b.layers = <<>>
    BY CommonRead
  <2> QED
    BY <1>t, <1>i, <1>b, <2>1, <2>2 DEF ReadEntry, TypeOK
<1>c. ASSUME NEW t \in Threads,
             \/ RejectRecipientSave(t) \/ WriteRecipientFileFails(t)
             \/ Rollback(t) \/ FinishRecipientSave(t)
      PROVE  Entries' /\ Texts'
  <2>1. Idle(t) /\ entry' = entry
    BY <1>c DEF RejectRecipientSave, WriteRecipientFileFails, Rollback, FinishRecipientSave
  <2> QED
    BY <1>i, <1>z, <2>1
<1>d. ASSUME NEW t \in Threads, WriteRecipientFile(t)
      PROVE  Entries' /\ Texts'
  BY <1>i, <1>d DEF WriteRecipientFile
<1>f. ASSUME NEW t \in Threads, NEW l \in Labels, Reencrypt(t, l) \/ ReencryptFails(t, l)
      PROVE  Entries' /\ Texts'
  <2>1. pc[t] = "writing" /\ plain[t][l] # Absent /\ plain' = plain
    BY <1>t, <1>f DEF Reencrypt, ReencryptFails, TypeOK
  <2>2. OpensWith(Encrypt(job[t].file, plain[t][l]), k)
    BY <1>r, <2>1
  <2>3. entry' = entry \/ entry' = [entry EXCEPT ![l] = Encrypt(job[t].file, plain[t][l])]
    BY <1>f DEF Reencrypt, ReencryptFails
  <2> QED
    BY <1>t, <1>i, <2>1, <2>2, <2>3 DEF TypeOK
<1>j. ASSUME NEW t \in Threads, WriteEntry(t) \/ WriteEntryFails(t)
      PROVE  Entries' /\ Texts'
  <2>1. pc[t] = "saving" /\ Idle(t)
    BY <1>j DEF WriteEntry, WriteEntryFails
  <2>2. entry' = entry \/ entry' = [entry EXCEPT ![job[t].label] = Sealed(job[t])]
    BY <1>j DEF WriteEntry, WriteEntryFails
  <2> QED
    BY <1>t, <1>i, <1>w, <1>z, <2>1, <2>2 DEF TypeOK
<1>k. ASSUME NEW t \in Threads, NEW l \in Labels, NEW s \in Secrets, NEW o \in BOOLEAN,
             BeginEntrySave(t, l, s, o)
      PROVE  Entries' /\ Texts'
  BY <1>i, <1>k DEF BeginEntrySave
<1>l. ASSUME NEW t \in Threads, NEW l \in Labels, DeleteEntry(t, l)
      PROVE  Entries' /\ Texts'
  BY <1>t, <1>i, <1>l DEF DeleteEntry, TypeOK
<1>m. ASSUME NEW t \in Threads, NEW r \in Renames, RenameEntry(t, r[1], r[2])
      PROVE  Entries' /\ Texts'
  BY <1>t, <1>i, <1>m, StoreAssumption DEF RenameEntry, TypeOK, Present
<1>n. ASSUME \/ \E key \in Keys : UnlockKey(key) \/ LockKey(key)
             \/ UNCHANGED vars
      PROVE  Entries' /\ Texts'
  BY <1>i, <1>n DEF UnlockKey, LockKey, vars
<1>o. ASSUME Crash
      PROVE  Entries' /\ Texts'
  BY <1>i, <1>o DEF Crash, disk, NothingRead
<1>q. Entries' /\ Texts'
  BY <1>a, <1>b, <1>c, <1>d, <1>f, <1>j, <1>k, <1>l, <1>m, <1>n, <1>o DEF Next, WorkerStep
<1> QED
  BY <1>t, <1>q DEF CommonInv

\* The strengthening, for every such key at once.
CommonIInv == \A k \in Keys : CommonKey(k) => CommonInv(k)

\* A key that all recipient files list, when they ask for any one key, opens every
\* entry alone in every reachable state, whatever interleaves, fails or crashes.
THEOREM CommonKeyAlwaysOpens == Spec => []CommonKeyOpens
<1>1. Init => CommonIInv
  BY CommonInit DEF CommonIInv
<1>2. CommonIInv /\ [Next]_vars => CommonIInv'
  BY CommonStep DEF CommonIInv
<1>3. CommonIInv => CommonKeyOpens
  BY DEF CommonIInv, CommonKeyOpens, CommonKey, CommonInv, OpensWith, Present
<1> QED
  BY <1>1, <1>2, <1>3, PTL DEF Spec

-----------------------------------------------------------------------------
(* One worker at a time, nothing failing: every entry follows its scope *)

Serial(w) == Threads = {w} /\ ~MayFail /\ ~MayCrash /\ Renames = {}

\* Where the worker stands says which entries may be out of step with their
\* scope: those it has read and not yet rewritten.
SerialInv(w) ==
    /\ TypeOK
    /\ pc[w] # "rollback"
    /\ pc[w] # "writing" => \A l \in Present : Consistent(l)
    /\ pc[w] = "saving" =>
          /\ ScopeOf(job[w].label) # NoDir
          /\ job[w].file = gpgid[ScopeOf(job[w].label)]
    /\ pc[w] = "reading" =>
          /\ job[w].dir = Root \/ gpgid[job[w].dir] # NoFile
          /\ \A l \in Labels :
                plain[w][l] # Absent \/ l \in todo[w] <=> l \in Present /\ ScopeOf(l) = job[w].dir
    /\ pc[w] = "writing" =>
          /\ gpgid[job[w].dir] = job[w].file
          /\ \A l \in Labels : plain[w][l] # Absent => l \in Present /\ ScopeOf(l) = job[w].dir
          /\ \A l \in Present : l \in todo[w] \/ Consistent(l)
    /\ \A l \in Labels : plain[w][l] # Absent => plain[w][l].layers = <<>>

\* Replacing the file of a directory that has one, or giving the root one, moves
\* no governed entry to another scope.
LEMMA ScopeStable ==
    ASSUME NEW g \in [Dirs -> Files \cup {NoFile}], NEW d \in Dirs, NEW f \in Files,
           d = Root \/ g[d] # NoFile, NEW l \in Labels, ScopeIn(g, l) # NoDir
    PROVE  ScopeIn([g EXCEPT ![d] = f], l) = ScopeIn(g, l)
<1> DEFINE g2 == [g EXCEPT ![d] = f]
           n == Len(Chain[l])
<1>1. g2 \in [Dirs -> Files \cup {NoFile}] /\ f # NoFile
  BY FileAssumption
<1>2. Chain[l] \in Seq(Dirs) /\ n \in Nat
  BY ChainAssumption
<1>3. ScopeDepths(g, l) # {}
  BY DEF ScopeIn
<1>4. ScopeDepths(g, l) \subseteq ScopeDepths(g2, l)
  BY <1>1, <1>2, ElementOfSeq DEF ScopeDepths
<1>5. PICK i \in ScopeDepths(g, l) : /\ ScopeIn(g, l) = Chain[l][i]
                                    /\ \A j \in ScopeDepths(g, l) : i <= j
  BY <1>3, ScopeInIsNearest
<1>6. PICK i2 \in ScopeDepths(g2, l) : /\ ScopeIn(g2, l) = Chain[l][i2]
                                      /\ \A j \in ScopeDepths(g2, l) : i2 <= j
  BY <1>1, <1>3, <1>4, ScopeInIsNearest
<1>7. i2 \in ScopeDepths(g, l) \/ i2 = n
  <2>1. i2 \in 1..n /\ g2[Chain[l][i2]] # NoFile /\ Chain[l][i2] \in Dirs
    BY <1>2, ElementOfSeq DEF ScopeDepths
  <2>2. CASE Chain[l][i2] # d
    BY <2>1, <2>2 DEF ScopeDepths
  <2>3. CASE Chain[l][i2] = d /\ g[d] # NoFile
    BY <2>1, <2>3 DEF ScopeDepths
  <2>4. CASE Chain[l][i2] = d /\ d = Root
    BY <1>2, <2>1, <2>4, ChainAssumption
  <2> QED
    BY <2>2, <2>3, <2>4
<1>8. i \in 1..n /\ i2 \in 1..n
  BY DEF ScopeDepths
<1>9. i2 <= i
  BY <1>4, <1>6
<1>10. i <= i2
  BY <1>2, <1>5, <1>7, <1>8
<1>11. i = i2
  BY <1>2, <1>8, <1>9, <1>10
<1> QED
  BY <1>5, <1>6, <1>11

LEMMA SerialInit == ASSUME NEW w, Serial(w), Init PROVE SerialInv(w)
<1>1. \A l \in Labels : plain[w][l] = Absent
  BY DEF Serial, Init, NothingRead
<1> QED
  BY <1>1, InitType DEF Serial, SerialInv, Init

\* A consistent entry that opens is left without layers.
LEMMA ConsistentRead ==
    ASSUME TypeOK, NEW l \in Labels, Consistent(l), NEW b \in ReadResults(l)
    PROVE  b.layers = <<>>
<1> DEFINE f == gpgid[ScopeOf(l)]
<1>1. ScopeOf(l) # NoDir /\ entry[l].layers = Layers(f)
  BY DEF Consistent, ConsistentIn, ScopeOf
<1>2. f \in RecipientFile
  BY <1>1, ScopeInType, FileAssumption DEF TypeOK, ScopeOf
<1>3. Len(Layers(f)) = PeeledBy(l)
  <2>1. CASE f.req = "all"
    BY <1>1, <1>2, <2>1, LayersType DEF PeeledBy, RequiresAll
  <2>2. CASE f.req = "any"
    <3>1. Len(Layers(f)) = 1
      BY <1>2, <2>2, LayersType
    <3> QED
      BY <1>1, <2>2, <3>1 DEF PeeledBy, RequiresAll
  <2> QED
    BY <1>2, <2>1, <2>2 DEF RecipientFile
<1>4. b \in Blob /\ Len(b.layers) = 0
  BY <1>1, <1>3, ReadResultsType DEF TypeOK
<1>5. b.layers \in Seq(SUBSET Keys)
  BY <1>4 DEF Blob
<1> QED
  BY <1>4, <1>5, EmptySeq

LEMMA SerialStep ==
    ASSUME NEW w, Serial(w), SerialInv(w), [Next]_vars
    PROVE  SerialInv(w)'
<1>t. TypeOK /\ TypeOK'
  BY StepType DEF SerialInv
<1>w. w \in Threads /\ \A t \in Threads : t = w
  BY DEF Serial
<1>n. ~MayFail /\ ~MayCrash /\ Renames = {}
  BY DEF Serial
<1>a. ASSUME NEW d \in Dirs, NEW f \in Files, BeginRecipientSave(w, d, f)
      PROVE  SerialInv(w)'
  BY <1>t, <1>w, <1>a DEF SerialInv, BeginRecipientSave, TypeOK, NothingRead,
     Present, Consistent, ScopeOf
<1>b. ASSUME NEW l \in Labels, ReadEntry(w, l)
      PROVE  SerialInv(w)'
  <2>1. PICK b \in ReadResults(l) : plain' = [plain EXCEPT ![w][l] = b]
    BY <1>b DEF ReadEntry
  <2>2. l \in Present /\ Consistent(l)
    BY <1>b DEF SerialInv, ReadEntry
  <2>3. b.layers = <<>> /\ b # Absent
    BY <1>t, <2>2, ConsistentRead, ReadResultsType, AbsentAssumption DEF TypeOK
  <2> QED
    BY <1>t, <1>w, <1>b, <2>1, <2>2, <2>3
       DEF SerialInv, ReadEntry, TypeOK, Present, Consistent, ScopeOf
<1>c. ASSUME RejectRecipientSave(w)
      PROVE  SerialInv(w)'
  BY <1>t, <1>w, <1>c DEF SerialInv, RejectRecipientSave, Idle, NothingRead, TypeOK,
     Present, Consistent, ScopeOf
<1>d. ASSUME WriteRecipientFile(w)
      PROVE  SerialInv(w)'
  <2> DEFINE d == job[w].dir
             f == job[w].file
  <2>1. d \in Dirs /\ f \in Files
    BY <1>t, <1>w, <1>d DEF WriteRecipientFile, TypeOK, RecipientJob
  <2>2. \A l \in Present : ScopeOf(l) # NoDir /\ ScopeOf(l) \in Dirs
    BY <1>t, <1>d, ScopeInType DEF SerialInv, WriteRecipientFile, Present,
       Consistent, ConsistentIn, ScopeOf, TypeOK
  <2>3. gpgid' = [gpgid EXCEPT ![d] = f] /\ entry' = entry /\ Present' = Present
    BY <1>d DEF WriteRecipientFile, Present
  <2>a. gpgid \in [Dirs -> Files \cup {NoFile}] /\ (d = Root \/ gpgid[d] # NoFile)
    BY <1>t, <1>d DEF SerialInv, WriteRecipientFile, TypeOK
  <2>4. \A l \in Present : ScopeOf(l)' = ScopeOf(l)
    <3> SUFFICES ASSUME NEW l \in Present
                 PROVE  ScopeIn([gpgid EXCEPT ![d] = f], l) = ScopeIn(gpgid, l)
      BY <2>3 DEF ScopeOf
    <3>1. l \in Labels /\ ScopeIn(gpgid, l) # NoDir
      BY <2>2 DEF Present, ScopeOf
    <3> QED
      BY <2>1, <2>a, <3>1, ScopeStable
  <2>5. \A l \in Labels : plain[w][l] # Absent <=> l \in Present /\ ScopeOf(l) = d
    BY <1>d DEF SerialInv, WriteRecipientFile
  <2>6. \A l \in Present : ScopeOf(l) # d => Consistent(l)'
    <3> SUFFICES ASSUME NEW l \in Present, ScopeOf(l) # d PROVE Consistent(l)'
      OBVIOUS
    <3>1. Consistent(l)
      BY <1>d DEF SerialInv, WriteRecipientFile
    <3>2. gpgid'[ScopeOf(l)] = gpgid[ScopeOf(l)]
      BY <1>t, <2>2, <2>3 DEF TypeOK
    <3> QED
      BY <2>3, <2>4, <3>1, <3>2 DEF Consistent, ConsistentIn, ScopeOf
  <2>7. pc'[w] = "writing" /\ job' = job /\ plain' = plain
        /\ todo'[w] = {l \in Labels : plain[w][l] # Absent}
    BY <1>t, <1>w, <1>d DEF WriteRecipientFile, TypeOK
  <2>8. gpgid'[d] = f
    BY <1>t, <2>1, <2>3 DEF TypeOK
  <2>9. \A l \in Labels : plain[w][l] # Absent => l \in Present' /\ ScopeOf(l)' = d
    BY <2>3, <2>4, <2>5
  <2>10. \A l \in Present' : l \in todo'[w] \/ Consistent(l)'
    BY <2>3, <2>5, <2>6, <2>7 DEF Present
  <2> QED
    BY <1>t, <2>7, <2>8, <2>9, <2>10 DEF SerialInv
<1>f. ASSUME NEW l \in Labels, Reencrypt(w, l)
      PROVE  SerialInv(w)'
  <2>1. plain[w][l] \in Blob /\ plain[w][l].layers = <<>> /\ plain[w][l] # Absent
    BY <1>t, <1>w, <1>f DEF SerialInv, Reencrypt, TypeOK
  <2>2. Encrypt(job[w].file, plain[w][l]).layers = Layers(job[w].file)
    BY <1>t, <1>w, <1>f, <2>1, JobFile, EncryptType DEF Reencrypt
  <2>3. l \in Present /\ ScopeOf(l) = job[w].dir /\ gpgid[job[w].dir] = job[w].file
    BY <1>f, <2>1 DEF SerialInv, Reencrypt
  <2>4. ScopeOf(l) # NoDir
    BY <1>t, <1>w, <1>f, <2>3, RootAssumption DEF Reencrypt, TypeOK, RecipientJob
  <2>5. gpgid' = gpgid /\ entry' = [entry EXCEPT ![l] = Encrypt(job[w].file, plain[w][l])]
    BY <1>f DEF Reencrypt
  <2>6. Consistent(l)' /\ \A m \in Labels : m # l => (Consistent(m)' <=> Consistent(m))
    BY <1>t, <2>2, <2>3, <2>4, <2>5 DEF Consistent, ConsistentIn, ScopeOf, TypeOK
  <2>7. Present' = Present /\ \A m \in Labels : ScopeOf(m)' = ScopeOf(m)
    BY <1>t, <1>w, <1>f, <2>3, <2>5, ReencryptedType, <2>1, AbsentAssumption
       DEF Present, ScopeOf, TypeOK, Reencrypt
  <2>8. pc' = pc /\ job' = job /\ plain' = plain /\ todo'[w] = todo[w] \ {l} /\ pc[w] = "writing"
    BY <1>t, <1>w, <1>f DEF Reencrypt, TypeOK
  <2> QED
    BY <1>t, <2>5, <2>6, <2>7, <2>8 DEF SerialInv, Present
<1>i. ASSUME FinishRecipientSave(w)
      PROVE  SerialInv(w)'
  BY <1>t, <1>w, <1>i DEF SerialInv, FinishRecipientSave, Idle, NothingRead, TypeOK,
     Present, Consistent, ScopeOf
<1>j. ASSUME WriteEntry(w)
      PROVE  SerialInv(w)'
  <2>0. job[w].label \in Labels
        /\ Sealed(job[w]) = [secret |-> job[w].secret, layers |-> Layers(job[w].file)]
    BY <1>t, <1>w, <1>j, SealedType DEF WriteEntry
  <2>1. PICK l \in Labels : l = job[w].label /\ Sealed(job[w]).layers = Layers(job[w].file)
    BY <2>0
  <2>2. ScopeOf(l) # NoDir /\ job[w].file = gpgid[ScopeOf(l)]
    BY <1>j, <2>1 DEF SerialInv, WriteEntry
  <2>3. gpgid' = gpgid /\ entry' = [entry EXCEPT ![l] = Sealed(job[w])]
    BY <1>j, <2>1 DEF WriteEntry
  <2>4. Consistent(l)' /\ \A m \in Labels : m # l => (Consistent(m)' <=> Consistent(m))
    BY <1>t, <2>1, <2>2, <2>3 DEF Consistent, ConsistentIn, ScopeOf, TypeOK
  <2>5. \A m \in Present' : m = l \/ m \in Present
    BY <1>t, <2>3 DEF Present, TypeOK
  <2>6. \A m \in Present' : Consistent(m)'
    BY <1>j, <2>4, <2>5 DEF SerialInv, WriteEntry, Present
  <2> QED
    BY <1>t, <1>w, <1>j, <2>6 DEF SerialInv, WriteEntry, Idle, NothingRead, TypeOK
<1>k. ASSUME NEW l \in Labels, NEW s \in Secrets, NEW o \in BOOLEAN, BeginEntrySave(w, l, s, o)
      PROVE  SerialInv(w)'
  BY <1>t, <1>w, <1>k DEF SerialInv, BeginEntrySave, TypeOK, Present, Consistent, ScopeOf
<1>l. ASSUME NEW l \in Labels, DeleteEntry(w, l)
      PROVE  SerialInv(w)'
  <2>1. \A m \in Present' : m # l /\ m \in Present /\ entry'[m] = entry[m]
    BY <1>t, <1>l DEF DeleteEntry, Present, TypeOK
  <2>2. gpgid' = gpgid /\ UNCHANGED <<pc, job, todo, plain>> /\ pc[w] = "idle"
    BY <1>l DEF DeleteEntry
  <2>3. \A m \in Present' : Consistent(m)'
    BY <2>1, <2>2 DEF SerialInv, Consistent, ConsistentIn, Present
  <2> QED
    BY <1>t, <2>2, <2>3 DEF SerialInv
<1>u. ASSUME \/ \E key \in Keys : UnlockKey(key) \/ LockKey(key)
             \/ UNCHANGED vars
      PROVE  SerialInv(w)'
  BY <1>t, <1>u DEF SerialInv, UnlockKey, LockKey, vars, Present, Consistent, ScopeOf
<1>x. ~ WriteRecipientFileFails(w) /\ ~ Rollback(w) /\ ~ WriteEntryFails(w) /\ ~ Crash
      /\ \A l \in Labels : ~ ReencryptFails(w, l)
  BY <1>n DEF WriteRecipientFileFails, Rollback, WriteEntryFails, Crash, ReencryptFails, SerialInv
<1> QED
  BY <1>a, <1>b, <1>c, <1>d, <1>f, <1>i, <1>j, <1>k, <1>l, <1>u, <1>n, <1>w, <1>x
     DEF Next, WorkerStep

\* Saving recipients and entries, one after the other and without failures, keeps
\* every entry encrypted for the recipients of the nearest .gpg-id.
THEOREM SerialEntriesMatch == ASSUME NEW w, Serial(w) PROVE Spec => []EntriesMatchRecipients
<1>1. Init => SerialInv(w)
  BY SerialInit
<1>2. SerialInv(w) /\ [Next]_vars => SerialInv(w)'
  BY SerialStep
<1>3. SerialInv(w) => EntriesMatchRecipients
  BY DEF SerialInv, EntriesMatchRecipients, Quiet, Serial
<1> QED
  BY <1>1, <1>2, <1>3, PTL DEF Spec

-----------------------------------------------------------------------------
(* Between two operations the keys of the recipients open their entries *)

\* Every recipient file names a recipient: one that names none is refused before
\* anything is encrypted for it.
NamesRecipients == \A f \in Files : f.ids # <<>>

LEMMA ConsistentEntriesOpen ==
    ASSUME TypeOK, NamesRecipients, NEW l \in Present, Consistent(l),
           Ids(gpgid[ScopeOf(l)]) \subseteq unlocked
    PROVE  ReadResults(l) = {[secret |-> entry[l].secret, layers |-> <<>>]}
<1> DEFINE f == gpgid[ScopeOf(l)]
<1>1. l \in Labels /\ entry[l] \in Blob /\ entry[l] # Absent
  BY DEF TypeOK, Present
<1>2. ScopeOf(l) # NoDir /\ entry[l].layers = Layers(f)
  BY DEF Consistent, ConsistentIn, ScopeOf
<1>3. f \in Files /\ f \in RecipientFile
  BY <1>1, <1>2, ScopeInType, FileAssumption DEF TypeOK, ScopeOf
<1>4. f.ids \in Seq(Keys) /\ f.req \in {"any", "all"}
  BY <1>3 DEF RecipientFile
<1>5. Len(f.ids) \in Nat /\ Len(f.ids) > 0 /\ f.ids[1] \in Ids(f)
  BY <1>3, <1>4, EmptySeq DEF NamesRecipients, Ids
<1>6. OpenedBy(l) /\ PeeledBy(l) = Len(Layers(f))
  <2>1. CASE f.req = "all"
    <3>1. RequiresAll(l) /\ Layers(f) = [i \in 1..Len(f.ids) |-> {f.ids[i]}]
      BY <1>2, <2>1 DEF RequiresAll, Layers
    <3>2. Len(Layers(f)) = Len(f.ids)
      BY <1>3, <2>1, LayersType
    <3>3. \A i \in 1..Len(f.ids) : f.ids[i] \in unlocked /\ f.ids[i] \in Layers(f)[i]
      BY <3>1 DEF Ids
    <3>4. OpensAll(entry[l], f.ids)
      BY <1>2, <1>5, <3>2, <3>3 DEF OpensAll
    <3> QED
      BY <3>1, <3>2, <3>4 DEF OpenedBy, PeeledBy
  <2>2. CASE f.req = "any"
    <3>1. ~RequiresAll(l) /\ Layers(f) = <<Ids(f)>> /\ Len(Layers(f)) = 1
      BY <1>3, <2>2, LayersType DEF RequiresAll
    <3>2. OpensAny(entry[l])
      BY <1>2, <1>5, <3>1 DEF OpensAny
    <3> QED
      BY <3>1, <3>2 DEF OpenedBy, PeeledBy
  <2> QED
    BY <1>4, <2>1, <2>2
<1> DEFINE b == Peel(entry[l], PeeledBy(l))
<1>7. ReadResults(l) = {b}
  BY <1>1, <1>6 DEF ReadResults
<1>8. b \in ReadResults(l)
  BY <1>7
<1>9. b.layers = <<>>
  BY <1>1, <1>8, ConsistentRead
<1>10. b = [secret |-> entry[l].secret, layers |-> <<>>]
  BY <1>9 DEF Peel
<1> QED
  BY <1>7, <1>10

\* Saving recipients and entries, one after the other and without failures, whoever
\* has every recipient's key unlocked reads the secret that was saved, and never the
\* text of an inner layer, whichever private-key requirements came and went.
THEOREM SerialReadsReturnTheSecret ==
    ASSUME NEW w, Serial(w), NamesRecipients
    PROVE  Spec => []QuietReadsReturnTheSecret
<1>1. TypeOK /\ EntriesMatchRecipients => QuietReadsReturnTheSecret
  BY ConsistentEntriesOpen
     DEF EntriesMatchRecipients, QuietReadsReturnTheSecret
<1> QED
  BY <1>1, TypeCorrect, SerialEntriesMatch, PTL

-----------------------------------------------------------------------------
(* One worker at a time, failing or dying anywhere *)

\* The entry starts with the layers that encrypting for the file produces.
StartsWith(b, f) ==
    LET new == Layers(f)
    IN  Len(new) <= Len(b.layers) /\ SubSeq(b.layers, 1, Len(new)) = new

\* A save has collected, read and then rewritten exactly the scope it set out with.
ScopeInv(w) ==
    /\ pc[w] = "reading" =>
          /\ job[w].dir = Root \/ gpgid[job[w].dir] # NoFile
          /\ \A l \in Present : ScopeOf(l) # NoDir
          /\ \A l \in Present : ScopeOf(l) = job[w].dir =>
                plain[w][l] # Absent \/ l \in todo[w]
    /\ pc[w] = "writing" =>
          /\ gpgid[job[w].dir] = job[w].file
          /\ \A l \in Present : ScopeOf(l) = job[w].dir =>
                l \in todo[w] \/ StartsWith(entry[l], job[w].file)

LEMMA EncryptStartsWith ==
    ASSUME NEW f \in RecipientFile, NEW b \in Blob
    PROVE  StartsWith(Encrypt(f, b), f)
<1> DEFINE new == Layers(f)
           all == Encrypt(f, b).layers
<1>1. new \in Seq(SUBSET Keys) /\ b.layers \in Seq(SUBSET Keys)
  BY LayersType DEF Blob
<1>2. all = new \o b.layers
  BY DEF Encrypt
<1>3. /\ all \in Seq(SUBSET Keys) /\ Len(all) = Len(new) + Len(b.layers)
      /\ Len(new) \in Nat /\ Len(b.layers) \in Nat
      /\ \A i \in 1..Len(new) : all[i] = new[i]
  BY <1>1, <1>2, ConcatProperties
<1>4. SubSeq(all, 1, Len(new)) = new
  <2> DEFINE part == SubSeq(all, 1, Len(new))
  <2>1. /\ part \in Seq(SUBSET Keys) /\ Len(part) = Len(new)
        /\ \A i \in 1..Len(new) : part[i] = all[i]
    <3>1. \A i \in 1..Len(new) : all[i] \in SUBSET Keys
      BY <1>3, ElementOfSeq
    <3>2. \A i \in 1..Len(new) : i = 1 + i - 1
      BY <1>3
    <3> QED
      BY <1>3, <3>1, <3>2, SubSeqProperties
  <2>2. \A i \in 1..Len(new) : part[i] = new[i]
    BY <1>3, <2>1
  <2> QED
    BY <1>1, <2>1, <2>2, SeqEqual
<1> QED
  BY <1>3, <1>4 DEF StartsWith

LEMMA ScopeKept ==
    ASSUME NEW w, Threads = {w}, TypeOK, ScopeInv(w), [Next]_vars
    PROVE  ScopeInv(w)'
<1>w. w \in Threads /\ \A t \in Threads : t = w
  OBVIOUS
<1>t. TypeOK'
  BY StepType
<1>i. ASSUME Idle(w) PROVE ScopeInv(w)'
  <2>1. pc'[w] = "idle"
    BY <1>i DEF Idle, TypeOK
  <2> QED
    BY <2>1 DEF ScopeInv
<1>a. ASSUME NEW d \in Dirs, NEW f \in Files, BeginRecipientSave(w, d, f)
      PROVE  ScopeInv(w)'
  BY <1>a DEF ScopeInv, BeginRecipientSave, TypeOK, Present, ScopeOf
<1>b. ASSUME NEW l \in Labels, ReadEntry(w, l)
      PROVE  ScopeInv(w)'
  <2>1. PICK b \in ReadResults(l) : plain' = [plain EXCEPT ![w][l] = b]
    BY <1>b DEF ReadEntry
  <2>2. b # Absent
    BY ReadResultsType, AbsentAssumption DEF TypeOK
  <2>3. /\ UNCHANGED <<gpgid, entry, pc, job>> /\ pc[w] = "reading"
        /\ todo'[w] = todo[w] \ {l} /\ plain'[w] = [plain[w] EXCEPT ![l] = b]
    BY <1>b, <2>1 DEF ReadEntry, TypeOK
  <2>4. \A m \in Labels : plain'[w][m] = IF m = l THEN b ELSE plain[w][m]
    BY <2>3 DEF TypeOK
  <2> QED
    BY <2>2, <2>3, <2>4 DEF ScopeInv, Present, ScopeOf
<1>c. ASSUME \/ RejectRecipientSave(w) \/ WriteRecipientFileFails(w) \/ Rollback(w)
             \/ FinishRecipientSave(w) \/ WriteEntry(w) \/ WriteEntryFails(w)
      PROVE  ScopeInv(w)'
  BY <1>i, <1>c DEF RejectRecipientSave, WriteRecipientFileFails, Rollback,
                    FinishRecipientSave, WriteEntry, WriteEntryFails
<1>d. ASSUME WriteRecipientFile(w)
      PROVE  ScopeInv(w)'
  <2> DEFINE d == job[w].dir
             f == job[w].file
  <2>1. d \in Dirs /\ f \in Files
    BY <1>d DEF WriteRecipientFile, TypeOK, RecipientJob
  <2>2. /\ gpgid' = [gpgid EXCEPT ![d] = f] /\ entry' = entry /\ Present' = Present
        /\ todo' = [todo EXCEPT ![w] = {l \in Labels : plain[w][l] # Absent}]
        /\ pc'[w] = "writing" /\ job' = job /\ todo[w] = {}
    BY <1>d DEF WriteRecipientFile, Present, TypeOK
  <2>3. gpgid \in [Dirs -> Files \cup {NoFile}] /\ (d = Root \/ gpgid[d] # NoFile)
    BY <1>d DEF ScopeInv, WriteRecipientFile, TypeOK
  <2>4. \A l \in Present : ScopeOf(l)' = ScopeOf(l)
    <3> SUFFICES ASSUME NEW l \in Present
                 PROVE  ScopeIn([gpgid EXCEPT ![d] = f], l) = ScopeIn(gpgid, l)
      BY <2>2 DEF ScopeOf
    <3>1. l \in Labels /\ ScopeIn(gpgid, l) # NoDir
      BY <1>d DEF ScopeInv, WriteRecipientFile, Present, ScopeOf
    <3> QED
      BY <2>1, <2>3, <3>1, ScopeStable
  <2>5. \A l \in Present : ScopeOf(l) = d => plain[w][l] # Absent
    BY <1>d, <2>2 DEF ScopeInv, WriteRecipientFile
  <2>6. gpgid'[d] = f /\ todo'[w] = {l \in Labels : plain[w][l] # Absent}
    BY <2>1, <2>2, <2>3 DEF TypeOK
  <2> QED
    BY <2>2, <2>4, <2>5, <2>6 DEF ScopeInv, Present
<1>f. ASSUME NEW l \in Labels, Reencrypt(w, l)
      PROVE  ScopeInv(w)'
  <2>1. plain[w][l] \in Blob /\ plain[w][l] # Absent /\ job[w].file \in RecipientFile
    BY <1>f, JobFile DEF Reencrypt, TypeOK
  <2>2. /\ entry' = [entry EXCEPT ![l] = Encrypt(job[w].file, plain[w][l])]
        /\ UNCHANGED <<gpgid, pc, job, plain>> /\ pc[w] = "writing"
        /\ todo'[w] = todo[w] \ {l}
    BY <1>f DEF Reencrypt, TypeOK
  <2>3. StartsWith(entry'[l], job[w].file)
    <3>1. entry'[l] = Encrypt(job[w].file, plain[w][l])
      BY <2>2 DEF TypeOK
    <3> QED
      BY <2>1, <3>1, EncryptStartsWith
  <2>4. \A m \in Present' : m = l \/ (m \in Present /\ entry'[m] = entry[m])
    BY <2>2 DEF TypeOK, Present
  <2>5. \A m \in Labels : ScopeOf(m)' = ScopeOf(m)
    BY <2>2 DEF ScopeOf
  <2> QED
    BY <2>2, <2>3, <2>4, <2>5 DEF ScopeInv, Present
<1>g. ASSUME NEW l \in Labels, ReencryptFails(w, l)
      PROVE  ScopeInv(w)'
  <2>1. pc'[w] = "rollback"
    BY <1>g DEF ReencryptFails, TypeOK
  <2> QED
    BY <2>1 DEF ScopeInv
<1>k. ASSUME NEW l \in Labels, NEW s \in Secrets, NEW o \in BOOLEAN, BeginEntrySave(w, l, s, o)
      PROVE  ScopeInv(w)'
  <2>1. pc'[w] = "saving"
    BY <1>k DEF BeginEntrySave, TypeOK
  <2> QED
    BY <2>1 DEF ScopeInv
<1>l. ASSUME \/ \E l \in Labels : DeleteEntry(w, l)
             \/ \E r \in Renames : RenameEntry(w, r[1], r[2])
      PROVE  ScopeInv(w)'
  BY <1>l DEF ScopeInv, DeleteEntry, RenameEntry
<1>u. ASSUME \/ \E key \in Keys : UnlockKey(key) \/ LockKey(key)
             \/ UNCHANGED vars
      PROVE  ScopeInv(w)'
  BY <1>u DEF ScopeInv, UnlockKey, LockKey, vars, Present, ScopeOf
<1>x. ASSUME Crash
      PROVE  ScopeInv(w)'
  BY <1>x DEF ScopeInv, Crash
<1> QED
  BY <1>w, <1>a, <1>b, <1>c, <1>d, <1>f, <1>g, <1>k, <1>l, <1>u, <1>x
     DEF Next, WorkerStep

\* When a save of recipients is about to report success, every entry its directory
\* governs is encrypted for the new recipients first, although calls may have failed
\* and the process died any number of times before
\* (save_store_recipients_for_relative_dir_with); entries may be saved, moved and
\* removed in between, but by no second worker.
THEOREM SavesUnifyTheirScope ==
    ASSUME NEW w, Threads = {w}
    PROVE  Spec => []SavedScopeIsUnified
<1>1. Init => ScopeInv(w)
  BY DEF Init, ScopeInv
<1>2. TypeOK /\ ScopeInv(w) /\ [Next]_vars => ScopeInv(w)'
  BY ScopeKept
<1>3. ScopeInv(w) => SavedScopeIsUnified
  BY DEF ScopeInv, SavedScopeIsUnified, StartsWith
<1> QED
  BY <1>1, <1>2, <1>3, TypeCorrect, PTL DEF Spec

-----------------------------------------------------------------------------
(* One worker at a time, nothing failing: the store implements the vault *)

\* What the text of a save in progress has to do with the entries on disk, and
\* with the scope as it was before the directory's file was replaced.
VaultInv(w) ==
    /\ pc[w] = "reading" =>
          \A l \in Labels : plain[w][l] # Absent => plain[w][l].secret = entry[l].secret
    /\ pc[w] = "writing" =>
          \A l \in Labels :
             /\ plain[w][l] # Absent <=>
                   /\ l \in Present
                   /\ ScopeIn([gpgid EXCEPT ![job[w].dir] = prev[w]], l) = job[w].dir
             /\ plain[w][l] # Absent => prev[w] \in Files
             /\ plain[w][l] # Absent /\ l \notin todo[w] =>
                   entry[l] = Encrypt(job[w].file, plain[w][l])

LEMMA ViewsNow ==
    ASSUME NEW w, Serial(w), TypeOK, pc[w] # "rollback"
    PROVE  /\ pc[w] # "writing" => RcpView = gpgid /\ SealedView = entry
           /\ pc[w] = "writing" =>
                 /\ RcpView = [gpgid EXCEPT ![job[w].dir] = prev[w]]
                 /\ SealedView = [l \in Labels |->
                       IF plain[w][l] # Absent THEN Encrypt(prev[w], plain[w][l]) ELSE entry[l]]
<1>1. CASE pc[w] # "writing"
  <2>1. Saving = {}
    BY <1>1 DEF Saving, Serial
  <2> QED
    BY <1>1, <2>1 DEF RcpView, SealedView, TypeOK
<1>2. CASE pc[w] = "writing"
  <2>1. Saving = {w}
    BY <1>2 DEF Saving, Serial
  <2>2. \A d \in Dirs : RcpView[d] = IF job[w].dir = d THEN prev[w] ELSE gpgid[d]
    BY <2>1 DEF RcpView
  <2>3. \A l \in Labels : SealedView[l] =
           IF plain[w][l] # Absent THEN Encrypt(prev[w], plain[w][l]) ELSE entry[l]
    BY <2>1 DEF SealedView
  <2>4. RcpView = [gpgid EXCEPT ![job[w].dir] = prev[w]]
    BY <2>2 DEF RcpView, TypeOK
  <2>5. SealedView = [l \in Labels |->
           IF plain[w][l] # Absent THEN Encrypt(prev[w], plain[w][l]) ELSE entry[l]]
    BY <2>3 DEF SealedView
  <2> QED
    BY <1>2, <2>4, <2>5
<1> QED
  BY <1>1, <1>2

LEMMA ViewsNext ==
    ASSUME NEW w, Serial(w), TypeOK', pc'[w] # "rollback"
    PROVE  /\ pc'[w] # "writing" => RcpView' = gpgid' /\ SealedView' = entry'
           /\ pc'[w] = "writing" =>
                 /\ RcpView' = [gpgid' EXCEPT ![job'[w].dir] = prev'[w]]
                 /\ SealedView' = [l \in Labels |->
                       IF plain'[w][l] # Absent THEN Encrypt(prev'[w], plain'[w][l])
                                                ELSE entry'[l]]
<1>1. CASE pc'[w] # "writing"
  <2>1. Saving' = {}
    BY <1>1 DEF Saving, Serial
  <2> QED
    BY <1>1, <2>1 DEF RcpView, SealedView, TypeOK
<1>2. CASE pc'[w] = "writing"
  <2>1. Saving' = {w}
    BY <1>2 DEF Saving, Serial
  <2>2. \A d \in Dirs : RcpView'[d] = IF job'[w].dir = d THEN prev'[w] ELSE gpgid'[d]
    BY <2>1 DEF RcpView
  <2>3. \A l \in Labels : SealedView'[l] =
           IF plain'[w][l] # Absent THEN Encrypt(prev'[w], plain'[w][l]) ELSE entry'[l]
    BY <2>1 DEF SealedView
  <2>4. RcpView' = [gpgid' EXCEPT ![job'[w].dir] = prev'[w]]
    BY <2>2 DEF RcpView, TypeOK
  <2>5. SealedView' = [l \in Labels |->
           IF plain'[w][l] # Absent THEN Encrypt(prev'[w], plain'[w][l]) ELSE entry'[l]]
    BY <2>3 DEF SealedView
  <2> QED
    BY <1>2, <2>4, <2>5
<1> QED
  BY <1>1, <1>2

LEMMA VaultKept ==
    ASSUME NEW w, Serial(w), SerialInv(w), VaultInv(w), [Next]_vars
    PROVE  VaultInv(w)'
<1>t. TypeOK /\ TypeOK'
  BY StepType DEF SerialInv
<1>w. w \in Threads /\ \A t \in Threads : t = w
  BY DEF Serial
<1>e. ASSUME pc'[w] \notin {"reading", "writing"}
      PROVE  VaultInv(w)'
  BY <1>e DEF VaultInv
<1>a. ASSUME NEW d \in Dirs, NEW f \in Files, BeginRecipientSave(w, d, f)
      PROVE  VaultInv(w)'
  BY <1>t, <1>w, <1>a DEF VaultInv, BeginRecipientSave, TypeOK, NothingRead
<1>b. ASSUME NEW l \in Labels, ReadEntry(w, l)
      PROVE  VaultInv(w)'
  <2>1. PICK b \in ReadResults(l) : plain' = [plain EXCEPT ![w][l] = b]
    BY <1>b DEF ReadEntry
  <2>2. b.secret = entry[l].secret
    BY <1>t, ReadResultsType DEF TypeOK
  <2>3. \A m \in Labels : plain'[w][m] = IF m = l THEN b ELSE plain[w][m]
    BY <1>t, <1>w, <2>1 DEF TypeOK
  <2> QED
    BY <1>b, <2>2, <2>3 DEF VaultInv, ReadEntry
<1>d. ASSUME WriteRecipientFile(w)
      PROVE  VaultInv(w)'
  <2> DEFINE d == job[w].dir
             f == job[w].file
  <2>1. d \in Dirs /\ f \in Files
    BY <1>t, <1>w, <1>d DEF WriteRecipientFile, TypeOK, RecipientJob
  <2>2. /\ gpgid' = [gpgid EXCEPT ![d] = f] /\ entry' = entry /\ Present' = Present
        /\ job' = job /\ plain' = plain
        /\ pc'[w] = "writing" /\ prev'[w] = gpgid[d]
        /\ todo'[w] = {l \in Labels : plain[w][l] # Absent}
    BY <1>t, <1>w, <1>d DEF WriteRecipientFile, Present, TypeOK
  <2>3. [gpgid' EXCEPT ![d] = prev'[w]] = gpgid
    BY <1>t, <2>1, <2>2 DEF TypeOK
  <2>4. \A l \in Labels : plain[w][l] # Absent <=> l \in Present /\ ScopeOf(l) = d
    BY <1>d DEF SerialInv, WriteRecipientFile
  <2>5. \A l \in Labels : ScopeOf(l) = d => gpgid[d] \in Files
    <3> SUFFICES ASSUME NEW l \in Labels, ScopeIn(gpgid, l) = d PROVE gpgid[d] \in Files
      BY DEF ScopeOf
    <3>1. gpgid \in [Dirs -> Files \cup {NoFile}] /\ d # NoDir
      BY <1>t, <2>1, RootAssumption DEF TypeOK
    <3> QED
      BY <3>1, ScopeInType
  <2>6. \A l \in Labels : plain'[w][l] # Absent <=>
           l \in Present' /\ ScopeIn([gpgid' EXCEPT ![job'[w].dir] = prev'[w]], l) = job'[w].dir
    BY <2>2, <2>3, <2>4 DEF ScopeOf
  <2>7. \A l \in Labels : plain'[w][l] # Absent => prev'[w] \in Files
    BY <2>2, <2>4, <2>5
  <2>8. \A l \in Labels : ~ (plain'[w][l] # Absent /\ l \notin todo'[w])
    BY <2>2
  <2> QED
    BY <2>2, <2>6, <2>7, <2>8 DEF VaultInv
<1>f. ASSUME NEW l \in Labels, Reencrypt(w, l)
      PROVE  VaultInv(w)'
  <2>1. plain[w][l] # Absent /\ pc[w] = "writing"
    BY <1>t, <1>w, <1>f DEF Reencrypt, TypeOK
  <2>2. /\ entry' = [entry EXCEPT ![l] = Encrypt(job[w].file, plain[w][l])]
        /\ UNCHANGED <<gpgid, pc, job, plain, prev>> /\ todo'[w] = todo[w] \ {l}
    BY <1>t, <1>w, <1>f DEF Reencrypt, TypeOK
  <2>3. \A m \in Labels : entry'[m] =
           IF m = l THEN Encrypt(job[w].file, plain[w][l]) ELSE entry[m]
    BY <1>t, <2>2 DEF TypeOK
  <2>4. Encrypt(job[w].file, plain[w][l]) # Absent
    BY <1>t, <1>w, <2>1, ReencryptedType, AbsentAssumption
  <2>5. l \in Present
    BY <2>1 DEF SerialInv
  <2>6. Present' = Present
    BY <2>3, <2>4, <2>5 DEF Present
  <2> QED
    BY <2>1, <2>2, <2>3, <2>6 DEF VaultInv
<1>c. ASSUME RejectRecipientSave(w) \/ FinishRecipientSave(w) \/ WriteEntry(w)
      PROVE  VaultInv(w)'
  <2>1. pc'[w] = "idle"
    BY <1>t, <1>w, <1>c DEF RejectRecipientSave, FinishRecipientSave, WriteEntry, Idle, TypeOK
  <2> QED
    BY <1>e, <2>1
<1>k. ASSUME NEW l \in Labels, NEW s \in Secrets, NEW o \in BOOLEAN, BeginEntrySave(w, l, s, o)
      PROVE  VaultInv(w)'
  BY <1>t, <1>w, <1>e, <1>k DEF BeginEntrySave, TypeOK
<1>l. ASSUME NEW l \in Labels, DeleteEntry(w, l)
      PROVE  VaultInv(w)'
  BY <1>e, <1>l DEF DeleteEntry
<1>u. ASSUME \/ \E key \in Keys : UnlockKey(key) \/ LockKey(key)
             \/ UNCHANGED vars
      PROVE  VaultInv(w)'
  BY <1>u DEF VaultInv, UnlockKey, LockKey, vars, Present
<1>x. /\ ~ WriteRecipientFileFails(w) /\ ~ Rollback(w) /\ ~ WriteEntryFails(w) /\ ~ Crash
      /\ \A l \in Labels : ~ ReencryptFails(w, l)
      /\ Renames = {}
  BY DEF WriteRecipientFileFails, Rollback, WriteEntryFails, Crash, ReencryptFails,
         SerialInv, Serial
<1> QED
  BY <1>a, <1>b, <1>c, <1>d, <1>f, <1>k, <1>l, <1>u, <1>w, <1>x DEF Next, WorkerStep

\* The vault computes scopes as the store does.
LEMMA VaultScopes ==
    /\ \A g, l : V!ScopeIn(g, l) = ScopeIn(g, l)
    /\ \A f : V!Layers(f) = Layers(f)
    /\ \A g, e, l : V!ConsistentIn(g, e, l) <=> ConsistentIn(g, e, l)
<1>1. \A g, l : V!ScopeDepths(g, l) = ScopeDepths(g, l)
  BY DEF V!ScopeDepths, ScopeDepths
<1>2. \A g, l : V!ScopeIn(g, l) = ScopeIn(g, l)
  <2> SUFFICES ASSUME NEW g, NEW l PROVE V!ScopeIn(g, l) = ScopeIn(g, l)
    OBVIOUS
  <2> DEFINE Nearest(D) == IF D = {} THEN NoDir
                           ELSE Chain[l][CHOOSE i \in D : \A j \in D : i <= j]
  <2>1. V!ScopeIn(g, l) = Nearest(V!ScopeDepths(g, l))
    BY DEF V!ScopeIn
  <2>2. ScopeIn(g, l) = Nearest(ScopeDepths(g, l))
    BY DEF ScopeIn
  <2> HIDE DEF Nearest
  <2> QED
    BY <1>1, <2>1, <2>2
<1>3. \A f : V!Layers(f) = Layers(f)
  BY DEF V!Layers, Layers, V!Ids, Ids
<1> QED
  BY <1>2, <1>3 DEF V!ConsistentIn, ConsistentIn

LEMMA VaultStarts == ASSUME NEW w, Serial(w), Init PROVE V!VaultInit
<1>1. RcpView = gpgid /\ SealedView = entry
  BY ViewsNow, InitType DEF Serial, Init
<1>2. V!Kept = Present
  BY <1>1 DEF V!Kept, Present
<1>3. \A l \in Present : V!ConsistentIn(gpgid, entry, l)
  BY VaultScopes DEF Init, Consistent
<1>4. /\ gpgid \in [Dirs -> Files \cup {NoFile}]
      /\ entry \in [Labels -> {Absent} \cup
                       {[secret |-> s, layers |-> V!Layers(f)] : s \in Secrets, f \in Files}]
  BY VaultScopes DEF Init
<1> QED
  BY <1>1, <1>2, <1>3, <1>4 DEF V!VaultInit

\* The end of a save is one replacement of the recipients and of every seal they
\* govern; the steps before it change nothing the vault sees.
LEMMA VaultSteps ==
    ASSUME NEW w, Serial(w), SerialInv(w), VaultInv(w), [Next]_vars
    PROVE  [V!VaultNext]_<<RcpView, SealedView>>
<1>t. TypeOK /\ TypeOK' /\ SerialInv(w)'
  BY StepType, SerialStep DEF SerialInv
<1>w. w \in Threads /\ \A t \in Threads : t = w
  BY DEF Serial
<1>r. pc[w] # "rollback" /\ pc'[w] # "rollback"
  BY <1>t DEF SerialInv
<1> DEFINE Old == [l \in Labels |->
              IF plain[w][l] # Absent THEN Encrypt(prev[w], plain[w][l]) ELSE entry[l]]
<1>v. /\ pc[w] # "writing" => RcpView = gpgid /\ SealedView = entry
      /\ pc[w] = "writing" => /\ RcpView = [gpgid EXCEPT ![job[w].dir] = prev[w]]
                              /\ SealedView = Old
      /\ pc'[w] # "writing" => RcpView' = gpgid' /\ SealedView' = entry'
  BY <1>t, <1>r, ViewsNow, ViewsNext
<1>s. ASSUME pc[w] # "writing", pc'[w] # "writing", gpgid' = gpgid, entry' = entry
      PROVE  UNCHANGED <<RcpView, SealedView>>
  BY <1>s, <1>v
<1>a. ASSUME NEW d \in Dirs, NEW f \in Files, BeginRecipientSave(w, d, f)
      PROVE  UNCHANGED <<RcpView, SealedView>>
  BY <1>t, <1>w, <1>a, <1>s DEF BeginRecipientSave, TypeOK
<1>b. ASSUME NEW l \in Labels, ReadEntry(w, l)
      PROVE  UNCHANGED <<RcpView, SealedView>>
  BY <1>b, <1>s DEF ReadEntry
<1>c. ASSUME RejectRecipientSave(w)
      PROVE  UNCHANGED <<RcpView, SealedView>>
  BY <1>t, <1>w, <1>c, <1>s DEF RejectRecipientSave, Idle, TypeOK
<1>d. ASSUME WriteRecipientFile(w)
      PROVE  UNCHANGED <<RcpView, SealedView>>
  <2> DEFINE d == job[w].dir
             f == job[w].file
  <2>1. d \in Dirs /\ f \in Files
    BY <1>t, <1>w, <1>d DEF WriteRecipientFile, TypeOK, RecipientJob
  <2>2. /\ gpgid' = [gpgid EXCEPT ![d] = f] /\ entry' = entry
        /\ job' = job /\ plain' = plain
        /\ pc[w] = "reading" /\ pc'[w] = "writing" /\ prev'[w] = gpgid[d]
    BY <1>t, <1>w, <1>d DEF WriteRecipientFile, TypeOK
  <2>3. [gpgid' EXCEPT ![d] = prev'[w]] = gpgid
    BY <1>t, <2>1, <2>2 DEF TypeOK
  <2>4. RcpView' = gpgid /\ SealedView' = [l \in Labels |->
           IF plain[w][l] # Absent THEN Encrypt(gpgid[d], plain[w][l]) ELSE entry[l]]
    BY <1>t, <1>r, <2>2, <2>3, ViewsNext
  <2>5. ASSUME NEW l \in Labels, plain[w][l] # Absent
        PROVE  Encrypt(gpgid[d], plain[w][l]) = entry[l]
    <3>1. l \in Present /\ ScopeOf(l) = d /\ Consistent(l)
      BY <1>d, <2>2, <2>5 DEF SerialInv, WriteRecipientFile
    <3>2. entry[l].layers = Layers(gpgid[d]) /\ entry[l] \in Blob /\ gpgid[d] \in RecipientFile
      <4>1. ScopeIn(gpgid, l) = d /\ d # NoDir /\ gpgid \in [Dirs -> Files \cup {NoFile}]
        BY <1>t, <2>1, <3>1, RootAssumption DEF TypeOK, ScopeOf
      <4> QED
        BY <1>t, <3>1, <4>1, ScopeInType, FileAssumption
           DEF Consistent, ConsistentIn, TypeOK, Present
    <3>3. plain[w][l] \in Blob /\ plain[w][l].layers = <<>>
      BY <1>t, <1>w, <2>5 DEF SerialInv, TypeOK
    <3>4. plain[w][l].secret = entry[l].secret
      BY <2>2, <2>5 DEF VaultInv
    <3>5. Encrypt(gpgid[d], plain[w][l])
             = [secret |-> entry[l].secret, layers |-> entry[l].layers]
      BY <3>2, <3>3, <3>4, EncryptType
    <3> QED
      BY <3>2, <3>5 DEF Blob
  <2>6. SealedView' = entry
    BY <1>t, <2>4, <2>5 DEF TypeOK
  <2> QED
    BY <1>v, <2>2, <2>4, <2>6
<1>f. ASSUME NEW l \in Labels, Reencrypt(w, l)
      PROVE  UNCHANGED <<RcpView, SealedView>>
  <2>1. /\ entry' = [entry EXCEPT ![l] = Encrypt(job[w].file, plain[w][l])]
        /\ UNCHANGED <<gpgid, pc, job, plain, prev>> /\ pc[w] = "writing"
        /\ plain[w][l] # Absent
    BY <1>t, <1>w, <1>f DEF Reencrypt, TypeOK
  <2>2. RcpView' = RcpView
    BY <1>t, <1>r, <1>v, <2>1, ViewsNext
  <2>3. SealedView' = [m \in Labels |->
           IF plain[w][m] # Absent THEN Encrypt(prev[w], plain[w][m]) ELSE entry'[m]]
    BY <1>t, <1>r, <2>1, ViewsNext
  <2>4. \A m \in Labels : plain[w][m] # Absent \/ entry'[m] = entry[m]
    BY <1>t, <2>1 DEF TypeOK
  <2> QED
    BY <1>v, <2>1, <2>2, <2>3, <2>4
<1>i. ASSUME FinishRecipientSave(w)
      PROVE  V!VaultNext
  <2> DEFINE d == job[w].dir
             f == job[w].file
             new(l) == IF l \in V!Kept /\ V!ScopeIn(RcpView, l) = d
                       THEN [secret |-> SealedView[l].secret, layers |-> V!Layers(f)]
                       ELSE SealedView[l]
  <2>1. /\ d \in Dirs /\ f \in Files /\ f \in RecipientFile
        /\ gpgid' = gpgid /\ entry' = entry
        /\ pc[w] = "writing" /\ pc'[w] = "idle" /\ todo[w] = {} /\ gpgid[d] = f
    <3>1. pc[w] = "writing" /\ Idle(w) /\ todo[w] = {} /\ gpgid' = gpgid /\ entry' = entry
      BY <1>i DEF FinishRecipientSave
    <3>2. d \in Dirs
      BY <1>t, <1>w, <3>1 DEF TypeOK, RecipientJob
    <3> QED
      BY <1>t, <1>w, <3>1, <3>2, JobFile DEF Idle, SerialInv, TypeOK
  <2>2. /\ RcpView = [gpgid EXCEPT ![d] = prev[w]] /\ SealedView = Old
        /\ RcpView' = gpgid /\ SealedView' = entry
    BY <1>v, <2>1
  <2>3. RcpView' = [RcpView EXCEPT ![d] = f]
    BY <1>t, <2>1, <2>2 DEF TypeOK
  <2>4. ASSUME NEW l \in Labels, plain[w][l] # Absent
        PROVE  entry[l] = new(l)
    <3>1. /\ ScopeIn(RcpView, l) = d /\ prev[w] \in RecipientFile
          /\ entry[l] = Encrypt(f, plain[w][l])
      BY <2>1, <2>2, <2>4, FileAssumption DEF VaultInv
    <3>2. plain[w][l] \in Blob /\ plain[w][l].layers = <<>>
      BY <1>t, <1>w, <2>4 DEF SerialInv, TypeOK
    <3>3. SealedView[l] = Encrypt(prev[w], plain[w][l])
      BY <2>2, <2>4
    <3>4. SealedView[l] \in Blob /\ SealedView[l].secret = plain[w][l].secret
      <4>1. SealedView[l] \in Blob
        BY <3>1, <3>2, <3>3, EncryptType
      <4>2. Encrypt(prev[w], plain[w][l]).secret = plain[w][l].secret
        BY DEF Encrypt
      <4> QED
        BY <3>3, <4>1, <4>2
    <3>5. l \in V!Kept /\ V!ScopeIn(RcpView, l) = d
      BY <3>1, <3>4, VaultScopes, AbsentAssumption DEF V!Kept
    <3>6. entry[l] = [secret |-> plain[w][l].secret, layers |-> Layers(f)]
      BY <2>1, <3>1, <3>2, EncryptType
    <3> QED
      BY <3>4, <3>5, <3>6, VaultScopes
  <2>5. ASSUME NEW l \in Labels, plain[w][l] = Absent
        PROVE  entry[l] = new(l)
    <3>1. SealedView[l] = entry[l]
      BY <2>2, <2>5
    <3>2. ~ (l \in Present /\ ScopeIn(RcpView, l) = d)
      BY <2>1, <2>2, <2>5 DEF VaultInv
    <3>3. V!ScopeIn(RcpView, l) = ScopeIn(RcpView, l)
      BY VaultScopes
    <3>4. ~ (l \in V!Kept /\ V!ScopeIn(RcpView, l) = d)
      BY <3>1, <3>2, <3>3 DEF V!Kept, Present
    <3> QED
      BY <3>1, <3>4
  <2>6. entry = [l \in Labels |-> new(l)]
    <3>1. \A l \in Labels : entry[l] = new(l)
      BY <2>4, <2>5
    <3> HIDE DEF new
    <3> QED
      BY <1>t, <3>1 DEF TypeOK
  <2>7. V!ReplaceRecipients(d, f)
    BY <2>2, <2>3, <2>6 DEF V!ReplaceRecipients
  <2> QED
    BY <2>1, <2>7 DEF V!VaultNext
<1>j. ASSUME WriteEntry(w)
      PROVE  V!VaultNext
  <2> DEFINE l == job[w].label
             s == job[w].secret
  <2>1. /\ pc[w] = "saving" /\ pc'[w] = "idle" /\ gpgid' = gpgid
        /\ entry' = [entry EXCEPT ![l] = Sealed(job[w])]
    BY <1>t, <1>w, <1>j DEF WriteEntry, Idle, TypeOK
  <2>2. l \in Labels /\ s \in Secrets
    BY <1>t, <1>w, <2>1 DEF TypeOK, EntryJob
  <2>3. ScopeIn(gpgid, l) # NoDir /\ job[w].file = gpgid[ScopeIn(gpgid, l)]
    BY <2>1 DEF SerialInv, ScopeOf
  <2>4. Sealed(job[w]) = [secret |-> s, layers |-> Layers(gpgid[ScopeIn(gpgid, l)])]
    BY <1>t, <1>w, <2>1, <2>3, SealedType
  <2>5. RcpView = gpgid /\ SealedView = entry /\ RcpView' = gpgid /\ SealedView' = entry'
    BY <1>v, <2>1
  <2>6. V!Put(l, s)
    BY <2>1, <2>3, <2>4, <2>5, VaultScopes DEF V!Put
  <2> QED
    BY <2>2, <2>6 DEF V!VaultNext
<1>k. ASSUME NEW l \in Labels, NEW s \in Secrets, NEW o \in BOOLEAN, BeginEntrySave(w, l, s, o)
      PROVE  UNCHANGED <<RcpView, SealedView>>
  BY <1>t, <1>w, <1>k, <1>s DEF BeginEntrySave, TypeOK
<1>l. ASSUME NEW l \in Labels, DeleteEntry(w, l)
      PROVE  V!VaultNext
  <2>1. /\ pc[w] = "idle" /\ pc' = pc /\ gpgid' = gpgid /\ l \in Present
        /\ entry' = [entry EXCEPT ![l] = Absent]
    BY <1>l DEF DeleteEntry
  <2>2. RcpView = gpgid /\ SealedView = entry /\ RcpView' = gpgid /\ SealedView' = entry'
    BY <1>v, <2>1
  <2>3. V!Remove(l)
    BY <2>1, <2>2 DEF V!Remove, V!Kept, Present
  <2> QED
    BY <2>3 DEF V!VaultNext
<1>u. ASSUME \/ \E key \in Keys : UnlockKey(key) \/ LockKey(key)
             \/ UNCHANGED vars
      PROVE  UNCHANGED <<RcpView, SealedView>>
  BY <1>u DEF UnlockKey, LockKey, vars, RcpView, SealedView, Saving
<1>x. /\ ~ WriteRecipientFileFails(w) /\ ~ Rollback(w) /\ ~ WriteEntryFails(w) /\ ~ Crash
      /\ \A l \in Labels : ~ ReencryptFails(w, l)
      /\ Renames = {}
  BY <1>r DEF WriteRecipientFileFails, Rollback, WriteEntryFails, Crash, ReencryptFails, Serial
<1> QED
  BY <1>a, <1>b, <1>c, <1>d, <1>f, <1>i, <1>j, <1>k, <1>l, <1>u, <1>w, <1>x
     DEF Next, WorkerStep

\* Saving recipients and entries, one after the other and without failures, the store
\* does nothing but what the vault allows: the re-encryption of a whole scope
\* (save_store_recipients_for_relative_dir_with) takes place at once or not at all.
THEOREM SerialStoreIsAVault == ASSUME NEW w, Serial(w) PROVE Spec => ImplementsVault
<1>1. Init => V!VaultInit
  BY VaultStarts
<1>2. Init => SerialInv(w) /\ VaultInv(w)
  BY SerialInit DEF Init, VaultInv, Serial
<1>3. SerialInv(w) /\ VaultInv(w) /\ [Next]_vars => (SerialInv(w) /\ VaultInv(w))'
  BY SerialStep, VaultKept
<1>4. SerialInv(w) /\ VaultInv(w) /\ [Next]_vars => [V!VaultNext]_<<RcpView, SealedView>>
  BY VaultSteps
<1> QED
  BY <1>1, <1>2, <1>3, <1>4, PTL DEF Spec, ImplementsVault, V!VaultSpec
=============================================================================
