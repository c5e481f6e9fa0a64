------------------------------- MODULE GitStore -------------------------------
(***************************************************************************)
(* One store that is a Git repository: the workers that save entries or    *)
(* recipients and commit their paths, the sync worker, and other devices   *)
(* that push to the same remotes.  Each git command is a step, since it is *)
(* a process of its own and nothing locks the repository between two.      *)
(*                                                                         *)
(*   crates/keycord-git/src/integrated.rs   a local commit                 *)
(*   crates/keycord-git/src/sync.rs         fetch, merge, push             *)
(*   crates/keycord-git/src/status.rs       what a sync looks at first     *)
(*                                                                         *)
(* A commit is its place in "commits"; 0 stands for no commit.             *)
(***************************************************************************)
EXTENDS Naturals, Sequences

CONSTANTS
    Files,         \* entries and recipient files
    Versions,      \* contents of a file, Absent among them
    Absent,
    LocalFiles,    \* files this device changes
    ForeignFiles,  \* files other devices change
    RemoteCount,   \* the remotes are 1..RemoteCount, as git lists them
    Workers,       \* save workers
    Starts,        \* commits the branch may have at the start: 0 or 1
    MaxSaves,      \* bound on saves
    MaxForeign,    \* bound on commits of other devices
    MaxSyncs,      \* bound on syncs
    MaxFailures    \* bound on git commands that fail

ASSUME GitAssumption ==
    /\ Absent \in Versions
    /\ LocalFiles \subseteq Files /\ ForeignFiles \subseteq Files
    /\ RemoteCount \in Nat
    /\ Starts \subseteq {0, 1}

Remotes == 1..RemoteCount
Trees == [Files -> Versions]
NoFiles == [f \in Files |-> Absent]
NoJob == [phase |-> "idle"]
NoSync == [phase |-> "idle", next |-> 1, seen |-> {}]

VARIABLES
    work,       \* the working tree
    index,      \* the index
    unmerged,   \* conflicted files of the index
    merging,    \* is there a MERGE_HEAD
    commits,    \* Seq of [tree, past, here]: past holds the commit itself,
                \* here says whether this device made it
    head,       \* the branch that is checked out
    remote,     \* [Remotes -> the branch there]
    tracking,   \* [Remotes -> refs/remotes/<remote>/<branch>]
    job,        \* [Workers -> a save that commits]
    sync,       \* the sync worker
    used        \* how much of each bound is spent; saves made during a sync, and
                \* aborts that failed

vars == <<work, index, unmerged, merging, commits, head, remote, tracking, job,
          sync, used>>
tree == <<work, index, unmerged, merging>>

Spend(what, bound) ==
    /\ used[what] < bound
    /\ used' = [used EXCEPT ![what] = @ + 1]

Tree(c) == IF c = 0 THEN NoFiles ELSE commits[c].tree
Past(c) == IF c = 0 THEN {} ELSE commits[c].past

NewCommit(t, parents, here) ==
    Append(commits, [tree |-> t, here |-> here,
                     past |-> {Len(commits) + 1} \cup UNION {Past(c) : c \in parents}])

-----------------------------------------------------------------------------
(* A save and its commit: maybe_commit_git_paths *)

At(w, phase) == job[w].phase = phase

\* An entry or recipient save has replaced, renamed or deleted the files ps.
Save(w, ps, v) ==
    /\ At(w, "idle")
    /\ ps # {} /\ \E f \in ps : work[f] # v
    /\ used.saves < MaxSaves
    /\ used' = [used EXCEPT !.saves = @ + 1,
                            !.during = @ + IF sync.phase = "idle" THEN 0 ELSE 1]
    /\ work' = [f \in Files |-> IF f \in ps THEN v ELSE work[f]]
    /\ job' = [job EXCEPT ![w] = [phase |-> "stage", paths |-> ps]]
    /\ UNCHANGED <<index, unmerged, merging, commits, head, remote, tracking, sync>>

StageGitPaths(w) ==
    /\ At(w, "stage")
    /\ index' = [f \in Files |-> IF f \in job[w].paths THEN work[f] ELSE index[f]]
    /\ unmerged' = unmerged \ job[w].paths
    /\ job' = [job EXCEPT ![w].phase = "check"]
    /\ UNCHANGED <<work, merging, commits, head, remote, tracking, sync, used>>

StagedGitPathsHaveChanges(w) ==
    /\ At(w, "check")
    /\ job' = [job EXCEPT ![w] =
                  IF \E f \in @.paths : index[f] # Tree(head)[f] \/ f \in unmerged
                  THEN [@ EXCEPT !.phase = "tree"] ELSE NoJob]
    /\ UNCHANGED <<tree, commits, head, remote, tracking, sync, used>>

\* The tree is of the whole index, not of the paths alone.
WriteGitTree(w) ==
    /\ At(w, "tree") /\ unmerged = {}
    /\ job' = [job EXCEPT ![w] = [phase |-> "parent", tree |-> index]]
    /\ UNCHANGED <<tree, commits, head, remote, tracking, sync, used>>

HeadOid(w) ==
    /\ At(w, "parent")
    /\ job' = [job EXCEPT ![w] = [phase |-> "commit", tree |-> @.tree, parent |-> head]]
    /\ UNCHANGED <<tree, commits, head, remote, tracking, sync, used>>

\* Slip: update-ref without the old value.
UpdateGitHeadAlways(w) ==
    /\ At(w, "commit")
    /\ commits' = NewCommit(job[w].tree, {job[w].parent}, TRUE)
    /\ head' = Len(commits) + 1
    /\ job' = [job EXCEPT ![w] = NoJob]
    /\ UNCHANGED <<tree, remote, tracking, sync, used>>

\* Slip: HEAD is set although no commit object was written.
UpdateGitHeadOnly(w) ==
    /\ At(w, "commit") /\ job[w].parent \in {0, head}
    /\ head' = Len(commits) + 1
    /\ job' = [job EXCEPT ![w] = NoJob]
    /\ UNCHANGED <<tree, commits, remote, tracking, sync, used>>

\* The old value is compared only when there was one.
UpdateGitHead(w) ==
    /\ At(w, "commit")
    /\ job[w].parent \in {0, head}
    /\ commits' = NewCommit(job[w].tree, {job[w].parent}, TRUE)
    /\ head' = Len(commits) + 1
    /\ job' = [job EXCEPT ![w] = NoJob]
    /\ UNCHANGED <<tree, remote, tracking, sync, used>>

\* A failed command ends the commit and is only logged; the save has succeeded.
CommitRefused(w) ==
    /\ \/ At(w, "tree") /\ unmerged # {}
       \/ At(w, "commit") /\ job[w].parent \notin {0, head}
    /\ job' = [job EXCEPT ![w] = NoJob]
    /\ UNCHANGED <<tree, commits, head, remote, tracking, sync, used>>

\* For instance the index is locked by another git process.
CommitFails(w) ==
    /\ ~At(w, "idle")
    /\ Spend("failures", MaxFailures)
    /\ job' = [job EXCEPT ![w] = NoJob]
    /\ UNCHANGED <<tree, commits, head, remote, tracking, sync>>

-----------------------------------------------------------------------------
(* sync_store_repository *)

\* git diff HEAD and ls-files --others.
Dirty ==
    \/ work # Tree(head) \/ unmerged # {}
    \/ \E f \in Files : index[f] = Absent /\ work[f] # Absent

End(phase) == sync' = [sync EXCEPT !.phase = phase]

\* The next remote of a loop, or the next loop.
Advance(s, following) ==
    IF s.next < RemoteCount THEN [s EXCEPT !.next = @ + 1]
    ELSE [s EXCEPT !.phase = following, !.next = 1]

\* A store with no remotes succeeds at once; a dirty one is refused, and one with
\* no commit.  "seen" is a history: the commits this sync knows of.
StartSync ==
    /\ sync.phase = "idle"
    /\ Spend("syncs", MaxSyncs)
    /\ sync' = [phase |-> IF RemoteCount = 0 THEN "done"
                          ELSE IF Dirty \/ head = 0 THEN "failed" ELSE "fetch",
                next |-> 1, seen |-> Past(head)]
    /\ UNCHANGED <<tree, commits, head, remote, tracking, job>>

FetchStoreGitRemote ==
    LET r == sync.next
    IN /\ sync.phase = "fetch"
       /\ tracking' = [tracking EXCEPT ![r] = remote[r]]
       /\ sync' = Advance([sync EXCEPT !.seen = @ \cup Past(remote[r])], "merge")
       /\ UNCHANGED <<tree, commits, head, remote, job, used>>

Theirs == tracking[sync.next]
Common == Past(head) \cap Past(Theirs)
Base == CHOOSE c \in Common : \A d \in Common : d <= c

UpToDate == Past(Theirs) \subseteq Past(head)
FastForward == Past(head) \subseteq Past(Theirs)

Ours(f) == Tree(head)[f] # Tree(Base)[f]
Changed(f) == Tree(Theirs)[f] # IF FastForward THEN Tree(head)[f] ELSE Tree(Base)[f]
Conflicts == {f \in Files : /\ Ours(f) /\ Changed(f)
                            /\ Tree(head)[f] # Tree(Theirs)[f]}
Merged(from) == [f \in Files |-> IF Changed(f) THEN Tree(Theirs)[f] ELSE from[f]]

\* git refuses to merge over local changes, over a merge that is not concluded,
\* and histories that have nothing in common.
MergeAccepted ==
    /\ ~merging
    /\ FastForward \/ (index = Tree(head) /\ Common # {})
    /\ \A f \in Files : Changed(f) => work[f] = Tree(head)[f] /\ index[f] = work[f]

Merging == sync.phase = "merge"

\* A remote without the branch is passed over before git is asked, which looks for a
\* merge that is not concluded before it looks whether there is anything to merge.
NothingToMerge ==
    /\ Merging /\ UpToDate
    /\ merging => Theirs = 0
    /\ sync' = Advance(sync, "push")
    /\ UNCHANGED <<tree, commits, head, remote, tracking, job, used>>

MergeFastForward ==
    /\ Merging /\ ~UpToDate /\ FastForward /\ MergeAccepted
    /\ work' = Merged(work) /\ index' = Merged(index)
    /\ head' = Theirs
    /\ sync' = Advance(sync, "push")
    /\ UNCHANGED <<unmerged, merging, commits, remote, tracking, job, used>>

MergeStoreGitRemoteBranch ==
    /\ Merging /\ ~UpToDate /\ ~FastForward /\ MergeAccepted /\ Conflicts = {}
    /\ work' = Merged(work) /\ index' = Merged(index)
    /\ commits' = NewCommit(Merged(Tree(head)), {head, Theirs}, TRUE)
    /\ head' = Len(commits) + 1
    /\ sync' = Advance(sync, "push")
    /\ UNCHANGED <<unmerged, merging, remote, tracking, job, used>>

\* Files without a conflict are merged and staged, the others left as ours, or as
\* theirs where ours is deleted.
MergeConflicts ==
    LET taken == [f \in Files |-> IF f \in Conflicts /\ work[f] # Absent
                                  THEN work[f] ELSE Merged(work)[f]]
    IN /\ Merging /\ ~UpToDate /\ ~FastForward /\ MergeAccepted /\ Conflicts # {}
       /\ work' = taken /\ index' = taken
       /\ unmerged' = Conflicts /\ merging' = TRUE
       /\ End("abort")
       /\ UNCHANGED <<commits, head, remote, tracking, job, used>>

\* The merge is refused, and the abort finds a merge left behind or none.
MergeRefused ==
    /\ Merging /\ Theirs # 0 /\ ~MergeAccepted
    /\ merging \/ ~UpToDate
    /\ IF merging THEN End("abort") ELSE End("failed")
    /\ UNCHANGED <<tree, commits, head, remote, tracking, job, used>>

\* Slip: a conflict ends the sync without an abort.
KeepStoreGitMerge ==
    /\ sync.phase = "abort"
    /\ End("failed")
    /\ UNCHANGED <<tree, commits, head, remote, tracking, job, used>>

\* git merge --abort: what the index holds is undone, changes that are not staged
\* are kept, and a file with both stops it.
AbortStoreGitMerge ==
    LET staged == {f \in Files : f \notin unmerged /\ index[f] # Tree(head)[f]}
    IN /\ sync.phase = "abort"
       /\ IF \E f \in staged : work[f] # index[f] THEN UNCHANGED tree
          ELSE /\ work' = [f \in Files |-> IF f \in staged \cup unmerged
                                           THEN Tree(head)[f] ELSE work[f]]
               /\ index' = Tree(head)
               /\ unmerged' = {} /\ merging' = FALSE
       /\ End("failed")
       /\ UNCHANGED <<commits, head, remote, tracking, job, used>>

\* Slip: a push that is rejected is taken for one that is done.
PushIgnoringRejection ==
    LET r == sync.next
    IN /\ sync.phase = "push"
       /\ IF Past(remote[r]) \subseteq Past(head)
          THEN remote' = [remote EXCEPT ![r] = head]
               /\ tracking' = [tracking EXCEPT ![r] = head]
          ELSE UNCHANGED <<remote, tracking>>
       /\ sync' = Advance(sync, "done")
       /\ UNCHANGED <<tree, commits, head, job, used>>

PushStoreGitRemoteBranch ==
    LET r == sync.next
    IN /\ sync.phase = "push"
       /\ Past(remote[r]) \subseteq Past(head)
       /\ remote' = [remote EXCEPT ![r] = head]
       /\ tracking' = [tracking EXCEPT ![r] = head]
       /\ sync' = Advance(sync, "done")
       /\ UNCHANGED <<tree, commits, head, job, used>>

PushRejected ==
    /\ sync.phase = "push"
    /\ ~(Past(remote[sync.next]) \subseteq Past(head))
    /\ End("failed")
    /\ UNCHANGED <<tree, commits, head, remote, tracking, job, used>>

\* The network, or git itself.  An abort that fails is only logged, and leaves the
\* conflicts and MERGE_HEAD as they are.
SyncFails ==
    /\ sync.phase \in {"fetch", "merge", "abort", "push"}
    /\ used.failures < MaxFailures
    /\ used' = [used EXCEPT !.failures = @ + 1,
                            !.aborts = @ + IF sync.phase = "abort" THEN 1 ELSE 0]
    /\ End("failed")
    /\ UNCHANGED <<tree, commits, head, remote, tracking, job>>

SyncAnswered ==
    /\ sync.phase \in {"done", "failed"}
    /\ sync' = NoSync
    /\ UNCHANGED <<tree, commits, head, remote, tracking, job, used>>

-----------------------------------------------------------------------------
(* Another device has the branch of a remote, changes a file and pushes *)

ForeignCommit(r, f, v) ==
    /\ Tree(remote[r])[f] # v
    /\ Spend("foreign", MaxForeign)
    /\ commits' = NewCommit([Tree(remote[r]) EXCEPT ![f] = v], {remote[r]}, FALSE)
    /\ remote' = [remote EXCEPT ![r] = Len(commits) + 1]
    /\ UNCHANGED <<tree, head, tracking, job, sync>>

-----------------------------------------------------------------------------
\* A store that is in step with its remotes, or one with nothing committed yet.
Init ==
    /\ work = NoFiles /\ index = NoFiles /\ unmerged = {} /\ merging = FALSE
    /\ head \in Starts
    /\ commits = IF head = 0 THEN <<>>
                 ELSE <<[tree |-> NoFiles, past |-> {1}, here |-> TRUE]>>
    /\ remote \in [Remotes -> {0, head}]
    /\ tracking = remote
    /\ job = [w \in Workers |-> NoJob]
    /\ sync = NoSync
    /\ used = [saves |-> 0, during |-> 0, foreign |-> 0, syncs |-> 0, failures |-> 0,
               aborts |-> 0]

CommitStep(w) ==
    \/ StageGitPaths(w) \/ StagedGitPathsHaveChanges(w) \/ WriteGitTree(w)
    \/ HeadOid(w) \/ UpdateGitHead(w) \/ CommitRefused(w)

SyncStep ==
    \/ FetchStoreGitRemote
    \/ NothingToMerge \/ MergeFastForward \/ MergeStoreGitRemoteBranch
    \/ MergeConflicts \/ MergeRefused \/ AbortStoreGitMerge
    \/ PushStoreGitRemoteBranch \/ PushRejected
    \/ SyncAnswered

WorkerStep(w) ==
    \/ \E ps \in SUBSET LocalFiles, v \in Versions : Save(w, ps, v)
    \/ CommitStep(w) \/ CommitFails(w)

Next ==
    \/ \E w \in Workers : WorkerStep(w)
    \/ StartSync \/ SyncStep \/ SyncFails
    \/ \E r \in Remotes, f \in ForeignFiles, v \in Versions : ForeignCommit(r, f, v)

Spec == Init /\ [][Next]_vars

-----------------------------------------------------------------------------
(* Properties *)

CommitIds == 0..Len(commits)

CommitsType ==
    commits \in Seq([tree : Trees, past : SUBSET (1..Len(commits)), here : BOOLEAN])

JobType ==
    [phase : {"idle"}] \cup
    [phase : {"stage", "check", "tree"}, paths : SUBSET Files] \cup
    [phase : {"parent"}, tree : Trees] \cup
    [phase : {"commit"}, tree : Trees, parent : CommitIds]

SyncType ==
    [phase : {"idle", "fetch", "merge", "abort", "push", "done", "failed"},
     next : Nat \ {0}, seen : SUBSET (1..Len(commits))]

\* Every ref names a commit that was written, and every commit knows its past.
TypeOK ==
    /\ work \in Trees /\ index \in Trees
    /\ unmerged \subseteq Files /\ merging \in BOOLEAN
    /\ CommitsType
    /\ head \in CommitIds
    /\ remote \in [Remotes -> CommitIds] /\ tracking \in [Remotes -> CommitIds]
    /\ job \in [Workers -> JobType]
    /\ sync \in SyncType

H == INSTANCE CommitHistory WITH
        local <- Past(head),
        published <- [r \in Remotes |-> Past(remote[r])]

\* The store implements the promise of Git: histories only grow, HEAD takes only
\* commits made here or fetched, and a remote gets all of HEAD's history or nothing
\* (update-ref with the old value, pushes that are not forced).
ImplementsHistory == H!HistorySpec

\* When a sync reports success every remote holds everything this device had when
\* it started and everything it fetched, from whichever remote, although saves
\* were committed and other devices pushed meanwhile.
SyncedIsPublished ==
    sync.phase = "done" =>
        \A r \in Remotes : sync.seen \subseteq Past(remote[r])

\* No merge is left behind that is not concluded, as long as nothing is saved during
\* a sync and no git merge --abort fails, which is only logged: every sync of the
\* store would be refused, and the commits of saves with it until they have staged
\* what is in conflict.  One that is left behind all the same is never taken for
\* done: as long as it is there no sync goes on to push or reports success.
NoMergeIsLeftBehind ==
    merging => /\ sync.phase = "abort" \/ used.during > 0 \/ used.aborts > 0
               /\ sync.phase \notin {"push", "done"}

Newest(cs) == CHOOSE c \in cs : \A d \in cs : d <= c

\* "merges the current branch from each remote, pushes HEAD back to each remote":
\* what other devices changed in files this device does not touch is in HEAD as
\* the newest merged commit has it.
MergedChangesStay ==
    LET received == {c \in Past(head) : ~commits[c].here}
    IN received # {} =>
        \A f \in ForeignFiles \ LocalFiles :
            Tree(head)[f] = Tree(Newest(received))[f]
=============================================================================
