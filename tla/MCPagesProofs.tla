----------------------------- MODULE MCPagesProofs -----------------------------
(* Theorems about GitStore, for any files, remotes, workers and bounds, and     *)
(* about the pages that MCPages puts beside it: the remotes (StoreRemotes), the *)
(* audit of commits (AuditPage), the tools over the list (ToolPages) and the    *)
(* list of entries (PasswordList), for every value of their constants.          *)
EXTENDS MCPages, SequenceTheorems, TLAPS

-----------------------------------------------------------------------------
(* Commits and trees *)

\* Commits that were written stay, with their tree and their history.
CommitsStay ==
    /\ CommitIds \subseteq CommitIds'
    /\ \A c \in CommitIds : Tree(c)' = Tree(c) /\ Past(c)' = Past(c)

LEMMA CommitFacts ==
    ASSUME CommitsType
    PROVE  /\ Len(commits) \in Nat
           /\ \A c \in CommitIds : Tree(c) \in Trees /\ Past(c) \subseteq 1..Len(commits)
<1>1. Len(commits) \in Nat
  BY DEF CommitsType
<1>2. NoFiles \in Trees
  BY GitAssumption DEF NoFiles, Trees
<1>3. ASSUME NEW c \in CommitIds
      PROVE  Tree(c) \in Trees /\ Past(c) \subseteq 1..Len(commits)
  <2>1. CASE c = 0
    BY <1>2, <2>1 DEF Tree, Past
  <2>2. CASE c # 0
    <3>1. c \in 1..Len(commits)
      BY <1>1, <2>2 DEF CommitIds
    <3>2. commits[c] \in [tree : Trees, past : SUBSET (1..Len(commits)), here : BOOLEAN]
      BY <3>1, ElementOfSeq DEF CommitsType
    <3> QED
      BY <2>2, <3>2 DEF Tree, Past
  <2> QED
    BY <2>1, <2>2
<1> QED
  BY <1>1, <1>3

\* Writing a commit adds one, n, after the others, with the histories of its
\* parents.
LEMMA NewCommitFacts ==
    ASSUME CommitsType, NEW t \in Trees, NEW parents \in SUBSET CommitIds,
           NEW here \in BOOLEAN, commits' = NewCommit(t, parents, here),
           NEW n, n = Len(commits) + 1
    PROVE  /\ CommitsType' /\ CommitsStay
           /\ n \in CommitIds' \ CommitIds
           /\ Past(n)' = {n} \cup UNION {Past(c) : c \in parents}
<1> DEFINE past == {n} \cup UNION {Past(c) : c \in parents}
           new == [tree |-> t, here |-> here, past |-> past]
           Old == [tree : Trees, past : SUBSET (1..(n - 1)), here : BOOLEAN]
           Record == [tree : Trees, past : SUBSET (1..n), here : BOOLEAN]
<1>1. /\ Len(commits) = n - 1 /\ n \in Nat \ {0}
      /\ \A c \in CommitIds : Past(c) \subseteq 1..(n - 1)
  BY CommitFacts
<1>2. past \subseteq 1..n
  BY <1>1
<1>3. new \in Record
  BY <1>2
<1>4. commits \in Seq(Record)
  <2>1. commits \in Seq(Old)
    BY <1>1 DEF CommitsType
  <2>2. Old \subseteq Record
    BY <1>1
  <2> HIDE DEF Old, Record
  <2> QED
    BY <2>1, <2>2, SeqMonotonic
<1>5. commits' = Append(commits, new)
  BY DEF NewCommit
<1>6. /\ commits' \in Seq(Record) /\ Len(commits') = n
      /\ \A i \in 1..(n - 1) : commits'[i] = commits[i]
      /\ commits'[n] = new
  BY <1>1, <1>3, <1>4, <1>5, AppendProperties
<1>7. CommitsType'
  BY <1>6 DEF CommitsType
<1>8. CommitIds' = 0..n /\ CommitIds = 0..(n - 1)
  BY <1>1, <1>6 DEF CommitIds
<1>9. CommitsStay
  BY <1>1, <1>6, <1>8 DEF CommitsStay, Tree, Past
<1>10. n \in CommitIds' \ CommitIds
  BY <1>1, <1>8
<1>11. Past(n)' = {n} \cup UNION {Past(c) : c \in parents}
  <2>1. commits'[n].past = past
    BY <1>6
  <2> QED
    BY <1>1, <2>1 DEF Past
<1> QED
  BY <1>7, <1>9, <1>10, <1>11

\* A merge gives a tree.
LEMMA MergedType ==
    ASSUME TypeOK, sync.next \in Remotes, NEW from \in Trees
    PROVE  Merged(from) \in Trees
<1>1. Theirs \in CommitIds
  BY DEF TypeOK, Theirs
<1>2. Tree(Theirs) \in Trees
  BY <1>1, CommitFacts DEF TypeOK, CommitsType
<1> QED
  BY <1>2 DEF Merged, Trees

-----------------------------------------------------------------------------
(* The invariant *)

\* A loop of the sync is at one of the remotes, and the branch has a commit.
LoopInv ==
    sync.phase \in {"fetch", "merge", "push"} => sync.next \in Remotes /\ head # 0

\* What was fetched from a remote is still there: pushes are never forced.
TrackingInv == \A r \in Remotes : Past(tracking[r]) \subseteq Past(remote[r])

\* A commit without a parent is the first of the branch.
FirstCommitInv ==
    /\ Starts \subseteq {1} => head # 0
    /\ \A w \in Workers : At(w, "commit") /\ job[w].parent = 0 => head = 0

Inv == TypeOK /\ LoopInv /\ TrackingInv /\ FirstCommitInv

-----------------------------------------------------------------------------
(* Type correctness *)

LEMMA InitIsTyped ==
    ASSUME Init
    PROVE  TypeOK
<1> USE DEF Init
<1>1. work \in Trees /\ index \in Trees /\ unmerged \subseteq Files /\ merging \in BOOLEAN
  BY GitAssumption DEF NoFiles, Trees
<1>2. CommitsType /\ head \in CommitIds /\ 0 \in CommitIds
  <2>1. CASE head = 0
    BY <2>1, EmptySeq DEF CommitsType, CommitIds
  <2>2. CASE head # 0
    <3> DEFINE first == [tree |-> NoFiles, past |-> {1}, here |-> TRUE]
    <3>1. head = 1 /\ commits = <<first>>
      BY <2>2, GitAssumption
    <3>2. Len(commits) = 1
      BY <3>1
    <3>3. first \in [tree : Trees, past : SUBSET (1..1), here : BOOLEAN]
      BY <1>1
    <3>4. CommitsType
      BY <3>1, <3>2, <3>3 DEF CommitsType
    <3> QED
      BY <3>1, <3>2, <3>4 DEF CommitIds
  <2> QED
    BY <2>1, <2>2
<1>3. remote \in [Remotes -> CommitIds] /\ tracking \in [Remotes -> CommitIds]
  BY <1>2
<1>4. job \in [Workers -> JobType]
  BY DEF NoJob, JobType
<1>5. sync \in SyncType
  BY DEF NoSync, SyncType
<1> QED
  BY <1>1, <1>2, <1>3, <1>4, <1>5 DEF TypeOK

\* The types of jobs and of the sync only widen.
LEMMA TypesStay ==
    ASSUME CommitsType, CommitsType', CommitsStay
    PROVE  /\ 1..Len(commits) \subseteq (1..Len(commits))'
           /\ JobType \subseteq JobType' /\ SyncType \subseteq SyncType'
<1>1. 1..Len(commits) = CommitIds \ {0} /\ (1..Len(commits))' = CommitIds' \ {0}
  BY DEF CommitIds, CommitsType
<1>2. 1..Len(commits) \subseteq (1..Len(commits))'
  BY <1>1 DEF CommitsStay
<1>3. JobType \subseteq JobType'
  BY DEF JobType, CommitsStay
<1>4. SyncType \subseteq SyncType'
  BY <1>2 DEF SyncType
<1> QED
  BY <1>2, <1>3, <1>4

\* No step takes a commit away.
LEMMA CommitsGrow ==
    ASSUME TypeOK, LoopInv, [Next]_vars
    PROVE  CommitsType' /\ CommitsStay
<1>1. ASSUME NEW t \in Trees, NEW parents \in SUBSET CommitIds, NEW here \in BOOLEAN,
             commits' = NewCommit(t, parents, here)
      PROVE  CommitsType' /\ CommitsStay
  BY <1>1, NewCommitFacts DEF TypeOK
<1>2. ASSUME NEW w \in Workers, UpdateGitHead(w)
      PROVE  CommitsType' /\ CommitsStay
  <2>1. job[w].tree \in Trees /\ {job[w].parent} \subseteq CommitIds
    BY <1>2 DEF TypeOK, UpdateGitHead, At, JobType
  <2> QED
    BY <1>1, <1>2, <2>1 DEF UpdateGitHead
<1>3. CASE MergeStoreGitRemoteBranch
  <2>1. sync.next \in Remotes /\ head \in CommitIds /\ Theirs \in CommitIds
    BY <1>3 DEF TypeOK, LoopInv, MergeStoreGitRemoteBranch, Merging, Theirs
  <2>2. Tree(head) \in Trees
    BY <2>1, CommitFacts DEF TypeOK
  <2>3. Merged(Tree(head)) \in Trees
    BY <2>1, <2>2, MergedType
  <2> QED
    BY <1>1, <1>3, <2>1, <2>3 DEF MergeStoreGitRemoteBranch
<1>4. ASSUME NEW r \in Remotes, NEW f \in ForeignFiles, NEW v \in Versions,
             ForeignCommit(r, f, v)
      PROVE  CommitsType' /\ CommitsStay
  <2>1. remote[r] \in CommitIds
    BY DEF TypeOK
  <2>2. Tree(remote[r]) \in Trees
    BY <2>1, CommitFacts DEF TypeOK
  <2>3. [Tree(remote[r]) EXCEPT ![f] = v] \in Trees
    BY <2>2, GitAssumption DEF Trees
  <2> QED
    BY <1>1, <1>4, <2>1, <2>3 DEF ForeignCommit
<1>5. CASE UNCHANGED commits
  BY <1>5 DEF TypeOK, CommitsType, CommitsStay, CommitIds, Tree, Past
<1>6. ASSUME NEW w \in Workers, WorkerStep(w)
      PROVE  CommitsType' /\ CommitsStay
  <2>1. UpdateGitHead(w) \/ UNCHANGED commits
    BY <1>6 DEF WorkerStep, CommitStep, Save, StageGitPaths, StagedGitPathsHaveChanges,
                WriteGitTree, HeadOid, CommitRefused, CommitFails
  <2> QED
    BY <1>2, <1>5, <2>1
<1>7. CASE StartSync \/ SyncStep \/ SyncFails
  <2>1. MergeStoreGitRemoteBranch \/ UNCHANGED commits
    BY <1>7
       DEF SyncStep, StartSync, FetchStoreGitRemote, NothingToMerge, MergeFastForward,
           MergeConflicts, MergeRefused, AbortStoreGitMerge, PushStoreGitRemoteBranch,
           PushRejected, SyncAnswered, SyncFails
  <2> QED
    BY <1>3, <1>5, <2>1
<1>8. CASE UNCHANGED vars
  BY <1>5, <1>8 DEF vars
<1> QED
  BY <1>4, <1>6, <1>7, <1>8 DEF Next

LEMMA TypesKept ==
    ASSUME TypeOK, LoopInv, [Next]_vars
    PROVE  TypeOK'
<1>1. CommitsType' /\ CommitsStay
  BY CommitsGrow
<1>2. /\ 1..Len(commits) \subseteq (1..Len(commits))' /\ CommitIds \subseteq CommitIds'
      /\ JobType \subseteq JobType' /\ SyncType \subseteq SyncType'
  BY <1>1, TypesStay DEF TypeOK, CommitsStay
<1>3. /\ head \in CommitIds'
      /\ remote \in [Remotes -> CommitIds'] /\ tracking \in [Remotes -> CommitIds']
      /\ job \in [Workers -> JobType'] /\ sync \in SyncType'
  BY <1>2 DEF TypeOK
<1>4. \A c \in CommitIds : Tree(c) \in Trees /\ Past(c) \subseteq 1..Len(commits)
  BY CommitFacts DEF TypeOK
<1>5. NoJob \in JobType' /\ NoSync \in SyncType'
  BY DEF NoJob, NoSync, JobType, SyncType
<1>6. ASSUME NEW t \in Trees, NEW parents \in SUBSET CommitIds, NEW here \in BOOLEAN,
             commits' = NewCommit(t, parents, here)
      PROVE  Len(commits) + 1 \in CommitIds'
  BY <1>6, NewCommitFacts DEF TypeOK
<1>7. ASSUME NEW following \in {"fetch", "merge", "push", "done"}, NEW s \in SyncType'
      PROVE  Advance(s, following) \in SyncType'
  <2>1. s.next \in Nat \ {0} /\ s.next + 1 \in Nat \ {0}
    BY DEF SyncType
  <2>2. [s EXCEPT !.next = @ + 1] \in SyncType'
    BY <2>1 DEF SyncType
  <2>3. [s EXCEPT !.phase = following, !.next = 1] \in SyncType'
    <3>1. following \in {"idle", "fetch", "merge", "abort", "push", "done", "failed"}
      OBVIOUS
    <3>2. [s EXCEPT !.phase = following] \in SyncType'
      BY <3>1 DEF SyncType
    <3>3. [s EXCEPT !.phase = following, !.next = 1]
          = [[s EXCEPT !.phase = following] EXCEPT !.next = 1]
      BY DEF SyncType
    <3>4. \A t \in SyncType' : [t EXCEPT !.next = 1] \in SyncType'
      BY DEF SyncType
    <3> QED
      BY <3>2, <3>3, <3>4
  <2> QED
    BY <2>2, <2>3, Zenon DEF Advance
<1>8. ASSUME NEW w \in Workers, WorkerStep(w)
      PROVE  TypeOK'
  <2>1. ASSUME NEW ps \in SUBSET LocalFiles, NEW v \in Versions, Save(w, ps, v)
        PROVE  TypeOK'
    <3>1. ps \subseteq Files
      BY GitAssumption
    <3>2. work' \in Trees
      BY <2>1 DEF TypeOK, Save, Trees
    <3>3. [phase |-> "stage", paths |-> ps] \in JobType'
      BY <3>1 DEF JobType
    <3> QED
      BY <1>1, <1>3, <2>1, <3>2, <3>3 DEF TypeOK, Save
  <2>2. CASE StageGitPaths(w)
    <3>1. index' \in Trees /\ unmerged' \subseteq Files
      BY <2>2 DEF TypeOK, StageGitPaths, Trees
    <3>2. [job[w] EXCEPT !.phase = "check"] \in JobType'
      BY <2>2 DEF TypeOK, StageGitPaths, At, JobType
    <3> QED
      BY <1>1, <1>3, <2>2, <3>1, <3>2 DEF TypeOK, StageGitPaths
  <2>3. CASE StagedGitPathsHaveChanges(w)
    <3>1. [job[w] EXCEPT !.phase = "tree"] \in JobType'
      BY <2>3 DEF TypeOK, StagedGitPathsHaveChanges, At, JobType
    <3> QED
      BY <1>1, <1>3, <1>5, <2>3, <3>1 DEF TypeOK, StagedGitPathsHaveChanges, tree
  <2>4. CASE WriteGitTree(w)
    <3>1. [phase |-> "parent", tree |-> index] \in JobType'
      BY DEF TypeOK, JobType
    <3> QED
      BY <1>1, <1>3, <2>4, <3>1 DEF TypeOK, WriteGitTree, tree
  <2>5. CASE HeadOid(w)
    <3>1. [phase |-> "commit", tree |-> job[w].tree, parent |-> head] \in JobType'
      BY <1>3, <2>5 DEF TypeOK, HeadOid, At, JobType
    <3> QED
      BY <1>1, <1>3, <2>5, <3>1 DEF TypeOK, HeadOid, tree
  <2>6. CASE UpdateGitHead(w)
    <3>1. job[w].tree \in Trees /\ {job[w].parent} \subseteq CommitIds
      BY <2>6 DEF TypeOK, UpdateGitHead, At, JobType
    <3>2. head' \in CommitIds'
      BY <1>6, <2>6, <3>1 DEF UpdateGitHead
    <3> QED
      BY <1>1, <1>3, <1>5, <2>6, <3>2 DEF TypeOK, UpdateGitHead, tree
  <2>7. CASE CommitRefused(w)
    BY <1>1, <1>3, <1>5, <2>7 DEF TypeOK, CommitRefused, tree
  <2>8. CASE CommitFails(w)
    BY <1>1, <1>3, <1>5, <2>8 DEF TypeOK, CommitFails, tree
  <2> QED
    BY <1>8, <2>1, <2>2, <2>3, <2>4, <2>5, <2>6, <2>7, <2>8 DEF WorkerStep, CommitStep
<1>9. CASE StartSync
  <2>1. Past(head) \subseteq 1..Len(commits)
    BY <1>4 DEF TypeOK
  <2>2. sync' \in SyncType'
    BY <1>2, <1>9, <2>1 DEF StartSync, SyncType
  <2> QED
    BY <1>1, <1>3, <1>9, <2>2 DEF TypeOK, StartSync, tree
<1>10. CASE SyncFails
  <2>1. sync' \in SyncType'
    BY <1>3, <1>10 DEF SyncFails, End, SyncType
  <2> QED
    BY <1>1, <1>3, <1>10, <2>1 DEF TypeOK, SyncFails, tree
<1>11. CASE SyncStep
  <2>1. CASE FetchStoreGitRemote
    <3>1. sync.next \in Remotes
      BY <2>1 DEF LoopInv, FetchStoreGitRemote
    <3>2. Past(remote[sync.next]) \subseteq 1..Len(commits)
      BY <1>4, <3>1 DEF TypeOK
    <3>3. [sync EXCEPT !.seen = @ \cup Past(remote[sync.next])] \in SyncType'
      BY <1>2, <1>3, <3>2 DEF SyncType
    <3>4. sync' \in SyncType'
      BY <1>7, <2>1, <3>3 DEF FetchStoreGitRemote
    <3> QED
      BY <1>1, <1>3, <2>1, <3>1, <3>4 DEF TypeOK, FetchStoreGitRemote, tree
  <2>2. CASE Merging
    <3>1. sync.next \in Remotes
      BY <2>2 DEF LoopInv, Merging
    <3>2. Theirs \in CommitIds /\ head \in CommitIds
      BY <3>1 DEF TypeOK, Theirs
    <3>3. \A from \in Trees : Merged(from) \in Trees
      BY <3>1, MergedType
    <3>4. Advance(sync, "push") \in SyncType'
      BY <1>3, <1>7
    <3>5. CASE NothingToMerge
      BY <1>1, <1>3, <3>4, <3>5 DEF TypeOK, NothingToMerge, tree
    <3>6. CASE MergeFastForward
      <4>1. work' \in Trees /\ index' \in Trees
        BY <3>3, <3>6 DEF TypeOK, MergeFastForward
      <4>2. head' \in CommitIds'
        BY <1>2, <3>2, <3>6 DEF MergeFastForward
      <4> QED
        BY <1>1, <1>3, <3>4, <3>6, <4>1, <4>2 DEF TypeOK, MergeFastForward
    <3>7. CASE MergeStoreGitRemoteBranch
      <4>1. work' \in Trees /\ index' \in Trees
        BY <3>3, <3>7 DEF TypeOK, MergeStoreGitRemoteBranch
      <4>2. Merged(Tree(head)) \in Trees
        BY <1>4, <3>2, <3>3
      <4>3. head' \in CommitIds'
        BY <1>6, <3>2, <3>7, <4>2 DEF MergeStoreGitRemoteBranch
      <4> QED
        BY <1>1, <1>3, <3>4, <3>7, <4>1, <4>3 DEF TypeOK, MergeStoreGitRemoteBranch
    <3>8. CASE MergeConflicts
      <4>1. work' \in Trees /\ index' \in Trees /\ unmerged' \subseteq Files /\ merging'
        <5>1. Merged(work) \in Trees
          BY <3>3 DEF TypeOK
        <5>2. work' \in Trees
          BY <3>8, <5>1 DEF TypeOK, MergeConflicts, Trees
        <5> QED
          BY <3>8, <5>2 DEF MergeConflicts, Conflicts
      <4>2. sync' \in SyncType'
        BY <1>3, <3>8 DEF MergeConflicts, End, SyncType
      <4> QED
        BY <1>1, <1>3, <3>8, <4>1, <4>2 DEF TypeOK, MergeConflicts
    <3>9. CASE MergeRefused
      <4>1. sync' \in SyncType'
        BY <1>3, <3>9 DEF MergeRefused, End, SyncType
      <4> QED
        BY <1>1, <1>3, <3>9, <4>1 DEF TypeOK, MergeRefused, tree
    <3> QED
      BY <1>11, <2>2, <3>5, <3>6, <3>7, <3>8, <3>9
         DEF SyncStep, Merging, FetchStoreGitRemote, AbortStoreGitMerge,
             PushStoreGitRemoteBranch, PushRejected, SyncAnswered
  <2>3. CASE AbortStoreGitMerge
    <3>1. Tree(head) \in Trees
      BY <1>4 DEF TypeOK
    <3>2. work' \in Trees /\ index' \in Trees /\ unmerged' \subseteq Files
          /\ merging' \in BOOLEAN
      BY <2>3, <3>1 DEF TypeOK, AbortStoreGitMerge, tree, Trees
    <3>3. sync' \in SyncType'
      BY <1>3, <2>3 DEF AbortStoreGitMerge, End, SyncType
    <3> QED
      BY <1>1, <1>3, <2>3, <3>2, <3>3 DEF TypeOK, AbortStoreGitMerge
  <2>4. CASE PushStoreGitRemoteBranch
    <3>1. sync' \in SyncType'
      BY <1>3, <1>7, <2>4 DEF PushStoreGitRemoteBranch
    <3>2. remote' \in [Remotes -> CommitIds'] /\ tracking' \in [Remotes -> CommitIds']
      BY <1>3, <2>4 DEF PushStoreGitRemoteBranch
    <3> QED
      BY <1>1, <1>3, <2>4, <3>1, <3>2 DEF TypeOK, PushStoreGitRemoteBranch, tree
  <2>5. CASE PushRejected
    <3>1. sync' \in SyncType'
      BY <1>3, <2>5 DEF PushRejected, End, SyncType
    <3> QED
      BY <1>1, <1>3, <2>5, <3>1 DEF TypeOK, PushRejected, tree
  <2>6. CASE SyncAnswered
    BY <1>1, <1>3, <1>5, <2>6 DEF TypeOK, SyncAnswered, tree
  <2> QED
    BY <1>11, <2>1, <2>2, <2>3, <2>4, <2>5, <2>6
       DEF SyncStep, NothingToMerge, MergeFastForward, MergeStoreGitRemoteBranch,
           MergeConflicts, MergeRefused
<1>12. ASSUME NEW r \in Remotes, NEW f \in ForeignFiles, NEW v \in Versions,
              ForeignCommit(r, f, v)
       PROVE  TypeOK'
  <2>1. remote[r] \in CommitIds
    BY DEF TypeOK
  <2>2. [Tree(remote[r]) EXCEPT ![f] = v] \in Trees
    BY <1>4, <2>1, GitAssumption DEF Trees
  <2>3. Len(commits) + 1 \in CommitIds'
    BY <1>6, <1>12, <2>1, <2>2 DEF ForeignCommit
  <2>4. remote' \in [Remotes -> CommitIds']
    BY <1>3, <1>12, <2>3 DEF ForeignCommit
  <2> QED
    BY <1>1, <1>3, <1>12, <2>4 DEF TypeOK, ForeignCommit, tree
<1>13. CASE UNCHANGED vars
  BY <1>1, <1>3, <1>13 DEF TypeOK, vars
<1> QED
  BY <1>8, <1>9, <1>10, <1>11, <1>12, <1>13 DEF Next

\* Advance stays in the loop, or begins the following one.
LEMMA AdvanceFacts ==
    ASSUME NEW s \in SyncType, s.next \in Remotes, NEW following
    PROVE  /\ Advance(s, following).next \in Remotes
           /\ Advance(s, following).seen = s.seen
           /\ \/ /\ Advance(s, following).phase = s.phase
                 /\ Advance(s, following).next = s.next + 1
              \/ /\ Advance(s, following).phase = following
                 /\ Advance(s, following).next = 1
                 /\ s.next = RemoteCount
<1>1. s.next \in 1..RemoteCount /\ RemoteCount \in Nat
  BY GitAssumption DEF Remotes
<1>2. CASE s.next < RemoteCount
  BY <1>1, <1>2 DEF Advance, SyncType, Remotes
<1>3. CASE ~(s.next < RemoteCount)
  BY <1>1, <1>3 DEF Advance, SyncType, Remotes
<1> QED
  BY <1>2, <1>3

\* A branch that has a commit keeps one.
LEMMA LoopKept ==
    ASSUME TypeOK, LoopInv, [Next]_vars
    PROVE  LoopInv'
<1>1. Len(commits) + 1 # 0
  BY CommitFacts DEF TypeOK
<1>2. ASSUME NEW w \in Workers, WorkerStep(w)
      PROVE  LoopInv'
  <2>1. sync' = sync /\ (head' = head \/ head' = Len(commits) + 1)
    BY <1>2 DEF WorkerStep, CommitStep, Save, StageGitPaths, StagedGitPathsHaveChanges,
                WriteGitTree, HeadOid, UpdateGitHead, CommitRefused, CommitFails
  <2> QED
    BY <1>1, <2>1 DEF LoopInv
<1>3. CASE StartSync
  <2>1. head' = head /\ sync'.next = 1
    BY <1>3 DEF StartSync
  <2>2. sync'.phase = "fetch" => RemoteCount # 0 /\ head # 0
    BY <1>3 DEF StartSync
  <2>3. sync'.phase \notin {"merge", "push"}
    BY <1>3 DEF StartSync
  <2>4. RemoteCount # 0 => 1 \in Remotes
    BY GitAssumption DEF Remotes
  <2> QED
    BY <2>1, <2>2, <2>3, <2>4 DEF LoopInv
<1>4. CASE SyncFails
  BY <1>4 DEF TypeOK, SyncType, SyncFails, End, LoopInv
<1>5. CASE SyncStep
  <2>1. CASE FetchStoreGitRemote
    <3>1. sync.next \in Remotes /\ head # 0
      BY <2>1 DEF LoopInv, FetchStoreGitRemote
    <3> DEFINE s == [sync EXCEPT !.seen = @ \cup Past(remote[sync.next])]
    <3>2. Past(remote[sync.next]) \subseteq 1..Len(commits)
      BY <3>1, CommitFacts DEF TypeOK
    <3>3. s \in SyncType /\ s.next = sync.next
      BY <3>2 DEF TypeOK, SyncType
    <3>4. Advance(s, "merge").next \in Remotes
      BY <3>1, <3>3, AdvanceFacts
    <3> QED
      BY <2>1, <3>1, <3>4 DEF LoopInv, FetchStoreGitRemote
  <2>2. CASE Merging /\ (NothingToMerge \/ MergeFastForward \/ MergeStoreGitRemoteBranch)
    <3>1. sync.next \in Remotes /\ head # 0
      BY <2>2 DEF LoopInv, Merging
    <3>2. sync' = Advance(sync, "push")
      BY <2>2 DEF NothingToMerge, MergeFastForward, MergeStoreGitRemoteBranch
    <3>3. sync'.next \in Remotes
      BY <3>1, <3>2, AdvanceFacts DEF TypeOK
    <3>4. head' = head \/ head' = Len(commits) + 1 \/ (head' = Theirs /\ ~UpToDate)
      BY <2>2 DEF NothingToMerge, MergeFastForward, MergeStoreGitRemoteBranch
    <3>5. ~UpToDate => Theirs # 0
      BY DEF UpToDate, Past
    <3> QED
      BY <1>1, <3>1, <3>3, <3>4, <3>5 DEF LoopInv
  <2>3. CASE MergeConflicts \/ MergeRefused \/ AbortStoreGitMerge \/ PushRejected
             \/ SyncAnswered
    <3>1. sync'.phase \in {"abort", "failed", "idle"}
      BY <2>3 DEF TypeOK, SyncType, MergeConflicts, MergeRefused, AbortStoreGitMerge,
                  PushRejected, SyncAnswered, NoSync, End
    <3> QED
      BY <3>1 DEF LoopInv
  <2>4. CASE PushStoreGitRemoteBranch
    <3>1. sync.next \in Remotes /\ head # 0
      BY <2>4 DEF LoopInv, PushStoreGitRemoteBranch
    <3>2. Advance(sync, "done").next \in Remotes
      BY <3>1, AdvanceFacts DEF TypeOK
    <3> QED
      BY <2>4, <3>1, <3>2 DEF LoopInv, PushStoreGitRemoteBranch
  <2> QED
    BY <1>5, <2>1, <2>2, <2>3, <2>4
       DEF SyncStep, Merging, NothingToMerge, MergeFastForward, MergeStoreGitRemoteBranch
<1>6. ASSUME NEW r \in Remotes, NEW f \in ForeignFiles, NEW v \in Versions,
             ForeignCommit(r, f, v)
      PROVE  LoopInv'
  BY <1>6 DEF LoopInv, ForeignCommit
<1>7. CASE UNCHANGED vars
  BY <1>7 DEF LoopInv, vars
<1> QED
  BY <1>2, <1>3, <1>4, <1>5, <1>6, <1>7 DEF Next

\* Whatever workers interleave and whatever commands fail, every ref names a commit
\* that was written, whose tree and history are complete (update_git_head is given the
\* commit that write_commit_object wrote).
THEOREM TypeCorrect == Spec => []TypeOK
<1>1. Init => TypeOK /\ LoopInv
  <2>1. Init => sync.phase = "idle"
    BY DEF Init, NoSync
  <2> QED
    BY <2>1, InitIsTyped DEF LoopInv
<1>2. TypeOK /\ LoopInv /\ [Next]_vars => (TypeOK /\ LoopInv)'
  BY TypesKept, LoopKept
<1> QED
  BY <1>1, <1>2, PTL DEF Spec

-----------------------------------------------------------------------------
(* Histories only grow *)

\* Pushes are not forced and the first commit is made once: by a store that has one,
\* or by the only worker.
FirstCommitIsSafe == Starts \subseteq {1} \/ \A v, w \in Workers : v = w

\* A ref that stays keeps its history.
LEMMA HistoriesStay ==
    ASSUME TypeOK, CommitsStay
    PROVE  /\ head' = head => Past(head)' = Past(head)
           /\ \A r \in Remotes :
                 /\ remote'[r] = remote[r] => Past(remote[r])' = Past(remote[r])
                 /\ tracking'[r] = tracking[r] => Past(tracking[r])' = Past(tracking[r])
BY DEF CommitsStay, Past, TypeOK

\* What each kind of step does to the histories, as the abstract specification sees it.
HeadStays == Past(head)' = Past(head)
RemotesStay == \A r \in Remotes : Past(remote[r])' = Past(remote[r])
TrackingStays == \A r \in Remotes : Past(tracking[r])' = Past(tracking[r])

Unwritten(n) == n \notin Past(head) /\ \A r \in Remotes : n \notin Past(remote[r])

LEMMA NewCommitIsUnwritten ==
    ASSUME TypeOK
    PROVE  Unwritten(Len(commits) + 1)
<1>1. /\ Len(commits) \in Nat /\ Past(head) \subseteq 1..Len(commits)
      /\ \A r \in Remotes : Past(remote[r]) \subseteq 1..Len(commits)
  BY CommitFacts DEF TypeOK
<1> QED
  BY <1>1 DEF Unwritten

\* A commit takes the branch one step on.
LEMMA UpdateGitHeadHistory ==
    ASSUME TypeOK, FirstCommitInv, NEW w \in Workers, UpdateGitHead(w),
           NEW n, n = Len(commits) + 1
    PROVE  Past(head)' = Past(head) \cup {n} /\ RemotesStay /\ TrackingStays
<1>1. job[w].tree \in Trees /\ {job[w].parent} \subseteq CommitIds
  BY DEF TypeOK, UpdateGitHead, At, JobType
<1>2. Past(n)' = {n} \cup UNION {Past(c) : c \in {job[w].parent}} /\ CommitsStay
  BY <1>1, NewCommitFacts DEF TypeOK, UpdateGitHead
<1>3. job[w].parent = head
  BY DEF UpdateGitHead, FirstCommitInv
<1>4. Past(n)' = {n} \cup Past(head)
  BY <1>2, <1>3
<1>5. Past(head)' = {n} \cup Past(head)
  BY <1>4 DEF UpdateGitHead, Past
<1> QED
  BY <1>2, <1>5, HistoriesStay DEF UpdateGitHead, RemotesStay, TrackingStays

LEMMA MergeFastForwardHistory ==
    ASSUME TypeOK, CommitsStay, LoopInv, MergeFastForward
    PROVE  /\ Past(head)' = Past(tracking[sync.next]) /\ Past(head) \subseteq Past(head)'
           /\ RemotesStay /\ TrackingStays
<1>1. sync.next \in Remotes
  BY DEF MergeFastForward, Merging, LoopInv
<1>2. head' \in CommitIds /\ head' = tracking[sync.next]
  BY <1>1 DEF TypeOK, MergeFastForward, Theirs
<1>3. Past(head)' = Past(tracking[sync.next])
  BY <1>2 DEF CommitsStay, Past
<1> QED
  BY <1>3, HistoriesStay DEF MergeFastForward, FastForward, Theirs, RemotesStay, TrackingStays

LEMMA MergeHistory ==
    ASSUME TypeOK, LoopInv, MergeStoreGitRemoteBranch, NEW n, n = Len(commits) + 1
    PROVE  /\ Past(head)' = {n} \cup Past(head) \cup Past(tracking[sync.next])
           /\ RemotesStay /\ TrackingStays
<1>1. sync.next \in Remotes /\ head \in CommitIds /\ Theirs \in CommitIds
  BY DEF TypeOK, LoopInv, MergeStoreGitRemoteBranch, Merging, Theirs
<1>2. Tree(head) \in Trees
  BY <1>1, CommitFacts DEF TypeOK
<1>3. Merged(Tree(head)) \in Trees
  BY <1>1, <1>2, MergedType
<1>4. Past(n)' = {n} \cup UNION {Past(c) : c \in {head, Theirs}} /\ CommitsStay
  BY <1>1, <1>3, NewCommitFacts DEF TypeOK, MergeStoreGitRemoteBranch
<1>5. Past(n)' = {n} \cup Past(head) \cup Past(tracking[sync.next])
  BY <1>4 DEF Theirs
<1>6. Past(head)' = {n} \cup Past(head) \cup Past(tracking[sync.next])
  BY <1>5 DEF MergeStoreGitRemoteBranch, Past
<1> QED
  BY <1>4, <1>6, HistoriesStay DEF MergeStoreGitRemoteBranch, RemotesStay, TrackingStays

LEMMA FetchHistory ==
    ASSUME TypeOK, CommitsStay, NEW r \in Remotes, sync.next = r, FetchStoreGitRemote
    PROVE  /\ HeadStays /\ RemotesStay
           /\ Past(tracking[r])' = Past(remote[r])
           /\ \A q \in Remotes \ {r} : Past(tracking[q])' = Past(tracking[q])
<1>1. tracking'[r] = remote[r] /\ remote[r] \in CommitIds
  BY DEF TypeOK, FetchStoreGitRemote
<1>2. Past(tracking[r])' = Past(remote[r])
  BY <1>1 DEF CommitsStay, Past
<1>3. \A q \in Remotes \ {r} : tracking'[q] = tracking[q]
  BY DEF TypeOK, FetchStoreGitRemote
<1> QED
  BY <1>2, <1>3, HistoriesStay DEF FetchStoreGitRemote, HeadStays, RemotesStay

LEMMA PushHistory ==
    ASSUME TypeOK, CommitsStay, NEW r \in Remotes, sync.next = r,
           PushStoreGitRemoteBranch
    PROVE  /\ HeadStays /\ Past(remote[r]) \subseteq Past(head)
           /\ Past(remote[r])' = Past(head) /\ Past(tracking[r])' = Past(head)
           /\ \A q \in Remotes \ {r} : /\ Past(remote[q])' = Past(remote[q])
                                       /\ Past(tracking[q])' = Past(tracking[q])
<1>1. /\ remote'[r] = head /\ tracking'[r] = head /\ head \in CommitIds
      /\ Past(remote[r]) \subseteq Past(head)
  BY DEF TypeOK, PushStoreGitRemoteBranch
<1>2. Past(remote[r])' = Past(head) /\ Past(tracking[r])' = Past(head)
  BY <1>1 DEF CommitsStay, Past
<1>3. \A q \in Remotes \ {r} : remote'[q] = remote[q] /\ tracking'[q] = tracking[q]
  BY DEF TypeOK, PushStoreGitRemoteBranch
<1> QED
  BY <1>1, <1>2, <1>3, HistoriesStay DEF PushStoreGitRemoteBranch, HeadStays

LEMMA ForeignHistory ==
    ASSUME TypeOK, NEW r \in Remotes, NEW f \in ForeignFiles, NEW v \in Versions,
           ForeignCommit(r, f, v), NEW n, n = Len(commits) + 1
    PROVE  /\ HeadStays /\ TrackingStays
           /\ Past(remote[r])' = {n} \cup Past(remote[r])
           /\ \A q \in Remotes \ {r} : Past(remote[q])' = Past(remote[q])
<1>1. remote[r] \in CommitIds
  BY DEF TypeOK
<1>2. Tree(remote[r]) \in Trees
  BY <1>1, CommitFacts DEF TypeOK
<1>3. [Tree(remote[r]) EXCEPT ![f] = v] \in Trees
  BY <1>2, GitAssumption DEF Trees
<1>4. Past(n)' = {n} \cup UNION {Past(c) : c \in {remote[r]}} /\ CommitsStay
  BY <1>1, <1>3, NewCommitFacts DEF TypeOK, ForeignCommit
<1>5. Past(n)' = {n} \cup Past(remote[r])
  BY <1>4
<1>6. remote'[r] = n /\ \A q \in Remotes \ {r} : remote'[q] = remote[q]
  BY DEF TypeOK, ForeignCommit
<1>7. Past(remote[r])' = {n} \cup Past(remote[r])
  BY <1>5, <1>6 DEF Past
<1> QED
  BY <1>4, <1>6, <1>7, HistoriesStay DEF ForeignCommit, HeadStays, TrackingStays

\* The other steps leave the refs alone.
LEMMA OtherSteps ==
    ASSUME [Next]_vars
    PROVE  \/ \E w \in Workers : UpdateGitHead(w)
           \/ MergeFastForward \/ MergeStoreGitRemoteBranch
           \/ FetchStoreGitRemote \/ PushStoreGitRemoteBranch
           \/ \E r \in Remotes, f \in ForeignFiles, v \in Versions : ForeignCommit(r, f, v)
           \/ UNCHANGED <<commits, head, remote, tracking>>
<1> DEFINE Refs == <<commits, head, remote, tracking>>
<1>1. ASSUME NEW w \in Workers, WorkerStep(w)
      PROVE  UpdateGitHead(w) \/ UNCHANGED Refs
  BY <1>1 DEF WorkerStep, CommitStep, Save, StageGitPaths, StagedGitPathsHaveChanges,
              WriteGitTree, HeadOid, CommitRefused, CommitFails
<1>2. StartSync \/ SyncFails => UNCHANGED Refs
  BY DEF StartSync, SyncFails
<1>3. SyncStep => \/ MergeFastForward \/ MergeStoreGitRemoteBranch
                  \/ FetchStoreGitRemote \/ PushStoreGitRemoteBranch
                  \/ UNCHANGED Refs
  BY DEF SyncStep, NothingToMerge, MergeConflicts, MergeRefused, AbortStoreGitMerge,
         PushRejected, SyncAnswered
<1>4. CASE UNCHANGED vars
  BY <1>4 DEF vars
<1> QED
  BY <1>1, <1>2, <1>3, <1>4 DEF Next

LEMMA TrackingKept ==
    ASSUME Inv, [Next]_vars
    PROVE  TrackingInv'
<1>1. CommitsStay
  BY CommitsGrow DEF Inv
<1>2. CASE RemotesStay /\ TrackingStays
  BY <1>2 DEF Inv, TrackingInv, RemotesStay, TrackingStays
<1>3. CASE \E w \in Workers : UpdateGitHead(w)
  BY <1>2, <1>3, UpdateGitHeadHistory DEF Inv
<1>4. CASE MergeFastForward
  BY <1>1, <1>2, <1>4, MergeFastForwardHistory DEF Inv
<1>5. CASE MergeStoreGitRemoteBranch
  BY <1>2, <1>5, MergeHistory DEF Inv
<1>6. CASE FetchStoreGitRemote
  <2>1. PICK r \in Remotes : sync.next = r
    BY <1>6 DEF Inv, LoopInv, FetchStoreGitRemote
  <2> QED
    BY <1>1, <1>6, <2>1, FetchHistory DEF Inv, TrackingInv, RemotesStay
<1>7. CASE PushStoreGitRemoteBranch
  <2>1. PICK r \in Remotes : sync.next = r
    BY <1>7 DEF Inv, LoopInv, PushStoreGitRemoteBranch
  <2> QED
    BY <1>1, <1>7, <2>1, PushHistory DEF Inv, TrackingInv
<1>8. CASE \E r \in Remotes, f \in ForeignFiles, v \in Versions : ForeignCommit(r, f, v)
  BY <1>8, ForeignHistory DEF Inv, TrackingInv, TrackingStays
<1>9. CASE UNCHANGED <<commits, head, remote, tracking>>
  BY <1>1, <1>2, <1>9, HistoriesStay DEF Inv, RemotesStay, TrackingStays
<1> QED
  BY <1>3, <1>4, <1>5, <1>6, <1>7, <1>8, <1>9, OtherSteps

\* A commit without a parent is made only while the branch has none.
LEMMA FirstCommitKept ==
    ASSUME FirstCommitIsSafe, Inv, [Next]_vars
    PROVE  FirstCommitInv'
<1> USE DEF Inv, FirstCommitInv
<1>1. Len(commits) + 1 # 0
  BY CommitFacts DEF TypeOK
<1>2. ASSUME NEW w \in Workers, UpdateGitHead(w)
      PROVE  FirstCommitInv'
  <2>1. head' # 0 /\ job'[w] = NoJob /\ \A v \in Workers \ {w} : job'[v] = job[v]
    BY <1>1, <1>2 DEF TypeOK, UpdateGitHead
  <2>2. ASSUME NEW v \in Workers, At(v, "commit")', job'[v].parent = 0
        PROVE  FALSE
    <3>1. v # w
      BY <2>1, <2>2 DEF At, NoJob
    <3>2. Starts \subseteq {1} /\ head = 0
      BY <2>1, <2>2, <3>1 DEF At, FirstCommitIsSafe
    <3> QED
      BY <3>2
  <2> QED
    BY <2>1, <2>2
<1>3. ASSUME NEW w \in Workers, HeadOid(w)
      PROVE  FirstCommitInv'
  <2>1. /\ head' = head /\ job'[w].parent = head
        /\ \A v \in Workers \ {w} : job'[v] = job[v]
    BY <1>3 DEF TypeOK, HeadOid
  <2> QED
    BY <2>1 DEF At
<1>4. ASSUME NEW w \in Workers, WorkerStep(w), ~UpdateGitHead(w), ~HeadOid(w)
      PROVE  FirstCommitInv'
  <2>1. \A v \in Workers \ {w} : job'[v] = job[v]
    BY <1>4 DEF TypeOK, WorkerStep, CommitStep, Save, StageGitPaths,
                StagedGitPathsHaveChanges, WriteGitTree, CommitRefused, CommitFails
  <2>2. job'[w].phase # "commit"
    BY <1>4 DEF TypeOK, JobType, NoJob, At, WorkerStep, CommitStep, Save, StageGitPaths,
                StagedGitPathsHaveChanges, WriteGitTree, CommitRefused, CommitFails
  <2>3. head' = head
    BY <1>4 DEF WorkerStep, CommitStep, Save, StageGitPaths, StagedGitPathsHaveChanges,
                WriteGitTree, CommitRefused, CommitFails
  <2> QED
    BY <2>1, <2>2, <2>3 DEF At
<1>5. CASE job' = job /\ head' = head
  BY <1>5 DEF At
<1>6. CASE job' = job /\ head # 0 /\ head' # 0
  BY <1>6 DEF At
<1>7. StartSync \/ SyncFails => job' = job /\ head' = head
  BY DEF StartSync, SyncFails
<1>8. CASE SyncStep
  <2>1. CASE MergeFastForward \/ MergeStoreGitRemoteBranch
    <3>1. job' = job /\ (head' = Len(commits) + 1 \/ (head' = Theirs /\ ~UpToDate))
      BY <2>1 DEF MergeFastForward, MergeStoreGitRemoteBranch
    <3>2. head # 0
      BY <2>1 DEF LoopInv, MergeFastForward, MergeStoreGitRemoteBranch, Merging
    <3>3. ~UpToDate => Theirs # 0
      BY DEF UpToDate, Past
    <3> QED
      BY <1>1, <1>6, <3>1, <3>2, <3>3
  <2>2. CASE ~(MergeFastForward \/ MergeStoreGitRemoteBranch)
    <3>1. job' = job /\ head' = head
      BY <1>8, <2>2 DEF SyncStep, FetchStoreGitRemote, NothingToMerge, MergeConflicts,
                        MergeRefused, AbortStoreGitMerge, PushStoreGitRemoteBranch,
                        PushRejected, SyncAnswered
    <3> QED
      BY <1>5, <3>1
  <2> QED
    BY <2>1, <2>2
<1>9. ASSUME NEW r \in Remotes, NEW f \in ForeignFiles, NEW v \in Versions,
             ForeignCommit(r, f, v)
      PROVE  FirstCommitInv'
  BY <1>5, <1>9 DEF ForeignCommit
<1>10. CASE UNCHANGED vars
  BY <1>5, <1>10 DEF vars
<1> QED
  BY <1>2, <1>3, <1>4, <1>5, <1>7, <1>8, <1>9, <1>10 DEF Next

LEMMA InvHolds ==
    ASSUME FirstCommitIsSafe
    PROVE  Spec => []Inv
<1>1. ASSUME Init
      PROVE  Inv
  <2>1. TypeOK
    BY <1>1, InitIsTyped
  <2>2. LoopInv
    BY <1>1 DEF Init, NoSync, LoopInv
  <2>3. TrackingInv
    BY <1>1 DEF Init, TrackingInv
  <2>4. FirstCommitInv
    <3>1. \A w \in Workers : ~At(w, "commit")
      BY <1>1 DEF Init, NoJob, At
    <3> QED
      BY <1>1, <3>1 DEF Init, FirstCommitInv
  <2> QED
    BY <2>1, <2>2, <2>3, <2>4 DEF Inv
<1>2. Inv /\ [Next]_vars => Inv'
  BY TypesKept, LoopKept, TrackingKept, FirstCommitKept DEF Inv
<1> QED
  BY <1>1, <1>2, PTL DEF Spec

-----------------------------------------------------------------------------
(* The store implements CommitHistory *)

LEMMA InitImplements ==
    ASSUME Init
    PROVE  H!HistoryInit
BY DEF Init, H!HistoryInit, Past

LEMMA StepImplements ==
    ASSUME Inv, [Next]_vars
    PROVE  [H!HistoryNext]_<<Past(head), [r \in Remotes |-> Past(remote[r])]>>
<1> DEFINE local == Past(head)
           published == [r \in Remotes |-> Past(remote[r])]
<1>1. CommitsStay
  BY CommitsGrow DEF Inv
<1>2. PICK n : n = Len(commits) + 1
  OBVIOUS
<1>3. H!Fresh(n)
  BY <1>2, NewCommitIsUnwritten DEF Inv, Unwritten, H!Fresh
<1>4. RemotesStay => published' = published
  BY DEF RemotesStay
<1>5. ASSUME NEW w \in Workers, UpdateGitHead(w)
      PROVE  H!HistoryNext
  <2>1. Past(head)' = Past(head) \cup {n} /\ RemotesStay
    BY <1>2, <1>5, UpdateGitHeadHistory DEF Inv
  <2> QED
    BY <1>3, <1>4, <2>1 DEF H!HistoryNext, H!CommitHere
<1>6. CASE MergeFastForward
  <2>1. PICK r \in Remotes : sync.next = r
    BY <1>6 DEF Inv, LoopInv, MergeFastForward, Merging
  <2>2. /\ Past(head)' = Past(tracking[r]) /\ Past(head) \subseteq Past(head)'
        /\ RemotesStay
    BY <1>1, <1>6, <2>1, MergeFastForwardHistory DEF Inv
  <2>3. Past(head)' \subseteq Past(head) \cup published[r]
    BY <2>2 DEF Inv, TrackingInv
  <2> QED
    BY <1>4, <2>2, <2>3 DEF H!HistoryNext, H!Take
<1>7. CASE MergeStoreGitRemoteBranch
  <2>1. PICK r \in Remotes : sync.next = r
    BY <1>7 DEF Inv, LoopInv, MergeStoreGitRemoteBranch, Merging
  <2>2. Past(head)' = {n} \cup Past(head) \cup Past(tracking[r]) /\ RemotesStay
    BY <1>2, <1>7, <2>1, MergeHistory DEF Inv
  <2>3. Past(head)' \subseteq Past(head) \cup published[r] \cup {n} /\ n \in Past(head)'
    BY <2>2 DEF Inv, TrackingInv
  <2> QED
    BY <1>3, <1>4, <2>2, <2>3 DEF H!HistoryNext, H!Take
<1>8. CASE FetchStoreGitRemote
  <2>1. PICK r \in Remotes : sync.next = r
    BY <1>8 DEF Inv, LoopInv, FetchStoreGitRemote
  <2>2. HeadStays /\ RemotesStay
    BY <1>1, <1>8, <2>1, FetchHistory DEF Inv
  <2> QED
    BY <1>4, <2>2 DEF HeadStays
<1>9. CASE PushStoreGitRemoteBranch
  <2>1. PICK r \in Remotes : sync.next = r
    BY <1>9 DEF Inv, LoopInv, PushStoreGitRemoteBranch
  <2>2. /\ HeadStays /\ Past(remote[r]) \subseteq Past(head)
        /\ Past(remote[r])' = Past(head)
        /\ \A q \in Remotes \ {r} : Past(remote[q])' = Past(remote[q])
    BY <1>1, <1>9, <2>1, PushHistory DEF Inv
  <2>3. published' = [published EXCEPT ![r] = Past(head)]
    BY <2>2
  <2> QED
    BY <2>2, <2>3 DEF HeadStays, H!HistoryNext, H!Publish
<1>10. ASSUME NEW r \in Remotes, NEW f \in ForeignFiles, NEW v \in Versions,
              ForeignCommit(r, f, v)
       PROVE  H!HistoryNext
  <2>1. /\ HeadStays /\ Past(remote[r])' = {n} \cup Past(remote[r])
        /\ \A q \in Remotes \ {r} : Past(remote[q])' = Past(remote[q])
    BY <1>2, <1>10, ForeignHistory DEF Inv
  <2>2. published' = [published EXCEPT ![r] = @ \cup {n}] /\ n \in published'[r]
    BY <2>1
  <2> QED
    BY <1>3, <2>1, <2>2 DEF HeadStays, H!HistoryNext, H!CommitElsewhere
<1>11. CASE UNCHANGED <<commits, head, remote, tracking>>
  <2>1. HeadStays /\ RemotesStay
    BY <1>1, <1>11, HistoriesStay DEF Inv, HeadStays, RemotesStay
  <2> QED
    BY <1>4, <2>1 DEF HeadStays
<1> QED
  BY <1>5, <1>6, <1>7, <1>8, <1>9, <1>10, <1>11, OtherSteps

\* Histories only grow: HEAD takes only commits made here or fetched, and a remote
\* gets all of HEAD's history or nothing, whatever the saves, syncs, failures and
\* other devices do (update_git_head with the old value, pushes that are not forced).
\* Two workers that both make the first commit of a branch are excepted: update-ref
\* has no old value to compare then.
THEOREM HistoryOnlyGrows ==
    ASSUME FirstCommitIsSafe
    PROVE  Spec => ImplementsHistory
<1>1. Init => H!HistoryInit
  BY InitImplements
<1>2. Inv /\ [Next]_vars
      => [H!HistoryNext]_<<Past(head), [r \in Remotes |-> Past(remote[r])]>>
  BY StepImplements
<1> QED
  BY <1>1, <1>2, InvHolds, PTL DEF Spec, ImplementsHistory, H!HistorySpec

-----------------------------------------------------------------------------
(* A sync that succeeds has published everything *)

LEMMA HeadGrows ==
    ASSUME Inv, [Next]_vars
    PROVE  Past(head) \subseteq Past(head)'
<1>1. CommitsStay
  BY CommitsGrow DEF Inv
<1>2. ASSUME NEW w \in Workers, UpdateGitHead(w)
      PROVE  Past(head) \subseteq Past(head)'
  BY <1>2, UpdateGitHeadHistory DEF Inv
<1>3. MergeFastForward => Past(head) \subseteq Past(head)'
  BY <1>1, MergeFastForwardHistory DEF Inv
<1>4. MergeStoreGitRemoteBranch => Past(head) \subseteq Past(head)'
  BY MergeHistory DEF Inv
<1>5. CASE head' = head
  BY <1>1, <1>5, HistoriesStay DEF Inv
<1> QED
  BY <1>2, <1>3, <1>4, <1>5, OtherSteps
     DEF FetchStoreGitRemote, PushStoreGitRemoteBranch, ForeignCommit

LEMMA RemotesGrow ==
    ASSUME Inv, [Next]_vars, NEW r \in Remotes
    PROVE  Past(remote[r]) \subseteq Past(remote[r])'
<1>1. CommitsStay
  BY CommitsGrow DEF Inv
<1>2. CASE remote' = remote
  BY <1>1, <1>2, HistoriesStay DEF Inv
<1>3. CASE PushStoreGitRemoteBranch
  <2>1. PICK q \in Remotes : sync.next = q
    BY <1>3 DEF Inv, LoopInv, PushStoreGitRemoteBranch
  <2> QED
    BY <1>1, <1>3, <2>1, PushHistory DEF Inv
<1>4. CASE \E q \in Remotes, f \in ForeignFiles, v \in Versions : ForeignCommit(q, f, v)
  BY <1>4, ForeignHistory DEF Inv
<1> QED
  BY <1>2, <1>3, <1>4, OtherSteps
     DEF UpdateGitHead, MergeFastForward, MergeStoreGitRemoteBranch, FetchStoreGitRemote

\* Where a commit the sync knows of is while the sync runs: on the way from the
\* remotes to HEAD, and from HEAD to the remotes.
Fetched(c) == \E r \in Remotes : r < sync.next /\ c \in Past(tracking[r])
ToMerge(c) == \E r \in Remotes : r >= sync.next /\ c \in Past(tracking[r])
Pushed(c) == \A r \in Remotes : r < sync.next => c \in Past(remote[r])

SeenInv ==
    \A c \in sync.seen :
        /\ sync.phase = "fetch" => c \in Past(head) \/ Fetched(c)
        /\ sync.phase = "merge" => c \in Past(head) \/ ToMerge(c)
        /\ sync.phase = "push" => c \in Past(head) /\ Pushed(c)
        /\ sync.phase = "done" => \A r \in Remotes : c \in Past(remote[r])

\* As long as the sync stands still, what others do keeps it.
LEMMA SeenStays ==
    ASSUME Inv, [Next]_vars, SeenInv, sync' = sync,
           \A r \in Remotes : Past(tracking[r]) \subseteq Past(tracking[r])'
    PROVE  SeenInv'
<1>1. Past(head) \subseteq Past(head)'
  BY HeadGrows
<1>2. \A r \in Remotes : Past(remote[r]) \subseteq Past(remote[r])'
  BY RemotesGrow
<1> QED
  BY <1>1, <1>2 DEF SeenInv, Fetched, ToMerge, Pushed

LEMMA SeenByFetch ==
    ASSUME Inv, [Next]_vars, SeenInv, FetchStoreGitRemote
    PROVE  SeenInv'
<1>1. CommitsStay
  BY CommitsGrow DEF Inv
<1>2. PICK r \in Remotes : sync.next = r
  BY DEF Inv, LoopInv, FetchStoreGitRemote
<1>3. /\ HeadStays /\ Past(tracking[r])' = Past(remote[r])
      /\ \A q \in Remotes \ {r} : Past(tracking[q])' = Past(tracking[q])
  BY <1>1, <1>2, FetchHistory DEF Inv
<1> DEFINE s == [sync EXCEPT !.seen = @ \cup Past(remote[sync.next])]
<1>4. Past(remote[r]) \subseteq 1..Len(commits)
  BY CommitFacts DEF Inv, TypeOK
<1>5. /\ s \in SyncType /\ s.next = r /\ s.phase = "fetch"
      /\ s.seen = sync.seen \cup Past(remote[r])
  BY <1>2, <1>4 DEF Inv, TypeOK, SyncType, FetchStoreGitRemote
<1>6. sync' = Advance(s, "merge")
  BY DEF FetchStoreGitRemote
<1> HIDE DEF s
<1>7. /\ sync'.seen = sync.seen \cup Past(remote[r])
      /\ \/ sync'.phase = "fetch" /\ sync'.next = r + 1
         \/ sync'.phase = "merge" /\ sync'.next = 1
  BY <1>5, <1>6, AdvanceFacts
<1>8. \A c \in sync'.seen : c \in Past(head)' \/ \E q \in Remotes : q <= r /\ c \in Past(tracking[q])'
  <2> SUFFICES ASSUME NEW c \in sync'.seen, c \notin Past(head)'
               PROVE  \E q \in Remotes : q <= r /\ c \in Past(tracking[q])'
    OBVIOUS
  <2>1. CASE c \in Past(remote[r])
    <3>1. r <= r
      BY DEF Remotes
    <3> QED
      BY <1>3, <2>1, <3>1
  <2>2. CASE c \in sync.seen
    <3>1. PICK q \in Remotes : q < r /\ c \in Past(tracking[q])
      BY <1>2, <1>3, <2>2 DEF SeenInv, Fetched, HeadStays, FetchStoreGitRemote
    <3>2. q # r /\ q <= r
      BY <3>1 DEF Remotes
    <3> QED
      BY <1>3, <3>1, <3>2
  <2> QED
    BY <1>7, <2>1, <2>2
<1>9. \A q \in Remotes : q >= 1 /\ (q <= r => q < r + 1)
  BY DEF Remotes
<1> QED
  BY <1>7, <1>8, <1>9 DEF SeenInv, Fetched, ToMerge

\* A merge brings what was fetched from one remote to HEAD.
LEMMA SeenByMerge ==
    ASSUME Inv, [Next]_vars, SeenInv, Merging, NEW r \in Remotes, sync.next = r,
           sync' = Advance(sync, "push"), TrackingStays,
           Past(tracking[r]) \subseteq Past(head)'
    PROVE  SeenInv'
<1>1. Past(head) \subseteq Past(head)'
  BY HeadGrows
<1>2. /\ sync'.seen = sync.seen
      /\ \/ sync'.phase = "merge" /\ sync'.next = r + 1
         \/ sync'.phase = "push" /\ sync'.next = 1 /\ r = RemoteCount
  BY AdvanceFacts DEF Inv, TypeOK, Merging
<1>3. \A c \in sync.seen :
          c \in Past(head)' \/ \E q \in Remotes : q >= r + 1 /\ c \in Past(tracking[q])'
  <2> SUFFICES ASSUME NEW c \in sync.seen, c \notin Past(head)'
               PROVE  \E q \in Remotes : q >= r + 1 /\ c \in Past(tracking[q])'
    OBVIOUS
  <2>1. PICK q \in Remotes : q >= r /\ c \in Past(tracking[q])
    BY <1>1 DEF SeenInv, ToMerge, Merging
  <2>2. q # r
    BY <2>1
  <2>3. q >= r + 1
    BY <2>1, <2>2 DEF Remotes
  <2> QED
    BY <2>1, <2>3 DEF TrackingStays
<1>4. \A q \in Remotes : ~(q < 1) /\ (r = RemoteCount => ~(q >= r + 1))
  BY GitAssumption DEF Remotes
<1> QED
  BY <1>2, <1>3, <1>4 DEF SeenInv, ToMerge, Pushed

LEMMA SeenByPush ==
    ASSUME Inv, [Next]_vars, SeenInv, PushStoreGitRemoteBranch
    PROVE  SeenInv'
<1>1. CommitsStay
  BY CommitsGrow DEF Inv
<1>2. PICK r \in Remotes : sync.next = r
  BY DEF Inv, LoopInv, PushStoreGitRemoteBranch
<1>3. /\ HeadStays /\ Past(remote[r])' = Past(head)
      /\ \A q \in Remotes \ {r} : Past(remote[q])' = Past(remote[q])
  BY <1>1, <1>2, PushHistory DEF Inv
<1>4. /\ sync'.seen = sync.seen
      /\ \/ sync'.phase = "push" /\ sync'.next = r + 1
         \/ sync'.phase = "done" /\ sync'.next = 1 /\ r = RemoteCount
  BY <1>2, AdvanceFacts DEF Inv, TypeOK, PushStoreGitRemoteBranch
<1>5. \A c \in sync.seen :
          c \in Past(head)' /\ \A q \in Remotes : q < r + 1 => c \in Past(remote[q])'
  <2> SUFFICES ASSUME NEW c \in sync.seen
               PROVE  /\ c \in Past(head)
                      /\ \A q \in Remotes : q < r + 1 => c \in Past(remote[q])'
    BY <1>3 DEF HeadStays
  <2>1. c \in Past(head) /\ \A q \in Remotes : q < r => c \in Past(remote[q])
    BY <1>2 DEF SeenInv, Pushed, PushStoreGitRemoteBranch
  <2>2. \A q \in Remotes : q < r + 1 => q = r \/ q < r
    BY DEF Remotes
  <2> QED
    BY <1>3, <2>1, <2>2
<1>6. \A q \in Remotes : r = RemoteCount => q < r + 1
  BY GitAssumption DEF Remotes
<1> QED
  BY <1>4, <1>5, <1>6 DEF SeenInv, Pushed

LEMMA SeenByStart ==
    ASSUME Inv, [Next]_vars, StartSync
    PROVE  SeenInv'
<1>1. Past(head) \subseteq Past(head)'
  BY HeadGrows
<1>2. sync'.seen = Past(head) /\ sync'.phase \in {"done", "failed", "fetch"}
  BY DEF StartSync
<1>3. sync'.phase = "done" => Remotes = {}
  BY DEF StartSync, Remotes
<1> QED
  BY <1>1, <1>2, <1>3 DEF SeenInv

LEMMA SeenKept ==
    ASSUME Inv, [Next]_vars, SeenInv
    PROVE  SeenInv'
<1>1. CommitsStay
  BY CommitsGrow DEF Inv
<1>2. ASSUME NEW w \in Workers, WorkerStep(w)
      PROVE  SeenInv'
  <2>1. sync' = sync
    BY <1>2 DEF WorkerStep, CommitStep, Save, StageGitPaths, StagedGitPathsHaveChanges,
                WriteGitTree, HeadOid, UpdateGitHead, CommitRefused, CommitFails
  <2>2. tracking' = tracking
    BY <1>2 DEF WorkerStep, CommitStep, Save, StageGitPaths, StagedGitPathsHaveChanges,
                WriteGitTree, HeadOid, UpdateGitHead, CommitRefused, CommitFails
  <2> QED
    BY <1>1, <2>1, <2>2, HistoriesStay, SeenStays DEF Inv
<1>3. CASE SyncFails
  BY <1>3 DEF Inv, TypeOK, SyncType, SyncFails, End, SeenInv
<1>4. CASE SyncStep
  <2>1. CASE NothingToMerge \/ MergeFastForward \/ MergeStoreGitRemoteBranch
    <3>1. Merging /\ sync' = Advance(sync, "push")
      BY <2>1 DEF NothingToMerge, MergeFastForward, MergeStoreGitRemoteBranch
    <3>2. PICK r \in Remotes : sync.next = r
      BY <3>1 DEF Inv, LoopInv, Merging
    <3>3. CASE NothingToMerge
      <4>1. TrackingStays /\ Past(head)' = Past(head)
        BY <1>1, <3>3, HistoriesStay DEF Inv, NothingToMerge, TrackingStays
      <4>2. Past(tracking[r]) \subseteq Past(head)
        BY <3>2, <3>3 DEF NothingToMerge, UpToDate, Theirs
      <4> QED
        BY <3>1, <3>2, <4>1, <4>2, SeenByMerge
    <3>4. CASE MergeFastForward
      <4>1. TrackingStays /\ Past(head)' = Past(tracking[r])
        BY <1>1, <3>2, <3>4, MergeFastForwardHistory DEF Inv
      <4> QED
        BY <3>1, <3>2, <4>1, SeenByMerge
    <3>5. CASE MergeStoreGitRemoteBranch
      <4>1. TrackingStays /\ Past(tracking[r]) \subseteq Past(head)'
        BY <3>2, <3>5, MergeHistory DEF Inv
      <4> QED
        BY <3>1, <3>2, <4>1, SeenByMerge
    <3> QED
      BY <2>1, <3>3, <3>4, <3>5
  <2>2. CASE FetchStoreGitRemote
    BY <2>2, SeenByFetch
  <2>3. CASE PushStoreGitRemoteBranch
    BY <2>3, SeenByPush
  <2>4. CASE MergeConflicts \/ MergeRefused \/ AbortStoreGitMerge \/ PushRejected
             \/ SyncAnswered
    <3>1. sync'.phase \in {"abort", "failed", "idle"}
      BY <2>4 DEF Inv, TypeOK, SyncType, MergeConflicts, MergeRefused,
                  AbortStoreGitMerge, PushRejected, SyncAnswered, NoSync, End
    <3> QED
      BY <3>1 DEF SeenInv
  <2> QED
    BY <1>4, <2>1, <2>2, <2>3, <2>4 DEF SyncStep
<1>5. ASSUME NEW r \in Remotes, NEW f \in ForeignFiles, NEW v \in Versions,
             ForeignCommit(r, f, v)
      PROVE  SeenInv'
  <2>1. sync' = sync /\ tracking' = tracking
    BY <1>5 DEF ForeignCommit
  <2> QED
    BY <1>1, <2>1, HistoriesStay, SeenStays DEF Inv
<1>6. CASE UNCHANGED vars
  <2>1. sync' = sync /\ tracking' = tracking
    BY <1>6 DEF vars
  <2> QED
    BY <1>1, <2>1, HistoriesStay, SeenStays DEF Inv
<1>7. CASE StartSync
  BY <1>7, SeenByStart
<1> QED
  BY <1>2, <1>3, <1>4, <1>5, <1>6, <1>7 DEF Next

\* A sync that reports success has brought everything this device had when it
\* started, and everything it fetched, to every remote, for any number of remotes and
\* whatever is saved or pushed meanwhile (sync_store_repository fetches all, merges
\* all, then pushes all).
THEOREM SyncPublishes ==
    ASSUME FirstCommitIsSafe
    PROVE  Spec => []SyncedIsPublished
<1>1. Init => SeenInv
  <2>1. Init => sync.seen = {}
    BY DEF Init, NoSync
  <2> QED
    BY <2>1 DEF SeenInv
<1>2. Inv /\ SeenInv /\ [Next]_vars => SeenInv'
  BY SeenKept
<1>3. SeenInv => SyncedIsPublished
  BY DEF SeenInv, SyncedIsPublished
<1> QED
  BY <1>1, <1>2, <1>3, InvHolds, PTL DEF Spec

-----------------------------------------------------------------------------
(* A merge that conflicts is aborted *)

StepCounts == [saves : Nat, during : Nat, foreign : Nat, syncs : Nat, failures : Nat,
               aborts : Nat]

\* Nothing was saved during a sync, and no abort failed.
Undisturbed == used.during = 0 /\ used.aborts = 0

\* A conflict leaves the working tree and the index alike, and only a save makes
\* them differ; the abort, which refuses to lose a change, then has nothing to
\* refuse.
AbortInv ==
    /\ used \in StepCounts
    /\ Undisturbed =>
         /\ merging => sync.phase = "abort"
         /\ sync.phase = "abort" => work = index

LEMMA CountsKept ==
    ASSUME used \in StepCounts,
           \/ UNCHANGED used
           \/ \E what \in {"foreign", "syncs", "failures"} : \E bound : Spend(what, bound)
    PROVE  /\ used' \in StepCounts
           /\ used'.during = used.during /\ used'.aborts = used.aborts
<1>1. CASE UNCHANGED used
  BY <1>1
<1>2. ASSUME NEW what \in {"foreign", "syncs", "failures"}, NEW bound, Spend(what, bound)
      PROVE  /\ used' \in StepCounts
             /\ used'.during = used.during /\ used'.aborts = used.aborts
  <2>1. used' = [used EXCEPT ![what] = @ + 1]
    BY <1>2 DEF Spend
  <2>2. used[what] + 1 \in Nat
    BY DEF StepCounts
  <2> QED
    BY <2>1, <2>2 DEF StepCounts
<1> QED
  BY <1>1, <1>2

LEMMA AbortKept ==
    ASSUME TypeOK, AbortInv, [Next]_vars
    PROVE  AbortInv'
<1>1. ASSUME used' \in StepCounts, Undisturbed' => Undisturbed,
             Undisturbed => /\ merging' => sync'.phase = "abort"
                            /\ sync'.phase = "abort" => work' = index'
      PROVE  AbortInv'
  BY <1>1 DEF AbortInv
<1>2. ASSUME \/ UNCHANGED used
             \/ \E what \in {"foreign", "syncs", "failures"} : \E bound : Spend(what, bound)
      PROVE  used' \in StepCounts /\ Undisturbed' = Undisturbed
  BY <1>2, CountsKept DEF AbortInv, Undisturbed
<1>3. ASSUME NEW w \in Workers, WorkerStep(w)
      PROVE  AbortInv'
  <2>1. ASSUME NEW ps \in SUBSET LocalFiles, NEW v \in Versions, Save(w, ps, v)
        PROVE  AbortInv'
    <3> DEFINE more == IF sync.phase = "idle" THEN 0 ELSE 1
    <3>1. used' = [used EXCEPT !.saves = @ + 1, !.during = @ + more]
      BY <2>1 DEF Save
    <3>2. used.saves + 1 \in Nat /\ used.during + more \in Nat
      BY DEF AbortInv, StepCounts
    <3>3. /\ used' \in StepCounts /\ used'.during = used.during + more
          /\ used'.aborts = used.aborts
      BY <3>1, <3>2 DEF AbortInv, StepCounts
    <3>4. sync.phase # "idle" => used'.during # 0
      BY <3>3 DEF AbortInv, StepCounts
    <3>5. sync.phase = "idle" => used'.during = used.during
      BY <3>3 DEF AbortInv, StepCounts
    <3>6. merging' = merging /\ sync' = sync
      BY <2>1 DEF Save
    <3> QED
      BY <3>3, <3>4, <3>5, <3>6 DEF AbortInv, Undisturbed
  <2>2. CASE StageGitPaths(w)
    <3>1. work = index => work' = index'
      BY <2>2 DEF TypeOK, Trees, StageGitPaths
    <3> QED
      BY <1>1, <1>2, <2>2, <3>1 DEF StageGitPaths, AbortInv
  <2>3. CASE \/ StagedGitPathsHaveChanges(w) \/ WriteGitTree(w) \/ HeadOid(w)
             \/ UpdateGitHead(w) \/ CommitRefused(w) \/ CommitFails(w)
    <3>1. UNCHANGED <<work, index, merging, sync>>
      BY <2>3 DEF StagedGitPathsHaveChanges, WriteGitTree, HeadOid, UpdateGitHead,
                  CommitRefused, CommitFails, tree
    <3>2. UNCHANGED used \/ Spend("failures", MaxFailures)
      BY <2>3 DEF StagedGitPathsHaveChanges, WriteGitTree, HeadOid, UpdateGitHead,
                  CommitRefused, CommitFails
    <3> QED
      BY <1>1, <1>2, <3>1, <3>2 DEF AbortInv
  <2> QED
    BY <1>3, <2>1, <2>2, <2>3 DEF WorkerStep, CommitStep
<1>4. CASE StartSync
  <2>1. UNCHANGED <<merging, work, index>> /\ Spend("syncs", MaxSyncs)
        /\ sync.phase = "idle" /\ sync'.phase # "abort"
    BY <1>4 DEF StartSync, tree
  <2> QED
    BY <1>1, <1>2, <2>1 DEF AbortInv
<1>5. CASE SyncFails
  <2> DEFINE failed == IF sync.phase = "abort" THEN 1 ELSE 0
  <2>1. /\ UNCHANGED <<merging, work, index>> /\ sync'.phase = "failed"
        /\ used' = [used EXCEPT !.failures = @ + 1, !.aborts = @ + failed]
    BY <1>5 DEF SyncFails, End, tree, TypeOK, SyncType
  <2>2. used.failures + 1 \in Nat /\ used.aborts + failed \in Nat
    BY DEF AbortInv, StepCounts
  <2>3. /\ used' \in StepCounts /\ used'.during = used.during
        /\ used'.aborts = used.aborts + failed
    BY <2>1, <2>2 DEF AbortInv, StepCounts
  <2>4. Undisturbed' => Undisturbed /\ sync.phase # "abort"
    BY <2>3 DEF AbortInv, StepCounts, Undisturbed
  <2> QED
    BY <2>1, <2>3, <2>4 DEF AbortInv
<1>6. ASSUME NEW r \in Remotes, NEW f \in ForeignFiles, NEW v \in Versions,
             ForeignCommit(r, f, v)
      PROVE  AbortInv'
  <2>1. UNCHANGED <<merging, work, index, sync>> /\ Spend("foreign", MaxForeign)
    BY <1>6 DEF ForeignCommit, tree
  <2> QED
    BY <1>1, <1>2, <2>1 DEF AbortInv
<1>7. CASE SyncStep
  <2>1. UNCHANGED used
    BY <1>7 DEF SyncStep, FetchStoreGitRemote, NothingToMerge, MergeFastForward,
           MergeStoreGitRemoteBranch, MergeConflicts, MergeRefused, AbortStoreGitMerge,
           PushStoreGitRemoteBranch, PushRejected, SyncAnswered
  <2>2. sync \in SyncType
    BY DEF TypeOK
  <2>3. CASE MergeConflicts
    <3>1. work' = index' /\ sync'.phase = "abort"
      BY <2>2, <2>3 DEF MergeConflicts, End, SyncType
    <3> QED
      BY <1>1, <1>2, <2>1, <3>1
  <2>4. CASE AbortStoreGitMerge
    <3>1. sync'.phase = "failed" /\ sync.phase = "abort"
      BY <2>2, <2>4 DEF AbortStoreGitMerge, End, SyncType
    <3>2. work = index => merging' = FALSE
      BY <2>4 DEF AbortStoreGitMerge
    <3> QED
      BY <1>1, <1>2, <2>1, <3>1, <3>2 DEF AbortInv
  <2>5. CASE MergeRefused
    <3>1. Undisturbed => ~merging
      BY <2>5 DEF MergeRefused, Merging, AbortInv
    <3>2. merging' = merging /\ (~merging => sync'.phase = "failed")
      BY <2>2, <2>5 DEF MergeRefused, End, tree, SyncType
    <3> QED
      BY <1>1, <1>2, <2>1, <3>1, <3>2
  <2>6. CASE \/ FetchStoreGitRemote \/ NothingToMerge \/ MergeFastForward
             \/ MergeStoreGitRemoteBranch \/ PushStoreGitRemoteBranch \/ PushRejected
             \/ SyncAnswered
    <3>1. merging' = merging /\ sync.phase # "abort"
      BY <2>6 DEF FetchStoreGitRemote, NothingToMerge, MergeFastForward, tree, Merging,
           MergeStoreGitRemoteBranch, PushStoreGitRemoteBranch, PushRejected, SyncAnswered
    <3> DEFINE Phases == {"idle", "fetch", "merge", "abort", "push", "done", "failed"}
               SyncOf(x) == [phase : Phases, next : Nat, seen : {x}]
    <3>2. ASSUME NEW x, NEW s \in SyncOf(x),
                 s.phase # "abort", NEW following \in {"merge", "push", "done"}
          PROVE  Advance(s, following).phase # "abort"
      BY <3>2 DEF Advance
    <3>3. sync'.phase # "abort"
      <4>1. CASE FetchStoreGitRemote
        <5> DEFINE s == [sync EXCEPT !.seen = @ \cup Past(remote[sync.next])]
        <5>1. /\ s.phase # "abort"
              /\ s \in SyncOf(sync.seen \cup Past(remote[sync.next]))
          BY <2>2, <3>1 DEF SyncType
        <5>2. sync' = Advance(s, "merge")
          BY <4>1 DEF FetchStoreGitRemote
        <5> HIDE DEF s
        <5> QED
          BY <3>2, <5>1, <5>2
      <4>2. CASE sync' = Advance(sync, "push") \/ sync' = Advance(sync, "done")
        <5>1. sync \in SyncOf(sync.seen)
          BY <2>2 DEF SyncType
        <5> QED
          BY <3>1, <3>2, <4>2, <5>1
      <4>3. CASE PushRejected \/ SyncAnswered
        BY <2>2, <4>3 DEF PushRejected, SyncAnswered, End, NoSync, SyncType
      <4> QED
        BY <2>6, <4>1, <4>2, <4>3 DEF NothingToMerge, MergeFastForward,
             MergeStoreGitRemoteBranch, PushStoreGitRemoteBranch
    <3> QED
      BY <1>1, <1>2, <2>1, <3>1, <3>3 DEF AbortInv
  <2> QED
    BY <1>7, <2>3, <2>4, <2>5, <2>6 DEF SyncStep
<1>8. CASE UNCHANGED vars
  BY <1>1, <1>2, <1>8 DEF vars, AbortInv
<1> QED
  BY <1>3, <1>4, <1>5, <1>6, <1>7, <1>8 DEF Next

\* A merge that is left behind stays where a sync meets it before it pushes: at a
\* remote that has the branch, and that the loop of merges has not passed.
LeftInv ==
    /\ \A r \in Remotes : tracking[r] # 0 => remote[r] # 0
    /\ merging =>
         /\ sync.phase \notin {"push", "done"}
         /\ \E r \in Remotes : /\ tracking[r] # 0
                               /\ sync.phase = "merge" => r >= sync.next

LEMMA LeftKept ==
    ASSUME TypeOK, LoopInv, LeftInv, [Next]_vars
    PROVE  LeftInv'
<1>0. sync \in SyncType /\ Len(commits) + 1 # 0
  BY CommitFacts DEF TypeOK
<1>1. ASSUME NEW w \in Workers, WorkerStep(w)
      PROVE  LeftInv'
  <2>1. UNCHANGED <<remote, tracking, merging, sync>>
    BY <1>1 DEF WorkerStep, CommitStep, Save, StageGitPaths, StagedGitPathsHaveChanges,
                WriteGitTree, HeadOid, UpdateGitHead, CommitRefused, CommitFails, tree
  <2> QED
    BY <2>1 DEF LeftInv
<1>2. ASSUME UNCHANGED <<remote, tracking, merging>>,
             sync'.phase \in {"idle", "fetch", "abort", "failed"}
      PROVE  LeftInv'
  BY <1>2 DEF LeftInv
<1>3. CASE StartSync
  <2>1. UNCHANGED <<remote, tracking, merging>>
    BY <1>3 DEF StartSync, tree
  <2>2. CASE RemoteCount = 0
    BY <2>1, <2>2 DEF LeftInv, Remotes
  <2>3. CASE RemoteCount # 0
    BY <1>2, <1>3, <2>1, <2>3 DEF StartSync
  <2> QED
    BY <2>2, <2>3
<1>4. CASE SyncFails \/ MergeRefused \/ PushRejected \/ SyncAnswered
  <2>1. UNCHANGED <<remote, tracking, merging>>
    BY <1>4 DEF SyncFails, MergeRefused, PushRejected, SyncAnswered, tree
  <2>2. sync'.phase \in {"idle", "abort", "failed"}
    BY <1>0, <1>4
       DEF SyncFails, MergeRefused, PushRejected, SyncAnswered, End, NoSync, SyncType
  <2> QED
    BY <1>2, <2>1, <2>2
<1>5. ASSUME NEW r \in Remotes, NEW f \in ForeignFiles, NEW v \in Versions,
             ForeignCommit(r, f, v)
      PROVE  LeftInv'
  <2>1. /\ UNCHANGED <<tracking, merging, sync>>
        /\ remote' = [remote EXCEPT ![r] = Len(commits) + 1]
    BY <1>5 DEF ForeignCommit, tree
  <2> QED
    BY <1>0, <2>1 DEF LeftInv, TypeOK
<1>6. CASE FetchStoreGitRemote
  <2> DEFINE s == [sync EXCEPT !.seen = @ \cup Past(remote[sync.next])]
  <2>1. /\ sync.phase = "fetch" /\ sync' = Advance(s, "merge")
        /\ UNCHANGED <<remote, merging>>
        /\ tracking' = [tracking EXCEPT ![sync.next] = remote[sync.next]]
    BY <1>6 DEF FetchStoreGitRemote, tree
  <2>2. sync.next \in Remotes
    BY <2>1 DEF LoopInv
  <2>3. s \in SyncType /\ s.phase = "fetch" /\ s.next = sync.next
    <3>1. Past(remote[sync.next]) \subseteq 1..Len(commits)
      BY <2>2, CommitFacts DEF TypeOK
    <3> QED
      BY <1>0, <2>1, <3>1 DEF SyncType
  <2>4. sync'.phase = "fetch" \/ (sync'.phase = "merge" /\ sync'.next = 1)
    BY <2>1, <2>2, <2>3, AdvanceFacts
  <2>5. \A r \in Remotes : /\ tracking[r] # 0 => tracking'[r] # 0
                           /\ tracking'[r] # 0 => remote'[r] # 0
                           /\ r >= 1
    BY <2>1, <2>2, GitAssumption DEF LeftInv, TypeOK, Remotes
  <2> QED
    BY <2>1, <2>4, <2>5 DEF LeftInv
<1>7. CASE NothingToMerge
  <2>1. /\ sync.phase = "merge" /\ sync' = Advance(sync, "push")
        /\ UNCHANGED <<remote, tracking, merging>>
        /\ merging => tracking[sync.next] = 0
    BY <1>7 DEF NothingToMerge, Merging, Theirs, tree
  <2>2. sync.next \in Remotes
    BY <2>1 DEF LoopInv
  <2>3. \/ sync'.phase = "merge" /\ sync'.next = sync.next + 1
        \/ sync'.phase = "push" /\ sync.next = RemoteCount
    BY <1>0, <2>1, <2>2, AdvanceFacts
  <2>4. ASSUME merging
        PROVE  \E r \in Remotes : tracking[r] # 0 /\ r >= sync.next + 1
    <3>1. PICK r \in Remotes : tracking[r] # 0 /\ r >= sync.next
      BY <2>1, <2>4 DEF LeftInv
    <3>2. r # sync.next
      BY <2>1, <2>4, <3>1
    <3> QED
      BY <2>2, <3>1, <3>2, GitAssumption DEF Remotes
  <2>5. merging => sync.next < RemoteCount
    BY <2>2, <2>4, GitAssumption DEF Remotes
  <2>6. merging => sync'.phase = "merge" /\ sync'.next = sync.next + 1
    BY <2>2, <2>3, <2>5, GitAssumption DEF Remotes
  <2> QED
    BY <2>1, <2>4, <2>6 DEF LeftInv
<1>8. CASE MergeFastForward \/ MergeStoreGitRemoteBranch
  <2>1. ~merging /\ UNCHANGED <<merging, remote, tracking>>
    BY <1>8 DEF MergeFastForward, MergeStoreGitRemoteBranch, MergeAccepted
  <2> QED
    BY <2>1 DEF LeftInv
<1>9. CASE MergeConflicts
  <2>1. /\ UNCHANGED <<remote, tracking>> /\ ~UpToDate /\ sync.phase = "merge"
        /\ sync'.phase = "abort"
    BY <1>0, <1>9 DEF MergeConflicts, Merging, End, SyncType
  <2>2. sync.next \in Remotes /\ tracking[sync.next] # 0
    BY <2>1 DEF LoopInv, UpToDate, Theirs, Past
  <2> QED
    BY <2>1, <2>2 DEF LeftInv
<1>10. CASE AbortStoreGitMerge
  <2>1. /\ UNCHANGED <<remote, tracking>> /\ (merging' => merging)
        /\ sync'.phase = "failed"
    BY <1>0, <1>10 DEF AbortStoreGitMerge, End, SyncType, tree
  <2> QED
    BY <2>1 DEF LeftInv
<1>11. CASE PushStoreGitRemoteBranch
  <2>1. /\ sync.phase = "push" /\ UNCHANGED merging
        /\ remote' = [remote EXCEPT ![sync.next] = head]
        /\ tracking' = [tracking EXCEPT ![sync.next] = head]
    BY <1>11 DEF PushStoreGitRemoteBranch, tree
  <2>2. sync.next \in Remotes /\ head # 0
    BY <2>1 DEF LoopInv
  <2>3. \A r \in Remotes : tracking'[r] # 0 => remote'[r] # 0
    BY <2>1, <2>2 DEF LeftInv, TypeOK
  <2> QED
    BY <2>1, <2>3 DEF LeftInv
<1>12. CASE UNCHANGED vars
  BY <1>12 DEF vars, LeftInv
<1> QED
  BY <1>1, <1>3, <1>4, <1>5, <1>6, <1>7, <1>8, <1>9, <1>10, <1>11, <1>12
     DEF Next, SyncStep

\* As long as no save runs into a sync and no git merge --abort fails, a merge that
\* conflicts is undone before the sync ends, whatever was staged or committed, fetched
\* or pushed meanwhile (merge_store_git_remote_branch aborts after a failed merge).
\* One that is left behind all the same, by a failed abort, which is only logged, or
\* by a save, keeps every sync from pushing and from reporting success, however saves
\* stage and commit what was in conflict (git merge refuses to begin).
THEOREM ConflictsAreAborted == Spec => []NoMergeIsLeftBehind
<1>1. Init => AbortInv /\ LeftInv
  BY DEF Init, NoSync, AbortInv, LeftInv, StepCounts, Undisturbed
<1>2. TypeOK /\ AbortInv /\ [Next]_vars => AbortInv'
  BY AbortKept
<1>3. TypeOK /\ LoopInv /\ LeftInv /\ [Next]_vars => LeftInv'
  BY LeftKept
<1>4. AbortInv /\ LeftInv => NoMergeIsLeftBehind
  BY DEF AbortInv, LeftInv, StepCounts, Undisturbed, NoMergeIsLeftBehind
<1>5. Init => TypeOK /\ LoopInv
  <2>1. Init => sync.phase = "idle"
    BY DEF Init, NoSync
  <2> QED
    BY <2>1, InitIsTyped DEF LoopInv
<1>6. TypeOK /\ LoopInv /\ [Next]_vars => (TypeOK /\ LoopInv)'
  BY TypesKept, LoopKept
<1> QED
  BY <1>1, <1>2, <1>3, <1>4, <1>5, <1>6, PTL DEF Spec

-----------------------------------------------------------------------------
(* The pages of the remotes *)

\* There are windows and names.
RemoteBounds ==
    /\ Windows # {} /\ Bases # {}
    /\ MaxClicks \in Nat /\ MaxGitErrors \in Nat /\ MaxOutside \in Nat

\* The list a rename leads to.
Renamed(listed, n, m) == [listed EXCEPT ![n] = Git!NoUrl, ![m] = listed[n]]

\* The dialog takes the answer by the list as it is now.
Fits(kind, name, listed, next, url) ==
    Git!RemoteDialogAccepts([kind |-> kind, name |-> name, seen |-> listed], next, url)

\* How far an edit has come, and what the remotes are like by then.
EditInStep ==
    LET before == edit.before
        renamed == IF edit.name # edit.next THEN Renamed(before, edit.name, edit.next)
                   ELSE before
    IN  /\ edit.at \in {"init", "add"} => edit.kind = "add" /\ remotes = before
        /\ edit.at = "add" => repository
        /\ edit.at = "list" => edit.kind = "edit" /\ remotes = before
        /\ edit.at = "rename" =>
               /\ edit.kind = "edit" /\ remotes = before /\ edit.name # edit.next
               /\ edit.urlChanged = (before[edit.name] # edit.url)
        /\ edit.at = "url" =>
               /\ edit.kind = "edit" /\ remotes = renamed
        /\ edit.at \in {"url", "back"} =>
               (edit.name # edit.next =>
                    before[edit.name] # Git!NoUrl /\ before[edit.next] = Git!NoUrl)
        /\ edit.at = "back" =>
               edit.kind = "edit" /\ edit.name # edit.next /\ remotes = renamed
        /\ edit.at = "remove" => edit.kind = "remove" /\ remotes = before
        /\ edit.at = "done" => remotes = Git!Wanted
        /\ (edit.at = "failed" /\ ~edit.stuck) => remotes = before

\* While dialogs answer by a current list, what was answered fits the list.
AnswerFits ==
    (~misled /\ edit.at \in {"init", "add", "list", "rename", "url", "back"}) =>
        /\ Git!Distinct(edit.before)
        /\ Fits(edit.kind, edit.name, edit.before, edit.next, edit.url)

\* A dialog that is closed is no dialog.
NoneIsClosed ==
    \A w \in Windows : dialogs[w].kind = "closed" => dialogs[w] = Git!NoDialog

RemoteInv ==
    /\ Git!TypeOK /\ EditInStep /\ AnswerFits /\ NoneIsClosed
    /\ ~misled => Git!Distinct(remotes)

-----------------------------------------------------------------------------
(* Lists of remotes *)

LEMMA RemoteNames ==
    ASSUME RemoteBounds
    PROVE  Git!AnyName \in Git!Names /\ (CHOOSE w \in Windows : TRUE) \in Windows
<1>1. PICK b \in Bases : TRUE
  BY DEF RemoteBounds
<1>2. [base |-> b, upper |-> TRUE] \in Git!Names
  BY DEF Git!Names
<1> QED
  BY <1>2, Zenon DEF Git!AnyName, RemoteBounds

LEMMA RemoteTypes ==
    /\ Git!NoRemotes \in Git!Remotes /\ Git!NoUrl \in Urls \cup {Git!NoUrl}
    /\ \A listed \in Git!Remotes, n \in Git!Names : listed[n] \in Urls \cup {Git!NoUrl}
    /\ \A listed \in Git!Remotes, n \in Git!Names, url \in Urls \cup {Git!NoUrl} :
          [listed EXCEPT ![n] = url] \in Git!Remotes
    /\ \A listed \in Git!Remotes, n, m \in Git!Names : Renamed(listed, n, m) \in Git!Remotes
BY DEF Git!NoRemotes, Git!Remotes, Renamed

LEMMA IdleTypes ==
    ASSUME RemoteBounds
    PROVE  /\ Git!Idle \in Git!Edits /\ Git!Idle.at = "idle" /\ Git!NoDialog \in Git!Dialogs
           /\ Git!Closed \in Git!Pages
BY RemoteNames, RemoteTypes
   DEF Git!Idle, Git!Edits, Git!Stages, Git!NoDialog, Git!Dialogs, Git!Closed, Git!Pages

\* Changing the URL of a listed remote or adding one keeps a list distinct if no
\* other remote is like it.
LEMMA StaysDistinct ==
    ASSUME NEW listed \in Git!Remotes, NEW n \in Git!Names, NEW url, url \in Urls \cup
           {Git!NoUrl},
           Git!Distinct(listed),
           \A m \in Git!Listed(listed) \ {n} :
               ~Git!SameIgnoringCase(m, n) /\ listed[m] # url
    PROVE  Git!Distinct([listed EXCEPT ![n] = url])
<1> DEFINE new == [listed EXCEPT ![n] = url]
<1>1. new[n] = url /\ \A m \in Git!Names \ {n} : new[m] = listed[m]
  BY DEF Git!Remotes
<1>2. ASSUME NEW a \in Git!Names, NEW b \in
                 Git!Names, new[a] # Git!NoUrl, new[b] # Git!NoUrl, a # b
      PROVE  ~Git!SameIgnoringCase(a, b) /\ new[a] # new[b]
  <2>1. \A m \in Git!Names \ {n} : listed[m] # Git!NoUrl =>
            ~Git!SameIgnoringCase(m, n) /\ listed[m] # url
    BY DEF Git!Listed
  <2>2. CASE a = n
    BY <1>1, <1>2, <2>1, <2>2 DEF Git!SameIgnoringCase
  <2>3. CASE b = n
    BY <1>1, <1>2, <2>1, <2>3 DEF Git!SameIgnoringCase
  <2>4. CASE a # n /\ b # n
    BY <1>1, <1>2, <2>4 DEF Git!Distinct, Git!Listed
  <2> QED
    BY <2>2, <2>3, <2>4
<1> HIDE DEF new
<1>3. Git!Distinct(new)
  BY <1>2 DEF Git!Distinct, Git!Listed
<1> QED
  BY <1>3 DEF new

LEMMA RemovedStaysDistinct ==
    ASSUME NEW listed \in Git!Remotes, NEW n \in Git!Names, Git!Distinct(listed)
    PROVE  Git!Distinct([listed EXCEPT ![n] = Git!NoUrl])
<1> DEFINE new == [listed EXCEPT ![n] = Git!NoUrl]
<1>1. \A m \in Git!Names : new[m] # Git!NoUrl => m # n /\ new[m] = listed[m]
  BY DEF Git!Remotes
<1> HIDE DEF new
<1>2. Git!Distinct(new)
  BY <1>1 DEF Git!Distinct, Git!Listed
<1> QED
  BY <1>2 DEF new

LEMMA RenamedIs ==
    ASSUME NEW listed \in Git!Remotes, NEW n \in Git!Names, NEW m \in Git!Names, n # m
    PROVE  LET new == Renamed(listed, n, m)
           IN  /\ new \in Git!Remotes /\ new[n] = Git!NoUrl /\ new[m] = listed[n]
               /\ \A k \in Git!Names \ {n, m} : new[k] = listed[k]
BY RemoteTypes DEF Renamed, Git!Remotes

\* The answer of an edit is like no other remote than its own.
LEMMA EditFits ==
    ASSUME NEW listed \in Git!Remotes, NEW n \in Git!Names, NEW m \in Git!Names, NEW url,
           Git!Distinct(listed), Fits("edit", n, listed, m, url), listed[n] # Git!NoUrl
    PROVE  \A k \in Git!Listed(listed) \ {n} :
               ~Git!SameIgnoringCase(k, m) /\ listed[k] # url
<1> DEFINE answered == [kind |-> "edit", name |-> n, seen |-> listed]
<1>1. answered.kind = "edit" /\ answered.name = n /\ answered.seen = listed
  OBVIOUS
<1> HIDE DEF answered
<1>2. ASSUME NEW k \in Git!Listed(listed) \ {n}
      PROVE  ~Git!SameIgnoringCase(k, m) /\ listed[k] # url
  <2>1. ~Git!SameIgnoringCase(k, n)
    BY DEF Git!Distinct, Git!Listed
  <2>2. k \in Git!ExistingNames(answered) /\ listed[k] \in Git!ExistingUrls(answered)
    BY <1>1, <1>2, <2>1 DEF Git!ExistingNames, Git!ExistingUrls
  <2>3. Git!RemoteDialogAccepts(answered, m, url)
    BY DEF Fits, answered
  <2> QED
    BY <2>2, <2>3 DEF Git!RemoteDialogAccepts
<1> QED
  BY <1>2

LEMMA RenamedStaysDistinct ==
    ASSUME NEW listed \in Git!Remotes, NEW n \in Git!Names, NEW m \in Git!Names, n # m,
           Git!Distinct(listed), listed[n] # Git!NoUrl,
           \A k \in Git!Listed(listed) \ {n} : ~Git!SameIgnoringCase(k, m)
    PROVE  Git!Distinct(Renamed(listed, n, m))
<1>1. PICK new : new = Renamed(listed, n, m)
  OBVIOUS
<1>2. /\ new[n] = Git!NoUrl /\ new[m] = listed[n]
      /\ \A k \in Git!Names \ {n, m} : new[k] = listed[k]
  BY <1>1, RenamedIs
<1>3. ASSUME NEW a \in Git!Names, NEW b \in
                 Git!Names, new[a] # Git!NoUrl, new[b] # Git!NoUrl, a # b
      PROVE  ~Git!SameIgnoringCase(a, b) /\ new[a] # new[b]
  <2>1. \A k \in Git!Names \ {n} : listed[k] # Git!NoUrl => ~Git!SameIgnoringCase(k, m)
    BY DEF Git!Listed
  <2>2. a # n /\ b # n
    BY <1>2, <1>3
  <2>3. CASE a = m
    <3>1. new[b] = listed[b] /\ listed[b] # Git!NoUrl
      BY <1>2, <1>3, <2>2, <2>3
    <3>2. listed[b] # listed[n]
      BY <2>2, <3>1 DEF Git!Distinct, Git!Listed
    <3> QED
      BY <1>2, <2>1, <2>2, <2>3, <3>1, <3>2 DEF Git!SameIgnoringCase
  <2>4. CASE b = m
    <3>1. new[a] = listed[a] /\ listed[a] # Git!NoUrl
      BY <1>2, <1>3, <2>2, <2>4
    <3>2. listed[a] # listed[n]
      BY <2>2, <3>1 DEF Git!Distinct, Git!Listed
    <3> QED
      BY <1>2, <2>1, <2>2, <2>4, <3>1, <3>2 DEF Git!SameIgnoringCase
  <2>5. CASE a # m /\ b # m
    BY <1>2, <1>3, <2>2, <2>5 DEF Git!Distinct, Git!Listed
  <2> QED
    BY <2>3, <2>4, <2>5
<1> QED
  BY <1>1, <1>3 DEF Git!Distinct, Git!Listed

\* What a dialog that adds accepts is like no remote there is.
LEMMA AddFits ==
    ASSUME NEW listed \in Git!Remotes, NEW n, NEW m \in Git!Names, NEW url,
           Fits("add", n, listed, m, url)
    PROVE  \A k \in Git!Listed(listed) : ~Git!SameIgnoringCase(k, m) /\ listed[k] # url
<1> DEFINE answered == [kind |-> "add", name |-> n, seen |-> listed]
<1>1. answered.kind = "add" /\ answered.seen = listed
  OBVIOUS
<1> HIDE DEF answered
<1>2. ASSUME NEW k \in Git!Listed(listed)
      PROVE  ~Git!SameIgnoringCase(k, m) /\ listed[k] # url
  <2>1. k \in Git!ExistingNames(answered) /\ listed[k] \in Git!ExistingUrls(answered)
    BY <1>1, <1>2 DEF Git!ExistingNames, Git!ExistingUrls
  <2>2. Git!RemoteDialogAccepts(answered, m, url)
    BY DEF Fits, answered
  <2> QED
    BY <2>1, <2>2 DEF Git!RemoteDialogAccepts
<1> QED
  BY <1>2

-----------------------------------------------------------------------------
(* The commands *)

LEMMA EditTypes ==
    ASSUME Git!TypeOK
    PROVE  /\ edit.at \in Git!Stages /\ edit.window \in Windows
           /\ edit.kind \in {"add", "edit", "remove"}
           /\ edit.name \in Git!Names /\ edit.next \in Git!Names
           /\ edit.url \in Urls \cup {Git!NoUrl} /\ edit.urlChanged \in BOOLEAN
           /\ edit.before \in Git!Remotes /\ edit.stuck \in BOOLEAN
BY DEF Git!TypeOK, Git!Edits

\* The next stage, of the same edit.
GoesOn(stage) ==
    /\ edit' \in Git!Edits /\ edit'.at = stage
    /\ edit'.window = edit.window /\ edit'.kind = edit.kind
    /\ edit'.name = edit.name /\ edit'.next = edit.next /\ edit'.url = edit.url
    /\ edit'.before = edit.before

LEMMA EditGoesOn ==
    ASSUME Git!TypeOK, NEW stage \in Git!Stages
    PROVE  /\ edit' = [edit EXCEPT !.at = stage] =>
                  /\ GoesOn(stage) /\ edit'.urlChanged = edit.urlChanged
                  /\ edit'.stuck = edit.stuck
           /\ \A stuck \in BOOLEAN :
                  edit' = [edit EXCEPT !.at = stage, !.stuck = stuck] =>
                      /\ GoesOn(stage) /\ edit'.urlChanged = edit.urlChanged
                      /\ edit'.stuck = stuck
           /\ \A changed \in BOOLEAN :
                  edit' = [edit EXCEPT !.urlChanged = changed, !.at = stage] =>
                      /\ GoesOn(stage) /\ edit'.urlChanged = changed
                      /\ edit'.stuck = edit.stuck
<1>1. edit \in Git!Edits
  BY DEF Git!TypeOK
<1>2. CASE edit' = [edit EXCEPT !.at = stage]
  <2>1. edit' \in Git!Edits
    BY ONLY <1>1, <1>2, stage \in Git!Stages DEF Git!Edits
  <2> QED
    BY ONLY <1>1, <1>2, <2>1 DEF Git!Edits, GoesOn
<1>3. ASSUME NEW stuck \in BOOLEAN, edit' = [edit EXCEPT !.at = stage, !.stuck = stuck]
      PROVE  /\ GoesOn(stage) /\ edit'.urlChanged = edit.urlChanged
             /\ edit'.stuck = stuck
  <2>1. edit' \in Git!Edits
    BY ONLY <1>1, <1>3, stage \in Git!Stages DEF Git!Edits
  <2> QED
    BY ONLY <1>1, <1>3, <2>1 DEF Git!Edits, GoesOn
<1>4. ASSUME NEW changed \in BOOLEAN,
             edit' = [edit EXCEPT !.urlChanged = changed, !.at = stage]
      PROVE  /\ GoesOn(stage) /\ edit'.urlChanged = changed
             /\ edit'.stuck = edit.stuck
  <2>1. edit' \in Git!Edits
    BY ONLY <1>1, <1>4, stage \in Git!Stages DEF Git!Edits
  <2> QED
    BY ONLY <1>1, <1>4, <2>1 DEF Git!Edits, GoesOn
<1>5. edit' = [edit EXCEPT !.at = stage] =>
         /\ GoesOn(stage) /\ edit'.urlChanged = edit.urlChanged
         /\ edit'.stuck = edit.stuck
  BY <1>2
<1> QED
  BY <1>3, <1>4, <1>5

LEMMA CountTypes ==
    ASSUME RemoteBounds, Git!TypeOK
    PROVE  /\ Git!Click =>
                  remoteCount' \in [clicks : 0..MaxClicks, errors : 0..MaxGitErrors,
                                             outside : 0..MaxOutside]
           /\ Git!GitError =>
                  remoteCount' \in [clicks : 0..MaxClicks, errors : 0..MaxGitErrors,
                                                outside : 0..MaxOutside]
           /\ Git!Outside =>
                  remoteCount' \in [clicks : 0..MaxClicks, errors : 0..MaxGitErrors,
                                               outside : 0..MaxOutside]
<1>1. /\ remoteCount \in [clicks : 0..MaxClicks, errors : 0..MaxGitErrors,
                           outside : 0..MaxOutside]
      /\ remoteCount.clicks \in 0..MaxClicks /\ remoteCount.errors \in 0..MaxGitErrors
      /\ remoteCount.outside \in 0..MaxOutside
  BY DEF Git!TypeOK
<1>2. /\ Git!Click => remoteCount.clicks + 1 \in 0..MaxClicks
      /\ Git!GitError => remoteCount.errors + 1 \in 0..MaxGitErrors
      /\ Git!Outside => remoteCount.outside + 1 \in 0..MaxOutside
  BY <1>1 DEF RemoteBounds, Git!Click, Git!GitError, Git!Outside
<1> DEFINE Counts == [clicks : 0..MaxClicks, errors : 0..MaxGitErrors,
                      outside : 0..MaxOutside]
<1>3. \A n \in 0..MaxClicks : [remoteCount EXCEPT !.clicks = n] \in Counts
  BY <1>1
<1>4. \A n \in 0..MaxGitErrors : [remoteCount EXCEPT !.errors = n] \in Counts
  BY <1>1
<1>5. \A n \in 0..MaxOutside : [remoteCount EXCEPT !.outside = n] \in Counts
  BY <1>1
<1> HIDE DEF Counts
<1>6. /\ Git!Click => remoteCount' \in Counts
      /\ Git!GitError => remoteCount' \in Counts
      /\ Git!Outside => remoteCount' \in Counts
  <2>1. Git!Click => remoteCount' = [remoteCount EXCEPT !.clicks = remoteCount.clicks + 1]
    BY DEF Git!Click
  <2>2. Git!GitError =>
            remoteCount' = [remoteCount EXCEPT !.errors = remoteCount.errors + 1]
    BY DEF Git!GitError
  <2>3. Git!Outside =>
            remoteCount' = [remoteCount EXCEPT !.outside = remoteCount.outside + 1]
    BY DEF Git!Outside
  <2> QED
    BY <1>2, <1>3, <1>4, <1>5, <2>1, <2>2, <2>3
<1> QED
  BY <1>6 DEF Counts

\* The stages between an answer of a dialog and its report.
Answering == {"init", "add", "list", "rename", "url", "back"}

LEMMA AfterCommand ==
    ASSUME RemoteBounds, RemoteInv, NEW stage \in Git!Stages \ {"idle"},
           GoesOn(stage), edit.at \in Answering \/ stage \notin Answering,
           repository' \in BOOLEAN, remotes' \in Git!Remotes,
           ~repository' => remotes' = Git!NoRemotes,
           Git!GitError \/ UNCHANGED remoteCount,
           UNCHANGED <<pages, dialogs, misled>>,
           EditInStep', ~misled => Git!Distinct(remotes')
    PROVE  RemoteInv'
<1>1. Git!TypeOK'
  BY CountTypes DEF RemoteInv, Git!TypeOK, GoesOn
<1>2. AnswerFits'
  BY DEF RemoteInv, AnswerFits, GoesOn, Answering
<1>3. NoneIsClosed'
  BY DEF RemoteInv, NoneIsClosed
<1> QED
  BY <1>1, <1>2, <1>3 DEF RemoteInv

\* A command that does its work, or leaves everything as it was.
LEMMA CommandDoes ==
    ASSUME Git!TypeOK, NEW stage \in Git!Stages, NEW possible, NEW ACTION deed, NEW done \in
           Git!Stages,
           NEW failed \in Git!Stages, Git!Command(stage, possible, deed, done, failed)
    PROVE  /\ edit.at = stage
           /\ \/ /\ deed /\ GoesOn(done) /\ UNCHANGED remoteCount
                 /\ edit'.urlChanged = edit.urlChanged /\ edit'.stuck = edit.stuck
              \/ /\ GoesOn(failed) /\ UNCHANGED remotes
                 /\ Git!GitError \/ UNCHANGED remoteCount
                 /\ edit'.urlChanged = edit.urlChanged /\ edit'.stuck = (stage = "back")
<1>1. edit.at = stage
  BY DEF Git!Command
<1>2. (stage = "back") \in BOOLEAN
  OBVIOUS
<1> QED
  BY <1>1, <1>2, EditGoesOn DEF Git!Command

LEMMA ListsAre ==
    ASSUME NEW listed \in Git!Remotes, NEW n \in Git!Names, NEW m \in Git!Names, NEW url
    PROVE  /\ [listed EXCEPT ![n] = url][n] = url
           /\ n # m => Renamed(Renamed(listed, n, m), m, n) =
                          [Renamed(listed, n, m) EXCEPT ![m] = Git!NoUrl, ![n] = listed[n]]
BY RenamedIs DEF Renamed, Git!Remotes

\* What an edit in step says of the next state, field by field.
LEMMA NextInStep ==
    ASSUME NEW stage, GoesOn(stage),
           stage \in {"init", "add"} => edit.kind = "add" /\ remotes' = edit.before,
           stage = "add" => repository',
           stage = "list" => edit.kind = "edit" /\ remotes' = edit.before,
           stage = "rename" =>
               /\ edit.kind = "edit" /\ remotes' = edit.before /\ edit.name # edit.next
               /\ edit'.urlChanged = (edit.before[edit.name] # edit.url),
           stage \in {"url", "back"} =>
               /\ edit.kind = "edit"
               /\ remotes' = IF edit.name # edit.next
                             THEN Renamed(edit.before, edit.name, edit.next) ELSE
                                 edit.before
               /\ edit.name # edit.next =>
                     edit.before[edit.name] # Git!NoUrl /\ edit.before[edit.next] =
                         Git!NoUrl,
           stage = "back" => edit.name # edit.next,
           stage = "remove" => edit.kind = "remove" /\ remotes' = edit.before,
           stage = "done" =>
               remotes' = CASE edit.kind =
                   "remove" -> [edit.before EXCEPT ![edit.name] = Git!NoUrl]
                            [] edit.kind =
                                "add" -> [edit.before EXCEPT ![edit.next] = edit.url]
                            [] OTHER -> [[edit.before EXCEPT ![edit.name] = Git!NoUrl]
                                           EXCEPT ![edit.next] = edit.url],
           (stage = "failed" /\ ~edit'.stuck) => remotes' = edit.before
    PROVE  EditInStep'
BY DEF EditInStep, Git!Wanted, GoesOn

LEMMA InitStep ==
    ASSUME RemoteBounds, RemoteInv, Git!EnsureStoreGitRepository,
           UNCHANGED <<pages, dialogs, misled>>
    PROVE  RemoteInv'
<1>1. /\ edit.at = "init" /\ remotes' = remotes /\ edit.kind = "add"
      /\ remotes = edit.before
      /\ repository \in BOOLEAN /\ remotes \in Git!Remotes
      /\ (~misled => Git!Distinct(remotes))
      /\ ~repository => remotes = Git!NoRemotes
  BY DEF Git!EnsureStoreGitRepository, RemoteInv, EditInStep, Git!TypeOK
<1>2. CASE repository' = TRUE /\ edit' = [edit EXCEPT !.at = "add"] /\ UNCHANGED remoteCount
  <2>1. GoesOn("add")
    BY <1>2, EditGoesOn DEF RemoteInv, Git!Stages
  <2>2. EditInStep'
    BY <1>1, <1>2, <2>1, NextInStep
  <2>3. /\ repository' \in BOOLEAN /\ remotes' \in Git!Remotes
        /\ (~repository' => remotes' = Git!NoRemotes)
        /\ (~misled => Git!Distinct(remotes')) /\ "add" \in Git!Stages \ {"idle"}
        /\ edit.at \in Answering /\ (Git!GitError \/ UNCHANGED remoteCount)
    BY <1>1, <1>2 DEF Answering, Git!Stages
  <2> QED
    BY <2>1, <2>2, <2>3, AfterCommand
<1>3. CASE Git!GitError /\ edit' = [edit EXCEPT !.at = "failed"] /\ UNCHANGED repository
  <2>1. GoesOn("failed")
    BY <1>3, EditGoesOn DEF RemoteInv, Git!Stages
  <2>2. EditInStep'
    BY <1>1, <1>3, <2>1, NextInStep
  <2>3. /\ repository' \in BOOLEAN /\ remotes' \in Git!Remotes
        /\ (~repository' => remotes' = Git!NoRemotes)
        /\ (~misled => Git!Distinct(remotes')) /\ "failed" \in Git!Stages \ {"idle"}
        /\ edit.at \in Answering /\ (Git!GitError \/ UNCHANGED remoteCount)
    BY <1>1, <1>3 DEF Answering, Git!Stages
  <2> QED
    BY <2>1, <2>2, <2>3, AfterCommand
<1> QED
  BY <1>2, <1>3 DEF Git!EnsureStoreGitRepository

LEMMA AddStep ==
    ASSUME RemoteBounds, RemoteInv, Git!AddStoreGitRemote,
           UNCHANGED <<pages, dialogs, misled>>
    PROVE  RemoteInv'
<1>1. /\ edit.next \in Git!Names /\ edit.url \in Urls \cup {Git!NoUrl}
      /\ edit.name \in Git!Names
      /\ edit.before \in Git!Remotes /\ Git!TypeOK /\ repository' = repository
      /\ repository \in BOOLEAN /\ remotes \in Git!Remotes
      /\ (~misled => Git!Distinct(remotes))
      /\ {"add", "done", "failed"} \subseteq Git!Stages
      /\ Git!Command("add", ~Git!Has(edit.next), Git!GitAdd(edit.next, edit.url), "done",
                     "failed")
  BY EditTypes DEF Git!AddStoreGitRemote, RemoteInv, Git!TypeOK, Git!Stages
<1>2. edit.at = "add"
  BY <1>1 DEF Git!Command
<1>3. edit.kind = "add" /\ remotes = edit.before /\ repository
  BY <1>2 DEF RemoteInv, EditInStep
<1>4. CASE /\ Git!GitAdd(edit.next, edit.url)
           /\ GoesOn("done") /\ UNCHANGED remoteCount
  <2>1. remotes' = [remotes EXCEPT ![edit.next] = edit.url] /\ remotes' \in Git!Remotes
    <3>1. remotes' = [remotes EXCEPT ![edit.next] = edit.url]
      BY <1>4 DEF Git!GitAdd
    <3>2. PICK n \in Git!Names, url \in Urls \cup {Git!NoUrl} :
           /\ n = edit.next
           /\ url = edit.url
      BY <1>1
    <3>3. [remotes EXCEPT ![n] = url] \in Git!Remotes
      BY <1>1, RemoteTypes
    <3> QED
      BY <3>1, <3>2, <3>3
  <2>2. ~misled => Git!Distinct(remotes')
    <3>1. SUFFICES ASSUME ~misled PROVE Git!Distinct(remotes')
      OBVIOUS
    <3>2. Fits("add", edit.name, remotes, edit.next, edit.url)
      BY <1>2, <1>3, <3>1 DEF RemoteInv, AnswerFits
    <3>3. PICK listed \in Git!Remotes, m \in Git!Names, url \in Urls \cup
              {Git!NoUrl}, name \in Git!Names :
             listed = remotes /\ m = edit.next /\ url = edit.url /\ name = edit.name
      BY <1>1
    <3>4. \A k \in Git!Listed(listed) : ~Git!SameIgnoringCase(k, m) /\ listed[k] # url
      BY ONLY <3>2, <3>3, AddFits
    <3>5. Git!Distinct(listed)
      BY <1>1, <3>1, <3>3
    <3>6. Git!Distinct([listed EXCEPT ![m] = url])
      BY ONLY <3>3, <3>4, <3>5, StaysDistinct
    <3> QED
      BY <2>1, <3>3, <3>6
  <2>3. EditInStep'
    BY <1>3, <1>4, <2>1, NextInStep
  <2>4. repository' \in BOOLEAN /\ (~repository' => remotes' = Git!NoRemotes)
        /\ "done" \in Git!Stages \ {"idle"} /\ edit.at \in Answering
        /\ GoesOn("done") /\ (Git!GitError \/ UNCHANGED remoteCount)
    BY <1>1, <1>2, <1>3, <1>4 DEF Answering
  <2>5. remotes' \in Git!Remotes
    BY <2>1
  <2> QED
    BY <2>2, <2>3, <2>4, <2>5, AfterCommand
<1>5. CASE GoesOn("failed") /\ UNCHANGED remotes /\ (Git!GitError \/ UNCHANGED remoteCount)
  <2>1. EditInStep'
    BY <1>3, <1>5, NextInStep
  <2>4. repository' \in BOOLEAN /\ (~repository' => remotes' = Git!NoRemotes)
        /\ "failed" \in Git!Stages \ {"idle"} /\ edit.at \in Answering
        /\ remotes' \in Git!Remotes
        /\ GoesOn("failed") /\ (Git!GitError \/ UNCHANGED remoteCount)
        /\ (~misled => Git!Distinct(remotes'))
    BY <1>1, <1>2, <1>3, <1>5 DEF Answering
  <2> QED
    BY <2>1, <2>4, AfterCommand
<1> QED
  BY <1>1, <1>4, <1>5, CommandDoes

LEMMA ListRemotesStep ==
    ASSUME RemoteBounds, RemoteInv, Git!ListStoreGitRemotes,
           UNCHANGED <<pages, dialogs, misled>>
    PROVE  RemoteInv'
<1>1. /\ edit.next \in Git!Names /\ edit.url \in Urls \cup {Git!NoUrl}
      /\ edit.name \in Git!Names
      /\ edit.before \in Git!Remotes /\ Git!TypeOK /\ repository' = repository
      /\ remotes' = remotes
      /\ repository \in BOOLEAN /\ remotes \in Git!Remotes
      /\ (~misled => Git!Distinct(remotes))
      /\ ~repository => remotes = Git!NoRemotes
      /\ edit.at = "list" /\ edit.kind = "edit" /\ remotes = edit.before
      /\ {"rename", "url", "done", "failed"} \subseteq Git!Stages
  BY EditTypes DEF Git!ListStoreGitRemotes, RemoteInv, Git!TypeOK, Git!Stages, EditInStep
<1>2. CASE edit' = [edit EXCEPT !.at = "failed"] /\ Git!GitError
  <2>1. GoesOn("failed")
    BY <1>1, <1>2, EditGoesOn
  <2>2. EditInStep'
    BY <1>1, <2>1, NextInStep
  <2>4. repository' \in BOOLEAN /\ (~repository' => remotes' = Git!NoRemotes)
        /\ "failed" \in Git!Stages \ {"idle"} /\ edit.at \in Answering
        /\ remotes' \in Git!Remotes
        /\ (Git!GitError \/ UNCHANGED remoteCount) /\ (~misled => Git!Distinct(remotes'))
    BY <1>1, <1>2 DEF Answering
  <2> QED
    BY <2>1, <2>2, <2>4, AfterCommand
<1>3. ASSUME NEW stage \in {"rename", "url", "done"}, NEW changed \in BOOLEAN,
             changed = (remotes[edit.name] # edit.url),
             stage = IF edit.name # edit.next THEN "rename"
                     ELSE IF changed THEN "url" ELSE "done",
             edit' = [edit EXCEPT !.urlChanged = changed, !.at = stage],
             UNCHANGED remoteCount
      PROVE  RemoteInv'
  <2>1. GoesOn(stage) /\ edit'.urlChanged = changed
    BY <1>1, <1>3, EditGoesOn
  <2>2. stage = "done" => edit.before = [[edit.before EXCEPT ![edit.name] = Git!NoUrl]
                                           EXCEPT ![edit.next] = edit.url]
    <3>1. stage = "done" => edit.before[edit.name] = edit.url /\ edit.next = edit.name
      BY <1>1, <1>3
    <3> QED
      BY <1>1, <3>1 DEF Git!Remotes
  <2>3. EditInStep'
    BY <1>1, <1>3, <2>1, <2>2, NextInStep
  <2>4. repository' \in BOOLEAN /\ (~repository' => remotes' = Git!NoRemotes)
        /\ stage \in Git!Stages \ {"idle"} /\ edit.at \in Answering
        /\ remotes' \in Git!Remotes
        /\ (Git!GitError \/ UNCHANGED remoteCount) /\ (~misled => Git!Distinct(remotes'))
    BY <1>1, <1>3 DEF Answering
  <2> QED
    BY <2>1, <2>3, <2>4, AfterCommand
<1>4. CASE /\ edit' = [edit EXCEPT !.urlChanged = (remotes[edit.name] # edit.url),
                                   !.at = IF edit.name # edit.next THEN "rename"
                                          ELSE IF (remotes[edit.name] # edit.url) THEN "url"
                                          ELSE "done"]
           /\ UNCHANGED remoteCount
  <2>1. PICK changed \in BOOLEAN : changed = (remotes[edit.name] # edit.url)
    OBVIOUS
  <2>2. PICK stage \in {"rename", "url", "done"} :
           stage = IF edit.name # edit.next THEN "rename"
                   ELSE IF changed THEN "url" ELSE "done"
    OBVIOUS
  <2>3. edit' = [edit EXCEPT !.urlChanged = changed, !.at = stage]
    BY <1>4, <2>1, <2>2
  <2> QED
    BY <1>3, <1>4, <2>1, <2>2, <2>3
<1> QED
  BY <1>2, <1>4 DEF Git!ListStoreGitRemotes, Git!CurrentUrl

\* What is known of the edit before each of its commands.
LEMMA EditIs ==
    ASSUME RemoteInv
    PROVE  /\ edit.next \in Git!Names /\ edit.url \in Urls \cup {Git!NoUrl}
           /\ edit.name \in Git!Names
           /\ edit.before \in Git!Remotes /\ Git!TypeOK /\ repository \in BOOLEAN
           /\ remotes \in Git!Remotes /\ (~misled => Git!Distinct(remotes))
           /\ (~repository => remotes = Git!NoRemotes)
           /\ Git!Stages =
                  {"idle", "init", "add", "list", "rename", "url", "back", "remove",
                            "done", "failed"}
           /\ Answering = {"init", "add", "list", "rename", "url", "back"}
           /\ (edit.at \in Answering /\ ~misled) =>
                  /\ Git!Distinct(edit.before)
                  /\ Fits(edit.kind, edit.name, edit.before, edit.next, edit.url)
BY EditTypes DEF RemoteInv, Git!TypeOK, Git!Stages, Answering, AnswerFits

\* A remote there is, so that there is a repository.
LEMMA RemoteHasRepository ==
    ASSUME RemoteInv, NEW n \in Git!Names, remotes[n] # Git!NoUrl
    PROVE  repository
BY DEF RemoteInv, Git!TypeOK, Git!NoRemotes

\* What is left when a command changed nothing.
LEMMA CommandFails ==
    ASSUME RemoteBounds, RemoteInv, NEW stage \in {"back", "failed"}, GoesOn(stage),
           edit.at \in Answering \/ stage = "failed",
           UNCHANGED <<repository, remotes, pages, dialogs, misled>>,
           Git!GitError \/ UNCHANGED remoteCount, EditInStep'
    PROVE  RemoteInv'
<1>1. /\ repository' \in BOOLEAN /\ remotes' \in Git!Remotes
      /\ (~repository' => remotes' = Git!NoRemotes)
      /\ stage \in Git!Stages \ {"idle"} /\ (~misled => Git!Distinct(remotes'))
      /\ (edit.at \in Answering \/ stage \notin Answering)
  BY EditIs
<1> QED
  BY <1>1, AfterCommand

LEMMA RenameStep ==
    ASSUME RemoteBounds, RemoteInv, Git!RenameStoreGitRemote,
           UNCHANGED <<pages, dialogs, misled>>
    PROVE  RemoteInv'
<1> DEFINE done == IF edit.urlChanged THEN "url" ELSE "done"
<1>1. /\ repository' = repository /\ done \in {"url", "done"} /\ done \in Git!Stages
      /\ {"rename", "failed"} \subseteq Git!Stages
      /\ Git!Command("rename", Git!Has(edit.name) /\ ~Git!Has(edit.next),
                     Git!GitRename(edit.name, edit.next),
                     done, "failed")
  BY EditIs DEF Git!RenameStoreGitRemote
<1> HIDE DEF done
<1>2. edit.at = "rename"
  BY <1>1 DEF Git!Command
<1>3. /\ edit.kind = "edit" /\ remotes = edit.before /\ edit.name # edit.next
      /\ edit.urlChanged = (edit.before[edit.name] # edit.url)
  BY <1>2 DEF RemoteInv, EditInStep
<1>4. ASSUME Git!GitRename(edit.name, edit.next), GoesOn(done), UNCHANGED remoteCount
      PROVE  RemoteInv'
  <2>1. /\ remotes' = Renamed(edit.before, edit.name, edit.next)
        /\ edit.before[edit.name] # Git!NoUrl /\ edit.before[edit.next] = Git!NoUrl
    BY <1>3, <1>4 DEF Git!GitRename, Renamed
  <2>2. PICK listed \in Git!Remotes, n \in Git!Names, m \in Git!Names, url \in Urls \cup
            {Git!NoUrl} :
           listed = edit.before /\ n = edit.name /\ m = edit.next /\ url = edit.url
    BY EditIs
  <2>3. /\ n # m /\ listed[n] # Git!NoUrl /\ listed[m] = Git!NoUrl
        /\ remotes' = Renamed(listed, n, m)
    BY <1>3, <2>1, <2>2
  <2>4. remotes' \in Git!Remotes
    BY <2>3, RemoteTypes
  <2>5. ~misled => Git!Distinct(remotes')
    <3>1. SUFFICES ASSUME ~misled PROVE Git!Distinct(remotes')
      OBVIOUS
    <3>2. Git!Distinct(listed) /\ Fits("edit", n, listed, m, url)
      BY <1>2, <1>3, <2>2, <3>1, EditIs
    <3>3. \A k \in Git!Listed(listed) \ {n} : ~Git!SameIgnoringCase(k, m)
      BY ONLY <2>3, <3>2, EditFits
    <3>4. Git!Distinct(Renamed(listed, n, m))
      BY ONLY <2>3, <3>2, <3>3, RenamedStaysDistinct
    <3> QED
      BY <2>3, <3>4
  <2>6. done = "done" => remotes' = [[edit.before EXCEPT ![edit.name] = Git!NoUrl]
                                       EXCEPT ![edit.next] = edit.url]
    <3>1. done = "done" => listed[n] = url
      BY <1>3, <2>2 DEF done
    <3>2. [listed EXCEPT ![n] = Git!NoUrl, ![m] = listed[n]]
             = [[listed EXCEPT ![n] = Git!NoUrl] EXCEPT ![m] = listed[n]]
      OBVIOUS
    <3> QED
      BY <2>2, <2>3, <3>1, <3>2 DEF Renamed
  <2>7. EditInStep'
    BY <1>1, <1>3, <1>4, <2>1, <2>6, NextInStep
  <2>8. repository' \in BOOLEAN /\ (~repository' => remotes' = Git!NoRemotes)
    <3>1. repository
      BY <2>2, <2>3, <1>3, RemoteHasRepository
    <3> QED
      BY <1>1, <3>1, EditIs
  <2>9. /\ done \in Git!Stages \ {"idle"} /\ edit.at \in Answering
        /\ (Git!GitError \/ UNCHANGED remoteCount)
    BY <1>1, <1>2, <1>4, EditIs
  <2> QED
    BY <1>4, <2>4, <2>5, <2>7, <2>8, <2>9, AfterCommand
<1>5. ASSUME GoesOn("failed"), UNCHANGED remotes, Git!GitError \/ UNCHANGED remoteCount
      PROVE  RemoteInv'
  <2>1. EditInStep'
    BY <1>3, <1>5, NextInStep
  <2> QED
    BY <1>1, <1>5, <2>1, CommandFails
<1> QED
  BY <1>1, <1>4, <1>5, EditIs, CommandDoes

LEMMA UrlStep ==
    ASSUME RemoteBounds, RemoteInv, Git!SetStoreGitRemoteUrl,
           UNCHANGED <<pages, dialogs, misled>>
    PROVE  RemoteInv'
<1>1. /\ repository' = repository /\ Git!AfterUrlFailed \in {"back", "failed"}
      /\ (Git!AfterUrlFailed = "back") = (edit.name # edit.next)
      /\ {"url", "done"} \subseteq Git!Stages /\ Git!AfterUrlFailed \in Git!Stages
      /\ Git!Command("url", Git!Has(edit.next), Git!GitSetUrl(edit.next, edit.url), "done",
                     Git!AfterUrlFailed)
  BY EditIs DEF Git!SetStoreGitRemoteUrl, Git!AfterUrlFailed
<1>2. edit.at = "url"
  BY <1>1 DEF Git!Command
<1>3. /\ edit.kind = "edit"
      /\ remotes = IF edit.name # edit.next
                   THEN Renamed(edit.before, edit.name, edit.next) ELSE edit.before
      /\ edit.name # edit.next =>
            edit.before[edit.name] # Git!NoUrl /\ edit.before[edit.next] = Git!NoUrl
  BY <1>2 DEF RemoteInv, EditInStep
<1>4. ASSUME Git!GitSetUrl(edit.next, edit.url), GoesOn("done"), UNCHANGED remoteCount
      PROVE  RemoteInv'
  <2>1. PICK listed \in Git!Remotes, n \in Git!Names, m \in Git!Names, url \in Urls \cup
            {Git!NoUrl},
             before \in Git!Remotes :
           listed = remotes /\ n = edit.name /\ m = edit.next /\ url = edit.url
           /\ before = edit.before
    BY EditIs
  <2>2. /\ listed[m] # Git!NoUrl /\ remotes' = [listed EXCEPT ![m] = url]
        /\ listed = IF n # m THEN Renamed(before, n, m) ELSE before
        /\ n # m => before[n] # Git!NoUrl /\ before[m] = Git!NoUrl
    BY <1>3, <1>4, <2>1 DEF Git!GitSetUrl
  <2>3. /\ before[n] # Git!NoUrl
        /\ \A k \in Git!Listed(listed) \ {m} : k # n /\ before[k] = listed[k]
    <3>1. CASE n # m
      <4>1. listed[n] = Git!NoUrl /\ \A k \in Git!Names \ {n, m} : listed[k] = before[k]
        BY ONLY <2>2, <3>1, RenamedIs, SMTT(30)
      <4> QED
        BY <2>2, <3>1, <4>1 DEF Git!Listed
    <3>2. CASE n = m
      BY <2>2, <3>2
    <3> QED
      BY <3>1, <3>2
  <2>4. remotes' \in Git!Remotes
    BY <2>2, RemoteTypes
  <2>5. ~misled => Git!Distinct(remotes')
    <3>1. SUFFICES ASSUME ~misled PROVE Git!Distinct(remotes')
      OBVIOUS
    <3>2. Git!Distinct(listed) /\ Git!Distinct(before) /\ Fits("edit", n, before, m, url)
      BY <1>2, <1>3, <2>1, <3>1, EditIs
    <3>3. \A k \in Git!Listed(before) \ {n} : ~Git!SameIgnoringCase(k, m) /\ before[k] # url
      BY ONLY <2>3, <3>2, EditFits
    <3>4. \A k \in Git!Listed(listed) \ {m} : ~Git!SameIgnoringCase(k, m) /\ listed[k] # url
      BY ONLY <2>3, <3>3 DEF Git!Listed
    <3>5. Git!Distinct([listed EXCEPT ![m] = url])
      BY ONLY <3>2, <3>4, StaysDistinct
    <3> QED
      BY <2>2, <3>5
  <2>6. remotes' =
            [[edit.before EXCEPT ![edit.name] = Git!NoUrl] EXCEPT ![edit.next] = edit.url]
    <3>1. [listed EXCEPT ![m] = url] = [[before EXCEPT ![n] = Git!NoUrl] EXCEPT ![m] = url]
      <4>1. CASE n = m
        BY <2>2, <4>1 DEF Git!Remotes
      <4>2. CASE n # m
        <5>1. listed = [before EXCEPT ![n] = Git!NoUrl, ![m] = before[n]]
          BY <2>2, <4>2 DEF Renamed
        <5> QED
          BY <4>2, <5>1 DEF Git!Remotes
      <4> QED
        BY <4>1, <4>2
    <3> QED
      BY <2>1, <2>2, <3>1
  <2>7. EditInStep'
    BY <1>3, <1>4, <2>6, NextInStep
  <2>8. repository' \in BOOLEAN /\ (~repository' => remotes' = Git!NoRemotes)
    <3>1. repository
      BY <2>1, <2>2, RemoteHasRepository
    <3> QED
      BY <1>1, <3>1, EditIs
  <2>9. "done" \in Git!Stages \ {"idle"} /\ edit.at \in Answering
        /\ (Git!GitError \/ UNCHANGED remoteCount)
    BY <1>2, <1>4, EditIs
  <2> QED
    BY <1>4, <2>4, <2>5, <2>7, <2>8, <2>9, AfterCommand
<1>5. ASSUME GoesOn(Git!AfterUrlFailed), UNCHANGED remotes,
                 Git!GitError \/ UNCHANGED remoteCount
      PROVE  RemoteInv'
  <2>1. PICK stage \in {"back", "failed"} : stage = Git!AfterUrlFailed
    BY <1>1
  <2>2. (stage = "back") = (edit.name # edit.next) /\ GoesOn(stage)
    BY <1>1, <1>5, <2>1
  <2>3. EditInStep'
    BY ONLY <1>3, <1>5, <2>2, stage \in {"back", "failed"}, NextInStep
  <2>4. edit.at \in Answering
    BY <1>2, EditIs
  <2> QED
    BY <1>1, <1>5, <2>2, <2>3, <2>4, CommandFails
<1> QED
  BY <1>1, <1>4, <1>5, EditIs, CommandDoes

LEMMA BackStep ==
    ASSUME RemoteBounds, RemoteInv, Git!RenameBack, UNCHANGED <<pages, dialogs, misled>>
    PROVE  RemoteInv'
<1>1. /\ repository' = repository /\ {"back", "failed"} \subseteq Git!Stages
      /\ Git!Command("back", Git!Has(edit.next) /\ ~Git!Has(edit.name),
                     Git!GitRename(edit.next, edit.name),
                     "failed", "failed")
  BY EditIs DEF Git!RenameBack
<1>2. edit.at = "back"
  BY <1>1 DEF Git!Command
<1>3. /\ edit.kind = "edit" /\ edit.name # edit.next
      /\ remotes = Renamed(edit.before, edit.name, edit.next)
      /\ edit.before[edit.name] # Git!NoUrl /\ edit.before[edit.next] = Git!NoUrl
  BY <1>2 DEF RemoteInv, EditInStep
<1>4. ASSUME Git!GitRename(edit.next, edit.name), GoesOn("failed"), UNCHANGED remoteCount
      PROVE  RemoteInv'
  <2>1. PICK listed \in Git!Remotes, n \in Git!Names, m \in Git!Names, before \in
            Git!Remotes :
           listed = remotes /\ n = edit.name /\ m = edit.next /\ before = edit.before
    BY EditIs
  <2>2. /\ listed = Renamed(before, n, m) /\ remotes' = Renamed(listed, m, n)
        /\ n # m /\ before[m] = Git!NoUrl /\ listed[m] # Git!NoUrl
    BY <1>3, <1>4, <2>1 DEF Git!GitRename, Renamed
  <2>3. Renamed(Renamed(before, n, m), m, n) = before
    BY ONLY <2>2, before \in Git!Remotes, n \in Git!Names, m \in Git!Names
       DEF Renamed, Git!Remotes
  <2>4. remotes' = edit.before
    BY <2>1, <2>2, <2>3
  <2>5. EditInStep'
    BY <1>3, <1>4, <2>4, NextInStep
  <2>6. repository' \in BOOLEAN /\ (~repository' => remotes' = Git!NoRemotes)
    <3>1. repository
      BY <2>1, <2>2, RemoteHasRepository
    <3> QED
      BY <1>1, <3>1, EditIs
  <2>7. /\ "failed" \in Git!Stages \ {"idle"} /\ edit.at \in Answering
        /\ (Git!GitError \/ UNCHANGED remoteCount) /\ remotes' \in Git!Remotes
        /\ (~misled => Git!Distinct(remotes'))
    BY <1>2, <1>4, <2>4, EditIs
  <2> QED
    BY <1>4, <2>5, <2>6, <2>7, AfterCommand
<1>5. ASSUME GoesOn("failed"), UNCHANGED remotes, edit'.stuck = TRUE,
             Git!GitError \/ UNCHANGED remoteCount
      PROVE  RemoteInv'
  <2>1. EditInStep'
    BY <1>3, <1>5, NextInStep
  <2> QED
    BY <1>1, <1>5, <2>1, CommandFails
<1>6. /\ edit.at = "back"
      /\ \/ /\ Git!GitRename(edit.next, edit.name) /\ GoesOn("failed") /\ UNCHANGED remoteCount
            /\ edit'.urlChanged = edit.urlChanged /\ edit'.stuck = edit.stuck
         \/ /\ GoesOn("failed") /\ UNCHANGED remotes
            /\ Git!GitError \/ UNCHANGED remoteCount
            /\ edit'.urlChanged = edit.urlChanged /\ edit'.stuck = ("back" = "back")
  BY <1>1, EditIs, CommandDoes
<1>7. ("back" = "back") = TRUE
  OBVIOUS
<1> QED
  BY <1>4, <1>5, <1>6, <1>7

LEMMA RemoveStep ==
    ASSUME RemoteBounds, RemoteInv, Git!RemoveStoreGitRemote,
           UNCHANGED <<pages, dialogs, misled>>
    PROVE  RemoteInv'
<1>1. /\ repository' = repository /\ {"remove", "done", "failed"} \subseteq Git!Stages
      /\ Git!Command("remove", Git!Has(edit.name), Git!GitRemove(edit.name), "done",
                     "failed")
  BY EditIs DEF Git!RemoveStoreGitRemote
<1>2. edit.at = "remove"
  BY <1>1 DEF Git!Command
<1>3. edit.kind = "remove" /\ remotes = edit.before
  BY <1>2 DEF RemoteInv, EditInStep
<1>4. ASSUME Git!GitRemove(edit.name), GoesOn("done"), UNCHANGED remoteCount
      PROVE  RemoteInv'
  <2>1. PICK listed \in Git!Remotes, n \in Git!Names : listed = remotes /\ n = edit.name
    BY EditIs
  <2>2. listed[n] # Git!NoUrl /\ remotes' = [listed EXCEPT ![n] = Git!NoUrl]
    BY <1>4, <2>1 DEF Git!GitRemove
  <2>3. [listed EXCEPT ![n] = Git!NoUrl] \in Git!Remotes
    BY ONLY listed \in Git!Remotes, n \in Git!Names, RemoteTypes
  <2>4. Git!Distinct(listed) => Git!Distinct([listed EXCEPT ![n] = Git!NoUrl])
    BY ONLY listed \in Git!Remotes, n \in Git!Names, RemovedStaysDistinct
  <2>5. remotes' \in Git!Remotes /\ (~misled => Git!Distinct(remotes'))
    BY <2>1, <2>2, <2>3, <2>4, EditIs
  <2>6. EditInStep'
    BY <1>3, <1>4, <2>1, <2>2, NextInStep
  <2>7. repository' \in BOOLEAN /\ (~repository' => remotes' = Git!NoRemotes)
    <3>1. repository
      BY <2>1, <2>2, RemoteHasRepository
    <3> QED
      BY <1>1, <3>1, EditIs
  <2>8. "done" \in Git!Stages \ {"idle"} /\ "done" \notin Answering
        /\ (Git!GitError \/ UNCHANGED remoteCount)
    BY <1>4, EditIs
  <2> QED
    BY <1>4, <2>5, <2>6, <2>7, <2>8, AfterCommand
<1>5. ASSUME GoesOn("failed"), UNCHANGED remotes, Git!GitError \/ UNCHANGED remoteCount
      PROVE  RemoteInv'
  <2>1. EditInStep'
    BY <1>3, <1>5, NextInStep
  <2> QED
    BY <1>1, <1>5, <2>1, CommandFails
<1> QED
  BY <1>1, <1>4, <1>5, EditIs, CommandDoes

LEMMA CommandStep ==
    ASSUME RemoteBounds, RemoteInv, Git!RunCommand
    PROVE  RemoteInv'
<1>1. UNCHANGED <<pages, dialogs, misled>>
  BY DEF Git!RunCommand
<1>2. CASE Git!EnsureStoreGitRepository
  BY <1>1, <1>2, InitStep
<1>3. CASE Git!AddStoreGitRemote
  BY <1>1, <1>3, AddStep
<1>4. CASE Git!ListStoreGitRemotes
  BY <1>1, <1>4, ListRemotesStep
<1>5. CASE Git!RenameStoreGitRemote
  BY <1>1, <1>5, RenameStep
<1>6. CASE Git!SetStoreGitRemoteUrl
  BY <1>1, <1>6, UrlStep
<1>7. CASE Git!RenameBack
  BY <1>1, <1>7, BackStep
<1>8. CASE Git!RemoveStoreGitRemote
  BY <1>1, <1>8, RemoveStep
<1> QED
  BY <1>2, <1>3, <1>4, <1>5, <1>6, <1>7, <1>8 DEF Git!RunCommand

-----------------------------------------------------------------------------
(* The pages, the dialogs and the outside *)

\* Nothing is said of an edit that is not under way.
LEMMA AtRest ==
    ASSUME Git!TypeOK', NoneIsClosed', edit'.at = "idle", ~misled' => Git!Distinct(remotes')
    PROVE  RemoteInv'
BY DEF RemoteInv, EditInStep, AnswerFits

LEMMA GitPagesAre ==
    ASSUME RemoteBounds, Git!TypeOK, NEW w \in Windows, Git!RebuildStoreGitPage(w)
    PROVE  pages' \in [Windows -> Git!Pages]
<1>1. /\ remotes \in Git!Remotes /\ pages \in [Windows -> Git!Pages]
      /\ Git!NoRemotes \in Git!Remotes
  BY RemoteTypes DEF Git!TypeOK
<1>2. /\ [at |-> "shown", list |-> remotes] \in Git!Pages
      /\ [at |-> "failed", list |-> Git!NoRemotes] \in Git!Pages
  BY <1>1 DEF Git!Pages
<1>3. \A page \in Git!Pages : [pages EXCEPT ![w] = page] \in [Windows -> Git!Pages]
  BY <1>1
<1> QED
  BY <1>2, <1>3 DEF Git!RebuildStoreGitPage

LEMMA ShowRemotesStep ==
    ASSUME RemoteBounds, RemoteInv, NEW w \in Windows, Git!ShowStoreGitPage(w)
    PROVE  RemoteInv'
<1>1. Git!TypeOK /\ edit.at = "idle" /\ Git!Click /\ Git!RebuildStoreGitPage(w)
      /\ UNCHANGED <<repository, remotes, dialogs, edit, misled>>
  BY DEF RemoteInv, Git!ShowStoreGitPage, Git!Click
<1>2. Git!TypeOK'
  BY <1>1, GitPagesAre, CountTypes DEF Git!TypeOK
<1>3. NoneIsClosed'
  BY <1>1 DEF RemoteInv, NoneIsClosed
<1> QED
  BY <1>1, <1>2, <1>3, AtRest DEF RemoteInv

\* The dialogs of the other windows stay as they are.
LEMMA DialogsAre ==
    ASSUME Git!TypeOK, NoneIsClosed, NEW w \in Windows, NEW dialog \in Git!Dialogs,
           dialogs' = [dialogs EXCEPT ![w] = dialog],
           dialog.kind = "closed" => dialog = Git!NoDialog
    PROVE  dialogs' \in [Windows -> Git!Dialogs] /\ NoneIsClosed'
<1>1. dialogs \in [Windows -> Git!Dialogs]
  BY DEF Git!TypeOK
<1> QED
  BY ONLY <1>1, NoneIsClosed, dialogs' = [dialogs EXCEPT ![w] = dialog],
     dialog \in Git!Dialogs,
          dialog.kind = "closed" => dialog = Git!NoDialog, w \in Windows DEF NoneIsClosed

LEMMA OpenStep ==
    ASSUME RemoteBounds, RemoteInv, NEW w \in Windows, Git!OpenDialog(w)
    PROVE  RemoteInv'
<1>1. Git!TypeOK /\ edit.at = "idle" /\ Git!Click /\ NoneIsClosed
      /\ UNCHANGED <<repository, remotes, pages, edit, misled>>
  BY DEF RemoteInv, Git!OpenDialog, Git!Click
<1>2. pages[w].list \in Git!Remotes /\ Git!AnyName \in Git!Names
  BY <1>1, RemoteNames DEF Git!TypeOK, Git!Pages
<1>3. PICK seen \in Git!Remotes : seen = pages[w].list
  BY <1>2
<1>4. PICK dialog \in Git!Dialogs : dialogs' = [dialogs EXCEPT ![w] = dialog]
                                  /\ dialog.kind # "closed"
  <2>1. CASE dialogs' = [dialogs EXCEPT ![w] =
                [kind |-> "add", name |-> Git!AnyName, seen |-> pages[w].list]]
    <3>1. [kind |-> "add", name |-> Git!AnyName, seen |-> seen] \in Git!Dialogs
      BY <1>2 DEF Git!Dialogs
    <3> QED
      BY <1>3, <2>1, <3>1
  <2>2. ASSUME NEW n \in Git!Names, dialogs' = [dialogs EXCEPT ![w] =
                [kind |-> "edit", name |-> n, seen |-> pages[w].list]]
        PROVE  \E dialog \in Git!Dialogs : dialogs' = [dialogs EXCEPT ![w] = dialog]
                                         /\ dialog.kind # "closed"
    <3>1. [kind |-> "edit", name |-> n, seen |-> seen] \in Git!Dialogs
      BY DEF Git!Dialogs
    <3> QED
      BY <1>3, <2>2, <3>1
  <2> QED
    BY <2>1, <2>2 DEF Git!OpenDialog, Git!Listed
<1>5. dialogs' \in [Windows -> Git!Dialogs] /\ NoneIsClosed'
  BY <1>1, <1>4, DialogsAre
<1>6. Git!TypeOK'
  BY <1>1, <1>5, CountTypes DEF Git!TypeOK
<1> QED
  BY <1>1, <1>5, <1>6, AtRest DEF RemoteInv

LEMMA CloseStep ==
    ASSUME RemoteBounds, RemoteInv, NEW w \in Windows, Git!CloseDialog(w)
    PROVE  RemoteInv'
<1>1. /\ Git!TypeOK /\ NoneIsClosed /\ edit.at = "idle"
      /\ dialogs' = [dialogs EXCEPT ![w] = Git!NoDialog]
      /\ UNCHANGED <<repository, remotes, pages, edit, misled, remoteCount>>
  BY DEF RemoteInv, Git!CloseDialog
<1>2. dialogs' \in [Windows -> Git!Dialogs] /\ NoneIsClosed'
  BY <1>1, IdleTypes, DialogsAre
<1>3. Git!TypeOK'
  BY <1>1, <1>2 DEF Git!TypeOK
<1> QED
  BY <1>1, <1>2, <1>3, AtRest DEF RemoteInv

\* The edit that begins with an answer or a removal.
Begun(at, w, kind, name, next, url, before) ==
    [Git!Idle EXCEPT !.at = at, !.window = w, !.kind = kind, !.name = name, !.next = next,
                     !.url = url, !.before = before]

LEMMA EditBegins ==
    ASSUME RemoteBounds, NEW at \in Git!Stages, NEW w \in Windows,
           NEW kind \in {"add", "edit", "remove"}, NEW name \in Git!Names, NEW next \in
               Git!Names,
           NEW url \in Urls \cup {Git!NoUrl}, NEW before \in Git!Remotes
    PROVE  LET begun == Begun(at, w, kind, name, next, url, before)
           IN  /\ begun \in Git!Edits /\ begun.at = at /\ begun.kind = kind
               /\ begun.name = name
               /\ begun.next = next /\ begun.url = url /\ begun.before = before
<1>1. Git!Idle \in Git!Edits
  BY IdleTypes
<1> QED
  BY ONLY <1>1, at \in Git!Stages, w \in Windows, kind \in {"add", "edit", "remove"},
          name \in Git!Names, next \in Git!Names, url \in Urls \cup {Git!NoUrl}, before \in
              Git!Remotes
     DEF Git!Edits, Begun

LEMMA SubmitStep ==
    ASSUME RemoteBounds, RemoteInv, NEW w \in Windows, Git!SubmitRemoteDialog(w)
    PROVE  RemoteInv'
<1>1. /\ Git!TypeOK /\ NoneIsClosed /\ dialogs[w] # Git!NoDialog
      /\ misled' = (misled \/ dialogs[w].seen # remotes)
      /\ UNCHANGED <<repository, remotes, pages, dialogs, remoteCount>>
  BY DEF RemoteInv, Git!SubmitRemoteDialog
<1>2. dialogs[w] \in Git!Dialogs
  BY <1>1 DEF Git!TypeOK
<1>3. PICK kind \in {"closed", "add", "edit"}, name \in Git!Names, seen \in Git!Remotes :
         dialogs[w] = [kind |-> kind, name |-> name, seen |-> seen]
  BY <1>2 DEF Git!Dialogs
<1>4. kind \in {"add", "edit"}
  BY <1>1, <1>3 DEF NoneIsClosed
<1>5. PICK next \in Git!Names, url \in Urls, at \in {"init", "list"} :
         /\ Git!RemoteDialogAccepts([kind |-> kind, name |-> name, seen |-> seen], next,
                                    url)
         /\ at = IF kind = "add" THEN "init" ELSE "list"
         /\ edit' = [Git!Idle EXCEPT !.at = at, !.window = w, !.kind = kind, !.name = name,
                                     !.next = next, !.url = url, !.before = remotes]
  <2>1. PICK next \in Git!Names, url \in Urls :
           /\ Git!RemoteDialogAccepts(dialogs[w], next, url)
           /\ edit' = [Git!Idle EXCEPT !.at = IF dialogs[w].kind =
                       "add" THEN "init" ELSE "list",
                                       !.window = w, !.kind = dialogs[w].kind,
                                       !.name = dialogs[w].name, !.next = next, !.url = url,
                                       !.before = remotes]
    BY DEF Git!SubmitRemoteDialog
  <2>2. dialogs[w].kind = kind /\ dialogs[w].name = name
    BY <1>3
  <2>3. PICK at \in {"init", "list"} : at = IF kind = "add" THEN "init" ELSE "list"
    OBVIOUS
  <2> QED
    BY <1>3, <2>1, <2>2, <2>3
<1>6. PICK before \in Git!Remotes : before = remotes
  BY <1>1 DEF Git!TypeOK
<1>7. /\ edit' \in Git!Edits /\ edit'.at = at /\ edit'.kind = kind /\ edit'.name = name
      /\ edit'.next = next /\ edit'.url = url /\ edit'.before = remotes
  <2>1. /\ at \in Git!Stages /\ kind \in {"add", "edit", "remove"}
        /\ url \in Urls \cup {Git!NoUrl}
    BY <1>4 DEF Git!Stages
  <2>2. edit' = Begun(at, w, kind, name, next, url, before)
    BY <1>5, <1>6 DEF Begun
  <2> QED
    BY <1>6, <2>1, <2>2, EditBegins
<1>8. Git!TypeOK'
  <2>1. misled' \in BOOLEAN
    BY <1>1
  <2> QED
    BY <1>1, <1>7, <2>1 DEF Git!TypeOK
<1>9. EditInStep'
  BY <1>1, <1>4, <1>5, <1>7 DEF EditInStep
<1>10. AnswerFits'
  <2>1. SUFFICES ASSUME ~misled'
                 PROVE  Git!Distinct(remotes) /\ Fits(kind, name, remotes, next, url)
    BY <1>7 DEF AnswerFits
  <2>2. ~misled /\ dialogs[w].seen = remotes
    BY <1>1, <2>1
  <2>3. seen = remotes
    BY <1>3, <2>2
  <2> QED
    BY <1>5, <2>2, <2>3 DEF RemoteInv, Fits
<1>11. NoneIsClosed' /\ (~misled' => Git!Distinct(remotes'))
  BY <1>1 DEF RemoteInv, NoneIsClosed
<1> QED
  BY <1>8, <1>9, <1>10, <1>11 DEF RemoteInv

LEMMA ClickRemoveStep ==
    ASSUME RemoteBounds, RemoteInv, NEW w \in Windows, Git!ClickRemove(w)
    PROVE  RemoteInv'
<1>1. /\ Git!TypeOK /\ NoneIsClosed /\ Git!Click /\ (~misled => Git!Distinct(remotes))
      /\ UNCHANGED <<repository, remotes, pages, dialogs, misled>>
  BY DEF RemoteInv, Git!ClickRemove
<1>2. PICK n \in Git!Names :
         edit' = [Git!Idle EXCEPT !.at = "remove", !.window = w, !.kind = "remove",
                                  !.name = n, !.next = n, !.before = remotes]
  BY DEF Git!ClickRemove, Git!Listed
<1>3. PICK before \in Git!Remotes, at \in {"remove"}, kind \in {"remove"} : before = remotes
  BY <1>1 DEF Git!TypeOK
<1>4. edit' = [Git!Idle EXCEPT !.at = at, !.window = w, !.kind = kind, !.name = n,
                               !.next = n, !.url = Git!NoUrl, !.before = before]
  <2>1. Git!Idle \in Git!Edits /\ Git!Idle.url = Git!NoUrl
    BY IdleTypes DEF Git!Idle
  <2>2. [Git!Idle EXCEPT !.at = at, !.window = w, !.kind = kind, !.name = n, !.next = n,
                         !.before = before]
           = [Git!Idle EXCEPT !.at = at, !.window = w, !.kind = kind, !.name = n, !.next =
              n,
                              !.url = Git!NoUrl, !.before = before]
    BY ONLY <2>1 DEF Git!Edits
  <2> QED
    BY <1>2, <1>3, <2>2
<1>5. /\ edit' \in Git!Edits /\ edit'.at = "remove" /\ edit'.kind = "remove"
      /\ edit'.before = remotes
  <2>1. /\ at \in Git!Stages /\ kind \in {"add", "edit", "remove"}
        /\ Git!NoUrl \in Urls \cup {Git!NoUrl}
    BY DEF Git!Stages
  <2>2. PICK url \in Urls \cup {Git!NoUrl} : url = Git!NoUrl
    BY <2>1
  <2>3. edit' = Begun(at, w, kind, n, n, url, before)
    BY <1>4, <2>2 DEF Begun
  <2> QED
    BY <1>3, <2>1, <2>3, EditBegins
<1>6. Git!TypeOK'
  BY <1>1, <1>5, CountTypes DEF Git!TypeOK
<1>7. EditInStep' /\ AnswerFits'
  BY <1>1, <1>5 DEF EditInStep, AnswerFits
<1>8. NoneIsClosed' /\ (~misled' => Git!Distinct(remotes'))
  BY <1>1 DEF RemoteInv, NoneIsClosed
<1> QED
  BY <1>6, <1>7, <1>8 DEF RemoteInv

LEMMA ReportStep ==
    ASSUME RemoteBounds, RemoteInv, Git!ReportEdit
    PROVE  RemoteInv'
<1>1. /\ Git!TypeOK /\ NoneIsClosed /\ edit' = Git!Idle /\ edit.window \in Windows
      /\ UNCHANGED <<repository, remotes, misled, remoteCount>>
  BY EditTypes DEF RemoteInv, Git!ReportEdit
<1>2. /\ pages' \in [Windows -> Git!Pages] /\ dialogs' \in [Windows -> Git!Dialogs]
      /\ NoneIsClosed'
  <2>1. CASE /\ Git!RebuildStoreGitPage(edit.window)
             /\ dialogs' = [dialogs EXCEPT ![edit.window] = Git!NoDialog]
    <3>1. PICK w \in Windows : w = edit.window
      BY <1>1
    <3>2. dialogs' \in [Windows -> Git!Dialogs] /\ NoneIsClosed'
      BY <1>1, <2>1, <3>1, IdleTypes, DialogsAre
    <3>3. Git!RebuildStoreGitPage(w)
      BY <2>1, <3>1
    <3> QED
      BY <1>1, <3>2, <3>3, GitPagesAre
  <2>2. CASE UNCHANGED <<pages, dialogs>>
    BY <1>1, <2>2 DEF Git!TypeOK, NoneIsClosed
  <2> QED
    BY <2>1, <2>2 DEF Git!ReportEdit
<1>3. Git!TypeOK' /\ edit'.at = "idle"
  BY <1>1, <1>2, IdleTypes DEF Git!TypeOK
<1> QED
  BY <1>1, <1>2, <1>3, AtRest DEF RemoteInv

LEMMA OutsideStep ==
    ASSUME RemoteBounds, RemoteInv, Git!ChangeOutside
    PROVE  RemoteInv'
<1>1. /\ Git!TypeOK /\ NoneIsClosed /\ Git!Outside /\ repository /\ edit.at = "idle"
      /\ misled' = (misled \/ ~Git!Distinct(remotes'))
      /\ UNCHANGED <<repository, pages, dialogs, edit>>
  BY DEF RemoteInv, Git!ChangeOutside
<1>2. remotes' \in Git!Remotes
  <2>1. PICK n \in Git!Names, url \in Urls \cup {Git!NoUrl} :
            remotes' = [remotes EXCEPT ![n] = url]
    BY DEF Git!ChangeOutside
  <2>2. [remotes EXCEPT ![n] = url] \in Git!Remotes
    BY <1>1, RemoteTypes DEF Git!TypeOK
  <2> QED
    BY <2>1, <2>2
<1>3. misled' \in BOOLEAN /\ (~misled' => Git!Distinct(remotes'))
  BY <1>1 DEF Git!TypeOK
<1>4. Git!TypeOK'
  BY <1>1, <1>2, <1>3, CountTypes DEF Git!TypeOK
<1>5. NoneIsClosed'
  BY <1>1 DEF NoneIsClosed
<1> QED
  BY <1>1, <1>3, <1>4, <1>5, AtRest

\* What is closed, in every window.
LEMMA AllClosed ==
    ASSUME RemoteBounds, pages' = [w \in Windows |-> Git!Closed],
           dialogs' = [w \in Windows |-> Git!NoDialog]
    PROVE  pages' \in [Windows -> Git!Pages] /\ dialogs' \in [Windows -> Git!Dialogs]
           /\ NoneIsClosed'
BY IdleTypes DEF NoneIsClosed

LEMMA KilledStep ==
    ASSUME RemoteBounds, RemoteInv, Git!Killed
    PROVE  RemoteInv'
<1>1. /\ Git!TypeOK /\ Git!Outside /\ edit' = Git!Idle
      /\ UNCHANGED <<repository, remotes, misled>>
      /\ pages' = [w \in Windows |-> Git!Closed]
      /\ dialogs' = [w \in Windows |-> Git!NoDialog]
  BY DEF RemoteInv, Git!Killed
<1>2. /\ pages' \in [Windows -> Git!Pages] /\ dialogs' \in [Windows -> Git!Dialogs]
      /\ NoneIsClosed'
  BY <1>1, AllClosed
<1>3. Git!TypeOK' /\ edit'.at = "idle"
  BY <1>1, <1>2, IdleTypes, CountTypes DEF Git!TypeOK
<1> QED
  BY <1>1, <1>2, <1>3, AtRest DEF RemoteInv

LEMMA RemotesStart ==
    ASSUME RemoteBounds, Git!Init
    PROVE  RemoteInv
<1>1. Git!TypeOK
  <2>1. /\ pages \in [Windows -> Git!Pages] /\ dialogs \in [Windows -> Git!Dialogs]
        /\ edit \in Git!Edits
    BY IdleTypes DEF Git!Init
  <2>2. remoteCount \in
            [clicks : 0..MaxClicks, errors : 0..MaxGitErrors, outside : 0..MaxOutside]
    BY DEF Git!Init, RemoteBounds
  <2> QED
    BY <2>1, <2>2 DEF Git!Init, Git!TypeOK
<1>2. edit.at = "idle" /\ NoneIsClosed /\ Git!Distinct(remotes)
  BY IdleTypes DEF Git!Init, NoneIsClosed
<1> QED
  BY <1>1, <1>2 DEF RemoteInv, EditInStep, AnswerFits

LEMMA RemotesStep ==
    ASSUME RemoteBounds, RemoteInv, Git!Next
    PROVE  RemoteInv'
<1>1. ASSUME NEW w \in Windows,
             \/ Git!ShowStoreGitPage(w) \/ Git!OpenDialog(w) \/ Git!CloseDialog(w)
             \/ Git!SubmitRemoteDialog(w) \/ Git!ClickRemove(w)
      PROVE  RemoteInv'
  BY <1>1, ShowRemotesStep, OpenStep, CloseStep, SubmitStep, ClickRemoveStep
<1> QED
  BY <1>1, CommandStep, ReportStep, OutsideStep, KilledStep DEF Git!Next

LEMMA GitPagesStay ==
    ASSUME RemoteInv, UNCHANGED Git!remoteVars
    PROVE  RemoteInv'
BY DEF RemoteInv, Git!remoteVars, Git!TypeOK, EditInStep, AnswerFits, NoneIsClosed,
   Git!Wanted

LEMMA RemotesAre ==
    ASSUME RemoteInv
    PROVE  Git!TypeOK /\ Git!RemotesFollowTheDialogs
BY DEF RemoteInv, EditInStep, Git!RemotesFollowTheDialogs

-----------------------------------------------------------------------------
(* The audit of commits *)

AuditBounds ==
    /\ PageSize \in Nat /\ MaxCommits \in Nat
    /\ MaxCatalogLoads \in Nat /\ MaxPageLoads \in Nat

Commits == 1..MaxCommits
FullStates ==
    [generation : Nat, loading : BOOLEAN, loadedOnce : BOOLEAN, hasMore : BOOLEAN,
     nextPage : Nat, failed : BOOLEAN, commits : Seq(Commits)]
CatalogTasks ==
    [is : {"catalog"}, at : {"running", "ok", "error", "lost"}, generation : Nat]
UnreadTasks ==
    [is : {"page"}, at : {"running", "error", "lost"}, generation : Nat, visit : Nat,
     branch : Branches, page : Nat, append : BOOLEAN]
ReadTasks ==
    [is : {"page"}, at : {"ok"}, generation : Nat, visit : Nat, branch : Branches,
     page : Nat, append : BOOLEAN, commits : Seq(Commits), hasMore : BOOLEAN]
AuditTasks == CatalogTasks \cup UnreadTasks \cup ReadTasks

\* The type invariant, with what the records of states and tasks hold.
AuditTypes ==
    /\ Audit!TypeOK
    /\ branchStates \in [Branches -> FullStates \cup {Audit!NoState}]
    /\ auditTasks \subseteq AuditTasks

\* A task of this visit is not newer than the state of its branch.
TasksFollowStates ==
    \A task \in auditTasks : task.is = "page" =>
        /\ task.visit <= catalogGeneration
        /\ task.visit = catalogGeneration =>
              /\ branchStates[task.branch] # Audit!NoState
              /\ task.generation <= branchStates[task.branch].generation

TasksDiffer ==
    \A s, t \in auditTasks :
        (/\ s.is = "page" /\ t.is = "page" /\ s.branch = t.branch
         /\ s.visit = t.visit /\ s.generation = t.generation) => s = t

\* What is shown of a branch is what its pages hold.
StateIsSound(b) ==
    LET state == branchStates[b]
    IN  /\ state.commits = Audit!NewestCommits(b, state.nextPage * PageSize)
        /\ state.loadedOnce => state.hasMore = (log[b] > state.nextPage * PageSize)
        /\ ~state.loadedOnce => state.nextPage = 0
StatesAreSound ==
    \A b \in Branches \ (grown \cup mixed) : branchStates[b] # Audit!NoState =>
        StateIsSound(b)

\* The page under way is the one that is missing, and what was read of it is it.
TaskIsSound(task) ==
    /\ task.page = IF task.append THEN branchStates[task.branch].nextPage ELSE 0
    /\ task.at = "ok" =>
          /\ task.commits = Audit!CommitsOfPage(task.branch, task.page)
          /\ task.hasMore = Audit!HasMore(task.branch, task.page)
IsDue(task) ==
    /\ task.is = "page" /\ task.visit = catalogGeneration
    /\ task.branch \notin grown \cup mixed
    /\ task.generation = branchStates[task.branch].generation
TasksAreSound == \A task \in auditTasks : IsDue(task) => TaskIsSound(task)

AuditInv ==
    /\ AuditTypes /\ TasksFollowStates /\ TasksDiffer /\ StatesAreSound /\ TasksAreSound
    /\ Audit!LoadingAuditHasAWorker

-----------------------------------------------------------------------------
(* Pages and what they add up to *)

LEMMA Products ==
    ASSUME NEW n \in Nat, NEW size \in Nat
    PROVE  n * size \in Nat /\ (n + 1) * size = n * size + size /\ 0 * size = 0
OBVIOUS

LEMMA NewestAre ==
    ASSUME AuditBounds, log \in [Branches -> 0..MaxCommits], NEW b \in Branches,
           NEW count \in Nat
    PROVE  /\ Audit!NewestCommits(b, count) \in Seq(Commits)
           /\ Len(Audit!NewestCommits(b, count)) = IF count < log[b] THEN count ELSE log[b]
           /\ \A i \in 1..Len(Audit!NewestCommits(b, count)) :
                 Audit!NewestCommits(b, count)[i] = log[b] - i + 1
<1>1. PICK length \in Nat, top \in 0..MaxCommits :
         /\ top = log[b] /\ length = IF count < log[b] THEN count ELSE log[b]
  BY DEF AuditBounds
<1>2. \A i \in 1..length : top - i + 1 \in Commits
  BY <1>1 DEF AuditBounds, Commits
<1>3. Audit!NewestCommits(b, count) = [i \in 1..length |-> top - i + 1]
  BY <1>1 DEF Audit!NewestCommits
<1>4. [i \in 1..length |-> top - i + 1] \in Seq(Commits)
  BY <1>2
<1> QED
  BY <1>1, <1>3, <1>4

\* What there is on a page that comes after `skipped` commits.
IsPage(s, top, skipped) ==
    /\ Len(s) = IF top <= skipped THEN 0
                ELSE IF top - skipped < PageSize THEN top - skipped ELSE PageSize
    /\ \A i \in 1..Len(s) : s[i] = top - skipped - i + 1

LEMMA AuditPagesAre ==
    ASSUME AuditBounds, log \in [Branches -> 0..MaxCommits], NEW b \in Branches,
           NEW page \in Nat
    PROVE  /\ Audit!CommitsOfPage(b, page) \in Seq(Commits)
           /\ IsPage(Audit!CommitsOfPage(b, page), log[b], page * PageSize)
<1> DEFINE skipped == page * PageSize
<1>0. skipped \in Nat
  BY Products DEF AuditBounds
<1> HIDE DEF skipped
<1>1. PICK count \in Nat, top \in 0..MaxCommits :
         /\ top = log[b]
         /\ count = IF log[b] <= skipped THEN 0
                    ELSE IF log[b] - skipped < PageSize THEN log[b] - skipped ELSE PageSize
  BY <1>0 DEF AuditBounds
<1>2. \A i \in 1..count : top - skipped - i + 1 \in Commits
  BY <1>0, <1>1 DEF AuditBounds, Commits
<1>3. Audit!CommitsOfPage(b, page) = [i \in 1..count |-> top - skipped - i + 1]
  BY <1>1 DEF Audit!CommitsOfPage, skipped
<1>4. [i \in 1..count |-> top - skipped - i + 1] \in Seq(Commits)
  BY <1>2
<1>5. IsPage([i \in 1..count |-> top - skipped - i + 1], top, skipped)
  BY <1>1, <1>4 DEF IsPage
<1> QED
  BY <1>1, <1>3, <1>4, <1>5 DEF skipped

\* The next page continues what was loaded.
LEMMA PageContinues ==
    ASSUME AuditBounds, log \in [Branches -> 0..MaxCommits], NEW b \in Branches,
           NEW page \in Nat
    PROVE  /\ Audit!NewestCommits(b, page * PageSize) \o Audit!CommitsOfPage(b, page)
                = Audit!NewestCommits(b, (page + 1) * PageSize)
           /\ Audit!CommitsOfPage(b, 0) = Audit!NewestCommits(b, 1 * PageSize)
           /\ Audit!NewestCommits(b, 0) = <<>>
           /\ Audit!CommitsOfPage(b, page) \in Seq(Commits)
<1>1. PICK skipped \in Nat, next \in Nat :
         /\ skipped = page * PageSize /\ next = (page + 1) * PageSize
         /\ next = skipped + PageSize
  BY Products DEF AuditBounds
<1>2. PICK top \in 0..MaxCommits : top = log[b]
  OBVIOUS
<1>3. PICK s \in Seq(Commits), t \in Seq(Commits), u \in Seq(Commits) :
         /\ s = Audit!NewestCommits(b, skipped) /\ t = Audit!CommitsOfPage(b, page)
         /\ u = Audit!NewestCommits(b, next)
  BY <1>1, NewestAre, AuditPagesAre
<1>4. /\ Len(s) = (IF skipped < top THEN skipped ELSE top)
      /\ \A i \in 1..Len(s) : s[i] = top - i + 1
  BY <1>2, <1>3, NewestAre
<1>5. /\ Len(u) = (IF next < top THEN next ELSE top)
      /\ \A i \in 1..Len(u) : u[i] = top - i + 1
  BY <1>2, <1>3, NewestAre
<1>6. /\ Len(t) = (IF top <= skipped THEN 0
                   ELSE IF top - skipped < PageSize THEN top - skipped ELSE PageSize)
      /\ \A i \in 1..Len(t) : t[i] = top - skipped - i + 1
  <2>1. IsPage(Audit!CommitsOfPage(b, page), log[b], page * PageSize)
    BY AuditPagesAre
  <2>2. IsPage(t, top, skipped)
    BY ONLY <1>1, <1>2, <1>3, <2>1
  <2> QED
    BY <2>2 DEF IsPage
<1>7. s \o t = u
  <2>1. PICK size \in Nat, m \in Nat : size = PageSize /\ m = MaxCommits
    BY DEF AuditBounds
  <2>2. Len(s) + Len(t) = Len(u)
    BY ONLY <1>1, <1>4, <1>5, <1>6, <2>1, top \in 0..MaxCommits, skipped \in Nat
  <2>3. /\ s \o t \in Seq(Commits) /\ Len(s \o t) = Len(s) + Len(t)
        /\ \A i \in 1..Len(s) : (s \o t)[i] = s[i]
        /\ \A i \in (Len(s) + 1)..(Len(s) + Len(t)) : (s \o t)[i] = t[i - Len(s)]
    BY ConcatProperties
  <2>4. \A i \in 1..Len(u) : (s \o t)[i] = u[i]
    <3> SUFFICES ASSUME NEW i \in 1..Len(u) PROVE (s \o t)[i] = u[i]
      OBVIOUS
    <3>1. Len(s) \in Nat /\ Len(t) \in Nat /\ Len(u) \in Nat
      OBVIOUS
    <3>2. CASE i <= Len(s)
      BY <1>4, <1>5, <2>3, <3>1, <3>2
    <3>3. CASE i > Len(s)
      <4>1. i - Len(s) \in 1..Len(t) /\ i \in (Len(s) + 1)..(Len(s) + Len(t))
        BY <2>2, <3>1, <3>3
      <4>2. Len(s) = skipped
        BY ONLY <1>4, <1>6, <3>1, <4>1, top \in 0..MaxCommits, <2>1, skipped \in Nat
      <4>3. (s \o t)[i] = top - skipped - (i - Len(s)) + 1
        BY <1>6, <2>3, <4>1
      <4>4. top - skipped - (i - skipped) + 1 = top - i + 1
        <5>1. i \in Nat /\ top \in Nat
          BY <3>1, <2>1
        <5> QED
          BY ONLY <5>1, skipped \in Nat
      <4>5. u[i] = top - i + 1
        BY <1>5
      <4>6. (s \o t)[i] = top - skipped - (i - skipped) + 1
        BY <4>2, <4>3
      <4> QED
        BY ONLY <4>4, <4>5, <4>6
    <3>4. i <= Len(s) \/ i > Len(s)
      BY ONLY <3>1, i \in 1..Len(u)
    <3> QED
      BY ONLY <3>2, <3>3, <3>4
  <2> QED
    BY <2>2, <2>3, <2>4, SeqEqual
<1>8. Audit!NewestCommits(b, 0) = <<>>
  BY <1>2, NewestAre, EmptySeq DEF AuditBounds
<1>9. Audit!CommitsOfPage(b, 0) = Audit!NewestCommits(b, 1 * PageSize)
  <2>1. PICK v \in Seq(Commits), x \in Seq(Commits) :
           v = Audit!CommitsOfPage(b, 0) /\ x = Audit!NewestCommits(b, 1 * PageSize)
    BY NewestAre, AuditPagesAre, Products DEF AuditBounds
  <2>2. PICK size \in Nat : size = PageSize /\ 1 * PageSize = size /\ 0 * PageSize = 0
    BY DEF AuditBounds
  <2>3. /\ Len(v) = (IF top <= 0 THEN 0 ELSE IF top - 0 < size THEN top - 0 ELSE size)
        /\ \A i \in 1..Len(v) : v[i] = top - 0 - i + 1
    <3>1. IsPage(Audit!CommitsOfPage(b, 0), log[b], 0 * PageSize)
      BY AuditPagesAre
    <3>2. IsPage(v, top, 0)
      BY ONLY <1>2, <2>1, <2>2, <3>1
    <3> QED
      BY <2>2, <3>2 DEF IsPage
  <2>4. /\ Len(x) = (IF size < top THEN size ELSE top)
        /\ \A i \in 1..Len(x) : x[i] = top - i + 1
    BY <1>2, <2>1, <2>2, NewestAre, ZenonT(40)
  <2>5. Len(v) = Len(x)
    BY ONLY <2>3, <2>4, size \in Nat, top \in 0..MaxCommits, AuditBounds DEF AuditBounds
  <2>6. \A i \in 1..Len(v) : v[i] = x[i]
    BY <2>3, <2>4, <2>5, <1>2 DEF AuditBounds
  <2> QED
    BY <2>1, <2>5, <2>6, SeqEqual
<1> QED
  BY <1>1, <1>3, <1>7, <1>8, <1>9

-----------------------------------------------------------------------------
(* States and tasks *)

LEMMA StatesDiffer ==
    ASSUME NEW state \in FullStates
    PROVE  state # Audit!NoState
<1>1. DOMAIN state =
          {"generation", "loading", "loadedOnce", "hasMore", "nextPage", "failed",
                      "commits"}
  BY DEF FullStates
<1>2. DOMAIN Audit!NoState = {"generation"}
  BY DEF Audit!NoState
<1> QED
  BY <1>1, <1>2

LEMMA NewStateIs ==
    /\ Audit!NewState \in FullStates /\ Audit!NewState.generation = 0
    /\ Audit!NewState.loading = FALSE
    /\ Audit!NewState.loadedOnce = FALSE /\ Audit!NewState.hasMore = FALSE
    /\ Audit!NewState.nextPage = 0
    /\ Audit!NewState.commits = <<>>
BY EmptySeq DEF Audit!NewState, FullStates

LEMMA StateOfIs ==
    ASSUME AuditTypes, NEW b \in Branches
    PROVE  /\ branchStates[b] \in FullStates \cup {Audit!NoState}
           /\ Audit!StateOf(b) \in FullStates
           /\ branchStates[b] # Audit!NoState =>
                 branchStates[b] \in FullStates /\ Audit!StateOf(b) = branchStates[b]
           /\ branchStates[b] = Audit!NoState => Audit!StateOf(b) = Audit!NewState
BY NewStateIs DEF AuditTypes, Audit!StateOf

\* Full states are what TypeOK asks for.
LEMMA StatesAreTyped ==
    ASSUME NEW states \in [Branches -> FullStates \cup {Audit!NoState}], NEW b \in Branches
    PROVE  \/ states[b] = Audit!NoState
           \/ /\ DOMAIN states[b] = DOMAIN Audit!NewState
              /\ states[b].commits \in Seq(1..MaxCommits)
<1>1. PICK state \in FullStates \cup {Audit!NoState} : state = states[b]
  OBVIOUS
<1>2. CASE state \in FullStates
  <2>1. state.commits \in Seq(1..MaxCommits)
    BY <1>2 DEF FullStates, Commits
  <2>2. DOMAIN state = DOMAIN Audit!NewState
    BY <1>2, NewStateIs DEF FullStates
  <2> QED
    BY <1>1, <2>1, <2>2
<1> QED
  BY <1>1, <1>2

LEMMA TasksAre ==
    ASSUME NEW task \in AuditTasks
    PROVE  /\ task.is \in {"catalog", "page"}
           /\ task.at \in {"running", "ok", "error", "lost"}
           /\ task.generation \in Nat
           /\ task.is = "catalog" => task \in CatalogTasks
           /\ task.is = "page" =>
                 /\ task.visit \in Nat /\ task.branch \in Branches /\ task.page \in Nat
                 /\ task.append \in BOOLEAN
                 /\ task.at = "ok" =>
                        task.commits \in Seq(Commits) /\ task.hasMore \in BOOLEAN
           /\ (task.is = "page" /\ task.at # "ok") => task \in UnreadTasks
BY DEF AuditTasks, CatalogTasks, UnreadTasks, ReadTasks

-----------------------------------------------------------------------------
(* The steps *)

\* The catalog is as it was, or its worker is under way.
CatalogFits ==
    catalog = "loading" =>
        \E task \in auditTasks : task.is = "catalog" /\ task.generation = catalogGeneration
BranchesFit ==
    \A b \in Branches : (branchStates[b] # Audit!NoState /\ branchStates[b].loading) =>
        \E task \in auditTasks :
            /\ task.is = "page" /\ task.branch = b
            /\ task.generation = branchStates[b].generation

LEMMA AllFit ==
    Audit!LoadingAuditHasAWorker <=> (CatalogFits /\ BranchesFit)
BY DEF Audit!LoadingAuditHasAWorker, CatalogFits, BranchesFit

LEMMA AuditTypesAre ==
    ASSUME AuditTypes
    PROVE  /\ inStack \in BOOLEAN /\ catalogGeneration \in Nat
           /\ catalog \in {"none", "loading", "ok", "error"}
           /\ branchStates \in [Branches -> FullStates \cup {Audit!NoState}]
           /\ auditTasks \subseteq AuditTasks /\ log \in [Branches -> 0..MaxCommits]
           /\ grown \subseteq Branches /\ mixed \subseteq Branches
           /\ auditCount \in [catalogs : 0..MaxCatalogLoads, pages : 0..MaxPageLoads]
BY DEF AuditTypes, Audit!TypeOK

\* What is left of the types when the counters keep theirs.
LEMMA AuditTypesNext ==
    ASSUME inStack' \in BOOLEAN, catalogGeneration' \in Nat,
           catalog' \in {"none", "loading", "ok", "error"},
           branchStates' \in [Branches -> FullStates \cup {Audit!NoState}],
           auditTasks' \subseteq AuditTasks, log' \in [Branches -> 0..MaxCommits],
           grown' \subseteq Branches, mixed' \subseteq Branches,
           auditCount' \in [catalogs : 0..MaxCatalogLoads, pages : 0..MaxPageLoads]
    PROVE  AuditTypes'
<1>1. \A b \in Branches :
         \/ branchStates'[b] = Audit!NoState
         \/ /\ DOMAIN branchStates'[b] = DOMAIN Audit!NewState
            /\ branchStates'[b].commits \in Seq(1..MaxCommits)
  BY StatesAreTyped
<1>2. \A task \in auditTasks' : /\ task.is \in {"catalog", "page"}
                                /\ task.at \in {"running", "ok", "error", "lost"}
  BY TasksAre
<1>3. Audit!TypeOK'
  BY <1>1, <1>2 DEF Audit!TypeOK
<1> QED
  BY <1>3 DEF AuditTypes

\* All that was loaded is dropped, and answers under way are of before.
LEMMA DropsKeep ==
    ASSUME AuditInv, Audit!DropBranches, catalogGeneration' =
           catalogGeneration + 1, UNCHANGED log,
           NEW new \in CatalogTasks, auditTasks' \in {auditTasks, auditTasks \cup {new}},
           catalog' \in {"none", "loading"},
           catalog' = "loading" =>
               new \in auditTasks' /\ new.generation = catalogGeneration',
           inStack' \in BOOLEAN,
           auditCount' \in [catalogs : 0..MaxCatalogLoads, pages : 0..MaxPageLoads]
    PROVE  AuditInv'
<1>1. AuditTypes /\ TasksFollowStates /\ TasksDiffer
  BY DEF AuditInv
<1>2. catalogGeneration \in Nat /\ catalogGeneration' \in Nat
  BY <1>1, AuditTypesAre
<1>3. new \in AuditTasks /\ new.is = "catalog"
  BY DEF AuditTasks, CatalogTasks
<1>4. \A task \in auditTasks' : task.is = "page" => task \in auditTasks
  BY <1>3
<1>5. branchStates' = [b \in Branches |-> Audit!NoState] /\ grown' = {} /\ mixed' = {}
  BY DEF Audit!DropBranches
<1>6. AuditTypes'
  <2>1. branchStates' \in [Branches -> FullStates \cup {Audit!NoState}]
    BY <1>5
  <2>2. auditTasks' \subseteq AuditTasks
    BY <1>1, <1>3, AuditTypesAre
  <2>3. log' \in [Branches -> 0..MaxCommits]
    BY <1>1, AuditTypesAre
  <2> QED
    BY <1>2, <1>5, <2>1, <2>2, <2>3, AuditTypesNext
<1>7. \A task \in auditTasks' : task.is = "page" =>
          task.visit <= catalogGeneration' /\ task.visit # catalogGeneration'
  <2> SUFFICES ASSUME NEW task \in auditTasks', task.is = "page"
               PROVE  task.visit <= catalogGeneration' /\ task.visit # catalogGeneration'
    OBVIOUS
  <2>1. task.visit \in Nat /\ task.visit <= catalogGeneration
    BY <1>1, <1>4, AuditTypesAre, TasksAre DEF TasksFollowStates
  <2> QED
    BY <1>2, <2>1
<1>8. TasksFollowStates'
  BY <1>7 DEF TasksFollowStates
<1>9. TasksDiffer'
  BY <1>1, <1>4 DEF TasksDiffer
<1>10. StatesAreSound' /\ BranchesFit'
  BY <1>5 DEF StatesAreSound, BranchesFit
<1>11. TasksAreSound'
  BY <1>7 DEF TasksAreSound, IsDue
<1>12. CatalogFits'
  BY <1>3 DEF CatalogFits
<1> QED
  BY <1>6, <1>8, <1>9, <1>10, <1>11, <1>12, AllFit
     DEF AuditInv, Audit!LoadingAuditHasAWorker,
     CatalogFits, BranchesFit

\* A catalog task there could be.
AnyCatalogTask == [is |-> "catalog", at |-> "running", generation |-> 0]

LEMMA CountsAre ==
    ASSUME AuditBounds, AuditTypes
    PROVE  /\ auditCount.catalogs < MaxCatalogLoads =>
                 [auditCount EXCEPT !.catalogs = @ + 1]
                     \in [catalogs : 0..MaxCatalogLoads, pages : 0..MaxPageLoads]
           /\ auditCount.pages < MaxPageLoads =>
                 [auditCount EXCEPT !.pages = @ + 1]
                     \in [catalogs : 0..MaxCatalogLoads, pages : 0..MaxPageLoads]
<1>1. auditCount \in [catalogs : 0..MaxCatalogLoads, pages : 0..MaxPageLoads]
  BY AuditTypesAre
<1>2. /\ auditCount.catalogs < MaxCatalogLoads =>
             auditCount.catalogs + 1 \in 0..MaxCatalogLoads
      /\ auditCount.pages < MaxPageLoads => auditCount.pages + 1 \in 0..MaxPageLoads
  BY <1>1 DEF AuditBounds
<1>3. \A n \in 0..MaxCatalogLoads : [auditCount EXCEPT !.catalogs = n]
          \in [catalogs : 0..MaxCatalogLoads, pages : 0..MaxPageLoads]
  BY <1>1
<1>4. \A n \in 0..MaxPageLoads : [auditCount EXCEPT !.pages = n]
          \in [catalogs : 0..MaxCatalogLoads, pages : 0..MaxPageLoads]
  BY <1>1
<1> QED
  BY <1>2, <1>3, <1>4

LEMMA PrepareStep ==
    ASSUME AuditBounds, AuditInv, Audit!PrepareAuditPage
    PROVE  AuditInv'
<1>1. AuditTypes
  BY DEF AuditInv
<1>2. CASE Audit!StartCatalogLoad
  <2> DEFINE new ==
      [is |-> "catalog", at |-> "running", generation |-> catalogGeneration + 1]
  <2>1. new \in CatalogTasks /\ new.generation = catalogGeneration + 1
    BY <1>1, AuditTypesAre DEF CatalogTasks
  <2>2. /\ Audit!DropBranches /\ catalogGeneration' = catalogGeneration + 1 /\ UNCHANGED log
        /\ auditTasks' = auditTasks \cup {new} /\ catalog' = "loading" /\ inStack' = TRUE
    BY <1>2 DEF Audit!StartCatalogLoad, Audit!PrepareAuditPage
  <2>3. auditCount' \in [catalogs : 0..MaxCatalogLoads, pages : 0..MaxPageLoads]
    BY <1>1, <1>2, CountsAre DEF Audit!StartCatalogLoad
  <2> HIDE DEF new
  <2> QED
    BY <2>1, <2>2, <2>3, DropsKeep
<1>3. CASE UNCHANGED <<catalogGeneration, catalog, branchStates, auditTasks, grown, mixed,
                       auditCount>>
  <2>1. UNCHANGED log /\ inStack' \in BOOLEAN
    BY DEF Audit!PrepareAuditPage
  <2>2. AuditTypes'
    BY <1>1, <1>3, <2>1, AuditTypesAre, AuditTypesNext
  <2> QED
    BY <1>3, <2>1, <2>2
       DEF AuditInv, TasksFollowStates, TasksDiffer, StatesAreSound, StateIsSound,
           Audit!NewestCommits, TasksAreSound, IsDue, TaskIsSound, Audit!CommitsOfPage,
           Audit!HasMore,
           Audit!LoadingAuditHasAWorker
<1> QED
  BY <1>2, <1>3 DEF Audit!PrepareAuditPage

LEMMA ClearStep ==
    ASSUME AuditBounds, AuditInv, Audit!ClearTransientState
    PROVE  AuditInv'
<1>1. AnyCatalogTask \in CatalogTasks
  BY DEF AnyCatalogTask, CatalogTasks
<1>2. /\ Audit!DropBranches /\ catalogGeneration' = catalogGeneration + 1 /\ UNCHANGED log
      /\ auditTasks' = auditTasks /\ catalog' = "none" /\ inStack' \in BOOLEAN
  BY DEF Audit!ClearTransientState
<1>3. auditCount' \in [catalogs : 0..MaxCatalogLoads, pages : 0..MaxPageLoads]
  BY AuditTypesAre DEF AuditInv, Audit!ClearTransientState
<1> QED
  BY <1>1, <1>2, <1>3, DropsKeep

\* The state of a branch while its next page, or its first, is loaded.
LoadingState(state, append) ==
    [(IF append THEN state ELSE Audit!NewState) EXCEPT
        !.generation = state.generation + 1, !.loading = TRUE, !.failed = FALSE]

LEMMA LoadingStateIs ==
    ASSUME NEW state \in FullStates, NEW append \in BOOLEAN
    PROVE  LET next == LoadingState(state, append)
           IN  /\ next \in FullStates /\ next.generation = state.generation + 1
               /\ append =>
                      /\ next.commits = state.commits /\ next.nextPage = state.nextPage
                      /\ next.loadedOnce = state.loadedOnce
                      /\ next.hasMore = state.hasMore
               /\ ~append => /\ next.commits = <<>> /\ next.nextPage = 0
                             /\ next.loadedOnce = FALSE
<1>1. CASE append
  <2>1. LoadingState(state, append) = [state EXCEPT !.generation = state.generation + 1,
                                                    !.loading = TRUE, !.failed = FALSE]
    BY <1>1 DEF LoadingState
  <2>2. state.generation + 1 \in Nat
    BY DEF FullStates
  <2>3. LoadingState(state, append) \in FullStates
    BY ONLY <2>1, <2>2, state \in FullStates DEF FullStates
  <2>4. /\ LoadingState(state, append).generation = state.generation + 1
        /\ LoadingState(state, append).commits = state.commits
        /\ LoadingState(state, append).nextPage = state.nextPage
    BY ONLY <2>1, state \in FullStates DEF FullStates
  <2>5. /\ LoadingState(state, append).loadedOnce = state.loadedOnce
        /\ LoadingState(state, append).hasMore = state.hasMore
    BY ONLY <2>1, state \in FullStates DEF FullStates
  <2> QED
    BY <1>1, <2>3, <2>4, <2>5
<1>2. CASE ~append
  <2>1. LoadingState(state, append) =
            [Audit!NewState EXCEPT !.generation = state.generation + 1,
                                                             !.loading = TRUE, !.failed =
                                                                 FALSE]
    BY <1>2 DEF LoadingState
  <2>2. state.generation + 1 \in Nat
    BY DEF FullStates
  <2> QED
    BY ONLY <1>2, <2>1, <2>2, NewStateIs DEF FullStates
<1> QED
  BY <1>1, <1>2

LEMMA LoadStep ==
    ASSUME AuditBounds, AuditInv, NEW b \in Branches, NEW append \in BOOLEAN, NEW page \in
           Nat,
           page = IF append THEN Audit!StateOf(b).nextPage ELSE
               0, Audit!StartPageLoad(b, page, append)
    PROVE  AuditInv'
<1>1. /\ AuditTypes /\ TasksFollowStates /\ TasksDiffer /\ StatesAreSound /\ TasksAreSound
      /\ CatalogFits /\ BranchesFit
  BY AllFit DEF AuditInv
<1>2. PICK state \in FullStates : state = Audit!StateOf(b)
  BY <1>1, StateOfIs
<1>3. PICK old \in FullStates \cup {Audit!NoState} : old = branchStates[b]
  BY <1>1, StateOfIs
<1>4. /\ old # Audit!NoState => state = old
      /\ old = Audit!NoState => state = Audit!NewState
  BY <1>1, <1>2, <1>3, StateOfIs
<1>5. PICK next \in FullStates : next = LoadingState(state, append)
  BY LoadingStateIs
<1>6. /\ next.generation = state.generation + 1 /\ state.generation \in Nat
      /\ append => /\ next.commits = state.commits /\ next.nextPage = state.nextPage
                   /\ next.loadedOnce = state.loadedOnce /\ next.hasMore = state.hasMore
      /\ ~append => /\ next.commits = <<>> /\ next.nextPage = 0 /\ next.loadedOnce = FALSE
      /\ next # Audit!NoState
  <2>1. state.generation \in Nat
    BY DEF FullStates
  <2>2. next # Audit!NoState
    BY StatesDiffer
  <2>3. next.generation = state.generation + 1
    BY <1>5, LoadingStateIs
  <2>4. append => /\ next.commits = state.commits /\ next.nextPage = state.nextPage
                  /\ next.loadedOnce = state.loadedOnce /\ next.hasMore = state.hasMore
    BY <1>5, LoadingStateIs
  <2>5. ~append => /\ next.commits = <<>> /\ next.nextPage = 0 /\ next.loadedOnce = FALSE
    BY <1>5, LoadingStateIs
  <2> QED
    BY <2>1, <2>2, <2>3, <2>4, <2>5
<1> DEFINE new ==
       [is |-> "page", at |-> "running", generation |-> state.generation + 1,
        visit |-> catalogGeneration, branch |-> b, page |-> page, append |-> append]
<1>7. /\ branchStates' = [branchStates EXCEPT ![b] = next]
      /\ auditTasks' = auditTasks \cup {new}
      /\ UNCHANGED <<inStack, catalogGeneration, catalog, log, grown, mixed>>
  BY <1>2, <1>5 DEF Audit!StartPageLoad, LoadingState
<1>8. catalogGeneration \in Nat
  BY <1>1, AuditTypesAre
<1>9. /\ new \in AuditTasks /\ new.is = "page" /\ new.at = "running" /\ new.append = append
      /\ new.generation = next.generation /\ new.visit = catalogGeneration
      /\ new.branch = b /\ new.page = page
  BY <1>6, <1>8 DEF AuditTasks, UnreadTasks
<1> HIDE DEF new
<1>10. branchStates'[b] = next /\ \A c \in Branches \ {b} :
           branchStates'[c] = branchStates[c]
  BY <1>1, <1>7, AuditTypesAre
<1>11. \A task \in auditTasks : task \in AuditTasks /\ (task.is = "page" =>
           task.branch \in Branches /\ task.generation \in Nat)
  BY <1>1, AuditTypesAre, TasksAre
<1>12. \A task \in auditTasks : (task.is = "page" /\ task.visit = catalogGeneration
                                 /\ task.branch = b) => task.generation < next.generation
  <2> SUFFICES ASSUME NEW task \in auditTasks, task.is = "page",
                      task.visit = catalogGeneration, task.branch = b
               PROVE  task.generation < next.generation
    OBVIOUS
  <2>1. old # Audit!NoState /\ task.generation <= old.generation
    BY <1>1, <1>3 DEF TasksFollowStates
  <2>2. task.generation <= state.generation /\ task.generation \in Nat
    BY <1>4, <1>11, <2>1
  <2> QED
    BY ONLY <1>6, <2>2
<1>13. AuditTypes'
  <2>1. branchStates' \in [Branches -> FullStates \cup {Audit!NoState}]
    BY <1>1, <1>7, AuditTypesAre
  <2>2. auditTasks' \subseteq AuditTasks
    BY <1>7, <1>9, <1>11
  <2>3. auditCount' \in [catalogs : 0..MaxCatalogLoads, pages : 0..MaxPageLoads]
    BY <1>1, CountsAre DEF Audit!StartPageLoad
  <2> QED
    BY <1>1, <1>7, <2>1, <2>2, <2>3, AuditTypesAre, AuditTypesNext
<1>14. TasksFollowStates'
  <2> SUFFICES ASSUME NEW task \in auditTasks', task.is = "page"
               PROVE  /\ task.visit <= catalogGeneration
                      /\ task.visit = catalogGeneration =>
                            /\ branchStates'[task.branch] # Audit!NoState
                            /\ task.generation <= branchStates'[task.branch].generation
    BY <1>7 DEF TasksFollowStates
  <2>1. CASE task = new
    BY <1>6, <1>8, <1>9, <1>10, <2>1
  <2>2. CASE task \in auditTasks
    <3>1. /\ task.visit <= catalogGeneration
          /\ task.visit = catalogGeneration =>
                /\ branchStates[task.branch] # Audit!NoState
                /\ task.generation <= branchStates[task.branch].generation
      BY <1>1, <2>2 DEF TasksFollowStates
    <3>2. CASE task.branch = b
      <4>1. task.visit = catalogGeneration => task.generation <= next.generation
        BY <1>6, <1>11, <1>12, <2>2, <3>2
      <4> QED
        BY <1>6, <1>10, <3>1, <3>2, <4>1
    <3>3. CASE task.branch # b
      BY <1>10, <1>11, <2>2, <3>1, <3>3
    <3> QED
      BY <3>2, <3>3
  <2> QED
    BY <1>7, <2>1, <2>2
<1>15. TasksDiffer'
  <2> SUFFICES ASSUME NEW s \in auditTasks', NEW t \in auditTasks', s.is = "page",
                      t.is = "page", s.branch = t.branch, s.visit = t.visit,
                      s.generation = t.generation, s # t
               PROVE  FALSE
    BY DEF TasksDiffer
  <2>1. \A task \in auditTasks : ~(/\ task.is = "page" /\ task.branch = b
                                   /\ task.visit = catalogGeneration
                                   /\ task.generation = next.generation)
    BY <1>6, <1>11, <1>12
  <2>2. ~(s \in auditTasks /\ t \in auditTasks)
    BY <1>1 DEF TasksDiffer
  <2> QED
    BY <1>7, <1>9, <2>1, <2>2
<1>16. StatesAreSound'
  <2> SUFFICES ASSUME NEW c \in
      Branches \ (grown \cup mixed), branchStates'[c] # Audit!NoState
               PROVE  StateIsSound(c)'
    BY <1>7 DEF StatesAreSound
  <2>1. CASE c # b
    <3>1. StateIsSound(c) /\ branchStates'[c] = branchStates[c]
      BY <1>1, <1>10, <2>1 DEF StatesAreSound
    <3> QED
      BY <1>7, <3>1 DEF StateIsSound, Audit!NewestCommits
  <2>2. CASE c = b
    <3>1. Audit!NewestCommits(b, 0) = <<>> /\ 0 * PageSize = 0
      BY <1>1, AuditTypesAre, PageContinues, Products DEF AuditBounds
    <3>2. CASE append /\ old # Audit!NoState
      <4>1. StateIsSound(b)
        BY <1>1, <1>3, <2>2, <3>2 DEF StatesAreSound
      <4>2. /\ next.commits = branchStates[b].commits
            /\ next.nextPage = branchStates[b].nextPage
            /\ next.loadedOnce = branchStates[b].loadedOnce
            /\ next.hasMore = branchStates[b].hasMore
        BY <1>3, <1>4, <1>6, <3>2
      <4> QED
        BY <1>7, <1>10, <2>2, <4>1, <4>2 DEF StateIsSound, Audit!NewestCommits
    <3>3. CASE ~append \/ old = Audit!NoState
      <4>1. next.commits = <<>> /\ next.nextPage = 0 /\ next.loadedOnce = FALSE
        BY <1>4, <1>6, <3>3, NewStateIs
      <4>2. /\ branchStates'[b].commits = <<>> /\ branchStates'[b].loadedOnce = FALSE
            /\ branchStates'[b].nextPage = 0 /\ branchStates'[b].nextPage * PageSize = 0
        BY <1>10, <3>1, <4>1
      <4>3. [i \in 1..(IF 0 < log'[b] THEN 0 ELSE log'[b]) |-> log'[b] - i + 1] = <<>>
        BY <1>7, <3>1 DEF Audit!NewestCommits
      <4> QED
        BY <2>2, <4>2, <4>3 DEF StateIsSound, Audit!NewestCommits
    <3> QED
      BY <3>2, <3>3
  <2> QED
    BY <2>1, <2>2
<1>17. TasksAreSound'
  <2> SUFFICES ASSUME NEW task \in auditTasks', IsDue(task)'
               PROVE  TaskIsSound(task)'
    BY DEF TasksAreSound
  <2>1. /\ task.is = "page" /\ task.visit = catalogGeneration
        /\ task.branch \notin grown \cup mixed
        /\ task.generation = branchStates'[task.branch].generation
    BY <1>7 DEF IsDue
  <2>2. CASE task = new
    <3>1. page = IF append THEN next.nextPage ELSE 0
      BY <1>2, <1>6
    <3> QED
      BY <1>9, <1>10, <2>2, <3>1 DEF TaskIsSound
  <2>3. CASE task \in auditTasks
    <3>1. task.branch # b
      <4> SUFFICES ASSUME task.branch = b PROVE FALSE
        OBVIOUS
      <4>1. task.generation = next.generation
        BY <1>10, <2>1
      <4>2. task.generation < next.generation /\ task.generation \in Nat
        BY <1>11, <1>12, <2>1, <2>3
      <4> QED
        BY ONLY <1>6, <4>1, <4>2
    <3>2. branchStates'[task.branch] = branchStates[task.branch]
      BY <1>10, <1>11, <2>1, <2>3, <3>1
    <3>3. TaskIsSound(task)
      BY <1>1, <2>1, <2>3, <3>2 DEF TasksAreSound, IsDue
    <3> QED
      BY <1>7, <3>2, <3>3 DEF TaskIsSound, Audit!CommitsOfPage, Audit!HasMore
  <2> QED
    BY <1>7, <2>2, <2>3
<1>18. CatalogFits'
  BY <1>1, <1>7 DEF CatalogFits
<1>19. BranchesFit'
  <2> SUFFICES ASSUME NEW c \in
      Branches, branchStates'[c] # Audit!NoState, branchStates'[c].loading
               PROVE  \E task \in auditTasks' :
                          /\ task.is = "page" /\ task.branch = c
                          /\ task.generation = branchStates'[c].generation
    BY DEF BranchesFit
  <2>1. CASE c = b
    BY <1>7, <1>9, <1>10, <2>1
  <2>2. CASE c # b
    BY <1>1, <1>7, <1>10, <2>2 DEF BranchesFit
  <2> QED
    BY <2>1, <2>2
<1>20. Audit!LoadingAuditHasAWorker'
  BY <1>18, <1>19 DEF Audit!LoadingAuditHasAWorker, CatalogFits, BranchesFit
<1> QED
  BY <1>13, <1>14, <1>15, <1>16, <1>17, <1>20 DEF AuditInv

\* A worker that has ended is the task it was, with its answer.
Answers(new, task) ==
    /\ new \in AuditTasks /\ new.is = task.is /\ new.generation = task.generation
    /\ task.is = "page" => /\ new.visit = task.visit /\ new.branch = task.branch
                           /\ new.page = task.page /\ new.append = task.append
    /\ (task.is = "page" /\ new.at = "ok") =>
           /\ new.commits = Audit!CommitsOfPage(task.branch, task.page)
           /\ new.hasMore = Audit!HasMore(task.branch, task.page)

LEMMA AnswerIs ==
    ASSUME AuditBounds, AuditTypes, NEW task \in auditTasks, Audit!RunAuditTask(task)
    PROVE  \E new \in AuditTasks :
               /\ Answers(new, task) /\ auditTasks' = (auditTasks \ {task}) \cup {new}
<1>1. /\ task \in AuditTasks /\ task.at = "running" /\ log \in [Branches -> 0..MaxCommits]
      /\ task.is \in {"catalog", "page"}
  BY AuditTypesAre, TasksAre DEF Audit!RunAuditTask
<1>2. task \in CatalogTasks \/ task \in UnreadTasks
  BY <1>1, TasksAre
<1>3. ASSUME NEW outcome \in {"error", "lost"},
             auditTasks' = (auditTasks \ {task}) \cup {[task EXCEPT !.at = outcome]}
      PROVE  \E new \in AuditTasks :
                 /\ Answers(new, task) /\ auditTasks' = (auditTasks \ {task}) \cup {new}
  <2> DEFINE new == [task EXCEPT !.at = outcome]
  <2>1. CASE task \in CatalogTasks
    <3>1. new \in CatalogTasks /\ new.is = task.is /\ new.generation = task.generation
          /\ task.is = "catalog"
      BY ONLY <2>1, outcome \in {"error", "lost"} DEF CatalogTasks
    <3> HIDE DEF new
    <3>2. new \in AuditTasks
      BY <3>1 DEF AuditTasks
    <3> QED
      BY <1>3, <3>1, <3>2 DEF Answers, new
  <2>2. CASE task \in UnreadTasks
    <3>1. new \in UnreadTasks /\ new.is = task.is /\ new.generation = task.generation
      BY ONLY <2>2, outcome \in {"error", "lost"} DEF UnreadTasks
    <3>2. new.visit = task.visit /\ new.branch = task.branch /\ new.page = task.page
      BY ONLY <2>2 DEF UnreadTasks
    <3>3. new.append = task.append
      BY ONLY <2>2 DEF UnreadTasks
    <3> HIDE DEF new
    <3>4. new \in AuditTasks /\ new.at # "ok"
      BY <3>1 DEF AuditTasks, UnreadTasks
    <3>5. Answers(new, task)
      BY <3>1, <3>2, <3>3, <3>4 DEF Answers
    <3> QED
      BY <1>3, <3>4, <3>5 DEF new
  <2> QED
    BY <1>2, <2>1, <2>2
<1>4. CASE /\ task.is = "catalog"
           /\ auditTasks' = (auditTasks \ {task}) \cup {[task EXCEPT !.at = "ok"]}
  <2> DEFINE new == [task EXCEPT !.at = "ok"]
  <2>1. task \in CatalogTasks
    BY <1>1, <1>4, TasksAre
  <2>2. new \in CatalogTasks /\ new.is = task.is /\ new.generation = task.generation
    BY ONLY <2>1 DEF CatalogTasks
  <2> HIDE DEF new
  <2>3. new \in AuditTasks
    BY <2>2 DEF AuditTasks
  <2>4. Answers(new, task)
    BY <1>4, <2>2, <2>3 DEF Answers
  <2> QED
    BY <1>4, <2>3, <2>4 DEF new
<1>5. CASE /\ task.is = "page"
           /\ auditTasks' = (auditTasks \ {task}) \cup
                 {[is |-> "page", at |-> "ok", generation |-> task.generation,
                   visit |-> task.visit, branch |-> task.branch, page |-> task.page,
                   append |-> task.append,
                   commits |-> Audit!CommitsOfPage(task.branch, task.page),
                   hasMore |-> Audit!HasMore(task.branch, task.page)]}
  <2>1. PICK b \in Branches, page \in Nat, stamp \in Nat, visit \in Nat,
             append \in BOOLEAN :
           /\ b = task.branch /\ page = task.page /\ stamp = task.generation
           /\ visit = task.visit /\ append = task.append
    BY <1>1, <1>5, TasksAre
  <2>2. PICK found \in Seq(Commits), more \in BOOLEAN :
           /\ found = Audit!CommitsOfPage(b, page) /\ more = Audit!HasMore(b, page)
    <3>1. Audit!CommitsOfPage(b, page) \in Seq(Commits)
      BY <1>1, PageContinues
    <3>2. Audit!HasMore(b, page) \in BOOLEAN
      <4>1. PICK m \in Nat, n \in Nat : m = log[b] /\ n = (page + 1) * PageSize
        BY <1>1, Products DEF AuditBounds
      <4>2. (m > n) \in BOOLEAN
        OBVIOUS
      <4> QED
        BY ONLY <4>1, <4>2 DEF Audit!HasMore
    <3>3. PICK more \in BOOLEAN : more = Audit!HasMore(b, page)
      BY <3>2
    <3> QED
      BY <3>1, <3>3
  <2> DEFINE new == [is |-> "page", at |-> "ok", generation |-> stamp, visit |-> visit,
                     branch |-> b, page |-> page, append |-> append, commits |-> found,
                     hasMore |-> more]
  <2>3. new \in ReadTasks
    BY DEF ReadTasks
  <2>4. /\ new.is = "page" /\ new.at = "ok" /\ new.generation = stamp
        /\ new.visit = visit /\ new.branch = b /\ new.page = page /\ new.append = append
        /\ new.commits = found /\ new.hasMore = more
    OBVIOUS
  <2>5. auditTasks' = (auditTasks \ {task}) \cup {new}
    BY <1>5, <2>1, <2>2
  <2> HIDE DEF new
  <2>6. new \in AuditTasks
    BY <2>3 DEF AuditTasks
  <2>7. Answers(new, task)
    BY <1>5, <2>1, <2>2, <2>4, <2>6 DEF Answers
  <2> QED
    BY <2>5, <2>6, <2>7
<1> QED
  BY <1>1, <1>3, <1>4, <1>5 DEF Audit!RunAuditTask

LEMMA RunStep ==
    ASSUME AuditBounds, AuditInv, NEW task \in auditTasks, Audit!RunAuditTask(task)
    PROVE  AuditInv'
<1>1. /\ AuditTypes /\ TasksFollowStates /\ TasksDiffer /\ StatesAreSound /\ TasksAreSound
      /\ CatalogFits /\ BranchesFit
  BY AllFit DEF AuditInv
<1>2. PICK new \in AuditTasks :
         Answers(new, task) /\ auditTasks' = (auditTasks \ {task}) \cup {new}
  BY <1>1, AnswerIs
<1>3. UNCHANGED <<inStack, catalogGeneration, catalog, branchStates, log, grown, mixed,
                  auditCount>>
  BY DEF Audit!RunAuditTask
<1>4. /\ new.is = task.is /\ new.generation = task.generation
      /\ task.is = "page" => /\ new.visit = task.visit /\ new.branch = task.branch
                             /\ new.page = task.page /\ new.append = task.append
      /\ (task.is = "page" /\ new.at = "ok") =>
             /\ new.commits = Audit!CommitsOfPage(task.branch, task.page)
             /\ new.hasMore = Audit!HasMore(task.branch, task.page)
  BY <1>2 DEF Answers
<1>5. AuditTypes'
  <2>1. auditTasks' \subseteq AuditTasks
    BY <1>1, <1>2, AuditTypesAre
  <2> QED
    BY <1>1, <1>3, <2>1, AuditTypesAre, AuditTypesNext
<1>6. TasksFollowStates'
  BY <1>1, <1>2, <1>3, <1>4 DEF TasksFollowStates
<1>7. TasksDiffer'
  BY <1>1, <1>2, <1>4 DEF TasksDiffer
<1>8. StatesAreSound'
  BY <1>1, <1>3 DEF StatesAreSound, StateIsSound, Audit!NewestCommits
<1>9. TasksAreSound'
  <2> SUFFICES ASSUME NEW other \in auditTasks', IsDue(other)'
               PROVE  TaskIsSound(other)'
    BY DEF TasksAreSound
  <2>1. CASE other = new
    <3>1. IsDue(task)
      BY <1>3, <1>4, <2>1 DEF IsDue
    <3>2. TaskIsSound(task) /\ task.is = "page"
      BY <1>1, <3>1 DEF TasksAreSound, IsDue
    <3>3. new.page = IF new.append THEN branchStates[new.branch].nextPage ELSE 0
      BY <1>4, <3>2 DEF TaskIsSound
    <3>4. new.at = "ok" => /\ new.commits = Audit!CommitsOfPage(new.branch, new.page)
                           /\ new.hasMore = Audit!HasMore(new.branch, new.page)
      BY <1>4, <3>2
    <3> QED
      BY <1>3, <2>1, <3>3, <3>4 DEF TaskIsSound, Audit!CommitsOfPage, Audit!HasMore
  <2>2. CASE other \in auditTasks
    <3>1. IsDue(other)
      BY <1>3 DEF IsDue
    <3>2. TaskIsSound(other)
      BY <1>1, <2>2, <3>1 DEF TasksAreSound
    <3> QED
      BY <1>3, <3>2 DEF TaskIsSound, Audit!CommitsOfPage, Audit!HasMore
  <2> QED
    BY <1>2, <2>1, <2>2
<1>10. CatalogFits'
  BY <1>1, <1>2, <1>3, <1>4 DEF CatalogFits
<1>11. BranchesFit'
  BY <1>1, <1>2, <1>3, <1>4 DEF BranchesFit
<1>12. Audit!LoadingAuditHasAWorker'
  BY <1>10, <1>11 DEF Audit!LoadingAuditHasAWorker, CatalogFits, BranchesFit
<1> QED
  BY <1>5, <1>6, <1>7, <1>8, <1>9, <1>12 DEF AuditInv

\* An answer that changes nothing but that it is handled.
LEMMA HandledStep ==
    ASSUME AuditBounds, AuditInv, NEW task \in auditTasks,
           auditTasks' =
               auditTasks \ {task}, catalog' \in {"none", "loading", "ok", "error"},
           task.is = "catalog" \/ ~Audit!IsForState(task),
           catalog' = "loading" =>
               /\ catalog = "loading"
               /\ task.is # "catalog" \/ task.generation # catalogGeneration,
           UNCHANGED <<inStack, catalogGeneration, branchStates, log, grown, mixed,
                       auditCount>>
    PROVE  AuditInv'
<1>1. /\ AuditTypes /\ TasksFollowStates /\ TasksDiffer /\ StatesAreSound /\ TasksAreSound
      /\ CatalogFits /\ BranchesFit
  BY AllFit DEF AuditInv
<1>2. AuditTypes'
  BY <1>1, AuditTypesAre, AuditTypesNext
<1>3. TasksFollowStates' /\ TasksDiffer'
  BY <1>1 DEF TasksFollowStates, TasksDiffer
<1>4. StatesAreSound'
  BY <1>1 DEF StatesAreSound, StateIsSound, Audit!NewestCommits
<1>5. TasksAreSound'
  <2> SUFFICES ASSUME NEW other \in auditTasks', IsDue(other)'
               PROVE  TaskIsSound(other)'
    BY DEF TasksAreSound
  <2>1. TaskIsSound(other)
    BY <1>1 DEF TasksAreSound, IsDue
  <2> QED
    BY <2>1 DEF TaskIsSound, Audit!CommitsOfPage, Audit!HasMore
<1>6. CatalogFits'
  BY <1>1 DEF CatalogFits
<1>7. BranchesFit'
  BY <1>1 DEF BranchesFit, Audit!IsForState
<1>8. Audit!LoadingAuditHasAWorker'
  BY <1>6, <1>7 DEF Audit!LoadingAuditHasAWorker, CatalogFits, BranchesFit
<1> QED
  BY <1>2, <1>3, <1>4, <1>5, <1>8 DEF AuditInv

\* The state of a branch when the answer for it was handled.
HandledState(state, task) ==
    IF task.at = "ok" THEN Audit!PageAdded(state, task)
    ELSE [state EXCEPT !.loading = FALSE, !.failed = TRUE]

LEMMA HandledStateIs ==
    ASSUME NEW state \in FullStates, NEW task \in AuditTasks, task.is = "page"
    PROVE  LET next == HandledState(state, task)
           IN  /\ next \in FullStates /\ next.generation = state.generation
               /\ next.loading = FALSE
               /\ task.at # "ok" => /\ next.commits = state.commits
                                    /\ next.nextPage = state.nextPage
                                    /\ next.loadedOnce = state.loadedOnce
                                    /\ next.hasMore = state.hasMore
               /\ task.at = "ok" =>
                     /\ next.commits = IF task.append THEN state.commits \o task.commits
                                       ELSE task.commits
                     /\ next.nextPage = task.page + 1 /\ next.loadedOnce = TRUE
                     /\ next.hasMore = task.hasMore
<1>1. CASE task.at # "ok"
  <2>1. HandledState(state, task) = [state EXCEPT !.loading = FALSE, !.failed = TRUE]
    BY <1>1 DEF HandledState
  <2> DEFINE next == [state EXCEPT !.loading = FALSE, !.failed = TRUE]
  <2>2. next \in FullStates
    BY ONLY state \in FullStates DEF FullStates
  <2>3. next.generation = state.generation /\ next.loading = FALSE
    BY ONLY state \in FullStates DEF FullStates
  <2>4. next.commits = state.commits /\ next.nextPage = state.nextPage
    BY ONLY state \in FullStates DEF FullStates
  <2>5. next.loadedOnce = state.loadedOnce
    BY ONLY state \in FullStates DEF FullStates
  <2>6. next.hasMore = state.hasMore
    BY ONLY state \in FullStates DEF FullStates
  <2> HIDE DEF next
  <2>7. HandledState(state, task) = next
    BY <2>1 DEF next
  <2> QED
    BY <1>1, <2>2, <2>3, <2>4, <2>5, <2>6, <2>7
<1>2. CASE task.at = "ok"
  <2>1. PICK found \in Seq(Commits), more \in BOOLEAN, page \in Nat :
           /\ found = IF task.append THEN state.commits \o task.commits ELSE task.commits
           /\ more = task.hasMore /\ page = task.page + 1
    <3>1. task.commits \in Seq(Commits) /\ task.hasMore \in BOOLEAN /\ task.page + 1 \in Nat
      BY <1>2, TasksAre
    <3>2. state.commits \in Seq(Commits)
      BY DEF FullStates
    <3>3. state.commits \o task.commits \in Seq(Commits)
      BY <3>1, <3>2, ConcatProperties
    <3> QED
      BY <3>1, <3>3
  <2> DEFINE next == [state EXCEPT !.loading = FALSE, !.loadedOnce = TRUE, !.failed = FALSE,
                                   !.hasMore = more, !.nextPage = page, !.commits = found]
  <2>2. HandledState(state, task) = next
    BY <1>2, <2>1 DEF HandledState, Audit!PageAdded
  <2>3. next \in FullStates
    BY ONLY state \in FullStates, more \in BOOLEAN, page \in Nat, found \in Seq(Commits)
       DEF FullStates
  <2>4. next.generation = state.generation /\ next.commits = found /\ next.nextPage = page
    BY ONLY state \in FullStates DEF FullStates
  <2>5. next.loading = FALSE /\ next.loadedOnce = TRUE
    BY ONLY state \in FullStates DEF FullStates
  <2>6. next.hasMore = more
    BY ONLY state \in FullStates DEF FullStates
  <2> HIDE DEF next
  <2> QED
    BY <1>2, <2>1, <2>2, <2>3, <2>4, <2>5, <2>6
<1> QED
  BY <1>1, <1>2

LEMMA PageStep ==
    ASSUME AuditBounds, AuditInv, NEW task \in auditTasks, task.is =
           "page", Audit!IsForState(task),
           auditTasks' = auditTasks \ {task},
           branchStates' = [branchStates EXCEPT ![task.branch] =
                               HandledState(branchStates[task.branch], task)],
           mixed' = IF task.visit # catalogGeneration THEN mixed \cup {task.branch} ELSE
               mixed,
           UNCHANGED <<inStack, catalogGeneration, catalog, log, grown, auditCount>>
    PROVE  AuditInv'
<1>1. /\ AuditTypes /\ TasksFollowStates /\ TasksDiffer /\ StatesAreSound /\ TasksAreSound
      /\ CatalogFits /\ BranchesFit
  BY AllFit DEF AuditInv
<1>2. task \in AuditTasks /\ log \in [Branches -> 0..MaxCommits] /\ mixed \subseteq Branches
  BY <1>1, AuditTypesAre
<1>3. PICK b \in Branches : b = task.branch
  BY <1>2, TasksAre
<1>4. branchStates[b] # Audit!NoState /\ branchStates[b].generation = task.generation
  BY <1>3 DEF Audit!IsForState
<1>5. PICK state \in FullStates : state = branchStates[b]
  BY <1>1, <1>4, StateOfIs
<1>6. PICK next \in FullStates : next = HandledState(state, task)
  BY <1>2, HandledStateIs
<1>7. /\ next.generation = state.generation /\ next.loading = FALSE /\ next # Audit!NoState
      /\ task.at # "ok" => /\ next.commits = state.commits /\ next.nextPage = state.nextPage
                           /\ next.loadedOnce = state.loadedOnce
                           /\ next.hasMore = state.hasMore
      /\ task.at = "ok" =>
            /\ next.commits = IF task.append THEN state.commits \o task.commits
                              ELSE task.commits
            /\ next.nextPage = task.page + 1 /\ next.loadedOnce = TRUE
            /\ next.hasMore = task.hasMore
  BY <1>2, <1>6, HandledStateIs, StatesDiffer
<1>8. branchStates' = [branchStates EXCEPT ![b] = next]
  BY <1>3, <1>5, <1>6
<1>9. branchStates'[b] = next /\ \A c \in Branches \ {b} :
          branchStates'[c] = branchStates[c]
  BY <1>1, <1>8, AuditTypesAre
<1>10. AuditTypes'
  <2>1. branchStates' \in [Branches -> FullStates \cup {Audit!NoState}]
    BY <1>1, <1>8, AuditTypesAre
  <2>2. mixed' \subseteq Branches
    BY <1>2, <1>3
  <2> QED
    BY <1>1, <2>1, <2>2, AuditTypesAre, AuditTypesNext
<1>11. \A other \in auditTasks : other.is = "page" => other.branch \in Branches
  BY <1>1, AuditTypesAre, TasksAre
<1>12. TasksFollowStates'
  BY <1>1, <1>5, <1>7, <1>9, <1>11 DEF TasksFollowStates
<1>13. TasksDiffer'
  BY <1>1 DEF TasksDiffer
<1>14. \A c \in Branches : c \notin mixed' =>
           c \notin mixed /\ (c = b => task.visit = catalogGeneration)
  BY <1>3
<1>15. StatesAreSound'
  <2> SUFFICES ASSUME NEW c \in
      Branches \ (grown \cup mixed'), branchStates'[c] # Audit!NoState
               PROVE  StateIsSound(c)'
    BY DEF StatesAreSound
  <2>1. CASE c # b
    <3>1. StateIsSound(c) /\ branchStates'[c] = branchStates[c]
      BY <1>1, <1>9, <1>14, <2>1 DEF StatesAreSound
    <3> QED
      BY <3>1 DEF StateIsSound, Audit!NewestCommits
  <2>2. CASE c = b
    <3>1. /\ b \notin grown \cup mixed /\ IsDue(task) /\ StateIsSound(b)
      BY <1>1, <1>3, <1>4, <1>14, <2>2 DEF IsDue, StatesAreSound
    <3>2. TaskIsSound(task)
      BY <1>1, <3>1 DEF TasksAreSound
    <3>3. CASE task.at # "ok"
      <4>1. /\ next.commits = branchStates[b].commits
            /\ next.nextPage = branchStates[b].nextPage
            /\ next.loadedOnce = branchStates[b].loadedOnce
            /\ next.hasMore = branchStates[b].hasMore
        BY <1>5, <1>7, <3>3
      <4> QED
        BY <1>9, <2>2, <3>1, <4>1, ZenonT(40) DEF StateIsSound, Audit!NewestCommits
    <3>4. CASE task.at = "ok"
      <4>1. PICK page \in Nat : page = task.page
        BY <1>2, TasksAre
      <4>2. /\ page = IF task.append THEN state.nextPage ELSE 0
            /\ task.commits = Audit!CommitsOfPage(b, page)
            /\ task.hasMore = Audit!HasMore(b, page)
        BY <1>3, <1>5, <3>2, <3>4, <4>1 DEF TaskIsSound
      <4>3. next.nextPage = page + 1 /\ next.loadedOnce = TRUE
        BY <1>7, <3>4, <4>1
      <4>4. next.hasMore = (log[b] > next.nextPage * PageSize)
        BY <1>7, <3>4, <4>2, <4>3 DEF Audit!HasMore
      <4>5. next.commits = Audit!NewestCommits(b, next.nextPage * PageSize)
        <5>1. CASE task.append
          <6>1. state.commits = Audit!NewestCommits(b, page * PageSize)
            BY <1>5, <3>1, <4>2, <5>1 DEF StateIsSound
          <6>2. next.commits =
                    Audit!NewestCommits(b, page * PageSize) \o Audit!CommitsOfPage(b, page)
            BY <1>7, <3>4, <4>2, <5>1, <6>1
          <6> QED
            BY <1>2, <4>3, <6>2, PageContinues
        <5>2. CASE ~task.append
          <6>1. page = 0 /\ next.commits = Audit!CommitsOfPage(b, page) /\ page + 1 = 1
            BY <1>7, <3>4, <4>2, <5>2
          <6> QED
            BY <1>2, <4>3, <6>1, PageContinues
        <5> QED
          BY <5>1, <5>2
      <4> QED
        BY <1>9, <2>2, <4>3, <4>4, <4>5, ZenonT(40) DEF StateIsSound, Audit!NewestCommits
    <3> QED
      BY <3>3, <3>4
  <2> QED
    BY <2>1, <2>2
<1>16. TasksAreSound'
  <2> SUFFICES ASSUME NEW other \in auditTasks', IsDue(other)'
               PROVE  TaskIsSound(other)'
    BY DEF TasksAreSound
  <2>1. /\ other.is = "page" /\ other.visit = catalogGeneration /\ other \in auditTasks
        /\ other.branch \notin grown \cup mixed' /\ other # task
        /\ other.generation = branchStates'[other.branch].generation
        /\ other.branch \in Branches
    BY <1>11 DEF IsDue
  <2>2. other.branch # b
    <3> SUFFICES ASSUME other.branch = b PROVE FALSE
      OBVIOUS
    <3>1. other.generation = task.generation /\ task.visit = catalogGeneration
      BY <1>4, <1>5, <1>7, <1>9, <1>14, <2>1
    <3> QED
      BY <1>1, <1>3, <2>1, <3>1 DEF TasksDiffer
  <2>3. branchStates'[other.branch] = branchStates[other.branch]
    BY <1>9, <2>1, <2>2
  <2>4. TaskIsSound(other)
    BY <1>1, <1>14, <2>1, <2>3 DEF TasksAreSound, IsDue
  <2> QED
    BY <2>3, <2>4 DEF TaskIsSound, Audit!CommitsOfPage, Audit!HasMore
<1>17. CatalogFits'
  BY <1>1 DEF CatalogFits
<1>18. BranchesFit'
  BY <1>1, <1>3, <1>7, <1>9 DEF BranchesFit
<1>19. Audit!LoadingAuditHasAWorker'
  BY <1>17, <1>18 DEF Audit!LoadingAuditHasAWorker, CatalogFits, BranchesFit
<1> QED
  BY <1>10, <1>12, <1>13, <1>15, <1>16, <1>19 DEF AuditInv

LEMMA HandleStep ==
    ASSUME AuditBounds, AuditInv, NEW task \in auditTasks, Audit!HandleAuditAnswer(task)
    PROVE  AuditInv'
<1>1. /\ UNCHANGED <<inStack, catalogGeneration, log, grown, auditCount>>
      /\ catalog \in {"none", "loading", "ok", "error"}
  BY AuditTypesAre DEF AuditInv, Audit!HandleAuditAnswer
<1>2. CASE Audit!HandleCatalog(task)
  <2>1. catalog' \in {"none", "loading", "ok", "error"}
    BY <1>1, <1>2 DEF Audit!HandleCatalog
  <2> QED
    BY <1>1, <1>2, <2>1, HandledStep DEF Audit!HandleCatalog
<1>3. CASE Audit!HandlePage(task) /\ ~Audit!IsForState(task)
  BY <1>1, <1>3, HandledStep DEF Audit!HandlePage
<1>4. CASE Audit!HandlePage(task) /\ Audit!IsForState(task)
  <2>1. branchStates' = [branchStates EXCEPT ![task.branch] =
                            HandledState(branchStates[task.branch], task)]
    BY <1>4 DEF Audit!HandlePage, HandledState
  <2> QED
    BY <1>1, <1>4, <2>1, PageStep DEF Audit!HandlePage
<1> QED
  BY <1>2, <1>3, <1>4 DEF Audit!HandleAuditAnswer

LEMMA GrowStep ==
    ASSUME AuditBounds, AuditInv, Audit!LogGrows
    PROVE  AuditInv'
<1>1. /\ AuditTypes /\ TasksFollowStates /\ TasksDiffer /\ StatesAreSound /\ TasksAreSound
      /\ Audit!LoadingAuditHasAWorker
      /\ UNCHANGED <<inStack, catalogGeneration, catalog, branchStates, auditTasks, mixed,
                     auditCount>>
  BY DEF AuditInv, Audit!LogGrows
<1>2. PICK b \in Branches :
         /\ log[b] < MaxCommits /\ log' = [log EXCEPT ![b] = log[b] + 1]
         /\ grown' = IF branchStates[b] # Audit!NoState THEN grown \cup {b} ELSE grown
  BY DEF Audit!LogGrows
<1>3. log' \in [Branches -> 0..MaxCommits] /\ \A c \in Branches \ {b} : log'[c] = log[c]
  <2>1. log \in [Branches -> 0..MaxCommits] /\ log[b] + 1 \in 0..MaxCommits
    BY <1>1, <1>2, AuditTypesAre DEF AuditBounds
  <2> QED
    BY <1>2, <2>1
<1>4. grown' \subseteq Branches /\ grown \subseteq grown'
      /\ (branchStates[b] # Audit!NoState => b \in grown')
  BY <1>1, <1>2, AuditTypesAre
<1>5. AuditTypes'
  BY <1>1, <1>3, <1>4, AuditTypesAre, AuditTypesNext
<1>6. TasksFollowStates' /\ TasksDiffer' /\ Audit!LoadingAuditHasAWorker'
  BY <1>1 DEF TasksFollowStates, TasksDiffer, Audit!LoadingAuditHasAWorker
<1>7. StatesAreSound'
  <2> SUFFICES ASSUME NEW c \in
      Branches \ (grown' \cup mixed), branchStates[c] # Audit!NoState
               PROVE  StateIsSound(c)'
    BY <1>1 DEF StatesAreSound
  <2>1. c # b /\ StateIsSound(c)
    BY <1>1, <1>4 DEF StatesAreSound
  <2>2. log'[c] = log[c]
    BY <1>3, <2>1
  <2> QED
    BY <1>1, <2>1, <2>2 DEF StateIsSound, Audit!NewestCommits
<1>8. TasksAreSound'
  <2> SUFFICES ASSUME NEW task \in auditTasks, IsDue(task)'
               PROVE  TaskIsSound(task)'
    BY <1>1 DEF TasksAreSound
  <2>1. IsDue(task) /\ task.branch \notin grown'
    BY <1>1, <1>4 DEF IsDue
  <2>2. branchStates[task.branch] # Audit!NoState /\ task.branch \in Branches
    BY <1>1, <2>1, AuditTypesAre, TasksAre DEF TasksFollowStates, IsDue
  <2>3. task.branch # b /\ log'[task.branch] = log[task.branch]
    BY <1>3, <1>4, <2>1, <2>2
  <2>4. TaskIsSound(task)
    BY <1>1, <2>1 DEF TasksAreSound
  <2> QED
    BY <1>1, <2>3, <2>4 DEF TaskIsSound, Audit!CommitsOfPage, Audit!HasMore
<1> QED
  BY <1>1, <1>5, <1>6, <1>7, <1>8 DEF AuditInv

LEMMA AuditStarts ==
    ASSUME AuditBounds, Audit!Init
    PROVE  AuditInv
<1>1. auditTasks = {} /\ branchStates = [b \in Branches |-> Audit!NoState]
  BY DEF Audit!Init
<1>2. AuditTypes
  <2>1. auditCount \in [catalogs : 0..MaxCatalogLoads, pages : 0..MaxPageLoads]
    BY DEF Audit!Init, AuditBounds
  <2> QED
    BY <1>1, <2>1 DEF Audit!Init, AuditTypes, Audit!TypeOK
<1> QED
  BY <1>1, <1>2 DEF Audit!Init, AuditInv, TasksFollowStates, TasksDiffer, StatesAreSound,
     TasksAreSound, Audit!LoadingAuditHasAWorker

LEMMA AuditStep ==
    ASSUME AuditBounds, AuditInv, Audit!Next
    PROVE  AuditInv'
<1>1. ASSUME NEW b \in Branches, Audit!LoadBranchIfNeeded(b)
      PROVE  AuditInv'
  <2>1. PICK append \in BOOLEAN, page \in Nat :
           ~append /\ page = 0 /\ Audit!StartPageLoad(b, page, append)
    BY <1>1 DEF Audit!LoadBranchIfNeeded
  <2> QED
    BY <2>1, LoadStep
<1>2. ASSUME NEW b \in Branches, Audit!LoadMore(b)
      PROVE  AuditInv'
  <2>1. Audit!StateOf(b).nextPage \in Nat
    BY StateOfIs DEF AuditInv, FullStates
  <2>2. PICK append \in BOOLEAN, page \in Nat :
           append /\ page =
               Audit!StateOf(b).nextPage /\ Audit!StartPageLoad(b, page, append)
    BY <1>2, <2>1 DEF Audit!LoadMore
  <2> QED
    BY <2>2, LoadStep
<1> QED
  BY <1>1, <1>2, PrepareStep, ClearStep, RunStep, HandleStep, GrowStep DEF Audit!Next

LEMMA AuditStays ==
    ASSUME AuditInv, UNCHANGED Audit!auditVars
    PROVE  AuditInv'
<1>1. UNCHANGED <<inStack, catalogGeneration, catalog, branchStates, auditTasks, log, grown,
                  mixed, auditCount>>
  BY DEF Audit!auditVars
<1>2. AuditTypes'
  BY <1>1, AuditTypesAre, AuditTypesNext DEF AuditInv
<1> QED
  BY <1>1, <1>2
     DEF AuditInv, TasksFollowStates, TasksDiffer, StatesAreSound, StateIsSound,
         Audit!NewestCommits, TasksAreSound, IsDue, TaskIsSound, Audit!CommitsOfPage,
         Audit!HasMore,
         Audit!LoadingAuditHasAWorker

LEMMA AuditIs ==
    ASSUME AuditInv
    PROVE  Audit!TypeOK /\ Audit!CommitsAreTheLog /\ Audit!LoadingAuditHasAWorker
BY DEF AuditInv, AuditTypes, StatesAreSound, StateIsSound, Audit!CommitsAreTheLog

-----------------------------------------------------------------------------
(* The tools over the list *)

ToolBounds == MaxMoves \in Nat /\ MaxReloads \in Nat /\ MaxLocked \in Nat

FieldsRecords ==
    [generation : Nat, busy : BOOLEAN, source : 0..(MaxReloads + 1), shown :
     SUBSET Tools!Rows,
     partial : BOOLEAN]
WeakRecords == [generation : Nat, busy : BOOLEAN, shown : SUBSET Tools!Rows]
Lists == [load : 1..(MaxReloads + 1), rows : Tools!Rows]
ToolNames == {"fields", "weak", "export"}

\* The type invariant, and all that the two records hold.
ToolTypes ==
    /\ list \in Lists
    /\ toolPage \in {"list", "tools", "fields", "weak", "entry"}
    /\ fields \in FieldsRecords /\ weak \in WeakRecords
    /\ exporting \in BOOLEAN /\ asking \in BOOLEAN
    /\ toolTasks \subseteq Tools!ToolTasks
    /\ moves \in 0..MaxMoves

Uses(tool) == {task \in toolTasks : task.tool = tool}

\* The browser's uses: at most one is current, it is under way while the browser
\* is busy, and it has all entries if it counts as of the list as it is.
FieldsFit ==
    /\ \A task \in Uses("fields") : task.generation <= fields.generation
    /\ \A s, t \in Uses("fields") :
          (s.generation = fields.generation /\ t.generation = fields.generation) => s = t
    /\ fields.busy <=> (\E task \in Uses("fields") : task.generation = fields.generation)
    /\ fields.source <= list.load
    /\ (fields.source = list.load /\ ~fields.partial) =>
          \A task \in Uses("fields") :
              task.generation = fields.generation => task.requests = ToolEntries
    /\ (fields.source = list.load /\ ~fields.partial) =>
          fields.shown \in {Tools!Nothing, {ToolEntries}}

WeakFits ==
    /\ \A task \in Uses("weak") : task.generation <= weak.generation
    /\ \A s, t \in Uses("weak") :
          (s.generation = weak.generation /\ t.generation = weak.generation) => s = t
    /\ weak.busy <=> (\E task \in Uses("weak") : task.generation = weak.generation)
    /\ weak.busy => weak.shown = Tools!Nothing

ExportFits ==
    /\ exporting <=> (Uses("export") # {})
    /\ \A s, t \in Uses("export") : s = t

OneIsBusy ==
    ~(fields.busy /\ weak.busy) /\ ~(exporting /\ fields.busy) /\ ~(exporting /\ weak.busy)

ToolInv == ToolTypes /\ FieldsFit /\ WeakFits /\ ExportFits /\ OneIsBusy

-----------------------------------------------------------------------------
(* What the records are *)

LEMMA FieldsAre ==
    ASSUME fields \in FieldsRecords
    PROVE  /\ fields.generation \in Nat /\ fields.busy \in BOOLEAN
           /\ fields.source \in 0..(MaxReloads + 1) /\ fields.shown \in SUBSET Tools!Rows
           /\ fields.partial \in BOOLEAN
BY DEF FieldsRecords

LEMMA WeakIs ==
    ASSUME weak \in WeakRecords
    PROVE  /\ weak.generation \in Nat /\ weak.busy \in BOOLEAN
           /\ weak.shown \in SUBSET Tools!Rows
BY DEF WeakRecords

LEMMA UseIs ==
    ASSUME NEW task \in Tools!ToolTasks
    PROVE  /\ task.tool \in ToolNames /\ task.generation \in Nat
           /\ task.requests \in Tools!Rows
           /\ task.at \in {"locks", "prompt", "reading", "read", "lost"}
           /\ task.left \in 0..MaxLocked
BY DEF Tools!ToolTasks, ToolNames

LEMMA NothingIs ==
    /\ Tools!Nothing \in SUBSET Tools!Rows /\ {} \in Tools!Rows
    /\ ToolEntries \in Tools!Rows
    /\ \A picked \in Tools!Rows : {picked} \in SUBSET Tools!Rows /\ {picked} # Tools!Nothing
BY DEF Tools!Nothing, Tools!Rows

\* A record of the browser as new as another, or newer.
EndedFields(shown) == [fields EXCEPT !.busy = FALSE, !.shown = shown]

LEMMA EndedFieldsAre ==
    ASSUME fields \in FieldsRecords, NEW shown \in SUBSET Tools!Rows
    PROVE  LET ended == EndedFields(shown)
           IN  /\ ended \in FieldsRecords /\ ended.generation = fields.generation
               /\ ended.busy = FALSE /\ ended.source = fields.source /\ ended.shown = shown
               /\ ended.partial = fields.partial
<1>1. EndedFields(shown) \in FieldsRecords
  BY DEF FieldsRecords, EndedFields
<1>2. /\ EndedFields(shown).generation = fields.generation
      /\ EndedFields(shown).busy = FALSE
      /\ EndedFields(shown).source = fields.source /\ EndedFields(shown).shown = shown
  BY DEF FieldsRecords, EndedFields
<1>3. EndedFields(shown).partial = fields.partial
  BY DEF FieldsRecords, EndedFields
<1> QED
  BY <1>1, <1>2, <1>3

LEMMA EndedBusyFields ==
    ASSUME fields \in FieldsRecords
    PROVE  [fields EXCEPT !.busy = FALSE] = EndedFields(fields.shown)
BY DEF FieldsRecords, EndedFields

EndedWeak(shown) == [weak EXCEPT !.busy = FALSE, !.shown = shown]

LEMMA EndedWeakIs ==
    ASSUME weak \in WeakRecords, NEW shown \in SUBSET Tools!Rows
    PROVE  LET ended == EndedWeak(shown)
           IN  /\ ended \in WeakRecords /\ ended.generation = weak.generation
               /\ ended.busy = FALSE /\ ended.shown = shown
BY DEF WeakRecords, EndedWeak

LEMMA EndedBusyWeak ==
    ASSUME weak \in WeakRecords
    PROVE  [weak EXCEPT !.busy = FALSE] = EndedWeak(weak.shown)
BY DEF WeakRecords, EndedWeak

LEMMA InvalidatedIs ==
    ASSUME ToolBounds, fields \in FieldsRecords
    PROVE  /\ Tools!Invalidated \in FieldsRecords /\ Tools!Invalidated.generation \in Nat
           /\ \/ Tools!Invalidated = fields
              \/ /\ Tools!Invalidated.generation =
                  fields.generation + 1 /\ Tools!Invalidated.source = 0
                 /\ Tools!Invalidated.busy = FALSE
                 /\ Tools!Invalidated.shown = Tools!Nothing
           /\ ~fields.busy => ~Tools!Invalidated.busy
           /\ Tools!Invalidated.generation >= fields.generation
<1>1. CASE fields.source = list.load
  BY <1>1, FieldsAre DEF Tools!Invalidated
<1>2. CASE fields.source # list.load
  <2>1. PICK next \in Nat : next = fields.generation + 1
    BY FieldsAre
  <2> DEFINE new ==
      [generation |-> next, busy |-> FALSE, source |-> 0, shown |-> Tools!Nothing,
                     partial |-> FALSE]
  <2>2. Tools!Invalidated = new
    BY <1>2, <2>1 DEF Tools!Invalidated
  <2>3. 0 \in 0..(MaxReloads + 1)
    BY DEF ToolBounds
  <2>4. new \in FieldsRecords
    BY <2>3, NothingIs DEF FieldsRecords
  <2>5. /\ new.generation = next /\ new.source = 0 /\ new.busy = FALSE
        /\ new.shown = Tools!Nothing
    OBVIOUS
  <2> HIDE DEF new
  <2> QED
    BY <2>1, <2>2, <2>4, <2>5, FieldsAre
<1> QED
  BY <1>1, <1>2

-----------------------------------------------------------------------------
(* What a step may do to each of the tools *)

\* The list only goes on to newer loads.
ListGoesOn == list' \in Lists /\ list'.load >= list.load

LEMMA LoadsAre ==
    ASSUME ToolBounds, ToolTypes, ListGoesOn
    PROVE  list.load \in Nat /\ list'.load \in Nat
BY DEF ToolBounds, ToolTypes, ListGoesOn, Lists

\* Nothing happens to the browser.
LEMMA FieldsStay ==
    ASSUME ToolBounds, ToolTypes, FieldsFit, ListGoesOn, fields' = fields,
           Uses("fields")' = Uses("fields")
    PROVE  FieldsFit'
<1>1. /\ list.load \in Nat /\ list'.load \in Nat /\ list'.load >= list.load
      /\ fields.source \in Nat /\ fields.source <= list.load
  BY LoadsAre, FieldsAre DEF ToolTypes, FieldsFit, ListGoesOn, ToolBounds
<1>2. /\ fields.source <= list'.load
      /\ (fields.source = list'.load => fields.source = list.load)
  BY ONLY <1>1
<1>3. PICK uses : uses = Uses("fields") /\ Uses("fields")' = uses
  OBVIOUS
<1> QED
  BY <1>2, <1>3 DEF FieldsFit

\* A use that is not current ends.
LEMMA FieldsDropOld ==
    ASSUME ToolBounds, ToolTypes, FieldsFit, ListGoesOn, fields' = fields,
           NEW task, task.generation # fields.generation,
           Uses("fields")' = Uses("fields") \ {task}
    PROVE  FieldsFit'
<1>1. /\ list.load \in Nat /\ list'.load \in Nat /\ list'.load >= list.load
      /\ fields.source \in Nat /\ fields.source <= list.load
  BY LoadsAre, FieldsAre DEF ToolTypes, FieldsFit, ListGoesOn, ToolBounds
<1>2. /\ fields.source <= list'.load
      /\ (fields.source = list'.load => fields.source = list.load)
  BY ONLY <1>1
<1>3. PICK uses : uses = Uses("fields") /\ Uses("fields")' = uses \ {task}
  OBVIOUS
<1> QED
  BY <1>2, <1>3 DEF FieldsFit

\* A use goes to its next stage.
LEMMA FieldsGoOn ==
    ASSUME ToolBounds, ToolTypes, FieldsFit, ListGoesOn, fields' = fields,
           NEW task, NEW new, task \in Uses("fields"), new.generation = task.generation,
           new.requests = task.requests, Uses("fields")' =
               (Uses("fields") \ {task}) \cup {new}
    PROVE  FieldsFit'
<1>1. /\ list.load \in Nat /\ list'.load \in Nat /\ list'.load >= list.load
      /\ fields.source \in Nat /\ fields.source <= list.load
  BY LoadsAre, FieldsAre DEF ToolTypes, FieldsFit, ListGoesOn, ToolBounds
<1>2. /\ fields.source <= list'.load
      /\ (fields.source = list'.load => fields.source = list.load)
  BY ONLY <1>1
<1>3. PICK uses : uses = Uses("fields") /\ Uses("fields")' = (uses \ {task}) \cup {new}
                /\ task \in uses
  OBVIOUS
<1> QED
  BY <1>2, <1>3 DEF FieldsFit

\* The current use ends, and with it the browser is busy no longer.
LEMMA FieldsEnd ==
    ASSUME ToolBounds, ToolTypes, FieldsFit, ListGoesOn, NEW shown \in SUBSET Tools!Rows,
           fields' = EndedFields(shown),
           NEW task, task \in Uses("fields"), task.generation = fields.generation,
           shown = fields.shown \/ shown = {task.requests},
           Uses("fields")' = Uses("fields") \ {task}
    PROVE  FieldsFit'
<1>1. /\ list.load \in Nat /\ list'.load \in Nat /\ list'.load >= list.load
      /\ fields.source \in Nat /\ fields.source <= list.load
  BY LoadsAre, FieldsAre DEF ToolTypes, FieldsFit, ListGoesOn, ToolBounds
<1>2. /\ fields.source <= list'.load
      /\ (fields.source = list'.load => fields.source = list.load)
  BY ONLY <1>1
<1>3. PICK uses : uses = Uses("fields") /\ Uses("fields")' = uses \ {task} /\ task \in uses
  OBVIOUS
<1>4. /\ fields'.generation = fields.generation /\ fields'.busy = FALSE
      /\ fields'.source = fields.source /\ fields'.shown = shown
      /\ fields'.partial = fields.partial
  BY EndedFieldsAre DEF ToolTypes
<1>5. /\ \A other \in uses : other.generation <= fields.generation
      /\ \A s, t \in uses :
            (s.generation = fields.generation /\ t.generation = fields.generation) => s = t
  BY <1>3 DEF FieldsFit
<1>6. (fields.source = list.load /\ ~fields.partial) =>
         /\ task.requests = ToolEntries /\ fields.shown \in {Tools!Nothing, {ToolEntries}}
         /\ \A other \in uses :
               other.generation = fields.generation => other.requests = ToolEntries
  BY <1>3 DEF FieldsFit
<1>7. (fields.source = list.load /\ ~fields.partial) =>
          shown \in {Tools!Nothing, {ToolEntries}}
  BY <1>6
<1>8. ~\E other \in uses \ {task} : other.generation = fields.generation
  BY <1>3, <1>5
<1> QED
  BY <1>2, <1>3, <1>4, <1>5, <1>6, <1>7, <1>8 DEF FieldsFit

\* The browser is cleared: no use is current any longer.
LEMMA FieldsCleared ==
    ASSUME ToolBounds, ToolTypes, FieldsFit, list' = list, fields' = Tools!Invalidated,
           Uses("fields")' = Uses("fields")
    PROVE  FieldsFit'
<1>1. list.load \in Nat /\ fields \in FieldsRecords /\ toolTasks \subseteq Tools!ToolTasks
  BY DEF ToolTypes, Lists, ToolBounds
<1>2. CASE Tools!Invalidated = fields
  <2>1. ListGoesOn
    BY <1>1 DEF ListGoesOn, ToolTypes
  <2> QED
    BY <1>2, <2>1, FieldsStay
<1>3. CASE /\ Tools!Invalidated.generation = fields.generation + 1
           /\ Tools!Invalidated.source = 0
           /\ Tools!Invalidated.busy = FALSE /\ Tools!Invalidated.shown = Tools!Nothing
  <2>1. PICK uses : uses = Uses("fields") /\ Uses("fields")' = uses
    OBVIOUS
  <2>2. \A task \in uses : /\ task.generation <= fields'.generation
                           /\ task.generation # fields'.generation
    <3> SUFFICES ASSUME NEW task \in uses
                 PROVE  task.generation <= fields'.generation
                        /\ task.generation # fields'.generation
      OBVIOUS
    <3>1. task.generation \in Nat /\ task.generation <= fields.generation
      BY <1>1, <2>1, UseIs DEF FieldsFit, Uses
    <3>2. fields.generation \in Nat /\ fields'.generation = fields.generation + 1
      BY <1>1, <1>3, FieldsAre
    <3> QED
      BY ONLY <3>1, <3>2
  <2>3. /\ fields'.source = 0 /\ fields'.busy = FALSE /\ fields'.shown = Tools!Nothing
        /\ 0 <= list'.load
    BY <1>1, <1>3
  <2> QED
    BY <2>1, <2>2, <2>3 DEF FieldsFit
<1> QED
  BY <1>1, <1>2, <1>3, InvalidatedIs

\* A use begins, and it is the only current one.
LEMMA FieldsStarted ==
    ASSUME ToolBounds, ToolTypes, FieldsFit, list' = list,
           NEW stamp \in Nat, stamp > fields.generation, NEW partial \in BOOLEAN,
           partial = (list.rows # ToolEntries),
           fields' = [generation |-> stamp, busy |-> TRUE, source |-> list.load,
                      shown |-> Tools!Nothing, partial |-> partial],
           NEW new, new.generation = stamp, new.requests = list.rows,
           Uses("fields")' = Uses("fields") \cup {new}
    PROVE  FieldsFit' /\ fields' \in FieldsRecords
<1>1. /\ list.load \in 1..(MaxReloads + 1) /\ fields \in FieldsRecords
      /\ toolTasks \subseteq Tools!ToolTasks
  BY DEF ToolTypes, Lists
<1>2. PICK uses : uses = Uses("fields") /\ Uses("fields")' = uses \cup {new}
  OBVIOUS
<1>3. \A task \in uses : task.generation \in Nat /\ task.generation < stamp
  <2> SUFFICES ASSUME NEW task \in uses
               PROVE  task.generation \in Nat /\ task.generation < stamp
    OBVIOUS
  <2>1. task.generation \in Nat /\ task.generation <= fields.generation
    BY <1>1, <1>2, UseIs DEF FieldsFit, Uses
  <2>2. fields.generation \in Nat
    BY <1>1, FieldsAre
  <2> QED
    BY ONLY <2>1, <2>2, stamp \in Nat, stamp > fields.generation
<1>4. PICK load \in 1..(MaxReloads + 1) : load = list.load
  BY <1>1
<1>5. /\ fields'.generation = stamp /\ fields'.busy = TRUE /\ fields'.source = load
      /\ fields'.shown = Tools!Nothing /\ fields'.partial = partial
  BY <1>4
<1>6. fields' \in FieldsRecords
  <2>1. load \in 0..(MaxReloads + 1)
    BY DEF ToolBounds
  <2>2. [generation |-> stamp, busy |-> TRUE, source |-> load, shown |-> Tools!Nothing,
         partial |-> partial] \in FieldsRecords
    BY <2>1, NothingIs DEF FieldsRecords
  <2> QED
    BY <1>4, <2>2
<1>7. /\ \A task \in uses \cup {new} : task.generation <= stamp
      /\ \A s, t \in uses \cup {new} :
            (s.generation = stamp /\ t.generation = stamp) => s = t
      /\ \A task \in uses \cup {new} : task.generation = stamp => task = new
      /\ load <= load
  <2>1. \A task \in uses : task.generation <= stamp /\ task.generation # stamp
    BY ONLY <1>3, stamp \in Nat
  <2>2. new.generation <= stamp
    BY ONLY stamp \in Nat, new.generation = stamp
  <2>3. load <= load
    BY DEF ToolBounds
  <2> QED
    BY <2>1, <2>2, <2>3
<1>8. ~partial => new.requests = ToolEntries
  OBVIOUS
<1> QED
  BY <1>2, <1>4, <1>5, <1>6, <1>7, <1>8 DEF FieldsFit

LEMMA WeakStays ==
    ASSUME WeakFits, weak' = weak, Uses("weak")' = Uses("weak")
    PROVE  WeakFits'
<1>1. PICK uses : uses = Uses("weak") /\ Uses("weak")' = uses
  OBVIOUS
<1> QED
  BY <1>1 DEF WeakFits

LEMMA WeakDropsOld ==
    ASSUME WeakFits, weak' = weak, NEW task, task.generation # weak.generation,
           Uses("weak")' = Uses("weak") \ {task}
    PROVE  WeakFits'
<1>1. PICK uses : uses = Uses("weak") /\ Uses("weak")' = uses \ {task}
  OBVIOUS
<1> QED
  BY <1>1 DEF WeakFits

LEMMA WeakGoesOn ==
    ASSUME WeakFits, weak' = weak, NEW task, NEW new, task \in Uses("weak"),
           new.generation = task.generation, Uses("weak")' =
               (Uses("weak") \ {task}) \cup {new}
    PROVE  WeakFits'
<1>1. PICK uses : uses = Uses("weak") /\ Uses("weak")' = (uses \ {task}) \cup {new}
                /\ task \in uses
  OBVIOUS
<1> QED
  BY <1>1 DEF WeakFits

LEMMA WeakEnds ==
    ASSUME ToolTypes, WeakFits, NEW shown \in SUBSET Tools!Rows, weak' = EndedWeak(shown),
           NEW task, task \in Uses("weak"), task.generation = weak.generation,
           Uses("weak")' = Uses("weak") \ {task}
    PROVE  WeakFits'
<1>1. PICK uses : uses = Uses("weak") /\ Uses("weak")' = uses \ {task} /\ task \in uses
  OBVIOUS
<1>2. weak'.generation = weak.generation /\ weak'.busy = FALSE
  BY EndedWeakIs DEF ToolTypes
<1>3. ~\E other \in uses \ {task} : other.generation = weak.generation
  BY <1>1 DEF WeakFits
<1> QED
  BY <1>1, <1>2, <1>3 DEF WeakFits

\* The next run of the scan: no earlier use is current.
LEMMA WeakForgotten ==
    ASSUME ToolTypes, WeakFits, weak'.generation = weak.generation + 1, weak'.busy = FALSE,
           Uses("weak")' = Uses("weak")
    PROVE  WeakFits'
<1>1. PICK uses : uses = Uses("weak") /\ Uses("weak")' = uses
  OBVIOUS
<1>2. \A task \in uses : /\ task.generation <= weak'.generation
                         /\ task.generation # weak'.generation
  <2> SUFFICES ASSUME NEW task \in uses
               PROVE  task.generation <= weak'.generation
                      /\ task.generation # weak'.generation
    OBVIOUS
  <2>1. task.generation \in Nat /\ task.generation <= weak.generation
    BY <1>1, UseIs DEF WeakFits, Uses, ToolTypes
  <2>2. weak.generation \in Nat
    BY WeakIs DEF ToolTypes
  <2> QED
    BY ONLY <2>1, <2>2, weak'.generation = weak.generation + 1
<1> QED
  BY <1>1, <1>2 DEF WeakFits

LEMMA WeakStarted ==
    ASSUME ToolTypes, WeakFits, weak'.generation = weak.generation + 1, weak'.busy = TRUE,
           weak'.shown = Tools!Nothing, NEW new, new.generation = weak.generation + 1,
           Uses("weak")' = Uses("weak") \cup {new}
    PROVE  WeakFits'
<1>1. PICK uses : uses = Uses("weak") /\ Uses("weak")' = uses \cup {new}
  OBVIOUS
<1>2. \A task \in uses : /\ task.generation <= weak'.generation
                         /\ task.generation # weak'.generation
  <2> SUFFICES ASSUME NEW task \in uses
               PROVE  task.generation <= weak'.generation
                      /\ task.generation # weak'.generation
    OBVIOUS
  <2>1. task.generation \in Nat /\ task.generation <= weak.generation
    BY <1>1, UseIs DEF WeakFits, Uses, ToolTypes
  <2>2. weak.generation \in Nat
    BY WeakIs DEF ToolTypes
  <2> QED
    BY ONLY <2>1, <2>2, weak'.generation = weak.generation + 1
<1>3. new.generation = weak'.generation /\ weak'.generation <= weak'.generation
  BY WeakIs DEF ToolTypes
<1> QED
  BY <1>1, <1>2, <1>3 DEF WeakFits

LEMMA ExportStays ==
    ASSUME ExportFits, exporting' = exporting, Uses("export")' = Uses("export")
    PROVE  ExportFits'
<1>1. PICK uses : uses = Uses("export") /\ Uses("export")' = uses
  OBVIOUS
<1> QED
  BY <1>1 DEF ExportFits

LEMMA ExportGoesOn ==
    ASSUME ExportFits, exporting' = exporting, NEW task, NEW new, task \in Uses("export"),
           Uses("export")' = (Uses("export") \ {task}) \cup {new}
    PROVE  ExportFits'
<1>1. PICK uses : uses = Uses("export") /\ Uses("export")' = (uses \ {task}) \cup {new}
                /\ task \in uses
  OBVIOUS
<1> QED
  BY <1>1 DEF ExportFits

LEMMA ExportEnds ==
    ASSUME ExportFits, exporting' = FALSE, NEW task, task \in Uses("export"),
           Uses("export")' = Uses("export") \ {task}
    PROVE  ExportFits'
<1>1. PICK uses : uses = Uses("export") /\ Uses("export")' = uses \ {task} /\ task \in uses
  OBVIOUS
<1> QED
  BY <1>1 DEF ExportFits

LEMMA ExportStarted ==
    ASSUME ExportFits, exporting = FALSE, exporting' = TRUE, NEW new,
           Uses("export")' = Uses("export") \cup {new}
    PROVE  ExportFits'
<1>1. PICK uses : uses = Uses("export") /\ Uses("export")' = uses \cup {new}
  OBVIOUS
<1> QED
  BY <1>1 DEF ExportFits

LEMMA UsesAdded ==
    ASSUME NEW tool, NEW new, toolTasks' = toolTasks \cup {new}
    PROVE  /\ new.tool = tool => Uses(tool)' = Uses(tool) \cup {new}
           /\ new.tool # tool => Uses(tool)' = Uses(tool)
BY DEF Uses

LEMMA UsesDropped ==
    ASSUME NEW tool, NEW task, toolTasks' = toolTasks \ {task}
    PROVE  /\ Uses(tool)' = Uses(tool) \ {task}
           /\ task.tool # tool => Uses(tool)' = Uses(tool)
BY DEF Uses

LEMMA UsesReplaced ==
    ASSUME NEW tool, NEW task, NEW new, new.tool = task.tool,
           toolTasks' = (toolTasks \ {task}) \cup {new}
    PROVE  /\ task.tool = tool => Uses(tool)' = (Uses(tool) \ {task}) \cup {new}
           /\ task.tool # tool => Uses(tool)' = Uses(tool)
BY DEF Uses

-----------------------------------------------------------------------------
(* A use of a tool goes on *)

LEMMA TaskGoes ==
    ASSUME ToolBounds, ToolInv, ListGoesOn, NEW task \in toolTasks,
           NEW stage \in {"locks", "prompt", "reading", "read", "lost"},
           NEW left \in 0..MaxLocked, Tools!GoesTo(task, stage, left),
           UNCHANGED <<toolPage, fields, weak, exporting, asking, moves>>
    PROVE  ToolInv'
<1>1. /\ ToolTypes /\ FieldsFit /\ WeakFits /\ ExportFits /\ OneIsBusy
      /\ task \in Tools!ToolTasks
  BY DEF ToolInv, ToolTypes
<1> DEFINE new == [task EXCEPT !.at = stage, !.left = left]
<1>2. new \in Tools!ToolTasks
  BY ONLY <1>1, stage \in {"locks", "prompt", "reading", "read", "lost"},
     left \in 0..MaxLocked
     DEF Tools!ToolTasks
<1>3. /\ new.tool = task.tool /\ new.generation = task.generation
      /\ new.requests = task.requests
  BY ONLY <1>1 DEF Tools!ToolTasks
<1>4. toolTasks' = (toolTasks \ {task}) \cup {new}
  BY DEF Tools!GoesTo, Tools!Others
<1> HIDE DEF new
<1>5. ToolTypes'
  BY <1>1, <1>2, <1>4 DEF ToolTypes, ListGoesOn
<1>6. \A tool : tool = task.tool => task \in Uses(tool)
  BY DEF Uses
<1>7. FieldsFit'
  <2>1. CASE task.tool = "fields"
    <3>1. Uses("fields")' = (Uses("fields") \ {task}) \cup {new}
      BY <1>3, <1>4, <2>1, UsesReplaced
    <3> QED
      BY <1>1, <1>3, <1>6, <2>1, <3>1, FieldsGoOn
  <2>2. CASE task.tool # "fields"
    <3>1. Uses("fields")' = Uses("fields")
      BY <1>3, <1>4, <2>2, UsesReplaced
    <3> QED
      BY <1>1, <3>1, FieldsStay
  <2> QED
    BY <2>1, <2>2
<1>8. WeakFits'
  <2>1. CASE task.tool = "weak"
    <3>1. Uses("weak")' = (Uses("weak") \ {task}) \cup {new}
      BY <1>3, <1>4, <2>1, UsesReplaced
    <3> QED
      BY <1>1, <1>3, <1>6, <2>1, <3>1, WeakGoesOn
  <2>2. CASE task.tool # "weak"
    <3>1. Uses("weak")' = Uses("weak")
      BY <1>3, <1>4, <2>2, UsesReplaced
    <3> QED
      BY <1>1, <3>1, WeakStays
  <2> QED
    BY <2>1, <2>2
<1>9. ExportFits'
  <2>1. CASE task.tool = "export"
    <3>1. Uses("export")' = (Uses("export") \ {task}) \cup {new}
      BY <1>3, <1>4, <2>1, UsesReplaced
    <3> QED
      BY <1>1, <1>6, <2>1, <3>1, ExportGoesOn
  <2>2. CASE task.tool # "export"
    <3>1. Uses("export")' = Uses("export")
      BY <1>3, <1>4, <2>2, UsesReplaced
    <3> QED
      BY <1>1, <3>1, ExportStays
  <2> QED
    BY <2>1, <2>2
<1>10. OneIsBusy'
  BY <1>1 DEF OneIsBusy
<1> QED
  BY <1>5, <1>7, <1>8, <1>9, <1>10 DEF ToolInv

LEMMA TaskDropped ==
    ASSUME ToolBounds, ToolInv, ListGoesOn, NEW task \in toolTasks, ~Tools!IsCurrent(task),
           toolTasks' = Tools!Others(task),
           UNCHANGED <<toolPage, fields, weak, exporting, asking, moves>>
    PROVE  ToolInv'
<1>1. /\ ToolTypes /\ FieldsFit /\ WeakFits /\ ExportFits /\ OneIsBusy
      /\ task \in Tools!ToolTasks
      /\ toolTasks' = toolTasks \ {task}
  BY DEF ToolInv, ToolTypes, Tools!Others
<1>2. ToolTypes'
  BY <1>1 DEF ToolTypes, ListGoesOn
<1>3. /\ task.tool \in {"fields", "weak"}
      /\ task.tool = "fields" => task.generation # fields.generation
      /\ task.tool = "weak" => task.generation # weak.generation
  BY <1>1, UseIs DEF Tools!IsCurrent, ToolNames
<1>4. FieldsFit'
  BY <1>1, <1>3, UsesDropped, FieldsStay, FieldsDropOld
<1>5. WeakFits'
  BY <1>1, <1>3, UsesDropped, WeakStays, WeakDropsOld
<1>6. ExportFits'
  BY <1>1, <1>3, UsesDropped, ExportStays
<1>7. OneIsBusy'
  BY <1>1 DEF OneIsBusy
<1> QED
  BY <1>2, <1>4, <1>5, <1>6, <1>7 DEF ToolInv

\* The current use ends, with results or without.
LEMMA TaskEnds ==
    ASSUME ToolBounds, ToolInv, ListGoesOn, NEW task \in toolTasks, Tools!IsCurrent(task),
           toolTasks' = Tools!Others(task),
           NEW found \in SUBSET Tools!Rows, NEW weakOnes \in SUBSET Tools!Rows,
           found = fields.shown \/ found = {task.requests},
           fields' = IF task.tool = "fields" THEN EndedFields(found) ELSE fields,
           weak' = IF task.tool = "weak" THEN EndedWeak(weakOnes) ELSE weak,
           exporting' = (exporting /\ task.tool # "export"),
           UNCHANGED <<toolPage, asking, moves>>
    PROVE  ToolInv'
<1>1. /\ ToolTypes /\ FieldsFit /\ WeakFits /\ ExportFits /\ OneIsBusy
      /\ task \in Tools!ToolTasks
      /\ toolTasks' = toolTasks \ {task}
  BY DEF ToolInv, ToolTypes, Tools!Others
<1>2. /\ task.tool \in {"fields", "weak", "export"}
      /\ task.tool = "fields" => task.generation = fields.generation
      /\ task.tool = "weak" => task.generation = weak.generation
  BY <1>1, UseIs DEF Tools!IsCurrent, ToolNames
<1>3. \A tool : tool = task.tool => task \in Uses(tool)
  BY DEF Uses
<1>4. \A tool : /\ Uses(tool)' = Uses(tool) \ {task}
                /\ task.tool # tool => Uses(tool)' = Uses(tool)
  BY <1>1, UsesDropped
<1>5. exporting' \in BOOLEAN /\ (task.tool = "export" => exporting' = FALSE)
      /\ (task.tool # "export" => exporting' = exporting) /\ exporting \in BOOLEAN
  BY <1>1 DEF ToolTypes
<1>6. CASE task.tool = "fields"
  <2>1. /\ fields' = EndedFields(found) /\ weak' = weak /\ exporting' = exporting
    <3>1. task.tool # "weak" /\ task.tool # "export"
      BY <1>6
    <3>2. exporting' = exporting
      BY ONLY <1>5, <3>1
    <3>3. fields' = EndedFields(found)
      BY <1>6
    <3>4. weak' = weak
      BY <3>1
    <3> QED
      BY ONLY <3>2, <3>3, <3>4, Zenon
  <2>2. fields' \in FieldsRecords /\ fields'.busy = FALSE
    <3>1. EndedFields(found) \in FieldsRecords /\ EndedFields(found).busy = FALSE
      BY ONLY <1>1, EndedFieldsAre, found \in SUBSET Tools!Rows DEF ToolTypes
    <3>2. fields' = EndedFields(found)
      BY <2>1
    <3> QED
      BY ONLY <3>1, <3>2, Zenon
  <2>3. ToolTypes'
    BY <1>1, <2>1, <2>2 DEF ToolTypes, ListGoesOn
  <2>4. FieldsFit'
    BY <1>1, <1>2, <1>3, <1>4, <1>6, <2>1, FieldsEnd
  <2>5. WeakFits' /\ ExportFits'
    BY <1>1, <1>4, <1>6, <2>1, WeakStays, ExportStays
  <2>6. OneIsBusy'
    BY <1>1, <2>1, <2>2 DEF OneIsBusy
  <2> QED
    BY <2>3, <2>4, <2>5, <2>6 DEF ToolInv
<1>7. CASE task.tool = "weak"
  <2>1. /\ fields' = fields /\ weak' = EndedWeak(weakOnes) /\ exporting' = exporting
    <3>1. task.tool # "fields" /\ task.tool # "export"
      BY <1>7
    <3>2. exporting' = exporting
      BY ONLY <1>5, <3>1
    <3>3. weak' = EndedWeak(weakOnes)
      BY <1>7
    <3>4. fields' = fields
      BY <3>1
    <3> QED
      BY ONLY <3>2, <3>3, <3>4, Zenon
  <2>2. weak' \in WeakRecords /\ weak'.busy = FALSE
    BY <1>1, <2>1, EndedWeakIs DEF ToolTypes
  <2>3. ToolTypes'
    BY <1>1, <2>1, <2>2 DEF ToolTypes, ListGoesOn
  <2>4. WeakFits'
    BY <1>1, <1>2, <1>3, <1>4, <1>7, <2>1, WeakEnds
  <2>5. FieldsFit' /\ ExportFits'
    BY <1>1, <1>4, <1>7, <2>1, FieldsStay, ExportStays
  <2>6. OneIsBusy'
    BY <1>1, <2>1, <2>2 DEF OneIsBusy
  <2> QED
    BY <2>3, <2>4, <2>5, <2>6 DEF ToolInv
<1>8. CASE task.tool = "export"
  <2>1. /\ fields' = fields /\ weak' = weak /\ exporting' = FALSE
    BY <1>5, <1>8
  <2>2. ToolTypes'
    BY <1>1, <2>1 DEF ToolTypes, ListGoesOn
  <2>3. ExportFits'
    BY <1>1, <1>3, <1>4, <1>8, <2>1, ExportEnds
  <2>4. FieldsFit' /\ WeakFits'
    BY <1>1, <1>4, <1>8, <2>1, FieldsStay, WeakStays
  <2>5. OneIsBusy'
    BY <1>1, <2>1 DEF OneIsBusy
  <2> QED
    BY <2>2, <2>3, <2>4, <2>5 DEF ToolInv
<1> QED
  BY <1>2, <1>6, <1>7, <1>8

LEMMA AbortStep ==
    ASSUME ToolBounds, ToolInv, ListGoesOn, NEW task \in toolTasks, Tools!Abort(task),
           UNCHANGED <<toolPage, asking, moves>>
    PROVE  ToolInv'
<1>1. fields \in FieldsRecords /\ weak \in WeakRecords /\ toolTasks' = Tools!Others(task)
  BY DEF ToolInv, ToolTypes, Tools!Abort
<1>2. CASE ~Tools!IsCurrent(task)
  BY <1>1, <1>2, TaskDropped DEF Tools!Abort
<1>3. CASE Tools!IsCurrent(task)
  <2>1. PICK found \in SUBSET Tools!Rows, weakOnes \in SUBSET Tools!Rows :
           found = fields.shown /\ weakOnes = weak.shown
    BY <1>1, FieldsAre, WeakIs
  <2>2. /\ fields' = IF task.tool = "fields" THEN EndedFields(found) ELSE fields
        /\ weak' = IF task.tool = "weak" THEN EndedWeak(weakOnes) ELSE weak
        /\ exporting' = (exporting /\ task.tool # "export")
    BY <1>1, <1>3, <2>1, EndedBusyFields, EndedBusyWeak DEF Tools!Abort, Tools!ToolEnds
  <2> QED
    BY <1>1, <1>3, <2>1, <2>2, TaskEnds
<1> QED
  BY <1>2, <1>3

LEMMA ToolShowStep ==
    ASSUME ToolBounds, ToolInv, ListGoesOn, NEW task \in toolTasks, Tools!IsCurrent(task),
           Tools!ShowResults(task), UNCHANGED <<toolPage, asking, moves>>
    PROVE  ToolInv'
<1>1. task \in Tools!ToolTasks
  BY DEF ToolInv, ToolTypes
<1>2. PICK found \in SUBSET Tools!Rows : found = {task.requests}
  BY <1>1, UseIs, NothingIs
<1>3. /\ fields' = IF task.tool = "fields" THEN EndedFields(found) ELSE fields
      /\ weak' = IF task.tool = "weak" THEN EndedWeak(found) ELSE weak
      /\ exporting' = (exporting /\ task.tool # "export") /\ toolTasks' = Tools!Others(task)
  BY <1>2 DEF Tools!ShowResults, EndedFields, EndedWeak
<1> QED
  BY <1>2, <1>3, TaskEnds

LEMMA ReadStep ==
    ASSUME ToolBounds, ToolInv, ListGoesOn, NEW task \in toolTasks, Tools!ReadEntries(task),
           UNCHANGED <<toolPage, asking, moves>>
    PROVE  ToolInv'
<1>1. 0 \in 0..MaxLocked
  BY DEF ToolBounds
<1>2. CASE /\ ~Tools!IsCurrent(task) /\ toolTasks' = Tools!Others(task)
           /\ UNCHANGED <<fields, weak, exporting>>
  BY <1>2, TaskDropped
<1>3. CASE Tools!IsCurrent(task) /\ Tools!ShowResults(task)
  BY <1>3, ToolShowStep
<1>4. CASE Tools!GoesTo(task, "reading", 0) /\ UNCHANGED <<fields, weak, exporting>>
  BY <1>1, <1>4, TaskGoes
<1> QED
  BY <1>2, <1>3, <1>4 DEF Tools!ReadEntries

LEMMA TaskStep ==
    ASSUME ToolBounds, ToolInv, NEW task \in toolTasks, Tools!ToolStep(task)
    PROVE  ToolInv'
<1>1. ToolTypes /\ list \in Lists /\ list.load \in Nat /\ task \in Tools!ToolTasks
      /\ UNCHANGED <<toolPage, asking>> /\ 0 \in 0..MaxLocked
  BY DEF ToolInv, ToolTypes, Lists, Tools!ToolStep, ToolBounds
<1>2. list' = list => ListGoesOn
  BY <1>1 DEF ListGoesOn
<1>3. (list.load <= MaxReloads /\ list' = [load |-> list.load + 1, rows |-> {}]) =>
          ListGoesOn
  <2> SUFFICES ASSUME list.load <= MaxReloads, list' = [load |-> list.load + 1, rows |-> {}]
               PROVE  ListGoesOn
    OBVIOUS
  <2>1. PICK load \in 1..(MaxReloads + 1) : load = list.load + 1 /\ load >= list.load
    BY <1>1 DEF ToolBounds
  <2> QED
    BY <2>1, NothingIs DEF ListGoesOn, Lists
<1>4. CASE Tools!CollectLockedKeys(task)
  <2>1. ListGoesOn /\ UNCHANGED <<toolPage, asking, moves>>
    BY <1>1, <1>2, <1>4 DEF Tools!CollectLockedKeys
  <2>2. ASSUME NEW locked \in 1..MaxLocked, Tools!GoesTo(task, "prompt", locked),
               UNCHANGED <<fields, weak, exporting>>
        PROVE  ToolInv'
    <3>1. locked \in 0..MaxLocked
      BY DEF ToolBounds
    <3> QED
      BY <2>1, <2>2, <3>1, TaskGoes
  <2> QED
    BY <1>4, <2>1, <2>2, ReadStep, AbortStep DEF Tools!CollectLockedKeys
<1>5. CASE Tools!AnswerPrompt(task)
  <2>1. ListGoesOn /\ UNCHANGED <<toolPage, asking, moves>>
    BY <1>1, <1>2, <1>3, <1>5 DEF Tools!AnswerPrompt
  <2>2. CASE /\ task.left > 1 /\ Tools!GoesTo(task, "prompt", task.left - 1)
             /\ UNCHANGED <<fields, weak, exporting>>
    <3>1. PICK left \in 0..MaxLocked : left = task.left - 1
      <4>1. task.left \in 0..MaxLocked
        BY <1>1, UseIs
      <4> QED
        BY <2>2, <4>1 DEF ToolBounds
    <3> QED
      BY <2>1, <2>2, <3>1, TaskGoes
  <2> QED
    BY <1>5, <2>1, <2>2, ReadStep, AbortStep DEF Tools!AnswerPrompt
<1>6. CASE Tools!WorkerReads(task)
  <2>1. ListGoesOn /\ UNCHANGED <<toolPage, fields, weak, exporting, asking, moves>>
    BY <1>1, <1>2, <1>6 DEF Tools!WorkerReads
  <2>2. PICK outcome \in {"read", "lost"} : Tools!GoesTo(task, outcome, 0)
    BY <1>6 DEF Tools!WorkerReads
  <2>3. outcome \in {"locks", "prompt", "reading", "read", "lost"}
    OBVIOUS
  <2> QED
    BY <1>1, <2>1, <2>2, <2>3, TaskGoes
<1>7. CASE Tools!HandleResults(task)
  <2>1. ListGoesOn /\ UNCHANGED <<toolPage, asking, moves>>
    BY <1>1, <1>2, <1>7 DEF Tools!HandleResults
  <2> QED
    BY <1>7, <2>1, ToolShowStep, AbortStep DEF Tools!HandleResults
<1> QED
  BY <1>4, <1>5, <1>6, <1>7 DEF Tools!ToolStep

-----------------------------------------------------------------------------
(* Moves, exports and the list *)

\* What a move that leaves the uses alone and clears, or keeps, the browser does.
LEMMA StartTypes ==
    ASSUME NEW tool \in ToolNames, NEW stamp \in Nat, list \in Lists, 0 \in 0..MaxLocked
    PROVE  \E new \in Tools!ToolTasks :
               /\ Tools!Collect(tool, stamp) = {new} /\ new.tool = tool
               /\ new.generation = stamp /\ new.requests = list.rows
<1> DEFINE new == [tool |-> tool, generation |-> stamp, requests |-> list.rows,
                   at |-> "locks", left |-> 0]
<1>1. PICK picked \in Tools!Rows : picked = list.rows
  BY DEF Lists
<1>2. [tool |-> tool, generation |-> stamp, requests |-> picked, at |-> "locks",
       left |-> 0] \in Tools!ToolTasks
  BY DEF Tools!ToolTasks, ToolNames
<1>3. new \in Tools!ToolTasks
  BY <1>1, <1>2
<1>4. new.tool = tool /\ new.generation = stamp /\ new.requests = list.rows
  OBVIOUS
<1>5. Tools!Collect(tool, stamp) = {new}
  BY DEF Tools!Collect
<1> HIDE DEF new
<1> QED
  BY <1>3, <1>4, <1>5

\* A scan is started when no tool is busy.
LEMMA ScanStarts ==
    ASSUME ToolBounds, ToolInv, ~Tools!AdvancedToolsAreBusy, Tools!StartWeakScan,
           fields' = fields \/ fields' = Tools!Invalidated,
           toolPage' \in {"list", "tools", "fields", "weak", "entry"}, moves' \in
               0..MaxMoves,
           UNCHANGED <<list, exporting, asking>>
    PROVE  ToolInv'
<1>1. /\ ToolTypes /\ FieldsFit /\ WeakFits /\ ExportFits /\ list \in Lists
      /\ list.load \in Nat
      /\ fields \in FieldsRecords /\ weak \in WeakRecords /\ weak.generation \in Nat
      /\ 0 \in 0..MaxLocked /\ "weak" \in ToolNames
  BY WeakIs DEF ToolInv, ToolTypes, Lists, ToolBounds, ToolNames
<1>2. PICK next \in Nat : next = weak.generation + 1
  BY <1>1
<1>3. PICK new \in Tools!ToolTasks :
         /\ Tools!Collect("weak", next) = {new} /\ new.tool = "weak"
         /\ new.generation = next
  BY <1>1, StartTypes
<1>4. /\ weak' = [generation |-> next, busy |-> TRUE, shown |-> Tools!Nothing]
      /\ toolTasks' = toolTasks \cup {new}
  BY <1>2, <1>3 DEF Tools!StartWeakScan
<1>5. weak' \in WeakRecords /\ weak'.generation = next /\ weak'.busy = TRUE
      /\ weak'.shown = Tools!Nothing
  BY <1>4, NothingIs DEF WeakRecords
<1>6. ~fields.busy /\ ~exporting
  BY DEF Tools!AdvancedToolsAreBusy
<1>7. fields' \in FieldsRecords /\ ~fields'.busy
  BY <1>1, <1>6, InvalidatedIs
<1>8. /\ Uses("weak")' = Uses("weak") \cup {new} /\ Uses("fields")' = Uses("fields")
      /\ Uses("export")' = Uses("export")
  BY <1>3, <1>4, UsesAdded
<1>9. ListGoesOn
  BY <1>1 DEF ListGoesOn
<1>10. ToolTypes'
  BY <1>1, <1>4, <1>5, <1>7 DEF ToolTypes
<1>11. FieldsFit'
  BY <1>1, <1>8, <1>9, FieldsStay, FieldsCleared
<1>12. WeakFits'
  BY <1>1, <1>2, <1>3, <1>5, <1>8, WeakStarted
<1>13. ExportFits'
  BY <1>1, <1>8, ExportStays
<1>14. OneIsBusy'
  BY <1>6, <1>7 DEF OneIsBusy
<1> QED
  BY <1>10, <1>11, <1>12, <1>13, <1>14 DEF ToolInv

\* No use begins or ends, and the scan's results may be forgotten.
LEMMA OnlyMoves ==
    ASSUME ToolBounds, ToolInv, ListGoesOn, fields' = fields \/ fields' = Tools!Invalidated,
           list' = list \/ fields' = fields,
           \/ weak' = weak
           \/ /\ weak'.generation = weak.generation + 1 /\ weak'.busy = FALSE
              /\ weak' \in WeakRecords,
           toolPage' \in {"list", "tools", "fields", "weak", "entry"}, moves' \in
               0..MaxMoves,
           asking' \in BOOLEAN, UNCHANGED <<toolTasks, exporting>>
    PROVE  ToolInv'
<1>1. ToolTypes /\ FieldsFit /\ WeakFits /\ ExportFits /\ OneIsBusy
      /\ fields \in FieldsRecords /\ weak \in WeakRecords
  BY DEF ToolInv, ToolTypes
<1>2. /\ Uses("weak")' = Uses("weak") /\ Uses("fields")' = Uses("fields")
      /\ Uses("export")' = Uses("export")
  BY DEF Uses
<1>3. fields' \in FieldsRecords /\ (fields'.busy => fields.busy)
  BY <1>1, InvalidatedIs, FieldsAre
<1>4. ToolTypes'
  BY <1>1, <1>3 DEF ToolTypes, ListGoesOn
<1>5. FieldsFit'
  BY <1>1, <1>2, FieldsStay, FieldsCleared
<1>6. WeakFits'
  BY <1>1, <1>2, WeakStays, WeakForgotten
<1>7. ExportFits'
  BY <1>1, <1>2, ExportStays
<1>8. OneIsBusy'
  BY <1>1, <1>3 DEF OneIsBusy
<1> QED
  BY <1>4, <1>5, <1>6, <1>7, <1>8 DEF ToolInv

LEMMA PrepareFieldsStep ==
    ASSUME ToolBounds, ToolInv, Tools!PrepareFields, moves' \in 0..MaxMoves,
           UNCHANGED <<list, exporting>>
    PROVE  ToolInv'
<1>1. /\ ToolTypes /\ FieldsFit /\ WeakFits /\ ExportFits /\ list \in Lists
      /\ list.load \in Nat
      /\ fields \in FieldsRecords /\ weak \in WeakRecords /\ 0 \in 0..MaxLocked
      /\ "fields" \in ToolNames
      /\ ~Tools!AdvancedToolsAreBusy /\ toolPage' = "fields" /\ UNCHANGED <<weak, asking>>
  BY DEF ToolInv, ToolTypes, Lists, ToolBounds, ToolNames, Tools!PrepareFields
<1>2. CASE fields' = Tools!Invalidated /\ UNCHANGED toolTasks
  <2>1. ListGoesOn /\ asking' \in BOOLEAN
    BY <1>1 DEF ListGoesOn, ToolTypes
  <2> QED
    BY <1>1, <1>2, <2>1, OnlyMoves
<1>3. CASE /\ fields' = [generation |-> Tools!Invalidated.generation + 1, busy |-> TRUE,
                         source |-> list.load, shown |-> Tools!Nothing,
                         partial |-> list.rows # ToolEntries]
           /\ toolTasks' =
                  toolTasks \cup Tools!Collect("fields", Tools!Invalidated.generation + 1)
  <2>1. PICK next \in Nat :
         /\ next = Tools!Invalidated.generation + 1
         /\ next > fields.generation
    BY <1>1, InvalidatedIs, FieldsAre
  <2>2. PICK new \in Tools!ToolTasks :
           /\ Tools!Collect("fields", next) = {new} /\ new.tool = "fields"
           /\ new.generation = next /\ new.requests = list.rows
    BY <1>1, StartTypes
  <2>3. PICK partial \in BOOLEAN : partial = (list.rows # ToolEntries)
    OBVIOUS
  <2>4. /\ fields' = [generation |-> next, busy |-> TRUE, source |-> list.load,
                      shown |-> Tools!Nothing, partial |-> partial]
        /\ toolTasks' = toolTasks \cup {new}
    BY <1>3, <2>1, <2>2, <2>3
  <2>5. /\ Uses("fields")' = Uses("fields") \cup {new} /\ Uses("weak")' = Uses("weak")
        /\ Uses("export")' = Uses("export")
    BY <2>2, <2>4, UsesAdded
  <2>6. FieldsFit' /\ fields' \in FieldsRecords
    BY <1>1, <2>1, <2>2, <2>3, <2>4, <2>5, FieldsStarted
  <2>7. ToolTypes'
    BY <1>1, <2>4, <2>6 DEF ToolTypes
  <2>8. WeakFits' /\ ExportFits'
    BY <1>1, <2>5, WeakStays, ExportStays
  <2>9. OneIsBusy'
    BY <1>1 DEF OneIsBusy, Tools!AdvancedToolsAreBusy
  <2> QED
    BY <2>6, <2>7, <2>8, <2>9 DEF ToolInv
<1> QED
  BY <1>2, <1>3 DEF Tools!PrepareFields

LEMMA MoveStep ==
    ASSUME ToolBounds, ToolInv, Tools!Move
    PROVE  ToolInv'
<1>1. ToolTypes /\ WeakFits /\ list \in Lists /\ list.load \in Nat
      /\ fields \in FieldsRecords /\ weak \in WeakRecords /\ weak.generation \in Nat
      /\ asking \in BOOLEAN /\ UNCHANGED <<list, exporting>>
  BY WeakIs DEF ToolInv, ToolTypes, Lists, ToolBounds, Tools!Move
<1>2. ListGoesOn
  BY <1>1 DEF ListGoesOn
<1>3. moves' \in 0..MaxMoves
  BY DEF ToolBounds, ToolInv, ToolTypes, Tools!Move
<1>4. CASE Tools!PrepareFields
  BY <1>1, <1>3, <1>4, PrepareFieldsStep
<1>5. CASE Tools!PrepareWeak
  BY <1>1, <1>3, <1>5, ScanStarts DEF Tools!PrepareWeak
<1>6. CASE Tools!OpenTools
  <2>1. /\ toolPage' = "tools" /\ fields' = Tools!Invalidated
        /\ UNCHANGED <<weak, toolTasks, asking>>
    BY <1>6 DEF Tools!OpenTools
  <2> QED
    BY <1>1, <1>2, <1>3, <2>1, OnlyMoves
<1>7. CASE Tools!OpenWeakEntry
  <2>1. /\ toolPage' = "entry" /\ weak.shown # Tools!Nothing
        /\ UNCHANGED <<fields, toolTasks, asking>>
        /\ weak' = [weak EXCEPT !.generation = weak.generation + 1, !.shown = Tools!Nothing]
    BY <1>7 DEF Tools!OpenWeakEntry
  <2>2. weak.busy = FALSE
    BY <1>1, <2>1, WeakIs DEF WeakFits
  <2>3. PICK next \in Nat, nobody \in SUBSET Tools!Rows :
         /\ next = weak.generation + 1
         /\ nobody = Tools!Nothing
    BY <1>1, NothingIs
  <2>4. [weak EXCEPT !.generation = next, !.shown = nobody] \in WeakRecords
    BY <1>1 DEF WeakRecords
  <2>5. /\ [weak EXCEPT !.generation = next, !.shown = nobody].generation = next
        /\ [weak EXCEPT !.generation = next, !.shown = nobody].busy = weak.busy
    BY <1>1 DEF WeakRecords
  <2>6. /\ weak' \in WeakRecords /\ weak'.generation = weak.generation + 1
        /\ weak'.busy = FALSE
    BY <2>1, <2>2, <2>3, <2>4, <2>5
  <2> QED
    BY <1>1, <1>2, <1>3, <2>1, <2>6, OnlyMoves
<1>8. CASE Tools!GoBack
  <2>1. CASE /\ toolPage' = "tools" /\ UNCHANGED <<fields, weak, toolTasks, asking>>
    BY <1>1, <1>2, <1>3, <2>1, OnlyMoves
  <2>2. CASE /\ toolPage' = "weak" /\ Tools!RefreshWeakIfNeeded
             /\ UNCHANGED <<fields, asking>>
    <3>1. CASE ~Tools!AdvancedToolsAreBusy /\ Tools!StartWeakScan
      BY <1>1, <1>3, <2>2, <3>1, ScanStarts
    <3>2. CASE UNCHANGED <<weak, toolTasks>>
      BY <1>1, <1>2, <1>3, <2>2, <3>2, OnlyMoves
    <3> QED
      BY <2>2, <3>1, <3>2 DEF Tools!RefreshWeakIfNeeded
  <2> QED
    BY <1>8, <2>1, <2>2 DEF Tools!GoBack
<1>9. CASE Tools!LeaveTools
  <2>1. /\ toolPage' = "list" /\ fields' = Tools!Invalidated
        /\ UNCHANGED <<toolTasks, asking>>
        /\ weak' = [generation |-> weak.generation + 1, busy |-> FALSE,
                    shown |-> Tools!Nothing]
    BY <1>9 DEF Tools!LeaveTools
  <2>2. /\ weak' \in WeakRecords /\ weak'.generation = weak.generation + 1
        /\ weak'.busy = FALSE
    BY <1>1, <2>1, NothingIs DEF WeakRecords
  <2> QED
    BY <1>1, <1>2, <1>3, <2>1, <2>2, OnlyMoves
<1>10. CASE Tools!ConfirmExport
  <2>1. /\ toolPage' = toolPage /\ asking' = TRUE /\ UNCHANGED <<fields, weak, toolTasks>>
        /\ toolPage \in {"list", "tools", "fields", "weak", "entry"}
    BY <1>1, <1>10 DEF Tools!ConfirmExport, ToolTypes
  <2> QED
    BY <1>1, <1>2, <1>3, <2>1, OnlyMoves
<1> QED
  BY <1>4, <1>5, <1>6, <1>7, <1>8, <1>9, <1>10 DEF Tools!Move

LEMMA ExportStep ==
    ASSUME ToolBounds, ToolInv, Tools!StartExport
    PROVE  ToolInv'
<1>1. ToolTypes /\ FieldsFit /\ WeakFits /\ ExportFits /\ list.load \in Nat
      /\ asking' = FALSE /\ UNCHANGED <<list, toolPage, fields, weak, moves>>
      /\ toolPage \in {"list", "tools", "fields", "weak", "entry"} /\ moves \in 0..MaxMoves
      /\ 0 \in 0..MaxLocked /\ exporting \in BOOLEAN
  BY DEF ToolInv, ToolTypes, Lists, ToolBounds, Tools!StartExport
<1>2. ListGoesOn
  BY <1>1 DEF ListGoesOn, ToolTypes
<1>3. CASE UNCHANGED <<exporting, toolTasks>>
  BY <1>1, <1>2, <1>3, OnlyMoves
<1>4. CASE /\ ~Tools!AdvancedToolsAreBusy /\ exporting' = TRUE
           /\ toolTasks' = toolTasks \cup
                 {[tool |-> "export", generation |-> 0, requests |-> ToolEntries,
                   at |-> "locks", left |-> 0]}
  <2> DEFINE new == [tool |-> "export", generation |-> 0, requests |-> ToolEntries,
                     at |-> "locks", left |-> 0]
  <2>1. new \in Tools!ToolTasks /\ new.tool = "export"
    BY <1>1, NothingIs DEF Tools!ToolTasks
  <2>2. toolTasks' = toolTasks \cup {new}
    BY <1>4
  <2> HIDE DEF new
  <2>3. /\ Uses("fields")' = Uses("fields") /\ Uses("weak")' = Uses("weak")
        /\ Uses("export")' = Uses("export") \cup {new}
    BY <2>1, <2>2, UsesAdded
  <2>4. ~fields.busy /\ ~weak.busy /\ exporting = FALSE
    BY <1>1, <1>4 DEF Tools!AdvancedToolsAreBusy
  <2>5. ToolTypes'
    BY <1>1, <1>4, <2>1, <2>2 DEF ToolTypes
  <2>6. FieldsFit' /\ WeakFits'
    BY <1>1, <1>2, <2>3, FieldsStay, WeakStays
  <2>7. ExportFits'
    BY <1>1, <1>4, <2>3, <2>4, ExportStarted
  <2>8. OneIsBusy'
    BY <1>1, <2>4 DEF OneIsBusy
  <2> QED
    BY <2>5, <2>6, <2>7, <2>8 DEF ToolInv
<1> QED
  BY <1>3, <1>4 DEF Tools!StartExport

LEMMA ToolListStep ==
    ASSUME ToolBounds, ToolInv, Tools!ReloadList \/ Tools!AppendRow
    PROVE  ToolInv'
<1>1. /\ ToolTypes /\ list \in Lists /\ list.load \in 1..(MaxReloads + 1)
      /\ list.rows \in Tools!Rows
      /\ UNCHANGED <<toolPage, fields, weak, exporting, asking, toolTasks, moves>>
      /\ toolPage \in {"list", "tools", "fields", "weak", "entry"} /\ moves \in 0..MaxMoves
      /\ asking \in BOOLEAN
  BY DEF ToolInv, ToolTypes, Lists, Tools!ReloadList, Tools!AppendRow
<1>2. ListGoesOn
  <2>1. CASE Tools!ReloadList
    <3>1. PICK load \in 1..(MaxReloads + 1) : load = list.load + 1 /\ load >= list.load
      BY <1>1, <2>1 DEF ToolBounds, Tools!ReloadList
    <3> QED
      BY <2>1, <3>1, NothingIs DEF ListGoesOn, Lists, Tools!ReloadList
  <2>2. CASE Tools!AppendRow
    <3>1. PICK e \in ToolEntries : list' = [list EXCEPT !.rows = list.rows \cup {e}]
      BY <2>2 DEF Tools!AppendRow
    <3>2. PICK picked \in Tools!Rows : picked = list.rows \cup {e}
      BY <1>1 DEF Tools!Rows
    <3>3. /\ [list EXCEPT !.rows = picked] \in Lists
          /\ [list EXCEPT !.rows = picked].load = list.load
      BY <1>1 DEF Lists
    <3>4. list.load >= list.load
      BY <1>1 DEF ToolBounds
    <3> QED
      BY <3>1, <3>2, <3>3, <3>4 DEF ListGoesOn
  <2> QED
    BY <2>1, <2>2
<1> QED
  BY <1>1, <1>2, OnlyMoves

LEMMA ToolsStart ==
    ASSUME ToolBounds, Tools!Init
    PROVE  ToolInv
<1>1. /\ fields \in FieldsRecords /\ fields.busy = FALSE /\ fields.source = 0
      /\ fields.shown = Tools!Nothing /\ fields.partial = FALSE
  BY NothingIs DEF Tools!Init, FieldsRecords, ToolBounds
<1>2. weak \in WeakRecords /\ weak.busy = FALSE
  BY NothingIs DEF Tools!Init, WeakRecords
<1>3. list \in Lists /\ list.load = 1
  BY NothingIs DEF Tools!Init, Lists, ToolBounds
<1>4. moves \in 0..MaxMoves /\ exporting = FALSE /\ asking = FALSE /\ toolTasks = {}
      /\ toolPage = "list"
  BY DEF Tools!Init, ToolBounds
<1>5. \A tool : Uses(tool) = {}
  BY <1>4 DEF Uses
<1>6. ToolTypes
  BY <1>1, <1>2, <1>3, <1>4 DEF ToolTypes
<1>7. FieldsFit /\ WeakFits /\ ExportFits /\ OneIsBusy
  BY <1>1, <1>2, <1>3, <1>4, <1>5 DEF FieldsFit, WeakFits, ExportFits, OneIsBusy
<1> QED
  BY <1>6, <1>7 DEF ToolInv

LEMMA ToolsStep ==
    ASSUME ToolBounds, ToolInv, Tools!Next
    PROVE  ToolInv'
BY MoveStep, ExportStep, TaskStep, ToolListStep DEF Tools!Next

LEMMA ToolsStay ==
    ASSUME ToolInv, UNCHANGED Tools!toolVars
    PROVE  ToolInv'
BY DEF ToolInv, ToolTypes, FieldsFit, WeakFits, ExportFits, OneIsBusy, Uses, Tools!toolVars

LEMMA ToolsAre ==
    ASSUME ToolInv
    PROVE  Tools!TypeOK /\ Tools!KeptValuesAreComplete /\ Tools!ABusyToolIsWorking
<1>1. ToolTypes /\ FieldsFit /\ WeakFits /\ ExportFits /\ OneIsBusy
  BY DEF ToolInv
<1>2. /\ fields.busy \in BOOLEAN /\ fields.partial \in BOOLEAN /\ weak.busy \in BOOLEAN
      /\ exporting \in BOOLEAN /\ asking \in BOOLEAN
      /\ fields.shown \in SUBSET Tools!Rows /\ weak.shown \in SUBSET Tools!Rows
      /\ fields.source \in 0..(MaxReloads + 1)
  BY <1>1, FieldsAre, WeakIs DEF ToolTypes
<1>3. Tools!TypeOK
  BY <1>1, <1>2 DEF ToolTypes, Tools!TypeOK, Lists
<1>4. Tools!KeptValuesAreComplete
  BY <1>1 DEF FieldsFit, Tools!KeptValuesAreComplete
<1>5. /\ fields.busy <=>
             (\E task \in toolTasks : task.tool = "fields" /\ Tools!IsCurrent(task))
      /\ weak.busy <=> (\E task \in toolTasks : task.tool = "weak" /\ Tools!IsCurrent(task))
      /\ exporting <=> (\E task \in toolTasks : task.tool = "export")
  BY <1>1 DEF FieldsFit, WeakFits, ExportFits, Uses, Tools!IsCurrent
<1>6. fields.busy = (\E task \in toolTasks : task.tool = "fields" /\ Tools!IsCurrent(task))
  BY <1>2, <1>5, Zenon
<1>7. weak.busy = (\E task \in toolTasks : task.tool = "weak" /\ Tools!IsCurrent(task))
  BY <1>2, <1>5, Zenon
<1>8. exporting = (\E task \in toolTasks : task.tool = "export")
  BY <1>2, <1>5, Zenon
<1> QED
  BY <1>1, <1>3, <1>4, <1>6, <1>7, <1>8 DEF OneIsBusy, Tools!ABusyToolIsWorking

-----------------------------------------------------------------------------
(* The list of entries *)

ListBounds ==
    MaxLoads \in Nat /\ MaxQueries \in Nat /\ MaxChanges \in Nat /\ MaxListFaults \in Nat

ReloadKinds == {"collect", "collected", "lost", "render"}
IndexKinds == {"index", "indexed", "unindexable"}
Reloads(g) == {t \in tasks : t.is \in ReloadKinds /\ t.generation = g}
Indexers(g) == {t \in tasks : t.is \in IndexKinds /\ t.generation = g}
Found(g) == {e \in Entries : collected[g][e] # 0}
Unread == {e \in Entries : rows[e] = Rows!Unindexed}

\* What is known of a row, as new as what the reload saw.
AsNew(known, g, e) ==
    known \in {Rows!Unavailable} \cup
        Rows!FileVersions /\ (known \in Rows!FileVersions => known >= collected[g][e])

ListTypes == Rows!TypeOK /\ listCount.changes <= MaxChanges

\* Later versions are newer, and a reload that is to come has found nothing.
DiskFits ==
    /\ \A e \in Entries : onDisk[e] <= listCount.changes + 1
    /\ \A g \in Rows!Generations, e \in Entries :
         /\ collected[g][e] <= listCount.changes + 1
         /\ collected[g][e] # 0 => (onDisk[e] = 0 \/ onDisk[e] >= collected[g][e])
    /\ \A g \in Rows!Generations : g > generation => collected[g] = Rows!NoEntries

TaskFits(t) ==
    /\ t.generation <= generation
    /\ t.is = "collect" => collected[t.generation] = Rows!NoEntries
    /\ t.is = "collected" => t.items = collected[t.generation]
    /\ t.is \in {"lost", "unindexable"} => listCount.faults > 0
    /\ t.is = "render" => t.left \subseteq Found(t.generation)
    /\ t.is \in {"index", "indexed"} => t.requests \subseteq Found(t.generation)
    /\ t.is = "indexed" => \A e \in t.requests : AsNew(t.results[e], t.generation, e)

TasksFit == \A t \in tasks : TaskFits(t)

RowsFit ==
    /\ generation = 0 => (Rows!Shown = {} /\ ~loading /\ indexing = 0)
    /\ generation # 0 => Rows!RowsAreOfTheNewestReload

AllAreShown == Rows!Shown = Found(generation) \/ (Rows!Shown = {} /\ listCount.faults > 0)

\* A reload has one task at a time, the list waits for that of the newest one,
\* and its rows are those of the batches that are in.
ReloadFits ==
    /\ \A g \in Rows!Generations : \A s, t \in Reloads(g) : s = t
    /\ loading <=> (Reloads(generation) # {})
    /\ \A t \in Reloads(generation) :
         /\ t.is \in {"collect", "collected", "lost"} => Rows!Shown = {}
         /\ t.is = "render" =>
                (Rows!Shown \cup t.left = Found(generation) /\ Rows!Shown \cap t.left = {})
    /\ (generation # 0 /\ ~loading) => AllAreShown

IndexFits ==
    /\ indexing \in {0, generation}
    /\ (indexing # 0) <=> (Indexers(generation) # {})
    /\ \A s, t \in Indexers(generation) : s = t

PlaceholderFits ==
    (placeholder = "loading" /\ resolving = 0) =>
        \/ loading
        \/ query = "fields" /\ indexing = generation /\ generation # 0 /\ rows # Rows!NoRows

\* An index that began after the last batch is of all rows that have none, and
\* a search that looks into the files has begun one if it needs one.
SearchFits ==
    (generation \notin early /\ listCount.faults = 0) =>
        /\ (indexing = generation /\ generation # 0) =>
             (~loading /\ \A t \in Indexers(generation) :
                            t.is \in {"index", "indexed"} => Unread \subseteq t.requests)
        /\ (query = "fields" /\ ~loading) => (indexing = generation \/ Unread = {})

ListInv ==
    /\ ListTypes /\ DiskFits /\ TasksFit /\ RowsFit /\ ReloadFits /\ IndexFits
    /\ PlaceholderFits /\ SearchFits

-----------------------------------------------------------------------------
(* What the tasks and the parts of the invariant are *)

LEMMA JobIs ==
    ASSUME NEW t \in Rows!Tasks
    PROVE  /\ t.is \in ReloadKinds \cup IndexKinds /\ t.generation \in Rows!Generations
           /\ t.is = "collected" => t.items \in Rows!Contents
           /\ t.is = "render" => t.left \in SUBSET Entries
           /\ t.is \in {"index", "indexed"} => t.requests \in SUBSET Entries
           /\ t.is = "indexed" => t.results \in [Entries -> Rows!IndexStates]
BY DEF Rows!Tasks, ReloadKinds, IndexKinds

LEMMA KindsAreTwo == \A kind : ~(kind \in ReloadKinds /\ kind \in IndexKinds)
BY DEF ReloadKinds, IndexKinds

LEMMA NumbersAre ==
    ASSUME ListBounds
    PROVE  /\ \A g \in Rows!Generations : g \in Nat /\ g # 0 /\ g <= MaxLoads
           /\ \A v \in Rows!FileVersions : v \in Nat /\ v # 0 /\ v <= MaxChanges + 1
           /\ \A v \in Nat : (v # 0 /\ v <= MaxChanges + 1) => v \in Rows!FileVersions
           /\ \A g \in Nat : (g # 0 /\ g <= MaxLoads) => g \in Rows!Generations
           /\ 0 \notin Rows!FileVersions /\ Rows!NoRow \notin Rows!FileVersions
           /\ Rows!Unindexed \notin Rows!FileVersions
           /\ Rows!Unavailable \notin Rows!FileVersions /\ Rows!Unindexed # Rows!NoRow
           /\ Rows!Unavailable # Rows!NoRow
           /\ Rows!Unavailable # Rows!Unindexed
BY DEF ListBounds, Rows!Generations, Rows!FileVersions, Rows!NoRow, Rows!Unindexed,
   Rows!Unavailable

LEMMA StateIs ==
    ASSUME ListBounds, ListTypes
    PROVE  /\ generation \in Nat /\ generation <= MaxLoads
           /\ generation # 0 => generation \in Rows!Generations
           /\ listCount["faults"] \in Nat /\ listCount["changes"] \in Nat
           /\ listCount["queries"] \in Nat /\ listCount["changes"] <= MaxChanges
           /\ resolving \in Nat
           /\ \A e \in Entries : onDisk[e] \in Nat /\ rows[e] \in Rows!IndexStates
           /\ \A g \in Rows!Generations, e \in Entries : collected[g][e] \in Nat
           /\ \A g \in Rows!Generations : collected[g] \in Rows!Contents
           /\ \A t \in tasks : t \in Rows!Tasks
<1>1. Rows!TypeOK /\ listCount.changes <= MaxChanges
  BY DEF ListTypes
<1>2. /\ generation \in 0..MaxLoads
      /\ listCount \in [{"queries", "changes", "faults"} -> Nat]
      /\ resolving \in Nat /\ onDisk \in Rows!Contents
      /\ rows \in [Entries -> Rows!IndexStates]
      /\ collected \in [Rows!Generations -> Rows!Contents] /\ tasks \subseteq Rows!Tasks
  BY <1>1, Zenon DEF Rows!TypeOK
<1>3. /\ generation \in Nat /\ generation <= MaxLoads
      /\ generation # 0 => generation \in Rows!Generations
  BY <1>2, NumbersAre DEF ListBounds
<1>4. /\ listCount["faults"] \in Nat /\ listCount["changes"] \in Nat
      /\ listCount["queries"] \in Nat
  BY <1>2
<1>5. \A c \in Rows!Contents, e \in Entries : c[e] \in Nat
  BY NumbersAre DEF Rows!Contents
<1> QED
  BY <1>1, <1>2, <1>3, <1>4, <1>5

LEMMA NoEntriesAre ==
    /\ Rows!NoEntries \in Rows!Contents /\ (\A e \in Entries : Rows!NoEntries[e] = 0)
    /\ Rows!NoRows \in [Entries -> Rows!IndexStates]
    /\ (\A e \in Entries : Rows!NoRows[e] = Rows!NoRow)
BY DEF Rows!NoEntries, Rows!Contents, Rows!NoRows, Rows!IndexStates

LEMMA RowsAreKept ==
    ASSUME rows' = rows
    PROVE  Rows!Shown' = Rows!Shown /\ Unread' = Unread
BY DEF Rows!Shown, Unread

LEMMA FoundIsKept ==
    ASSUME NEW g, collected'[g] = collected[g]
    PROVE  Found(g)' = Found(g)
BY DEF Found

LEMMA DiskStays ==
    ASSUME DiskFits, UNCHANGED <<onDisk, generation, collected, listCount>>
    PROVE  DiskFits'
BY DEF DiskFits

\* Deaths of workers are counted up.
LEMMA FitsStays ==
    ASSUME NEW t, TaskFits(t), UNCHANGED <<generation, collected>>,
           listCount["faults"] > 0 => listCount'["faults"] > 0
    PROVE  TaskFits(t)'
BY DEF TaskFits, Found, AsNew

LEMMA RowsStay ==
    ASSUME RowsFit, UNCHANGED <<generation, collected, rows>>,
           generation = 0 => (loading' = FALSE /\ indexing' = 0)
    PROVE  RowsFit'
BY RowsAreKept DEF RowsFit, Rows!RowsAreOfTheNewestReload

LEMMA ShownIsFound ==
    ASSUME RowsFit
    PROVE  /\ generation # 0 => Rows!Shown \subseteq Found(generation)
           /\ Unread \subseteq Rows!Shown
           /\ Unread # {} => generation # 0
BY DEF RowsFit, Rows!RowsAreOfTheNewestReload, Rows!Shown, Found, Unread, Rows!Unindexed,
   Rows!NoRow

LEMMA JobDropped ==
    ASSUME NEW task, tasks' = tasks \ {task}
    PROVE  \A g : Reloads(g)' = Reloads(g) \ {task} /\ Indexers(g)' = Indexers(g) \ {task}
BY DEF Reloads, Indexers

LEMMA JobReplaced ==
    ASSUME NEW task \in tasks, NEW new \in Rows!Tasks, new.generation = task.generation,
           task \in Rows!Tasks, new.is \in ReloadKinds <=> task.is \in ReloadKinds,
           tasks' = (tasks \ {task}) \cup {new}
    PROVE  /\ \A g : g # task.generation =>
                       (Reloads(g)' = Reloads(g) /\ Indexers(g)' = Indexers(g))
           /\ task.is \in ReloadKinds =>
                /\ \A g : Indexers(g)' = Indexers(g)
                /\ Reloads(task.generation)' =
                       (Reloads(task.generation) \ {task}) \cup {new}
           /\ task.is \in IndexKinds =>
                /\ \A g : Reloads(g)' = Reloads(g)
                /\ Indexers(task.generation)' =
                       (Indexers(task.generation) \ {task}) \cup {new}
<1>1. task.is \in ReloadKinds \cup IndexKinds /\ new.is \in ReloadKinds \cup IndexKinds
  BY JobIs
<1> QED
  BY <1>1, KindsAreTwo DEF Reloads, Indexers

LEMMA NowDropped ==
    ASSUME NEW task, tasks' = tasks \ {task}, generation' = generation
    PROVE  /\ Reloads(generation)' = Reloads(generation) \ {task}
           /\ Indexers(generation)' = Indexers(generation) \ {task}
BY DEF Reloads, Indexers

LEMMA NowReplaced ==
    ASSUME NEW task \in tasks, NEW new \in Rows!Tasks, new.generation = task.generation,
           task \in Rows!Tasks, new.is \in ReloadKinds <=> task.is \in ReloadKinds,
           tasks' = (tasks \ {task}) \cup {new}, generation' = generation
    PROVE  /\ task.generation # generation =>
                /\ Reloads(generation)' = Reloads(generation)
                /\ Indexers(generation)' = Indexers(generation)
           /\ (task.generation = generation /\ task.is \in ReloadKinds) =>
                /\ Indexers(generation)' = Indexers(generation)
                /\ Reloads(generation)' = (Reloads(generation) \ {task}) \cup {new}
           /\ (task.generation = generation /\ task.is \in IndexKinds) =>
                /\ Reloads(generation)' = Reloads(generation)
                /\ Indexers(generation)' = (Indexers(generation) \ {task}) \cup {new}
<1>1. task.is \in ReloadKinds \cup IndexKinds /\ new.is \in ReloadKinds \cup IndexKinds
  BY JobIs
<1> QED
  BY <1>1, KindsAreTwo DEF Reloads, Indexers

\* The tasks of one generation are those of before, but for one that went on.
LEMMA StillOne ==
    ASSUME ReloadFits, NEW task \in tasks, NEW new \in Rows!Tasks, new.generation =
           task.generation,
           task \in Rows!Tasks, new.is \in ReloadKinds <=> task.is \in ReloadKinds,
           tasks' = (tasks \ {task}) \cup {new}
    PROVE  \A g \in Rows!Generations : \A s, t \in Reloads(g)' : s = t
<1> SUFFICES ASSUME NEW g \in Rows!Generations
             PROVE  \A s, t \in Reloads(g)' : s = t
  OBVIOUS
<1>1. \A s, t \in Reloads(g) : s = t
  BY DEF ReloadFits
<1>2. CASE g # task.generation
  BY <1>1, <1>2, JobReplaced
<1>3. CASE g = task.generation /\ task.is \in ReloadKinds
  <2>1. Reloads(g)' = (Reloads(g) \ {task}) \cup {new}
    BY <1>3, JobReplaced
  <2>2. task \in Reloads(g)
    BY <1>3 DEF Reloads
  <2> QED
    BY <1>1, <2>1, <2>2
<1>4. CASE task.is \notin ReloadKinds
  <2>1. task.is \in IndexKinds
    BY <1>4, JobIs
  <2> QED
    BY <1>1, <2>1, JobReplaced
<1> QED
  BY <1>2, <1>3, <1>4

\* The task of a reload, and that of an index, is the only one.
LEMMA OneReload ==
    ASSUME ListBounds, ListInv, NEW task \in tasks, task.is \in ReloadKinds,
           task.generation = generation
    PROVE  Reloads(generation) = {task} /\ loading /\ generation # 0 /\ task \in Rows!Tasks
<1>1. task \in Rows!Tasks /\ task.generation \in Rows!Generations
  BY StateIs, JobIs DEF ListInv
<1>2. task \in Reloads(generation) /\ generation \in Rows!Generations /\ generation # 0
  BY <1>1, NumbersAre DEF Reloads
<1>3. ReloadFits
  BY DEF ListInv
<1>4. loading
  BY <1>2, <1>3 DEF ReloadFits
<1>5. \A s \in Reloads(generation) : s = task
  BY <1>2, <1>3 DEF ReloadFits
<1> QED
  BY <1>1, <1>2, <1>4, <1>5

LEMMA OneIndexer ==
    ASSUME ListBounds, ListInv, NEW task \in tasks, task.is \in IndexKinds,
           task.generation = generation
    PROVE  Indexers(generation) = {task} /\ indexing = generation /\ generation # 0
           /\ task \in Rows!Tasks
<1>1. task \in Rows!Tasks /\ task.generation \in Rows!Generations
  BY StateIs, JobIs DEF ListInv
<1>2. task \in Indexers(generation) /\ generation # 0
  BY <1>1, NumbersAre DEF Indexers
<1>3. IndexFits
  BY DEF ListInv
<1>4. indexing = generation
  BY <1>2, <1>3 DEF IndexFits
<1>5. \A s \in Indexers(generation) : s = task
  BY <1>2, <1>3 DEF IndexFits
<1> QED
  BY <1>1, <1>2, <1>4, <1>5

-----------------------------------------------------------------------------
(* Answers that come too late *)

MainVars == <<loading, indexing, rows, placeholder, resolving, early>>
OtherVars == <<onDisk, generation, query, hybrid, collected, listCount>>

LEMMA StaleDropped ==
    ASSUME ListBounds, ListInv, NEW task \in tasks, task.generation # generation,
           tasks' = tasks \ {task}, UNCHANGED <<MainVars, OtherVars>>
    PROVE  ListInv'
<1>1. ListTypes /\ DiskFits /\ TasksFit /\ RowsFit /\ ReloadFits /\ IndexFits
      /\ PlaceholderFits /\ SearchFits
  BY DEF ListInv
<1>2. UNCHANGED <<loading, indexing, rows, placeholder, resolving, early, onDisk,
                  generation, query, hybrid, collected, listCount>>
  BY DEF MainVars, OtherVars
<1>3. /\ Reloads(generation)' = Reloads(generation)
      /\ Indexers(generation)' = Indexers(generation)
      /\ \A g : Reloads(g)' \subseteq Reloads(g)
  BY <1>2, JobDropped DEF Reloads, Indexers
<1>4. Rows!Shown' = Rows!Shown /\ Unread' = Unread /\ Found(generation)' = Found(generation)
  BY <1>2 DEF Rows!Shown, Unread, Found
<1>5. ListTypes'
  BY <1>1, <1>2 DEF ListTypes, Rows!TypeOK
<1>6. DiskFits'
  BY <1>1, <1>2, DiskStays
<1>7. TasksFit'
  BY <1>1, <1>2, FitsStays DEF TasksFit
<1>8. RowsFit'
  BY <1>1, <1>2, <1>4 DEF RowsFit, Rows!RowsAreOfTheNewestReload
<1>9. ReloadFits'
  BY <1>1, <1>2, <1>3, <1>4 DEF ReloadFits, AllAreShown
<1>10. IndexFits'
  BY <1>1, <1>2, <1>3 DEF IndexFits
<1>11. PlaceholderFits'
  BY <1>1, <1>2 DEF PlaceholderFits
<1>12. SearchFits'
  BY <1>1, <1>2, <1>3, <1>4 DEF SearchFits
<1> QED
  BY <1>5, <1>6, <1>7, <1>8, <1>9, <1>10, <1>11, <1>12 DEF ListInv

-----------------------------------------------------------------------------
(* The placeholder and the index *)

LEMMA PlaceholderIsUpdated ==
    ASSUME ListBounds, ListTypes, Rows!UpdatePlaceholder
    PROVE  /\ PlaceholderFits' /\ placeholder' \in {"loading", "resolved"}
           /\ resolving' \in Nat
<1>1. resolving \in Nat /\ placeholder \in {"loading", "resolved"}
  BY DEF ListTypes, Rows!TypeOK
<1>2. CASE \/ loading'
           \/ query' = "fields" /\ indexing' =
               generation' /\ indexing' # 0 /\ rows' # Rows!NoRows
  <2>1. placeholder' = "loading" /\ resolving' = resolving
    BY <1>2 DEF Rows!UpdatePlaceholder
  <2>2. PlaceholderFits'
    BY <1>2 DEF PlaceholderFits
  <2> QED
    BY <1>1, <2>1, <2>2
<1>3. CASE ~(\/ loading'
             \/ query' = "fields" /\ indexing' = generation' /\ indexing' # 0
                /\ rows' # Rows!NoRows)
  <2>1. placeholder' = placeholder /\ resolving' = resolving + 1
    BY <1>3 DEF Rows!UpdatePlaceholder
  <2>2. resolving' \in Nat /\ resolving' # 0
    BY <1>1, <2>1
  <2> QED
    BY <1>1, <2>1, <2>2 DEF PlaceholderFits
<1> QED
  BY <1>2, <1>3

\* The index that begins is of all rows that have none.
LEMMA IndexingStarts ==
    ASSUME ListBounds, ListInv, NEW others \in SUBSET tasks,
           \A t \in tasks : t.is \in IndexKinds => t \in others,
           Rows!StartIndexingIfNeeded(others),
           UNCHANGED <<rows, generation, collected>>, listCount'["faults"] =
               listCount["faults"],
           loading' = loading \/ loading' = FALSE
    PROVE  /\ IndexFits' /\ SearchFits' /\ TasksFit'
           /\ indexing' \in 0..MaxLoads /\ early' \in SUBSET Rows!Generations
           /\ tasks' \subseteq Rows!Tasks
           /\ \A g : Reloads(g)' = {t \in others : t.is \in ReloadKinds /\ t.generation = g}
           /\ generation = 0 => indexing' = 0
<1>1. ListTypes /\ TasksFit /\ RowsFit /\ IndexFits /\ SearchFits
  BY DEF ListInv
<1>2. Unread' = Unread /\ (Unread # {} => generation # 0) /\ Unread \in SUBSET Entries
      /\ (generation # 0 => Unread \subseteq Found(generation))
      /\ Found(generation)' = Found(generation)
  BY <1>1, RowsAreKept, ShownIsFound, FoundIsKept DEF Unread, Found
<1>3. Unread = {e \in Entries : rows'[e] = Rows!Unindexed}
  BY DEF Unread
<1>4. /\ generation \in 0..MaxLoads /\ indexing \in 0..MaxLoads
      /\ early \in SUBSET Rows!Generations /\ tasks \subseteq Rows!Tasks
      /\ (generation # 0 => generation \in Rows!Generations)
  BY <1>1, StateIs DEF ListTypes, Rows!TypeOK
<1>5. \A t \in others : TaskFits(t)'
  BY <1>1, FitsStays DEF TasksFit
<1>6. \A g : {t \in others : t.is \in IndexKinds /\ t.generation = g} = Indexers(g)
  BY DEF Indexers
<1>7. CASE ~(query' = "fields" /\ indexing # generation /\ Unread # {})
  <2>1. indexing' = indexing /\ early' = early /\ tasks' = others
    BY <1>3, <1>7 DEF Rows!StartIndexingIfNeeded
  <2>2. TasksFit' /\ tasks' \subseteq Rows!Tasks
    BY <1>4, <1>5, <2>1 DEF TasksFit
  <2>3. Indexers(generation)' = Indexers(generation)
    BY <1>6, <2>1 DEF Indexers
  <2>4. IndexFits'
    BY <1>1, <2>1, <2>3 DEF IndexFits
  <2>5. SearchFits'
    BY <1>1, <1>2, <1>7, <2>1, <2>3 DEF SearchFits
  <2>6. \A g : Reloads(g)' = {t \in others : t.is \in ReloadKinds /\ t.generation = g}
    BY <2>1 DEF Reloads
  <2> QED
    BY <1>1, <1>4, <2>1, <2>2, <2>4, <2>5, <2>6 DEF RowsFit
<1>8. CASE query' = "fields" /\ indexing # generation /\ Unread # {}
  <2>0. PICK new : new = [is |-> "index", generation |-> generation, requests |-> Unread]
    OBVIOUS
  <2>1. /\ indexing' = generation /\ tasks' = others \cup {new}
        /\ early' = IF loading' THEN early \cup {generation} ELSE early
    BY <1>3, <1>8, <2>0 DEF Rows!StartIndexingIfNeeded
  <2>2. /\ new.is = "index" /\ new.generation = generation /\ new.requests = Unread
        /\ new \in Rows!Tasks
    BY <1>2, <1>4, <1>8, <2>0 DEF Rows!Tasks
  <2>3. generation # 0 /\ generation \in Rows!Generations
    BY <1>2, <1>4, <1>8
  <2>4. indexing = 0 /\ Indexers(generation) = {}
    BY <1>1, <1>8 DEF IndexFits
  <2>5. Indexers(generation)' = {new}
    BY <1>6, <2>1, <2>2, <2>4 DEF Indexers, IndexKinds
  <2>6. IndexFits'
    BY <2>1, <2>3, <2>5 DEF IndexFits
  <2>7. TaskFits(new)'
    <3>1. new.generation <= generation' /\ generation' = generation
      BY <1>1, <2>2, StateIs
    <3>2. new.requests \subseteq Found(new.generation)'
      BY <1>2, <2>2, <2>3
    <3>3. new.is = "index"
      BY <2>2
    <3> QED
      BY ONLY <3>1, <3>2, <3>3 DEF TaskFits
  <2>8. TasksFit'
    BY ONLY <1>5, <2>1, <2>7 DEF TasksFit
  <2>12. tasks' \subseteq Rows!Tasks
    BY ONLY <1>4, <2>1, <2>2, others \in SUBSET tasks
  <2>9. SearchFits'
    BY <1>2, <2>1, <2>2, <2>5 DEF SearchFits
  <2>10. \A g : Reloads(g)' = {t \in others : t.is \in ReloadKinds /\ t.generation = g}
    BY <2>1, <2>2 DEF Reloads, ReloadKinds
  <2>11. early' \in SUBSET Rows!Generations /\ indexing' \in 0..MaxLoads
    BY <1>4, <2>1, <2>3
  <2> QED
    BY <2>3, <2>6, <2>8, <2>9, <2>10, <2>11, <2>12
<1> QED
  BY <1>7, <1>8

-----------------------------------------------------------------------------
(* The end of a reload *)

LEMMA ReloadEnds ==
    ASSUME ListBounds, ListInv, NEW task \in tasks, task.is \in ReloadKinds,
           task.generation = generation, AllAreShown, Rows!FinishReload(tasks \ {task}),
           rows' = rows, UNCHANGED OtherVars
    PROVE  ListInv'
<1>1. ListTypes /\ DiskFits /\ TasksFit /\ RowsFit /\ ReloadFits /\ IndexFits
      /\ PlaceholderFits /\ SearchFits
  BY DEF ListInv
<1>2. UNCHANGED <<rows, onDisk, generation, query, hybrid, collected, listCount>>
  BY DEF OtherVars
<1>3. /\ loading' = FALSE /\ Rows!StartIndexingIfNeeded(tasks \ {task})
      /\ Rows!UpdatePlaceholder
  BY DEF Rows!FinishReload
<1>4. \A t \in tasks : t.is \in IndexKinds => t \in tasks \ {task}
  BY KindsAreTwo
<1>5. /\ IndexFits' /\ SearchFits' /\ TasksFit'
      /\ indexing' \in 0..MaxLoads /\ early' \in SUBSET Rows!Generations
      /\ tasks' \subseteq Rows!Tasks
      /\ \A g : Reloads(g)' =
             {t \in tasks \ {task} : t.is \in ReloadKinds /\ t.generation = g}
      /\ generation = 0 => indexing' = 0
  BY ONLY <1>2, <1>3, <1>4, IndexingStarts, ListBounds, ListInv,
     tasks \ {task} \in SUBSET tasks
<1>6. Reloads(generation) = {task} /\ generation # 0
  BY OneReload
<1>7. /\ {t \in tasks \ {task} : t.is \in ReloadKinds /\ t.generation = generation} = {}
      /\ \A g : Reloads(g)' \subseteq Reloads(g)
  BY <1>5, <1>6 DEF Reloads
<1>8. AllAreShown'
  BY <1>2 DEF AllAreShown, Rows!Shown, Found
<1>9. ReloadFits'
  <2>1. \A g \in Rows!Generations : \A s, t \in Reloads(g)' : s = t
    BY <1>1, <1>7 DEF ReloadFits
  <2>0. PICK g \in Nat : g = generation
    BY <1>1, StateIs
  <2>3. Reloads(g)' = {}
    BY <1>5, <1>7, <2>0
  <2>2. Reloads(generation)' = {}
    BY <1>2, <2>0, <2>3 DEF Reloads
  <2> QED
    BY <1>3, <1>8, <2>1, <2>2 DEF ReloadFits
<1>10. PlaceholderFits' /\ placeholder' \in {"loading", "resolved"} /\ resolving' \in Nat
  BY <1>1, <1>3, PlaceholderIsUpdated
<1>11. ListTypes'
  BY <1>1, <1>2, <1>3, <1>5, <1>10 DEF ListTypes, Rows!TypeOK
<1>12. DiskFits'
  BY <1>1, <1>2, DiskStays
<1>13. RowsFit'
  BY <1>1, <1>2, <1>6, RowsStay
<1> QED
  BY <1>5, <1>9, <1>10, <1>11, <1>12, <1>13 DEF ListInv

LEMMA LostReload ==
    ASSUME ListBounds, ListInv, NEW task \in tasks, task.is = "lost",
           task.generation = generation, tasks' = tasks \ {task},
           UNCHANGED <<rows, indexing, early>>, loading' = FALSE, Rows!UpdatePlaceholder,
           UNCHANGED OtherVars
    PROVE  ListInv'
<1>1. ListTypes /\ DiskFits /\ TasksFit /\ RowsFit /\ ReloadFits /\ IndexFits
      /\ PlaceholderFits /\ SearchFits
  BY DEF ListInv
<1>2. UNCHANGED <<rows, onDisk, generation, query, hybrid, collected, listCount>>
  BY DEF OtherVars
<1>3. task.is \in ReloadKinds
  BY DEF ReloadKinds
<1>4. Reloads(generation) = {task} /\ generation # 0
  BY <1>3, OneReload
<1>5. listCount["faults"] > 0 /\ Rows!Shown = {}
  BY <1>1, <1>4 DEF TasksFit, TaskFits, ReloadFits
<1>6. /\ Reloads(generation)' = {} /\ (\A g : Reloads(g)' \subseteq Reloads(g))
      /\ Indexers(generation)' = Indexers(generation)
  <2>1. task \notin Indexers(generation)
    BY <1>3, KindsAreTwo DEF Indexers
  <2> QED
    BY <1>2, <1>4, <2>1, NowDropped, JobDropped
<1>7. AllAreShown'
  BY <1>2, <1>5 DEF AllAreShown, Rows!Shown
<1>8. ReloadFits'
  <2>1. \A g \in Rows!Generations : \A s, t \in Reloads(g)' : s = t
    BY <1>1, <1>6 DEF ReloadFits
  <2> QED
    BY <1>2, <1>6, <1>7, <2>1 DEF ReloadFits
<1>9. PlaceholderFits' /\ placeholder' \in {"loading", "resolved"} /\ resolving' \in Nat
  BY <1>1, PlaceholderIsUpdated
<1>10. ListTypes'
  BY <1>1, <1>2, <1>9 DEF ListTypes, Rows!TypeOK
<1>11. DiskFits'
  BY <1>1, <1>2, DiskStays
<1>12. TasksFit'
  BY <1>1, <1>2, FitsStays DEF TasksFit
<1>13. RowsFit'
  BY <1>1, <1>2, <1>4, RowsStay
<1>14. IndexFits'
  BY <1>1, <1>2, <1>6 DEF IndexFits
<1>15. SearchFits'
  <2>1. listCount'["faults"] # 0
    BY <1>1, <1>2, <1>5, StateIs
  <2> QED
    BY <2>1 DEF SearchFits
<1> QED
  BY <1>8, <1>9, <1>10, <1>11, <1>12, <1>13, <1>14, <1>15 DEF ListInv

-----------------------------------------------------------------------------
(* Batches of rows *)

LEMMA BatchesBegin ==
    ASSUME ListBounds, ListInv, NEW task \in tasks, task.is = "collected",
           task.generation = generation,
           NEW new \in Rows!Tasks, new.is = "render", new.generation = task.generation,
           new.left = {e \in Entries : task.items[e] # 0},
           tasks' = (tasks \ {task}) \cup {new}, UNCHANGED <<MainVars, OtherVars>>
    PROVE  ListInv'
<1>1. ListTypes /\ DiskFits /\ TasksFit /\ RowsFit /\ ReloadFits /\ IndexFits
      /\ PlaceholderFits /\ SearchFits
  BY DEF ListInv
<1>2. UNCHANGED <<loading, indexing, rows, placeholder, resolving, early, onDisk,
                  generation, query, hybrid, collected, listCount>>
  BY DEF MainVars, OtherVars
<1>3. task.is \in ReloadKinds /\ new.is \in ReloadKinds
  BY DEF ReloadKinds
<1>4. Reloads(generation) = {task} /\ generation # 0 /\ loading /\ task \in Rows!Tasks
  BY <1>3, OneReload
<1>5. /\ Reloads(generation)' = {new}
      /\ Indexers(generation)' = Indexers(generation)
  BY <1>2, <1>3, <1>4, NowReplaced
<1>6. Rows!Shown = {} /\ task.items = collected[generation]
  BY <1>1, <1>4 DEF TasksFit, TaskFits, ReloadFits
<1>7. new.left = Found(generation) /\ Found(generation)' = Found(generation)
      /\ Rows!Shown' = Rows!Shown /\ Unread' = Unread
  BY <1>2, <1>6 DEF Found, Rows!Shown, Unread
<1>8. ListTypes'
  BY <1>1, <1>2 DEF ListTypes, Rows!TypeOK
<1>9. DiskFits'
  BY <1>1, <1>2, DiskStays
<1>10. TasksFit'
  <2>1. \A t \in tasks : TaskFits(t)'
    BY <1>1, <1>2, FitsStays DEF TasksFit
  <2>2. generation <= generation'
    BY <1>1, <1>2, StateIs
  <2>3. TaskFits(new)'
    BY <1>2, <1>7, <2>2 DEF TaskFits
  <2> QED
    BY <2>1, <2>3 DEF TasksFit
<1>11. RowsFit'
  BY <1>1, <1>2, <1>4, RowsStay
<1>12. ReloadFits'
  <2>1. \A g \in Rows!Generations : \A s, t \in Reloads(g)' : s = t
    BY <1>1, <1>3, <1>4, StillOne
  <2> QED
    BY <1>2, <1>4, <1>5, <1>6, <1>7, <2>1 DEF ReloadFits
<1>13. IndexFits'
  BY <1>1, <1>2, <1>5 DEF IndexFits
<1>14. PlaceholderFits'
  BY <1>1, <1>2 DEF PlaceholderFits
<1>15. SearchFits'
  BY <1>1, <1>2, <1>5, <1>7 DEF SearchFits
<1> QED
  BY <1>8, <1>9, <1>10, <1>11, <1>12, <1>13, <1>14, <1>15 DEF ListInv

LEMMA BatchIsIn ==
    ASSUME ListBounds, ListInv, NEW task \in tasks, task.is = "render",
           task.generation = generation, NEW e \in task.left,
           NEW new \in Rows!Tasks, new.is = "render", new.generation = task.generation,
           new.left = task.left \ {e}, rows' = [rows EXCEPT ![e] = Rows!Unindexed],
           tasks' = (tasks \ {task}) \cup {new},
           UNCHANGED <<loading, indexing, placeholder, resolving, early>>,
           UNCHANGED OtherVars
    PROVE  ListInv'
<1>1. ListTypes /\ DiskFits /\ TasksFit /\ RowsFit /\ ReloadFits /\ IndexFits
      /\ PlaceholderFits /\ SearchFits
  BY DEF ListInv
<1>2. UNCHANGED <<loading, indexing, placeholder, resolving, early, onDisk,
                  generation, query, hybrid, collected, listCount>>
  BY DEF OtherVars
<1>3. task.is \in ReloadKinds /\ new.is \in ReloadKinds
  BY DEF ReloadKinds
<1>4. Reloads(generation) = {task} /\ generation # 0 /\ loading /\ task \in Rows!Tasks
      /\ generation \in Rows!Generations
  BY <1>1, <1>3, OneReload, StateIs
<1>5. /\ Reloads(generation)' = {new}
      /\ Indexers(generation)' = Indexers(generation)
  BY <1>2, <1>3, <1>4, NowReplaced
<1>6. /\ Rows!Shown \cup task.left = Found(generation) /\ Rows!Shown \cap task.left = {}
      /\ task.left \in SUBSET Entries
  BY <1>1, <1>4, JobIs DEF ReloadFits
<1>7. /\ rows \in [Entries -> Rows!IndexStates] /\ Rows!Unindexed \in Rows!IndexStates
      /\ Rows!Unindexed # Rows!NoRow
  BY <1>1, NumbersAre DEF ListTypes, Rows!TypeOK, Rows!IndexStates
<1>8. rows' \in [Entries -> Rows!IndexStates] /\ rows'[e] = Rows!Unindexed
      /\ (\A f \in Entries : f # e => rows'[f] = rows[f])
  BY <1>6, <1>7
<1>9. Rows!Shown' = Rows!Shown \cup {e}
  BY <1>6, <1>7, <1>8 DEF Rows!Shown
<1>10. Found(generation)' = Found(generation)
  BY <1>2 DEF Found
<1>11. ListTypes'
  BY <1>1, <1>2, <1>8 DEF ListTypes, Rows!TypeOK
<1>12. DiskFits'
  BY <1>1, <1>2, DiskStays
<1>13. TasksFit'
  <2>1. \A t \in tasks : TaskFits(t)'
    BY <1>1, <1>2, FitsStays DEF TasksFit
  <2>2. generation <= generation'
    BY <1>1, <1>2, StateIs
  <2>3. TaskFits(new)'
    BY <1>2, <1>6, <1>10, <2>2 DEF TaskFits
  <2> QED
    BY <2>1, <2>3 DEF TasksFit
<1>14. RowsFit'
  <2>1. e \in Found(generation) /\ Rows!Unindexed \notin Rows!FileVersions
    BY <1>6, NumbersAre
  <2>2. Rows!RowsAreOfTheNewestReload
    BY <1>1, <1>4 DEF RowsFit
  <2>3. \A f \in Rows!Shown' :
            /\ collected[generation][f] # 0
            /\ rows'[f] \in Rows!FileVersions => rows'[f] >= collected[generation][f]
    <3> SUFFICES ASSUME NEW f \in Rows!Shown'
                 PROVE  /\ collected[generation][f] # 0
                        /\ rows'[f] \in Rows!FileVersions =>
                               rows'[f] >= collected[generation][f]
      OBVIOUS
    <3>1. CASE f = e
      BY <1>8, <2>1, <3>1 DEF Found
    <3>2. CASE f # e
      <4>1. f \in Rows!Shown /\ f \in Entries
        BY <1>9, <3>2 DEF Rows!Shown
      <4> QED
        BY <1>8, <2>2, <3>2, <4>1 DEF Rows!RowsAreOfTheNewestReload
    <3> QED
      BY <3>1, <3>2
  <2> QED
    BY <1>2, <1>4, <2>3 DEF RowsFit, Rows!RowsAreOfTheNewestReload
<1>15. ReloadFits'
  <2>1. \A g \in Rows!Generations : \A s, t \in Reloads(g)' : s = t
    BY <1>1, <1>3, <1>4, StillOne
  <2>2. Rows!Shown' \cup new.left = Found(generation) /\ Rows!Shown' \cap new.left = {}
    BY <1>6, <1>9
  <2> QED
    BY <1>2, <1>4, <1>5, <1>10, <2>1, <2>2 DEF ReloadFits
<1>16. IndexFits'
  BY <1>1, <1>2, <1>5 DEF IndexFits
<1>17. PlaceholderFits'
  BY <1>2, <1>4 DEF PlaceholderFits
<1>18. SearchFits'
  BY <1>1, <1>2, <1>4, <1>5 DEF SearchFits
<1> QED
  BY <1>11, <1>12, <1>13, <1>14, <1>15, <1>16, <1>17, <1>18 DEF ListInv

-----------------------------------------------------------------------------
(* The end of an index *)

LEMMA IndexEnds ==
    ASSUME ListBounds, ListInv, NEW task \in tasks, task.is \in {"indexed", "unindexable"},
           task.generation = generation, tasks' = tasks \ {task},
           indexing' = IF indexing = task.generation THEN 0 ELSE indexing,
           rows' \in [Entries -> Rows!IndexStates], Rows!Shown' = Rows!Shown,
           \A e \in Rows!Shown : rows'[e] = rows[e] \/ AsNew(rows'[e], generation, e),
           Unread' \subseteq Unread,
           task.is = "indexed" => Unread' \cap task.requests = {},
           UNCHANGED <<loading, early>>, Rows!UpdatePlaceholder, UNCHANGED OtherVars
    PROVE  ListInv'
<1>1. ListTypes /\ DiskFits /\ TasksFit /\ RowsFit /\ ReloadFits /\ IndexFits
      /\ PlaceholderFits /\ SearchFits
  BY DEF ListInv
<1>2. UNCHANGED <<loading, early, onDisk, generation, query, hybrid, collected, listCount>>
  BY DEF OtherVars
<1>3. task.is \in IndexKinds
  BY DEF IndexKinds
<1>4. /\ Indexers(generation) = {task} /\ generation # 0 /\ task \in Rows!Tasks
      /\ indexing = generation
      /\ generation \in Rows!Generations
  BY <1>1, <1>3, OneIndexer, StateIs
<1>5. indexing' = 0
  BY <1>4
<1>6. /\ Indexers(generation)' = {} /\ (\A g : Reloads(g)' = Reloads(g))
      /\ Reloads(generation)' = Reloads(generation)
  <2>1. \A g : task \notin Reloads(g)
    BY <1>3, KindsAreTwo DEF Reloads
  <2>2. Indexers(generation)' = Indexers(generation) \ {task}
        /\ Reloads(generation)' = Reloads(generation) \ {task}
    BY <1>2, NowDropped
  <2>3. \A g : Reloads(g)' = Reloads(g) \ {task}
    BY JobDropped
  <2> QED
    BY <1>4, <2>1, <2>2, <2>3
<1>7. Found(generation)' = Found(generation)
  BY <1>2 DEF Found
<1>8. PlaceholderFits' /\ placeholder' \in {"loading", "resolved"} /\ resolving' \in Nat
  BY <1>1, PlaceholderIsUpdated
<1>9. ListTypes'
  <2>1. indexing' \in 0..MaxLoads /\ tasks' \subseteq Rows!Tasks
    BY <1>1, <1>5 DEF ListTypes, Rows!TypeOK, ListBounds
  <2> QED
    BY <1>1, <1>2, <1>8, <2>1 DEF ListTypes, Rows!TypeOK
<1>10. DiskFits'
  BY <1>1, <1>2, DiskStays
<1>11. TasksFit'
  BY <1>1, <1>2, FitsStays DEF TasksFit
<1>12. RowsFit'
  <2>1. Rows!RowsAreOfTheNewestReload
    BY <1>1, <1>4 DEF RowsFit
  <2>2. \A f \in Rows!Shown :
            /\ collected[generation][f] # 0
            /\ rows'[f] \in Rows!FileVersions => rows'[f] >= collected[generation][f]
    BY <2>1 DEF Rows!RowsAreOfTheNewestReload, AsNew
  <2> QED
    BY <1>2, <1>4, <2>2 DEF RowsFit, Rows!RowsAreOfTheNewestReload
<1>13. ReloadFits'
  <2>1. \A g \in Rows!Generations : \A s, t \in Reloads(g)' : s = t
    BY <1>1, <1>6 DEF ReloadFits
  <2>2. AllAreShown' <=> AllAreShown
    BY <1>2, <1>7 DEF AllAreShown
  <2> QED
    BY <1>1, <1>2, <1>6, <1>7, <2>1, <2>2 DEF ReloadFits
<1>14. IndexFits'
  BY <1>2, <1>5, <1>6 DEF IndexFits
<1>15. SearchFits'
  <2>1. task.is = "unindexable" => listCount["faults"] > 0
    BY <1>1 DEF TasksFit, TaskFits
  <2>2. SUFFICES ASSUME generation \notin early, listCount["faults"] = 0
                 PROVE  Unread' = {}
    BY <1>2, <1>4, <1>5 DEF SearchFits
  <2>3. task.is = "indexed"
    BY <2>1, <2>2
  <2>4. Unread \subseteq task.requests
    BY <1>1, <1>4, <2>2, <2>3 DEF SearchFits
  <2> QED
    BY <2>3, <2>4
<1> QED
  BY <1>8, <1>9, <1>10, <1>11, <1>12, <1>13, <1>14, <1>15 DEF ListInv

-----------------------------------------------------------------------------
(* A reload and a query begin *)

ListCounts == [{"queries", "changes", "faults"} -> Nat]

LEMMA ReloadBegins ==
    ASSUME ListBounds, ListInv, Rows!BeginReload, query' \in {"empty", "plain", "fields"},
           UNCHANGED <<onDisk, hybrid, collected>>, listCount' \in ListCounts,
           listCount'["changes"] = listCount["changes"],
           listCount'["faults"] = listCount["faults"]
    PROVE  ListInv'
<1>1. ListTypes /\ DiskFits /\ TasksFit /\ RowsFit /\ ReloadFits /\ IndexFits
      /\ PlaceholderFits /\ SearchFits
  BY DEF ListInv
<1>2. PICK next \in Nat : next = generation + 1
  BY <1>1, StateIs
<1>3. PICK new : new = [is |-> "collect", generation |-> next]
  OBVIOUS
<1>4. /\ generation < MaxLoads /\ generation' = next /\ indexing' = 0 /\ loading' = TRUE
      /\ rows' = Rows!NoRows /\ tasks' = tasks \cup {new} /\ placeholder' = "loading"
      /\ resolving' = resolving /\ early' = early
  BY <1>2, <1>3 DEF Rows!BeginReload
<1>5. next \in Rows!Generations /\ next > generation /\ next # 0 /\ generation \in Nat
  BY <1>1, <1>2, <1>4, StateIs, NumbersAre DEF ListBounds
<1>6. /\ new \in Rows!Tasks /\ new.is = "collect" /\ new.generation = next
      /\ new.is \in ReloadKinds
  BY <1>3, <1>5 DEF Rows!Tasks, ReloadKinds
<1>7. collected[next] = Rows!NoEntries
  BY <1>1, <1>5 DEF DiskFits
<1>8. \A t \in tasks :
          /\ t \in Rows!Tasks /\ t.generation <= generation /\ t.generation \in Nat
          /\ t.generation # next
  <2>1. \A t \in tasks : t \in Rows!Tasks /\ t.generation <= generation
    BY <1>1, StateIs DEF TasksFit, TaskFits
  <2>2. \A t \in tasks : t.generation \in Nat
    BY <2>1, JobIs, NumbersAre
  <2> QED
    BY <1>2, <1>5, <2>1, <2>2
<1>9. Rows!Shown' = {} /\ Unread' = {}
  BY <1>4, NoEntriesAre, NumbersAre DEF Rows!Shown, Unread
<1>10. /\ Reloads(generation)' = {new} /\ Indexers(generation)' = {}
       /\ \A g : Reloads(g)' = IF g = next THEN {new} ELSE Reloads(g)
  <2>1. \A g : Reloads(g)' = IF g = next THEN {new} ELSE Reloads(g)
    BY <1>4, <1>6, <1>8 DEF Reloads
  <2>2. Reloads(generation)' = {new}
    BY <1>4, <1>6, <1>8 DEF Reloads
  <2>3. Indexers(generation)' = {}
    BY <1>4, <1>6, <1>8, KindsAreTwo DEF Indexers
  <2> QED
    BY <2>1, <2>2, <2>3
<1>11. ListTypes'
  <2>1. /\ generation' \in 0..MaxLoads /\ indexing' \in 0..MaxLoads
        /\ tasks' \subseteq Rows!Tasks
    BY <1>1, <1>4, <1>5, <1>6, <1>8, NumbersAre DEF ListBounds
  <2>2. rows' \in [Entries -> Rows!IndexStates] /\ loading' \in BOOLEAN
    BY <1>4, NoEntriesAre
  <2> QED
    BY <1>1, <1>4, <2>1, <2>2 DEF ListTypes, Rows!TypeOK, ListCounts
<1>12. DiskFits'
  BY <1>1, <1>4, <1>5, NumbersAre DEF DiskFits
<1>13. TasksFit'
  <2>1. \A t \in tasks : TaskFits(t)'
    BY <1>1, <1>2, <1>4, <1>5, <1>8 DEF TasksFit, TaskFits, Found, AsNew
  <2>2. TaskFits(new)'
    BY <1>4, <1>5, <1>6, <1>7 DEF TaskFits
  <2> QED
    BY <1>4, <2>1, <2>2 DEF TasksFit
<1>14. RowsFit'
  BY <1>4, <1>5, <1>9 DEF RowsFit, Rows!RowsAreOfTheNewestReload
<1>15. ReloadFits'
  <2>1. \A g \in Rows!Generations : \A s, t \in Reloads(g)' : s = t
    BY <1>1, <1>10 DEF ReloadFits
  <2> QED
    BY <1>4, <1>6, <1>9, <1>10, <2>1 DEF ReloadFits
<1>16. IndexFits'
  BY <1>4, <1>10 DEF IndexFits
<1>17. PlaceholderFits'
  BY <1>4 DEF PlaceholderFits
<1>18. SearchFits'
  BY <1>4, <1>5, <1>9 DEF SearchFits
<1> QED
  BY <1>11, <1>12, <1>13, <1>14, <1>15, <1>16, <1>17, <1>18 DEF ListInv

LEMMA QueryChanges ==
    ASSUME ListBounds, ListInv, query' \in {"empty", "plain", "fields"},
           UNCHANGED <<generation, loading, rows>>, Rows!StartIndexingIfNeeded(tasks),
           Rows!UpdatePlaceholder, UNCHANGED <<onDisk, hybrid, collected>>, listCount' \in
               ListCounts,
           listCount'["changes"] = listCount["changes"],
           listCount'["faults"] = listCount["faults"]
    PROVE  ListInv'
<1>1. ListTypes /\ DiskFits /\ TasksFit /\ RowsFit /\ ReloadFits /\ IndexFits
      /\ PlaceholderFits /\ SearchFits
  BY DEF ListInv
<1>2. /\ IndexFits' /\ SearchFits' /\ TasksFit'
      /\ indexing' \in 0..MaxLoads /\ early' \in SUBSET Rows!Generations
      /\ tasks' \subseteq Rows!Tasks
      /\ \A g : Reloads(g)' = {t \in tasks : t.is \in ReloadKinds /\ t.generation = g}
      /\ generation = 0 => indexing' = 0
  BY IndexingStarts, tasks \in SUBSET tasks
<1>3. \A g : Reloads(g)' = Reloads(g)
  BY <1>2 DEF Reloads
<1>4. Reloads(generation)' = Reloads(generation)
  <2>1. PICK g \in Nat : g = generation
    BY <1>1, StateIs
  <2>2. Reloads(g)' = Reloads(g)
    BY <1>3
  <2> QED
    BY <2>1, <2>2 DEF Reloads
<1>5. Rows!Shown' = Rows!Shown /\ Found(generation)' = Found(generation)
  BY DEF Rows!Shown, Found
<1>6. PlaceholderFits' /\ placeholder' \in {"loading", "resolved"} /\ resolving' \in Nat
  BY <1>1, PlaceholderIsUpdated
<1>7. ListTypes'
  BY <1>1, <1>2, <1>6 DEF ListTypes, Rows!TypeOK, ListCounts
<1>8. DiskFits'
  BY <1>1 DEF DiskFits
<1>9. RowsFit'
  BY <1>1, <1>2, <1>5 DEF RowsFit, Rows!RowsAreOfTheNewestReload
<1>10. ReloadFits'
  <2>1. \A g \in Rows!Generations : \A s, t \in Reloads(g)' : s = t
    BY <1>1, <1>3 DEF ReloadFits
  <2>2. AllAreShown' <=> AllAreShown
    BY <1>5 DEF AllAreShown
  <2> QED
    BY <1>1, <1>4, <1>5, <2>1, <2>2 DEF ReloadFits
<1> QED
  BY <1>2, <1>6, <1>7, <1>8, <1>9, <1>10 DEF ListInv

-----------------------------------------------------------------------------
(* The workers *)

\* The worker has listed the stores.
LEMMA ItemsAreCollected ==
    ASSUME ListBounds, ListInv, NEW task \in tasks, Rows!CollectItems(task),
           UNCHANGED <<onDisk, generation, loading, query, indexing, rows, placeholder,
                       resolving, hybrid, early>>
    PROVE  ListInv'
<1>1. ListTypes /\ DiskFits /\ TasksFit /\ RowsFit /\ ReloadFits /\ IndexFits
      /\ PlaceholderFits /\ SearchFits
  BY DEF ListInv
<1>2. PICK new :
          new = [is |-> "collected", generation |-> task.generation, items |-> onDisk]
  OBVIOUS
<1>3. /\ task.is = "collect" /\ tasks' = (tasks \ {task}) \cup {new}
      /\ collected' = [collected EXCEPT ![task.generation] = onDisk]
      /\ listCount' = listCount
  BY <1>2 DEF Rows!CollectItems
<1>4. /\ task \in Rows!Tasks /\ task.generation \in Rows!Generations
      /\ task.is \in ReloadKinds
      /\ task.generation <= generation /\ collected[task.generation] = Rows!NoEntries
  BY <1>1, <1>3, StateIs, JobIs DEF TasksFit, TaskFits, ReloadKinds
<1>5. PICK g \in Rows!Generations : g = task.generation
  BY <1>4
<1>6. onDisk \in Rows!Contents /\ collected \in [Rows!Generations -> Rows!Contents]
  BY <1>1 DEF ListTypes, Rows!TypeOK
<1>7. /\ collected' \in [Rows!Generations -> Rows!Contents] /\ collected'[g] = onDisk
      /\ \A f \in Rows!Generations : f # g => collected'[f] = collected[f]
  BY <1>3, <1>5, <1>6
<1>8. /\ new \in Rows!Tasks /\ new.is = "collected" /\ new.generation = g
      /\ new.items = onDisk
      /\ new.is \in ReloadKinds
  BY <1>2, <1>4, <1>5, <1>6 DEF Rows!Tasks, ReloadKinds
<1>9. \A t \in tasks \ {task} : t.generation = g => t.is \in IndexKinds
  <2> SUFFICES ASSUME NEW t \in tasks \ {task}, t.generation = g, t.is \notin IndexKinds
               PROVE  FALSE
    OBVIOUS
  <2>1. t.is \in ReloadKinds
    BY <1>1, StateIs, JobIs
  <2>2. t \in Reloads(g) /\ task \in Reloads(g)
    BY <1>4, <1>5, <2>1 DEF Reloads
  <2> QED
    BY <1>1, <2>2 DEF ReloadFits
<1>10. ListTypes'
  <2>1. tasks' \subseteq Rows!Tasks
    BY <1>1, <1>3, <1>8 DEF ListTypes, Rows!TypeOK
  <2> QED
    BY <1>1, <1>3, <1>7, <2>1 DEF ListTypes, Rows!TypeOK
<1>11. DiskFits'
  <2>1. \A e \in Entries : /\ onDisk[e] <= listCount["changes"] + 1
                           /\ onDisk[e] # 0 => (onDisk[e] = 0 \/ onDisk[e] >= onDisk[e])
    BY <1>1, StateIs DEF DiskFits
  <2>2. \A f \in Rows!Generations, e \in Entries :
           /\ collected'[f][e] <= listCount["changes"] + 1
           /\ collected'[f][e] # 0 => (onDisk[e] = 0 \/ onDisk[e] >= collected'[f][e])
    BY <1>1, <1>7, <2>1 DEF DiskFits
  <2>3. \A f \in Rows!Generations : f > generation => collected'[f] = Rows!NoEntries
    <3> SUFFICES ASSUME NEW f \in Rows!Generations, f > generation
                 PROVE  collected'[f] = Rows!NoEntries
      OBVIOUS
    <3>1. f # g
      BY <1>1, <1>4, <1>5, StateIs, NumbersAre
    <3> QED
      BY <1>1, <1>7, <3>1 DEF DiskFits
  <2> QED
    BY <1>3, <2>1, <2>2, <2>3 DEF DiskFits
<1>12. TasksFit'
  <2>1. \A t \in tasks \ {task} : TaskFits(t)'
    <3> SUFFICES ASSUME NEW t \in tasks \ {task}
                 PROVE  TaskFits(t)'
      OBVIOUS
    <3>1. TaskFits(t) /\ t \in Rows!Tasks
      BY <1>1, StateIs DEF TasksFit
    <3>2. CASE t.generation # g
      <4>1. collected'[t.generation] = collected[t.generation]
        BY <1>7, <3>1, <3>2, JobIs
      <4> QED
        BY <1>3, <3>1, <4>1 DEF TaskFits, Found, AsNew
    <3>3. CASE t.generation = g
      <4>1. t.is \in IndexKinds
        BY <1>9, <3>3
      <4>2. t.is \in {"index", "indexed"} => t.requests = {}
        BY <1>4, <1>5, <3>1, <3>3, NoEntriesAre DEF TaskFits, Found
      <4> QED
        BY <1>3, <3>1, <4>1, <4>2 DEF TaskFits, IndexKinds
    <3> QED
      BY <3>2, <3>3
  <2>2. TaskFits(new)'
    BY <1>4, <1>5, <1>7, <1>8 DEF TaskFits
  <2> QED
    BY <1>3, <2>1, <2>2 DEF TasksFit
<1>13. generation = g => (Rows!Shown = {} /\ generation # 0 /\ loading)
  BY <1>1, <1>3, <1>4, <1>5, OneReload DEF ReloadFits
<1>14. generation \in Rows!Generations =>
           (generation = g \/ collected'[generation] = collected[generation])
  BY <1>7
<1>15. RowsFit'
  <2>1. CASE generation = 0
    BY <1>1, <2>1 DEF RowsFit, Rows!Shown
  <2>2. CASE generation # 0
    <3>1. Rows!RowsAreOfTheNewestReload /\ generation \in Rows!Generations
      BY <1>1, <2>2, StateIs DEF RowsFit
    <3>2. \A e \in Rows!Shown :
            /\ collected'[generation][e] # 0
            /\ rows[e] \in Rows!FileVersions => rows[e] >= collected'[generation][e]
      BY <1>13, <1>14, <3>1 DEF Rows!RowsAreOfTheNewestReload
    <3> QED
      BY <2>2, <3>2 DEF RowsFit, Rows!RowsAreOfTheNewestReload, Rows!Shown
  <2> QED
    BY <2>1, <2>2
<1>16. Indexers(generation)' = Indexers(generation)
       /\ (generation # g => Reloads(generation)' = Reloads(generation))
       /\ (generation = g => Reloads(generation)' = {new})
  <2>1. generation = g => Reloads(generation) = {task}
    BY <1>4, <1>5, OneReload
  <2> QED
    BY <1>3, <1>4, <1>5, <1>8, <2>1, NowReplaced
<1>17. ReloadFits'
  <2>1. \A f \in Rows!Generations : \A s, t \in Reloads(f)' : s = t
    BY <1>1, <1>3, <1>4, <1>5, <1>8, StillOne
  <2>2. Rows!Shown' = Rows!Shown
    BY RowsAreKept
  <2>3. CASE generation = g
    BY <1>8, <1>13, <1>16, <2>1, <2>2, <2>3 DEF ReloadFits
  <2>4. CASE generation # g
    <3>1. generation # 0 => Found(generation)' = Found(generation)
      BY <1>1, <1>14, <2>4, StateIs DEF Found
    <3>2. Reloads(generation)' = Reloads(generation)
      BY <1>16, <2>4
    <3>3. generation = 0 => Reloads(generation) = {}
      BY <1>1, StateIs, JobIs, NumbersAre DEF Reloads
    <3>4. generation # 0 => (AllAreShown' <=> AllAreShown)
      BY <1>3, <2>2, <3>1 DEF AllAreShown
    <3> QED
      BY <1>1, <2>1, <2>2, <3>1, <3>2, <3>3, <3>4 DEF ReloadFits
  <2> QED
    BY <2>3, <2>4
<1>18. IndexFits' /\ PlaceholderFits' /\ SearchFits'
  <2>1. IndexFits'
    BY <1>1, <1>16 DEF IndexFits
  <2>2. PlaceholderFits'
    BY <1>1 DEF PlaceholderFits
  <2>3. Unread' = Unread
    BY RowsAreKept
  <2>4. SearchFits'
    BY <1>1, <1>3, <1>16, <2>3 DEF SearchFits
  <2> QED
    BY <2>1, <2>2, <2>4
<1> QED
  BY <1>10, <1>11, <1>12, <1>15, <1>17, <1>18 DEF ListInv

\* A worker answers with an index, or dies.
LEMMA WorkerIsDone ==
    ASSUME ListBounds, ListInv, NEW task \in tasks, NEW new \in Rows!Tasks,
           new.generation = task.generation, tasks' = (tasks \ {task}) \cup {new},
           \/ task.is = "collect" /\ new.is = "lost"
           \/ task.is = "index" /\ new.is = "unindexable"
           \/ /\ task.is = "index" /\ new.is = "indexed" /\ new.requests = task.requests
              /\ \A e \in new.requests : AsNew(new.results[e], new.generation, e),
           new.is \in {"lost", "unindexable"} => listCount'["faults"] > 0,
           listCount["faults"] > 0 => listCount'["faults"] > 0,
           listCount' \in ListCounts, listCount'["changes"] = listCount["changes"],
           UNCHANGED <<onDisk, generation, loading, query, indexing, rows, placeholder,
                       resolving, hybrid, collected, early>>
    PROVE  ListInv'
<1>1. ListTypes /\ DiskFits /\ TasksFit /\ RowsFit /\ ReloadFits /\ IndexFits
      /\ PlaceholderFits /\ SearchFits
  BY DEF ListInv
<1>2. /\ task \in Rows!Tasks /\ task.generation <= generation
      /\ new.is \in ReloadKinds <=> task.is \in ReloadKinds
      /\ new.is \in ReloadKinds => new.is = "lost" /\ task.is = "collect"
      /\ task.is \in {"index"} => task.requests \subseteq Found(task.generation)
  BY <1>1, StateIs DEF TasksFit, TaskFits, ReloadKinds
<1>3. Rows!Shown' = Rows!Shown /\ Unread' = Unread /\ Found(generation)' = Found(generation)
  BY DEF Rows!Shown, Unread, Found
<1>4. ListTypes'
  <2>1. tasks' \subseteq Rows!Tasks
    BY <1>1 DEF ListTypes, Rows!TypeOK
  <2> QED
    BY <1>1, <2>1 DEF ListTypes, Rows!TypeOK, ListCounts
<1>5. DiskFits'
  BY <1>1 DEF DiskFits
<1>6. TasksFit'
  <2>1. \A t \in tasks : TaskFits(t)'
    BY <1>1, FitsStays DEF TasksFit
  <2>2. TaskFits(new)'
    BY <1>2 DEF TaskFits, Found, AsNew
  <2> QED
    BY <2>1, <2>2 DEF TasksFit
<1>7. RowsFit'
  BY <1>1, <1>3 DEF RowsFit, Rows!RowsAreOfTheNewestReload
<1>8. ReloadFits'
  <2>1. \A g \in Rows!Generations : \A s, t \in Reloads(g)' : s = t
    BY <1>1, <1>2, StillOne
  <2>2. AllAreShown => AllAreShown'
    <3>1. listCount["faults"] \in Nat
      BY <1>1, StateIs
    <3> QED
      BY <1>3, <3>1 DEF AllAreShown
  <2>3. CASE task.is \in ReloadKinds /\ task.generation = generation
    <3>1. Reloads(generation) = {task} /\ loading
      BY <2>3, OneReload
    <3>2. Reloads(generation)' = {new}
      BY <1>2, <2>3, <3>1, NowReplaced
    <3>3. new.is = "lost" /\ task.is = "collect"
      BY <1>2, <2>3
    <3>4. Rows!Shown = {}
      BY <1>1, <3>1, <3>3 DEF ReloadFits
    <3> QED
      BY <1>3, <2>1, <3>1, <3>2, <3>3, <3>4 DEF ReloadFits
  <2>4. CASE ~(task.is \in ReloadKinds /\ task.generation = generation)
    <3>1. Reloads(generation)' = Reloads(generation)
      BY <1>2, <2>4, NowReplaced, JobIs
    <3> QED
      BY <1>1, <1>3, <2>1, <2>2, <3>1 DEF ReloadFits
  <2> QED
    BY <2>3, <2>4
<1>9. IndexFits' /\ SearchFits'
  <2>1. CASE task.is \in IndexKinds /\ task.generation = generation
    <3>1. Indexers(generation) = {task} /\ indexing = generation /\ generation # 0
      BY <2>1, OneIndexer
    <3>2. Indexers(generation)' = {new}
      BY <1>2, <2>1, <3>1, NowReplaced
    <3>3. IndexFits'
      BY <1>1, <3>1, <3>2 DEF IndexFits
    <3>4. task.is = "index"
      BY <2>1 DEF IndexKinds
    <3>5. listCount'["faults"] = 0 => (listCount["faults"] = 0 /\ new.is = "indexed"
                                       /\ new.requests = task.requests)
      BY <1>1, <3>4, StateIs
    <3>6. SearchFits'
      BY <1>1, <1>3, <3>1, <3>2, <3>4, <3>5 DEF SearchFits
    <3> QED
      BY <3>3, <3>6
  <2>2. CASE ~(task.is \in IndexKinds /\ task.generation = generation)
    <3>1. Indexers(generation)' = Indexers(generation)
      BY <1>2, <2>2, NowReplaced, JobIs
    <3>2. listCount'["faults"] = 0 => listCount["faults"] = 0
      BY <1>1, StateIs
    <3> QED
      BY <1>1, <1>3, <3>1, <3>2 DEF IndexFits, SearchFits
  <2> QED
    BY <2>1, <2>2
<1>10. PlaceholderFits'
  BY <1>1 DEF PlaceholderFits
<1> QED
  BY <1>4, <1>5, <1>6, <1>7, <1>8, <1>9, <1>10 DEF ListInv

-----------------------------------------------------------------------------
(* All steps *)

LEMMA CountedUp ==
    ASSUME ListBounds, ListTypes, NEW what \in
           {"queries", "changes", "faults"}, NEW limit \in Nat,
           Rows!Counted(what, limit)
    PROVE  /\ listCount' \in ListCounts /\ listCount[what] < limit
           /\ listCount'[what] = listCount[what] + 1
           /\ \A other \in {"queries", "changes", "faults"} :
                 other # what => listCount'[other] = listCount[other]
<1>1. listCount \in ListCounts
  BY DEF ListTypes, Rows!TypeOK, ListCounts
<1> QED
  BY <1>1 DEF Rows!Counted, ListCounts

LEMMA ListStarts ==
    ASSUME ListBounds, Rows!Init
    PROVE  ListInv
<1>1. /\ onDisk = [e \in Entries |-> 1] /\ generation = 0 /\ indexing = 0 /\ loading = FALSE
      /\ query = "empty" /\ rows = Rows!NoRows /\ tasks = {} /\ placeholder = "resolved"
      /\ resolving = 0 /\ collected = [g \in Rows!Generations |-> Rows!NoEntries]
      /\ early = {}
      /\ listCount = [queries |-> 0, changes |-> 0, faults |-> 0]
  BY DEF Rows!Init
<1>2. hybrid \in BOOLEAN
  BY DEF Rows!Init
<1>3. listCount["changes"] = 0 /\ listCount \in [{"queries", "changes", "faults"} -> Nat]
  BY <1>1
<1>4. onDisk \in Rows!Contents /\ collected \in [Rows!Generations -> Rows!Contents]
  <2>1. 1 \in Rows!FileVersions
    BY DEF Rows!FileVersions, ListBounds
  <2> QED
    BY <1>1, <2>1, NoEntriesAre DEF Rows!Contents
<1>5. ListTypes
  <2>1. generation \in 0..MaxLoads /\ indexing \in 0..MaxLoads /\ resolving \in Nat
        /\ listCount["changes"] <= MaxChanges
    BY <1>1, <1>3 DEF ListBounds
  <2>2. rows \in [Entries -> Rows!IndexStates]
    BY <1>1, NoEntriesAre
  <2>3. /\ query \in {"empty", "plain", "fields"} /\ placeholder \in {"loading", "resolved"}
        /\ tasks \subseteq Rows!Tasks /\ early \subseteq Rows!Generations
    BY ONLY <1>1
  <2>4. loading \in BOOLEAN
    BY ONLY <1>1
  <2> QED
    BY ONLY <1>2, <1>3, <1>4, <2>1, <2>2, <2>3, <2>4, Zenon DEF ListTypes, Rows!TypeOK
<1>6. DiskFits
  <2>1. \A e \in Entries : onDisk[e] = 1
    BY <1>1
  <2>2. \A g \in Rows!Generations : collected[g] = Rows!NoEntries
    BY <1>1
  <2> QED
    BY <1>3, <2>1, <2>2, NoEntriesAre DEF DiskFits
<1>7. Rows!Shown = {}
  BY <1>1, NoEntriesAre DEF Rows!Shown
<1>8. \A g : Reloads(g) = {} /\ Indexers(g) = {}
  BY <1>1 DEF Reloads, Indexers
<1>9. TasksFit /\ RowsFit
  BY <1>1, <1>7 DEF TasksFit, RowsFit
<1>10. ReloadFits
  BY <1>1, <1>8 DEF ReloadFits
<1>11. IndexFits /\ PlaceholderFits /\ SearchFits
  BY <1>1, <1>8 DEF IndexFits, PlaceholderFits, SearchFits
<1> QED
  BY <1>5, <1>6, <1>9, <1>10, <1>11 DEF ListInv

LEMMA LoadPasswordsStep ==
    ASSUME ListBounds, ListInv, Rows!LoadPasswords
    PROVE  ListInv'
<1>1. ListTypes
  BY DEF ListInv
<1>2. listCount \in ListCounts /\ query \in {"empty", "plain", "fields"}
  BY <1>1 DEF ListTypes, Rows!TypeOK, ListCounts
<1> QED
  BY <1>2, ReloadBegins DEF Rows!LoadPasswords

LEMMA SearchChangedStep ==
    ASSUME ListBounds, ListInv, Rows!SearchChanged
    PROVE  ListInv'
<1>1. PICK text \in {"empty", "plain", "fields"} \ {query} :
        /\ Rows!Counted("queries", MaxQueries)
        /\ query' = text
        /\ \/ Rows!BeginReload
           \/ /\ UNCHANGED <<generation, loading, rows>>
              /\ Rows!StartIndexingIfNeeded(tasks)
              /\ Rows!UpdatePlaceholder
        /\ UNCHANGED <<onDisk, hybrid, collected>>
  BY Zenon DEF Rows!SearchChanged
<1>2. ListTypes /\ MaxQueries \in Nat
  BY DEF ListInv, ListBounds
<1>3. /\ listCount' \in ListCounts /\ listCount'["changes"] = listCount["changes"]
      /\ listCount'["faults"] = listCount["faults"]
  BY <1>1, <1>2, CountedUp
<1>4. query' \in {"empty", "plain", "fields"}
  BY <1>1
<1> QED
  BY <1>1, <1>3, <1>4, ReloadBegins, QueryChanges

LEMMA ChangeEntryStep ==
    ASSUME ListBounds, ListInv, Rows!ChangeEntry
    PROVE  ListInv'
<1>1. ListTypes /\ DiskFits /\ TasksFit /\ RowsFit /\ ReloadFits /\ IndexFits
      /\ PlaceholderFits /\ SearchFits
  BY DEF ListInv
<1>2. UNCHANGED <<generation, loading, query, indexing, rows, tasks, placeholder,
                  resolving, hybrid, collected, early>>
  BY DEF Rows!ChangeEntry
<1>3. /\ listCount' \in ListCounts /\ listCount["changes"] < MaxChanges
      /\ listCount'["changes"] = listCount["changes"] + 1
      /\ listCount'["faults"] = listCount["faults"]
  BY <1>1, CountedUp DEF Rows!ChangeEntry, ListBounds
<1>4. PICK e \in Entries, version \in {0, listCount.changes + 2} :
        onDisk' = [onDisk EXCEPT ![e] = version]
  BY DEF Rows!ChangeEntry
<1>5. PICK count \in Nat : count = listCount["changes"]
  BY <1>1, StateIs
<1>6. version \in {0, count + 2} /\ count < MaxChanges /\ listCount'["changes"] = count + 1
  BY <1>3, <1>4, <1>5
<1>7. version \in {0} \cup Rows!FileVersions
  BY <1>5, <1>6 DEF Rows!FileVersions, ListBounds
<1>8. onDisk \in Rows!Contents
  BY <1>1 DEF ListTypes, Rows!TypeOK
<1>9. /\ onDisk' \in Rows!Contents /\ onDisk'[e] = version
      /\ \A f \in Entries : f # e => onDisk'[f] = onDisk[f]
  BY <1>4, <1>7, <1>8 DEF Rows!Contents
<1>10. ListTypes'
  <2>1. listCount'["changes"] <= MaxChanges
    BY <1>5, <1>6 DEF ListBounds
  <2> QED
    BY <1>1, <1>2, <1>3, <1>9, <2>1 DEF ListTypes, Rows!TypeOK, ListCounts
<1>11. DiskFits'
  <2>1. \A f \in Entries : onDisk[f] \in Nat /\ onDisk[f] <= count + 1
    BY <1>1, <1>5, StateIs DEF DiskFits
  <2>2. \A f \in Entries : onDisk'[f] <= listCount'["changes"] + 1
    BY <1>5, <1>6, <1>9, <2>1
  <2>3. \A g \in Rows!Generations, f \in Entries :
            collected[g][f] \in Nat /\ collected[g][f] <= count + 1
    BY <1>1, <1>5, StateIs DEF DiskFits
  <2>4. \A g \in Rows!Generations, f \in Entries :
           /\ collected[g][f] <= listCount'["changes"] + 1
           /\ collected[g][f] # 0 => (onDisk'[f] = 0 \/ onDisk'[f] >= collected[g][f])
    <3> SUFFICES ASSUME NEW g \in Rows!Generations, NEW f \in Entries
                 PROVE  /\ collected[g][f] <= listCount'["changes"] + 1
                        /\ collected[g][f] # 0 =>
                               (onDisk'[f] = 0 \/ onDisk'[f] >= collected[g][f])
      OBVIOUS
    <3>1. collected[g][f] <= listCount'["changes"] + 1
      BY <1>5, <1>6, <2>3
    <3>2. CASE f = e
      BY <1>5, <1>6, <1>9, <2>3, <3>1, <3>2
    <3>3. CASE f # e
      BY <1>1, <1>9, <3>1, <3>3 DEF DiskFits
    <3> QED
      BY <3>2, <3>3
  <2> QED
    BY <1>1, <1>2, <2>2, <2>4 DEF DiskFits
<1>12. TasksFit'
  BY <1>1, <1>2, <1>3, FitsStays DEF TasksFit
<1>13. RowsFit'
  BY <1>1, <1>2 DEF RowsFit, Rows!RowsAreOfTheNewestReload, Rows!Shown
<1>14. ReloadFits'
  <2>1. /\ Rows!Shown' = Rows!Shown /\ Found(generation)' = Found(generation)
        /\ Reloads(generation)' = Reloads(generation)
        /\ \A g : Reloads(g)' = Reloads(g)
    BY <1>2 DEF Reloads, Found, Rows!Shown
  <2>2. AllAreShown' <=> AllAreShown
    BY <1>3, <2>1 DEF AllAreShown
  <2> QED
    BY <1>1, <1>2, <2>1, <2>2 DEF ReloadFits
<1>15. IndexFits' /\ PlaceholderFits'
  BY <1>1, <1>2 DEF IndexFits, PlaceholderFits, Indexers
<1>16. SearchFits'
  BY <1>1, <1>2, <1>3 DEF SearchFits, Indexers, Unread
<1> QED
  BY <1>10, <1>11, <1>12, <1>13, <1>14, <1>15, <1>16 DEF ListInv

LEMMA ShowResolvedStep ==
    ASSUME ListBounds, ListInv, Rows!ShowResolvedPlaceholder
    PROVE  ListInv'
<1>1. ListTypes /\ DiskFits /\ TasksFit /\ RowsFit /\ ReloadFits /\ IndexFits
      /\ PlaceholderFits /\ SearchFits
  BY DEF ListInv
<1>2. /\ UNCHANGED <<onDisk, generation, loading, query, indexing, rows, tasks, hybrid,
                     collected, early, listCount>>
      /\ placeholder' = "resolved" /\ resolving > 0 /\ resolving' = resolving - 1
  BY DEF Rows!ShowResolvedPlaceholder
<1>3. resolving' \in Nat
  BY <1>1, <1>2, StateIs
<1>4. ListTypes'
  BY <1>1, <1>2, <1>3 DEF ListTypes, Rows!TypeOK
<1>5. DiskFits' /\ TasksFit'
  BY <1>1, <1>2, DiskStays, FitsStays DEF TasksFit
<1>6. RowsFit'
  BY <1>1, <1>2 DEF RowsFit, Rows!RowsAreOfTheNewestReload, Rows!Shown
<1>7. ReloadFits'
  BY <1>1, <1>2 DEF ReloadFits, AllAreShown, Reloads, Found, Rows!Shown
<1>8. IndexFits' /\ PlaceholderFits' /\ SearchFits'
  BY <1>1, <1>2 DEF IndexFits, PlaceholderFits, SearchFits, Indexers, Unread
<1> QED
  BY <1>4, <1>5, <1>6, <1>7, <1>8 DEF ListInv

\* What an index worker reads is as new as what the reload saw.
LEMMA IndexIsRead ==
    ASSUME ListBounds, ListInv, NEW task \in tasks, task.is =
           "index", NEW locked \in SUBSET task.requests,
           NEW results, results = [e \in Entries |->
               IF e \in locked \/ onDisk[e] = 0 THEN Rows!Unavailable ELSE onDisk[e]]
    PROVE  /\ results \in [Entries -> Rows!IndexStates]
           /\ \A e \in task.requests : AsNew(results[e], task.generation, e)
<1>1. ListTypes /\ DiskFits /\ task \in Rows!Tasks /\ task.requests \in SUBSET Entries
      /\ task.generation \in Rows!Generations
  BY StateIs, JobIs DEF ListInv
<1>2. \A e \in Entries : onDisk[e] \in {0} \cup Rows!FileVersions
  BY <1>1 DEF ListTypes, Rows!TypeOK, Rows!Contents
<1>3. results \in [Entries -> Rows!IndexStates]
  BY <1>2 DEF Rows!IndexStates
<1>4. ASSUME NEW e \in task.requests
      PROVE  AsNew(results[e], task.generation, e)
  <2>1. e \in Entries
    BY <1>1
  <2>2. CASE results[e] = Rows!Unavailable
    BY <2>2, NumbersAre DEF AsNew
  <2>3. CASE results[e] # Rows!Unavailable
    <3>1. results[e] = onDisk[e] /\ onDisk[e] # 0 /\ onDisk[e] \in Rows!FileVersions
      BY <1>2, <2>1, <2>3
    <3>2. onDisk[e] >= collected[task.generation][e]
      BY <1>1, <2>1, <3>1, StateIs, NumbersAre DEF DiskFits
    <3> QED
      BY <3>1, <3>2 DEF AsNew
  <2> QED
    BY <2>2, <2>3
<1> QED
  BY <1>3, <1>4

LEMMA ListWorkerStep ==
    ASSUME ListBounds, ListInv, NEW task \in tasks, Rows!OnWorker(task)
    PROVE  ListInv'
<1>1. /\ UNCHANGED <<onDisk, generation, loading, query, indexing, rows, placeholder,
                     resolving, hybrid, early>>
      /\ Rows!CollectItems(task) \/ Rows!BuildIndex(task) \/ Rows!WorkerDies(task)
  BY DEF Rows!OnWorker
<1>2. ListTypes /\ task \in Rows!Tasks /\ task.generation \in Rows!Generations
  BY StateIs, JobIs DEF ListInv
<1>3. listCount \in ListCounts
  BY <1>2 DEF ListTypes, Rows!TypeOK, ListCounts
<1>4. CASE Rows!CollectItems(task)
  BY <1>1, <1>4, ItemsAreCollected
<1>5. CASE Rows!BuildIndex(task)
  <2>1. PICK locked \in SUBSET task.requests :
          tasks' = (tasks \ {task}) \cup
             {[is |-> "indexed", generation |-> task.generation, requests |-> task.requests,
               results |-> [e \in Entries |->
                   IF e \in locked \/ onDisk[e] = 0 THEN Rows!Unavailable ELSE onDisk[e]]]}
    BY <1>5 DEF Rows!BuildIndex
  <2>2. PICK results : results = [e \in Entries |->
               IF e \in locked \/ onDisk[e] = 0 THEN Rows!Unavailable ELSE onDisk[e]]
    OBVIOUS
  <2>3. task.is = "index" /\ collected' = collected /\ listCount' = listCount
    BY <1>5 DEF Rows!BuildIndex
  <2>4. /\ results \in [Entries -> Rows!IndexStates]
        /\ \A e \in task.requests : AsNew(results[e], task.generation, e)
    BY ONLY <2>2, <2>3, IndexIsRead, ListBounds, ListInv, task \in tasks,
            locked \in SUBSET task.requests
  <2>5. PICK new : new = [is |-> "indexed", generation |-> task.generation,
                          requests |-> task.requests, results |-> results]
    OBVIOUS
  <2>6. /\ new \in Rows!Tasks /\ new.is = "indexed" /\ new.generation = task.generation
        /\ new.requests = task.requests /\ new.results = results
    BY <1>2, <2>3, <2>4, <2>5, JobIs DEF Rows!Tasks
  <2>7. tasks' = (tasks \ {task}) \cup {new}
    BY <2>1, <2>2, <2>5
  <2>8. \A e \in new.requests : AsNew(new.results[e], new.generation, e)
    BY <2>4, <2>6
  <2> QED
    BY ONLY <1>1, <1>3, <2>3, <2>6, <2>7, <2>8, WorkerIsDone, ListBounds, ListInv,
       task \in tasks
<1>6. CASE Rows!WorkerDies(task)
  <2>1. PICK kind \in {"lost", "unindexable"} :
          /\ task.is = "collect" => kind = "lost"
          /\ task.is # "collect" => kind = "unindexable"
    BY <1>2
  <2>2. PICK new : new = [is |-> kind, generation |-> task.generation]
    OBVIOUS
  <2>3. /\ task.is \in {"collect", "index"} /\ collected' = collected
        /\ Rows!Counted("faults", MaxListFaults)
        /\ tasks' = (tasks \ {task}) \cup {new}
    BY <1>6, <2>1, <2>2 DEF Rows!WorkerDies
  <2>4. new \in Rows!Tasks /\ new.is = kind /\ new.generation = task.generation
    BY <1>2, <2>1, <2>2 DEF Rows!Tasks
  <2>5. /\ listCount' \in ListCounts /\ listCount'["changes"] = listCount["changes"]
        /\ listCount'["faults"] = listCount["faults"] + 1 /\ listCount["faults"] \in Nat
    BY <1>2, <2>3, CountedUp, StateIs DEF ListBounds
  <2>6. listCount'["faults"] > 0
    BY <2>5
  <2>7. \/ task.is = "collect" /\ new.is = "lost"
        \/ task.is = "index" /\ new.is = "unindexable"
    BY <2>1, <2>3, <2>4
  <2> QED
    BY ONLY <1>1, <2>3, <2>4, <2>5, <2>6, <2>7, WorkerIsDone, ListBounds, ListInv,
       task \in tasks
<1> QED
  BY <1>1, <1>4, <1>5, <1>6

LEMMA HandleItemsStep ==
    ASSUME ListBounds, ListInv, NEW task \in
           tasks, Rows!HandleItems(task), UNCHANGED OtherVars
    PROVE  ListInv'
<1>1. /\ task.is = "collected" /\ rows' = rows /\ task.is \in ReloadKinds
      /\ task \in Rows!Tasks
      /\ task.items \in Rows!Contents /\ task.generation \in Rows!Generations
  BY StateIs, JobIs DEF Rows!HandleItems, ReloadKinds, ListInv
<1>2. PICK found : found = {e \in Entries : task.items[e] # 0}
  OBVIOUS
<1>3. CASE task.generation # generation
  <2>1. tasks' = tasks \ {task} /\ UNCHANGED MainVars
    BY <1>1, <1>3 DEF Rows!HandleItems, Rows!IsStale, MainVars
  <2> QED
    BY <1>3, <2>1, StaleDropped
<1>4. CASE task.generation = generation /\ found # {}
  <2>1. PICK new : new = [is |-> "render", generation |-> task.generation, left |-> found]
    OBVIOUS
  <2>2. tasks' = (tasks \ {task}) \cup {new} /\ UNCHANGED MainVars
    BY <1>1, <1>2, <1>4, <2>1 DEF Rows!HandleItems, Rows!IsStale, MainVars
  <2>3. /\ new \in Rows!Tasks /\ new.is = "render" /\ new.generation = task.generation
        /\ new.left = found
    BY <1>1, <1>2, <2>1 DEF Rows!Tasks
  <2> QED
    BY ONLY <1>1, <1>2, <1>4, <2>2, <2>3, BatchesBegin, ListBounds, ListInv, task \in tasks,
            UNCHANGED OtherVars
<1>5. CASE task.generation = generation /\ found = {}
  <2>1. Rows!FinishReload(tasks \ {task})
    BY <1>2, <1>5 DEF Rows!HandleItems, Rows!IsStale
  <2>2. ReloadFits /\ TasksFit
    BY DEF ListInv
  <2>3. Reloads(generation) = {task}
    BY <1>1, <1>5, OneReload
  <2>4. Rows!Shown = {} /\ task.items = collected[generation]
    BY <1>1, <1>5, <2>2, <2>3 DEF ReloadFits, TasksFit, TaskFits
  <2>5. AllAreShown
    BY <1>2, <1>5, <2>4 DEF AllAreShown, Found
  <2> QED
    BY <1>1, <1>5, <2>1, <2>5, ReloadEnds
<1> QED
  BY <1>3, <1>4, <1>5

LEMMA HandleLostStep ==
    ASSUME ListBounds, ListInv, NEW task \in
           tasks, Rows!HandleLost(task), UNCHANGED OtherVars
    PROVE  ListInv'
<1>1. task.is = "lost" /\ tasks' = tasks \ {task} /\ UNCHANGED <<rows, indexing, early>>
  BY DEF Rows!HandleLost
<1>2. CASE task.generation # generation
  <2>1. UNCHANGED MainVars
    BY <1>1, <1>2 DEF Rows!HandleLost, Rows!IsStale, MainVars
  <2> QED
    BY <1>1, <1>2, <2>1, StaleDropped
<1>3. CASE task.generation = generation
  <2>1. loading' = FALSE /\ Rows!UpdatePlaceholder
    BY <1>3 DEF Rows!HandleLost, Rows!IsStale
  <2> QED
    BY <1>1, <1>3, <2>1, LostReload
<1> QED
  BY <1>2, <1>3

LEMMA RenderBatchStep ==
    ASSUME ListBounds, ListInv, NEW task \in
           tasks, Rows!RenderBatch(task), UNCHANGED OtherVars
    PROVE  ListInv'
<1>1. task.is = "render" /\ task.is \in ReloadKinds /\ task \in Rows!Tasks
      /\ task.left \in SUBSET Entries /\ task.generation \in Rows!Generations
  BY StateIs, JobIs DEF Rows!RenderBatch, ReloadKinds, ListInv
<1>2. \/ /\ task.generation # generation
         /\ tasks' = tasks \ {task} /\ UNCHANGED MainVars
      \/ /\ task.generation = generation
         /\ \E e \in task.left :
              /\ rows' = [rows EXCEPT ![e] = Rows!Unindexed]
              /\ tasks' = (tasks \ {task}) \cup {[task EXCEPT !.left = @ \ {e}]}
         /\ UNCHANGED <<loading, indexing, placeholder, resolving, early>>
      \/ /\ task.generation = generation /\ task.left = {} /\ rows' = rows
         /\ Rows!FinishReload(tasks \ {task})
  BY DEF Rows!RenderBatch, Rows!IsStale, MainVars
<1>3. CASE task.generation # generation /\ tasks' = tasks \ {task} /\ UNCHANGED MainVars
  BY <1>3, StaleDropped
<1>4. CASE /\ task.generation = generation
           /\ \E e \in task.left :
                /\ rows' = [rows EXCEPT ![e] = Rows!Unindexed]
                /\ tasks' = (tasks \ {task}) \cup {[task EXCEPT !.left = @ \ {e}]}
           /\ UNCHANGED <<loading, indexing, placeholder, resolving, early>>
  <2>1. PICK e \in task.left :
          /\ rows' = [rows EXCEPT ![e] = Rows!Unindexed]
          /\ tasks' = (tasks \ {task}) \cup {[task EXCEPT !.left = @ \ {e}]}
    BY <1>4
  <2>2. PICK new : new = [task EXCEPT !.left = @ \ {e}]
    OBVIOUS
  <2>3. task \in [is : {"render"}, generation : Rows!Generations, left : SUBSET Entries]
    BY <1>1 DEF Rows!Tasks
  <2>4. new \in [is : {"render"}, generation : Rows!Generations, left : SUBSET Entries]
        /\ new.is = "render" /\ new.generation = task.generation
        /\ new.left = task.left \ {e}
    BY <2>2, <2>3
  <2>5. new \in Rows!Tasks
    BY <2>4 DEF Rows!Tasks
  <2>6. tasks' = (tasks \ {task}) \cup {new}
    BY <2>1, <2>2
  <2> QED
    BY ONLY <1>1, <1>4, <2>1, <2>4, <2>5, <2>6, BatchIsIn, ListBounds, ListInv,
       task \in tasks,
            UNCHANGED OtherVars
<1>5. CASE /\ task.generation = generation /\ task.left = {} /\ rows' = rows
           /\ Rows!FinishReload(tasks \ {task})
  <2>1. ReloadFits
    BY DEF ListInv
  <2>2. Reloads(generation) = {task}
    BY <1>1, <1>5, OneReload
  <2>3. Rows!Shown \cup task.left = Found(generation)
    BY <1>1, <2>1, <2>2 DEF ReloadFits
  <2>4. AllAreShown
    BY <1>5, <2>3 DEF AllAreShown
  <2> QED
    BY <1>1, <1>5, <2>4, ReloadEnds
<1> QED
  BY <1>2, <1>3, <1>4, <1>5

LEMMA ApplyIndexStep ==
    ASSUME ListBounds, ListInv, NEW task \in
           tasks, Rows!ApplyIndexBatch(task), UNCHANGED OtherVars
    PROVE  ListInv'
<1>1. /\ task.is = "indexed" /\ tasks' = tasks \ {task} /\ UNCHANGED <<loading, early>>
      /\ task \in Rows!Tasks /\ task.requests \in SUBSET Entries
      /\ task.results \in [Entries -> Rows!IndexStates] /\ TaskFits(task)
  BY StateIs, JobIs DEF Rows!ApplyIndexBatch, ListInv, TasksFit
<1>2. CASE task.generation # generation
  <2>1. UNCHANGED MainVars
    BY <1>1, <1>2 DEF Rows!ApplyIndexBatch, Rows!IsStale, MainVars
  <2> QED
    BY <1>1, <1>2, <2>1, StaleDropped
<1>3. CASE task.generation = generation
  <2>1. /\ indexing' = IF indexing = task.generation THEN 0 ELSE indexing
        /\ rows' = [e \in Entries |-> IF e \in task.requests \cap Rows!Shown
                                       THEN task.results[e] ELSE rows[e]]
        /\ Rows!UpdatePlaceholder
    BY <1>3 DEF Rows!ApplyIndexBatch, Rows!IsStale
  <2>2. rows \in [Entries -> Rows!IndexStates]
    BY DEF ListInv, ListTypes, Rows!TypeOK
  <2>3. rows' \in [Entries -> Rows!IndexStates]
    BY <1>1, <2>1, <2>2
  <2>4. \A e \in Entries : rows'[e] = IF e \in task.requests \cap Rows!Shown
                                       THEN task.results[e] ELSE rows[e]
    BY <2>1
  <2>5. \A e \in task.requests :
            /\ AsNew(task.results[e], generation, e)
            /\ task.results[e] # Rows!NoRow /\ task.results[e] # Rows!Unindexed
    BY <1>1, <1>3, NumbersAre DEF TaskFits, AsNew
  <2>6. Rows!Shown' = Rows!Shown
    BY <2>4, <2>5 DEF Rows!Shown
  <2>7. \A e \in Rows!Shown : rows'[e] = rows[e] \/ AsNew(rows'[e], generation, e)
    BY <2>4, <2>5 DEF Rows!Shown
  <2>8. Unread' \subseteq Unread /\ Unread' \cap task.requests = {}
    BY <2>4, <2>5, NumbersAre DEF Unread, Rows!Shown
  <2>9. task.is \in {"indexed", "unindexable"}
    BY <1>1
  <2> QED
    BY ONLY <1>1, <1>3, <2>1, <2>3, <2>6, <2>7, <2>8, <2>9, IndexEnds, ListBounds, ListInv,
            task \in tasks, UNCHANGED OtherVars
<1> QED
  BY <1>2, <1>3

LEMMA IndexDisconnectStep ==
    ASSUME ListBounds, ListInv, NEW task \in tasks, Rows!HandleIndexDisconnect(task),
           UNCHANGED OtherVars
    PROVE  ListInv'
<1>1. /\ task.is = "unindexable" /\ tasks' = tasks \ {task}
      /\ UNCHANGED <<loading, rows, early>>
  BY DEF Rows!HandleIndexDisconnect
<1>2. CASE task.generation # generation
  <2>1. UNCHANGED MainVars
    BY <1>1, <1>2 DEF Rows!HandleIndexDisconnect, Rows!IsStale, MainVars
  <2> QED
    BY <1>1, <1>2, <2>1, StaleDropped
<1>3. CASE task.generation = generation
  <2>1. /\ indexing' = IF indexing = task.generation THEN 0 ELSE indexing
        /\ Rows!UpdatePlaceholder
    BY <1>3 DEF Rows!HandleIndexDisconnect, Rows!IsStale
  <2>2. rows' \in [Entries -> Rows!IndexStates]
    BY <1>1 DEF ListInv, ListTypes, Rows!TypeOK
  <2>3. Rows!Shown' = Rows!Shown /\ Unread' \subseteq Unread
    BY <1>1, RowsAreKept
  <2>4. \A e \in Rows!Shown : rows'[e] = rows[e] \/ AsNew(rows'[e], generation, e)
    BY <1>1
  <2>5. task.is \in {"indexed", "unindexable"} /\ task.is # "indexed"
    BY <1>1
  <2> QED
    BY ONLY <1>1, <1>3, <2>1, <2>2, <2>3, <2>4, <2>5, IndexEnds, ListBounds, ListInv,
            task \in tasks, UNCHANGED OtherVars
<1> QED
  BY <1>2, <1>3

LEMMA RowsStep ==
    ASSUME ListBounds, ListInv, Rows!Next
    PROVE  ListInv'
<1>1. CASE \E task \in tasks : Rows!OnMainLoop(task)
  <2>1. PICK task \in tasks : Rows!OnMainLoop(task)
    BY <1>1
  <2>2. /\ UNCHANGED OtherVars
        /\ \/ Rows!HandleItems(task) \/ Rows!HandleLost(task) \/ Rows!RenderBatch(task)
           \/ Rows!ApplyIndexBatch(task) \/ Rows!HandleIndexDisconnect(task)
    BY <2>1 DEF Rows!OnMainLoop, OtherVars
  <2> QED
    BY <2>2, HandleItemsStep, HandleLostStep, RenderBatchStep, ApplyIndexStep,
       IndexDisconnectStep
<1>2. CASE \E task \in tasks : Rows!OnWorker(task)
  BY <1>2, ListWorkerStep
<1> QED
  BY <1>1, <1>2, LoadPasswordsStep, SearchChangedStep, ChangeEntryStep, ShowResolvedStep
     DEF Rows!Next

LEMMA ListStays ==
    ASSUME ListInv, UNCHANGED Rows!listVars
    PROVE  ListInv'
<1>1. ListTypes /\ DiskFits /\ TasksFit /\ RowsFit /\ ReloadFits /\ IndexFits
      /\ PlaceholderFits /\ SearchFits
  BY DEF ListInv
<1>2. UNCHANGED <<onDisk, generation, loading, query, indexing, rows, tasks, placeholder,
                  resolving, hybrid, collected, early, listCount>>
  BY DEF Rows!listVars
<1>3. ListTypes'
  BY <1>1, <1>2 DEF ListTypes, Rows!TypeOK
<1>4. DiskFits' /\ TasksFit'
  BY <1>1, <1>2, DiskStays, FitsStays DEF TasksFit
<1>5. RowsFit'
  BY <1>1, <1>2 DEF RowsFit, Rows!RowsAreOfTheNewestReload, Rows!Shown
<1>6. ReloadFits'
  BY <1>1, <1>2 DEF ReloadFits, AllAreShown, Reloads, Found, Rows!Shown
<1>7. IndexFits' /\ PlaceholderFits' /\ SearchFits'
  BY <1>1, <1>2 DEF IndexFits, PlaceholderFits, SearchFits, Indexers, Unread
<1> QED
  BY <1>3, <1>4, <1>5, <1>6, <1>7 DEF ListInv

LEMMA ListIs ==
    ASSUME ListBounds, ListInv
    PROVE  Rows!TypeOK /\ Rows!ListIsTheNewestReload /\ Rows!FieldSearchSeesEveryRow
<1>1. ListTypes /\ RowsFit /\ ReloadFits /\ IndexFits /\ PlaceholderFits /\ SearchFits
  BY DEF ListInv
<1>2. Rows!TypeOK
  BY <1>1 DEF ListTypes
<1>3. Rows!RowsAreOfTheNewestReload
  BY <1>1 DEF RowsFit, Rows!RowsAreOfTheNewestReload
<1>4. tasks = {} => (~loading /\ Indexers(generation) = {} /\ indexing = 0)
  BY <1>1 DEF ReloadFits, IndexFits, Reloads, Indexers
<1>5. ASSUME Rows!Settled
      PROVE  /\ ~loading /\ indexing = 0 /\ placeholder = "resolved"
             /\ \/ Rows!Shown = {e \in Entries : collected[generation][e] # 0}
                \/ Rows!Shown = {} /\ listCount.faults > 0
  <2>1. tasks = {} /\ resolving = 0 /\ generation # 0
    BY <1>5 DEF Rows!Settled
  <2>2. ~loading /\ indexing = 0
    BY <1>4, <2>1
  <2>3. placeholder \in {"loading", "resolved"}
    BY <1>2 DEF Rows!TypeOK
  <2>4. placeholder = "resolved"
    BY <1>1, <2>1, <2>2, <2>3 DEF PlaceholderFits
  <2>5. AllAreShown
    BY <1>1, <2>1, <2>2 DEF ReloadFits
  <2> QED
    BY <2>2, <2>4, <2>5 DEF AllAreShown, Found
<1>6. Rows!ListIsTheNewestReload
  BY <1>3, <1>5 DEF Rows!ListIsTheNewestReload
<1>7. Rows!FieldSearchSeesEveryRow
  <2> SUFFICES ASSUME tasks = {}, query = "fields", generation \notin early,
                      listCount.faults = 0
               PROVE  \A e \in Entries : rows[e] # Rows!Unindexed
    BY DEF Rows!FieldSearchSeesEveryRow
  <2>1. ~loading /\ indexing = 0
    BY <1>4
  <2>2. indexing = generation \/ Unread = {}
    BY <1>1, <2>1 DEF SearchFits
  <2>3. Unread = {}
    BY <1>1, <2>1, <2>2, ShownIsFound
  <2> QED
    BY <2>3 DEF Unread
<1> QED
  BY <1>2, <1>6, <1>7

-----------------------------------------------------------------------------
(* The store and the pages together *)

PagesBounds == AuditBounds /\ ListBounds /\ ToolBounds /\ RemoteBounds

PagesInv ==
    /\ focus = "store" => (TypeOK /\ LoopInv)
    /\ focus = "audit" => AuditInv
    /\ focus = "list" => ListInv
    /\ focus = "tools" => ToolInv
    /\ focus = "remotes" => RemoteInv

LEMMA PagesStart ==
    ASSUME PagesBounds, AllInit
    PROVE  PagesInv
<1>1. Init /\ Audit!Init /\ Rows!Init /\ Tools!Init /\ Git!Init
  BY DEF AllInit
<1>2. AuditBounds /\ ListBounds /\ ToolBounds /\ RemoteBounds
  BY DEF PagesBounds
<1>3. TypeOK /\ LoopInv
  <2>1. sync.phase = "idle"
    BY <1>1 DEF Init, NoSync
  <2> QED
    BY <1>1, <2>1, InitIsTyped DEF LoopInv
<1>4. AuditInv /\ ListInv /\ ToolInv /\ RemoteInv
  BY <1>1, <1>2, AuditStarts, ListStarts, ToolsStart, RemotesStart
<1> QED
  BY <1>3, <1>4 DEF PagesInv

\* The one that was chosen at the start takes all the steps.
LEMMA FocusSteps ==
    ASSUME [AllNext]_allVars
    PROVE  /\ focus' = focus
           /\ focus = "store" => [Next]_vars
           /\ focus = "audit" => (Audit!Next \/ UNCHANGED Audit!auditVars)
           /\ focus = "list" => (Rows!Next \/ UNCHANGED Rows!listVars)
           /\ focus = "tools" => (Tools!Next \/ UNCHANGED Tools!toolVars)
           /\ focus = "remotes" => (Git!Next \/ UNCHANGED Git!remoteVars)
<1>1. CASE UNCHANGED allVars
  <2>1. UNCHANGED <<focus, vars, auditVars, listVars, toolVars, remoteVars>>
    BY <1>1 DEF allVars
  <2>2. UNCHANGED Audit!auditVars
    BY <2>1 DEF auditVars, Audit!auditVars
  <2>3. UNCHANGED Rows!listVars
    BY <2>1 DEF listVars, Rows!listVars
  <2>4. UNCHANGED Tools!toolVars
    BY <2>1 DEF toolVars, Tools!toolVars
  <2>5. UNCHANGED Git!remoteVars
    BY <2>1 DEF remoteVars, Git!remoteVars
  <2> QED
    BY <2>1, <2>2, <2>3, <2>4, <2>5
<1>2. CASE AllNext
  BY <1>2 DEF AllNext
<1> QED
  BY <1>1, <1>2

LEMMA PagesStep ==
    ASSUME PagesBounds, PagesInv, [AllNext]_allVars
    PROVE  PagesInv'
<1>1. AuditBounds /\ ListBounds /\ ToolBounds /\ RemoteBounds
  BY DEF PagesBounds
<1>2. focus' = focus
  BY FocusSteps
<1>3. focus = "store" => (TypeOK /\ LoopInv)'
  BY FocusSteps, TypesKept, LoopKept DEF PagesInv
<1>4. focus = "audit" => AuditInv'
  BY <1>1, FocusSteps, AuditStep, AuditStays DEF PagesInv
<1>5. focus = "list" => ListInv'
  BY <1>1, FocusSteps, RowsStep, ListStays DEF PagesInv
<1>6. focus = "tools" => ToolInv'
  BY <1>1, FocusSteps, ToolsStep, ToolsStay DEF PagesInv
<1>7. focus = "remotes" => RemoteInv'
  BY <1>1, FocusSteps, RemotesStep, GitPagesStay DEF PagesInv
<1> QED
  BY <1>2, <1>3, <1>4, <1>5, <1>6, <1>7 DEF PagesInv

LEMMA PagesAlways == ASSUME PagesBounds PROVE AllSpec => []PagesInv
<1>1. AllInit => PagesInv
  BY PagesStart
<1>2. PagesInv /\ [AllNext]_allVars => PagesInv'
  BY PagesStep
<1> QED
  BY <1>1, <1>2, PTL DEF AllSpec

\* Every variable of the store and of its pages keeps its type: what arrives late is
\* kept in lists, maps and counters that can hold it.
THEOREM PagesAreTyped == ASSUME PagesBounds PROVE AllSpec => []TypesOK
<1>1. PagesInv => TypesOK
  <2> SUFFICES ASSUME PagesInv PROVE TypesOK
    OBVIOUS
  <2>1. ListBounds
    BY DEF PagesBounds
  <2> QED
    BY <2>1, AuditIs, ListIs, ToolsAre, RemotesAre DEF PagesInv, TypesOK
<1> QED
  BY <1>1, PagesAlways, PTL

\* Pages show the newest reading and all of it: a branch of the audit shows the first
\* commits of the log in its order, the list the entries that the newest reload found,
\* and the tools what they kept of a whole list, whatever reloads, moves, queries and
\* deaths of workers fall between the steps of a load (audit.rs, list/mod.rs, tools.rs).
THEOREM PagesShowWhatIsThere == ASSUME PagesBounds PROVE AllSpec => []PagesShowTheNewest
<1>1. PagesInv => PagesShowTheNewest
  <2> SUFFICES ASSUME PagesInv PROVE PagesShowTheNewest
    OBVIOUS
  <2>1. ListBounds
    BY DEF PagesBounds
  <2> QED
    BY <2>1, AuditIs, ListIs, ToolsAre DEF PagesInv, PagesShowTheNewest
<1> QED
  BY <1>1, PagesAlways, PTL

\* Once nothing is under way and no worker died, a search that looks into the files
\* has looked into all of them, unless its index began while rows were still being
\* appended (start_indexing_if_needed and finish_reload of the list).
THEOREM SearchesSeeEveryRow == ASSUME PagesBounds PROVE AllSpec => []FieldSearchSeesEveryRow
<1>1. PagesInv => FieldSearchSeesEveryRow
  <2> SUFFICES ASSUME PagesInv PROVE FieldSearchSeesEveryRow
    OBVIOUS
  <2>1. ListBounds
    BY DEF PagesBounds
  <2> QED
    BY <2>1, ListIs DEF PagesInv, FieldSearchSeesEveryRow
<1> QED
  BY <1>1, PagesAlways, PTL

\* An edit of the remotes that is reported as done made exactly the change that was
\* asked for, one that failed none (unless giving back the old name failed too), and
\* dialogs that answer by a current list never leave two remotes with one URL or with
\* names that differ in case only (remotes.rs and the dialogs of store_page.rs).
THEOREM RemotesAreKept == ASSUME PagesBounds PROVE AllSpec => []RemotesFollowTheDialogs
<1>1. PagesInv => RemotesFollowTheDialogs
  BY RemotesAre DEF PagesInv, RemotesFollowTheDialogs
<1> QED
  BY <1>1, PagesAlways, PTL

\* A page that shows that it works has a worker, a prompt or an answer on its way that
\* ends that: no order of leaving, coming back, reloading and dying leaves the audit
\* or a tool busy with nobody to stop it.
THEOREM BusyPagesHaveAWorker == ASSUME PagesBounds PROVE AllSpec => []EveryWaitHasAWorker
<1>1. PagesInv => EveryWaitHasAWorker
  BY AuditIs, ToolsAre DEF PagesInv, EveryWaitHasAWorker
<1> QED
  BY <1>1, PagesAlways, PTL
=============================================================================
