---------------------------- MODULE MCBackendProofs ----------------------------
(* What the audit says of a commit follows its signature and the recipients, in *)
(* whatever order other commits and changes of the settings fall between the    *)
(* reads of a load (CommitVerdicts), for every value of the constants.  The     *)
(* theorems about the store beside it are in RecipientStoreProofs.              *)
EXTENDS MCBackend, FiniteSetTheorems, TLAPS

\* The keys are finitely many, none of them is an ssh key, and a recipient file
\* names keys and the user id.
VerdictBounds ==
    /\ IsFiniteSet(AuditKeys)
    /\ "an ssh key" \notin AuditKeys
    /\ \A tree \in Trees : \A file \in DOMAIN tree :
           tree[file] \subseteq AuditKeys \cup {UserId}
    /\ Signatures \subseteq [kind : Verdict!Kinds, signer : AuditKeys]

Commits == [tree : Trees, signature : Signatures]

Reasons == {"none", "malformed", "key unavailable", "invalid", "none there", "no signature",
            "no recipients", "not authorized"}
VerdictRecords ==
    [state : {"verified", "unverified"}, mode : {"tip", "history"}, reason : Reasons]

\* A load in progress.
LoadRecords ==
    [at : Verdict!Stages \ {"idle"}, history : BOOLEAN, certs : SUBSET AuditKeys,
     names : SUBSET (AuditKeys \cup {UserId}), paths :
         SUBSET UNION {DOMAIN tree : tree \in Trees},
     asked : BOOLEAN, begun : Nat, count : Nat, done : Seq(VerdictRecords)]

VerdictTypes ==
    /\ appKeys \subseteq AuditKeys /\ hostKeys \subseteq AuditKeys
    /\ hostOn \in BOOLEAN /\ historyOn \in BOOLEAN
    /\ commits \in Seq(Commits) /\ commits # <<>>
    /\ load = Verdict!NoLoad \/ load \in LoadRecords
    /\ verdicts \in [begun : Nat, history : BOOLEAN, list : Seq(VerdictRecords)]

\* A name that was read is one of the tip's at some moment since the load began.
NamedSince(begun, name, log) ==
    \E j \in begun..Len(log) : name \in Verdict!NamesIn(log[j].tree)

\* What is said of a commit is right for a load with this start and setting.
RightVerdict(verdict, commit, begun, history, log) ==
    /\ verdict.state = "verified" =>
           /\ commit.signature.kind \in {"good", "outdated"}
           /\ \/ /\ verdict.mode = "tip"
                 /\ \E j \in begun..Len(log) :
                        Verdict!MayMean(log[j].tree, commit.signature.signer)
              \/ /\ verdict.mode = "history" /\ history
                 /\ Verdict!MayMean(commit.tree, commit.signature.signer)
    /\ (/\ history
        /\ commit.signature.kind = "good"
        /\ commit.signature.signer \in appKeys \cap Verdict!NamesIn(commit.tree)) =>
           verdict.state = "verified"

LoadIsRight ==
    load # Verdict!NoLoad =>
        /\ load.begun \in 1..Len(commits)
        /\ load.at # "certs" => appKeys \subseteq load.certs
        /\ \A name \in load.names : NamedSince(load.begun, name, commits)
        /\ load.count <= Len(commits)
        /\ Len(load.done) <= load.count
        /\ \A i \in 1..Len(load.done) :
              RightVerdict(load.done[i], commits[i], load.begun, load.history, commits)

PageIsRight ==
    verdicts # Verdict!Nothing =>
        /\ Len(verdicts.list) <= Len(commits)
        /\ \A i \in 1..Len(verdicts.list) :
              RightVerdict(verdicts.list[i], commits[i], verdicts.begun, verdicts.history,
                           commits)

VerdictInv == VerdictTypes /\ LoadIsRight /\ PageIsRight

LEMMA TipHasNames ==
    ASSUME NEW tree, NEW file \in DOMAIN tree
    PROVE  tree[file] \subseteq Verdict!NamesIn(tree)
BY DEF Verdict!NamesIn

\* A signer that the names stand for is named by fingerprint, or is the one key of
\* the app that carries the user id.
LEMMA WhoIsResolved ==
    ASSUME VerdictBounds, NEW certs \in SUBSET AuditKeys, NEW names,
           appKeys \subseteq certs, NEW signer \in Verdict!Resolved(names, certs)
    PROVE  /\ signer \in AuditKeys
           /\ signer \in names \/ (UserId \in names /\ appKeys \subseteq {signer})
<1>1. CASE signer \in names \cap certs
  BY <1>1
<1>2. CASE signer \notin names \cap certs
  <2>1. UserId \in names /\ Cardinality(certs) = 1 /\ signer \in certs
    <3>1. \A T : Verdict!Cardinality(T) = Cardinality(T)
      BY DEF Cardinality, Verdict!Cardinality
    <3> QED
      BY <1>2, <3>1 DEF Verdict!Resolved
  <2>2. IsFiniteSet(certs)
    BY FS_Subset DEF VerdictBounds
  <2>3. PICK key : certs = {key}
    BY <2>1, <2>2, FS_Singleton
  <2> QED
    BY <2>1, <2>3
<1> QED
  BY <1>1, <1>2

\* Whoever the cryptography takes for the signer is the signer, or an ssh key.
LEMMA WhoSigned ==
    ASSUME NEW signature, NEW certs, NEW asked, NEW who \in
           Verdict!Crypto(signature, certs, asked).signer
    PROVE  \/ who = "an ssh key"
           \/ who = signature.signer /\ signature.kind \in
               Verdict!Kinds \ {"none", "bad", "garbled", "ssh"}
           \/ signature.kind \notin Verdict!Kinds
           \/ signature.kind = "none"
BY DEF Verdict!Crypto, Verdict!VerifyCommitSignature, Verdict!VerifyHostGitSignature,
   Verdict!Signed, Verdict!NotSigned, Verdict!Kinds

LEMMA CryptoTypes ==
    ASSUME NEW signature, NEW certs, NEW asked
    PROVE  /\ Verdict!Crypto(signature, certs, asked).reason \in Reasons
           /\ \/ Verdict!Crypto(signature, certs, asked).signer = {}
              \/ \E who : Verdict!Crypto(signature, certs, asked).signer = {who}
BY DEF Verdict!Crypto, Verdict!VerifyCommitSignature, Verdict!VerifyHostGitSignature,
   Verdict!Signed, Verdict!NotSigned, Reasons

\* The ways a verdict comes about, from the signers that the cryptography accepts,
\* and those whom the tip and the commit itself name.
ComesAbout(verdict, kind, crypto, tip, own, history) ==
    \/ /\ kind = "none"
       /\ verdict = Verdict!Unverified("no signature")
    \/ /\ kind # "none" /\ crypto.signer = {}
       /\ verdict = Verdict!Unverified(crypto.reason)
    \/ \E who \in crypto.signer :
          /\ kind # "none" /\ crypto.signer = {who}
          /\ who \in tip
          /\ verdict = Verdict!Verified("tip")
    \/ \E who \in crypto.signer :
          /\ kind # "none" /\ crypto.signer = {who}
          /\ who \notin tip /\ who \in own /\ history
          /\ verdict = Verdict!Verified("history")
    \/ \E who \in crypto.signer :
          /\ kind # "none" /\ crypto.signer = {who}
          /\ who \notin tip /\ (who \notin own \/ ~history)
          /\ \E reason \in Reasons : verdict = Verdict!Unverified(reason)

LEMMA VerdictCases ==
    ASSUME NEW commit, NEW read,
           NEW crypto, crypto = Verdict!Crypto(commit.signature, read.certs, read.asked),
           NEW tip, tip = Verdict!Resolved(read.names, read.certs),
           NEW own, own = Verdict!Resolved(Verdict!NamesIn(commit.tree), read.certs)
    PROVE  ComesAbout(Verdict!VerifyCommit(commit, read), commit.signature.kind, crypto,
                      tip, own,
                      read.history)
<1> DEFINE T == {Verdict!AuthorizeSigner(tip, s) : s \in crypto.signer}
           O == {Verdict!AuthorizeSigner(own, s) : s \in crypto.signer}
           R == CHOOSE r \in T : TRUE
<1>1. Verdict!VerifyCommit(commit, read) =
        IF commit.signature.kind = "none" THEN Verdict!Unverified("no signature")
        ELSE IF crypto.signer = {} THEN Verdict!Unverified(crypto.reason)
        ELSE IF T = {"none"} THEN Verdict!Verified("tip")
        ELSE IF /\ Verdict!ShouldRetryWithCommitHistoryRecipients(R, read.history)
                /\ O = {"none"}
             THEN Verdict!Verified("history")
        ELSE Verdict!Unverified(R)
  BY DEF Verdict!VerifyCommit
<1>2. crypto.signer = {} \/ \E who : crypto.signer = {who}
  BY CryptoTypes
<1>3. CASE commit.signature.kind = "none"
  BY <1>1, <1>3 DEF ComesAbout
<1>4. CASE commit.signature.kind # "none" /\ crypto.signer = {}
  BY <1>1, <1>4 DEF ComesAbout
<1>5. ASSUME commit.signature.kind # "none", NEW who, crypto.signer = {who}
      PROVE  \/ who \in tip /\ Verdict!VerifyCommit(commit, read) = Verdict!Verified("tip")
             \/ /\ who \notin tip /\ who \in own /\ read.history
                /\ Verdict!VerifyCommit(commit, read) = Verdict!Verified("history")
             \/ /\ who \notin tip /\ (who \notin own \/ ~read.history)
                /\ \E reason \in Reasons :
                       Verdict!VerifyCommit(commit, read) = Verdict!Unverified(reason)
  <2>1. T = {Verdict!AuthorizeSigner(tip, who)} /\ O = {Verdict!AuthorizeSigner(own, who)}
    BY <1>5
  <2>2. Verdict!AuthorizeSigner(tip, who) \in {"none", "no recipients", "not authorized"}
    BY DEF Verdict!AuthorizeSigner
  <2>3. (Verdict!AuthorizeSigner(tip, who) = "none") <=> (who \in tip)
    BY DEF Verdict!AuthorizeSigner
  <2>4. (Verdict!AuthorizeSigner(own, who) = "none") <=> (who \in own)
    BY DEF Verdict!AuthorizeSigner
  <2>5. R = Verdict!AuthorizeSigner(tip, who)
    BY <2>1
  <2>6. (T = {"none"}) <=> (who \in tip)
    BY <2>1, <2>3
  <2>7. (O = {"none"}) <=> (who \in own)
    BY <2>1, <2>4
  <2>8. crypto.signer # {}
    BY <1>5
  <2> HIDE DEF T, O, R
  <2>9. CASE who \in tip
    BY <1>1, <1>5, <2>6, <2>8, <2>9
  <2>10. CASE who \notin tip
    <3>1. R \in {"no recipients", "not authorized"}
      BY <2>2, <2>3, <2>5, <2>10
    <3>2. Verdict!ShouldRetryWithCommitHistoryRecipients(R, read.history) <=> read.history
      BY <3>1 DEF Verdict!ShouldRetryWithCommitHistoryRecipients
    <3>3. R \in Reasons
      BY <3>1 DEF Reasons
    <3>4. CASE who \in own /\ read.history
      BY <1>1, <1>5, <2>6, <2>7, <2>8, <2>10, <3>2, <3>4
    <3>5. CASE who \notin own \/ ~read.history
      <4>1. Verdict!VerifyCommit(commit, read) = Verdict!Unverified(R)
        BY <1>1, <1>5, <2>6, <2>7, <2>8, <2>10, <3>2, <3>5
      <4> QED
        BY <2>10, <3>3, <3>5, <4>1
    <3> QED
      BY <3>4, <3>5
  <2> QED
    BY <2>9, <2>10
<1> QED
  BY <1>2, <1>3, <1>4, <1>5 DEF ComesAbout

\* A verdict is right if the keys and names it is built on are.
LEMMA VerdictIsRight ==
    ASSUME VerdictBounds, VerdictTypes, NEW commit \in Commits,
           load \in LoadRecords, load.history \in BOOLEAN, appKeys \subseteq load.certs,
           \A name \in load.names : NamedSince(load.begun, name, commits)
    PROVE  /\ Verdict!VerifyCommit(commit, load) \in VerdictRecords
           /\ RightVerdict(Verdict!VerifyCommit(commit, load), commit, load.begun,
                           load.history, commits)
<1> DEFINE signature == commit.signature
           crypto == Verdict!Crypto(signature, load.certs, load.asked)
           tip == Verdict!Resolved(load.names, load.certs)
           own == Verdict!Resolved(Verdict!NamesIn(commit.tree), load.certs)
           v == Verdict!VerifyCommit(commit, load)
<1>1. /\ signature \in [kind : Verdict!Kinds, signer : AuditKeys] /\ commit.tree \in Trees
      /\ load.certs \in SUBSET AuditKeys /\ load.names \subseteq AuditKeys \cup {UserId}
  BY DEF VerdictBounds, Commits, LoadRecords
<1>2. /\ \A reason \in Reasons : /\ Verdict!Unverified(reason) \in VerdictRecords
                                 /\ Verdict!Unverified(reason).state = "unverified"
      /\ \A mode \in {"tip", "history"} : /\ Verdict!Verified(mode) \in VerdictRecords
                                          /\ Verdict!Verified(mode).state = "verified"
                                          /\ Verdict!Verified(mode).mode = mode
  BY DEF VerdictRecords, Reasons, Verdict!Unverified, Verdict!Verified
<1>3. crypto.reason \in Reasons /\ "no signature" \in Reasons
  BY CryptoTypes DEF Reasons
\* An ssh key is never resolved.
<1>4. ASSUME NEW names, NEW who \in Verdict!Resolved(names, load.certs), who \in
                 crypto.signer,
             signature.kind # "none"
      PROVE  /\ who = signature.signer /\ signature.kind \in {"good", "outdated"}
             /\ who \in names \/ (UserId \in names /\ appKeys \subseteq {who})
  <2>1. /\ who \in AuditKeys
        /\ who \in names \/ (UserId \in names /\ appKeys \subseteq {who})
    BY <1>1, <1>4, WhoIsResolved
  <2>2. who # "an ssh key"
    BY <2>1 DEF VerdictBounds
  <2>3. \/ who = "an ssh key"
        \/ who = signature.signer /\ signature.kind \in
            Verdict!Kinds \ {"none", "bad", "garbled", "ssh"}
        \/ signature.kind \notin Verdict!Kinds
        \/ signature.kind = "none"
    BY <1>4, WhoSigned
  <2> QED
    BY <1>1, <1>4, <2>1, <2>2, <2>3 DEF Verdict!Kinds
\* A good signature by a key of the app is taken for that key's.
<1>5. ASSUME signature.kind = "good", signature.signer \in appKeys
      PROVE  crypto.signer = {signature.signer}
  <2>1. signature.signer \in load.certs
    BY <1>5
  <2>2. Verdict!VerifyCommitSignature(signature, load.certs) =
            Verdict!Signed(signature.signer, "keycord")
    BY <1>5, <2>1 DEF Verdict!VerifyCommitSignature
  <2>3. crypto = Verdict!Signed(signature.signer, "keycord")
    BY <1>5, <2>2 DEF Verdict!Crypto, Verdict!Signed
  <2> QED
    BY <2>3 DEF Verdict!Signed
<1> HIDE DEF crypto, tip, own
<1>6. ComesAbout(v, signature.kind, crypto, tip, own, load.history)
  <2>1. PICK read : read = load
    OBVIOUS
  <2>2. /\ crypto = Verdict!Crypto(commit.signature, read.certs, read.asked)
        /\ tip = Verdict!Resolved(read.names, read.certs)
        /\ own = Verdict!Resolved(Verdict!NamesIn(commit.tree), read.certs)
    BY <2>1 DEF crypto, tip, own
  <2>3. ComesAbout(Verdict!VerifyCommit(commit, read), commit.signature.kind, crypto, tip,
                   own,
                   read.history)
    BY <2>2, VerdictCases
  <2> QED
    BY <2>1, <2>3
<1> HIDE DEF v
<1>7. CASE /\ signature.kind = "none" /\ v = Verdict!Unverified("no signature")
  BY <1>2, <1>3, <1>7 DEF RightVerdict, v
<1>8. CASE /\ signature.kind # "none" /\ crypto.signer = {}
           /\ v = Verdict!Unverified(crypto.reason)
  BY <1>2, <1>3, <1>5, <1>8 DEF RightVerdict, v
<1>9. ASSUME NEW who, signature.kind # "none", crypto.signer = {who}, who \in tip,
             v = Verdict!Verified("tip")
      PROVE  /\ v \in VerdictRecords
             /\ RightVerdict(v, commit, load.begun, load.history, commits)
  <2>1. /\ who = signature.signer /\ signature.kind \in {"good", "outdated"}
        /\ who \in load.names \/ (UserId \in load.names /\ appKeys \subseteq {who})
    BY <1>4, <1>9 DEF tip
  <2>2. \E j \in load.begun..Len(commits) :
            Verdict!MayMean(commits[j].tree, signature.signer)
    BY <2>1 DEF NamedSince, Verdict!MayMean
  <2> QED
    BY <1>2, <1>9, <2>1, <2>2 DEF RightVerdict
<1>10. ASSUME NEW who, signature.kind # "none", crypto.signer = {who}, who \in own,
              load.history, v = Verdict!Verified("history")
       PROVE  /\ v \in VerdictRecords
              /\ RightVerdict(v, commit, load.begun, load.history, commits)
  <2>1. /\ who = signature.signer /\ signature.kind \in {"good", "outdated"}
        /\ \/ who \in Verdict!NamesIn(commit.tree)
           \/ UserId \in Verdict!NamesIn(commit.tree) /\ appKeys \subseteq {who}
    BY <1>4, <1>10 DEF own
  <2>2. Verdict!MayMean(commit.tree, signature.signer)
    BY <2>1 DEF Verdict!MayMean
  <2> QED
    BY <1>2, <1>10, <2>1, <2>2 DEF RightVerdict
<1>11. ASSUME NEW who, crypto.signer = {who}, who \notin own \/ ~load.history,
              NEW reason \in Reasons, v = Verdict!Unverified(reason)
       PROVE  /\ v \in VerdictRecords
              /\ RightVerdict(v, commit, load.begun, load.history, commits)
  <2>1. ASSUME load.history, signature.kind = "good",
               signature.signer \in appKeys \cap Verdict!NamesIn(commit.tree)
        PROVE  FALSE
    <3>1. who = signature.signer
      BY <1>5, <1>11, <2>1
    <3>2. signature.signer \in own
      BY <2>1 DEF own, Verdict!Resolved
    <3> QED
      BY <1>11, <2>1, <3>1, <3>2
  <2> QED
    BY <1>2, <1>11, <2>1 DEF RightVerdict
<1> QED
  BY <1>6, <1>7, <1>8, <1>9, <1>10, <1>11 DEF ComesAbout, v

-----------------------------------------------------------------------------
(* The steps *)

LEMMA VerdictStart == ASSUME VerdictBounds, Verdict!Init PROVE VerdictInv
<1>1. PICK tree \in Trees, signature \in Signatures :
         commits = <<[tree |-> tree, signature |-> signature]>>
  BY DEF Verdict!Init
<1>2. commits \in Seq(Commits) /\ commits # <<>>
  BY <1>1 DEF Commits
<1>3. /\ verdicts = Verdict!Nothing
      /\ Verdict!Nothing \in [begun : Nat, history : BOOLEAN, list : Seq(VerdictRecords)]
  BY DEF Verdict!Init, Verdict!Nothing
<1>4. VerdictTypes
  BY <1>2, <1>3 DEF Verdict!Init, VerdictTypes
<1> QED
  BY <1>4 DEF Verdict!Init, VerdictInv, LoadIsRight, PageIsRight

\* A load that has read something more.
LEMMA LoadReads ==
    ASSUME VerdictInv, load # Verdict!NoLoad, Verdict!Others, UNCHANGED verdicts, load' \in
           LoadRecords,
           load'.begun = load.begun, load'.history = load.history, load'.done = load.done,
           load'.count \in {load.count, Len(commits)},
           appKeys \subseteq load'.certs,
           \A name \in load'.names : NamedSince(load.begun, name, commits)
    PROVE  VerdictInv'
<1> DEFINE log == commits
<1>1. /\ load \in LoadRecords /\ log \in Seq(Commits) /\ log' = log
      /\ verdicts' = verdicts /\ appKeys' = appKeys /\ hostKeys' = hostKeys
      /\ hostOn' = hostOn /\ historyOn' = historyOn
  BY DEF VerdictInv, VerdictTypes, Verdict!Others
<1>2. VerdictTypes'
  BY <1>1 DEF VerdictInv, VerdictTypes
<1>3. PageIsRight'
  BY <1>1 DEF VerdictInv, PageIsRight, RightVerdict, Verdict!MayMean
<1>4. LoadIsRight'
  <2>1. /\ load.begun \in 1..Len(log) /\ load.count <= Len(log)
        /\ Len(load.done) <= load.count
        /\ \A i \in 1..Len(load.done) :
              RightVerdict(load.done[i], log[i], load.begun, load.history, log)
    BY DEF VerdictInv, LoadIsRight
  <2>2. Len(log) \in Nat /\ Len(load.done) \in Nat /\ load.count \in Nat
    BY <1>1 DEF LoadRecords
  <2>3. load'.count <= Len(log) /\ Len(load.done) <= load'.count
    BY <2>1, <2>2
  <2>4. \A i \in 1..Len(load.done) :
           RightVerdict(load.done[i], log[i], load.begun, load.history, log)'
    BY <1>1, <2>1 DEF RightVerdict, Verdict!MayMean
  <2>5. \A name \in load'.names : NamedSince(load.begun, name, log)'
    BY <1>1 DEF NamedSince
  <2> QED
    BY <1>1, <2>1, <2>3, <2>4, <2>5 DEF LoadIsRight
<1> QED
  BY <1>2, <1>3, <1>4 DEF VerdictInv

LEMMA LoadIsTyped ==
    ASSUME VerdictInv, load # Verdict!NoLoad
    PROVE  /\ load \in LoadRecords
           /\ load = [at |-> load.at, history |-> load.history, certs |-> load.certs,
                      names |-> load.names, paths |-> load.paths, asked |-> load.asked,
                      begun |-> load.begun, count |-> load.count, done |-> load.done]
BY DEF VerdictInv, VerdictTypes, LoadRecords

LEMMA TipIsATree == ASSUME VerdictTypes PROVE Verdict!Tip \in Trees
<1>1. PICK log \in Seq(Commits) : log = commits /\ log # <<>>
  BY DEF VerdictTypes
<1>2. Len(log) \in Nat /\ Len(log) # 0
  BY <1>1
<1>3. log[Len(log)] \in Commits
  BY <1>2
<1> QED
  BY <1>1, <1>3 DEF Verdict!Tip, Commits

LEMMA LoadPageStep == ASSUME VerdictInv, Verdict!LoadPage PROVE VerdictInv'
<1> DEFINE log == commits
<1>1. log \in Seq(Commits) /\ Len(log) \in Nat /\ Len(log) # 0
  BY DEF VerdictInv, VerdictTypes
<1>2. /\ load' = [at |-> "certs", history |-> historyOn, certs |-> {}, names |-> {},
                  paths |-> {}, asked |-> FALSE, begun |-> Len(log), count |-> 0,
                  done |-> <<>>]
      /\ verdicts = Verdict!Nothing /\ verdicts' = verdicts /\ Verdict!Others
  BY DEF Verdict!LoadPage
<1>3. load' \in LoadRecords
  BY <1>1, <1>2 DEF LoadRecords, Verdict!Stages, VerdictInv, VerdictTypes
<1>4. VerdictTypes'
  BY <1>2, <1>3 DEF VerdictInv, VerdictTypes, Verdict!Others
<1>5. LoadIsRight'
  <2>1. /\ load'.begun = Len(log) /\ load'.at = "certs" /\ load'.names = {}
        /\ load'.count = 0 /\ load'.done = <<>>
    BY <1>2
  <2>2. commits' = log /\ Len(<<>>) = 0
    BY <1>2 DEF Verdict!Others
  <2> HIDE DEF log
  <2> QED
    BY <1>1, <2>1, <2>2 DEF LoadIsRight
<1> QED
  BY <1>2, <1>4, <1>5 DEF VerdictInv, PageIsRight

LEMMA ReadCertsStep ==
    ASSUME VerdictInv, load # Verdict!NoLoad, Verdict!ReadCerts
    PROVE  VerdictInv'
<1>1. PICK certs \in {appKeys} \cup (IF hostOn THEN {appKeys \cup hostKeys} ELSE {}) :
         load' = [load EXCEPT !.at = "list", !.certs = certs]
  BY DEF Verdict!ReadCerts
<1>2. certs \in SUBSET AuditKeys /\ appKeys \subseteq certs
  <2>1. certs = appKeys \/ certs = appKeys \cup hostKeys
    BY <1>1
  <2>2. appKeys \subseteq AuditKeys /\ hostKeys \subseteq AuditKeys
    BY DEF VerdictInv, VerdictTypes
  <2> QED
    BY <2>1, <2>2
<1>3. load' \in LoadRecords
  BY <1>1, <1>2, LoadIsTyped DEF LoadRecords, Verdict!Stages
<1>4. /\ load'.begun = load.begun /\ load'.history = load.history /\ load'.done = load.done
      /\ load'.count = load.count /\ load'.names = load.names /\ load'.certs = certs
  BY <1>1, LoadIsTyped DEF LoadRecords
<1>5. \A name \in load'.names : NamedSince(load.begun, name, commits)
  BY <1>4 DEF VerdictInv, LoadIsRight
<1>6. Verdict!Others /\ UNCHANGED verdicts
  BY DEF Verdict!ReadCerts
<1> QED
  BY <1>2, <1>3, <1>4, <1>5, <1>6, LoadReads

LEMMA ListStep ==
    ASSUME VerdictInv, load # Verdict!NoLoad, Verdict!ListTreeRecipientPaths
    PROVE  VerdictInv'
<1>1. /\ load' = [load EXCEPT !.at = "files", !.paths = DOMAIN Verdict!Tip]
      /\ load.at = "list" /\ Verdict!Others /\ UNCHANGED verdicts
  BY DEF Verdict!ListTreeRecipientPaths
<1>2. Verdict!Tip \in Trees
  BY TipIsATree DEF VerdictInv
<1>3. DOMAIN Verdict!Tip \in SUBSET UNION {DOMAIN tree : tree \in Trees}
  BY <1>2
<1>4. load' \in LoadRecords
  BY <1>1, <1>3, LoadIsTyped DEF LoadRecords, Verdict!Stages
<1>5. /\ load'.begun = load.begun /\ load'.history = load.history /\ load'.done = load.done
      /\ load'.count = load.count /\ load'.names = load.names /\ load'.certs = load.certs
  BY <1>1, LoadIsTyped DEF LoadRecords
<1>6. /\ \A name \in load'.names : NamedSince(load.begun, name, commits)
      /\ appKeys \subseteq load'.certs
  BY <1>1, <1>5 DEF VerdictInv, LoadIsRight
<1> QED
  BY <1>1, <1>4, <1>5, <1>6, LoadReads

\* A file is read from the tip of that moment.
LEMMA ReadFileStep ==
    ASSUME VerdictBounds, VerdictInv, load # Verdict!NoLoad,
           NEW file \in load.paths, Verdict!ReadTreeFile(file)
    PROVE  VerdictInv'
<1>1. /\ load' = [load EXCEPT !.paths = @ \ {file}, !.names = @ \cup Verdict!Tip[file]]
      /\ load.at = "files" /\ file \in DOMAIN Verdict!Tip /\ Verdict!Others
      /\ UNCHANGED verdicts
  BY DEF Verdict!ReadTreeFile
<1>2. Verdict!Tip \in Trees /\ Verdict!Tip = commits[Len(commits)].tree
  BY TipIsATree DEF VerdictInv, Verdict!Tip
<1>3. /\ Verdict!Tip[file] \subseteq Verdict!NamesIn(Verdict!Tip)
      /\ Verdict!Tip[file] \subseteq AuditKeys \cup {UserId}
  BY <1>1, <1>2, TipHasNames DEF VerdictBounds
<1>4. load' \in LoadRecords
  <2>1. load.names \cup Verdict!Tip[file] \in SUBSET (AuditKeys \cup {UserId})
    BY <1>3, LoadIsTyped DEF LoadRecords
  <2>2. load.paths \ {file} \in SUBSET UNION {DOMAIN tree : tree \in Trees}
    BY LoadIsTyped DEF LoadRecords
  <2> QED
    BY <1>1, <2>1, <2>2, LoadIsTyped DEF LoadRecords
<1>5. /\ load'.begun = load.begun /\ load'.history = load.history /\ load'.done = load.done
      /\ load'.count = load.count /\ load'.names = load.names \cup Verdict!Tip[file]
      /\ load'.certs = load.certs
  BY <1>1, LoadIsTyped DEF LoadRecords
<1>6. load.begun \in 1..Len(commits) /\ Len(commits) \in Nat
  BY DEF VerdictInv, LoadIsRight, VerdictTypes
<1>7. \A name \in Verdict!Tip[file] : NamedSince(load.begun, name, commits)
  BY <1>2, <1>3, <1>6 DEF NamedSince
<1>8. /\ \A name \in load'.names : NamedSince(load.begun, name, commits)
      /\ appKeys \subseteq load'.certs
  BY <1>1, <1>5, <1>7 DEF VerdictInv, LoadIsRight
<1> QED
  BY <1>1, <1>4, <1>5, <1>8, LoadReads

LEMMA ReadCommitsStep ==
    ASSUME VerdictInv, load # Verdict!NoLoad, Verdict!ReadCommits
    PROVE  VerdictInv'
<1>1. /\ load' = [load EXCEPT !.at = "host", !.count = Len(commits)]
      /\ load.at = "files" /\ Verdict!Others /\ UNCHANGED verdicts
  BY DEF Verdict!ReadCommits
<1>2. Len(commits) \in Nat
  BY DEF VerdictInv, VerdictTypes
<1>4. load' \in LoadRecords
  BY <1>1, <1>2, LoadIsTyped DEF LoadRecords, Verdict!Stages
<1>5. /\ load'.begun = load.begun /\ load'.history = load.history /\ load'.done = load.done
      /\ load'.count = Len(commits) /\ load'.names = load.names /\ load'.certs = load.certs
  BY <1>1, LoadIsTyped DEF LoadRecords
<1>6. /\ \A name \in load'.names : NamedSince(load.begun, name, commits)
      /\ appKeys \subseteq load'.certs
  BY <1>1, <1>5 DEF VerdictInv, LoadIsRight
<1> QED
  BY <1>1, <1>4, <1>5, <1>6, LoadReads

LEMMA ReadHostStep ==
    ASSUME VerdictInv, load # Verdict!NoLoad, Verdict!ReadHostSignatures PROVE VerdictInv'
<1>1. /\ \E asked \in {FALSE, hostOn} :
             load' = [load EXCEPT !.at = "verify", !.asked = asked]
      /\ load.at = "host" /\ Verdict!Others /\ UNCHANGED verdicts
  BY DEF Verdict!ReadHostSignatures
<1>2. PICK asked \in BOOLEAN : load' = [load EXCEPT !.at = "verify", !.asked = asked]
  BY <1>1 DEF VerdictInv, VerdictTypes
<1>4. load' \in LoadRecords
  BY <1>2, LoadIsTyped DEF LoadRecords, Verdict!Stages
<1>5. /\ load'.begun = load.begun /\ load'.history = load.history /\ load'.done = load.done
      /\ load'.count = load.count /\ load'.names = load.names /\ load'.certs = load.certs
  BY <1>2, LoadIsTyped DEF LoadRecords
<1>6. /\ \A name \in load'.names : NamedSince(load.begun, name, commits)
      /\ appKeys \subseteq load'.certs
  BY <1>1, <1>5 DEF VerdictInv, LoadIsRight
<1> QED
  BY <1>1, <1>4, <1>5, <1>6, LoadReads

LEMMA VerifyStep ==
    ASSUME VerdictBounds, VerdictInv, load # Verdict!NoLoad, Verdict!VerifyNext
    PROVE  VerdictInv'
<1>1. PICK log \in Seq(Commits), done \in Seq(VerdictRecords), count \in Nat :
         log = commits /\ done = load.done /\ count = load.count
  BY LoadIsTyped DEF VerdictInv, VerdictTypes, LoadRecords
<1>0. PICK begun \in Nat, history \in BOOLEAN : begun = load.begun /\ history = load.history
  BY LoadIsTyped DEF LoadRecords
<1>2. PICK n \in Nat : n = Len(done)
  OBVIOUS
<1>3. /\ load.at = "verify" /\ n < count
      /\ load' = [load EXCEPT !.done = Append(@, Verdict!VerifyCommit(log[n + 1], load))]
      /\ Verdict!Others /\ UNCHANGED verdicts
  BY <1>1, <1>2 DEF Verdict!VerifyNext
<1>4. count <= Len(log) /\ Len(log) \in Nat
  BY <1>1 DEF VerdictInv, LoadIsRight
<1>5. log[n + 1] \in Commits
  BY <1>2, <1>3, <1>4
<1>6. PICK v : v = Verdict!VerifyCommit(log[n + 1], load)
  OBVIOUS
<1>7. /\ load \in LoadRecords /\ load.history \in BOOLEAN /\ appKeys \subseteq load.certs
      /\ \A name \in load.names : NamedSince(load.begun, name, commits)
  BY <1>3, LoadIsTyped DEF VerdictInv, LoadIsRight, LoadRecords
<1>8. /\ v \in VerdictRecords
      /\ RightVerdict(v, log[n + 1], load.begun, load.history, commits)
  BY <1>5, <1>6, <1>7, VerdictIsRight DEF VerdictInv
<1>9. /\ Append(done, v) \in Seq(VerdictRecords) /\ Len(Append(done, v)) = n + 1
      /\ \A i \in 1..n : Append(done, v)[i] = done[i]
      /\ Append(done, v)[n + 1] = v
  BY <1>2, <1>8
<1>10. load' = [load EXCEPT !.done = Append(done, v)]
  BY <1>1, <1>3, <1>6
<1>11. load' \in LoadRecords
  BY <1>9, <1>10, LoadIsTyped DEF LoadRecords
<1>12. /\ load'.begun = load.begun /\ load'.history = load.history
       /\ load'.done = Append(done, v) /\ load'.at = load.at
       /\ load'.count = count /\ load'.names = load.names /\ load'.certs = load.certs
  BY <1>1, <1>10, LoadIsTyped DEF LoadRecords
<1>13. /\ commits' = commits /\ verdicts' = verdicts /\ appKeys' = appKeys
       /\ hostKeys' = hostKeys /\ hostOn' = hostOn /\ historyOn' = historyOn
  BY <1>3 DEF Verdict!Others
<1>14. \A i \in 1..n + 1 :
          RightVerdict(Append(done, v)[i], log[i], begun, history, commits)
  <2>1. \A i \in 1..n : RightVerdict(done[i], log[i], begun, history, commits)
    BY <1>0, <1>1, <1>2 DEF VerdictInv, LoadIsRight
  <2>2. \A i \in 1..n + 1 : i \in 1..n \/ i = n + 1
    OBVIOUS
  <2> QED
    BY <1>0, <1>8, <1>9, <2>1, <2>2
<1>15. LoadIsRight'
  <2>1. \A i \in 1..n + 1 :
          RightVerdict(Append(done, v)[i], log[i], begun, history, commits)'
    BY <1>13, <1>14 DEF RightVerdict, Verdict!MayMean
  <2>2. \A name \in load'.names : NamedSince(begun, name, commits)'
    BY <1>0, <1>7, <1>12, <1>13 DEF NamedSince
  <2>3. /\ begun \in 1..Len(commits) /\ n + 1 <= count /\ count <= Len(commits)
    BY <1>0, <1>1, <1>3, <1>4 DEF VerdictInv, LoadIsRight
  <2> QED
    BY <1>0, <1>1, <1>7, <1>9, <1>12, <1>13, <2>1, <2>2, <2>3 DEF LoadIsRight
<1>16. VerdictTypes'
  BY <1>11, <1>13 DEF VerdictInv, VerdictTypes
<1>17. PageIsRight'
  BY <1>13 DEF VerdictInv, PageIsRight, RightVerdict, Verdict!MayMean
<1> QED
  BY <1>15, <1>16, <1>17 DEF VerdictInv

LEMMA ShowPageStep ==
    ASSUME VerdictInv, load # Verdict!NoLoad, Verdict!ShowPage
    PROVE  VerdictInv'
<1>1. /\ verdicts' = [begun |-> load.begun, history |-> load.history, list |-> load.done]
      /\ load' = Verdict!NoLoad /\ Verdict!Others /\ Len(load.done) = load.count
  BY DEF Verdict!ShowPage
<1>2. verdicts' \in [begun : Nat, history : BOOLEAN, list : Seq(VerdictRecords)]
  BY <1>1, LoadIsTyped DEF LoadRecords
<1>3. /\ commits' = commits /\ appKeys' = appKeys
      /\ hostKeys' = hostKeys /\ hostOn' = hostOn /\ historyOn' = historyOn
  BY <1>1 DEF Verdict!Others
<1>4. VerdictTypes'
  BY <1>1, <1>2, <1>3 DEF VerdictInv, VerdictTypes
<1>5. PICK done, begun, history :
         done = load.done /\ begun = load.begun /\ history = load.history
  OBVIOUS
<1>6. /\ Len(done) <= Len(commits)
      /\ \A i \in 1..Len(done) : RightVerdict(done[i], commits[i], begun, history, commits)
  BY <1>1, <1>5 DEF VerdictInv, LoadIsRight
<1>7. \A i \in 1..Len(done) : RightVerdict(done[i], commits[i], begun, history, commits)'
  BY <1>3, <1>6 DEF RightVerdict, Verdict!MayMean
<1>8. PageIsRight'
  <2>1. verdicts' = [begun |-> begun, history |-> history, list |-> done]
    BY <1>1, <1>5
  <2>2. verdicts'.list = done /\ verdicts'.begun = begun /\ verdicts'.history = history
    BY <2>1
  <2> QED
    BY <1>3, <1>6, <1>7, <2>2 DEF PageIsRight
<1> QED
  BY <1>1, <1>4, <1>8 DEF VerdictInv, LoadIsRight

LEMMA LoadFailsStep == ASSUME VerdictInv, Verdict!LoadFails PROVE VerdictInv'
<1>1. Verdict!Nothing \in [begun : Nat, history : BOOLEAN, list : Seq(VerdictRecords)]
  BY DEF Verdict!Nothing
<1> QED
  BY <1>1
     DEF Verdict!LoadFails, Verdict!Others, VerdictInv, VerdictTypes, LoadIsRight,
         PageIsRight

\* A verdict stays right when commits are added.
LEMMA CommitStep == ASSUME VerdictInv, Verdict!Commit PROVE VerdictInv'
<1>1. PICK log \in Seq(Commits) : log = commits /\ log # <<>>
  BY DEF VerdictInv, VerdictTypes
<1>2. PICK tree \in Trees, signature \in Signatures :
         commits' = Append(log, [tree |-> tree, signature |-> signature])
  BY <1>1 DEF Verdict!Commit
<1>3. PICK new \in Commits : commits' = Append(log, new)
  BY <1>2 DEF Commits
<1>4. PICK n \in Nat : n = Len(log)
  OBVIOUS
<1>5. /\ Append(log, new) \in Seq(Commits) /\ Len(Append(log, new)) = n + 1
      /\ \A i \in 1..n : Append(log, new)[i] = log[i]
  BY <1>4
<1>6. PICK after \in Seq(Commits) : after = Append(log, new)
  BY <1>5
<1>7. /\ load' = load /\ verdicts' = verdicts /\ appKeys' = appKeys /\ hostKeys' = hostKeys
      /\ hostOn' = hostOn /\ historyOn' = historyOn /\ verdicts = Verdict!Nothing
  BY DEF Verdict!Commit
<1>8. /\ Len(after) = n + 1 /\ \A i \in 1..n : after[i] = log[i]
      /\ commits' = after /\ after # <<>>
  BY <1>3, <1>5, <1>6
<1>9. VerdictTypes'
  BY <1>7, <1>8 DEF VerdictInv, VerdictTypes
<1>10. LoadIsRight'
  <2>1. SUFFICES ASSUME load # Verdict!NoLoad
                 PROVE  LoadIsRight'
    BY <1>7 DEF LoadIsRight
  <2>2. /\ load.begun \in 1..n
        /\ load.at # "certs" => appKeys \subseteq load.certs
        /\ load.count <= n /\ Len(load.done) <= load.count
        /\ \A name \in load.names : NamedSince(load.begun, name, log)
        /\ \A i \in 1..Len(load.done) :
              RightVerdict(load.done[i], log[i], load.begun, load.history, log)
    BY <1>1, <1>4, <2>1 DEF VerdictInv, LoadIsRight
  <2>3. load.count \in Nat /\ Len(load.done) \in Nat
    BY <2>1, LoadIsTyped DEF LoadRecords
  <2>4. \A i \in load.begun..n : i \in load.begun..n + 1 /\ i \in 1..n /\ after[i] = log[i]
    BY <1>8, <2>2
  <2>5. \A name \in load.names : NamedSince(load.begun, name, after)
    BY <1>4, <1>8, <2>2, <2>4 DEF NamedSince
  <2>6. ASSUME NEW i \in 1..Len(load.done)
        PROVE  RightVerdict(load.done[i], after[i], load.begun, load.history, after)
    <3>1. i \in 1..n /\ after[i] = log[i]
      BY <1>8, <2>2, <2>3
    <3>2. RightVerdict(load.done[i], after[i], load.begun, load.history, log)
      BY <2>2, <3>1
    <3>3. (\E j \in load.begun..n :
           Verdict!MayMean(log[j].tree, after[i].signature.signer)) =>
          (\E j \in load.begun..n + 1 :
           Verdict!MayMean(after[j].tree, after[i].signature.signer))
      BY <2>4
    <3> QED
      BY <1>4, <1>8, <3>2, <3>3 DEF RightVerdict
  <2>7. \A i \in 1..Len(load'.done) :
           RightVerdict(load.done[i], after[i], load.begun, load.history, after)'
    <3>1. PICK done, begun, history :
             done = load.done /\ begun = load.begun /\ history = load.history
      OBVIOUS
    <3>2. \A i \in 1..Len(done) : RightVerdict(done[i], after[i], begun, history, after)
      BY <2>6, <3>1
    <3>3. \A i \in 1..Len(done) : RightVerdict(done[i], after[i], begun, history, after)'
      BY <1>7, <3>2 DEF RightVerdict, Verdict!MayMean
    <3> QED
      BY <1>7, <3>1, <3>3
  <2>8. load.begun \in 1..n + 1 /\ load.count <= n + 1
    BY <2>2, <2>3
  <2> QED
    BY <1>7, <1>8, <2>2, <2>5, <2>7, <2>8 DEF LoadIsRight
<1>11. PageIsRight'
  BY <1>7 DEF PageIsRight
<1> QED
  BY <1>9, <1>10, <1>11 DEF VerdictInv

\* What is said of the load and of the page does not look at the host.
LEMMA NothingElseCounts ==
    ASSUME VerdictInv,
           UNCHANGED <<appKeys, hostKeys, historyOn, commits, load, verdicts>>, hostOn' \in
               BOOLEAN
    PROVE  VerdictInv'
<1>1. /\ appKeys' = appKeys /\ hostKeys' = hostKeys /\ historyOn' = historyOn
      /\ commits' = commits /\ load' = load /\ verdicts' = verdicts
  OBVIOUS
<1>2. VerdictTypes'
  BY <1>1 DEF VerdictInv, VerdictTypes
<1>5. LoadIsRight'
  BY <1>1 DEF VerdictInv, LoadIsRight, NamedSince, RightVerdict, Verdict!MayMean
<1>6. PageIsRight'
  BY <1>1 DEF VerdictInv, PageIsRight, RightVerdict, Verdict!MayMean
<1> QED
  BY <1>2, <1>5, <1>6 DEF VerdictInv

LEMMA HostOffStep == ASSUME VerdictInv, Verdict!TurnHostOff PROVE VerdictInv'
BY NothingElseCounts DEF Verdict!TurnHostOff

LEMMA VerdictStep ==
    ASSUME VerdictBounds, VerdictInv, [Verdict!Next]_(Verdict!verdictVars) PROVE VerdictInv'
<1>1. CASE Verdict!LoadPage
  BY <1>1, LoadPageStep
<1>2. CASE load # Verdict!NoLoad /\ Verdict!LoadStep
  <2>1. ASSUME load # Verdict!NoLoad, NEW file \in load.paths, Verdict!ReadTreeFile(file)
        PROVE  VerdictInv'
    BY <2>1, ReadFileStep
  <2> QED
    BY <1>2, <2>1, ReadCertsStep, ListStep, ReadCommitsStep, ReadHostStep, VerifyStep,
       ShowPageStep, LoadFailsStep DEF Verdict!LoadStep
<1>3. CASE Verdict!Commit
  BY <1>3, CommitStep
<1>4. CASE Verdict!TurnHostOff
  BY <1>4, HostOffStep
<1>5. CASE UNCHANGED Verdict!verdictVars
  BY <1>5, NothingElseCounts DEF Verdict!verdictVars, VerdictInv, VerdictTypes
<1> QED
  BY <1>1, <1>2, <1>3, <1>4, <1>5 DEF Verdict!Next

LEMMA VerdictsShow ==
    ASSUME VerdictInv
    PROVE  Verdict!TypeOK /\ Verdict!VerdictsFollowTheRecipients
<1>1. Verdict!TypeOK
  <2>1. \A i \in DOMAIN commits :
           commits[i].tree \in Trees /\ commits[i].signature \in Signatures
    <3>1. PICK log \in Seq(Commits) : log = commits
      BY DEF VerdictInv, VerdictTypes
    <3>2. \A i \in DOMAIN log : log[i] \in Commits
      BY <3>1
    <3> QED
      BY <3>1, <3>2 DEF Commits
  <2>2. /\ load.at \in Verdict!Stages
        /\ (load.at # "idle" => load.names \subseteq AuditKeys \cup {UserId})
    BY DEF VerdictInv, VerdictTypes, LoadRecords, Verdict!NoLoad, Verdict!Stages
  <2>3. \A i \in DOMAIN verdicts.list :
            verdicts.list[i].state \in {"verified", "unverified"}
    <3>1. PICK list \in Seq(VerdictRecords) : list = verdicts.list
      BY DEF VerdictInv, VerdictTypes
    <3>2. \A i \in DOMAIN list : list[i] \in VerdictRecords
      BY <3>1
    <3> QED
      BY <3>1, <3>2 DEF VerdictRecords
  <2> QED
    BY <2>1, <2>2, <2>3 DEF Verdict!TypeOK, VerdictInv, VerdictTypes
<1>2. ASSUME NEW i \in DOMAIN verdicts.list
      PROVE  RightVerdict(verdicts.list[i], commits[i], verdicts.begun, verdicts.history,
                          commits)
  <2>1. i \in 1..Len(verdicts.list)
    BY DEF VerdictInv, VerdictTypes
  <2>2. verdicts # Verdict!Nothing
    BY <2>1 DEF Verdict!Nothing
  <2> QED
    BY <2>1, <2>2 DEF VerdictInv, PageIsRight
<1>3. Verdict!VerifiedIsSignedByARecipient
  BY <1>2 DEF RightVerdict, Verdict!VerifiedIsSignedByARecipient
<1>4. Verdict!OwnRecipientsStayVerified
  BY <1>2 DEF RightVerdict, Verdict!OwnRecipientsStayVerified
<1> QED
  BY <1>1, <1>3, <1>4 DEF Verdict!VerdictsFollowTheRecipients

-----------------------------------------------------------------------------
(* The two together *)

\* The audit takes all the steps, or none.
LEMMA TheAuditStepsOrStays ==
    ASSUME [AllNext]_allVars PROVE [Verdict!Next]_(Verdict!verdictVars)
<1>1. verdictVars = Verdict!verdictVars /\ verdictVars' = (Verdict!verdictVars)'
  BY DEF verdictVars, Verdict!verdictVars
<1>2. Verdict!Next \/ UNCHANGED verdictVars
  BY DEF AllNext, allVars
<1> QED
  BY <1>1, <1>2

LEMMA VerdictsAlways == ASSUME VerdictBounds PROVE AllSpec => []VerdictInv
<1>1. AllInit => VerdictInv
  BY VerdictStart DEF AllInit
<1>2. VerdictInv /\ [AllNext]_allVars => VerdictInv'
  BY VerdictStep, TheAuditStepsOrStays
<1> QED
  BY <1>1, <1>2, PTL DEF AllSpec

\* A commit is shown as verified only for a signature that is neither missing nor
\* bad, by a key named at the branch's tip while the page was loaded, or in the
\* commit itself if the setting said so; and with that setting a good signature by
\* a key that its own recipient files name is always recognized, whatever was
\* committed or turned off between two reads (audit.rs).
THEOREM VerdictsAreRight ==
    ASSUME VerdictBounds PROVE AllSpec => []VerdictsFollowTheRecipients
<1>1. VerdictInv => VerdictsFollowTheRecipients
  BY VerdictsShow DEF VerdictsFollowTheRecipients
<1> QED
  BY <1>1, VerdictsAlways, PTL
=============================================================================
