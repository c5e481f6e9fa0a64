--------------------------- MODULE CommitVerdicts ---------------------------
(* What the audit page says of a commit: verified when a good signature is by  *)
(* a key that the store's recipient files name, at the tip of the branch or,   *)
(* if the user wants it, in the commit itself.  A worker finds out with one    *)
(* git command after the other, and reads the branch's tip anew in each; other *)
(* commits and a change of the settings may come between any two.              *)
(* Keys are named by fingerprint or by a user id that all of them carry.       *)
(* Left out: pages of commits (AuditPage), what a commit changed, labels, and  *)
(* host signatures by a subkey, which the host reports by the subkey's name.   *)
EXTENDS Naturals, Sequences, FiniteSets

CONSTANTS
    AuditKeys,   \* keys, by fingerprint
    UserId,      \* the user id they all carry
    Trees,       \* recipient files a commit may have: path -> what it names
    Signatures,  \* signatures a commit may have: [kind, signer]
    MaxLog       \* bound: commits of the branch

VARIABLES
    appKeys,    \* public keys the app has
    hostKeys,   \* and those of the host's key ring
    hostOn,     \* host key synchronisation is on and the host may be asked
    historyOn,  \* the setting: a commit's own recipients may have signed it
    commits,    \* the branch, oldest first
    load,       \* the load of the page: where it is and what it has read
    verdicts    \* what the page shows, with the setting and the commits its load began with

verdictVars == <<appKeys, hostKeys, hostOn, historyOn, commits, load, verdicts>>

Kinds == {"none", "good", "outdated", "bad", "garbled", "ssh"}
NoLoad == [at |-> "idle"]
Nothing == [begun |-> 0, history |-> FALSE, list |-> <<>>]
Stages == {"idle", "certs", "list", "files", "log", "host", "verify"}

TypeOK ==
    /\ appKeys \subseteq AuditKeys /\ hostKeys \subseteq AuditKeys
    /\ hostOn \in BOOLEAN /\ historyOn \in BOOLEAN
    /\ \A i \in DOMAIN commits : commits[i].tree \in Trees /\ commits[i].signature \in Signatures
    /\ load.at \in Stages
    /\ load.at # "idle" => load.names \subseteq AuditKeys \cup {UserId}
    /\ \A i \in DOMAIN verdicts.list : verdicts.list[i].state \in {"verified", "unverified"}

Init ==
    /\ appKeys \in SUBSET AuditKeys
    /\ hostOn \in BOOLEAN
    /\ hostKeys \in {{}, AuditKeys} /\ (hostKeys # {} => hostOn)
    /\ historyOn \in BOOLEAN
    /\ \E tree \in Trees, signature \in Signatures :
         commits = <<[tree |-> tree, signature |-> signature]>>
    /\ load = NoLoad
    /\ verdicts = Nothing

Tip == commits[Len(commits)].tree

-----------------------------------------------------------------------------
(* What a commit's signature is worth. *)

\* A user id that two keys carry names neither.
Resolved(names, certs) ==
    (names \cap certs) \cup (IF UserId \in names /\ Cardinality(certs) = 1 THEN certs ELSE {})

NamesIn(tree) == UNION {tree[path] : path \in DOMAIN tree}

Signed(signer, method) == [signer |-> {signer}, reason |-> "none", method |-> method]
NotSigned(reason, method) == [signer |-> {}, reason |-> reason, method |-> method]

VerifyCommitSignature(signature, certs) ==
    LET here == signature.signer \in certs
    IN  IF signature.kind = "garbled" THEN NotSigned("malformed", "keycord")
        ELSE IF ~here THEN NotSigned("key unavailable", "keycord")
        ELSE IF signature.kind = "good" THEN Signed(signature.signer, "keycord")
        ELSE NotSigned("invalid", "keycord")

\* The host's git accepts signatures that the app's policy finds outdated.
VerifyHostGitSignature(signature) ==
    IF signature.kind = "ssh" THEN Signed("an ssh key", "ssh")
    ELSE IF signature.kind = "garbled" THEN NotSigned("none there", "gpg")
    ELSE IF signature.signer \notin hostKeys THEN NotSigned("key unavailable", "gpg")
    ELSE IF signature.kind = "bad" THEN NotSigned("invalid", "gpg")
    ELSE Signed(signature.signer, "gpg")

Crypto(signature, certs, asked) ==
    LET local == VerifyCommitSignature(signature, certs)
        host == VerifyHostGitSignature(signature)
    IN  IF signature.kind = "ssh"
        THEN IF asked THEN host ELSE NotSigned("malformed", "none")
        ELSE IF local.reason # "none" /\ asked /\ host.reason = "none" THEN host ELSE local

AuthorizeSigner(resolved, signer) ==
    IF signer \in resolved THEN "none"
    ELSE IF resolved = {} THEN "no recipients" ELSE "not authorized"

\* Slip: the commit's own recipients are tried only when the tip has some.
RetryUnlessEmpty(reason, enabled) == enabled /\ reason = "not authorized"

ShouldRetryWithCommitHistoryRecipients(reason, enabled) ==
    enabled /\ reason \in {"not authorized", "no recipients"}

Verified(mode) == [state |-> "verified", mode |-> mode, reason |-> "none"]
Unverified(reason) == [state |-> "unverified", mode |-> "tip", reason |-> reason]

VerifyCommit(commit, read) ==
    LET crypto == Crypto(commit.signature, read.certs, read.asked)
        tip == {AuthorizeSigner(Resolved(read.names, read.certs), s) : s \in crypto.signer}
        own == {AuthorizeSigner(Resolved(NamesIn(commit.tree), read.certs), s) :
                   s \in crypto.signer}
        reason == CHOOSE r \in tip : TRUE
    IN  IF commit.signature.kind = "none" THEN Unverified("no signature")
        ELSE IF crypto.signer = {} THEN Unverified(crypto.reason)
        ELSE IF tip = {"none"} THEN Verified("tip")
        ELSE IF /\ ShouldRetryWithCommitHistoryRecipients(reason, read.history)
                /\ own = {"none"}
             THEN Verified("history")
        ELSE Unverified(reason)

-----------------------------------------------------------------------------
(* The load. *)

Others == UNCHANGED <<appKeys, hostKeys, hostOn, historyOn, commits>>

\* Loads have nothing in common: one is enough.
LoadPage ==
    /\ load = NoLoad /\ verdicts = Nothing
    /\ load' = [at |-> "certs", history |-> historyOn, certs |-> {}, names |-> {}, paths |-> {},
                asked |-> FALSE, begun |-> Len(commits), count |-> 0, done |-> <<>>]
    /\ Others /\ UNCHANGED verdicts

\* The host's keys are added if it is asked and answers.
ReadCerts ==
    /\ load.at = "certs"
    /\ \E certs \in {appKeys} \cup (IF hostOn THEN {appKeys \cup hostKeys} ELSE {}) :
         load' = [load EXCEPT !.at = "list", !.certs = certs]
    /\ Others /\ UNCHANGED verdicts

ListTreeRecipientPaths ==
    /\ load.at = "list"
    /\ load' = [load EXCEPT !.at = "files", !.paths = DOMAIN Tip]
    /\ Others /\ UNCHANGED verdicts

ReadTreeFile(path) ==
    /\ load.at = "files"
    /\ path \in load.paths \cap DOMAIN Tip
    /\ load' = [load EXCEPT !.paths = @ \ {path}, !.names = @ \cup Tip[path]]
    /\ Others /\ UNCHANGED verdicts

\* The commits of the page, and their objects, which do not change.
ReadCommits ==
    /\ load.at = "files" /\ load.paths = {}
    /\ load' = [load EXCEPT !.at = "host", !.count = Len(commits)]
    /\ Others /\ UNCHANGED verdicts

ReadHostSignatures ==
    /\ load.at = "host"
    /\ \E asked \in {FALSE, hostOn} : load' = [load EXCEPT !.at = "verify", !.asked = asked]
    /\ Others /\ UNCHANGED verdicts

VerifyNext ==
    /\ load.at = "verify"
    /\ Len(load.done) < load.count
    /\ load' = [load EXCEPT !.done =
                   Append(@, VerifyCommit(commits[Len(@) + 1], load))]
    /\ Others /\ UNCHANGED verdicts

ShowPage ==
    /\ load.at = "verify"
    /\ Len(load.done) = load.count
    /\ verdicts' = [begun |-> load.begun, history |-> load.history, list |-> load.done]
    /\ load' = NoLoad
    /\ Others

\* A command fails, or a file that was listed is gone: there is no page.
LoadFails ==
    /\ load.at \in {"certs", "list", "files", "verify"}
    /\ load' = NoLoad
    /\ verdicts' = Nothing
    /\ Others

-----------------------------------------------------------------------------

Commit ==
    /\ Len(commits) < MaxLog /\ verdicts = Nothing
    /\ \E tree \in Trees, signature \in Signatures :
         commits' = Append(commits, [tree |-> tree, signature |-> signature])
    /\ UNCHANGED <<appKeys, hostKeys, hostOn, historyOn, load, verdicts>>

\* The other setting is read once, when the load begins.
TurnHostOff ==
    /\ load # NoLoad /\ hostOn
    /\ hostOn' = FALSE
    /\ UNCHANGED <<appKeys, hostKeys, historyOn, commits, load, verdicts>>

LoadStep ==
    \/ ReadCerts
    \/ ListTreeRecipientPaths
    \/ \E path \in load.paths : ReadTreeFile(path)
    \/ ReadCommits
    \/ ReadHostSignatures
    \/ VerifyNext
    \/ ShowPage
    \/ LoadFails

Next ==
    \/ LoadPage
    \/ load # NoLoad /\ LoadStep
    \/ Commit
    \/ TurnHostOff

Spec == Init /\ [][Next]_verdictVars

-----------------------------------------------------------------------------
(* Properties. *)

\* The tree named the key, by its fingerprint or by a user id no other key of the app has.
MayMean(tree, key) ==
    \/ key \in NamesIn(tree)
    \/ UserId \in NamesIn(tree) /\ appKeys \subseteq {key}

(* A commit that is shown as verified has a signature that is neither missing  *)
(* nor bad, by a key that was named at the tip of the branch at some moment of *)
(* the load, or in the commit itself if the setting allowed that.              *)
VerifiedIsSignedByARecipient ==
    \A i \in DOMAIN verdicts.list :
        LET verdict == verdicts.list[i]
            signature == commits[i].signature
        IN  verdict.state = "verified" =>
                /\ signature.kind \in {"good", "outdated"}
                /\ \/ /\ verdict.mode = "tip"
                      /\ \E j \in verdicts.begun..Len(commits) :
                            MayMean(commits[j].tree, signature.signer)
                   \/ /\ verdict.mode = "history" /\ verdicts.history
                      /\ MayMean(commits[i].tree, signature.signer)

(* With the setting on, a good signature by a key that the app knows and that  *)
(* the commit's own recipient files name by fingerprint is always recognized,  *)
(* whoever was given the store, and whoever lost it, since.                    *)
OwnRecipientsStayVerified ==
    \A i \in DOMAIN verdicts.list :
        LET signature == commits[i].signature
        IN  (/\ verdicts.history
             /\ signature.kind = "good"
             /\ signature.signer \in appKeys \cap NamesIn(commits[i].tree)) =>
            verdicts.list[i].state = "verified"

(* The verdicts shown are right in both directions.                            *)
VerdictsFollowTheRecipients == VerifiedIsSignedByARecipient /\ OwnRecipientsStayVerified
=============================================================================
