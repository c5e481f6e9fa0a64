------------------------------ MODULE MCBackend ------------------------------
(* Instances for TLC of the store, changed by one thread that never fails, and *)
(* of what the audit says of commits.  One of the two is chosen at the start   *)
(* and takes all the steps.                                                    *)
EXTENDS MCRecipientStore

CONSTANTS AuditKeys, UserId, Trees, Signatures, MaxLog

VARIABLES
    focus,
    appKeys, hostKeys, hostOn, historyOn, commits, load, verdicts

Verdict == INSTANCE CommitVerdicts

verdictVars == <<appKeys, hostKeys, hostOn, historyOn, commits, load, verdicts>>
allVars == <<focus, vars, verdictVars>>

\* Of no key, of one or both by name, and in two files.
mcTrees ==
    {[path \in {} |-> {}],
     [path \in {"root"} |-> {k1}],
     [path \in {"root"} |-> {UserId}],
     [path \in {"root", "sub"} |-> IF path = "root" THEN {k2} ELSE {k1}]}
mcSignatures ==
    {[kind |-> kind, signer |-> k1] : kind \in {"none", "good", "outdated", "bad", "ssh"}}
        \cup {[kind |-> "good", signer |-> k2]}

AllInit ==
    /\ focus \in {"store", "audit"}
    /\ Init /\ Verdict!Init
    /\ focus # "store" => \A l \in Labels : entry[l] = Absent
    /\ focus # "store" => gpgid = [d \in Dirs |-> NoFile]
    /\ focus # "audit" =>
           /\ appKeys = {} /\ hostKeys = {} /\ ~hostOn /\ ~historyOn
           /\ commits[1].tree = [path \in {} |-> {}]
           /\ commits[1].signature = [kind |-> "none", signer |-> k1]

AllNext ==
    /\ UNCHANGED focus
    /\ \/ /\ focus = "store"
          /\ Next
          /\ UNCHANGED verdictVars
       \/ /\ focus = "audit"
          /\ Verdict!Next
          /\ UNCHANGED vars

\* The thread of the store is scheduled; nothing is assumed of the rest.
AllSpec ==
    /\ AllInit /\ [][AllNext]_allVars
    /\ \A t \in Threads : WF_vars(WorkerStep(t))

(* See CommitVerdicts. *)
VerdictsFollowTheRecipients == focus = "audit" => Verdict!VerdictsFollowTheRecipients
=============================================================================
