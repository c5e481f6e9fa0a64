--------------------------- MODULE RecipientVault ---------------------------
(***************************************************************************)
(* What a password store promises: recipients are replaced in one piece,   *)
(* together with the encryption of every entry they govern, and no entry's *)
(* secret changes on the way; entries are put and removed one at a time    *)
(* and are always encrypted for the recipients that govern them.           *)
(***************************************************************************)
EXTENDS RecipientScopes

VARIABLES
    rcp,        \* [Dirs -> Files \cup {NoFile}], recipients of each directory
    sealed      \* [Labels -> Blob \cup {Absent}], the entries

Kept == {l \in Labels : sealed[l] # Absent}

VaultInit ==
    /\ rcp \in [Dirs -> Files \cup {NoFile}]
    /\ sealed \in [Labels -> {Absent} \cup
                      {[secret |-> s, layers |-> Layers(f)] : s \in Secrets, f \in Files}]
    /\ \A l \in Kept : ConsistentIn(rcp, sealed, l)

\* All at once: the recipients of d, and the seal of every entry in its scope.
ReplaceRecipients(d, f) ==
    /\ rcp' = [rcp EXCEPT ![d] = f]
    /\ sealed' = [l \in Labels |->
          IF l \in Kept /\ ScopeIn(rcp, l) = d
          THEN [secret |-> sealed[l].secret, layers |-> Layers(f)]
          ELSE sealed[l]]

Put(l, s) ==
    /\ ScopeIn(rcp, l) # NoDir
    /\ sealed' = [sealed EXCEPT ![l] =
          [secret |-> s, layers |-> Layers(rcp[ScopeIn(rcp, l)])]]
    /\ UNCHANGED rcp

Remove(l) ==
    /\ l \in Kept
    /\ sealed' = [sealed EXCEPT ![l] = Absent]
    /\ UNCHANGED rcp

VaultNext ==
    \/ \E d \in Dirs, f \in Files : ReplaceRecipients(d, f)
    \/ \E l \in Labels, s \in Secrets : Put(l, s)
    \/ \E l \in Labels : Remove(l)

VaultSpec == VaultInit /\ [][VaultNext]_<<rcp, sealed>>
=============================================================================
